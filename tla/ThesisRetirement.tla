-------------------------- MODULE ThesisRetirement --------------------------
(***************************************************************************)
(* How one equity position decays and retires, over the weeks: the CDF     *)
(* record of engine/cdf_state.py counts the days it is behind QQQ, the TDC *)
(* record of engine/tdc_state.py holds the last thesis review, and the     *)
(* retirement check of engine/thesis_retirement.py reads both, in the      *)
(* order run_full_arms_cycle of main.py calls them. The sweep is scheduled *)
(* Monday to Friday and tried up to three times.                           *)
(*                                                                         *)
(* The relative performance, the count a PM may supply for the position    *)
(* (engine/cdf_bridge.py), the CDM alerts and the model's answer to a      *)
(* review are inputs. The thresholds are parameters to keep the counts     *)
(* small: 45, 90, 135 and 30 days in the code.                             *)
(***************************************************************************)
EXTENDS Integers

CONSTANTS
    FirstDecay, SecondDecay, ExitMilestone, BrokenThresholdDays,
    BridgeCounts    \* days_underperforming of the bridge file, 0 for no record

ASSUME ThresholdsAssumption ==
    /\ {FirstDecay, SecondDecay, ExitMilestone, BrokenThresholdDays} \subseteq Nat \ {0}
    /\ FirstDecay < SecondDecay /\ SecondDecay < ExitMilestone
    /\ BridgeCounts \subseteq Nat

Milestones == {FirstDecay, SecondDecay, ExitMilestone}
MaxCount == ExitMilestone + 1

Labels == {"NONE", "INTACT", "WATCH", "IMPAIRED", "BROKEN"}
MaxAttempts == 3

VARIABLES
    weekday,        \* 0 = Monday .. 6 = Sunday
    attempts,       \* sweeps begun today
    reviewing,      \* a sweep has done its decay step and not its reviews
    behindDays,     \* underperforming_days of the CDF record
    countedToday,   \* its updated_at is of today
    behind,         \* the underperformance of the sweep is past the threshold
    days,           \* days_under of the sweep, which its decay is computed from
    label,          \* tis_label of the TDC record
    age,            \* days since its reviewed_at
    unavailable,    \* its review failed, and says so
    due,            \* is_retirement_due, of the last retirement check
    atMidnight,     \* history: behindDays when the day began
    brokenFor,      \* history: days the label has been BROKEN for
    sinceAudit      \* history: days since the weekly audit last ran

decay == <<behindDays, countedToday, behind, days>>
thesis == <<label, age, unavailable>>
history == <<atMidnight, brokenFor, sinceAudit>>
vars == <<weekday, attempts, reviewing, decay, thesis, due, history>>

Cap(n, limit) == IF n > limit THEN limit ELSE n
Greater(m, n) == IF m > n THEN m ELSE n

Init ==
    /\ weekday = 0 /\ attempts = 0 /\ reviewing = FALSE
    /\ behindDays = 0 /\ countedToday = FALSE /\ behind = FALSE /\ days = 0
    /\ label = "NONE" /\ age = 0 /\ unavailable = FALSE /\ due = FALSE
    /\ atMidnight = 0 /\ brokenFor = 0 /\ sinceAudit = 0

----------------------------------------------------------------------------
\* Mutant: every sweep counts a day.
DaysBehindPerSweep(isBehind) ==
    IF isBehind THEN Cap(behindDays + 1, MaxCount) ELSE 0

\* update_cdf_state: one day per calendar day, and back to none when not behind.
\* The count is cut off past the last milestone, where nothing depends on it.
DaysBehind(isBehind) ==
    IF ~isBehind THEN 0
    ELSE IF countedToday THEN behindDays
    ELSE Cap(behindDays + 1, MaxCount)

\* calculate_position_decay, percent: nothing is decayed unless it is behind now.
Multiplier(n, isBehind) ==
    CASE isBehind /\ n >= SecondDecay -> 60
      [] isBehind /\ n \in FirstDecay..(SecondDecay - 1) -> 80
      [] OTHER -> 100

\* On the day of a milestone the message it logs formats the multiplier with
\* ":.2x", which a float does not have: a ValueError nothing on the way catches.
DecayRaises(n, isBehind) == isBehind /\ n \in Milestones

\* run_trp_check: a broken thesis and an exhausted performance. A missing PM
\* reaffirmation only changes the reason it gives.
RetirementDue(reviewed, brokenDays, multiplier) ==
    /\ reviewed = "BROKEN" /\ brokenDays >= BrokenThresholdDays
    /\ multiplier <= 60

\* The weekly audit runs on TDC_WEEKLY_AUDIT_DAY, a Sunday, or not at all.
AuditDay == weekday = 6

----------------------------------------------------------------------------
\* Mutant: the record is saved when the multiplier has been computed.
DecaySavedLast ==
    /\ weekday \in 0..4 /\ ~reviewing /\ attempts < MaxAttempts
    /\ attempts' = attempts + 1
    /\ \E isBehind \in BOOLEAN, supplied \in BridgeCounts :
          /\ behind' = isBehind
          /\ days' = Greater(supplied, DaysBehind(isBehind))
          /\ reviewing' = ~DecayRaises(days', isBehind)
          /\ behindDays' = IF reviewing' THEN DaysBehind(isBehind) ELSE behindDays
    /\ countedToday' = (countedToday \/ reviewing')
    /\ UNCHANGED <<weekday, thesis, due, history>>

\* The decay step of a sweep, or of a retried one: the record is saved, and what
\* is decayed is the larger of its count and the one supplied. The record is kept
\* when the step raises and takes the sweep with it, and when a later one does.
Decay ==
    /\ weekday \in 0..4 /\ ~reviewing /\ attempts < MaxAttempts
    /\ attempts' = attempts + 1
    /\ \E isBehind \in BOOLEAN, supplied \in BridgeCounts :
          /\ behind' = isBehind
          /\ behindDays' = DaysBehind(isBehind)
          /\ days' = Greater(supplied, behindDays')
          /\ reviewing' = ~DecayRaises(days', isBehind)
    /\ countedToday' = TRUE
    /\ UNCHANGED <<weekday, thesis, due, history>>

\* The reviews of a sweep, of an alert or of the weekly audit: the record is
\* overwritten, and the retirement check reads the record it has just become, so
\* that days_broken is the age of this review.
Review(outcome, failed) ==
    /\ reviewing /\ reviewing' = FALSE
    /\ label' = outcome /\ age' = 0 /\ unavailable' = failed
    /\ due' = RetirementDue(label', age', Multiplier(days, behind))
    /\ brokenFor' = IF outcome = "BROKEN" THEN brokenFor ELSE 0
    /\ sinceAudit' = IF AuditDay THEN 0 ELSE sinceAudit
    /\ UNCHANGED <<weekday, attempts, decay, atMidnight>>

ModelAnswers == \E outcome \in Labels \ {"NONE"} : Review(outcome, FALSE)

\* The model fails or answers nonsense.
ModelFails == Review("WATCH", TRUE)

\* The sweep raises before its reviews; or there is no alert and no audit, so no
\* result and no retirement check for this position.
NoReview ==
    /\ reviewing /\ reviewing' = FALSE
    /\ UNCHANGED <<weekday, attempts, decay, thesis, due, history>>

Midnight ==
    /\ ~reviewing
    /\ weekday' = (weekday + 1) % 7
    /\ attempts' = 0 /\ countedToday' = FALSE
    /\ age' = IF label = "NONE" THEN 0 ELSE Cap(age + 1, BrokenThresholdDays)
    /\ atMidnight' = behindDays
    /\ brokenFor' = IF label = "BROKEN" THEN Cap(brokenFor + 1, BrokenThresholdDays) ELSE 0
    /\ sinceAudit' = Cap(sinceAudit + 1, 8)
    /\ UNCHANGED <<reviewing, behindDays, behind, days, label, unavailable, due>>

Next == Decay \/ ModelAnswers \/ ModelFails \/ NoReview \/ Midnight

Spec == Init /\ [][Next]_vars

\* The days go by, and on infinitely many of them a sweep gets as far as the
\* decay step and, where that returns, ends one way or another.
FairSpec ==
    /\ Spec
    /\ WF_vars(Midnight) /\ SF_vars(Decay)
    /\ WF_vars(ModelAnswers \/ ModelFails \/ NoReview)

----------------------------------------------------------------------------
TypeOK ==
    /\ weekday \in 0..6 /\ attempts \in 0..MaxAttempts /\ reviewing \in BOOLEAN
    /\ behindDays \in 0..MaxCount /\ countedToday \in BOOLEAN /\ behind \in BOOLEAN
    /\ days \in Nat
    /\ label \in Labels /\ age \in 0..BrokenThresholdDays
    /\ unavailable \in BOOLEAN /\ due \in BOOLEAN
    /\ atMidnight \in 0..MaxCount /\ brokenFor \in 0..BrokenThresholdDays
    /\ sinceAudit \in 0..8
    /\ ~behind => behindDays = 0

\* However many attempts the sweeps of a day take, and wherever they stop, the
\* day advances the count on record by one day at most.
OneDayAtATime == behindDays <= atMidnight + 1

\* A position that stays behind decays to the floor: every milestone takes the
\* sweeps of its day, but none holds the count back, whatever the PM supplies, and
\* in the end sweeps get past the decay step, all of them with the floor.
Decays ==
    <>[]behind => []<>reviewing /\ <>[](reviewing => Multiplier(days, behind) = 60)

\* cdf.py logs "Day {n} Milestone: multiplier set to ..." and prints "Decay
\* Applied": the sweep that finds a position at a milestone sets its multiplier.
MilestonesApply ==
    [][attempts' > attempts /\ behind' /\ days' \in Milestones => reviewing']_vars

\* thesis_retirement.py: "Trigger: TIS BROKEN 30d + CDF at 0.60x + no PM
\* reaffirmation 45d". No reaffirmation is ever given here: a review that finds the
\* thesis broken for that long, at the decay floor, makes the retirement due.
RetiresWhenBroken ==
    [][/\ reviewing /\ label = "BROKEN" /\ label' = "BROKEN" /\ age' < age
       /\ brokenFor = BrokenThresholdDays
       /\ Multiplier(days, behind) = 60
       => due']_vars

\* tdc.py: the weekly audit is "run only on the configured audit day (default:
\* Sunday)" on all equity positions. A week never goes by without it.
AuditedWeekly == sinceAudit <= 7

\* tdc.py: a failed review is a "conservative fail-safe ... Never silently
\* approve". It never lifts a thesis that is broken.
FailSafeIsConservative == [][~unavailable /\ unavailable' => label # "BROKEN"]_vars

=============================================================================
