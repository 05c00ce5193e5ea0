------------------------------ MODULE Assessor ------------------------------
(***************************************************************************)
(* The composite risk assessor of src/engine/aras.py: a score becomes one  *)
(* of five regimes, through boundaries and through confirmation counts.    *)
(* Scores are in hundredths; the regime is its index in REGIME_NAMES, 0    *)
(* for RISK_ON up to 4 for CRASH.                                          *)
(*                                                                         *)
(* `recent` and `sinceCrash` are history variables. The code keeps neither *)
(* and no action reads them; the properties do.                            *)
(*                                                                         *)
(* Aras runs it alone, RegimeSweep behind the feeds of a sweep.            *)
(***************************************************************************)
EXTENDS Integers

UpgradeConfirmations == 3
DowngradeConfirmations == 2

Crash == 4
Regimes == 0..Crash
RegimeCeiling(r) == <<100, 100, 75, 40, 15>>[r + 1]

\* The longest way back: four bands of UpgradeConfirmations observations.
RecoveryTime == Crash * UpgradeConfirmations

VARIABLES
    regime,         \* _regime_idx
    pending,        \* _pending_target_idx, _pending_direction, _pending_count
    obs,            \* arguments of the last assess()
    recent,         \* the last three observations: target, and regime then
    sinceCrash      \* observations since the last CRASH print, capped

assessor == <<regime, pending, obs, recent, sinceCrash>>

----------------------------------------------------------------------------
TargetRegimeIdx(score) ==
    CASE score <= 30 -> 0
      [] 30 < score /\ score <= 50 -> 1
      [] 50 < score /\ score <= 65 -> 2
      [] 65 < score /\ score <= 80 -> 3
      [] OTHER -> Crash

EdrAdvisoryContribution(score) ==
    CASE score >= 75 -> 6
      [] 60 <= score /\ score < 75 -> 4
      [] 40 <= score /\ score < 60 -> 2
      [] OTHER -> 0

Adjusted(o) ==
    LET sum == o.score + EdrAdvisoryContribution(o.delev)
                       + EdrAdvisoryContribution(o.micro)
    IN  IF sum > 100 THEN 100 ELSE sum

Target(o) == TargetRegimeIdx(Adjusted(o))

----------------------------------------------------------------------------
NoPending == [step |-> -1, direction |-> "NONE", count |-> 0]

\* Mutant: the two confirmation counts swapped.
NeededSwapped(direction) == IF direction = "MORE_DEF" THEN UpgradeConfirmations
                                                      ELSE DowngradeConfirmations

Needed(direction) == IF direction = "MORE_DEF" THEN DowngradeConfirmations
                                               ELSE UpgradeConfirmations

Direction(target) == IF target > regime THEN "MORE_DEF" ELSE "LESS_DEF"

\* Mutant: the sign of the step reversed.
StepReversed(target) == IF target > regime THEN regime - 1 ELSE regime + 1

Step(target) == IF target > regime THEN regime + 1 ELSE regime - 1

\* Mutants: a streak that survives a change of direction, and one that a
\* repeated observation does not lengthen.
StreakOfAnyKind(target) == pending.count + 1
StreakNeverGrows(target) == 1

\* Which confirmation of the step it asks for this observation is.
Streak(target) ==
    IF pending.step = Step(target) /\ pending.direction = Direction(target)
    THEN pending.count + 1
    ELSE 1

Confirmed(target) == Streak(target) >= Needed(Direction(target))

Observe(o) ==
    /\ obs' = o
    /\ recent' = [i \in 1..3 |-> IF i = 1 THEN [target |-> Target(o), regime |-> regime]
                                          ELSE recent[i - 1]]
    /\ sinceCrash' = IF Target(o) = Crash THEN 0
                     ELSE IF sinceCrash < RecoveryTime THEN sinceCrash + 1
                     ELSE sinceCrash

AssessCrash(o) ==
    /\ Target(o) = Crash
    /\ Observe(o)
    /\ regime' = Crash
    /\ pending' = NoPending

AssessConfirmed(o) ==
    /\ Target(o) = regime
    /\ Target(o) # Crash
    /\ Observe(o)
    /\ UNCHANGED regime
    /\ pending' = NoPending

AssessCount(o) ==
    /\ Target(o) \notin {Crash, regime}
    /\ ~Confirmed(Target(o))
    /\ Observe(o)
    /\ UNCHANGED regime
    /\ pending' = [step |-> Step(Target(o)), direction |-> Direction(Target(o)),
                   count |-> Streak(Target(o))]

\* Mutant: the confirmed streak takes the regime all the way to its target.
AssessStepJumps(o) ==
    /\ Target(o) \notin {Crash, regime}
    /\ Confirmed(Target(o))
    /\ Observe(o)
    /\ regime' = Target(o)
    /\ pending' = NoPending

AssessStep(o) ==
    /\ Target(o) \notin {Crash, regime}
    /\ Confirmed(Target(o))
    /\ Observe(o)
    /\ regime' = Step(Target(o))
    /\ pending' = NoPending

\* __init__: a process that starts, or starts again, knows nothing.
FreshAssessor == regime = 0 /\ pending = NoPending

NoObservation == [target |-> -1, regime |-> -1]

----------------------------------------------------------------------------
\* Recovery from a CRASH print goes band by band: the ceiling is back at a band
\* only after three observations for each band climbed, however the scores
\* move in between (the 2025 backtest bug the comment in assess() tells of).
RecoveryIsStaged == UpgradeConfirmations * (Crash - regime) <= sinceCrash

\* The regime relaxes by one band, and only when the last three observations
\* all asked for less than the regime that was in force through all of them.
RelaxIsEarned ==
    [][regime' < regime =>
         /\ regime' = regime - 1
         /\ \A i \in 1..3 : /\ recent'[i].regime = regime
                            /\ recent'[i].target < regime]_assessor

\* The regime tightens at once on a CRASH print, and otherwise by one band and
\* only when the last two observations both asked for more.
TightenIsEarned ==
    [][regime' > regime =>
         \/ regime' = Crash /\ recent'[1].target = Crash
         \/ /\ regime' = regime + 1
            /\ \A i \in 1..2 : /\ recent'[i].regime = regime
                               /\ recent'[i].target > regime]_assessor

\* The observations the regime in force has lasted, of the last two.
Age == IF recent[1].regime # regime THEN 0
       ELSE IF recent[2].regime # regime THEN 1
       ELSE 2

Governor == INSTANCE RegimeGovernor WITH
                RelaxAfter <- UpgradeConfirmations,
                TightenAfter <- DowngradeConfirmations,
                age <- Age

\* The assessor keeps the promise the consumers of the regime rely on.
Governed == Governor!GovSpec

\* What the header of aras.py says of the EDR sub-modules: neither module can
\* force a regime change independently. While one of them contributes nothing,
\* a regime the macro score itself maps to is not left.
NoEdrModuleForces ==
    [][ (\/ EdrAdvisoryContribution(obs'.delev) = 0
         \/ EdrAdvisoryContribution(obs'.micro) = 0)
        /\ TargetRegimeIdx(obs'.score) = regime
        => regime' = regime]_assessor

=============================================================================
