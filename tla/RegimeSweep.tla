---------------------------- MODULE RegimeSweep -----------------------------
(***************************************************************************)
(* How a live sweep comes to its regime: the attempts of src/main.py from  *)
(* the feeds to the dependency scan, as the scheduler starts them three    *)
(* times a morning. An attempt reads the feeds, takes the news it has not  *)
(* seen and stores that it has, scores the market, lets ARAS assess the    *)
(* score, runs the monitors and scans the news for dependent positions.    *)
(* It raises wherever the code does, and in the end always: what follows   *)
(* the scan, MorningSweep models.                                          *)
(*                                                                         *)
(* The store of seen news is a file; the assessor and the histories of the *)
(* forecast live as long as the process. `dawn`, `asked`, `scanned` and    *)
(* `behind` are history variables, which no action reads.                  *)
(***************************************************************************)
EXTENDS Assessor, MacroCompass, EdrScores, NewsEvents, LiveFeeds, MarketMonitors

CONSTANTS
    Worlds,         \* what the services and the news feeds may hold on a morning
    Outages,        \* sets of services that may be down together
    Dependencies,   \* per position: the names its dependencies contain, sensitivity
    Aliases,        \* pairs of names taken for one another
    RpeWindow,      \* WINDOW_SIZE: values of a signal the forecast keeps, 12
    PcrKept,        \* values of the put/call history that are kept, 30
    Attempts,       \* attempts of a morning
    Days            \* bound: mornings

Services == Feeds \cup {"BROKER"}
Items == UNION {ToSet(w.news) : w \in Worlds}
Ids == {item.id : item \in Items}

\* An id stands for what the fingerprint of an item is made of: its source,
\* headline, date, type and entities.
ASSUME RegimeAssumption ==
    /\ \A w \in Worlds : IsWorld(w) /\ w.news \in Seq(Items)
    /\ \A i \in Items : IsItem(i)
    /\ \A i, j \in Items : i.id = j.id => i.form = j.form
    /\ \A o \in Outages : o \subseteq Services
    /\ RpeWindow \in Nat \ {0} /\ PcrKept \in Nat \ {0}
    /\ Attempts \in Nat \ {0} /\ Days \in Nat \ {0}

VARIABLES
    world, day, attempt,    \* today's services; which attempt of which morning
    pc,                     \* where the attempt is
    up, fresh, floor,       \* services that answer; the news it took, their floor
    seen,                   \* the store of seen events, oldest first
    pcr, rpe, alarms,       \* histories of the monitors; what the attempt logged
    dawn, asked,            \* the regime at dawn, the targets assessed since
    scanned, behind         \* per item: scans so far (2 is more), keys stored since its own

monitors == <<pcr, rpe, alarms>>
history == <<dawn, asked, scanned, behind>>
vars == <<assessor, world, day, attempt, pc, up, fresh, floor, seen, monitors, history>>

Clock == Attempts * day + attempt
Now == 24 * day

----------------------------------------------------------------------------
\* What an attempt makes of the signals it has.
Signals(services) == AllSignals(world, services)

Assessed(signals, newsFloor) ==
    [score |-> RegimeScore(signals, newsFloor),
     delev |-> DeleveragingScore(DelevInputs(signals)),
     micro |-> MicrostructureScore(MicroInputs(signals))]

\* EDR_HIGH_RISK, as logged: the deleveraging module has no status "ACTIVE".
HighRisk(signals) ==
    LET hy == Value("HY_CREDIT_SPREAD", signals["HY_CREDIT_SPREAD"])
        vix == Value("VIX_INDEX", signals["VIX_INDEX"])
    IN  \/ MarginStressActive(hy, vix)
        \/ NegativeGamma(vix)
        \/ MicrostructureCritical(MicroInputs(signals))

----------------------------------------------------------------------------
\* The dependency scan of engine/cdm.py.
Sensitivity == [CRITICAL |-> {"LEGAL_RULING", "REGULATORY_FILING", "EARNINGS_WARNING",
                              "MA_ANNOUNCEMENT", "INSIDER_SALE"},
                HIGH |-> {"LEGAL_RULING", "REGULATORY_FILING", "EARNINGS_WARNING",
                          "MA_ANNOUNCEMENT", "INSIDER_SALE", "LEADERSHIP_CHANGE",
                          "CREDIT_EVENT"},
                MEDIUM |-> {"PARTNERSHIP_CHANGE", "PRODUCT_DELAY", "LEADERSHIP_CHANGE"}]

\* _find_dependent_tickers: a name matches where it, or the one it stands for,
\* occurs in the name of a dependency.
DependentTickers(entity) ==
    LET names == {entity} \cup {p[2] : p \in {q \in Aliases : q[1] = entity}}
    IN  {t \in DOMAIN Dependencies : names \cap Dependencies[t].names # {}}

CdmAlerts(items) ==
    UNION {{[ticker |-> t, item |-> item.id] : t \in
              {t \in UNION {DependentTickers(e) : e \in item.entities} :
                  item.type \in Sensitivity[Dependencies[t].sensitivity]}} :
           item \in {i \in ToSet(items) : i.type \notin {"POSITIVE_DEVELOPMENT", "UNKNOWN"}}}

----------------------------------------------------------------------------
\* One attempt, step by step. A step that raises ends it.

\* run_overnight_monitor, and the pipeline: a critical feed that is down raises.
ReadFeeds ==
    /\ pc = "start"
    /\ \E down \in Outages : up' = Services \ down
    /\ pc' = IF PipelineAnswers(up') THEN "news" ELSE "raised"
    /\ alarms' = IF OvernightStatus(world.es, world.vixFuture) = "GAP_CRITICAL"
                 THEN {"OVERNIGHT_GAP_CRITICAL"} ELSE {}
    /\ UNCHANGED <<assessor, world, day, attempt, fresh, floor, seen, pcr, rpe, history>>

\* Keys stored since an item's own, up to MaxKeys: one that is not in the store
\* has been pushed out by that many, or was never there.
KeysBehind(keys) ==
    [i \in Ids |->
        LET own == {n \in DOMAIN keys : keys[n][1] = i}
            after == IF own = {} THEN behind[i] + Len(keys) ELSE Len(keys) - Max(own)
        IN  IF after > MaxKeys THEN MaxKeys ELSE after]

\* The news feeds, dedupe_news_items and derive_macro_event_state. The store is
\* written before the events are dated, which may raise.
ReadNews ==
    /\ pc = "news"
    /\ fresh' = Deduped(Fetched(world.news), seen, Clock)
    /\ seen' = StoreAfter(fresh', seen, Clock)
    /\ behind' = KeysBehind(Keys(fresh', Clock))
    /\ IF Datable(fresh')
       THEN pc' = "assess" /\ floor' = OverrideFloor(MacroEventState(fresh', Now))
       ELSE pc' = "raised" /\ UNCHANGED floor
    /\ UNCHANGED <<assessor, world, day, attempt, up, monitors, dawn, asked, scanned>>

\* The score, the advisory modules, and, if the broker has a price of SPY for
\* the circuit breaker, the assessment.
AssessRegime ==
    /\ pc = "assess"
    /\ "BROKER" \in up
    /\ Scorable(Signals(up))
    /\ LET o == Assessed(Signals(up), floor)
       IN  /\ AssessCrash(o) \/ AssessConfirmed(o) \/ AssessCount(o) \/ AssessStep(o)
           /\ asked' = Append(asked, Target(o))
    /\ alarms' = alarms \cup (IF HighRisk(Signals(up)) THEN {"EDR_HIGH_RISK"} ELSE {})
    /\ pc' = "monitor"
    /\ UNCHANGED <<world, day, attempt, up, fresh, floor, seen, pcr, rpe, dawn, scanned, behind>>

NoPriceOfSpy ==
    /\ pc = "assess"
    /\ "BROKER" \notin up
    /\ pc' = "raised"
    /\ UNCHANGED <<assessor, world, day, attempt, up, fresh, floor, seen, monitors, history>>

\* The put/call regime, the calendar, the sentiment, the forecast and the
\* heartbeat. The two histories grow by this attempt's values.
RunMonitors ==
    /\ pc = "monitor"
    /\ LET s == Signals(up)
           rss == RssLabel(RssScore(world.flow, world.naaim, world.aaii))
       IN  /\ pcr' = Trailing(PcrKept, Append(pcr, Value("EQUITY_PCR", s["EQUITY_PCR"])))
           /\ rpe' = [t \in TrackedSignals |->
                        IF t \in DOMAIN s THEN Trailing(RpeWindow, Append(rpe[t], Value(t, s[t])))
                                          ELSE rpe[t]]
           /\ alarms' = alarms
                \cup (IF ShutdownStatus(world.calendar) > 0 THEN {"SHUTDOWN_RISK_ACTIVE"} ELSE {})
                \cup (IF rss \in {"EXTREME_FEAR", "EXTREME_GREED"} THEN {"RSS_SIGNAL"} ELSE {})
                \cup (IF RpeHighest(RpeForecast(rpe', regime), regime) # regime
                      THEN {"RPE_SIGNAL"} ELSE {})
                \cup (IF SafetyTier(SweepHeartbeat) > 0 THEN {"INCAPACITATION_ALERT"} ELSE {})
    /\ pc' = "scan"
    /\ UNCHANGED <<assessor, world, day, attempt, up, fresh, floor, seen, history>>

\* run_cdm_scan over the news of the attempt; then the rest of the sweep, which
\* raises in every attempt.
ScanNews ==
    /\ pc = "scan"
    /\ scanned' = [i \in Ids |-> IF i \in {item.id : item \in ToSet(fresh)}
                                  THEN Least(2, scanned[i] + 1) ELSE scanned[i]]
    /\ alarms' = alarms \cup (IF CdmAlerts(fresh) = {} THEN {} ELSE {"CDM_PROPAGATION"})
    /\ pc' = "raised"
    /\ UNCHANGED <<assessor, world, day, attempt, up, fresh, floor, seen, pcr, rpe,
                   dawn, asked, behind>>

\* _run_with_retry: the next attempt starts over, with what outlives one.
Retry ==
    /\ pc = "raised"
    /\ attempt < Attempts
    /\ attempt' = attempt + 1
    /\ pc' = "start" /\ up' = {} /\ fresh' = <<>> /\ floor' = 0 /\ alarms' = {}
    /\ UNCHANGED <<assessor, world, day, seen, pcr, rpe, history>>

NextMorning ==
    /\ pc = "raised"
    /\ attempt = Attempts
    /\ day < Days
    /\ day' = day + 1 /\ attempt' = 1
    /\ world' \in Worlds
    /\ dawn' = regime /\ asked' = <<>>
    /\ pc' = "start" /\ up' = {} /\ fresh' = <<>> /\ floor' = 0 /\ alarms' = {}
    /\ UNCHANGED <<assessor, seen, pcr, rpe, scanned, behind>>

----------------------------------------------------------------------------
\* What earlier mornings may have left in the assessor: any regime, and one
\* confirmation too few, or more, for the next.
Carried ==
    {[step |-> regime - 1, direction |-> "LESS_DEF", count |-> c] :
        c \in {c \in 1..UpgradeConfirmations - 1 : regime > 0}}
    \cup {[step |-> regime + 1, direction |-> "MORE_DEF", count |-> c] :
            c \in {c \in 1..DowngradeConfirmations - 1 : regime < Crash}}

Init ==
    /\ regime \in Regimes /\ pending \in {NoPending} \cup Carried
    /\ obs = [score |-> 0, delev |-> 0, micro |-> 0]
    /\ recent = [i \in 1..3 |-> NoObservation]
    /\ sinceCrash = RecoveryTime
    /\ world \in Worlds /\ day = 1 /\ attempt = 1
    /\ pc = "start" /\ up = {} /\ fresh = <<>> /\ floor = 0
    /\ seen = <<>> /\ pcr = <<>> /\ rpe = [t \in TrackedSignals |-> <<>>] /\ alarms = {}
    /\ dawn = regime /\ asked = <<>>
    /\ scanned = [i \in Ids |-> 0] /\ behind = [i \in Ids |-> MaxKeys]

Next == \/ ReadFeeds \/ ReadNews \/ AssessRegime \/ NoPriceOfSpy \/ RunMonitors
        \/ ScanNews \/ Retry \/ NextMorning

Spec == Init /\ [][Next]_vars

----------------------------------------------------------------------------
TypeOK ==
    /\ regime \in Regimes
    /\ pending \in [step : -1..Crash, direction : {"NONE", "MORE_DEF", "LESS_DEF"},
                    count : 0..2]
    /\ world \in Worlds /\ day \in 1..Days /\ attempt \in 1..Attempts
    /\ pc \in {"start", "news", "assess", "monitor", "scan", "raised"}
    /\ up \subseteq Services /\ ToSet(fresh) \subseteq Items /\ floor \in 0..Unit
    /\ Len(seen) <= MaxKeys
    /\ Len(pcr) <= PcrKept
    /\ \A t \in TrackedSignals : Len(rpe[t]) <= RpeWindow
    /\ dawn \in Regimes /\ Len(asked) <= attempt
    /\ scanned \in [Ids -> 0..2] /\ behind \in [Ids -> 0..MaxKeys]

Keyed(items) == {item.id : item \in {i \in items : i.form # "undated"}}

\* A dated item is taken for news again only after MaxKeys others have been
\* stored since it was: retries, mornings and failed attempts in between, the
\* feeds do not trigger the same workflow again (event_state.py).
NewsIsNewOnce ==
    [][pc = "news" /\ pc' # pc =>
         \A i \in Keyed(ToSet(fresh')) : behind[i] = MaxKeys]_vars

\* The three attempts of a morning are three observations to the assessor, and
\* so is what the day before left pending: still a morning takes the regime
\* back by no more than one band.
OneBandAMorning == regime >= dawn - 1

\* A morning on which at least two attempts assess the market, and all that do
\* ask for more than the regime at dawn, ends in a tighter regime, whatever
\* failed before, between and after them.
StressedMorningTightens ==
    pc = "raised" /\ attempt = Attempts /\ Len(asked) >= 2
        /\ (\A n \in DOMAIN asked : asked[n] > dawn)
    => regime > dawn

TargetWith(services) == Target(Assessed(Signals(services), floor))

\* The feeds the pipeline does without cost one band at most, and never raise
\* the alarm by their absence.
OutageCostsOneBand ==
    pc = "assess" =>
        \A down \in SUBSET OptionalFeeds :
            /\ TargetWith(Services \ down) >= TargetWith(Services) - 1
            /\ TargetWith(Services \ down) <= TargetWith(Services)

\* How the readings worsen.
Worse == [VIX_INDEX |-> 400, HY_CREDIT_SPREAD |-> 100, PMI_NOWCAST |-> -200,
          CBOE_SKEW |-> 500, MARGIN_DEBT_3M_GROWTH |-> 400]

Worsened(signals, t) == [signals EXCEPT ![t] = @ + Worse[t]]

\* A market that is worse in one reading, all else equal, never has the lower
\* score, advisory modules included.
WorseIsNeverCalmer ==
    pc = "assess" =>
        LET s == Signals(up)
        IN  \A t \in DOMAIN s \cap DOMAIN Worse :
               Adjusted(Assessed(Worsened(s, t), floor)) >= Adjusted(Assessed(s, floor))

----------------------------------------------------------------------------
\* What the repository says and the code does not do; the README has the runs.

\* event_state.py: polling does not re-trigger the same workflow endlessly. An
\* RSS item without a date is new whenever it is fetched.
NothingTriggersTwice == \A i \in Ids : scanned[i] <= 1

\* macro_event_state.py: ttl_hours is how long an event stays active. All that
\* is stored as seen and still in its time is under the score of an attempt.
ActiveEventsContribute ==
    pc = "monitor" =>
        \A item \in Items :
            /\ \E n \in DOMAIN seen : seen[n][1] = item.id
            /\ item.form = "zoned" /\ IsActive(item, Now)
            => 100 * obs.score >= OverrideFloor(MacroEventState(<<item>>, Now))

\* What was stored as seen has been scanned when its attempt is over.
SeenIsScanned ==
    pc = "raised" => \A n \in DOMAIN seen : scanned[seen[n][1]] > 0

\* regime_probability.py: a transition of more than 20% is logged.
ElevatedIsLogged ==
    pc = "scan" /\ RpeForecast(rpe, regime).chance > 20 => "RPE_SIGNAL" \in alarms

=============================================================================
