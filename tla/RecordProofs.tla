---------------------------- MODULE RecordProofs ----------------------------
(***************************************************************************)
(* Three records the live sweep keeps in files from one attempt to the     *)
(* next, whatever attempts are retried or given up.                        *)
(*                                                                         *)
(* The high-water mark, for every set of NAVs: while processes run their   *)
(* file writes to the end, the mark is the highest NAV recorded, and the   *)
(* ceiling of every check covers the drawdown from it. The decay count of  *)
(* a position, for all thresholds: it moves by one day a day at most. The  *)
(* strategic queue, for any items, theses, mornings and crashes: what its  *)
(* two files tell of each other, and what an item needs to stand as        *)
(* triggered.                                                              *)
(***************************************************************************)
EXTENDS LiveDrawdown, ThesisRetirement, CandidateQueue, TLAPS

\* What a sweep has read is what the file holds, the NAV itself standing in for a
\* mark that is not there; while the file is truncated, what it held is in memory.
Read ==
    /\ pc \in {"read", "open", "write"} => mark = MarkOr(peak, nav)
    /\ pc = "read" => status = PdsStatus(nav, mark, "NORMAL")

MarkInv == MarkTypeOK /\ MarkIsPeak /\ Read

LEMMA NavsArePositive == NoMark \in Nat /\ \A n \in Navs : n \in Nat /\ n # NoMark /\ n > NoMark
BY NavsAssumption DEF NoMark

LEMMA StatusType ==
    ASSUME NEW n \in Nat, NEW h \in Nat, NEW last \in PdsStatuses
    PROVE  PdsStatus(n, h, last) \in PdsStatuses
BY DEF PdsStatus, PdsStatuses, RawStatus, Down

LEMMA MarkOpens == MarkInit => MarkInv
BY NavsArePositive DEF MarkInit, MarkInv, MarkTypeOK, MarkIsPeak, Read, PdsStatuses, NoMark

LEMMA MarkStep == MarkInv /\ [Steps \/ Raise]_markVars => MarkInv'
<1> SUFFICES ASSUME MarkInv, [Steps \/ Raise]_markVars PROVE MarkInv'
  OBVIOUS
<1> USE NavsArePositive DEF MarkInv
<1>1. CASE Begin
  BY <1>1 DEF Begin, MarkTypeOK, MarkIsPeak, Read, MarkOr
<1>2. CASE Check
  <2>1. mark' = MarkOr(peak, nav) /\ mark' \in Navs
    BY <1>2 DEF Check, MarkOr, MarkTypeOK, MarkIsPeak
  <2>2. status' \in PdsStatuses
    BY <1>2, <2>1, StatusType DEF Check, MarkTypeOK, PdsStatuses
  <2> QED
    BY <1>2, <2>1, <2>2 DEF Check, MarkTypeOK, MarkIsPeak, Read, MarkOr
<1>3. CASE ReadAgain
  BY <1>3 DEF ReadAgain, MarkTypeOK, MarkIsPeak, Read, MarkOr
<1>4. CASE Truncate
  BY <1>4 DEF Truncate, MarkTypeOK, MarkIsPeak, Read, MarkOr
<1>5. CASE Write
  BY <1>5 DEF Write, MarkTypeOK, MarkIsPeak, Read, MarkOr, Higher
<1>6. CASE Raise
  BY <1>6 DEF Raise, Stop, MarkTypeOK, MarkIsPeak, Read, MarkOr
<1>7. CASE UNCHANGED markVars
  BY <1>7 DEF markVars, MarkTypeOK, MarkIsPeak, Read, MarkOr
<1> QED
  BY <1>1, <1>2, <1>3, <1>4, <1>5, <1>6, <1>7 DEF Steps

LEMMA MarkInvariance == MarkSpec => []MarkInv
BY MarkOpens, MarkStep, PTL DEF MarkSpec

\* Types are kept, and a sweep past its check has a mark to work with.
THEOREM LiveTypes == MarkSpec => []MarkTypeOK
BY MarkInvariance, PTL DEF MarkInv

\* The file is the highest NAV recorded, whatever attempts were given up.
THEOREM MarkStaysPeak == MarkSpec => []MarkIsPeak
BY MarkInvariance, PTL DEF MarkInv

LEMMA CoversNow == MarkInv => CeilingCoversPeak
<1> SUFFICES ASSUME MarkInv, pc = "read", peak # NoMark
             PROVE  /\ Down(12, nav, peak) => PdsCeiling(status) <= 600
                    /\ Down(18, nav, peak) => PdsCeiling(status) <= 300
  BY DEF CeilingCoversPeak
<1>1. mark = peak /\ nav \in Nat /\ peak \in Nat
  BY NavsArePositive DEF MarkInv, Read, MarkOr, MarkTypeOK
<1>2. status = RawStatus(nav, peak)
  BY <1>1 DEF MarkInv, Read, PdsStatus
<1> QED
  BY <1>1, <1>2 DEF RawStatus, PdsCeiling, Down

\* No check of the live system grants more than the drawdown from the peak allows.
THEOREM CeilingsCoverPeak == MarkSpec => []CeilingCoversPeak
BY MarkInvariance, CoversNow, PTL

----------------------------------------------------------------------------
\* Until a sweep has counted the day, the count is that of midnight.
Uncounted == ~countedToday => behindDays <= atMidnight

ThesisInv == TypeOK /\ Uncounted /\ OneDayAtATime

LEMMA Thresholds ==
    /\ {FirstDecay, SecondDecay, ExitMilestone, BrokenThresholdDays} \subseteq Nat \ {0}
    /\ MaxCount \in Nat /\ MaxCount > 0 /\ BridgeCounts \subseteq Nat
BY ThresholdsAssumption DEF MaxCount

\* What a sweep makes of the count.
LEMMA DaysBehindBound ==
    ASSUME TypeOK, NEW isBehind \in BOOLEAN
    PROVE  /\ DaysBehind(isBehind) \in 0..MaxCount
           /\ DaysBehind(isBehind) <= behindDays + 1
           /\ countedToday => DaysBehind(isBehind) <= behindDays
           /\ ~isBehind => DaysBehind(isBehind) = 0
<1>1. /\ behindDays \in 0..MaxCount /\ MaxCount \in Nat /\ MaxCount > 0
      /\ countedToday \in BOOLEAN
  BY Thresholds DEF TypeOK
<1>2. CASE ~isBehind
  BY <1>1, <1>2 DEF DaysBehind
<1>3. CASE isBehind /\ countedToday
  BY <1>1, <1>3 DEF DaysBehind
<1>4. CASE isBehind /\ ~countedToday
  BY <1>1, <1>4 DEF DaysBehind, Cap
<1> QED
  BY <1>2, <1>3, <1>4

LEMMA ThesisOpens == Init => ThesisInv
<1> SUFFICES ASSUME Init PROVE ThesisInv
  OBVIOUS
<1>1. /\ weekday \in 0..6 /\ attempts \in 0..MaxAttempts /\ sinceAudit \in 0..8
      /\ behindDays \in 0..MaxCount /\ atMidnight \in 0..MaxCount /\ days \in Nat
      /\ age \in 0..BrokenThresholdDays /\ brokenFor \in 0..BrokenThresholdDays
  BY Thresholds DEF Init, MaxAttempts
<1>2. /\ label \in Labels
      /\ {reviewing, countedToday, behind, unavailable, due} \subseteq BOOLEAN
  BY DEF Init, Labels
<1>3. behindDays = 0 /\ atMidnight = 0
  BY DEF Init
<1> QED
  BY <1>1, <1>2, <1>3 DEF ThesisInv, TypeOK, Uncounted, OneDayAtATime

LEMMA ThesisStep == ThesisInv /\ [Next]_vars => ThesisInv'
<1> SUFFICES ASSUME ThesisInv, [Next]_vars PROVE ThesisInv'
  OBVIOUS
<1> USE Thresholds DEF ThesisInv
<1>1. CASE Decay
  <2>1. PICK isBehind \in BOOLEAN, supplied \in BridgeCounts :
           /\ behind' = isBehind /\ behindDays' = DaysBehind(isBehind)
           /\ days' = Greater(supplied, behindDays')
           /\ reviewing' = ~DecayRaises(days', isBehind)
    BY <1>1 DEF Decay
  <2>2. /\ weekday' = weekday /\ attempts \in 0..(MaxAttempts - 1) /\ attempts' = attempts + 1
        /\ countedToday' = TRUE
        /\ UNCHANGED <<label, age, unavailable, due, atMidnight, brokenFor, sinceAudit>>
    BY <1>1 DEF Decay, thesis, history, TypeOK, MaxAttempts
  <2>3. behindDays' \in 0..MaxCount /\ (~behind' => behindDays' = 0)
    BY <2>1, DaysBehindBound
  <2>6. days' \in Nat /\ reviewing' \in BOOLEAN
    BY <2>1, <2>3 DEF Greater, DecayRaises
  <2>4. TypeOK'
    BY <2>1, <2>2, <2>3, <2>6 DEF TypeOK, MaxAttempts
  <2>5. OneDayAtATime'
    BY <2>1, <2>2, DaysBehindBound DEF OneDayAtATime, Uncounted, TypeOK
  <2> QED
    BY <2>2, <2>4, <2>5 DEF Uncounted
<1>2. ASSUME NEW outcome \in Labels, NEW failed \in BOOLEAN, Review(outcome, failed)
      PROVE  ThesisInv'
  <2>1. due' \in BOOLEAN
    BY <1>2 DEF Review, RetirementDue
  <2>2. /\ label' \in Labels /\ age' = 0 /\ unavailable' \in BOOLEAN /\ reviewing' = FALSE
        /\ brokenFor' \in {0, brokenFor} /\ sinceAudit' \in {0, sinceAudit}
        /\ UNCHANGED <<weekday, attempts, behindDays, countedToday, behind, days, atMidnight>>
    BY <1>2 DEF Review, decay
  <2>3. /\ age' \in 0..BrokenThresholdDays /\ brokenFor' \in 0..BrokenThresholdDays
        /\ sinceAudit' \in 0..8
    BY <2>2 DEF TypeOK
  <2>4. TypeOK'
    BY <2>1, <2>2, <2>3 DEF TypeOK
  <2> QED
    BY <2>2, <2>4 DEF Uncounted, OneDayAtATime
<1>3. CASE ModelAnswers \/ ModelFails
  BY <1>2, <1>3 DEF ModelAnswers, ModelFails, Labels
<1>4. CASE NoReview
  BY <1>4 DEF NoReview, decay, thesis, history, TypeOK, Uncounted, OneDayAtATime
<1>5. CASE Midnight
  <2>1. /\ weekday' \in 0..6 /\ attempts' = 0 /\ countedToday' = FALSE
        /\ age' \in 0..BrokenThresholdDays /\ brokenFor' \in 0..BrokenThresholdDays
        /\ sinceAudit' \in 0..8 /\ atMidnight' = behindDays
        /\ UNCHANGED <<reviewing, behindDays, behind, days, label, unavailable, due>>
    BY <1>5 DEF Midnight, Cap, TypeOK
  <2>2. attempts' \in 0..MaxAttempts /\ atMidnight' \in 0..MaxCount
    BY <2>1 DEF TypeOK, MaxAttempts
  <2>3. TypeOK'
    BY <2>1, <2>2 DEF TypeOK
  <2>4. behindDays' <= atMidnight'
    BY <2>1 DEF TypeOK
  <2> QED
    BY <2>1, <2>3, <2>4 DEF TypeOK, Uncounted, OneDayAtATime
<1>6. CASE UNCHANGED vars
  BY <1>6 DEF vars, decay, thesis, history, TypeOK, Uncounted, OneDayAtATime
<1> QED
  BY <1>1, <1>3, <1>4, <1>5, <1>6 DEF Next

LEMMA ThesisInvariance == Spec => []ThesisInv
BY ThesisOpens, ThesisStep, PTL DEF Spec

\* Types are kept, and a position that is not behind has no days counted.
THEOREM ThesisTypes == Spec => []TypeOK
BY ThesisInvariance, PTL DEF ThesisInv

\* Retried and interrupted sweeps do not speed the decay up.
THEOREM RetriesDoNotDecay == Spec => []OneDayAtATime
BY ThesisInvariance, PTL DEF ThesisInv

----------------------------------------------------------------------------
(* The strategic queue.                                                    *)

\* A function of the tickers.
PerTicker(f) == f = [t \in Tickers |-> f[t]]

\* A derived state is at hand from DeriveQueue on, and is to be written.
Derived == sweep \in {"diff", "truncate", "fill", "log"}

LEMMA TornIsEmpty == DOMAIN Torn = {}
BY DEF Torn

LEMMA NothingFound == PerTicker([t \in Tickers |-> Absent])
BY DEF PerTicker

----------------------------------------------------------------------------
(* The log and the snapshot. The two agree until the snapshot is           *)
(* truncated; from the diff on, where an item is not to be logged the log  *)
(* already has what is written.                                            *)

LogTypes ==
    /\ PerTicker(told)
    /\ changes \subseteq Tickers
    /\ Derived => PerTicker(entries)
    /\ sweep \in {"idle", "derive", "diff", "truncate", "fill", "log"}

Agreed ==
    sweep \in {"idle", "derive", "diff", "truncate"} =>
        \A t \in Tickers \ lost : told[t] = ReadSnapshot[t]

Covered ==
    sweep \in {"truncate", "fill", "log"} =>
        \A t \in Tickers \ lost : t \notin changes => told[t] = entries[t]

Filled == sweep = "log" => snapshot = entries

LogInv == LogTypes /\ Agreed /\ Covered /\ Filled

LEMMA InitLog == CandidateInit => LogInv
<1> SUFFICES ASSUME CandidateInit PROVE LogInv
  OBVIOUS
<1>1. snapshot # Torn => ReadSnapshot = snapshot
  BY DEF ReadSnapshot
<1>2. \A t \in Tickers : told[t] = Absent /\ ReadSnapshot[t] = Absent
  BY <1>1 DEF CandidateInit, ReadSnapshot
<1> QED
  BY <1>2, NothingFound DEF CandidateInit, LogInv, LogTypes, Derived, Agreed, Covered, Filled

\* What a sweep has derived, written and read back is what it derived.
LEMMA FilledIsRead ==
    ASSUME snapshot = entries, PerTicker(entries), NEW t \in Tickers
    PROVE  snapshot # Torn /\ ReadSnapshot[t] = entries[t]
<1>1. snapshot # Torn
  BY TornIsEmpty DEF PerTicker
<1> QED
  BY <1>1 DEF ReadSnapshot

LEMMA StepLog == LogInv /\ [CandidateNext]_candidateVars => LogInv'
<1> SUFFICES ASSUME LogInv, [CandidateNext]_candidateVars PROVE LogInv'
  OBVIOUS
<1> USE DEF LogInv
<1>0. snapshot' = snapshot => ReadSnapshot' = ReadSnapshot
  BY DEF ReadSnapshot
<1>1. CASE UNCHANGED <<queue, lost>>
  BY <1>0, <1>1 DEF queue, LogTypes, Derived, PerTicker, Agreed, Covered, Filled
<1>2. CASE StartSweep
  <2>1. /\ sweep = "idle" /\ sweep' = "derive"
        /\ UNCHANGED <<entries, changes, snapshot, told, lost>>
    BY <1>2 DEF StartSweep
  <2> QED
    BY <1>0, <2>1 DEF LogTypes, Derived, PerTicker, Agreed, Covered, Filled
<1>3. CASE DeriveQueue
  <2>1. /\ sweep = "derive" /\ sweep' = "diff"
        /\ UNCHANGED <<changes, snapshot, told, lost>>
    BY <1>3 DEF DeriveQueue
  <2>2. PerTicker(entries)'
    BY <1>3 DEF DeriveQueue, PerTicker
  <2> QED
    BY <1>0, <2>1, <2>2 DEF LogTypes, Derived, PerTicker, Agreed, Covered, Filled
<1>4. CASE DiffQueue
  <2>1. /\ sweep = "diff" /\ sweep' = "truncate"
        /\ changes' = {t \in Tickers : entries[t] # ReadSnapshot[t]}
        /\ UNCHANGED <<entries, snapshot, told, lost>>
    BY <1>4 DEF DiffQueue
  <2>2. \A t \in Tickers \ lost : ReadSnapshot[t] = told[t]
    BY <2>1 DEF Agreed
  <2>3. Covered'
    BY <2>1, <2>2 DEF Covered
  <2> QED
    BY <1>0, <2>1, <2>3 DEF LogTypes, Derived, PerTicker, Agreed, Filled
<1>5. CASE TruncateSnapshot
  <2>1. /\ sweep = "truncate" /\ sweep' = "fill"
        /\ UNCHANGED <<entries, changes, told, lost>>
    BY <1>5 DEF TruncateSnapshot
  <2> QED
    BY <2>1 DEF LogTypes, Derived, PerTicker, Agreed, Covered, Filled
<1>6. CASE FillSnapshot
  <2>1. /\ sweep = "fill" /\ sweep' = "log" /\ snapshot' = entries
        /\ UNCHANGED <<entries, changes, told, lost>>
    BY <1>6 DEF FillSnapshot
  <2> QED
    BY <2>1 DEF LogTypes, Derived, PerTicker, Agreed, Covered, Filled
<1>7. ASSUME NEW t \in Tickers, LogTransition(t)
      PROVE  LogInv'
  <2>1. /\ sweep = "log" /\ sweep' = "log" /\ changes' = changes \ {t}
        /\ lost' = lost \ {t}
        /\ told' = [told EXCEPT ![t] = entries[t]]
        /\ UNCHANGED <<entries, snapshot>>
    BY <1>7 DEF LogTransition
  <2>2. told = [u \in Tickers |-> told[u]]
    BY DEF LogTypes, PerTicker
  <2>3. /\ told' = [u \in Tickers |-> told'[u]]
        /\ \A u \in Tickers : told'[u] = IF u = t THEN entries[t] ELSE told[u]
    BY <2>1, <2>2
  <2>4. Covered'
    BY <2>1, <2>3 DEF Covered
  <2> QED
    BY <2>1, <2>3, <2>4 DEF LogTypes, Derived, PerTicker, Agreed, Filled
<1>12. CASE EndSweep
  <2>1. /\ sweep = "log" /\ sweep' = "idle" /\ changes = {}
        /\ UNCHANGED <<changes, snapshot, told, lost>>
    BY <1>12 DEF EndSweep
  <2>2. \A t \in Tickers \ lost : told[t] = ReadSnapshot[t]
    BY <2>1, FilledIsRead DEF LogTypes, Derived, Covered, Filled
  <2> QED
    BY <1>0, <2>1, <2>2 DEF LogTypes, Derived, PerTicker, Agreed, Covered, Filled
<1>8. CASE SweepStops
  <2>1. /\ sweep # "idle" /\ sweep' = "idle" /\ changes' = {}
        /\ lost' = CASE sweep = "fill" -> Tickers
                      [] sweep = "log" -> lost \cup changes
                      [] OTHER -> lost
        /\ UNCHANGED <<snapshot, told>>
    BY <1>8 DEF SweepStops
  <2>2. Agreed'
    <3>1. CASE sweep = "fill"
      BY <2>1, <3>1 DEF Agreed
    <3>2. CASE sweep = "log"
      <4>1. \A t \in Tickers \ (lost \cup changes) : told[t] = ReadSnapshot[t]
        BY <3>2, FilledIsRead DEF LogTypes, Derived, Covered, Filled
      <4>2. lost' = lost \cup changes
        BY <2>1, <3>2
      <4> QED
        BY <1>0, <2>1, <4>1, <4>2 DEF Agreed
    <3>3. CASE sweep \in {"derive", "diff", "truncate"}
      BY <1>0, <2>1, <3>3 DEF Agreed
    <3> QED
      BY <2>1, <3>1, <3>2, <3>3 DEF LogTypes
  <2> QED
    BY <2>1, <2>2 DEF LogTypes, Derived, PerTicker, Covered, Filled
<1>9. CASE OpenSession \/ FinishSave \/ CloseSession \/ SessionDies
  BY <1>1, <1>9 DEF OpenSession, FinishSave, CloseSession, SessionDies, queue
<1>10. ASSUME NEW t \in Tickers, InitiateThesis(t) \/ RunAutomatedGates(t)
       PROVE  LogInv'
  BY <1>1, <1>10 DEF InitiateThesis, RunAutomatedGates, Save
<1>11. CASE UNCHANGED candidateVars
  BY <1>1, <1>11 DEF candidateVars
<1> QED
  BY <1>2, <1>3, <1>4, <1>5, <1>6, <1>7, <1>8, <1>9, <1>10, <1>11, <1>12 DEF CandidateNext

LEMMA LogInvariance == CandidateSpec => []LogInv
BY InitLog, StepLog, PTL DEF CandidateSpec

\* Whatever sweeps fail and whatever the PM does meanwhile, between sweeps the log
\* explains the snapshot, but for the items whose line a sweep owes that died
\* between the two writes.
THEOREM LogKeepsUp == CandidateSpec => []LogExplainsSnapshot
<1>1. LogInv => LogExplainsSnapshot
  BY DEF LogInv, Agreed, LogExplainsSnapshot
<1> QED
  BY <1>1, LogInvariance, PTL

\* No step logs a transition that the snapshot does not hold.
THEOREM LogFollows == CandidateSpec => NothingIsLoggedAhead
<1>1. LogInv /\ [CandidateNext]_candidateVars =>
        [\A t \in Tickers : told'[t] # told[t] => snapshot # Torn /\ told'[t] = snapshot[t]]_candidateVars
  <2> SUFFICES ASSUME LogInv, CandidateNext, NEW t \in Tickers, told'[t] # told[t]
               PROVE  snapshot # Torn /\ told'[t] = snapshot[t]
    BY DEF candidateVars
  <2>1. PICK u \in Tickers : LogTransition(u)
    BY DEF CandidateNext, OpenSession, FinishSave, CloseSession, SessionDies, InitiateThesis,
           RunAutomatedGates, Save, queue, StartSweep, DeriveQueue, DiffQueue,
           TruncateSnapshot, FillSnapshot, EndSweep, SweepStops
  <2>2. snapshot = entries /\ PerTicker(entries) /\ PerTicker(told)
    BY <2>1 DEF LogTransition, LogInv, LogTypes, Derived, Filled
  <2>3. told' = [told EXCEPT ![u] = entries[u]]
    BY <2>1 DEF LogTransition
  <2>4. t = u /\ told'[t] = entries[t]
    BY <2>2, <2>3 DEF PerTicker
  <2>5. snapshot # Torn
    BY <2>2, TornIsEmpty DEF PerTicker
  <2> QED
    BY <2>2, <2>4, <2>5
<1> QED
  BY <1>1, LogInvariance, PTL DEF CandidateSpec, NothingIsLoggedAhead

----------------------------------------------------------------------------
(* What stands as triggered. A thesis that is confirmed, in the file, in a *)
(* memory or as a sweep read it, passed its gates; what a sweep derives    *)
(* from it rests on that and on the morning.                               *)

Judged(f) ==
    f # Torn => /\ DOMAIN f = Tickers
                /\ \A t \in Tickers : ~Unconfirmed(f[t]) => t \in judged

Clean(f, backing) == \A t \in Tickers : f[t].state = "TRIGGERED" => t \in judged \cap backing

CleanInv ==
    /\ session # "closed" => DOMAIN memory = Tickers
    /\ sweep = "derive" => DOMAIN theses = Tickers
    /\ Judged(store) /\ Judged(memory) /\ Judged(theses)
    /\ Derived => Clean(entries, fit)
    /\ snapshot # Torn => Clean(snapshot, backed)

LEMMA MissingIsUnconfirmed == Unconfirmed(Missing)
BY DEF Unconfirmed, Missing

LEMMA ReadIsJudged ==
    ASSUME Judged(store)
    PROVE  DOMAIN ReadTheses = Tickers /\ Judged(ReadTheses)
BY MissingIsUnconfirmed DEF Judged, ReadTheses

\* What the reasoning needs to leave an item to its score.
LEMMA KeptIsSound ==
    ASSUME NEW ticker, NEW idea, NEW review, NEW alerted,
           Reasoning(ticker, idea, review, alerted).action
               \notin {"REMOVE", "MONITOR", "HOLD", "EVAL_ONLY"}
    PROVE  ~Unconfirmed(idea) /\ review # "BROKEN" /\ ~alerted
<1>1. ~Unconfirmed(idea)
  BY DEF Reasoning, Signal
<1>2. ticker \notin KnownRiskOnOnly
  BY <1>1 DEF Reasoning, Signal
<1>3. review # "BROKEN"
  BY <1>1, <1>2 DEF Reasoning, Signal
<1>4. ~(review \in {"WATCH", "IMPAIRED"} \/ alerted)
  BY <1>1, <1>2, <1>3 DEF Reasoning, Signal
<1> QED
  BY <1>1, <1>3, <1>4

\* What an item needs to be triggered.
LEMMA TriggeredEntry ==
    ASSUME NEW item, NEW idea, NEW morning, Entry(item, idea, morning).state = "TRIGGERED"
    PROVE  /\ ~Unconfirmed(idea)
           /\ morning.cleared
           /\ item.ticker \notin morning.alerts
           /\ morning.reviews[item.ticker] # "BROKEN"
<1> DEFINE signal == Reasoning(item.ticker, idea, morning.reviews[item.ticker],
                               item.ticker \in morning.alerts)
<1>1. StateOf(item, signal, morning.score, morning.cleared) = "TRIGGERED"
  BY DEF Entry
<1>2. /\ signal.action \notin {"REMOVE", "MONITOR", "HOLD", "EVAL_ONLY"}
      /\ ScoredState(item, morning.score, morning.cleared) = "TRIGGERED"
  <2> HIDE DEF signal
  <2> QED
    BY <1>1 DEF StateOf
<1>3. morning.cleared
  BY <1>2 DEF ScoredState
<1> QED
  BY <1>2, <1>3, KeptIsSound

LEMMA InitClean == CandidateInit => CleanInv
BY MissingIsUnconfirmed DEF CandidateInit, CleanInv, Judged, Clean, Derived, Absent

\* One thesis in memory is replaced: by one that is not confirmed, or by one that
\* has just been judged.
LEMMA SavedIsJudged ==
    ASSUME CleanInv, NEW t \in Tickers, session = "open", NEW idea,
           Save([memory EXCEPT ![t] = idea]),
           judged \subseteq judged', ~Unconfirmed(idea) => t \in judged'
    PROVE  CleanInv'
<1>1. DOMAIN memory = Tickers /\ memory # Torn
  BY TornIsEmpty DEF CleanInv
<1>2. /\ memory' = [memory EXCEPT ![t] = idea] /\ store' = Torn /\ session' = "saving"
      /\ UNCHANGED <<sweep, theses, entries, snapshot, fit, backed>>
  BY DEF Save, queue
<1>3. DOMAIN memory' = Tickers
  BY <1>1, <1>2
<1>4. \A u \in Tickers : memory'[u] = IF u = t THEN idea ELSE memory[u]
  BY <1>1, <1>2
<1>5. \A u \in Tickers : ~Unconfirmed(memory[u]) => u \in judged'
  BY <1>1 DEF CleanInv, Judged
<1>6. \A u \in Tickers : ~Unconfirmed(memory'[u]) => u \in judged'
  BY <1>4, <1>5
<1>7. Judged(memory)'
  BY <1>3, <1>6 DEF Judged
<1>8. Judged(store)' /\ Judged(theses)'
  BY <1>2 DEF CleanInv, Judged
<1>9. (Derived => Clean(entries, fit))' /\ (snapshot # Torn => Clean(snapshot, backed))'
  BY <1>2 DEF CleanInv, Derived, Clean
<1> QED
  BY <1>2, <1>3, <1>7, <1>8, <1>9 DEF CleanInv

LEMMA StepClean == CleanInv /\ [CandidateNext]_candidateVars => CleanInv'
<1> SUFFICES ASSUME CleanInv, [CandidateNext]_candidateVars PROVE CleanInv'
  OBVIOUS
<1>1. CASE OpenSession
  BY <1>1, ReadIsJudged DEF OpenSession, queue, CleanInv, Judged, Derived, Clean
<1>2. ASSUME NEW t \in Tickers, InitiateThesis(t)
      PROVE  CleanInv'
  <2>1. PICK source \in Sources :
          Save([memory EXCEPT ![t] =
                  [status |-> "DRAFT", gate3 |-> NoScore, source |-> source]])
    BY <1>2 DEF InitiateThesis
  <2>2. Unconfirmed([status |-> "DRAFT", gate3 |-> NoScore, source |-> source])
    BY DEF Unconfirmed
  <2>3. session = "open" /\ judged' = judged
    BY <1>2 DEF InitiateThesis
  <2> QED
    BY <2>1, <2>2, <2>3, SavedIsJudged
<1>3. ASSUME NEW t \in Tickers, RunAutomatedGates(t)
      PROVE  CleanInv'
  <2>1. PICK answer \in Evaluations, c \in Circumstances :
          LET idea == Evaluated(memory[t], answer, c.fem, c.regime)
          IN  /\ Save([memory EXCEPT ![t] = idea])
              /\ judged' = IF idea.status = "REJECTED" THEN judged ELSE judged \cup {t}
    BY <1>3 DEF RunAutomatedGates
  <2> DEFINE idea == Evaluated(memory[t], answer, c.fem, c.regime)
  <2>2. idea.status = "REJECTED" => Unconfirmed(idea)
    BY DEF Unconfirmed
  <2>3. /\ session = "open" /\ judged \subseteq judged'
        /\ ~Unconfirmed(idea) => t \in judged'
    BY <1>3, <2>1, <2>2 DEF RunAutomatedGates
  <2> QED
    BY <2>1, <2>3, SavedIsJudged
<1>4. CASE FinishSave
  BY <1>4 DEF FinishSave, queue, CleanInv, Judged, Derived, Clean
<1>5. CASE CloseSession \/ SessionDies
  BY <1>5 DEF CloseSession, SessionDies, queue, CleanInv, Judged, Derived, Clean
<1>6. CASE StartSweep
  <2>1. theses' \in {ReadTheses} \cup ({theses} \ {Torn})
    BY <1>6 DEF StartSweep
  <2>2. DOMAIN theses' = Tickers /\ (Judged(theses'))
    BY <2>1, ReadIsJudged DEF CleanInv, Judged
  <2>3. /\ sweep' = "derive"
        /\ UNCHANGED <<store, session, memory, judged, snapshot, backed>>
    BY <1>6 DEF StartSweep, workbench
  <2> QED
    BY <2>2, <2>3 DEF CleanInv, Judged, Derived, Clean
<1>7. CASE DeriveQueue
  <2>1. PICK morning \in Mornings, listed \in Listings :
          /\ entries' = [t \in Tickers |-> IF t \in listed
                                           THEN Entry(ItemOf(t), theses[t], morning)
                                           ELSE Absent]
          /\ fit' = {t \in listed : /\ morning.cleared /\ t \notin morning.alerts
                                     /\ morning.reviews[t] # "BROKEN"}
    BY <1>7 DEF DeriveQueue
  <2>2. /\ sweep = "derive"
        /\ UNCHANGED <<store, session, memory, judged, theses, snapshot, backed>>
    BY <1>7 DEF DeriveQueue, workbench
  <2>3. ASSUME NEW t \in Tickers, entries'[t].state = "TRIGGERED"
        PROVE  t \in judged' \cap fit'
    <3>1. t \in listed /\ Entry(ItemOf(t), theses[t], morning).state = "TRIGGERED"
      BY <2>1, <2>3 DEF Absent
    <3>2. ItemOf(t).ticker = t
      BY DEF ItemOf, Tickers
    <3>3. /\ ~Unconfirmed(theses[t]) /\ morning.cleared /\ t \notin morning.alerts
          /\ morning.reviews[t] # "BROKEN"
      BY <3>1, <3>2, TriggeredEntry
    <3>4. theses # Torn /\ Judged(theses)
      BY <2>2, TornIsEmpty DEF CleanInv
    <3> QED
      BY <2>1, <2>2, <3>1, <3>3, <3>4 DEF Judged
  <2>4. sweep' = "diff"
    BY <1>7 DEF DeriveQueue
  <2> QED
    BY <2>2, <2>3, <2>4 DEF CleanInv, Judged, Clean
<1>8. CASE DiffQueue \/ TruncateSnapshot
  BY <1>8 DEF DiffQueue, TruncateSnapshot, workbench, CleanInv, Judged, Derived, Clean
<1>9. CASE FillSnapshot
  BY <1>9 DEF FillSnapshot, workbench, CleanInv, Judged, Derived, Clean
<1>10. ASSUME NEW t \in Tickers, LogTransition(t)
       PROVE  CleanInv'
  BY <1>10 DEF LogTransition, workbench, CleanInv, Judged, Derived, Clean
<1>13. CASE EndSweep
  BY <1>13 DEF EndSweep, workbench, CleanInv, Judged, Derived, Clean
<1>11. CASE SweepStops
  BY <1>11 DEF SweepStops, workbench, CleanInv, Judged, Derived, Clean
<1>12. CASE UNCHANGED candidateVars
  BY <1>12 DEF candidateVars, workbench, queue, CleanInv, Judged, Derived, Clean
<1> QED
  BY <1>1, <1>2, <1>3, <1>4, <1>5, <1>6, <1>7, <1>8, <1>9, <1>10, <1>11, <1>12,
     <1>13 DEF CandidateNext

\* Nothing stands as triggered in the strategic queue whose thesis never passed its
\* gates, or that a broken review, an alert or the regime spoke against.
THEOREM TriggeredItemsAreClean == CandidateSpec => []TriggeredIsClean
<1>1. CleanInv => TriggeredIsClean
  BY DEF CleanInv, Clean, TriggeredIsClean
<1> QED
  BY <1>1, InitClean, StepClean, PTL DEF CandidateSpec

=============================================================================
