--------------------------- MODULE SignalHistories ---------------------------
(***************************************************************************)
(* The anticipatory intelligence layer: Mondays of the sweep, as src/      *)
(* main.py runs the four trackers of src/intelligence, each of which       *)
(* appends a reading per entity to a file of its own, and then scores a    *)
(* position from those files. An attempt of the sweep always raises in the *)
(* end (MorningSweep), and the next one runs the trackers again.           *)
(*                                                                         *)
(* A file is written in place: a process that dies while it writes leaves  *)
(* a file that cannot be parsed, which nothing repairs. `found` is a       *)
(* history variable: what the trackers logged in this attempt.             *)
(***************************************************************************)
EXTENDS SignalScores

CONSTANTS
    Entities,       \* per tracker: the entities watched, in the order of the code
    Ticker,         \* the position that is scored
    Theses,         \* what its thesis may be
    Worlds,         \* what the sources hold on a Monday
    Faults,         \* [tracker, kind, at]: how an attempt may go wrong
    MaxFaults,      \* bound: attempts that go wrong
    Mondays,        \* bound
    FirstMondays,   \* Mondays that are the first of a month
    EarningsMondays,\* and those in January, April, July or October
    Attempts,
    Kept,           \* entries a history keeps: 52
    PatentsKept     \* of PFVT: 24

Trackers == {"JPVI", "SCCR", "PFVT", "ELVT"}
NoFault == [tracker |-> "none", kind |-> "none", at |-> 0]

ASSUME HistoriesAssumption ==
    /\ EarningsMondays \subseteq FirstMondays /\ FirstMondays \subseteq 1..Mondays
    /\ Mondays \in Nat \ {0} /\ Attempts \in Nat \ {0}
    /\ Kept \in Nat /\ Kept > Window /\ PatentsKept \in Nat /\ PatentsKept > PatentWindow
    /\ Entities \in [Trackers -> Seq(STRING)]
    /\ ToSet(Entities.JPVI) \subseteq DOMAIN JpviPositions
    /\ ToSet(Entities.PFVT) \subseteq DOMAIN PfvtPositions
    /\ Worlds \subseteq [jobs : Nat, patents : Nat, shipments : Nat, tone : Int]
    /\ \A f \in Faults : /\ f.tracker \in Trackers
                         /\ f.kind \in {"down", "short", "garbled", "raises", "dies"}

VARIABLES
    monday, attempt, world, fault, faults,  \* where the sweep is, and what goes wrong
    pc,                     \* "JPVI", "SCCR", "PFVT", "ELVT", "score", "raised"
    file,                   \* per tracker and entity: the history, oldest first
    broken,                 \* <<tracker, entity>> whose file cannot be parsed
    found,                  \* per tracker: the signals of this attempt's readings
    thesis, level           \* of Ticker: its thesis, its conviction level

where == <<monday, attempt, world, fault, faults>>
vars == <<where, pc, file, broken, found, thesis, level>>

Watched(t) == ToSet(Entities[t])
NoSignals == <<>>

----------------------------------------------------------------------------
(* The readings. A count nobody answers for is a zero like any other; the  *)
(* import volume of a hyperscaler is asked for with an empty list of       *)
(* shippers, and is zero.                                                  *)

Goes(t, kind) == fault.tracker = t /\ fault.kind = kind

JpviReads ==
    [e \in Watched("JPVI") |->
        [c \in Followed(JpviPositions[e]) |-> IF Goes("JPVI", "down") THEN 0 ELSE world.jobs]]

PfvtReads ==
    [e \in Watched("PFVT") |->
        [c \in Followed(PfvtPositions[e]) |-> IF Goes("PFVT", "down") THEN 0 ELSE world.patents]]

SccrReads ==
    [e \in Watched("SCCR") |->
        [c \in {"volume"} |-> IF e # "TSMC" \/ Goes("SCCR", "down") THEN 0 ELSE world.shipments]]

\* What fetch_docs returns for an entity: filings, or the text of an error, of
\* which a short one leaves the entity out (Swept).
Filings == IF Goes("ELVT", "down") THEN "error text" ELSE "filings"

\* The language model is given either: it finds nothing in an error. What it
\* answers may be no JSON, and the entity is left out (Swept).
ElvtReads ==
    [e \in Watched("ELVT") |->
        [c \in LanguageCategories |-> IF Filings = "filings" THEN world.tone ELSE 0]]

----------------------------------------------------------------------------
(* A tracker's sweep over its entities. It ends before its list does where *)
(* a file is broken or the analysis raises, and nothing after it is read;  *)
(* what was saved by then stays.                                           *)

StopsAt(t) ==
    Min({i \in DOMAIN Entities[t] :
           <<t, Entities[t][i]>> \in broken \/ (fault.at = i /\ (Goes(t, "raises") \/ Goes(t, "dies")))}
        \cup {Len(Entities[t]) + 1})

LeftOut(t, i) == Goes(t, "short") \/ (Goes(t, "garbled") /\ fault.at = i)

Swept(t) ==
    {Entities[t][i] : i \in {i \in DOMAIN Entities[t] : i < StopsAt(t) /\ ~LeftOut(t, i)}}

Saved(t, keep, reads) ==
    [file EXCEPT ![t] = [e \in Watched(t) |->
        IF e \in Swept(t)
        THEN LastOf(keep, Append(file[t][e], [monday |-> monday, reads |-> reads[e]]))
        ELSE file[t][e]]]

\* What is scored, and logged where it is severe.
Readings(t, reads) == UNION {{e} \X DOMAIN reads[e] : e \in Swept(t)}

Dies(t) == Goes(t, "dies") /\ fault.at <= StopsAt(t)

\* The process dies inside a save: that file is lost and so is the attempt,
\* with those that would have followed it.
Die(t) ==
    /\ Dies(t)
    /\ broken' = broken \cup {<<t, Entities[t][fault.at]>>}
    /\ pc' = "raised" /\ attempt' = Attempts
    /\ UNCHANGED <<monday, world, fault, faults>>

GoesOn(t, next) ==
    /\ ~Dies(t)
    /\ pc' = next
    /\ UNCHANGED <<where, broken>>

RunJpvi ==
    /\ pc = "JPVI"
    /\ file' = Saved("JPVI", Kept, JpviReads)
    /\ found' = [found EXCEPT !["JPVI"] = [k \in Readings("JPVI", JpviReads) |->
                    JpviFound(file["JPVI"][k[1]], JpviReads[k[1]], k[2])]]
    /\ Die("JPVI") \/ GoesOn("JPVI", "SCCR")
    /\ UNCHANGED <<thesis, level>>

RunSccr ==
    /\ pc = "SCCR"
    /\ file' = Saved("SCCR", Kept, SccrReads)
    /\ found' = [found EXCEPT !["SCCR"] = [k \in Readings("SCCR", SccrReads) |->
                    SccrFound(file["SCCR"][k[1]], SccrReads[k[1]], k[2])]]
    /\ Die("SCCR") \/ GoesOn("SCCR", IF monday \in FirstMondays THEN "PFVT" ELSE "score")
    /\ UNCHANGED <<thesis, level>>

RunPfvt ==
    /\ pc = "PFVT"
    /\ file' = Saved("PFVT", PatentsKept, PfvtReads)
    /\ found' = [found EXCEPT !["PFVT"] = [k \in Readings("PFVT", PfvtReads) |->
                    PfvtFound(file["PFVT"][k[1]], PfvtReads[k[1]], k[2])]]
    /\ Die("PFVT") \/ GoesOn("PFVT", IF monday \in EarningsMondays THEN "ELVT" ELSE "score")
    /\ UNCHANGED <<thesis, level>>

\* Nothing is ever dropped from the history of ELVT.
RunElvt ==
    /\ pc = "ELVT"
    /\ file' = Saved("ELVT", Mondays * Attempts, ElvtReads)
    /\ found' = [found EXCEPT !["ELVT"] = [k \in Readings("ELVT", ElvtReads) |->
                    ElvtFound(file["ELVT"][k[1]], ElvtReads[k[1]], k[2])]]
    /\ Die("ELVT") \/ GoesOn("ELVT", "score")
    /\ UNCHANGED <<thesis, level>>

----------------------------------------------------------------------------
(* The score. JPVI and PFVT read the files of all their entities, the      *)
(* others those that bear on the position: one that cannot be parsed       *)
(* raises, and both callers then do without any adjustment.                *)

Unreadable(ticker) ==
    \/ \E b \in broken : b[1] \in {"JPVI", "PFVT"}
    \/ <<"SCCR", "TSMC">> \in broken
    \/ \E b \in broken : b[1] = "SCCR" /\ ticker \in SccrPositions[b[2]]
    \/ \E b \in broken : b[1] = "ELVT" /\ ticker \in ElvtPositions[b[2]]

SignalsFor(ticker) ==
    [ELVT |-> ElvtSignals(ticker, file["ELVT"]), JPVI |-> JpviSignals(ticker, file["JPVI"]),
     PFVT |-> PfvtSignals(ticker, file["PFVT"]), SCCR |-> SccrSignals(ticker, file["SCCR"])]

Supplementary(ticker) == IF Unreadable(ticker) THEN 0 ELSE Adjustment(SignalsFor(ticker))

ScorePosition ==
    /\ pc = "score"
    /\ level' = Conviction(thesis, Supplementary(Ticker), "NEUTRAL")
    /\ pc' = "raised"
    /\ UNCHANGED <<where, file, broken, found, thesis>>

\* What may go wrong in the attempt that begins.
Begin ==
    /\ pc' = "JPVI"
    /\ found' = [t \in Trackers |-> NoSignals]
    /\ \E f \in Faults \cup {NoFault} :
        /\ f # NoFault => faults < MaxFaults
        /\ fault' = f
        /\ faults' = IF f = NoFault THEN faults ELSE faults + 1
    /\ UNCHANGED <<file, broken, thesis, level>>

Retry ==
    /\ pc = "raised" /\ attempt < Attempts
    /\ attempt' = attempt + 1
    /\ Begin
    /\ UNCHANGED <<monday, world>>

NextMonday ==
    /\ pc = "raised" /\ attempt = Attempts /\ monday < Mondays
    /\ monday' = monday + 1 /\ attempt' = 1
    /\ world' \in Worlds
    /\ Begin

Init ==
    /\ monday = 1 /\ attempt = 1 /\ world \in Worlds
    /\ fault = NoFault /\ faults = 0 /\ pc = "JPVI"
    /\ file = [t \in Trackers |-> [e \in Watched(t) |-> <<>>]]
    /\ broken = {} /\ found = [t \in Trackers |-> NoSignals]
    /\ thesis \in Theses /\ level = 0

Next == \/ RunJpvi \/ RunSccr \/ RunPfvt \/ RunElvt \/ ScorePosition \/ Retry \/ NextMonday

Spec == Init /\ [][Next]_vars

----------------------------------------------------------------------------
\* What the gate makes of the files is what the trackers logged when they wrote
\* them: both compute it, one before the reading is appended and one after, each
\* with windows of its own. For JPVI that takes a window without a zero.
GateSeesWhatWasFound ==
    pc = "score" /\ ~Unreadable(Ticker) =>
        \A t \in Trackers :
            LET gate == SignalsFor(Ticker)[t]
            IN  \A k \in DOMAIN found[t] \cap DOMAIN gate :
                   \/ t = "JPVI" /\ \E n \in Range(Reads(file[t][k[1]], k[2])) : n = 0
                   \/ gate[k] = found[t][k]

\* Readings that only ever grew, whatever was repeated, left out or dropped from
\* the window, never take a point from a position; those that only ever fell
\* never give one.
Rising(h) == \A i, j \in DOMAIN h : i < j => \A c \in DOMAIN h[i].reads : h[i].reads[c] <= h[j].reads[c]
Falling(h) == \A i, j \in DOMAIN h : i < j => \A c \in DOMAIN h[i].reads : h[i].reads[c] >= h[j].reads[c]

GrowthIsNeverPenalised ==
    pc = "score" =>
        /\ (\A t \in Trackers : \A e \in Watched(t) : Rising(file[t][e]))
              => Supplementary(Ticker) >= 0
        /\ (\A t \in Trackers : \A e \in Watched(t) : Falling(file[t][e]))
              => Supplementary(Ticker) <= 0

----------------------------------------------------------------------------
\* What the repository says and the code does not do; the README has the runs.

\* elvt.py: velocity is across consecutive transcripts. The gate compares the
\* last two entries, which after a retry are of the same quarter.
VelocityIsBetweenQuarters ==
    pc = "score" =>
        \A e \in Watched("ELVT") :
            LET h == file["ELVT"][e]
            IN  Len(h) > 1 => h[Len(h)].monday # h[Len(h) - 1].monday

\* gate3_supplementary.py: an additive adjustment of -5 to +5 to the thirty
\* points of gate 3. It is added twice, the second time on a scale of ten.
AddedOnce ==
    level # 0 /\ pc = "raised" =>
        level \in {Level(thesis, a, 0, "NEUTRAL") : a \in -500..500}

\* sentinel_bridge.py: phase 2 signals are supplementary and never block. The
\* files of two other trackers do not speak for a position when one is broken.
CrashCostsOneTracker == pc = "score" => broken = {} \/ ~Unreadable(Ticker)

\* jpvi.py leaves readings of zero out of the average; the gate lets an outage
\* count as a decline.
OutageIsNoEvidence ==
    pc = "score" /\ fault.kind = "down" =>
        \A t \in Trackers : \A k \in DOMAIN SignalsFor(Ticker)[t] :
            t = fault.tracker => SignalsFor(Ticker)[t][k].severity = "LOW"

=============================================================================
