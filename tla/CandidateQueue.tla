--------------------------- MODULE CandidateQueue ----------------------------
(***************************************************************************)
(* From an idea to a place in the strategic queue: two processes that meet *)
(* in a file. In a session of his own the portfolio manager initiates      *)
(* theses and has their gates run (engine/sentinel_workflow.py). The       *)
(* process of a sweep reads the theses once, when it imports them, and a   *)
(* retry in that process sees them as they were; each sweep derives the    *)
(* state of every item of the queue and persists it: the snapshot first,   *)
(* then the log of what changed (execution/queue_persistence.py).          *)
(*                                                                         *)
(* Both files are written in place, in two steps: truncated, then filled.  *)
(* Any step may be the last of its process. The sweep of today raises      *)
(* before it gets here (MorningSweep); this is the code as it stands after *)
(* that statement. `judged`, `fit`, `backed` and `lost` are history         *)
(* variables.                                                              *)
(***************************************************************************)
EXTENDS QueuePosture, FiniteSets

CONSTANTS
    Items,          \* of the queue: [ticker, threshold]
    Listings,       \* tickers the file of the queue may list
    Mornings,       \* what a sweep may know
    Evaluations,    \* what the model may answer about a ticker
    Circumstances,  \* [fem, regime] a gate run may be given
    Sources,        \* source categories
    MaxSweeps,      \* bound: sweeps
    MaxSaves,       \* bound: saves of the PM, in any number of sessions
    MaxCrashes      \* bound: sweeps that fail and processes that die

Tickers == {item.ticker : item \in Items}
ItemOf(t) == CHOOSE item \in Items : item.ticker = t
Absent == [state |-> "ABSENT", reason |-> "ABSENT"]
Torn == [t \in {} |-> Missing]

ASSUME QueueAssumption ==
    /\ Listings \subseteq SUBSET Tickers
    /\ \A t \in Tickers : Cardinality({i \in Items : i.ticker = t}) = 1

VARIABLES
    store,              \* the file of theses; Torn while it is truncated
    session, memory,    \* the PM's session, and the theses in its memory
    sweep,              \* "idle", "derive", "diff", "truncate", "fill", "log"
    theses,             \* what the process of the sweep read; Torn without a process
    entries,            \* the states the sweep derived
    changes,            \* tickers whose transition it will log
    snapshot,           \* the governance snapshot; Torn while it is truncated
    told,               \* per ticker: the last state in the transition log
    sweeps, saves, crashes,
    judged,             \* tickers that ever passed the gates
    fit, backed,        \* tickers nothing speaks against: this morning; in the snapshot
    lost                \* tickers whose transition a death kept from the log

workbench == <<store, session, memory, judged>>
queue == <<sweep, theses, entries, changes, snapshot, told, fit, backed>>
bounds == <<sweeps, saves, crashes>>
candidateVars == <<workbench, queue, bounds, lost>>

\* What a process finds in a file: nothing, if it cannot be parsed.
ReadTheses == IF store = Torn THEN [t \in Tickers |-> Missing] ELSE store
ReadSnapshot == IF snapshot = Torn THEN [t \in Tickers |-> Absent] ELSE snapshot

----------------------------------------------------------------------------
(* The PM's session. It loads the records once and saves all of them after *)
(* every change.                                                           *)

OpenSession ==
    /\ session = "closed" /\ saves < MaxSaves
    /\ session' = "open" /\ memory' = ReadTheses
    /\ UNCHANGED <<store, judged, queue, bounds, lost>>

\* The file is open for writing: what was in it is gone.
Save(records) ==
    /\ saves < MaxSaves
    /\ memory' = records
    /\ store' = Torn
    /\ session' = "saving" /\ saves' = saves + 1
    /\ UNCHANGED <<queue, sweeps, crashes, lost>>

\* Raises where an active thesis exists; overwrites any other.
InitiateThesis(t) ==
    /\ session = "open"
    /\ memory[t].status # "ACTIVE"
    /\ \E source \in Sources :
        Save([memory EXCEPT ![t] = [status |-> "DRAFT", gate3 |-> NoScore, source |-> source]])
    /\ UNCHANGED judged

RunAutomatedGates(t) ==
    /\ session = "open"
    /\ memory[t].status = "DRAFT"
    /\ \E answer \in Evaluations, c \in Circumstances :
        LET thesis == Evaluated(memory[t], answer, c.fem, c.regime)
        IN  /\ Save([memory EXCEPT ![t] = thesis])
            /\ judged' = IF thesis.status = "REJECTED" THEN judged ELSE judged \cup {t}

FinishSave ==
    /\ session = "saving"
    /\ store' = memory /\ session' = "open"
    /\ UNCHANGED <<memory, judged, queue, bounds, lost>>

CloseSession ==
    /\ session = "open"
    /\ session' = "closed" /\ memory' = Torn
    /\ UNCHANGED <<store, judged, queue, bounds, lost>>

SessionDies ==
    /\ session # "closed" /\ crashes < MaxCrashes
    /\ session' = "closed" /\ memory' = Torn /\ crashes' = crashes + 1
    /\ UNCHANGED <<store, judged, queue, sweeps, saves, lost>>

----------------------------------------------------------------------------
(* The sweep.                                                              *)

\* In a process of its own, or as a retry in the process of the one that failed.
StartSweep ==
    /\ sweep = "idle" /\ sweeps < MaxSweeps
    /\ sweep' = "derive" /\ sweeps' = sweeps + 1
    /\ theses' \in {ReadTheses} \cup ({theses} \ {Torn})
    /\ UNCHANGED <<workbench, entries, changes, snapshot, told, fit, backed, saves, crashes, lost>>

\* load_queue finds what the file of the queue lists on the day: nothing, where
\* it cannot be read, and not what was taken out.
DeriveQueue ==
    /\ sweep = "derive"
    /\ \E morning \in Mornings, listed \in Listings :
        /\ entries' = [t \in Tickers |-> IF t \in listed
                                         THEN Entry(ItemOf(t), theses[t], morning)
                                         ELSE Absent]
        /\ fit' = {t \in listed : /\ morning.cleared /\ t \notin morning.alerts
                                  /\ morning.reviews[t] # "BROKEN"}
    /\ sweep' = "diff"
    /\ UNCHANGED <<workbench, theses, changes, snapshot, told, backed, bounds, lost>>

\* Mutant: two entries of one state are the same, whatever their reasons.
DiffStates ==
    /\ sweep = "diff"
    /\ changes' = {t \in Tickers : entries[t].state # ReadSnapshot[t].state}
    /\ sweep' = "truncate"
    /\ UNCHANGED <<workbench, theses, entries, snapshot, told, fit, backed, bounds, lost>>

\* load_queue_snapshot and diff_queue_state.
DiffQueue ==
    /\ sweep = "diff"
    /\ changes' = {t \in Tickers : entries[t] # ReadSnapshot[t]}
    /\ sweep' = "truncate"
    /\ UNCHANGED <<workbench, theses, entries, snapshot, told, fit, backed, bounds, lost>>

\* Mutant: the log is written first.
TruncateAfterLogging ==
    /\ sweep = "truncate"
    /\ told' = [t \in Tickers |-> IF t \in changes THEN entries[t] ELSE told[t]]
    /\ snapshot' = Torn /\ sweep' = "fill"
    /\ UNCHANGED <<workbench, theses, entries, changes, fit, backed, bounds, lost>>

TruncateSnapshot ==
    /\ sweep = "truncate"
    /\ snapshot' = Torn /\ sweep' = "fill"
    /\ UNCHANGED <<workbench, theses, entries, changes, told, fit, backed, bounds, lost>>

FillSnapshot ==
    /\ sweep = "fill"
    /\ snapshot' = entries /\ backed' = fit /\ sweep' = "log"
    /\ UNCHANGED <<workbench, theses, entries, changes, told, fit, bounds, lost>>

\* _append_transition_log: one line after the other.
LogTransition(t) ==
    /\ sweep = "log" /\ t \in changes
    /\ told' = [told EXCEPT ![t] = entries[t]]
    /\ changes' = changes \ {t} /\ lost' = lost \ {t}
    /\ UNCHANGED <<workbench, sweep, theses, entries, snapshot, fit, backed, bounds>>

\* What a sweep leaves in the variables of its process is of no more use.
EndSweep ==
    /\ sweep = "log" /\ changes = {}
    /\ sweep' = "idle" /\ theses' = Torn /\ entries' = Torn /\ fit' = {}
    /\ UNCHANGED <<workbench, changes, snapshot, told, backed, bounds, lost>>

\* The sweep fails, and its process goes on; or the process dies.
SweepStops ==
    /\ sweep # "idle" /\ crashes < MaxCrashes
    /\ sweep' = "idle" /\ theses' \in {theses, Torn}
    /\ entries' = Torn /\ changes' = {} /\ fit' = {}
    /\ crashes' = crashes + 1
    /\ lost' = CASE sweep = "fill" -> Tickers
                 [] sweep = "log" -> lost \cup changes
                 [] OTHER -> lost
    /\ UNCHANGED <<workbench, snapshot, told, backed, sweeps, saves>>

CandidateInit ==
    /\ store = [t \in Tickers |-> Missing] /\ session = "closed" /\ memory = Torn
    /\ sweep = "idle" /\ theses = Torn /\ entries = Torn /\ changes = {}
    /\ snapshot = [t \in Tickers |-> Absent] /\ told = [t \in Tickers |-> Absent]
    /\ sweeps = 0 /\ saves = 0 /\ crashes = 0
    /\ judged = {} /\ fit = {} /\ backed = {} /\ lost = {}

CandidateNext ==
    \/ OpenSession \/ FinishSave \/ CloseSession \/ SessionDies
    \/ \E t \in Tickers : InitiateThesis(t) \/ RunAutomatedGates(t) \/ LogTransition(t)
    \/ StartSweep \/ DeriveQueue \/ DiffQueue \/ TruncateSnapshot \/ FillSnapshot
    \/ EndSweep \/ SweepStops

CandidateSpec == CandidateInit /\ [][CandidateNext]_candidateVars

----------------------------------------------------------------------------
\* An item stands as triggered only if its thesis once passed every gate but the
\* regime's, and on the morning it was derived ARES had cleared and neither a
\* broken review nor an alert spoke against it: whatever the PM does meanwhile,
\* and whatever dies.
TriggeredIsClean ==
    snapshot # Torn =>
        {t \in Tickers : snapshot[t].state = "TRIGGERED"} \subseteq judged \cap backed

\* The log never tells what no snapshot held: a transition is logged after the
\* snapshot that makes it, and while that snapshot stands.
NothingIsLoggedAhead ==
    [][\A t \in Tickers : told'[t] # told[t] =>
           snapshot # Torn /\ told'[t] = snapshot[t]]_candidateVars

\* Between sweeps the log explains the snapshot, but for the items whose line a
\* sweep that died between the two writes owes; a line that a later sweep writes
\* makes good for it. Other failures, and retries, lose no transition and invent
\* none.
LogExplainsSnapshot ==
    sweep = "idle" => \A t \in Tickers \ lost : told[t] = ReadSnapshot[t]

----------------------------------------------------------------------------
\* What the repository says and the code does not do; the README has the runs.

\* sentinel_workflow.py: a durable thesis-entry workflow. A session that dies in
\* a save leaves no thesis at all.
ThesesAreDurable == session # "saving" => store # Torn

\* queue_state.py: the state machine's valid transitions.
TransitionsAreValid ==
    sweep = "log" => \A t \in changes \ lost :
        entries[t].state \in ValidTransitions[told[t].state]

=============================================================================
