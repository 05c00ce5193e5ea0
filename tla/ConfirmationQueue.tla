-------------------------- MODULE ConfirmationQueue --------------------------
(***************************************************************************)
(* ConfirmationQueue of execution/confirmation_queue.py: a dictionary of   *)
(* actions in the memory of each process that made one, read from a JSON   *)
(* file by its constructor and written whole after each change. The        *)
(* scheduler runs every job in a process of its own (the morning sweep     *)
(* queues actions, the EOD cycle looks for timeouts, the PM's answer comes *)
(* from a third); nothing locks the file.                                  *)
(*                                                                         *)
(* A save is two steps: open(..., 'w') empties the file, the close after   *)
(* json.dump fills it. A process may die between them, and another may     *)
(* read between them: an empty file does not parse, is reported, and the   *)
(* queue starts fresh, as it does without a file.                          *)
(***************************************************************************)
EXTENDS Integers

CONSTANTS
    Actions,        \* action ids
    Procs           \* processes that make a ConfirmationQueue

Answers == {"EXECUTED", "HELD", "VETOED"}
Outcomes == Answers \union {"TIMED_OUT"}
Statuses == Outcomes \union {"ABSENT", "PENDING"}
Empty == [a \in Actions |-> "ABSENT"]

VARIABLES
    file,           \* what loading the JSON file gives: a status per action
    proc,           \* process -> "down", "up" or "saving"
    mem,            \* process -> its _queue
    expired,        \* actions with queued_at + veto_window_hours in the past
    queued,         \* history: actions whose add_action returned
    settled         \* history: the first outcome of an action that was saved

vars == <<file, proc, mem, expired, queued, settled>>

Init ==
    /\ file = Empty
    /\ proc = [p \in Procs |-> "down"]
    /\ mem = [p \in Procs |-> Empty]
    /\ expired = {}
    /\ queued = {}
    /\ settled = Empty

----------------------------------------------------------------------------
(* __init__ and _load_state; the end of the process.                       *)

\* Mutant: a constructor that does not read what is there.
LoadNothing == Empty

Load == file

Start(p) ==
    /\ proc[p] = "down"
    /\ proc' = [proc EXCEPT ![p] = "up"]
    /\ mem' = [mem EXCEPT ![p] = Load]
    /\ UNCHANGED <<file, expired, queued, settled>>

\* Mutant: one queue in memory for all that come after.
StopKeepingMemory(p) ==
    /\ proc[p] = "up"
    /\ proc' = [proc EXCEPT ![p] = "down"]
    /\ UNCHANGED <<file, mem, expired, queued, settled>>

Stop(p) ==
    /\ proc[p] = "up"
    /\ proc' = [proc EXCEPT ![p] = "down"]
    /\ mem' = [mem EXCEPT ![p] = Empty]
    /\ UNCHANGED <<file, expired, queued, settled>>

\* The process dies at any point, inside a save included.
Crash(p) ==
    /\ proc[p] # "down"
    /\ proc' = [proc EXCEPT ![p] = "down"]
    /\ mem' = [mem EXCEPT ![p] = Empty]
    /\ UNCHANGED <<file, expired, queued, settled>>

----------------------------------------------------------------------------
(* The operations, each a change of the dictionary and a _save_state.      *)

\* The change, and the open of the file.
ChangeAndSave(p, queue) ==
    /\ proc[p] = "up"
    /\ mem' = [mem EXCEPT ![p] = queue]
    /\ proc' = [proc EXCEPT ![p] = "saving"]
    /\ file' = Empty
    /\ UNCHANGED <<expired, queued, settled>>

\* Mutant: the file is never closed.
FinishSaveUnwritten(p) ==
    /\ proc[p] = "saving"
    /\ proc' = [proc EXCEPT ![p] = "up"]
    /\ queued' = {a \in Actions : a \in queued \/ mem[p][a] # "ABSENT"}
    /\ settled' = [a \in Actions |->
                      IF settled[a] = "ABSENT" /\ mem[p][a] \in Outcomes
                      THEN mem[p][a] ELSE settled[a]]
    /\ UNCHANGED <<file, mem, expired>>

\* The dump and the close. The operation returns: the action is queued
\* "durably", the PM is told that his answer stands.
FinishSave(p) ==
    /\ proc[p] = "saving"
    /\ proc' = [proc EXCEPT ![p] = "up"]
    /\ file' = mem[p]
    /\ queued' = {a \in Actions : a \in queued \/ mem[p][a] # "ABSENT"}
    /\ settled' = [a \in Actions |->
                      IF settled[a] = "ABSENT" /\ mem[p][a] \in Outcomes
                      THEN mem[p][a] ELSE settled[a]]
    /\ UNCHANGED <<mem, expired>>

\* An id is not used twice: it holds the minute of the sweep that queues it.
AddAction(p, a) ==
    /\ \A q \in Procs : mem[q][a] = "ABSENT"
    /\ a \notin queued
    /\ ChangeAndSave(p, [mem[p] EXCEPT ![a] = "PENDING"])

\* Mutant: an answer is taken whatever became of the action.
RespondAnyway(p, a, answer, rationale) ==
    /\ mem[p][a] # "ABSENT"
    /\ answer \in {"HELD", "VETOED"} => rationale
    /\ ChangeAndSave(p, [mem[p] EXCEPT ![a] = answer])

\* submit_response: EXECUTE_NO_INFO, HOLD_NEW_INFO, VETO_NEW_INFO; the last two
\* need a rationale.
SubmitResponse(p, a, answer, rationale) ==
    /\ mem[p][a] = "PENDING"
    /\ answer \in {"HELD", "VETOED"} => rationale
    /\ ChangeAndSave(p, [mem[p] EXCEPT ![a] = answer])

Due(queue) == {a \in Actions : queue[a] = "PENDING" /\ a \in expired}

\* Mutant: the window is not looked at.
CheckForTimeoutsEarly(p) ==
    /\ \E a \in Actions : mem[p][a] = "PENDING"
    /\ ChangeAndSave(p, [a \in Actions |->
                            IF mem[p][a] = "PENDING" THEN "TIMED_OUT" ELSE mem[p][a]])

\* check_for_timeouts; nothing is saved when nothing is due.
CheckForTimeouts(p) ==
    /\ Due(mem[p]) # {}
    /\ ChangeAndSave(p, [a \in Actions |->
                            IF a \in Due(mem[p]) THEN "TIMED_OUT" ELSE mem[p][a]])

\* The clock. An expired window of an action not yet queued is a window of zero
\* hours, as PTRH's.
Expire(a) ==
    /\ a \notin expired
    /\ expired' = expired \union {a}
    /\ UNCHANGED <<file, proc, mem, queued, settled>>

----------------------------------------------------------------------------
Operate(p) ==
    \/ Stop(p)
    \/ FinishSave(p)
    \/ CheckForTimeouts(p)
    \/ \E a \in Actions : AddAction(p, a)
    \/ \E a \in Actions, answer \in Answers, rationale \in BOOLEAN :
          SubmitResponse(p, a, answer, rationale)

Alone(p) == \A q \in Procs \ {p} : proc[q] = "down"

SerialNext ==
    \/ \E p \in Procs : Operate(p) \/ (Alone(p) /\ Start(p))
    \/ \E a \in Actions : Expire(a)

\* One process after the other, each ended by itself.
SerialSpec == Init /\ [][SerialNext]_vars

\* One process after the other, which may die.
CrashSpec == Init /\ [][SerialNext \/ \E p \in Procs : Crash(p)]_vars

\* Processes that overlap, as those of the scheduler do, and that do not die.
SharedSpec == Init /\ [][SerialNext \/ \E p \in Procs : Start(p)]_vars

----------------------------------------------------------------------------
(* Properties.                                                             *)

\* Types; a process that is not there has nothing in memory.
TypeOK ==
    /\ file \in [Actions -> Statuses]
    /\ proc \in [Procs -> {"down", "up", "saving"}]
    /\ mem \in [Procs -> [Actions -> Statuses]]
    /\ expired \subseteq Actions /\ queued \subseteq Actions
    /\ settled \in [Actions -> Outcomes \union {"ABSENT"}]
    /\ \A p \in Procs : proc[p] = "down" => mem[p] = Empty

Saving == \E p \in Procs : proc[p] = "saving"

\* Between saves the file says what the processes were told: every action that
\* was queued is there, and the first outcome that was saved is its outcome. A
\* veto the PM gave is not a pending action again, nor a timed-out one.
OutcomesStand ==
    ~Saving => \A a \in Actions :
        /\ a \in queued => file[a] # "ABSENT"
        /\ settled[a] # "ABSENT" => file[a] = settled[a]

\* The "durable JSON persistence" of the class: an action that was "queued
\* durably" is in the file between saves.
Durable == ~Saving => \A a \in queued : file[a] # "ABSENT"

\* "VETO_NEW_INFO: PM vetoes execution outright." Between saves, an action whose
\* veto was saved is vetoed.
VetoStands ==
    ~Saving => \A a \in Actions : settled[a] = "VETOED" => file[a] = "VETOED"

\* The queue as its users see it: the memory of the process that runs, the file
\* when none does.
Seen == IF \E p \in Procs : proc[p] # "down"
        THEN mem[CHOOSE p \in Procs : proc[p] # "down"]
        ELSE file

\* Whichever process asks, an action goes its way from queued to one outcome.
Life == INSTANCE ActionLifecycle WITH status <- Seen
LifecycleKept == Life!LifeSpec

=============================================================================
