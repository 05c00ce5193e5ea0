--------------------------- MODULE ActionLifecycle ---------------------------
(***************************************************************************)
(* What a confirmation queue is for: an action is queued once, waits for   *)
(* the PM or for the end of its veto window, and gets one outcome, which   *)
(* is the last word on it.                                                 *)
(***************************************************************************)
CONSTANTS
    Actions,        \* action ids
    Answers         \* outcomes the PM may choose

VARIABLES
    status,         \* action -> "ABSENT", "PENDING", "TIMED_OUT" or an answer
    expired         \* actions whose veto window is over

lifeVars == <<status, expired>>

LifeInit ==
    /\ status = [a \in Actions |-> "ABSENT"]
    /\ expired = {}

Queue(a) ==
    /\ status[a] = "ABSENT"
    /\ status' = [status EXCEPT ![a] = "PENDING"]
    /\ UNCHANGED expired

Answer(a, answer) ==
    /\ status[a] = "PENDING"
    /\ status' = [status EXCEPT ![a] = answer]
    /\ UNCHANGED expired

\* The scan may settle several actions at once.
TimeOut(due) ==
    /\ due \subseteq expired
    /\ \A a \in due : status[a] = "PENDING"
    /\ status' = [a \in Actions |-> IF a \in due THEN "TIMED_OUT" ELSE status[a]]
    /\ UNCHANGED expired

WindowEnds(a) ==
    /\ expired' = expired \union {a}
    /\ UNCHANGED status

LifeNext ==
    \/ \E a \in Actions : Queue(a) \/ WindowEnds(a)
    \/ \E a \in Actions, answer \in Answers : Answer(a, answer)
    \/ \E due \in SUBSET Actions : TimeOut(due)

LifeSpec == LifeInit /\ [][LifeNext]_lifeVars
=============================================================================
