----------------------------- MODULE RetriedJob -----------------------------
(***************************************************************************)
(* What master_scheduler._run_with_retry promises of a job, whatever the   *)
(* job does: a bounded number of attempts, one at a time; an attempt has   *)
(* each of its effects at most once and may stop after any of them; what   *)
(* it did is not undone; and a job that was started ends.                  *)
(***************************************************************************)
EXTENDS Integers

CONSTANTS
    Effects,        \* what an attempt may do to the outside world
    MaxRetries      \* max_retries: the attempts there are

VARIABLES
    job,            \* "idle", "running", "backoff", "ok" or "exhausted"
    attempt,        \* the attempt under way or last made
    now,            \* effects of that attempt
    total           \* how often each effect was had, by all attempts

jobVars == <<job, attempt, now, total>>

JobInit ==
    /\ job = "idle"
    /\ attempt = 0
    /\ now = {}
    /\ total = [e \in Effects |-> 0]

\* The first call of func(), and the next one after the backoff.
JobAttempt ==
    /\ \/ job = "idle"
       \/ job = "backoff" /\ attempt < MaxRetries
    /\ job' = "running"
    /\ attempt' = attempt + 1
    /\ now' = {}
    /\ UNCHANGED total

JobEffect(e) ==
    /\ job = "running"
    /\ e \notin now
    /\ now' = now \union {e}
    /\ total' = [total EXCEPT ![e] = @ + 1]
    /\ UNCHANGED <<job, attempt>>

JobSucceeds ==
    /\ job = "running"
    /\ job' = "ok"
    /\ UNCHANGED <<attempt, now, total>>

JobFails ==
    /\ job = "running"
    /\ job' = IF attempt < MaxRetries THEN "backoff" ELSE "exhausted"
    /\ UNCHANGED <<attempt, now, total>>

JobNext == JobAttempt \/ (\E e \in Effects : JobEffect(e)) \/ JobSucceeds \/ JobFails

JobSpec == JobInit /\ [][JobNext]_jobVars

Ended == job \in {"ok", "exhausted"}
Ends == job # "idle" ~> Ended
=============================================================================
