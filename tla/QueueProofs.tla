---------------------------- MODULE QueueProofs ----------------------------
(***************************************************************************)
(* The confirmation queue of one process after the other keeps what it was *)
(* told, for every set of actions and of processes. The invariant says     *)
(* where the truth is at each moment: in the file while no process runs,   *)
(* in both while one is between operations, in its memory while it saves.  *)
(***************************************************************************)
EXTENDS ConfirmationQueue, TLAPS

\* A queue knows every action that was queued and every outcome that was saved.
Agrees(queue) ==
    \A a \in Actions : /\ a \in queued => queue[a] # "ABSENT"
                       /\ settled[a] # "ABSENT" => queue[a] = settled[a]

OneAtATime == \A p, q \in Procs : proc[p] # "down" /\ proc[q] # "down" => p = q

MemoryIsFile == \A p \in Procs : proc[p] = "up" => mem[p] = file

Known == /\ \A p \in Procs : proc[p] # "down" => Agrees(mem[p])
         /\ ~Saving => Agrees(file)

QInv == TypeOK /\ OneAtATime /\ MemoryIsFile /\ Known

LEMMA InitQInv == Init => QInv
  BY DEF Init, QInv, TypeOK, OneAtATime, MemoryIsFile, Known, Agrees, Empty, Statuses, Outcomes,
         Answers

LEMMA EmptyType == Empty \in [Actions -> Statuses]
  BY DEF Empty, Statuses

LEMMA StartStep ==
    ASSUME QInv, NEW p \in Procs, Alone(p), Start(p)
    PROVE  QInv'
  <1> USE DEF Start, Load
  <1>1. \A q \in Procs : /\ q # p => proc[q] = "down" /\ proc'[q] = "down" /\ mem'[q] = mem[q]
                         /\ proc'[p] = "up" /\ mem'[p] = file
    BY DEF QInv, TypeOK, Alone
  <1>2. TypeOK'
    BY <1>1 DEF QInv, TypeOK
  <1>3. OneAtATime' /\ MemoryIsFile'
    BY <1>1 DEF OneAtATime, MemoryIsFile
  <1>4. Agrees(file)
    BY <1>1 DEF QInv, Known, Saving
  <1>5. Known'
    BY <1>1, <1>4 DEF Known, Agrees
  <1>6. QED BY <1>2, <1>3, <1>5 DEF QInv

LEMMA StopStep ==
    ASSUME QInv, NEW p \in Procs, Stop(p)
    PROVE  QInv'
  <1> USE DEF Stop
  <1>1. \A q \in Procs : proc'[q] = "down" /\ mem'[q] = Empty
    BY DEF QInv, TypeOK, OneAtATime
  <1>2. TypeOK'
    BY <1>1, EmptyType DEF QInv, TypeOK
  <1>3. OneAtATime' /\ MemoryIsFile'
    BY <1>1 DEF OneAtATime, MemoryIsFile
  <1>4. Agrees(file)
    BY DEF QInv, MemoryIsFile, Known
  <1>5. Known'
    BY <1>1, <1>4 DEF Known, Agrees
  <1>6. QED BY <1>2, <1>3, <1>5 DEF QInv

\* A change that keeps what the queue knows, and the open of the file.
LEMMA ChangeStep ==
    ASSUME QInv, NEW p \in Procs, NEW queue \in [Actions -> Statuses],
           ChangeAndSave(p, queue),
           \A a \in Actions : queue[a] = mem[p][a] \/ mem[p][a] = "PENDING"
                                \/ (mem[p][a] = "ABSENT" /\ queue[a] # "ABSENT"),
           \A a \in Actions : queue[a] = "ABSENT" => mem[p][a] = "ABSENT"
    PROVE  QInv'
  <1> USE DEF ChangeAndSave
  <1>1. /\ proc'[p] = "saving" /\ mem'[p] = queue
        /\ \A q \in Procs : q # p => proc'[q] = proc[q] /\ mem'[q] = mem[q] /\ proc[q] = "down"
    BY DEF QInv, TypeOK, OneAtATime
  <1>2. TypeOK'
    <2>1. proc' \in [Procs -> {"down", "up", "saving"}] /\ mem' \in [Procs -> [Actions -> Statuses]]
      BY DEF QInv, TypeOK
    <2>2. QED BY <1>1, <2>1, EmptyType DEF QInv, TypeOK
  <1>3. OneAtATime' /\ MemoryIsFile'
    BY <1>1 DEF OneAtATime, MemoryIsFile
  <1>4. Saving'
    BY <1>1 DEF Saving
  <1>5. Agrees(queue)
    <2>1. Agrees(mem[p])
      BY DEF QInv, Known
    <2>2. \A a \in Actions : settled[a] \in Outcomes \union {"ABSENT"}
      BY DEF QInv, TypeOK
    <2>3. QED BY <2>1, <2>2 DEF Agrees, Outcomes, Answers
  <1>6. Known'
    BY <1>1, <1>4, <1>5 DEF Known, Agrees
  <1>7. QED BY <1>2, <1>3, <1>6 DEF QInv

LEMMA FinishStep ==
    ASSUME QInv, NEW p \in Procs, FinishSave(p)
    PROVE  QInv'
  <1> USE DEF FinishSave
  <1>1. /\ proc'[p] = "up" /\ mem' = mem /\ file' = mem[p]
        /\ \A q \in Procs : q # p => proc'[q] = "down" /\ proc[q] = "down"
    BY DEF QInv, TypeOK, OneAtATime
  <1>2. TypeOK'
    <2>1. settled' \in [Actions -> Outcomes \union {"ABSENT"}]
      BY DEF QInv, TypeOK
    <2>2. QED BY <1>1, <2>1 DEF QInv, TypeOK
  <1>3. OneAtATime' /\ MemoryIsFile'
    BY <1>1 DEF OneAtATime, MemoryIsFile
  <1>4. Agrees(mem[p])
    BY DEF QInv, Known
  <1>5. \A a \in Actions : /\ a \in queued' => mem[p][a] # "ABSENT"
                           /\ settled'[a] # "ABSENT" => mem[p][a] = settled'[a]
    BY <1>4 DEF Agrees
  <1>6. Known'
    BY <1>1, <1>5 DEF Known, Agrees
  <1>7. QED BY <1>2, <1>3, <1>6 DEF QInv

LEMMA AddStep ==
    ASSUME QInv, NEW p \in Procs, NEW a \in Actions, AddAction(p, a)
    PROVE  QInv'
  <1> DEFINE queue == [mem[p] EXCEPT ![a] = "PENDING"]
  <1>1. queue \in [Actions -> Statuses]
    BY DEF QInv, TypeOK, Statuses
  <1>2. ChangeAndSave(p, queue) /\ mem[p][a] = "ABSENT"
    BY DEF AddAction
  <1>3. \A b \in Actions : /\ queue[b] = mem[p][b] \/ (mem[p][b] = "ABSENT" /\ queue[b] # "ABSENT")
                           /\ queue[b] = "ABSENT" => mem[p][b] = "ABSENT"
    BY <1>2 DEF QInv, TypeOK
  <1> HIDE DEF queue
  <1>4. QED BY <1>1, <1>2, <1>3, ChangeStep

LEMMA RespondStep ==
    ASSUME QInv, NEW p \in Procs, NEW a \in Actions, NEW answer \in Answers,
           NEW rationale \in BOOLEAN, SubmitResponse(p, a, answer, rationale)
    PROVE  QInv'
  <1> DEFINE queue == [mem[p] EXCEPT ![a] = answer]
  <1>1. queue \in [Actions -> Statuses]
    BY DEF QInv, TypeOK, Statuses, Outcomes
  <1>2. ChangeAndSave(p, queue) /\ mem[p][a] = "PENDING"
    BY DEF SubmitResponse
  <1>3. \A b \in Actions : /\ queue[b] = mem[p][b] \/ mem[p][b] = "PENDING"
                           /\ queue[b] = "ABSENT" => mem[p][b] = "ABSENT"
    BY <1>2 DEF QInv, TypeOK, Answers
  <1> HIDE DEF queue
  <1>4. QED BY <1>1, <1>2, <1>3, ChangeStep

LEMMA TimeoutStep ==
    ASSUME QInv, NEW p \in Procs, CheckForTimeouts(p)
    PROVE  QInv'
  <1> DEFINE queue == [a \in Actions |-> IF a \in Due(mem[p]) THEN "TIMED_OUT" ELSE mem[p][a]]
  <1>1. queue \in [Actions -> Statuses]
    BY DEF QInv, TypeOK, Statuses, Outcomes
  <1>2. ChangeAndSave(p, queue)
    BY DEF CheckForTimeouts
  <1>3. \A a \in Actions : queue[a] = mem[p][a] \/ mem[p][a] = "PENDING"
    BY DEF Due
  <1>4. \A a \in Actions : queue[a] = "ABSENT" => mem[p][a] = "ABSENT"
    OBVIOUS
  <1> HIDE DEF queue
  <1>5. QED BY <1>1, <1>2, <1>3, <1>4, ChangeStep

LEMMA NextQInv == QInv /\ [SerialNext]_vars => QInv'
  <1> SUFFICES ASSUME QInv, [SerialNext]_vars PROVE QInv'
    OBVIOUS
  <1>1. ASSUME NEW p \in Procs, Operate(p) PROVE QInv'
    BY <1>1, StopStep, FinishStep, TimeoutStep, AddStep, RespondStep DEF Operate
  <1>2. ASSUME NEW a \in Actions, Expire(a) PROVE QInv'
    BY <1>2 DEF Expire, QInv, TypeOK, OneAtATime, MemoryIsFile, Known, Agrees, Saving
  <1>3. CASE UNCHANGED vars
    BY <1>3 DEF vars, QInv, TypeOK, OneAtATime, MemoryIsFile, Known, Agrees, Saving
  <1>4. QED
    BY <1>1, <1>2, <1>3, StartStep DEF SerialNext

\* The invariant holds while one process follows the other.
THEOREM QueueInvariance == SerialSpec => []QInv
  BY InitQInv, NextQInv, PTL DEF SerialSpec

\* The queue and its file keep their types.
THEOREM QueueTypes == SerialSpec => []TypeOK
  BY QueueInvariance, PTL DEF QInv

\* Processes that do not overlap and do not die never lose an action, and never
\* revise an outcome: the queue needs exactly that of the scheduler.
THEOREM SerialOutcomesStand == SerialSpec => []OutcomesStand
  <1>1. QInv => OutcomesStand
    BY DEF QInv, Known, Agrees, OutcomesStand
  <1>2. QED BY <1>1, QueueInvariance, PTL

\* What the users see while p runs.
LEMMA SeenIs ==
    ASSUME QInv, NEW p \in Procs, proc[p] # "down"
    PROVE  Seen = mem[p]
  <1> DEFINE Running(q) == q \in Procs /\ proc[q] # "down"
  <1>1. \A q : Running(q) => q = p
    BY DEF QInv, OneAtATime
  <1>2. (CHOOSE q \in Procs : proc[q] # "down") = p
    BY <1>1
  <1>3. QED BY <1>2 DEF Seen

\* The queue of one process after the other implements the life of an action:
\* queued once, and answered or timed out once, over all restarts.
THEOREM ImplementsLifecycle == SerialSpec => LifecycleKept
  <1>1. Init => Life!LifeInit
    BY DEF Init, Life!LifeInit, Seen, Empty
  <1>2. QInv /\ QInv' /\ [SerialNext]_vars => [Life!LifeNext]_(Life!lifeVars)
    <2> SUFFICES ASSUME QInv, QInv', [SerialNext]_vars
                 PROVE  Life!LifeNext \/ UNCHANGED Life!lifeVars
      OBVIOUS
    <2> USE DEF Life!lifeVars
    <2>0. ASSUME NEW p \in Procs, proc'[p] # "down" PROVE Seen' = mem'[p]
      <3> DEFINE Running(q) == q \in Procs /\ proc'[q] # "down"
      <3>1. \A q : Running(q) => q = p
        BY <2>0 DEF QInv, OneAtATime
      <3>2. (CHOOSE q \in Procs : proc'[q] # "down") = p
        BY <2>0, <3>1
      <3>3. QED BY <2>0, <3>2 DEF Seen
    <2>1. ASSUME NEW p \in Procs, NEW queue, ChangeAndSave(p, queue)
          PROVE  /\ Seen = mem[p] /\ Seen' = queue /\ UNCHANGED expired
                 /\ mem[p] \in [Actions -> Statuses]
      <3>1. proc'[p] = "saving" /\ mem'[p] = queue /\ proc[p] = "up"
        BY <2>1 DEF ChangeAndSave, QInv, TypeOK
      <3>2. QED BY <2>0, <2>1, <3>1, SeenIs DEF ChangeAndSave, QInv, TypeOK
    <2>2. ASSUME NEW p \in Procs, NEW a \in Actions, AddAction(p, a) PROVE Life!LifeNext
      <3>1. Life!Queue(a)
        BY <2>1, <2>2 DEF AddAction, Life!Queue
      <3>2. QED BY <3>1 DEF Life!LifeNext
    <2>3. ASSUME NEW p \in Procs, NEW a \in Actions, NEW answer \in Answers,
                 NEW rationale \in BOOLEAN, SubmitResponse(p, a, answer, rationale)
          PROVE  Life!LifeNext
      <3>1. Life!Answer(a, answer)
        BY <2>1, <2>3 DEF SubmitResponse, Life!Answer
      <3>2. QED BY <3>1 DEF Life!LifeNext
    <2>4. ASSUME NEW p \in Procs, CheckForTimeouts(p) PROVE Life!LifeNext
      <3>1. Life!TimeOut(Due(mem[p]))
        BY <2>1, <2>4 DEF CheckForTimeouts, Life!TimeOut, Due
      <3>2. Due(mem[p]) \in SUBSET Actions
        BY DEF Due
      <3>3. QED BY <3>1, <3>2 DEF Life!LifeNext
    <2>5. ASSUME NEW p \in Procs, Alone(p), Start(p) PROVE UNCHANGED Life!lifeVars
      <3>1. proc'[p] = "up" /\ mem'[p] = file /\ \A q \in Procs : proc[q] = "down"
        BY <2>5 DEF Start, Load, Alone, QInv, TypeOK
      <3>2. Seen = file /\ Seen' = file
        BY <2>0, <3>1 DEF Seen
      <3>3. QED BY <2>5, <3>2 DEF Start
    <2>6. ASSUME NEW p \in Procs, Stop(p) PROVE UNCHANGED Life!lifeVars
      <3>1. Seen = file
        BY <2>6, SeenIs DEF Stop, QInv, MemoryIsFile
      <3>2. \A q \in Procs : proc'[q] = "down"
        BY <2>6 DEF Stop, QInv, TypeOK, OneAtATime
      <3>3. QED BY <2>6, <3>1, <3>2 DEF Stop, Seen
    <2>7. ASSUME NEW p \in Procs, FinishSave(p) PROVE UNCHANGED Life!lifeVars
      <3>1. proc[p] # "down" /\ proc'[p] # "down" /\ mem' = mem
        BY <2>7 DEF FinishSave, QInv, TypeOK
      <3>2. QED BY <2>0, <2>7, <3>1, SeenIs DEF FinishSave
    <2>8. ASSUME NEW a \in Actions, Expire(a) PROVE Life!LifeNext
      <3>1. Life!WindowEnds(a)
        BY <2>8 DEF Expire, Life!WindowEnds, Seen
      <3>2. QED BY <3>1 DEF Life!LifeNext
    <2>9. CASE UNCHANGED vars
      BY <2>9 DEF vars, Seen
    <2>10. QED
      BY <2>2, <2>3, <2>4, <2>5, <2>6, <2>7, <2>8, <2>9 DEF SerialNext, Operate
  <1>3. QED
    BY <1>1, <1>2, QueueInvariance, PTL DEF SerialSpec, LifecycleKept, Life!LifeSpec

=============================================================================
