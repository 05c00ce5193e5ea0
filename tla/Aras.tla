-------------------------------- MODULE Aras --------------------------------
(***************************************************************************)
(* The assessor in a process of its own: any score in each observation. In *)
(* src/main.py it is a variable of the process, which the local scheduler  *)
(* keeps and a scheduled task starts anew.                                 *)
(***************************************************************************)
EXTENDS Assessor

CONSTANTS
    Scores,         \* macro regime scores the compass may report
    EdrScores       \* scores the two EDR sub-modules may report

ASSUME ScoresAssumption == Scores \subseteq 0..100 /\ EdrScores \subseteq 0..100

Observation == [score : Scores, delev : EdrScores, micro : EdrScores]

Assess == \E o \in Observation : \/ AssessCrash(o)
                                 \/ AssessConfirmed(o)
                                 \/ AssessCount(o)
                                 \/ AssessStep(o)

\* Each scheduled ECS task is a process of its own, with a new assessor.
NewTask ==
    /\ regime' = 0
    /\ pending' = NoPending
    /\ UNCHANGED <<obs, recent, sinceCrash>>

----------------------------------------------------------------------------
ArasInit ==
    /\ FreshAssessor
    /\ obs \in Observation
    /\ recent = [i \in 1..3 |-> NoObservation]
    /\ sinceCrash = RecoveryTime

\* One long-lived process, as the scheduler's local mode runs it.
ArasSpec == ArasInit /\ [][Assess]_assessor
FairSpec == ArasSpec /\ WF_assessor(Assess)

\* A process per job, as EventBridge and ECS run it.
TaskSpec == ArasInit /\ [][Assess \/ NewTask]_assessor

----------------------------------------------------------------------------
ArasTypeOK ==
    /\ regime \in Regimes
    /\ pending \in [step : -1..Crash, direction : {"NONE", "MORE_DEF", "LESS_DEF"},
                    count : 0..2]
    /\ obs \in Observation
    /\ recent \in [1..3 -> [target : -1..Crash, regime : -1..Crash]]
    /\ sinceCrash \in 0..RecoveryTime

\* Scores that stay in one band bring the regime to that band, from any other.
Converges ==
    \A b \in Regimes : <>[](Target(obs) = b) => <>[](regime = b)

=============================================================================
