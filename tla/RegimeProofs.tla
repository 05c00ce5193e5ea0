---------------------------- MODULE RegimeProofs ----------------------------
(***************************************************************************)
(* The assessor's safety properties, for every set of scores, and what a   *)
(* morning makes of the markets and the news, for every answer the         *)
(* services may give, every set of worlds, any clock and any failures.     *)
(*                                                                         *)
(* The assessor: the invariant that carries its properties says what a     *)
(* pending count stands for, the latest observations, all made under the   *)
(* regime in force and all asking for the same side of it.                 *)
(*                                                                         *)
(* The store of seen news keeps the last print of every item while fewer   *)
(* than MaxKeys have come after it, so an item is new once. The reading of *)
(* the markets is monotone: each signal worsens its own norm, a norm the   *)
(* blend that weighs it, the blends the composite score; what the advisory *)
(* modules add is monotone too and smaller than a band is wide, which is   *)
(* why feeds that are down cost one band at most.                          *)
(***************************************************************************)
EXTENDS Aras, RegimeSweep, FoldFacts, TLAPS

\* A pending step is explained by the latest observations.
PendingIsEarned ==
    \/ pending = NoPending
    \/ /\ pending.direction = "MORE_DEF"
       /\ pending.step = regime + 1
       /\ pending.count = 1
       /\ recent[1].regime = regime
       /\ recent[1].target > regime
    \/ /\ pending.direction = "LESS_DEF"
       /\ pending.step = regime - 1
       /\ pending.count \in 1..2
       /\ recent[1].regime = regime
       /\ recent[1].target < regime
       /\ pending.count = 2 => /\ recent[2].regime = regime
                               /\ recent[2].target < regime

LessCount == IF pending.direction = "LESS_DEF" THEN pending.count ELSE 0

\* Every observation on the way back from CRASH has been paid for.
RecoveryIsPaid ==
    \/ sinceCrash = RecoveryTime
    \/ UpgradeConfirmations * (Crash - regime) + LessCount <= sinceCrash

ArasInv == ArasTypeOK /\ PendingIsEarned /\ RecoveryIsPaid

----------------------------------------------------------------------------
\* Every observation maps to one of the five regimes.
LEMMA TargetType == \A o \in Observation : Target(o) \in Regimes
  BY ScoresAssumption, SMT
     DEF Observation, Target, Adjusted, TargetRegimeIdx, EdrAdvisoryContribution,
         Regimes, Crash

\* An observation enters the history in front of the two before it.
LEMMA Observed ==
    ASSUME ArasTypeOK, NEW o \in Observation, Observe(o)
    PROVE  /\ obs' \in Observation
           /\ recent' \in [1..3 -> [target : -1..Crash, regime : -1..Crash]]
           /\ recent'[1] = [target |-> Target(o), regime |-> regime]
           /\ recent'[2] = recent[1]
           /\ recent'[3] = recent[2]
           /\ sinceCrash' \in 0..RecoveryTime
  <1>1. Target(o) \in 0..Crash /\ regime \in 0..Crash
    BY TargetType DEF ArasTypeOK, Regimes
  <1>2. \A i \in {2, 3} : recent'[i] = recent[i - 1]
    BY DEF Observe
  <1>3. recent'[1] = [target |-> Target(o), regime |-> regime]
    BY DEF Observe
  <1>4. recent' \in [1..3 -> [target : -1..Crash, regime : -1..Crash]]
    <2>1. \A i \in 1..3 : (IF i = 1 THEN [target |-> Target(o), regime |-> regime]
                                   ELSE recent[i - 1])
                          \in [target : -1..Crash, regime : -1..Crash]
      BY <1>1, SMT DEF ArasTypeOK, Crash
    <2>2. QED BY <2>1, SMT DEF Observe
  <1>5. sinceCrash' \in 0..RecoveryTime
    BY SMT DEF Observe, ArasTypeOK, RecoveryTime, Crash, UpgradeConfirmations
  <1>6. QED BY <1>2, <1>3, <1>4, <1>5, SMT DEF Observe

Pending == [step : -1..Crash, direction : {"NONE", "MORE_DEF", "LESS_DEF"}, count : 0..2]

LEMMA NoPendingType == NoPending \in Pending
  BY SMT DEF NoPending, Pending, Crash

\* An observation keeps the types if the regime and the pending step do.
LEMMA TypeStep ==
    ASSUME ArasTypeOK, NEW o \in Observation, Observe(o),
           regime' \in Regimes, pending' \in Pending
    PROVE  ArasTypeOK'
  <1>1. /\ obs' \in Observation
        /\ recent' \in [1..3 -> [target : -1..Crash, regime : -1..Crash]]
        /\ sinceCrash' \in 0..RecoveryTime
    BY Observed
  <1>2. QED BY <1>1 DEF ArasTypeOK, Pending

LEMMA ArasOpens == ArasInit => ArasInv
  BY SMT DEF ArasInit, FreshAssessor, NoObservation, ArasInv, ArasTypeOK, PendingIsEarned, RecoveryIsPaid,
         NoPending, Regimes, Crash, RecoveryTime, UpgradeConfirmations

\* What a count, and a step, say of the observations behind them.
LEMMA StreakFacts ==
    ASSUME ArasInv, NEW o \in Observation, Observe(o), Target(o) \notin {Crash, regime}
    PROVE  /\ Target(o) \in 0..3
           /\ Target(o) > regime => /\ Step(Target(o)) = regime + 1
                                    /\ Direction(Target(o)) = "MORE_DEF"
                                    /\ Confirmed(Target(o)) =>
                                         /\ recent[1].regime = regime
                                         /\ recent[1].target > regime
                                    /\ ~Confirmed(Target(o)) => Streak(Target(o)) = 1
           /\ Target(o) < regime => /\ Step(Target(o)) = regime - 1
                                    /\ Direction(Target(o)) = "LESS_DEF"
                                    /\ Streak(Target(o)) \in 1..3
                                    /\ Streak(Target(o)) <= LessCount + 1
                                    /\ Confirmed(Target(o)) => Streak(Target(o)) = 3
                                    /\ ~Confirmed(Target(o)) => Streak(Target(o)) \in 1..2
                                    /\ Streak(Target(o)) >= 2 =>
                                         /\ recent[1].regime = regime
                                         /\ recent[1].target < regime
                                    /\ Streak(Target(o)) = 3 =>
                                         /\ recent[2].regime = regime
                                         /\ recent[2].target < regime
           /\ Target(o) > regime \/ Target(o) < regime
  BY TargetType, SMT
     DEF ArasInv, ArasTypeOK, PendingIsEarned, NoPending, Regimes, Crash, Step, Direction,
         Streak, Confirmed, Needed, LessCount, UpgradeConfirmations, DowngradeConfirmations

LEMMA ArasStep == ArasInv /\ [Assess]_assessor => ArasInv'
  <1> SUFFICES ASSUME ArasInv, [Assess]_assessor PROVE ArasInv'
    OBVIOUS
  <1>1. ASSUME NEW o \in Observation, AssessCrash(o) PROVE ArasInv'
    <2>1. Observe(o) BY <1>1 DEF AssessCrash
    <2>2. ArasTypeOK'
      <3>1. regime' \in Regimes BY <1>1, SMT DEF AssessCrash, Regimes, Crash
      <3>2. pending' \in Pending BY <1>1, NoPendingType DEF AssessCrash
      <3>3. QED BY <2>1, <3>1, <3>2, TypeStep DEF ArasInv
    <2>3. PendingIsEarned' BY <1>1 DEF AssessCrash, PendingIsEarned
    <2>4. RecoveryIsPaid'
      BY <1>1, SMT DEF AssessCrash, Observe, RecoveryIsPaid, LessCount, NoPending, Crash,
                  UpgradeConfirmations
    <2>5. QED BY <2>2, <2>3, <2>4 DEF ArasInv
  <1>2. ASSUME NEW o \in Observation, AssessConfirmed(o) PROVE ArasInv'
    <2>1. Observe(o) BY <1>2 DEF AssessConfirmed
    <2>2. ArasTypeOK'
      <3>1. regime' \in Regimes BY <1>2 DEF AssessConfirmed, ArasInv, ArasTypeOK
      <3>2. pending' \in Pending BY <1>2, NoPendingType DEF AssessConfirmed
      <3>3. QED BY <2>1, <3>1, <3>2, TypeStep DEF ArasInv
    <2>3. PendingIsEarned' BY <1>2 DEF AssessConfirmed, PendingIsEarned
    <2>4. RecoveryIsPaid'
      BY <1>2, SMT DEF AssessConfirmed, Observe, ArasInv, ArasTypeOK, RecoveryIsPaid, LessCount, NoPending,
                  Crash, Regimes, RecoveryTime, UpgradeConfirmations
    <2>5. QED BY <2>2, <2>3, <2>4 DEF ArasInv
  <1>3. ASSUME NEW o \in Observation, AssessCount(o) PROVE ArasInv'
    <2>1. Observe(o) /\ Target(o) \notin {Crash, regime} BY <1>3 DEF AssessCount
    <2>2. ArasTypeOK'
      <3>1. regime' \in Regimes /\ regime \in 0..Crash
        BY <1>3 DEF AssessCount, ArasInv, ArasTypeOK, Regimes
      <3>2. pending' \in Pending
        BY <1>3, <2>1, <3>1, StreakFacts, SMT DEF AssessCount, Pending, Crash
      <3>3. QED BY <2>1, <3>1, <3>2, TypeStep DEF ArasInv
    <2>3. PendingIsEarned'
      <3>1. /\ recent'[1] = [target |-> Target(o), regime |-> regime]
            /\ recent'[2] = recent[1]
        BY <2>1, Observed DEF ArasInv
      <3>2. /\ regime' = regime
            /\ pending' = [step |-> Step(Target(o)), direction |-> Direction(Target(o)),
                           count |-> Streak(Target(o))]
            /\ ~Confirmed(Target(o))
        BY <1>3 DEF AssessCount
      <3>3. CASE Target(o) > regime
        BY <2>1, <3>1, <3>2, <3>3, StreakFacts, SMT DEF PendingIsEarned
      <3>4. CASE Target(o) < regime
        <4>1. /\ Step(Target(o)) = regime - 1 /\ Direction(Target(o)) = "LESS_DEF"
              /\ Streak(Target(o)) \in 1..2
              /\ Streak(Target(o)) = 2 => /\ recent[1].regime = regime
                                         /\ recent[1].target < regime
          BY <2>1, <3>2, <3>4, StreakFacts, SMT
        <4>2. QED BY <3>1, <3>2, <3>4, <4>1, SMT DEF PendingIsEarned
      <3>5. QED BY <2>1, <3>3, <3>4, StreakFacts
    <2>4. RecoveryIsPaid'
      BY <1>3, <2>1, StreakFacts, SMT
         DEF AssessCount, Observe, ArasInv, ArasTypeOK, RecoveryIsPaid, LessCount,
             Crash, Regimes, RecoveryTime, UpgradeConfirmations
    <2>5. QED BY <2>2, <2>3, <2>4 DEF ArasInv
  <1>4. ASSUME NEW o \in Observation, AssessStep(o) PROVE ArasInv'
    <2>1. Observe(o) /\ Target(o) \notin {Crash, regime} BY <1>4 DEF AssessStep
    <2>2. ArasTypeOK'
      <3>1. regime' \in Regimes
        BY <1>4, <2>1, StreakFacts, SMT DEF AssessStep, ArasInv, ArasTypeOK, Regimes, Crash
      <3>2. pending' \in Pending BY <1>4, NoPendingType DEF AssessStep
      <3>3. QED BY <2>1, <3>1, <3>2, TypeStep DEF ArasInv
    <2>3. PendingIsEarned' BY <1>4 DEF AssessStep, PendingIsEarned
    <2>4. RecoveryIsPaid'
      BY <1>4, <2>1, StreakFacts, SMT
         DEF AssessStep, Observe, ArasInv, ArasTypeOK, RecoveryIsPaid, LessCount, NoPending,
             Crash, Regimes, RecoveryTime, UpgradeConfirmations
    <2>5. QED BY <2>2, <2>3, <2>4 DEF ArasInv
  <1>5. CASE UNCHANGED assessor
    BY <1>5 DEF assessor, ArasInv, ArasTypeOK, PendingIsEarned, RecoveryIsPaid, LessCount
  <1>6. QED BY <1>1, <1>2, <1>3, <1>4, <1>5 DEF Assess

LEMMA ArasHolds == ArasSpec => []ArasInv
  BY ArasOpens, ArasStep, PTL DEF ArasSpec

----------------------------------------------------------------------------
\* Type correctness of the assessor.
THEOREM TypeCorrect == ArasSpec => []ArasTypeOK
  BY ArasHolds, PTL DEF ArasInv

\* The way back from CRASH takes three observations for every band, always.
THEOREM StagedRecovery == ArasSpec => []RecoveryIsStaged
  <1>1. ArasInv => RecoveryIsStaged
    BY SMT DEF ArasInv, ArasTypeOK, PendingIsEarned, NoPending, RecoveryIsPaid, RecoveryIsStaged,
       LessCount, RecoveryTime, Regimes, Crash, UpgradeConfirmations
  <1>2. QED BY <1>1, ArasHolds, PTL

\* The regime never relaxes without three observations that asked for it.
THEOREM EarnedRelaxation == ArasSpec => RelaxIsEarned
  <1>1. ArasInv /\ [Assess]_assessor =>
          [regime' < regime =>
             /\ regime' = regime - 1
             /\ \A i \in 1..3 : /\ recent'[i].regime = regime
                                /\ recent'[i].target < regime]_assessor
    <2> SUFFICES ASSUME ArasInv, Assess, regime' < regime
                 PROVE  /\ regime' = regime - 1
                        /\ \A i \in 1..3 : /\ recent'[i].regime = regime
                                           /\ recent'[i].target < regime
      OBVIOUS
    <2>1. PICK o \in Observation : \/ AssessCrash(o) \/ AssessConfirmed(o)
                                   \/ AssessCount(o) \/ AssessStep(o)
      BY DEF Assess
    <2>2. regime \in 0..Crash /\ ArasTypeOK BY DEF ArasInv, ArasTypeOK, Regimes
    <2>3. AssessStep(o)
      BY <2>1, <2>2, SMT DEF AssessCrash, AssessConfirmed, AssessCount, Crash
    <2>4. Observe(o) /\ Target(o) \notin {Crash, regime} /\ Confirmed(Target(o))
      BY <2>3 DEF AssessStep
    <2>5. Target(o) < regime /\ Streak(Target(o)) = 3 /\ regime' = regime - 1
      BY <2>2, <2>3, <2>4, StreakFacts, SMT DEF AssessStep, Crash
    <2>6. /\ recent'[1] = [target |-> Target(o), regime |-> regime]
          /\ recent'[2] = recent[1] /\ recent'[3] = recent[2]
      BY <2>2, <2>4, Observed
    <2>7. /\ recent[1].regime = regime /\ recent[1].target < regime
          /\ recent[2].regime = regime /\ recent[2].target < regime
      BY <2>4, <2>5, StreakFacts, SMT
    <2>8. QED BY <2>5, <2>6, <2>7, SMT
  <1>2. QED BY <1>1, ArasHolds, PTL DEF ArasSpec, RelaxIsEarned

\* The regime never tightens on less than a CRASH print or two observations.
THEOREM EarnedTightening == ArasSpec => TightenIsEarned
  <1>1. ArasInv /\ [Assess]_assessor =>
          [regime' > regime =>
             \/ regime' = Crash /\ recent'[1].target = Crash
             \/ /\ regime' = regime + 1
                /\ \A i \in 1..2 : /\ recent'[i].regime = regime
                                   /\ recent'[i].target > regime]_assessor
    <2> SUFFICES ASSUME ArasInv, Assess, regime' > regime
                 PROVE  \/ regime' = Crash /\ recent'[1].target = Crash
                        \/ /\ regime' = regime + 1
                           /\ \A i \in 1..2 : /\ recent'[i].regime = regime
                                              /\ recent'[i].target > regime
      OBVIOUS
    <2>1. PICK o \in Observation : \/ AssessCrash(o) \/ AssessConfirmed(o)
                                   \/ AssessCount(o) \/ AssessStep(o)
      BY DEF Assess
    <2>2. regime \in 0..Crash /\ ArasTypeOK BY DEF ArasInv, ArasTypeOK, Regimes
    <2>3. Observe(o)
      BY <2>1 DEF AssessCrash, AssessConfirmed, AssessCount, AssessStep
    <2>4. /\ recent'[1] = [target |-> Target(o), regime |-> regime]
          /\ recent'[2] = recent[1]
      BY <2>2, <2>3, Observed
    <2>5. CASE AssessCrash(o)
      BY <2>4, <2>5 DEF AssessCrash
    <2>6. CASE AssessStep(o)
      <3>1. Target(o) \notin {Crash, regime} /\ Confirmed(Target(o))
        BY <2>6 DEF AssessStep
      <3>2. Target(o) > regime /\ regime' = regime + 1
        BY <2>2, <2>3, <2>6, <3>1, StreakFacts, SMT DEF AssessStep, Crash
      <3>3. recent[1].regime = regime /\ recent[1].target > regime
        BY <2>3, <3>1, <3>2, StreakFacts
      <3>4. QED BY <2>4, <3>2, <3>3, SMT
    <2>7. QED
      BY <2>1, <2>2, <2>5, <2>6, SMT DEF AssessConfirmed, AssessCount, Crash
  <1>2. QED BY <1>1, ArasHolds, PTL DEF ArasSpec, TightenIsEarned

\* The assessor implements the abstract regime governor.
THEOREM ImplementsGovernor == ArasSpec => Governed
  <1>1. ArasInit => Governor!GovInit
    BY DEF ArasInit, FreshAssessor, NoObservation, Governor!GovInit, Age
  <1>2. ArasInv /\ [Assess]_assessor => [Governor!GovNext]_(Governor!govVars)
    <2> SUFFICES ASSUME ArasInv, [Assess]_assessor
                 PROVE  Governor!GovNext \/ UNCHANGED Governor!govVars
      OBVIOUS
    <2> USE DEF Governor!GovNext, Governor!Capped, Age
    <2>1. regime \in 0..Crash /\ ArasTypeOK BY DEF ArasInv, ArasTypeOK, Regimes
    <2>2. ASSUME NEW o \in Observation, Observe(o), regime' = regime
          PROVE  Governor!Keep
      <3>1. /\ recent'[1] = [target |-> Target(o), regime |-> regime]
            /\ recent'[2] = recent[1]
        BY <2>1, <2>2, Observed
      <3>2. QED BY <2>2, <3>1, SMT DEF Governor!Keep, UpgradeConfirmations
    <2>3. ASSUME NEW o \in Observation, AssessCrash(o) PROVE Governor!GovNext
      <3>1. Observe(o) /\ regime' = Crash BY <2>3 DEF AssessCrash
      <3>2. CASE regime = Crash
        <4>1. regime' = regime BY <3>1, <3>2
        <4>2. QED BY <2>2, <3>1, <4>1
      <3>3. CASE regime # Crash
        <4>1. recent'[1] = [target |-> Target(o), regime |-> regime]
          BY <2>1, <3>1, Observed
        <4>2. regime' = 4 /\ recent'[1].regime # regime'
          BY <3>1, <3>3, <4>1, SMT DEF Crash
        <4>3. Governor!Crash BY <4>2 DEF Governor!Crash
        <4>4. QED BY <4>3
      <3>4. QED BY <3>2, <3>3
    <2>4. ASSUME NEW o \in Observation, AssessConfirmed(o) PROVE Governor!GovNext
      BY <2>2, <2>4 DEF AssessConfirmed
    <2>5. ASSUME NEW o \in Observation, AssessCount(o) PROVE Governor!GovNext
      BY <2>2, <2>5 DEF AssessCount
    <2>6. ASSUME NEW o \in Observation, AssessStep(o) PROVE Governor!GovNext
      <3>1. /\ Observe(o) /\ Target(o) \notin {Crash, regime} /\ Confirmed(Target(o))
            /\ regime' = Step(Target(o))
        BY <2>6 DEF AssessStep
      <3>2. recent'[1] = [target |-> Target(o), regime |-> regime]
        BY <2>1, <3>1, Observed
      <3>3. CASE Target(o) > regime
        <4>1. recent[1].regime = regime /\ regime' = regime + 1 /\ Target(o) \in 0..3
          BY <3>1, <3>3, StreakFacts
        <4>2. Governor!Tighten
          BY <2>1, <3>2, <3>3, <4>1, SMT
             DEF Governor!Tighten, DowngradeConfirmations, Crash
        <4>3. QED BY <4>2
      <3>4. CASE Target(o) < regime
        <4>1. /\ recent[1].regime = regime /\ recent[2].regime = regime
              /\ regime' = regime - 1 /\ Target(o) \in 0..3
          BY <3>1, <3>4, StreakFacts, SMT
        <4>2. Governor!Relax
          BY <2>1, <3>2, <3>4, <4>1, SMT DEF Governor!Relax, UpgradeConfirmations, Crash
        <4>3. QED BY <4>2
      <3>5. QED BY <3>1, <3>3, <3>4, StreakFacts
    <2>7. CASE UNCHANGED assessor
      BY <2>7 DEF assessor, Governor!govVars
    <2>8. QED BY <2>3, <2>4, <2>5, <2>6, <2>7 DEF Assess
  <1>3. QED BY <1>1, <1>2, ArasHolds, PTL DEF ArasSpec, Governed, Governor!GovSpec

----------------------------------------------------------------------------
\* The assessor in the mornings of the live system. What it counts may stem
\* from days before, which the history does not hold: the shape of a count is
\* all there is to go by.
PendingIsShaped ==
    \/ pending = NoPending
    \/ /\ pending.direction = "MORE_DEF"
       /\ pending.step = regime + 1
       /\ pending.count = 1
       /\ regime < Crash
    \/ /\ pending.direction = "LESS_DEF"
       /\ pending.step = regime - 1
       /\ pending.count \in 1..2
       /\ regime > 0

AssessorInv ==
    /\ regime \in Regimes
    /\ sinceCrash \in 0..RecoveryTime
    /\ PendingIsShaped
    /\ RecoveryIsPaid

\* An attempt assesses once at most, and a morning begins with the regime of
\* dawn.
OneAssessmentEach ==
    /\ attempt \in 1..Attempts
    /\ dawn \in Regimes
    /\ asked \in Seq(Regimes)
    /\ Len(asked) <= attempt
    /\ pc \in {"start", "news", "assess"} => Len(asked) < attempt
    /\ Len(asked) = 0 => regime = dawn

\* While all the assessments of a morning ask for more than the regime at dawn,
\* the first is at least counted and the second takes effect.
StressIsCounted ==
    (\A n \in DOMAIN asked : asked[n] > dawn) =>
        /\ Len(asked) = 1 =>
             \/ regime > dawn
             \/ regime = dawn /\ pending.direction = "MORE_DEF"
        /\ Len(asked) >= 2 => regime > dawn

\* Once a band has been given back since dawn, what is counted for the next
\* was asked for after that.
BandIsCounted == regime < dawn => regime = dawn - 1 /\ LessCount < Len(asked)

MorningInv == AssessorInv /\ OneAssessmentEach /\ StressIsCounted
BandInv == Attempts <= UpgradeConfirmations => BandIsCounted

AssessAny(o) == AssessCrash(o) \/ AssessConfirmed(o) \/ AssessCount(o) \/ AssessStep(o)

\* Every observation maps to one of the five regimes, whatever its scores.
LEMMA TargetsAreRegimes == \A o : Target(o) \in Regimes
  BY SMT DEF Target, TargetRegimeIdx, Regimes, Crash

\* What one assessment does to the regime and to the count.
LEMMA OneAssessment ==
    ASSUME AssessorInv, NEW o, AssessAny(o)
    PROVE  /\ AssessorInv'
           /\ regime' >= regime - 1
           /\ regime' < regime => LessCount = 2 /\ LessCount' = 0 /\ Target(o) <= regime'
           /\ regime' >= regime => LessCount' <= LessCount + 1
           /\ Target(o) > regime => \/ regime' > regime
                                    \/ regime' = regime /\ pending'.direction = "MORE_DEF"
           /\ Target(o) > regime /\ pending.direction = "MORE_DEF" => regime' > regime
  <1>1. Target(o) \in 0..4 /\ regime \in 0..4
    BY TargetsAreRegimes DEF AssessorInv, Regimes, Crash
  <1>2. CASE AssessCrash(o)
    BY <1>1, <1>2, SMT
       DEF AssessCrash, Observe, AssessorInv, PendingIsShaped, RecoveryIsPaid, LessCount,
           NoPending, Crash, Regimes, RecoveryTime, UpgradeConfirmations
  <1>3. CASE AssessConfirmed(o)
    BY <1>1, <1>3, SMT
       DEF AssessConfirmed, Observe, AssessorInv, PendingIsShaped, RecoveryIsPaid, LessCount,
           NoPending, Crash, Regimes, RecoveryTime, UpgradeConfirmations
  <1>4. CASE AssessCount(o)
    BY <1>1, <1>4, SMT
       DEF AssessCount, Observe, AssessorInv, PendingIsShaped, RecoveryIsPaid, LessCount,
           NoPending, Crash, Regimes, RecoveryTime, UpgradeConfirmations, Step, Direction,
           Streak, Confirmed, Needed, DowngradeConfirmations
  <1>5. CASE AssessStep(o)
    BY <1>1, <1>5, SMT
       DEF AssessStep, Observe, AssessorInv, PendingIsShaped, RecoveryIsPaid, LessCount,
           NoPending, Crash, Regimes, RecoveryTime, UpgradeConfirmations, Step, Direction,
           Streak, Confirmed, Needed, DowngradeConfirmations
  <1>6. QED BY <1>2, <1>3, <1>4, <1>5 DEF AssessAny

\* The steps that leave the assessor, the morning and its history alone.
LEMMA AssessorRests ==
    ASSUME UNCHANGED assessor
    PROVE  /\ AssessorInv => AssessorInv'
           /\ regime' = regime /\ pending' = pending /\ LessCount' = LessCount
  BY DEF assessor, AssessorInv, PendingIsShaped, RecoveryIsPaid, LessCount

LEMMA MorningRests ==
    ASSUME MorningInv, BandInv, UNCHANGED <<assessor, attempt, dawn, asked>>,
           pc' \in {"start", "news", "assess"} => pc \in {"start", "news", "assess"}
    PROVE  MorningInv' /\ BandInv'
  <1>1. AssessorInv' /\ regime' = regime /\ pending' = pending /\ LessCount' = LessCount
    BY AssessorRests DEF MorningInv
  <1>2. OneAssessmentEach' /\ StressIsCounted'
    BY <1>1 DEF MorningInv, OneAssessmentEach, StressIsCounted
  <1>3. BandInv'
    BY <1>1 DEF BandInv, BandIsCounted
  <1>4. QED BY <1>1, <1>2, <1>3 DEF MorningInv
----------------------------------------------------------------------------
LEMMA MorningOpens == Init => MorningInv /\ BandInv
<1> SUFFICES ASSUME Init PROVE MorningInv /\ BandInv
  OBVIOUS
<1>1. PendingIsShaped
  <2>1. CASE pending = NoPending
    BY <2>1 DEF PendingIsShaped
  <2>2. CASE pending \in Carried
    <3>1. regime \in 0..4 BY DEF Init, Regimes, Crash
    <3>2. CASE \E c \in 1..2 : /\ regime > 0
                               /\ pending = [step |-> regime - 1, direction |-> "LESS_DEF",
                                             count |-> c]
      BY <3>1, <3>2, SMT DEF PendingIsShaped
    <3>3. CASE \E c \in 1..1 : /\ regime < 4
                               /\ pending = [step |-> regime + 1, direction |-> "MORE_DEF",
                                             count |-> c]
      BY <3>1, <3>3, SMT DEF PendingIsShaped, Crash
    <3>4. QED
      BY <2>2, <3>1, <3>2, <3>3, SMT
         DEF Carried, UpgradeConfirmations, DowngradeConfirmations, Crash
  <2>3. QED BY <2>1, <2>2 DEF Init
<1>2. AssessorInv
  BY <1>1, SMT DEF Init, AssessorInv, RecoveryIsPaid, RecoveryTime, Crash, UpgradeConfirmations
<1>3. OneAssessmentEach /\ StressIsCounted /\ BandIsCounted
  BY RegimeAssumption, SMT
     DEF Init, OneAssessmentEach, StressIsCounted, BandIsCounted, Regimes, Crash
<1>4. QED BY <1>2, <1>3 DEF MorningInv, BandInv

LEMMA MorningAssesses ==
    ASSUME MorningInv, BandInv, AssessRegime
    PROVE  MorningInv' /\ BandInv'
<1>1. PICK o : AssessAny(o) /\ asked' = Append(asked, Target(o))
  BY DEF AssessRegime, AssessAny
<1>2. /\ pc = "assess" /\ pc' = "monitor" /\ attempt' = attempt /\ dawn' = dawn
  BY DEF AssessRegime
<1>3. /\ AssessorInv'
      /\ regime' >= regime - 1
      /\ regime' < regime => LessCount = 2 /\ LessCount' = 0 /\ Target(o) <= regime'
      /\ regime' >= regime => LessCount' <= LessCount + 1
      /\ Target(o) > regime => \/ regime' > regime
                               \/ regime' = regime /\ pending'.direction = "MORE_DEF"
      /\ Target(o) > regime /\ pending.direction = "MORE_DEF" => regime' > regime
  BY <1>1, OneAssessment DEF MorningInv
<1>4. /\ regime \in 0..4 /\ regime' \in 0..4 /\ dawn \in 0..4 /\ Target(o) \in 0..4
      /\ attempt \in Nat /\ asked \in Seq(0..4)
      /\ Len(asked) < attempt /\ attempt <= Attempts
      /\ Len(asked) = 0 => regime = dawn
  BY <1>2, <1>3, TargetsAreRegimes, RegimeAssumption, SMT
     DEF MorningInv, AssessorInv, OneAssessmentEach, Regimes, Crash
<1>5. /\ asked' \in Seq(0..4) /\ Len(asked') = Len(asked) + 1
      /\ \A n \in DOMAIN asked : n \in DOMAIN asked' /\ asked'[n] = asked[n]
      /\ Len(asked') \in DOMAIN asked' /\ asked'[Len(asked')] = Target(o)
      /\ Len(asked) \in Nat
  BY <1>1, <1>4, SMT
<1>6. OneAssessmentEach'
  <2>1. attempt \in 1..Attempts BY DEF MorningInv, OneAssessmentEach
  <2>2. QED BY <1>2, <1>4, <1>5, <2>1, SMT DEF OneAssessmentEach, Regimes, Crash
<1>7. StressIsCounted'
  <2> SUFFICES ASSUME \A n \in DOMAIN asked' : asked'[n] > dawn
               PROVE  /\ Len(asked') = 1 =>
                           \/ regime' > dawn
                           \/ regime' = dawn /\ pending'.direction = "MORE_DEF"
                      /\ Len(asked') >= 2 => regime' > dawn
    BY <1>2 DEF StressIsCounted
  <2>1. Target(o) > dawn /\ \A n \in DOMAIN asked : asked[n] > dawn
    BY <1>5
  <2>2. /\ Len(asked) = 1 => \/ regime > dawn
                             \/ regime = dawn /\ pending.direction = "MORE_DEF"
        /\ Len(asked) >= 2 => regime > dawn
    BY <2>1 DEF MorningInv, StressIsCounted
  <2>3. Target(o) \in 0..4 /\ dawn \in 0..4 /\ regime \in 0..4 /\ regime' \in 0..4
    BY <1>4
  <2>4. regime > dawn => regime' > dawn
    BY <1>3, <2>1, <2>3, SMT
  <2>5. regime = dawn => \/ regime' > dawn
                         \/ regime' = dawn /\ pending'.direction = "MORE_DEF"
    BY <1>3, <2>1
  <2>6. regime = dawn /\ pending.direction = "MORE_DEF" => regime' > dawn
    BY <1>3, <2>1
  <2>7. CASE Len(asked) = 0
    BY <1>4, <1>5, <2>5, <2>7, SMT
  <2>8. CASE Len(asked) >= 1
    <3>1. Len(asked) = 1 \/ Len(asked) >= 2
      <4>1. \A n \in Nat : n >= 1 => n = 1 \/ n >= 2
        BY SMT
      <4>2. Len(asked) \in Nat BY <1>5
      <4>3. QED BY <2>8, <4>1, <4>2, Zenon
    <3>2. regime' > dawn BY <2>2, <2>4, <2>6, <3>1
    <3>3. QED BY <3>2
  <2>9. QED BY <1>5, <2>7, <2>8, SMT
<1>8. BandInv'
  <2> SUFFICES ASSUME Attempts <= UpgradeConfirmations, regime' < dawn
               PROVE  regime' = dawn - 1 /\ LessCount' < Len(asked')
    BY <1>2 DEF BandInv, BandIsCounted
  <2>1. Attempts \in Nat /\ Attempts <= 3
    BY RegimeAssumption DEF UpgradeConfirmations
  <2>2. regime < dawn => regime = dawn - 1 /\ LessCount < Len(asked)
    BY DEF BandInv, BandIsCounted
  <2>3. LessCount \in 0..2
    BY DEF MorningInv, AssessorInv, PendingIsShaped, LessCount, NoPending
  <2>4. LessCount' \in 0..2
    BY <1>3 DEF AssessorInv, PendingIsShaped, LessCount, NoPending
  <2>5. CASE regime < dawn
    BY <1>3, <1>4, <1>5, <2>1, <2>2, <2>3, <2>4, <2>5, SMT
  <2>6. CASE regime >= dawn
    BY <1>3, <1>4, <1>5, <2>4, <2>6, SMT
  <2>7. QED BY <1>4, <2>5, <2>6, SMT
<1>9. QED BY <1>3, <1>6, <1>7, <1>8 DEF MorningInv

LEMMA MorningStep == MorningInv /\ BandInv /\ [Next]_vars => MorningInv' /\ BandInv'
<1> SUFFICES ASSUME MorningInv, BandInv, [Next]_vars PROVE MorningInv' /\ BandInv'
  OBVIOUS
<1>1. CASE ReadFeeds
  BY <1>1, MorningRests DEF ReadFeeds, history
<1>2. CASE ReadNews
  BY <1>2, MorningRests DEF ReadNews
<1>3. CASE AssessRegime
  BY <1>3, MorningAssesses
<1>4. CASE NoPriceOfSpy
  BY <1>4, MorningRests DEF NoPriceOfSpy, history
<1>5. CASE RunMonitors
  BY <1>5, MorningRests DEF RunMonitors, history
<1>6. CASE ScanNews
  BY <1>6, MorningRests DEF ScanNews
<1>7. CASE Retry
  <2>1. /\ UNCHANGED assessor /\ dawn' = dawn /\ asked' = asked
        /\ attempt' = attempt + 1 /\ attempt < Attempts
    BY <1>7 DEF Retry, history
  <2>2. AssessorInv' /\ regime' = regime /\ pending' = pending /\ LessCount' = LessCount
    BY <2>1, AssessorRests DEF MorningInv
  <2>3. OneAssessmentEach'
    BY <2>1, <2>2, RegimeAssumption, SMT DEF MorningInv, OneAssessmentEach
  <2>4. StressIsCounted' BY <2>1, <2>2 DEF MorningInv, StressIsCounted
  <2>5. BandInv' BY <2>1, <2>2 DEF BandInv, BandIsCounted
  <2>6. QED BY <2>2, <2>3, <2>4, <2>5 DEF MorningInv
<1>8. CASE NextMorning
  <2>1. /\ UNCHANGED assessor /\ dawn' = regime /\ asked' = <<>> /\ attempt' = 1
    BY <1>8 DEF NextMorning
  <2>2. AssessorInv' /\ regime' = regime /\ regime \in Regimes
    BY <2>1, AssessorRests DEF MorningInv, AssessorInv
  <2>3. OneAssessmentEach' /\ StressIsCounted'
    BY <2>1, <2>2, RegimeAssumption, SMT DEF OneAssessmentEach, StressIsCounted
  <2>4. BandInv'
    BY <2>1, <2>2, SMT DEF BandInv, BandIsCounted, Regimes, Crash
  <2>5. QED BY <2>2, <2>3, <2>4 DEF MorningInv
<1>9. CASE UNCHANGED vars
  BY <1>9, MorningRests DEF vars, history
<1>10. QED
  BY <1>1, <1>2, <1>3, <1>4, <1>5, <1>6, <1>7, <1>8, <1>9 DEF Next

LEMMA MorningHolds == Spec => [](MorningInv /\ BandInv)
  BY MorningOpens, MorningStep, PTL DEF Spec

\* However often the attempts of a morning fail and wherever, at most one band
\* is given back between one dawn and the next, as long as a morning has no more
\* attempts than a relaxation needs observations.
THEOREM MorningsAreBounded ==
    ASSUME Attempts <= UpgradeConfirmations
    PROVE  Spec => []OneBandAMorning
<1>1. MorningInv /\ BandInv => OneBandAMorning
  BY SMT DEF MorningInv, BandInv, BandIsCounted, AssessorInv, OneAssessmentEach,
             OneBandAMorning, Regimes, Crash
<1>2. QED BY <1>1, MorningHolds, PTL

\* Two assessments that ask for more take effect by the evening of the day,
\* whatever was pending at dawn and whatever fails around them.
THEOREM StressTakesEffect == Spec => []StressedMorningTightens
<1>1. MorningInv => StressedMorningTightens
  <2> SUFFICES ASSUME MorningInv, Len(asked) >= 2, \A n \in DOMAIN asked : asked[n] > dawn
               PROVE  regime > dawn
    BY DEF StressedMorningTightens
  <2>1. QED BY DEF MorningInv, StressIsCounted
<1>2. QED BY <1>1, MorningHolds, PTL

\* Recovery from a CRASH print is staged in the live system as well, over any
\* number of mornings and of attempts that fail.
THEOREM LiveRecoveryIsStaged == Spec => []RecoveryIsStaged
<1>1. MorningInv => RecoveryIsStaged
  BY SMT DEF MorningInv, AssessorInv, PendingIsShaped, NoPending, RecoveryIsPaid,
             RecoveryIsStaged, LessCount, RecoveryTime, Regimes, Crash, UpgradeConfirmations
<1>2. QED BY <1>1, MorningHolds, PTL

----------------------------------------------------------------------------
(* What the news comes to.                                                 *)

\* A rule of the catalogue raises no score above one.
LEMMA StressIsBounded ==
    ASSUME NEW item, IsItem(item)
    PROVE  ClassifyEvent(item).stress \in 0..Unit
<1>1. \A c, d, s, t : Rule(c, d, s, t).stress = s
  BY DEF Rule
<1>2. /\ DOMAIN ClassificationRules \subseteq Int /\ IsFiniteSet(DOMAIN ClassificationRules)
      /\ \A n \in DOMAIN ClassificationRules : ClassificationRules[n].stress \in 0..Unit
  <2>1. DOMAIN ClassificationRules = 1..23
    BY SMTT(60) DEF ClassificationRules
  <2>2. \A n \in 1..23 : ClassificationRules[n].stress
           \in {1000, 1500, 2500, 3000, 3500, 4500, 5000, 5500, 6000, 7000, 7500, 8000, 9000}
    BY <1>1 DEF ClassificationRules
  <2>3. \A n \in 1..23 : ClassificationRules[n].stress \in 0..Unit
    BY <2>2 DEF Unit
  <2>4. IsFiniteSet(1..23)
    <3>1. 1 \in Int /\ 23 \in Int
      OBVIOUS
    <3> QED BY <3>1, FS_Interval, Zenon
  <2>5. 1..23 \subseteq Int
    OBVIOUS
  <2> QED BY <2>1, <2>3, <2>4, <2>5, Zenon
<1>3. CASE item.says # {}
  <2>1. IsFiniteSet(item.says) /\ item.says \subseteq Int
    BY <1>2, FS_Subset DEF IsItem
  <2>2. Min(item.says) \in item.says
    BY <1>3, <2>1, MinOfFinite
  <2>3. ClassifyEvent(item) = ClassificationRules[Min(item.says)]
    BY <1>3, Zenon DEF ClassifyEvent
  <2> QED BY <1>2, <2>2, <2>3 DEF IsItem
<1>4. CASE item.says = {} /\ item.type \in DOMAIN EventTypeFallback
  <2>1. ClassifyEvent(item) = EventTypeFallback[item.type]
    BY <1>4, Zenon DEF ClassifyEvent
  <2>2. ASSUME NEW t \in DOMAIN EventTypeFallback
        PROVE  EventTypeFallback[t].stress \in 0..Unit
    <3>1. EventTypeFallback[t].stress \in 0..10000
      BY <1>1 DEF EventTypeFallback
    <3> QED BY <3>1 DEF Unit
  <2> QED BY <1>4, <2>1, <2>2, Zenon
<1>5. CASE item.says = {} /\ item.type \notin DOMAIN EventTypeFallback
  <2>1. ClassifyEvent(item) = Rule("UNKNOWN", "NEUTRAL", 500, 24)
    BY <1>5, Zenon DEF ClassifyEvent
  <2> QED BY <2>1 DEF Rule, Unit
<1> QED BY <1>3, <1>4, <1>5

Stresses == [Fields -> 0..Unit]

\* What a de-escalating item leaves of a score.
LEMMA DampenedFits ==
    ASSUME NEW k \in 0..Unit, NEW l \in 0..Unit
    PROVE  (IF k - l > 0 THEN k - l ELSE 0) \in 0..Unit
<1>1. k \in Int /\ l \in Int /\ k >= 0 /\ l >= 0 /\ k <= 10000
  BY DEF Unit
<1>2. CASE k - l > 0
  BY <1>1, <1>2 DEF Unit
<1>3. CASE ~(k - l > 0)
  BY <1>1, <1>3 DEF Unit
<1> QED BY <1>2, <1>3

\* An item moves one score, and leaves it a score.
LEMMA EventsKeepScores ==
    ASSUME NEW scores \in Stresses, NEW item, IsItem(item)
    PROVE  Contribute(scores, item) \in Stresses
<1>1. ClassifyEvent(item).stress \in 0..Unit
  BY StressIsBounded
<1> DEFINE e == ClassifyEvent(item)
           f == FieldOf(e.category)
           d == scores[f] - e.stress \div 2
<1>2. f \in Fields
  BY DEF FieldOf, Fields
<1> HIDE DEF f
<1>3. scores[f] \in 0..Unit
  BY <1>2 DEF Stresses
<1>4. \A k \in 0..Unit : k \div 2 \in 0..Unit
  BY DEF Unit
<1>5. (IF d > 0 THEN d ELSE 0) \in 0..Unit
  <2> DEFINE m == scores[f]
             n == e.stress \div 2
  <2>1. m \in 0..Unit /\ n \in 0..Unit
    BY <1>1, <1>3, <1>4, Zenon
  <2> HIDE DEF m, n
  <2>2. (IF m - n > 0 THEN m - n ELSE 0) \in 0..Unit
    BY <2>1, DampenedFits
  <2> QED BY <2>2, Zenon DEF m, n
<1>6. (IF e.stress > scores[f] THEN e.stress ELSE scores[f]) \in 0..Unit
  BY <1>1, <1>3
<1> USE DEF f
<1>7. Contribute(scores, item) =
         [scores EXCEPT ![f] = IF e.direction = "DE_ESCALATION" THEN (IF d > 0 THEN d ELSE 0)
                               ELSE IF e.stress > scores[f] THEN e.stress ELSE scores[f]]
  BY Zenon DEF Contribute
<1> HIDE DEF d, e, f
<1> QED BY <1>2, <1>5, <1>6, <1>7 DEF Stresses

\* The domain of a sequence is a set of indices.
LEMMA SequenceIndices ==
    ASSUME NEW T, NEW seq \in Seq(T)
    PROVE  Indices(DOMAIN seq) /\ \A i \in DOMAIN seq : seq[i] \in T
<1>1. DOMAIN seq = 1..Len(seq) /\ Len(seq) \in Nat
  OBVIOUS
<1>2. IsFiniteSet(DOMAIN seq) /\ DOMAIN seq \subseteq Int
  BY <1>1, FS_Interval
<1> QED BY <1>2 DEF Indices

\* However many items there are, their scores stay within the unit.
LEMMA EventStates ==
    ASSUME NEW T, \A i \in T : IsItem(i), NEW items \in Seq(T), NEW now
    PROVE  MacroEventState(items, now) \in Stresses
<1> DEFINE S == DOMAIN items
           base == [f \in Fields |-> 0]
           op(x, i) == IF IsActive(items[i], now) THEN Contribute(x, items[i]) ELSE x
           step == [i \in S |-> [x \in Stresses |-> op(x, i)]]
           Iter(h) == h = [s \in SUBSET S |-> IF s = {} THEN base
                                              ELSE op(h[s \ {Max(s)}], Max(s))]
           iter == CHOOSE h : Iter(h)
<1>1. MacroEventState(items, now) = iter[S]
  BY DEF MacroEventState, FoldLeft, MapThenFoldSet
<1>2. Indices(S) /\ \A i \in S : items[i] \in T
  BY SequenceIndices, Zenon
<1>3. StepsIn(step, S, Stresses)
  <2>1. \A i \in S, x \in Stresses : op(x, i) \in Stresses
    BY <1>2, EventsKeepScores
  <2> HIDE DEF op, S
  <2> QED BY <2>1 DEF StepsIn
<1>4. base \in Stresses
  BY DEF Stresses, Unit
<1>5. \A h : Iter(h) => h[S] \in Stresses
  <2> SUFFICES ASSUME NEW h, Iter(h) PROVE h[S] \in Stresses
    OBVIOUS
  <2>1. \A s \in SUBSET S : h[s] = IF s = {} THEN base ELSE op(h[s \ {Max(s)}], Max(s))
    BY Zenon
  <2>2. h[{}] = base
    BY <2>1
  <2>3. \A s \in SUBSET S : s # {} /\ h[s \ {Max(s)}] \in Stresses
                            => h[s] = step[Max(s)][h[s \ {Max(s)}]]
    <3> SUFFICES ASSUME NEW s \in SUBSET S, s # {}, h[s \ {Max(s)}] \in Stresses
                 PROVE  h[s] = step[Max(s)][h[s \ {Max(s)}]]
      OBVIOUS
    <3>1. Max(s) \in S
      BY <1>2, SubIndices
    <3>2. h[s] = op(h[s \ {Max(s)}], Max(s))
      BY <2>1, Zenon
    <3> HIDE DEF op
    <3> QED BY <3>1, <3>2
  <2> HIDE DEF step, base, S, op
  <2>4. StepsAgree(h, step, base, S, Stresses)
    BY <2>2, <2>3, Zenon DEF StepsAgree
  <2> QED BY <1>2, <1>3, <1>4, <2>4, FoldsWithin, Zenon
<1>6. \E h : Iter(h)
  <2>1. PICK g : Folds(step, base, g, S) /\ \A s \in SUBSET S : g[s] \in Stresses
    <3> HIDE DEF step, base, S
    <3> QED BY <1>2, <1>3, <1>4, FoldsStay
  <2>2. \A s \in SUBSET S : s # {} =>
           step[Max(s)][g[s \ {Max(s)}]] = op(g[s \ {Max(s)}], Max(s))
    <3> SUFFICES ASSUME NEW s \in SUBSET S, s # {}
                 PROVE  step[Max(s)][g[s \ {Max(s)}]] = op(g[s \ {Max(s)}], Max(s))
      OBVIOUS
    <3>1. Max(s) \in S /\ g[s \ {Max(s)}] \in Stresses
      BY <1>2, <2>1, SubIndices
    <3> HIDE DEF op
    <3> QED BY <3>1
  <2> HIDE DEF step, base, S, op
  <2>3. Iter(g)
    <3>1. g = [s \in SUBSET S |-> IF s = {} THEN base ELSE step[Max(s)][g[s \ {Max(s)}]]]
      BY <2>1, Zenon DEF Folds
    <3>2. [s \in SUBSET S |-> IF s = {} THEN base ELSE step[Max(s)][g[s \ {Max(s)}]]]
          = [s \in SUBSET S |-> IF s = {} THEN base ELSE op(g[s \ {Max(s)}], Max(s))]
      BY <2>2, Zenon
    <3> QED BY <3>1, <3>2, Zenon
  <2> QED BY <2>3, Zenon
<1> QED BY <1>1, <1>5, <1>6, Zenon

\* What the feeds return is of what they hold.
LEMMA FetchedItems ==
    ASSUME NEW T, NEW news \in Seq(T)
    PROVE  Fetched(news) \in Seq(T)
<1> DEFINE S == DOMAIN news
           Y == Seq(T)
           base == <<>>
           op(x, i) == IF news[i].source # "rss" \/ RssAdmits(news[i]) THEN Append(x, news[i]) ELSE x
           step == [i \in S |-> [x \in Y |-> op(x, i)]]
           Iter(h) == h = [s \in SUBSET S |-> IF s = {} THEN base
                                              ELSE op(h[s \ {Max(s)}], Max(s))]
           iter == CHOOSE h : Iter(h)
<1>1. Fetched(news) = iter[S]
  BY DEF Fetched, FoldLeft, MapThenFoldSet
<1>2. Indices(S) /\ \A i \in S : news[i] \in T
  BY SequenceIndices, Zenon
<1>3. StepsIn(step, S, Y)
  <2>1. \A i \in S, x \in Y : op(x, i) \in Y
    BY <1>2
  <2> HIDE DEF op, S
  <2> QED BY <2>1 DEF StepsIn
<1>4. base \in Y
  OBVIOUS
<1>5. \A h : Iter(h) => h[S] \in Y
  <2> SUFFICES ASSUME NEW h, Iter(h) PROVE h[S] \in Y
    OBVIOUS
  <2>1. \A s \in SUBSET S : h[s] = IF s = {} THEN base ELSE op(h[s \ {Max(s)}], Max(s))
    BY Zenon
  <2>2. h[{}] = base
    BY <2>1
  <2>3. \A s \in SUBSET S : s # {} /\ h[s \ {Max(s)}] \in Y
                            => h[s] = step[Max(s)][h[s \ {Max(s)}]]
    <3> SUFFICES ASSUME NEW s \in SUBSET S, s # {}, h[s \ {Max(s)}] \in Y
                 PROVE  h[s] = step[Max(s)][h[s \ {Max(s)}]]
      OBVIOUS
    <3>1. Max(s) \in S
      BY <1>2, SubIndices
    <3>2. h[s] = op(h[s \ {Max(s)}], Max(s))
      BY <2>1, Zenon
    <3> HIDE DEF op
    <3> QED BY <3>1, <3>2
  <2> HIDE DEF step, base, S, op, Y
  <2>4. StepsAgree(h, step, base, S, Y)
    BY <2>2, <2>3, Zenon DEF StepsAgree
  <2> QED BY <1>2, <1>3, <1>4, <2>4, FoldsWithin, Zenon
<1>6. \E h : Iter(h)
  <2>1. PICK g : Folds(step, base, g, S) /\ \A s \in SUBSET S : g[s] \in Y
    <3> HIDE DEF step, base, S, Y
    <3> QED BY <1>2, <1>3, <1>4, FoldsStay
  <2>2. \A s \in SUBSET S : s # {} =>
           step[Max(s)][g[s \ {Max(s)}]] = op(g[s \ {Max(s)}], Max(s))
    <3> SUFFICES ASSUME NEW s \in SUBSET S, s # {}
                 PROVE  step[Max(s)][g[s \ {Max(s)}]] = op(g[s \ {Max(s)}], Max(s))
      OBVIOUS
    <3>1. Max(s) \in S /\ g[s \ {Max(s)}] \in Y
      BY <1>2, <2>1, SubIndices
    <3> HIDE DEF op
    <3> QED BY <3>1
  <2> HIDE DEF step, base, S, op, Y
  <2>3. Iter(g)
    <3>1. g = [s \in SUBSET S |-> IF s = {} THEN base ELSE step[Max(s)][g[s \ {Max(s)}]]]
      BY <2>1, Zenon DEF Folds
    <3>2. [s \in SUBSET S |-> IF s = {} THEN base ELSE step[Max(s)][g[s \ {Max(s)}]]]
          = [s \in SUBSET S |-> IF s = {} THEN base ELSE op(g[s \ {Max(s)}], Max(s))]
      BY <2>2, Zenon
    <3> QED BY <3>1, <3>2, Zenon
  <2> QED BY <2>3, Zenon
<1> HIDE DEF Iter
<1>7. iter[S] \in Y
  BY <1>5, <1>6, Zenon
<1> QED BY <1>1, <1>7

\* The items of which the store has no key.
Unseen(T, keys, clock) ==
    {q \in Seq(T) : \A n \in DOMAIN q : Fingerprint(q[n], clock) \notin ToSet(keys)}

\* What deduplication lets through is unseen, and no two of them share a print.
LEMMA DedupedItems ==
    ASSUME NEW T, NEW items \in Seq(T), NEW keys, NEW clock
    PROVE  Deduped(items, keys, clock) \in Unseen(T, keys, clock)
<1> DEFINE S == DOMAIN items
           Y == Unseen(T, keys, clock)
           base == <<>>
           op(x, i) == IF Fingerprint(items[i], clock) \in ToSet(keys) \cup ToSet(Keys(x, clock))
                       THEN x ELSE Append(x, items[i])
           step == [i \in S |-> [x \in Y |-> op(x, i)]]
           Iter(h) == h = [s \in SUBSET S |-> IF s = {} THEN base
                                              ELSE op(h[s \ {Max(s)}], Max(s))]
           iter == CHOOSE h : Iter(h)
<1>1. Deduped(items, keys, clock) = iter[S]
  BY DEF Deduped, FoldLeft, MapThenFoldSet
<1>2. Indices(S) /\ \A i \in S : items[i] \in T
  BY SequenceIndices, Zenon
<1>3. StepsIn(step, S, Y)
  <2>1. \A i \in S, x \in Y : op(x, i) \in Y
    <3> SUFFICES ASSUME NEW i \in S, NEW x \in Y
                 PROVE  op(x, i) \in Y
      OBVIOUS
    <3> DEFINE a == items[i]
               p == Fingerprint(a, clock)
    <3>1. a \in T /\ x \in Seq(T) /\ \A n \in DOMAIN x : Fingerprint(x[n], clock) \notin ToSet(keys)
      BY <1>2 DEF Unseen
    <3>2. CASE p \in ToSet(keys)
      BY <3>2, Zenon
    <3>3. CASE p \notin ToSet(keys)
      <4> HIDE DEF a
      <4>1. Append(x, a) \in Seq(T)
        BY <3>1
      <4>2. \A n \in DOMAIN Append(x, a) : \/ n \in DOMAIN x /\ Append(x, a)[n] = x[n]
                                           \/ Append(x, a)[n] = a
        BY <3>1
      <4>3. Append(x, a) \in Y
        BY <3>1, <3>3, <4>1, <4>2 DEF Unseen
      <4> USE DEF a
      <4> QED BY <4>3, Zenon
    <3> QED BY <3>2, <3>3
  <2> HIDE DEF op, S
  <2> QED BY <2>1 DEF StepsIn
<1>4. base \in Y
  BY DEF Unseen
<1>5. \A h : Iter(h) => h[S] \in Y
  <2> SUFFICES ASSUME NEW h, Iter(h) PROVE h[S] \in Y
    OBVIOUS
  <2>1. \A s \in SUBSET S : h[s] = IF s = {} THEN base ELSE op(h[s \ {Max(s)}], Max(s))
    BY Zenon
  <2>2. h[{}] = base
    BY <2>1
  <2>3. \A s \in SUBSET S : s # {} /\ h[s \ {Max(s)}] \in Y
                            => h[s] = step[Max(s)][h[s \ {Max(s)}]]
    <3> SUFFICES ASSUME NEW s \in SUBSET S, s # {}, h[s \ {Max(s)}] \in Y
                 PROVE  h[s] = step[Max(s)][h[s \ {Max(s)}]]
      OBVIOUS
    <3>1. Max(s) \in S
      BY <1>2, SubIndices
    <3>2. h[s] = op(h[s \ {Max(s)}], Max(s))
      BY <2>1, Zenon
    <3> HIDE DEF op
    <3> QED BY <3>1, <3>2
  <2> HIDE DEF step, base, S, op, Y
  <2>4. StepsAgree(h, step, base, S, Y)
    BY <2>2, <2>3, Zenon DEF StepsAgree
  <2> QED BY <1>2, <1>3, <1>4, <2>4, FoldsWithin, Zenon
<1>6. \E h : Iter(h)
  <2>1. PICK g : Folds(step, base, g, S) /\ \A s \in SUBSET S : g[s] \in Y
    <3> HIDE DEF step, base, S, Y
    <3> QED BY <1>2, <1>3, <1>4, FoldsStay
  <2>2. \A s \in SUBSET S : s # {} =>
           step[Max(s)][g[s \ {Max(s)}]] = op(g[s \ {Max(s)}], Max(s))
    <3> SUFFICES ASSUME NEW s \in SUBSET S, s # {}
                 PROVE  step[Max(s)][g[s \ {Max(s)}]] = op(g[s \ {Max(s)}], Max(s))
      OBVIOUS
    <3>1. Max(s) \in S /\ g[s \ {Max(s)}] \in Y
      BY <1>2, <2>1, SubIndices
    <3> HIDE DEF op
    <3> QED BY <3>1
  <2> HIDE DEF step, base, S, op, Y
  <2>3. Iter(g)
    <3>1. g = [s \in SUBSET S |-> IF s = {} THEN base ELSE step[Max(s)][g[s \ {Max(s)}]]]
      BY <2>1, Zenon DEF Folds
    <3>2. [s \in SUBSET S |-> IF s = {} THEN base ELSE step[Max(s)][g[s \ {Max(s)}]]]
          = [s \in SUBSET S |-> IF s = {} THEN base ELSE op(g[s \ {Max(s)}], Max(s))]
      BY <2>2, Zenon
    <3> QED BY <3>1, <3>2, Zenon
  <2> QED BY <2>3, Zenon
<1> HIDE DEF Iter
<1>7. iter[S] \in Y
  BY <1>5, <1>6, Zenon
<1> QED BY <1>1, <1>7

----------------------------------------------------------------------------
(* The store of seen news.                                                 *)

Prints == {Fingerprint(x, c) : x \in Items, c \in Nat}

\* The keys of a batch are the prints of its items, in their order.
LEMMA KeysOfItems ==
    ASSUME NEW items \in Seq(Items), NEW clock \in Nat
    PROVE  /\ Keys(items, clock) \in Seq(Prints) /\ Len(Keys(items, clock)) = Len(items)
           /\ \A n \in DOMAIN items : Keys(items, clock)[n] = Fingerprint(items[n], clock)
<1>1. DOMAIN items = 1..Len(items) /\ Len(items) \in Nat
  OBVIOUS
<1>2. \A n \in 1..Len(items) : Fingerprint(items[n], clock) \in Prints
  BY DEF Prints
<1>3. Keys(items, clock) = [n \in 1..Len(items) |-> Fingerprint(items[n], clock)]
  BY <1>1 DEF Keys
<1> QED BY <1>1, <1>2, <1>3

\* Keeping the last MaxKeys entries moves none of them against the end.
LEMMA KeepsTheLast ==
    ASSUME NEW T, NEW q \in Seq(T)
    PROVE  /\ Keep(q) \in Seq(T)
           /\ \A n \in DOMAIN q : Len(q) - n < MaxKeys =>
                 \E m \in DOMAIN Keep(q) : /\ Keep(q)[m] = q[n]
                                           /\ Len(Keep(q)) - m = Len(q) - n
<1>0. MaxKeys \in Nat \ {0}
  BY NewsAssumption
<1>1. CASE Len(q) > MaxKeys
  <2> DEFINE k == Len(q) - MaxKeys
             p == SubSeq(q, k + 1, Len(q))
  <2>1. Keep(q) = p
    BY <1>1 DEF Keep
  <2>2. k \in Nat /\ k + 1 <= Len(q)
    BY <1>0, <1>1
  <2>3. p \in Seq(T) /\ Len(p) = MaxKeys /\ \A m \in 1..MaxKeys : p[m] = q[m + k]
    BY <1>0, <1>1, <2>2
  <2>4. ASSUME NEW n \in DOMAIN q, Len(q) - n < MaxKeys
        PROVE  \E m \in DOMAIN p : p[m] = q[n] /\ Len(p) - m = Len(q) - n
    <3>1. n - k \in 1..MaxKeys
      BY <1>0, <1>1, <2>4
    <3>2. DOMAIN p = 1..MaxKeys
      BY <2>3
    <3>3. p[n - k] = q[(n - k) + k]
      BY <2>3, <3>1
    <3>4. (n - k) + k = n /\ Len(p) - (n - k) = Len(q) - n
      BY <1>0, <2>3
    <3> QED BY <3>1, <3>2, <3>3, <3>4
  <2> QED BY <2>1, <2>3, <2>4
<1>2. CASE Len(q) <= MaxKeys
  <2>1. Keep(q) = q
    BY <1>0, <1>2 DEF Keep
  <2> QED BY <2>1
<1> QED BY <1>0, <1>1, <1>2

\* The key of an item that fewer than MaxKeys have followed is in the store,
\* with no more keys after it than that.
Remembered(keys, after) ==
    \A i \in Ids : after[i] < MaxKeys =>
        \E n \in DOMAIN keys : keys[n][1] = i /\ Len(keys) - n <= after[i]

\* How many keys have come after the last one of item i.
LEMMA BehindIs ==
    ASSUME NEW keys, NEW i \in Ids
    PROVE  LET own == {n \in DOMAIN keys : keys[n][1] = i}
               after == IF own = {} THEN behind[i] + Len(keys) ELSE Len(keys) - Max(own)
           IN  KeysBehind(keys)[i] = IF after > MaxKeys THEN MaxKeys ELSE after
BY DEF KeysBehind

\* A fetch leaves in the store what it says of each item it has told.
LEMMA StoreRemembers ==
    ASSUME NEW items \in Seq(Items), NEW clock \in Nat, seen \in Seq(Prints),
           behind \in [Ids -> 0..MaxKeys], Remembered(seen, behind)
    PROVE  /\ StoreAfter(items, seen, clock) \in Seq(Prints)
           /\ KeysBehind(Keys(items, clock)) \in [Ids -> 0..MaxKeys]
           /\ Remembered(StoreAfter(items, seen, clock), KeysBehind(Keys(items, clock)))
<1> DEFINE keys == Keys(items, clock)
           store == StoreAfter(items, seen, clock)
           b == KeysBehind(keys)
           q == seen \o keys
<1>0. MaxKeys \in Nat \ {0}
  BY NewsAssumption
<1>1. keys \in Seq(Prints) /\ Len(keys) = Len(items)
  BY KeysOfItems
<1>2. /\ q \in Seq(Prints) /\ Len(q) = Len(seen) + Len(keys)
      /\ \A n \in DOMAIN seen : n \in DOMAIN q /\ q[n] = seen[n]
      /\ \A n \in DOMAIN keys : Len(seen) + n \in DOMAIN q /\ q[Len(seen) + n] = keys[n]
  <2> HIDE DEF keys
  <2>1. q \in Seq(Prints) /\ Len(q) = Len(seen) + Len(keys)
    BY <1>1
  <2>2. ASSUME NEW n \in DOMAIN seen
        PROVE  n \in DOMAIN q /\ q[n] = seen[n]
    BY <1>1, <2>2
  <2>3. ASSUME NEW n \in DOMAIN keys
        PROVE  Len(seen) + n \in DOMAIN q /\ q[Len(seen) + n] = keys[n]
    BY <1>1, <2>3
  <2> QED BY <2>1, <2>2, <2>3
\* Whatever is near enough to the end of both is near it in the store.
<1>3. /\ store \in Seq(Prints)
      /\ \A n \in DOMAIN q : Len(q) - n < MaxKeys =>
            \E m \in DOMAIN store : store[m] = q[n] /\ Len(store) - m = Len(q) - n
  <2>1. CASE items = <<>>
    <3>1. Len(keys) = 0 /\ store = seen
      BY <1>1, <2>1 DEF StoreAfter
    <3>2. Len(q) = Len(seen) /\ DOMAIN q = DOMAIN seen
      <4> HIDE DEF keys, q
      <4> QED BY <1>1, <1>2, <3>1
    <3> QED BY <1>2, <3>1, <3>2
  <2>2. CASE items # <<>>
    <3>1. store = Keep(q)
      BY <2>2, Zenon DEF StoreAfter
    <3> HIDE DEF q, store
    <3> QED BY <1>2, <3>1, KeepsTheLast
  <2> QED BY <2>1, <2>2
<1> HIDE DEF store, q, keys
<1>4. ASSUME NEW i \in Ids
      PROVE  /\ b[i] \in 0..MaxKeys
             /\ b[i] < MaxKeys => \E n \in DOMAIN q : q[n][1] = i /\ Len(q) - n <= b[i]
  <2> DEFINE own == {n \in DOMAIN keys : keys[n][1] = i}
             after == IF own = {} THEN behind[i] + Len(keys) ELSE Len(keys) - Max(own)
  <2>1. b[i] = IF after > MaxKeys THEN MaxKeys ELSE after
    BY BehindIs
  <2>2. behind[i] \in 0..MaxKeys
    OBVIOUS
  <2>3. CASE own = {}
    <3>1. after = behind[i] + Len(keys)
      BY <2>3
    <3> HIDE DEF after, own, b
    <3>2. b[i] \in 0..MaxKeys
      BY <1>0, <1>1, <2>1, <2>2, <3>1
    <3>3. ASSUME b[i] < MaxKeys
          PROVE  \E n \in DOMAIN q : q[n][1] = i /\ Len(q) - n <= b[i]
      <4>1. behind[i] < MaxKeys /\ b[i] = behind[i] + Len(keys)
        BY <1>0, <1>1, <2>1, <2>2, <3>1, <3>3
      <4>2. PICK n \in DOMAIN seen : seen[n][1] = i /\ Len(seen) - n <= behind[i]
        BY <4>1 DEF Remembered
      <4>3. n \in DOMAIN q /\ q[n] = seen[n]
        BY <1>2
      <4>4. Len(q) - n <= b[i]
        BY <1>1, <1>2, <2>2, <4>1, <4>2
      <4> QED BY <4>2, <4>3, <4>4
    <3> QED BY <3>2, <3>3
  <2>4. CASE own # {}
    <3>1. after = Len(keys) - Max(own)
      BY <2>4
    <3>2. Max(own) \in own
      <4>1. own \in SUBSET DOMAIN keys
        OBVIOUS
      <4>2. Indices(DOMAIN keys)
        BY <1>1, SequenceIndices
      <4> HIDE DEF own
      <4> QED BY <2>4, <4>1, <4>2, SubIndices
    <3> DEFINE k == Max(own)
    <3>3. k \in DOMAIN keys /\ keys[k][1] = i
      BY <3>2
    <3> HIDE DEF k
    <3>4. k \in 1..Len(keys) /\ Len(keys) \in Nat
      BY <1>1, <3>3
    <3>5. after = Len(keys) - k
      BY <3>1 DEF k
    <3> HIDE DEF after, own, b
    <3>6. b[i] \in 0..MaxKeys
      BY <1>0, <2>1, <3>4, <3>5
    <3>7. ASSUME b[i] < MaxKeys
          PROVE  \E n \in DOMAIN q : q[n][1] = i /\ Len(q) - n <= b[i]
      <4>1. b[i] = Len(keys) - k
        BY <1>0, <2>1, <3>4, <3>5, <3>7
      <4>2. Len(seen) + k \in DOMAIN q /\ q[Len(seen) + k] = keys[k]
        BY <1>2, <3>3
      <4>3. Len(q) - (Len(seen) + k) <= b[i]
        BY <1>1, <1>2, <3>4, <4>1
      <4> QED BY <3>3, <4>2, <4>3
    <3> QED BY <3>6, <3>7
  <2> QED BY <2>3, <2>4
<1>5. b \in [Ids -> 0..MaxKeys]
  <2>1. b = [i \in Ids |-> b[i]]
    BY DEF KeysBehind
  <2> HIDE DEF b
  <2> QED BY <1>4, <2>1
<1> HIDE DEF b
<1>6. Remembered(store, b)
  <2> SUFFICES ASSUME NEW i \in Ids, b[i] < MaxKeys
               PROVE  \E m \in DOMAIN store : store[m][1] = i /\ Len(store) - m <= b[i]
    BY DEF Remembered
  <2>1. PICK n \in DOMAIN q : q[n][1] = i /\ Len(q) - n <= b[i]
    BY <1>4
  <2>2. Len(q) - n < MaxKeys
    BY <1>0, <1>2, <1>5, <2>1
  <2>3. PICK m \in DOMAIN store : store[m] = q[n] /\ Len(store) - m = Len(q) - n
    BY <1>3, <2>2
  <2> QED BY <2>1, <2>3
<1> QED BY <1>3, <1>5, <1>6 DEF store, b, keys

----------------------------------------------------------------------------
(* The signals of an attempt.                                              *)

SignalNames ==
    FredSeries \cup {"PMI_NOWCAST", "MARGIN_DEBT_MOM_CHANGE", "MARGIN_DEBT_3M_GROWTH",
                     "BTC_FUNDING", "BTC_OI", "CBOE_SKEW", "BTC_FUNDING_RATE_ANN",
                     "BTC_OI_TOTAL", "LIQ_VOL_24H", "BTC_LONG_SHORT_RATIO",
                     "BTC_PRICE_24H_CHG_PCT"}

\* Signals as the pipeline may hand them on: numbers under names it knows.
Readings(s) == DOMAIN s \subseteq SignalNames /\ \A t \in DOMAIN s : s[t] \in Int

\* What a record of a type holds, whoever answers; the basis depends on who
\* gives the spot price.
RawOf(w, t) ==
    CASE t \in FredSeries -> w.fred[t]
      [] t = "PMI_NOWCAST" -> w.pmi
      [] t = "MARGIN_DEBT_MOM_CHANGE" -> Growth(w.quarters[1], w.quarters[2])
      [] t = "MARGIN_DEBT_3M_GROWTH" -> Growth(w.quarters[1], w.quarters[4])
      [] t = "BTC_OI" -> w.volumes[1]
      [] t = "CBOE_SKEW" -> w.skew
      [] t = "BTC_FUNDING_RATE_ANN" -> w.funding
      [] t = "BTC_OI_TOTAL" -> w.interest
      [] t = "LIQ_VOL_24H" -> w.liquidated
      [] t = "BTC_LONG_SHORT_RATIO" -> w.long
      [] t = "BTC_PRICE_24H_CHG_PCT" -> w.change

\* Division rounds down, whatever the sign of the numerator.
LEMMA IntQuotient ==
    ASSUME NEW n \in Int, NEW d \in Nat \ {0}
    PROVE  /\ n \div d \in Int
           /\ d * (n \div d) <= n
           /\ n < d * (n \div d) + d
OBVIOUS

\* The growth of one quarter over another, in hundredths of a percent.
LEMMA GrowthIsNumber ==
    ASSUME NEW m \in Nat, NEW n \in Nat
    PROVE  Growth(m, n) \in Int
<1>1. CASE n = 0
  BY <1>1 DEF Growth
<1>2. CASE n # 0
  <2>1. (m - n) * 10000 \in Int /\ n \in Nat \ {0}
    BY <1>2
  <2> DEFINE q == ((m - n) * 10000) \div n
  <2>3. q \in Int
    BY <2>1, IntQuotient
  <2>4. Growth(m, n) = IF n = 0 THEN 0 ELSE q
    BY Zenon DEF Growth
  <2> HIDE DEF q
  <2> QED BY <1>2, <2>3, <2>4
<1> QED BY <1>1, <1>2

\* What a record is made of.
LEMMA RecordFields == \A t, x : Record(t, x).type = t /\ Record(t, x).raw = x
BY DEF Record

\* Every feed returns numbers of the signals that are its own; but for the futures
\* basis, a number does not depend on which other feeds answer.
LEMMA RecordsAreReadings ==
    ASSUME NEW w, IsWorld(w), NEW on, NEW r \in Records(w, on)
    PROVE  /\ r.type \in SignalNames /\ r.raw \in Int
           /\ r.type # "BTC_FUNDING" => r.raw = RawOf(w, r.type)
<1>1. CASE r \in FredSignals(w)
  <2>1. PICK t \in FredSeries : r = Record(t, w.fred[t])
    BY <1>1 DEF FredSignals
  <2>2. w.fred \in [FredSeries -> Int]
    BY DEF IsWorld
  <2>3. r.type = t /\ r.raw = w.fred[t] /\ w.fred[t] \in Int
    BY <2>1, <2>2, RecordFields
  <2>4. RawOf(w, t) = w.fred[t]
    BY DEF RawOf, FredSeries
  <2> QED BY <2>3, <2>4 DEF SignalNames, FredSeries
<1>2. CASE r = PmiSignal(w)
  <2>1. r.type = "PMI_NOWCAST" /\ r.raw = w.pmi
    BY <1>2, RecordFields DEF PmiSignal
  <2> QED BY <2>1 DEF SignalNames, RawOf, IsWorld, FredSeries
<1>3. CASE r \in MarginSignals(w)
  <2> DEFINE q == w.quarters
  <2>0. q \in Seq(Nat)
    BY DEF IsWorld
  <2>1. CASE Len(q) >= 2 /\ r = Record("MARGIN_DEBT_MOM_CHANGE", Growth(q[1], q[2]))
    <3>1. q[1] \in Nat /\ q[2] \in Nat
      BY <2>0, <2>1
    <3>2. r.type = "MARGIN_DEBT_MOM_CHANGE" /\ r.raw = Growth(q[1], q[2])
      BY <2>1, RecordFields
    <3> QED BY <3>1, <3>2, GrowthIsNumber DEF SignalNames, RawOf, FredSeries
  <2>2. CASE Len(q) >= 4 /\ r = Record("MARGIN_DEBT_3M_GROWTH", Growth(q[1], q[4]))
    <3>1. q[1] \in Nat /\ q[4] \in Nat
      BY <2>0, <2>2
    <3>2. r.type = "MARGIN_DEBT_3M_GROWTH" /\ r.raw = Growth(q[1], q[4])
      BY <2>2, RecordFields
    <3> QED BY <3>1, <3>2, GrowthIsNumber DEF SignalNames, RawOf, FredSeries
  <2> QED BY <1>3, <2>1, <2>2 DEF MarginSignals
<1>4. CASE r \in FuturesBasis(w, on)
  <2> DEFINE spot == SpotPrice(w, on)
  <2>1. spot \in Nat
    BY DEF SpotPrice, IsWorld
  <2> HIDE DEF spot
  <2>2. w.future \in Nat
    BY DEF IsWorld
  <2>3. spot > 0 /\ r = Record("BTC_FUNDING", ((w.future - spot) * 10000) \div spot)
    BY <1>4 DEF FuturesBasis, spot
  <2>4. r.type = "BTC_FUNDING" /\ r.raw = ((w.future - spot) * 10000) \div spot
    BY <2>3, RecordFields
  <2>6. (w.future - spot) * 10000 \in Int /\ spot \in Nat \ {0}
    BY <2>1, <2>2, <2>3
  <2>7. r.raw \in Int
    BY <2>4, <2>6, IntQuotient
  <2> QED BY <2>4, <2>7 DEF SignalNames
<1>5. CASE r \in OpenInterest(w) \cup CboeSkew(w)
  <2>1. CASE r \in OpenInterest(w)
    <3>1. w.volumes \in Seq(Nat) /\ Len(w.volumes) >= 2
      BY <2>1 DEF IsWorld, OpenInterest
    <3>2. r.type = "BTC_OI" /\ r.raw = w.volumes[1]
      BY <2>1, RecordFields DEF OpenInterest
    <3> QED BY <3>1, <3>2 DEF SignalNames, RawOf, FredSeries
  <2>2. CASE r \in CboeSkew(w)
    <3>2. r.type = "CBOE_SKEW" /\ r.raw = w.skew
      BY <2>2, RecordFields DEF CboeSkew
    <3> QED BY <3>2 DEF SignalNames, RawOf, FredSeries, IsWorld
  <2> QED BY <1>5, <2>1, <2>2
<1>6. CASE r \in CoinglassSignals(w)
  <2>1. \/ r.type = "BTC_FUNDING_RATE_ANN" /\ r.raw = w.funding
        \/ r.type = "BTC_OI_TOTAL" /\ r.raw = w.interest
        \/ r.type = "LIQ_VOL_24H" /\ r.raw = w.liquidated
        \/ r.type = "BTC_LONG_SHORT_RATIO" /\ r.raw = w.long
        \/ r.type = "BTC_PRICE_24H_CHG_PCT" /\ r.raw = w.change
    BY <1>6, RecordFields DEF CoinglassSignals
  <2> QED BY <2>1 DEF SignalNames, RawOf, FredSeries, IsWorld
<1>7. \/ r \in FredSignals(w) \/ r = PmiSignal(w) \/ r \in MarginSignals(w)
      \/ r \in FuturesBasis(w, on) \/ r \in OpenInterest(w) \cup CboeSkew(w)
      \/ r \in CoinglassSignals(w)
  BY DEF Records, GatewaySignals
<1> QED BY <1>1, <1>2, <1>3, <1>4, <1>5, <1>6, <1>7

\* The signals of an attempt are the readings of the feeds that answer, one a name.
LEMMA SignalsAreReadings ==
    ASSUME NEW w, IsWorld(w), NEW on
    PROVE  /\ Readings(AllSignals(w, on))
           /\ \A t \in DOMAIN AllSignals(w, on) \ {"BTC_FUNDING"} :
                 AllSignals(w, on)[t] = RawOf(w, t)
           /\ DOMAIN AllSignals(w, on) = {r.type : r \in Records(w, on)}
<1> DEFINE R == Records(w, on)
           s == AllSignals(w, on)
<1>1. DOMAIN s = {r.type : r \in R}
  BY DEF AllSignals
<1>2. \A t \in DOMAIN s : \E r \in R : r.type = t /\ s[t] = r.raw
  <2> SUFFICES ASSUME NEW t \in DOMAIN s PROVE \E r \in R : r.type = t /\ s[t] = r.raw
    OBVIOUS
  <2>1. s[t] = (CHOOSE r \in R : r.type = t).raw
    BY Zenon DEF AllSignals
  <2>2. \E r \in R : r.type = t
    BY <1>1
  <2> QED BY <2>1, <2>2, Zenon
<1>3. \A r \in R : /\ r.type \in SignalNames /\ r.raw \in Int
                   /\ r.type # "BTC_FUNDING" => r.raw = RawOf(w, r.type)
  BY RecordsAreReadings
<1> HIDE DEF R, s
<1>4. Readings(s) /\ \A t \in DOMAIN s \ {"BTC_FUNDING"} : s[t] = RawOf(w, t)
  BY <1>1, <1>2, <1>3 DEF Readings
<1> QED BY <1>1, <1>4 DEF R, s

\* What is down takes signals away and changes none but the basis; what the
\* feeds that may not fail have is there.
Without(s, full) ==
    /\ \A t \in DOMAIN s \ {"BTC_FUNDING"} : t \in DOMAIN full /\ s[t] = full[t]
    /\ {"VIX_INDEX", "HY_CREDIT_SPREAD", "PMI_NOWCAST"} \subseteq DOMAIN s

\* An outage takes signals away, and changes none but the futures basis.
LEMMA OutagesTakeAway ==
    ASSUME NEW w, IsWorld(w), NEW down \in SUBSET OptionalFeeds
    PROVE  Without(AllSignals(w, Services \ down), AllSignals(w, Services))
<1> DEFINE R == Records(w, Services \ down)
           F == Records(w, Services)
<1>1. {"MARGIN", "GATEWAY", "COINGLASS"} \subseteq Services
  BY DEF Services, Feeds, OptionalFeeds
<1>2. \A r \in R : r \in F \/ r.type = "BTC_FUNDING"
  <2> SUFFICES ASSUME NEW r \in R PROVE r \in F \/ r.type = "BTC_FUNDING"
    OBVIOUS
  <2>1. CASE r \in FuturesBasis(w, Services \ down)
    BY <2>1, RecordFields DEF FuturesBasis
  <2>2. CASE r \notin FuturesBasis(w, Services \ down)
    BY <1>1, <2>2 DEF Records, GatewaySignals
  <2> QED BY <2>1, <2>2
<1>3. \A t \in {"VIX_INDEX", "HY_CREDIT_SPREAD"} : Record(t, w.fred[t]) \in R
  BY DEF Records, FredSignals, FredSeries
<1>4. Record("PMI_NOWCAST", w.pmi) \in R
  BY DEF Records, PmiSignal
<1> HIDE DEF R, F
<1>5. {"VIX_INDEX", "HY_CREDIT_SPREAD", "PMI_NOWCAST"} \subseteq {r.type : r \in R}
  BY <1>3, <1>4, RecordFields
<1>6. \A t \in {r.type : r \in R} : t \in {r.type : r \in F} \/ t = "BTC_FUNDING"
  BY <1>2
<1> DEFINE s == AllSignals(w, Services \ down)
           full == AllSignals(w, Services)
<1>7. /\ \A t \in DOMAIN s \ {"BTC_FUNDING"} : s[t] = RawOf(w, t)
      /\ \A t \in DOMAIN full \ {"BTC_FUNDING"} : full[t] = RawOf(w, t)
      /\ DOMAIN s = {r.type : r \in R} /\ DOMAIN full = {r.type : r \in F}
  BY SignalsAreReadings DEF R, F
<1> HIDE DEF s, full
<1>8. Without(s, full)
  BY <1>5, <1>6, <1>7 DEF Without
<1> QED BY <1>8 DEF s, full

----------------------------------------------------------------------------
(* The score.                                                              *)

\* Division keeps the order.
LEMMA IntQuotientsOrdered ==
    ASSUME NEW m \in Int, NEW n \in Int, NEW d \in Nat \ {0}, m <= n
    PROVE  m \div d <= n \div d
<1> DEFINE q == m \div d
           r == n \div d
<1>1. /\ q \in Int /\ d * q <= m
      /\ r \in Int /\ n < d * r + d
  BY IntQuotient
<1> HIDE DEF q, r
<1>2. SUFFICES ASSUME q >= r + 1 PROVE FALSE
  BY <1>1 DEF q, r
<1>3. d * (q - (r + 1)) >= 0
  BY <1>1, <1>2
<1>4. d * (q - (r + 1)) = d * q - d * r - d
  BY <1>1
<1>5. d * q \in Int /\ d * r \in Int
  BY <1>1
<1> QED BY <1>1, <1>3, <1>4, <1>5

\* The readings that are constituents of a sub-score and signals too.
CompassReadings == {"VIX_INDEX", "HY_CREDIT_SPREAD", "PMI_NOWCAST"}

\* Credit spread and volatility worsen upwards, the survey downwards.
Facing(c) ==
    /\ c.reading \in SignalNames => c.reading \in CompassReadings
    /\ c.reading \in {"VIX_INDEX", "HY_CREDIT_SPREAD"} => c.worst > c.calm
    /\ c.reading = "PMI_NOWCAST" => c.worst < c.calm

IsConstituent(c) ==
    /\ c.weight \in Nat \ {0} /\ c.calm \in Int /\ c.worst \in Int /\ c.calm # c.worst
    /\ Facing(c)

IsBlend(C) == IsFiniteSet(C) /\ \A c \in C : IsConstituent(c)

\* As many constituents as a blend has.
LEMMA ThreeAreFinite == \A x, y, z : IsFiniteSet({x, y, z})
<1> SUFFICES ASSUME NEW x, NEW y, NEW z PROVE IsFiniteSet({x, y, z})
  OBVIOUS
<1>1. {x, y, z} = {x} \cup ({y} \cup {z})
  OBVIOUS
<1>2. IsFiniteSet({x}) /\ IsFiniteSet({y} \cup {z})
  BY FS_Singleton, FS_Union, Zenon
<1>3. IsFiniteSet({x} \cup ({y} \cup {z}))
  BY <1>2, FS_Union, Zenon
<1> QED BY <1>1, <1>3

\* What a constituent is made of.
LEMMA ConstituentFields ==
    \A n, m, k, l : /\ Constituent(n, m, k, l).reading = n
                    /\ Constituent(n, m, k, l).calm = m
                    /\ Constituent(n, m, k, l).worst = k
                    /\ Constituent(n, m, k, l).weight = l
BY DEF Constituent

\* The catalogues of the five subscores are blends of weighted readings.
LEMMA SubscoresAreBlends ==
    \A C \in {CreditStress, VolatilityRegime, MacroMomentum, LiquidityConditions,
              EquityInternals} : IsBlend(C)
<1>1. IsBlend(CreditStress)
  <2>1. IsFiniteSet(CreditStress)
    <3>1. PICK x, y, z : CreditStress = {x, y, z}
      BY DEF CreditStress
    <3> QED BY <3>1, ThreeAreFinite
  <2>2. \A c \in CreditStress : IsConstituent(c)
    BY ConstituentFields DEF CreditStress, IsConstituent, Facing, SignalNames, FredSeries,
                             CompassReadings
  <2> QED BY <2>1, <2>2 DEF IsBlend
<1>2. IsBlend(VolatilityRegime)
  <2>1. IsFiniteSet(VolatilityRegime)
    <3>1. PICK x, y, z : VolatilityRegime = {x, y, z}
      BY DEF VolatilityRegime
    <3> QED BY <3>1, ThreeAreFinite
  <2>2. \A c \in VolatilityRegime : IsConstituent(c)
    BY ConstituentFields DEF VolatilityRegime, IsConstituent, Facing, SignalNames, FredSeries,
                             CompassReadings
  <2> QED BY <2>1, <2>2 DEF IsBlend
<1>3. IsBlend(MacroMomentum)
  <2>1. IsFiniteSet(MacroMomentum)
    <3>1. PICK x, y, z : MacroMomentum = {x, y, z}
      BY DEF MacroMomentum
    <3> QED BY <3>1, ThreeAreFinite
  <2>2. \A c \in MacroMomentum : IsConstituent(c)
    BY ConstituentFields DEF MacroMomentum, IsConstituent, Facing, SignalNames, FredSeries,
                             CompassReadings
  <2> QED BY <2>1, <2>2 DEF IsBlend
<1>4. IsBlend(LiquidityConditions)
  <2>1. IsFiniteSet(LiquidityConditions)
    <3>1. PICK x, y, z : LiquidityConditions = {x, y, z}
      BY DEF LiquidityConditions
    <3> QED BY <3>1, ThreeAreFinite
  <2>2. \A c \in LiquidityConditions : IsConstituent(c)
    BY ConstituentFields DEF LiquidityConditions, IsConstituent, Facing, SignalNames, FredSeries,
                             CompassReadings
  <2> QED BY <2>1, <2>2 DEF IsBlend
<1>5. IsBlend(EquityInternals)
  <2>1. IsFiniteSet(EquityInternals)
    <3>1. PICK x, y, z : EquityInternals = {x, y, z}
      BY DEF EquityInternals
    <3> QED BY <3>1, ThreeAreFinite
  <2>2. \A c \in EquityInternals : IsConstituent(c)
    BY ConstituentFields DEF EquityInternals, IsConstituent, Facing, SignalNames, FredSeries,
                             CompassReadings
  <2> QED BY <2>1, <2>2 DEF IsBlend
<1> QED BY <1>1, <1>2, <1>3, <1>4, <1>5

\* Clipping keeps the order.
LEMMA ClipFits ==
    ASSUME NEW m \in Int, NEW n \in Int, m <= n
    PROVE  Clip(m) \in 0..Unit /\ Clip(m) <= Clip(n)
BY DEF Clip, Unit

\* A constituent's stress rises from its calm end to its worst, whichever is higher.
LEMMA StressOrdered ==
    ASSUME NEW c, IsConstituent(c), NEW x \in Int, NEW y \in Int, x <= y
    PROVE  /\ Stress(c, x) \in Nat /\ Stress(c, y) \in Nat
           /\ c.worst > c.calm => Stress(c, x) <= Stress(c, y)
           /\ c.worst < c.calm => Stress(c, y) <= Stress(c, x)
<1> DEFINE p == c.calm
           w == c.worst
<1>0. p \in Int /\ w \in Int /\ p # w
  BY DEF IsConstituent
<1> HIDE DEF p, w
<1>1. CASE w > p
  <2> DEFINE a == (x - p) * Unit
             b == (y - p) * Unit
             d == w - p
  <2>1. a \in Int /\ b \in Int /\ d \in Nat \ {0} /\ a <= b
    BY <1>0, <1>1 DEF Unit
  <2>2. Stress(c, x) = Clip(a \div d) /\ Stress(c, y) = Clip(b \div d)
    <3>1. c.worst > c.calm
      BY <1>1 DEF w, p
    <3> QED BY <3>1, Zenon DEF Stress, w, p
  <2> HIDE DEF a, b, d
  <2>3. a \div d \in Int /\ b \div d \in Int /\ a \div d <= b \div d
    BY <2>1, IntQuotient, IntQuotientsOrdered
  <2>4. \A k \in 0..Unit : k \in Nat
    BY DEF Unit
  <2> QED BY <1>0, <1>1, <2>2, <2>3, <2>4, ClipFits DEF w, p
<1>2. CASE ~(w > p)
  <2> DEFINE a == (p - x) * Unit
             b == (p - y) * Unit
             d == p - w
  <2>1. a \in Int /\ b \in Int /\ d \in Nat \ {0} /\ b <= a
    BY <1>0, <1>2 DEF Unit
  <2>2. Stress(c, x) = Clip(a \div d) /\ Stress(c, y) = Clip(b \div d)
    <3>1. ~(c.worst > c.calm)
      BY <1>2 DEF w, p
    <3> QED BY <3>1, Zenon DEF Stress, w, p
  <2> HIDE DEF a, b, d
  <2>3. a \div d \in Int /\ b \div d \in Int /\ b \div d <= a \div d
    BY <2>1, IntQuotient, IntQuotientsOrdered
  <2>4. \A k \in 0..Unit : k \in Nat
    BY DEF Unit
  <2> QED BY <1>0, <1>2, <2>2, <2>3, <2>4, ClipFits DEF w, p
<1> QED BY <1>1, <1>2

\* The second market has every reading of the compass that the first has, and
\* no other, and none that is better.
NoCalmer(s, r) ==
    \A t \in CompassReadings :
        /\ t \in DOMAIN s <=> t \in DOMAIN r
        /\ t \in DOMAIN s => IF t = "PMI_NOWCAST" THEN r[t] <= s[t] ELSE s[t] <= r[t]

Have(C, s) == {c \in C : c.reading \in DOMAIN s}
Shares(C, s) == [c \in Have(C, s) |-> c.weight * Stress(c, s[c.reading])]
Weights(C, s) == [c \in Have(C, s) |-> c.weight]

\* A blend is the share of the constituents it has over their weight.
LEMMA BlendIsQuotient ==
    \A C, s : Blend(C, s) = IF Have(C, s) = {} THEN 0
                            ELSE Sum(Shares(C, s), Have(C, s))
                                 \div Sum(Weights(C, s), Have(C, s))
BY Zenon DEF Blend, Have, Shares, Weights, Sum

\* Of two markets with the same readings, the worse has the higher blend.
LEMMA BlendsOrdered ==
    ASSUME NEW C, IsBlend(C), NEW s, NEW r, Readings(s), Readings(r), NoCalmer(s, r)
    PROVE  Blend(C, s) \in Int /\ Blend(C, s) <= Blend(C, r)
<1>1. \A c \in C : c.reading \in DOMAIN s \/ c.reading \in DOMAIN r
                   => c.reading \in CompassReadings
  BY DEF IsBlend, IsConstituent, Facing, Readings
<1>2. Have(C, r) = Have(C, s)
  BY <1>1 DEF Have, NoCalmer
<1> DEFINE have == Have(C, s)
<1>3. IsFiniteSet(have)
  <2>1. have \subseteq C /\ IsFiniteSet(C)
    BY DEF Have, IsBlend
  <2> QED BY <2>1, FS_Subset
<1>4. \A c \in have : /\ IsConstituent(c) /\ c.reading \in DOMAIN s /\ c.reading \in DOMAIN r
                      /\ s[c.reading] \in Int /\ r[c.reading] \in Int
  BY <1>2 DEF Have, IsBlend, Readings
<1>5. \A c \in have : /\ Stress(c, s[c.reading]) \in Nat /\ Stress(c, r[c.reading]) \in Nat
                      /\ Stress(c, s[c.reading]) <= Stress(c, r[c.reading])
  <2> SUFFICES ASSUME NEW c \in have
               PROVE  /\ Stress(c, s[c.reading]) \in Nat /\ Stress(c, r[c.reading]) \in Nat
                      /\ Stress(c, s[c.reading]) <= Stress(c, r[c.reading])
    OBVIOUS
  <2> DEFINE x == s[c.reading]
             y == r[c.reading]
  <2>1. IsConstituent(c) /\ x \in Int /\ y \in Int
    BY <1>4
  <2>2. c.reading \in CompassReadings
    BY <1>1, <1>4 DEF Have
  <2>3. \/ c.reading = "PMI_NOWCAST" /\ y <= x
        \/ c.reading # "PMI_NOWCAST" /\ x <= y
    BY <1>4, <2>2 DEF NoCalmer
  <2> HIDE DEF x, y
  <2>4. CASE c.reading = "PMI_NOWCAST"
    <3>1. c.worst < c.calm
      BY <2>1, <2>4 DEF IsConstituent, Facing
    <3>2. y <= x
      BY <2>3, <2>4
    <3>3. Stress(c, x) \in Nat /\ Stress(c, y) \in Nat /\ Stress(c, x) <= Stress(c, y)
      BY <2>1, <3>1, <3>2, StressOrdered
    <3> QED BY <3>3 DEF x, y
  <2>5. CASE c.reading # "PMI_NOWCAST"
    <3>1. c.worst > c.calm
      BY <2>1, <2>2, <2>5 DEF IsConstituent, Facing, CompassReadings
    <3>2. x <= y
      BY <2>3, <2>5
    <3>3. Stress(c, x) \in Nat /\ Stress(c, y) \in Nat /\ Stress(c, x) <= Stress(c, y)
      BY <2>1, <3>1, <3>2, StressOrdered
    <3> QED BY <3>3 DEF x, y
  <2> QED BY <2>4, <2>5
<1> DEFINE f == Shares(C, s)
           g == Shares(C, r)
           v == Weights(C, s)
           w == Weights(C, r)
<1>6. \A c \in have : v[c] = c.weight /\ w[c] = c.weight /\ c.weight \in Nat \ {0}
  BY <1>2, <1>4 DEF Weights, IsConstituent
<1>7. \A c \in have : f[c] \in Int /\ g[c] \in Int /\ f[c] <= g[c]
  <2> SUFFICES ASSUME NEW c \in have PROVE f[c] \in Int /\ g[c] \in Int /\ f[c] <= g[c]
    OBVIOUS
  <2> DEFINE x == Stress(c, s[c.reading])
             y == Stress(c, r[c.reading])
             k == c.weight
  <2>1. f[c] = k * x /\ g[c] = k * y
    BY <1>2 DEF Shares
  <2>2. x \in Nat /\ y \in Nat /\ x <= y /\ k \in Nat
    BY <1>5, <1>6
  <2> HIDE DEF x, y, k, f, g
  <2>3. k * (y - x) >= 0
    BY <2>2
  <2>4. k * x \in Int /\ k * y \in Int /\ k * x <= k * y
    BY <2>2, <2>3
  <2> QED BY <2>1, <2>4
<1> HIDE DEF f, g, v, w, have
<1>8. CASE have = {}
  <2>1. Blend(C, s) = 0 /\ Blend(C, r) = 0
    BY <1>2, <1>8, BlendIsQuotient DEF have
  <2> QED BY <2>1
<1>9. CASE have # {}
  <2>1. Sum(f, have) \in Int /\ Sum(g, have) \in Int /\ Sum(f, have) <= Sum(g, have)
    BY <1>3, <1>7, SumPicks, SumsOrdered
  <2>2. Sum(v, have) = Sum(w, have)
    BY <1>3, <1>6, SumsEqual
  <2>3. Sum(v, have) \in Nat \ {0}
    <3>1. PICK c \in have : TRUE
      BY <1>9
    <3>2. \A d \in have : v[d] \in Nat
      BY <1>6
    <3>3. Sum(v, have) \in Nat /\ v[c] <= Sum(v, have)
      BY <1>3, <3>2, SumOfNats
    <3>4. v[c] \in Nat \ {0}
      BY <1>6
    <3> QED BY <3>3, <3>4
  <2>4. /\ Blend(C, s) = Sum(f, have) \div Sum(v, have)
        /\ Blend(C, r) = Sum(g, have) \div Sum(w, have)
    BY <1>2, <1>9, BlendIsQuotient, Zenon DEF have, f, g, v, w
  <2> DEFINE m == Sum(f, have)
             n == Sum(g, have)
             d == Sum(v, have)
  <2>5. m \in Int /\ n \in Int /\ m <= n /\ d \in Nat \ {0}
    BY <2>1, <2>3
  <2>6. Blend(C, s) = m \div d /\ Blend(C, r) = n \div d
    BY <2>2, <2>4, Zenon
  <2> HIDE DEF m, n, d
  <2> QED BY <2>5, <2>6, IntQuotient, IntQuotientsOrdered
<1> QED BY <1>8, <1>9

Blended(s) ==
    (25 * Blend(CreditStress, s) + 25 * Blend(VolatilityRegime, s)
      + 20 * Blend(MacroMomentum, s) + 20 * Blend(LiquidityConditions, s)
      + 10 * Blend(EquityInternals, s)) \div 100

\* No feed returns the level of margin debt the compass asks for: that adder is dead.
LEMMA CompositeHasNoMargin ==
    ASSUME NEW s, Readings(s)
    PROVE  Composite(s) = Blended(s) + 0 + SkewAdder(s)
<1>1. "VIX3M" \notin DOMAIN s /\ "MARGIN_DEBT_QOQ_PCT" \notin DOMAIN s
  BY DEF Readings, SignalNames, FredSeries
<1>2. WithTermRatio(s) = s
  BY <1>1, Zenon DEF WithTermRatio
<1>3. MarginAdder(s) = 0
  BY <1>1, Zenon DEF MarginAdder
<1> QED BY <1>2, <1>3, Zenon DEF Composite, Blended

\* The weighing of the five subscores keeps their order.
LEMMA WeightedOrdered ==
    ASSUME NEW a \in Int, NEW b \in Int, NEW c \in Int, NEW d \in Int, NEW e \in Int,
           NEW k \in Int, NEW l \in Int, NEW m \in Int, NEW n \in Int, NEW o \in Int,
           a <= k, b <= l, c <= m, d <= n, e <= o
    PROVE  (25 * a + 25 * b + 20 * c + 20 * d + 10 * e) \div 100
           <= (25 * k + 25 * l + 20 * m + 20 * n + 10 * o) \div 100
OBVIOUS

\* Of two markets with the same compass readings, the worse has the higher score.
LEMMA BlendedOrdered ==
    ASSUME NEW s, NEW r, Readings(s), Readings(r), NoCalmer(s, r)
    PROVE  Blended(s) \in Int /\ Blended(r) \in Int /\ Blended(s) <= Blended(r)
<1> DEFINE C == {CreditStress, VolatilityRegime, MacroMomentum, LiquidityConditions,
                 EquityInternals}
<1>1. \A x \in C : Blend(x, s) \in Int /\ Blend(x, s) <= Blend(x, r)
  BY SubscoresAreBlends, BlendsOrdered
<1>2. NoCalmer(r, r)
  BY DEF NoCalmer, Readings
<1>3. \A x \in C : Blend(x, r) \in Int
  BY <1>2, SubscoresAreBlends, BlendsOrdered
<1> DEFINE f(x) == Blend(x, s)
           g(x) == Blend(x, r)
<1>4. /\ f(CreditStress) \in Int /\ f(VolatilityRegime) \in Int /\ f(MacroMomentum) \in Int
      /\ f(LiquidityConditions) \in Int /\ f(EquityInternals) \in Int
  BY <1>1
<1>5. /\ g(CreditStress) \in Int /\ g(VolatilityRegime) \in Int /\ g(MacroMomentum) \in Int
      /\ g(LiquidityConditions) \in Int /\ g(EquityInternals) \in Int
  BY <1>3
<1>6. /\ f(CreditStress) <= g(CreditStress) /\ f(VolatilityRegime) <= g(VolatilityRegime)
      /\ f(MacroMomentum) <= g(MacroMomentum)
      /\ f(LiquidityConditions) <= g(LiquidityConditions)
      /\ f(EquityInternals) <= g(EquityInternals)
  BY <1>1
<1>7. Blended(s) <= Blended(r)
  BY <1>4, <1>5, <1>6, WeightedOrdered DEF Blended
<1>8. \A a, b, c, d, e \in Int : (25 * a + 25 * b + 20 * c + 20 * d + 10 * e) \div 100 \in Int
  OBVIOUS
<1>9. Blended(s) \in Int /\ Blended(r) \in Int
  BY <1>4, <1>5, <1>8, Zenon DEF Blended
<1> QED BY <1>7, <1>9

\* A number of the range 0..n.
UpTo(x, n) == x \in Nat /\ x <= n

\* What the skew adds is five points at most, and nothing where it is not known.
LEMMA SkewAdds ==
    ASSUME NEW s, Readings(s)
    PROVE  /\ UpTo(SkewAdder(s), 500)
           /\ "CBOE_SKEW" \notin DOMAIN s => SkewAdder(s) = 0
<1>1. "CBOE_SKEW" \in DOMAIN s => s["CBOE_SKEW"] \in Int
  BY DEF Readings
<1> QED BY <1>1 DEF SkewAdder, Least, UpTo

\* A higher skew adds no less.
LEMMA SkewOrdered ==
    ASSUME NEW s, NEW r, Readings(s), Readings(r),
           "CBOE_SKEW" \in DOMAIN s, "CBOE_SKEW" \in DOMAIN r, s["CBOE_SKEW"] <= r["CBOE_SKEW"]
    PROVE  SkewAdder(s) <= SkewAdder(r)
<1> DEFINE x == s["CBOE_SKEW"]
           y == r["CBOE_SKEW"]
<1>1. x \in Int /\ y \in Int /\ x <= y
  BY DEF Readings
<1>2. /\ SkewAdder(s) = IF x > 13000 THEN Least(500, (x - 13000) \div 4) ELSE 0
      /\ SkewAdder(r) = IF y > 13000 THEN Least(500, (y - 13000) \div 4) ELSE 0
  BY DEF SkewAdder
<1> HIDE DEF x, y
<1> QED BY <1>1, <1>2 DEF Least

\* The score of a composite, and by how much it follows it.
Scored(composite, newsFloor) == (Clip(Most(composite, Clip(newsFloor))) + 99) \div 100

\* The score the compass reports follows its composite, the floor of the news in it.
LEMMA ScoresFollow ==
    ASSUME NEW m \in Int, NEW n \in Int, NEW l \in Int, m <= n
    PROVE  /\ Scored(m, l) \in 0..100 /\ Scored(n, l) \in 0..100
           /\ Scored(m, l) <= Scored(n, l)
           /\ n <= m + 500 => Scored(n, l) <= Scored(m, l) + 5
<1> DEFINE c == Clip(l)
           p == Clip(Most(m, c))
           q == Clip(Most(n, c))
<1>1. c \in Int
  BY DEF Clip, Unit
<1> HIDE DEF c
<1>2. /\ UpTo(p, 10000) /\ UpTo(q, 10000) /\ p <= q
      /\ n <= m + 500 => q <= p + 500
  BY <1>1 DEF Clip, Most, Unit, UpTo
<1>3. Scored(m, l) = (p + 99) \div 100 /\ Scored(n, l) = (q + 99) \div 100
  BY Zenon DEF Scored, c
<1> HIDE DEF p, q
<1> QED BY <1>2, <1>3 DEF UpTo

----------------------------------------------------------------------------
(* The advisory modules.                                                   *)

\* The deleveraging module gets at most four inputs, and nothing of their past.
LEMMA DelevTakes ==
    ASSUME NEW s, Readings(s)
    PROVE  LET d == DelevInputs(s)
           IN  /\ DOMAIN d \subseteq {"funding", "oi", "skew", "margin"}
               /\ "funding" \in DOMAIN d <=> "BTC_FUNDING_RATE_ANN" \in DOMAIN s
               /\ "oi" \in DOMAIN d <=> "BTC_OI" \in DOMAIN s
               /\ "skew" \in DOMAIN d <=> "CBOE_SKEW" \in DOMAIN s
               /\ "margin" \in DOMAIN d <=> "MARGIN_DEBT_3M_GROWTH" \in DOMAIN s
               /\ "funding" \in DOMAIN d => d.funding = s["BTC_FUNDING_RATE_ANN"]
               /\ "skew" \in DOMAIN d => d.skew = s["CBOE_SKEW"]
               /\ "margin" \in DOMAIN d => d.margin = s["MARGIN_DEBT_3M_GROWTH"]
<1>1. "BTC_QQQ_CORR_5D" \notin DOMAIN s
  BY DEF Readings, SignalNames, FredSeries
<1> DEFINE names == [funding |-> "BTC_FUNDING_RATE_ANN", oi |-> "BTC_OI", skew |-> "CBOE_SKEW",
                     margin |-> "MARGIN_DEBT_3M_GROWTH", corr |-> "BTC_QQQ_CORR_5D"]
           K == {k \in DOMAIN names : names[k] \in DOMAIN s}
           d == [k \in K |-> s[names[k]]]
<1>2. DelevInputs(s) = d
  BY Zenon DEF DelevInputs, Take
<1>3. /\ DOMAIN names = {"funding", "oi", "skew", "margin", "corr"}
      /\ names.funding = "BTC_FUNDING_RATE_ANN" /\ names.oi = "BTC_OI"
      /\ names.skew = "CBOE_SKEW" /\ names.margin = "MARGIN_DEBT_3M_GROWTH"
      /\ names.corr = "BTC_QQQ_CORR_5D"
  OBVIOUS
<1> HIDE DEF names
<1>4. DOMAIN d = K /\ \A k \in K : d[k] = s[names[k]]
  OBVIOUS
<1> HIDE DEF d
<1> QED BY <1>1, <1>2, <1>3, <1>4

Weighed(f, o, k, m) ==
    Bounded((35 * f + 30 * o + 15 * k + 12 * m + 8 * 0) \div 100, 0, 10000) \div 100

\* The deleveraging score of what the feeds return.
LEMMA DelevIsWeighted ==
    ASSUME NEW s, Readings(s)
    PROVE  LET d == DelevInputs(s)
           IN  DeleveragingScore(d) = Weighed(FundingRateScore(d), OiFragilityScore(d),
                                              SkewScore(d), MarginDebtScore(d))
<1> DEFINE d == DelevInputs(s)
<1>1. "corr" \notin DOMAIN d
  BY DelevTakes
<1> HIDE DEF d
<1>2. CorrelationScore(d) = 0
  BY <1>1 DEF CorrelationScore, Has
<1>3. DeleveragingScore(d) = Weighed(FundingRateScore(d), OiFragilityScore(d),
                                     SkewScore(d), MarginDebtScore(d))
  BY <1>2 DEF DeleveragingScore, Weighed
<1> QED BY <1>3 DEF d

\* The parts of the deleveraging score, in ten thousandths.
LEMMA DelevParts ==
    ASSUME NEW s, Readings(s)
    PROVE  LET d == DelevInputs(s)
           IN  /\ UpTo(FundingRateScore(d), 9000) /\ OiFragilityScore(d) \in {0, 1000}
               /\ UpTo(SkewScore(d), 9000) /\ UpTo(MarginDebtScore(d), 6000)
               /\ "oi" \notin DOMAIN d => OiFragilityScore(d) = 0
               /\ "oi" \in DOMAIN d => OiFragilityScore(d) = 1000
               /\ "funding" \notin DOMAIN d => FundingRateScore(d) = 0
               /\ "skew" \notin DOMAIN d => SkewScore(d) = 0
               /\ "margin" \notin DOMAIN d => MarginDebtScore(d) = 0
<1> DEFINE d == DelevInputs(s)
<1>1. /\ "fundingDelta" \notin DOMAIN d /\ "oiHigh" \notin DOMAIN d
      /\ "oiChange" \notin DOMAIN d /\ "marginMom" \notin DOMAIN d
  BY DelevTakes
<1>2. /\ "funding" \in DOMAIN d => d.funding \in Int
      /\ "skew" \in DOMAIN d => d.skew \in Int
      /\ "margin" \in DOMAIN d => d.margin \in Int
  BY DelevTakes DEF Readings
<1> HIDE DEF d
<1>3. /\ UpTo(FundingRateScore(d), 9000)
      /\ "funding" \notin DOMAIN d => FundingRateScore(d) = 0
  BY <1>1, <1>2 DEF FundingRateScore, Has, Given, UpTo
<1>4. IF "oi" \in DOMAIN d THEN OiFragilityScore(d) = 1000 ELSE OiFragilityScore(d) = 0
  <2>1. Given(d, "oiChange", 0) = 0 /\ Given(d, "oiHigh", 0) = 0
    BY <1>1 DEF Given
  <2>2. ~OiAtPeak(d)
    BY <2>1 DEF OiAtPeak
  <2> QED BY <2>1, <2>2 DEF OiFragilityScore, Has
<1>5. /\ UpTo(SkewScore(d), 9000)
      /\ "skew" \notin DOMAIN d => SkewScore(d) = 0
  BY <1>2 DEF SkewScore, Has, Bounded, UpTo
<1>6. /\ UpTo(MarginDebtScore(d), 6000)
      /\ "margin" \notin DOMAIN d => MarginDebtScore(d) = 0
  BY <1>1, <1>2 DEF MarginDebtScore, Has, Given, Bounded, UpTo
<1> QED BY <1>3, <1>4, <1>5, <1>6 DEF d

\* Of what the deleveraging module and SKEW look at, the second market has all
\* that the first has, the same funding and interest, and no lower skew or debt.
NoLighter(s, r) ==
    /\ \A t \in {"BTC_FUNDING_RATE_ANN", "BTC_OI"} :
          t \in DOMAIN s => t \in DOMAIN r /\ s[t] = r[t]
    /\ \A t \in {"CBOE_SKEW", "MARGIN_DEBT_3M_GROWTH"} :
          t \in DOMAIN s => t \in DOMAIN r /\ s[t] <= r[t]

\* The weighing of the parts keeps their order and stays under 55 points.
LEMMA WeighedOrdered ==
    ASSUME NEW f, UpTo(f, 9000), NEW o, UpTo(o, 1000), NEW k, UpTo(k, 9000),
           NEW m, UpTo(m, 6000), NEW g, UpTo(g, 9000), NEW p, UpTo(p, 1000),
           NEW l, UpTo(l, 9000), NEW n, UpTo(n, 6000),
           f <= g, o <= p, k <= l, m <= n
    PROVE  /\ Weighed(f, o, k, m) \in 0..55 /\ Weighed(g, p, l, n) \in 0..55
           /\ Weighed(f, o, k, m) <= Weighed(g, p, l, n)
<1> DEFINE x == (35 * f + 30 * o + 15 * k + 12 * m + 8 * 0) \div 100
           y == (35 * g + 30 * p + 15 * l + 12 * n + 8 * 0) \div 100
<1>1. UpTo(x, 5520) /\ UpTo(y, 5520) /\ x <= y
  BY DEF UpTo
<1>2. /\ Weighed(f, o, k, m) = Bounded(x, 0, 10000) \div 100
      /\ Weighed(g, p, l, n) = Bounded(y, 0, 10000) \div 100
  BY DEF Weighed
<1> HIDE DEF x, y
<1> QED BY <1>1, <1>2 DEF Bounded, UpTo

\* A market that is lighter in no reading has no lower deleveraging score.
LEMMA DelevOrdered ==
    ASSUME NEW s, NEW r, Readings(s), Readings(r), NoLighter(s, r)
    PROVE  /\ DeleveragingScore(DelevInputs(s)) \in 0..55
           /\ DeleveragingScore(DelevInputs(r)) \in 0..55
           /\ DeleveragingScore(DelevInputs(s)) <= DeleveragingScore(DelevInputs(r))
<1> DEFINE d == DelevInputs(s)
           e == DelevInputs(r)
<1>1. /\ DOMAIN d \subseteq {"funding", "oi", "skew", "margin"}
      /\ DOMAIN e \subseteq {"funding", "oi", "skew", "margin"}
      /\ "funding" \in DOMAIN d => "funding" \in DOMAIN e /\ d.funding = e.funding
      /\ "oi" \in DOMAIN d => "oi" \in DOMAIN e
      /\ "skew" \in DOMAIN d => "skew" \in DOMAIN e /\ d.skew \in Int /\ e.skew \in Int
                                /\ d.skew <= e.skew
      /\ "margin" \in DOMAIN d => "margin" \in DOMAIN e /\ d.margin \in Int /\ e.margin \in Int
                                  /\ d.margin <= e.margin
  <2>1. /\ DOMAIN d \subseteq {"funding", "oi", "skew", "margin"}
        /\ "funding" \in DOMAIN d <=> "BTC_FUNDING_RATE_ANN" \in DOMAIN s
        /\ "oi" \in DOMAIN d <=> "BTC_OI" \in DOMAIN s
        /\ "skew" \in DOMAIN d <=> "CBOE_SKEW" \in DOMAIN s
        /\ "margin" \in DOMAIN d <=> "MARGIN_DEBT_3M_GROWTH" \in DOMAIN s
        /\ "funding" \in DOMAIN d => d.funding = s["BTC_FUNDING_RATE_ANN"]
        /\ "skew" \in DOMAIN d => d.skew = s["CBOE_SKEW"]
        /\ "margin" \in DOMAIN d => d.margin = s["MARGIN_DEBT_3M_GROWTH"]
    BY DelevTakes, Zenon
  <2>2. /\ DOMAIN e \subseteq {"funding", "oi", "skew", "margin"}
        /\ "funding" \in DOMAIN e <=> "BTC_FUNDING_RATE_ANN" \in DOMAIN r
        /\ "oi" \in DOMAIN e <=> "BTC_OI" \in DOMAIN r
        /\ "skew" \in DOMAIN e <=> "CBOE_SKEW" \in DOMAIN r
        /\ "margin" \in DOMAIN e <=> "MARGIN_DEBT_3M_GROWTH" \in DOMAIN r
        /\ "funding" \in DOMAIN e => e.funding = r["BTC_FUNDING_RATE_ANN"]
        /\ "skew" \in DOMAIN e => e.skew = r["CBOE_SKEW"]
        /\ "margin" \in DOMAIN e => e.margin = r["MARGIN_DEBT_3M_GROWTH"]
    BY DelevTakes, Zenon
  <2> HIDE DEF d, e
  <2> QED BY <2>1, <2>2 DEF NoLighter, Readings
<1>2. /\ UpTo(FundingRateScore(d), 9000) /\ UpTo(OiFragilityScore(d), 1000)
      /\ UpTo(SkewScore(d), 9000) /\ UpTo(MarginDebtScore(d), 6000)
      /\ UpTo(FundingRateScore(e), 9000) /\ UpTo(OiFragilityScore(e), 1000)
      /\ UpTo(SkewScore(e), 9000) /\ UpTo(MarginDebtScore(e), 6000)
      /\ "funding" \notin DOMAIN d => FundingRateScore(d) = 0
      /\ "skew" \notin DOMAIN d => SkewScore(d) = 0
      /\ "margin" \notin DOMAIN d => MarginDebtScore(d) = 0
      /\ OiFragilityScore(d) <= OiFragilityScore(e)
  <2>1. /\ UpTo(FundingRateScore(d), 9000) /\ OiFragilityScore(d) \in {0, 1000}
        /\ UpTo(SkewScore(d), 9000) /\ UpTo(MarginDebtScore(d), 6000)
        /\ "oi" \notin DOMAIN d => OiFragilityScore(d) = 0
        /\ "funding" \notin DOMAIN d => FundingRateScore(d) = 0
        /\ "skew" \notin DOMAIN d => SkewScore(d) = 0
        /\ "margin" \notin DOMAIN d => MarginDebtScore(d) = 0
    BY DelevParts
  <2>2. /\ UpTo(FundingRateScore(e), 9000) /\ OiFragilityScore(e) \in {0, 1000}
        /\ UpTo(SkewScore(e), 9000) /\ UpTo(MarginDebtScore(e), 6000)
        /\ "oi" \in DOMAIN e => OiFragilityScore(e) = 1000
    BY DelevParts
  <2> HIDE DEF d, e
  <2> QED BY <1>1, <2>1, <2>2 DEF UpTo
<1>3. DeleveragingScore(d) = Weighed(FundingRateScore(d), OiFragilityScore(d),
                                     SkewScore(d), MarginDebtScore(d))
  BY DelevIsWeighted, Zenon
<1>4. DeleveragingScore(e) = Weighed(FundingRateScore(e), OiFragilityScore(e),
                                     SkewScore(e), MarginDebtScore(e))
  BY DelevIsWeighted, Zenon
<1> HIDE DEF d, e
<1>5. FundingRateScore(d) <= FundingRateScore(e)
  <2>1. CASE "funding" \notin DOMAIN d
    BY <1>2, <2>1 DEF UpTo
  <2>2. CASE "funding" \in DOMAIN d
    <3>1. FundingRateScore(d) = FundingRateScore(e)
      BY <1>1, <2>2 DEF FundingRateScore, Has, Given
    <3> QED BY <1>2, <3>1 DEF UpTo
  <2> QED BY <2>1, <2>2
<1>6. SkewScore(d) <= SkewScore(e)
  <2>1. CASE "skew" \notin DOMAIN d
    BY <1>2, <2>1 DEF UpTo
  <2>2. CASE "skew" \in DOMAIN d
    BY <1>1, <2>2 DEF SkewScore, Has, Bounded
  <2> QED BY <2>1, <2>2
<1>7. MarginDebtScore(d) <= MarginDebtScore(e)
  <2>1. CASE "margin" \notin DOMAIN d
    BY <1>2, <2>1 DEF UpTo
  <2>2. CASE "margin" \in DOMAIN d
    BY <1>1, <2>2 DEF MarginDebtScore, Has, Given, Bounded
  <2> QED BY <2>1, <2>2
<1>8. DeleveragingScore(d) \in 0..55 /\ DeleveragingScore(e) \in 0..55
      /\ DeleveragingScore(d) <= DeleveragingScore(e)
  BY <1>2, <1>3, <1>4, <1>5, <1>6, <1>7, WeighedOrdered
<1> QED BY <1>8 DEF d, e

\* What the live feeds give the microstructure module is the basis, and that
\* alone is 27 points of 100 at most.
LEMMA MicroIsQuiet ==
    ASSUME NEW s, Readings(s)
    PROVE  EdrAdvisoryContribution(MicrostructureScore(MicroInputs(s))) = 0
<1> DEFINE d == MicroInputs(s)
<1>1. DOMAIN d \subseteq {"basisNorm"} /\ ("basisNorm" \in DOMAIN d => d.basisNorm \in Int)
  <2> DEFINE names == [basisAnn |-> "BTC_BASIS_ANN", depth |-> "BTC_DEPTH_VS_AVG",
                       cluster |-> "BTC_LIQ_CLUSTER_RATIO", long |-> "BTC_LONG_PCT",
                       outflow |-> "STABLECOIN_7D_OUTFLOW"]
             given == Take(s, names)
             basis == IF {"BTC_FUNDING", "BTC_OI"} \cap DOMAIN s = {} THEN {}
                      ELSE {"basisNorm"}
  <2>1. d = [k \in DOMAIN given \cup basis |-> IF k = "basisNorm" THEN BasisNorm(s) ELSE given[k]]
    BY Zenon DEF MicroInputs
  <2>2. \A k \in DOMAIN names : names[k] \notin SignalNames
    BY DEF SignalNames, FredSeries
  <2>3. DOMAIN given = {}
    <3>1. DOMAIN given = {k \in DOMAIN names : names[k] \in DOMAIN s}
      BY DEF Take
    <3> HIDE DEF names, given
    <3> QED BY <2>2, <3>1 DEF Readings
  <2>4. BasisNorm(s) \in Int
    BY DEF BasisNorm, Readings, Value
  <2> HIDE DEF names, given, d
  <2> QED BY <2>1, <2>3, <2>4
<1> HIDE DEF d
<1>2. /\ OrderBookDepthScore(d) = 0 /\ LiquidationClusterScore(d) = 0
      /\ LongShortRatioScore(d) = 0 /\ StablecoinOutflowScore(d) = 0
  BY <1>1 DEF OrderBookDepthScore, LiquidationClusterScore, LongShortRatioScore,
              StablecoinOutflowScore, Has
<1>3. UpTo(BasisCompressionScore(d), 9000)
  BY <1>1 DEF BasisCompressionScore, Has, UpTo
<1>4. MicrostructureScore(d) \in 0..27
  BY <1>2, <1>3 DEF MicrostructureScore, Bounded, UpTo
<1>5. EdrAdvisoryContribution(MicrostructureScore(d)) = 0
  BY <1>4 DEF EdrAdvisoryContribution
<1> QED BY <1>5 DEF d

----------------------------------------------------------------------------
(* What a sweep makes of two markets.                                      *)

Summed(score, delev) == IF score + delev > 100 THEN 100 ELSE score + delev

\* The regime score the assessor sees: the compass and what deleveraging advises.
LEMMA AdjustedIs ==
    ASSUME NEW s, Readings(s), NEW l \in Int
    PROVE  /\ Scored(Composite(s), l) \in Int
           /\ DeleveragingScore(DelevInputs(s)) \in 0..55
           /\ Adjusted(Assessed(s, l))
              = Summed(Scored(Composite(s), l),
                       EdrAdvisoryContribution(DeleveragingScore(DelevInputs(s))))
<1> DEFINE x == Scored(Composite(s), l)
           d == DeleveragingScore(DelevInputs(s))
           m == MicrostructureScore(MicroInputs(s))
<1>1. NoCalmer(s, s) /\ NoLighter(s, s)
  <2>1. \A t \in DOMAIN s : s[t] <= s[t]
    BY DEF Readings
  <2> QED BY <2>1 DEF NoCalmer, NoLighter
<1>2. d \in 0..55
  BY <1>1, DelevOrdered
<1>3. Blended(s) \in Int
  BY <1>1, BlendedOrdered
<1>4. SkewAdder(s) \in Int
  BY SkewAdds DEF UpTo
<1>5. Composite(s) \in Int
  BY <1>3, <1>4, CompositeHasNoMargin
<1>6. x \in Int
  <2>1. Composite(s) <= Composite(s)
    BY <1>5
  <2>2. Scored(Composite(s), l) \in 0..100
    BY <1>5, <2>1, ScoresFollow
  <2> QED BY <2>2
<1>7. EdrAdvisoryContribution(m) = 0
  BY MicroIsQuiet
<1>8. Assessed(s, l).score = x /\ Assessed(s, l).delev = d /\ Assessed(s, l).micro = m
  BY DEF Assessed, RegimeScore, Scored
<1> HIDE DEF x, d, m
<1>9. EdrAdvisoryContribution(d) \in Int
  BY <1>2 DEF EdrAdvisoryContribution
<1>10. Adjusted(Assessed(s, l)) = Summed(x, EdrAdvisoryContribution(d))
  <2> DEFINE e == EdrAdvisoryContribution(d)
             o == Assessed(s, l)
  <2>1. o.score = x /\ EdrAdvisoryContribution(o.delev) = e
        /\ EdrAdvisoryContribution(o.micro) = 0
    BY <1>7, <1>8
  <2>2. e \in Int
    BY <1>9
  <2> HIDE DEF e, o
  <2>3. Adjusted(o) = Summed(x, e)
    BY <1>6, <2>1, <2>2 DEF Adjusted, Summed
  <2> QED BY <2>3 DEF e, o
<1> QED BY <1>2, <1>6, <1>10 DEF x, d, m

\* A market that is no calmer and no lighter has no lower score, and one that
\* only lacks SKEW and inputs of the deleveraging module is 7 points below.
LEMMA MarketsOrdered ==
    ASSUME NEW s, NEW r, Readings(s), Readings(r), NoCalmer(s, r), NoLighter(s, r),
           NEW l \in Int
    PROVE  /\ Adjusted(Assessed(s, l)) \in Int /\ Adjusted(Assessed(r, l)) \in Int
           /\ Adjusted(Assessed(s, l)) <= Adjusted(Assessed(r, l))
           /\ NoCalmer(r, s) => Adjusted(Assessed(r, l)) <= Adjusted(Assessed(s, l)) + 7
<1> DEFINE a == Blended(s)
           b == Blended(r)
           j == SkewAdder(s)
           k == SkewAdder(r)
           m == Composite(s)
           n == Composite(r)
           x == Scored(m, l)
           y == Scored(n, l)
           d == DeleveragingScore(DelevInputs(s))
           e == DeleveragingScore(DelevInputs(r))
<1>1. a \in Int /\ b \in Int /\ a <= b /\ (NoCalmer(r, s) => b <= a)
  BY BlendedOrdered
<1>2. j \in Int /\ k \in Int /\ 0 <= j /\ j <= k /\ k <= 500
  <2>1. UpTo(j, 500) /\ UpTo(k, 500) /\ ("CBOE_SKEW" \notin DOMAIN s => j = 0)
    BY SkewAdds
  <2>2. "CBOE_SKEW" \in DOMAIN s => j <= k
    BY SkewOrdered DEF NoLighter
  <2> HIDE DEF j, k
  <2> QED BY <2>1, <2>2 DEF UpTo
<1>3. m = a + 0 + j /\ n = b + 0 + k
  BY CompositeHasNoMargin
<1>4. d \in 0..55 /\ e \in 0..55 /\ d <= e
  BY DelevOrdered
<1>5. /\ Adjusted(Assessed(s, l)) = Summed(x, EdrAdvisoryContribution(d))
      /\ Adjusted(Assessed(r, l)) = Summed(y, EdrAdvisoryContribution(e))
  BY AdjustedIs
<1> HIDE DEF a, b, j, k, d, e, m, n
<1>6. m \in Int /\ n \in Int /\ m <= n /\ (NoCalmer(r, s) => n <= m + 500)
  BY <1>1, <1>2, <1>3
<1>7. /\ x \in 0..100 /\ y \in 0..100 /\ x <= y
      /\ NoCalmer(r, s) => y <= x + 5
  BY <1>6, ScoresFollow
<1>8. /\ EdrAdvisoryContribution(d) \in {0, 2} /\ EdrAdvisoryContribution(e) \in {0, 2}
      /\ EdrAdvisoryContribution(d) <= EdrAdvisoryContribution(e)
  BY <1>4 DEF EdrAdvisoryContribution
<1> DEFINE f == EdrAdvisoryContribution(d)
           g == EdrAdvisoryContribution(e)
<1>9. x \in Int /\ y \in Int /\ f \in Int /\ g \in Int /\ x <= y /\ f <= g
      /\ 0 <= f /\ g <= 2 /\ (NoCalmer(r, s) => y <= x + 5)
  BY <1>7, <1>8
<1> HIDE DEF x, y, f, g
<1>10. /\ Summed(x, f) \in Int /\ Summed(y, g) \in Int /\ Summed(x, f) <= Summed(y, g)
       /\ NoCalmer(r, s) => Summed(y, g) <= Summed(x, f) + 7
  BY <1>9 DEF Summed
<1>11. /\ Adjusted(Assessed(s, l)) = Summed(x, f)
       /\ Adjusted(Assessed(r, l)) = Summed(y, g)
  BY <1>5 DEF f, g
<1> QED BY <1>10, <1>11

\* A higher score has no lower band, and seven points span two bands at most.
LEMMA BandsOrdered ==
    ASSUME NEW m \in Int, NEW n \in Int, m <= n
    PROVE  /\ TargetRegimeIdx(m) <= TargetRegimeIdx(n)
           /\ n <= m + 7 => TargetRegimeIdx(n) <= TargetRegimeIdx(m) + 1
           /\ TargetRegimeIdx(m) \in Int /\ TargetRegimeIdx(n) \in Int
BY DEF TargetRegimeIdx, Crash

\* What the optional feeds' absence takes from the target.
LEMMA OutageCosts ==
    ASSUME NEW w, IsWorld(w), NEW l \in Int, NEW down \in SUBSET OptionalFeeds
    PROVE  LET t(services) == Target(Assessed(AllSignals(w, services), l))
           IN  t(Services \ down) >= t(Services) - 1 /\ t(Services \ down) <= t(Services)
<1> DEFINE s == AllSignals(w, Services \ down)
           r == AllSignals(w, Services)
<1>1. Readings(s) /\ Readings(r)
  BY SignalsAreReadings
<1>2. Without(s, r)
  BY OutagesTakeAway
<1>3. NoCalmer(s, r) /\ NoCalmer(r, s) /\ NoLighter(s, r)
  <2> HIDE DEF s, r
  <2>1. \A t \in DOMAIN s : s[t] <= s[t]
    BY <1>1 DEF Readings
  <2>2. \A t \in CompassReadings : t \in DOMAIN s /\ t \in DOMAIN r /\ s[t] = r[t]
    BY <1>2 DEF Without, CompassReadings
  <2>3. \A t \in {"BTC_FUNDING_RATE_ANN", "BTC_OI", "CBOE_SKEW", "MARGIN_DEBT_3M_GROWTH"} :
           t \in DOMAIN s => t \in DOMAIN r /\ s[t] = r[t]
    BY <1>2 DEF Without
  <2> QED BY <2>1, <2>2, <2>3 DEF NoCalmer, NoLighter
<1> HIDE DEF s, r
<1> DEFINE m == Adjusted(Assessed(s, l))
           n == Adjusted(Assessed(r, l))
<1>4. m \in Int /\ n \in Int /\ m <= n /\ n <= m + 7
  BY <1>1, <1>3, MarketsOrdered
<1> HIDE DEF m, n
<1>5. /\ TargetRegimeIdx(m) <= TargetRegimeIdx(n)
      /\ TargetRegimeIdx(n) <= TargetRegimeIdx(m) + 1
      /\ TargetRegimeIdx(m) \in Int /\ TargetRegimeIdx(n) \in Int
  BY <1>4, BandsOrdered
<1>6. /\ Target(Assessed(s, l)) = TargetRegimeIdx(m)
      /\ Target(Assessed(r, l)) = TargetRegimeIdx(n)
  BY DEF Target, m, n
<1>7. Target(Assessed(s, l)) >= Target(Assessed(r, l)) - 1
      /\ Target(Assessed(s, l)) <= Target(Assessed(r, l))
  BY <1>5, <1>6
<1> QED BY <1>7 DEF s, r

\* What one worsened reading does to the regime score.
LEMMA WorseScoresHigher ==
    ASSUME NEW s, Readings(s), NEW l \in Int, NEW t \in DOMAIN s \cap DOMAIN Worse
    PROVE  Adjusted(Assessed(Worsened(s, t), l)) >= Adjusted(Assessed(s, l))
<1> DEFINE r == Worsened(s, t)
<1>1. /\ DOMAIN Worse = {"VIX_INDEX", "HY_CREDIT_SPREAD", "PMI_NOWCAST", "CBOE_SKEW",
                         "MARGIN_DEBT_3M_GROWTH"}
      /\ Worse["VIX_INDEX"] = 400 /\ Worse["HY_CREDIT_SPREAD"] = 100
      /\ Worse["PMI_NOWCAST"] = -200 /\ Worse["CBOE_SKEW"] = 500
      /\ Worse["MARGIN_DEBT_3M_GROWTH"] = 400
  BY DEF Worse
<1>2. /\ Worse[t] \in Int /\ t # "PMI_NOWCAST" => Worse[t] >= 0
      /\ t = "PMI_NOWCAST" => Worse[t] <= 0
      /\ t \notin {"BTC_FUNDING_RATE_ANN", "BTC_OI"}
  BY <1>1
<1>3. DOMAIN r = DOMAIN s /\ \A k \in DOMAIN s : r[k] = IF k = t THEN s[k] + Worse[t] ELSE s[k]
  BY DEF Worsened
<1>4. \A k \in DOMAIN s : s[k] \in Int
  BY DEF Readings
<1> HIDE DEF r
<1>5. Readings(r)
  BY <1>1, <1>2, <1>3, <1>4 DEF Readings
<1>6. NoCalmer(s, r)
  BY <1>1, <1>2, <1>3, <1>4 DEF NoCalmer, CompassReadings
<1>7. NoLighter(s, r)
  BY <1>1, <1>2, <1>3, <1>4 DEF NoLighter
<1> DEFINE m == Adjusted(Assessed(s, l))
           n == Adjusted(Assessed(r, l))
<1>8. m \in Int /\ n \in Int /\ m <= n
  BY <1>5, <1>6, <1>7, MarketsOrdered
<1> HIDE DEF m, n
<1>9. n >= m
  BY <1>8
<1> QED BY <1>9 DEF m, n, r

----------------------------------------------------------------------------
(* The mornings.                                                           *)

NewsInv ==
    /\ world \in Worlds /\ day \in Nat /\ attempt \in Nat
    /\ floor \in Int
    /\ seen \in Seq(Prints) /\ behind \in [Ids -> 0..MaxKeys]
    /\ Remembered(seen, behind)

\* Before the first fetch the store is empty and nothing has been told.
LEMMA NewsOpens == Init => NewsInv
<1> SUFFICES ASSUME Init PROVE NewsInv
  OBVIOUS
<1>0. MaxKeys \in Nat \ {0}
  BY NewsAssumption
<1>1. behind = [i \in Ids |-> MaxKeys]
  BY DEF Init
<1>2. behind \in [Ids -> 0..MaxKeys] /\ Remembered(seen, behind)
  BY <1>0, <1>1 DEF Remembered
<1>3. seen \in Seq(Prints)
  BY DEF Init
<1> QED BY <1>2, <1>3 DEF Init, NewsInv

\* What an attempt takes for news is of the feeds, and not in the store.
LEMMA NewsIsUnseen ==
    ASSUME NewsInv, ReadNews
    PROVE  /\ fresh' \in Seq(Items)
           /\ \A n \in DOMAIN fresh' : Fingerprint(fresh'[n], Clock) \notin ToSet(seen)
           /\ Clock \in Nat
<1>1. world.news \in Seq(Items)
  BY RegimeAssumption DEF NewsInv
<1>2. fresh' = Deduped(Fetched(world.news), seen, Clock)
  BY DEF ReadNews
<1>3. Fetched(world.news) \in Seq(Items)
  BY <1>1, FetchedItems
<1>4. fresh' \in Unseen(Items, seen, Clock)
  BY <1>2, <1>3, DedupedItems
<1>5. Clock \in Nat
  <2>1. Attempts \in Nat /\ day \in Nat /\ attempt \in Nat
    BY RegimeAssumption DEF NewsInv
  <2> QED BY <2>1 DEF Clock
<1> QED BY <1>4, <1>5 DEF Unseen

\* A fetch, an attempt, a failure or a crash leaves the store true.
LEMMA NewsStep == NewsInv /\ [Next]_vars => NewsInv'
<1> SUFFICES ASSUME NewsInv, [Next]_vars PROVE NewsInv'
  OBVIOUS
<1>1. CASE ReadNews
  <2>1. fresh' \in Seq(Items) /\ Clock \in Nat
    BY <1>1, NewsIsUnseen
  <2>2. /\ StoreAfter(fresh', seen, Clock) \in Seq(Prints)
        /\ KeysBehind(Keys(fresh', Clock)) \in [Ids -> 0..MaxKeys]
        /\ Remembered(StoreAfter(fresh', seen, Clock), KeysBehind(Keys(fresh', Clock)))
    BY <2>1, StoreRemembers DEF NewsInv
  <2>3. seen' = StoreAfter(fresh', seen, Clock) /\ behind' = KeysBehind(Keys(fresh', Clock))
    BY <1>1 DEF ReadNews
  <2>4. floor' \in Int
    <3>1. \A i \in Items : IsItem(i)
      BY RegimeAssumption
    <3>2. MacroEventState(fresh', Now) \in Stresses
      BY <2>1, <3>1, EventStates
    <3>3. \A s \in Stresses : OverrideFloor(s) \in Int
      <4> SUFFICES ASSUME NEW s \in Stresses PROVE OverrideFloor(s) \in Int
        OBVIOUS
      <4>1. s["macro"] \in Int /\ s["oil"] \in Int /\ s["diplomacy"] \in Int
            /\ s["military"] \in Int
        BY DEF Stresses, Fields
      <4> QED BY <4>1 DEF OverrideFloor
    <3>4. floor' = OverrideFloor(MacroEventState(fresh', Now)) \/ floor' = floor
      BY <1>1 DEF ReadNews
    <3> QED BY <3>2, <3>3, <3>4 DEF NewsInv
  <2>5. UNCHANGED <<world, day, attempt>>
    BY <1>1 DEF ReadNews
  <2> QED BY <2>2, <2>3, <2>4, <2>5 DEF NewsInv
<1>2. CASE ReadFeeds \/ AssessRegime \/ NoPriceOfSpy \/ RunMonitors \/ ScanNews
  BY <1>2 DEF NewsInv, ReadFeeds, AssessRegime, NoPriceOfSpy, RunMonitors, ScanNews,
              monitors, history
<1>3. CASE Retry
  BY <1>3 DEF NewsInv, Retry, history
<1>4. CASE NextMorning
  BY <1>4 DEF NewsInv, NextMorning
<1>5. CASE UNCHANGED vars
  BY <1>5 DEF NewsInv, vars, history
<1> QED BY <1>1, <1>2, <1>3, <1>4, <1>5 DEF Next

\* The store of seen news is true in every reachable state.
LEMMA NewsHolds == Spec => []NewsInv
BY NewsOpens, NewsStep, PTL DEF Spec

\* A dated item is taken for news again only after MaxKeys others have been
\* stored since it was, for every store, every news and every order of the
\* attempts (dedupe_news_items and _save_state of event_state.py).
THEOREM NewsOnce == Spec => NewsIsNewOnce
<1>1. NewsInv /\ [Next]_vars =>
         [pc = "news" /\ pc' # pc =>
             \A i \in Keyed(ToSet(fresh')) : behind[i] = MaxKeys]_vars
  <2> SUFFICES ASSUME NewsInv, [Next]_vars, pc = "news", pc' # pc,
                      NEW i \in Keyed(ToSet(fresh'))
               PROVE  behind[i] = MaxKeys
    OBVIOUS
  <2>1. ReadNews
    BY DEF Next, ReadFeeds, AssessRegime, NoPriceOfSpy, RunMonitors, ScanNews, Retry,
           NextMorning, vars
  <2>2. /\ fresh' \in Seq(Items)
        /\ \A n \in DOMAIN fresh' : Fingerprint(fresh'[n], Clock) \notin ToSet(seen)
    BY <2>1, NewsIsUnseen
  <2>3. PICK n \in DOMAIN fresh' : fresh'[n].id = i /\ fresh'[n].form # "undated"
    BY DEF Keyed, ToSet
  <2> DEFINE x == fresh'[n]
  <2>4. x \in Items /\ x.id = i /\ i \in Ids
    BY <2>2, <2>3 DEF Ids
  <2>5. Fingerprint(x, Clock) = <<i, 0>> /\ \A c : Fingerprint(x, c) = <<i, 0>>
    BY <2>3 DEF Fingerprint
  <2>6. <<i, 0>> \notin ToSet(seen)
    BY <2>2, <2>5
  <2>7. ASSUME behind[i] < MaxKeys PROVE FALSE
    <3>1. PICK m \in DOMAIN seen : seen[m][1] = i
      BY <2>4, <2>7 DEF NewsInv, Remembered
    <3>2. seen[m] \in Prints
      BY <3>1 DEF NewsInv
    <3>3. PICK y \in Items, c \in Nat : seen[m] = Fingerprint(y, c)
      BY <3>2 DEF Prints
    <3>4. y.id = i
      BY <3>1, <3>3 DEF Fingerprint
    <3>5. y.form = x.form
      BY <2>4, <3>4, RegimeAssumption
    <3>6. seen[m] = <<i, 0>>
      BY <2>3, <3>3, <3>4, <3>5 DEF Fingerprint
    <3> QED BY <2>6, <3>1, <3>6 DEF ToSet
  <2>8. behind[i] \in 0..MaxKeys
    BY <2>4 DEF NewsInv
  <2>9. MaxKeys \in Nat
    BY NewsAssumption
  <2> QED BY <2>7, <2>8, <2>9
<1> QED BY <1>1, NewsHolds, PTL DEF Spec, NewsIsNewOnce

\* Whatever the markets and whichever of the optional feeds are down, their
\* absence takes the target back by one band at most, and never raises it
\* (pipeline.py goes on without them; what the score loses with them is capped).
THEOREM OutagesCostOneBand == Spec => []OutageCostsOneBand
<1>1. NewsInv => OutageCostsOneBand
  <2> SUFFICES ASSUME NewsInv, NEW down \in SUBSET OptionalFeeds
               PROVE  /\ TargetWith(Services \ down) >= TargetWith(Services) - 1
                      /\ TargetWith(Services \ down) <= TargetWith(Services)
    BY DEF OutageCostsOneBand
  <2>1. IsWorld(world) /\ floor \in Int
    BY RegimeAssumption DEF NewsInv
  <2>2. LET t(services) == Target(Assessed(AllSignals(world, services), floor))
        IN  t(Services \ down) >= t(Services) - 1 /\ t(Services \ down) <= t(Services)
    BY <2>1, OutageCosts
  <2> QED BY <2>2 DEF TargetWith, Signals
<1> QED BY <1>1, NewsHolds, PTL

\* A market that is worse in one reading, all else equal, never has the lower
\* score, advisory modules included, for every market the feeds may answer with.
THEOREM WorseScoresNoLess == Spec => []WorseIsNeverCalmer
<1>1. NewsInv => WorseIsNeverCalmer
  <2> SUFFICES ASSUME NewsInv, NEW t \in DOMAIN Signals(up) \cap DOMAIN Worse
               PROVE  Adjusted(Assessed(Worsened(Signals(up), t), floor))
                      >= Adjusted(Assessed(Signals(up), floor))
    BY DEF WorseIsNeverCalmer
  <2>1. IsWorld(world) /\ floor \in Int
    BY RegimeAssumption DEF NewsInv
  <2>2. Readings(Signals(up))
    BY <2>1, SignalsAreReadings DEF Signals
  <2> QED BY <2>1, <2>2, WorseScoresHigher
<1> QED BY <1>1, NewsHolds, PTL

=============================================================================
