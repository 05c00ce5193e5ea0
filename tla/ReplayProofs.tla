---------------------------- MODULE ReplayProofs ----------------------------
(***************************************************************************)
(* The daily loop of the backtest: the gates of re-entry over any NAVs,    *)
(* and the books that compute the NAV, for every set of tickers, scores    *)
(* and market days.                                                        *)
(*                                                                         *)
(* The gates rest on Pace: below the full ceiling, every tranche deployed  *)
(* has cost the days that lead up to it, a cooldown not yet over included. *)
(* It is proved of Judge, the part of a day the two specifications share.  *)
(***************************************************************************)
EXTENDS ReEntry, ReplayBook, FoldFacts

Pace == active < Full /\ level >= 1 => away >= 2 * level - 1 + rest

GatesInv ==
    AresTypeOK /\ TrancheLeft /\ RecoveryTakesTime /\ Pace /\ KillSwitchIsImmediate

ExitsHold ==
    /\ status = "DELEVERAGE_1" /\ ~Deleveraged(status') => ~Down(8, nav', hwm')
    /\ status = "DELEVERAGE_2" /\ status' # status => ~Down(12, nav', hwm')

----------------------------------------------------------------------------
\* What the sentinel answers: a status, and at least the one the drawdown calls for.
LEMMA SentinelAnswers ==
    ASSUME NEW n \in Int, NEW h \in Nat, NEW last \in PdsStatuses
    PROVE  /\ PdsStatus(n, h, last) \in PdsStatuses
           /\ Down(12, n, h) => Deleveraged(PdsStatus(n, h, last))
           /\ Down(18, n, h) => PdsStatus(n, h, last) = "DELEVERAGE_2"
<1>1. RawStatus(n, h) \in PdsStatuses
  BY DEF RawStatus, PdsStatuses
<1>2. Down(12, n, h) => Deleveraged(RawStatus(n, h))
  BY DEF RawStatus, Deleveraged
<1>3. Down(18, n, h) => RawStatus(n, h) = "DELEVERAGE_2" /\ Down(12, n, h)
  BY DEF RawStatus, Down
<1> QED
  BY <1>1, <1>2, <1>3 DEF PdsStatus, PdsStatuses, Deleveraged

\* A level is left only past the threshold of the one below it.
LEMMA SentinelHolds ==
    ASSUME NEW n \in Int, NEW h \in Nat
    PROVE  /\ ~Deleveraged(PdsStatus(n, h, "DELEVERAGE_1")) => ~Down(8, n, h)
           /\ PdsStatus(n, h, "DELEVERAGE_2") # "DELEVERAGE_2" => ~Down(12, n, h)
<1>1. Down(18, n, h) => RawStatus(n, h) = "DELEVERAGE_2"
  BY DEF RawStatus, Down
<1> QED
  BY <1>1 DEF PdsStatus, Deleveraged

\* A tranche that is not the last leaves a gap, and never widens it.
LEMMA TrancheLeavesGap ==
    ASSUME NEW a \in 0..Full, NEW size \in 15..35, a < Full
    PROVE  a + ((Full - a) * size) \div 100 \in a..(Full - 1)
<1> DEFINE g == Full - a
<1>1. g \in 1..1000
  BY DEF Full
<1>2. g * size >= 0 /\ g * size < 100 * g /\ g * size \in Int
  <2>1. /\ size \in {15,16,17,18,19,20,21,22,23,24,25} =>
           g * size >= 0 /\ g * size < 100 * g
        /\ size \in {26,27,28,29,30,31,32,33,34,35} =>
           g * size >= 0 /\ g * size < 100 * g
    BY <1>1
  <2> QED
    BY <1>1, <2>1
<1>3. (g * size) \div 100 \in 0..(g - 1)
  BY <1>1, <1>2
<1> QED
  BY <1>1, <1>3 DEF Full

----------------------------------------------------------------------------
LEMMA DeleverageStep ==
    ASSUME GatesInv, NEW pds \in PdsStatuses, Deleveraged(pds), Deleverage(pds)
    PROVE  /\ level' \in 0..Tranches /\ rest' \in 0..Rested
           /\ active' \in 0..Full /\ low' \in {300, 600, Full}
           /\ cleared' \in BOOLEAN /\ away' \in 0..5
           /\ TrancheLeft' /\ RecoveryTakesTime' /\ Pace'
<1>1. PdsCeiling(pds) \in {300, 600}
  BY DEF Deleveraged, PdsCeiling
<1>2. /\ active' \in {300, 600} /\ low' \in {300, 600}
      /\ level' = 0 /\ rest' = 2 /\ cleared' = FALSE /\ away' = 0
  BY <1>1 DEF Deleverage, Rested, TrancheCooldownDays
<1>3. TrancheLeft' /\ RecoveryTakesTime' /\ Pace'
  BY <1>2 DEF TrancheLeft, RecoveryTakesTime, Pace, Full, Tranches
<1>4. /\ level' \in 0..Tranches /\ rest' \in 0..Rested /\ away' \in 0..5
      /\ active' \in 0..Full /\ low' \in {300, 600, Full}
  BY <1>2 DEF Full, Rested, TrancheCooldownDays, Tranches
<1> QED
  BY <1>2, <1>3, <1>4

LEMMA ReenterStep ==
    ASSUME GatesInv, NEW regime \in Regimes, NEW pds \in PdsStatuses,
           NEW calm \in BOOLEAN, NEW scoreFell \in BOOLEAN,
           NEW size \in VaresSizes, NEW gap \in Gaps,
           Reenter(regime, pds, calm, scoreFell, size, gap)
    PROVE  /\ level' \in 0..Tranches /\ rest' \in 0..Rested
           /\ active' \in 0..Full /\ low' \in {300, 600, Full}
           /\ cleared' \in BOOLEAN /\ away' \in 0..5
           /\ TrancheLeft' /\ RecoveryTakesTime' /\ Pace'
<1> DEFINE lvl == IF Aborted(regime, pds) THEN 0 ELSE level
           rested == IF Aborted(regime, pds) THEN Rested ELSE CapAt(rest + gap, Rested)
           gates == GatesCleared(regime, pds, calm, scoreFell)
           fires == gates /\ CanDeploy(lvl, rested)
<1>1. /\ cleared' = gates
      /\ level' = IF fires THEN lvl + 1 ELSE lvl
      /\ rest' = IF fires THEN 0 ELSE rested
      /\ active' = IF fires /\ active < Full THEN Raised(lvl + 1, size) ELSE active
      /\ away' = CapAt(away + gap, 5)
      /\ low' = low
  BY DEF Reenter
<1>2. /\ gap \in Nat /\ gap > 0 /\ size \in 15..35
      /\ level \in 0..3 /\ rest \in 0..2 /\ active \in 0..1000 /\ away \in 0..5
      /\ low \in {300, 600, Full}
  BY AresAssumption DEF GatesInv, AresTypeOK, Full, Rested, TrancheCooldownDays, Tranches
<1>3. /\ lvl \in 0..3 /\ (lvl = 0 \/ lvl = level)
      /\ rested \in 0..2 /\ (lvl = 0 \/ rested <= rest + gap)
  BY <1>2 DEF CapAt, Rested, TrancheCooldownDays
<1>4. away' \in 0..5 /\ (away' = 5 \/ away' = away + gap)
  BY <1>1, <1>2 DEF CapAt
<1>5. gates \in BOOLEAN
  BY DEF GatesCleared
<1>6. fires => lvl < 3 /\ rested = 2
  BY <1>3 DEF CanDeploy, Tranches, TrancheCooldownDays
<1>7. active = Full => away = 5
  BY DEF GatesInv, RecoveryTakesTime
<1>8. active < Full => level < 3 /\ (level >= 1 => away >= 2 * level - 1 + rest)
  BY DEF GatesInv, TrancheLeft, Pace, Tranches
<1> HIDE DEF lvl, rested, gates, fires
<1> SUFFICES /\ level' \in 0..3 /\ rest' \in 0..2 /\ active' \in 0..1000
             /\ active' < 1000 => level' < 3
             /\ active' = 1000 => away' = 5
             /\ active' < 1000 /\ level' >= 1 => away' >= 2 * level' - 1 + rest'
  BY <1>1, <1>2, <1>4, <1>5
     DEF TrancheLeft, RecoveryTakesTime, Pace, Full, Rested, TrancheCooldownDays, Tranches
<1>a. CASE active = Full
  <2>1. active' = Full /\ away' = 5
    BY <1>a, <1>1, <1>2, <1>4, <1>7 DEF Full
  <2> QED
    BY <2>1, <1>1, <1>3, <1>6 DEF Full
<1>b. CASE active < Full /\ ~fires
  BY <1>b, <1>1, <1>2, <1>3, <1>4, <1>8 DEF Full
<1>c. CASE active < Full /\ fires /\ lvl = 2
  <2>1. active' = 1000
    BY <1>c, <1>1 DEF Raised, Tranches, Full
  <2>2. away' = 5
    BY <1>c, <1>2, <1>3, <1>4, <1>6, <1>8
  <2> QED
    BY <1>c, <2>1, <2>2, <1>1
<1>d. CASE active < Full /\ fires /\ lvl < 2
  <2>1. active' = active + ((Full - active) * size) \div 100
    BY <1>d, <1>1, <1>3 DEF Raised, Tranches
  <2>2. active' \in 0..999
    BY <1>d, <1>2, <2>1, TrancheLeavesGap DEF Full
  <2>3. level' = lvl + 1 /\ rest' = 0
    BY <1>d, <1>1
  <2>4. away' >= 2 * level' - 1
    BY <1>d, <2>3, <1>2, <1>3, <1>4, <1>6, <1>8
  <2> QED
    BY <1>d, <2>2, <2>3, <2>4, <1>3
<1> QED
  BY <1>a, <1>b, <1>c, <1>d, <1>2, <1>3, <1>6 DEF Full

LEMMA GatesOpen == AresInit /\ nav \in Nat \ {0} => GatesInv
<1> SUFFICES ASSUME AresInit, nav \in Nat, nav > 0 PROVE GatesInv
  OBVIOUS
<1>1. /\ level = 0 /\ rest = 2 /\ active = 1000 /\ low = 1000
      /\ cleared = FALSE /\ away = 5
  BY DEF AresInit, Full, Rested, TrancheCooldownDays
<1>2. hwm = nav /\ status \in PdsStatuses
  BY DEF AresInit, PdsStatuses
<1>3. AresTypeOK
  <2>1. /\ nav \in Int /\ hwm \in Nat /\ nav <= hwm
        /\ level \in 0..Tranches /\ rest \in 0..Rested /\ away \in 0..5
        /\ active \in 0..Full /\ low \in {300, 600, Full}
    BY <1>1, <1>2 DEF Full, Rested, TrancheCooldownDays, Tranches
  <2>2. cleared \in BOOLEAN
    BY <1>1
  <2> QED
    BY <1>2, <2>1, <2>2 DEF AresTypeOK
<1>4. TrancheLeft /\ RecoveryTakesTime /\ Pace
  BY <1>1 DEF TrancheLeft, RecoveryTakesTime, Pace, Full, Tranches
<1>5. KillSwitchIsImmediate
  BY <1>2 DEF KillSwitchIsImmediate, Down
<1> QED
  BY <1>3, <1>4, <1>5 DEF GatesInv

LEMMA GatesStay == GatesInv /\ UNCHANGED ares => GatesInv'
BY DEF ares, GatesInv, AresTypeOK, TrancheLeft, RecoveryTakesTime, Pace,
       KillSwitchIsImmediate

\* A day keeps the gates, whatever the NAV it is marked at.
LEMMA DayKeepsGates ==
    ASSUME GatesInv, nav' \in Int, AresDay
    PROVE  GatesInv' /\ ExitsHold
<1>1. PICK regime \in Regimes, calm \in BOOLEAN, scoreFell \in BOOLEAN,
           size \in VaresSizes, gap \in Gaps : Judge(regime, calm, scoreFell, size, gap)
  BY DEF AresDay
<1>2. /\ hwm' = IF nav' > hwm THEN nav' ELSE hwm
      /\ status' = PdsStatus(nav', hwm', status)
  BY <1>1 DEF Judge
<1>3. hwm' \in Nat /\ nav' <= hwm' /\ status \in PdsStatuses
  BY <1>2 DEF GatesInv, AresTypeOK
<1>4. /\ status' \in PdsStatuses
      /\ Down(12, nav', hwm') => Deleveraged(status')
      /\ Down(18, nav', hwm') => status' = "DELEVERAGE_2"
  BY <1>2, <1>3, SentinelAnswers
<1>5. /\ level' \in 0..Tranches /\ rest' \in 0..Rested
      /\ active' \in 0..Full /\ low' \in {300, 600, Full}
      /\ cleared' \in BOOLEAN /\ away' \in 0..5
      /\ TrancheLeft' /\ RecoveryTakesTime' /\ Pace'
  <2>1. CASE Deleveraged(status')
    BY <1>1, <1>4, <2>1, DeleverageStep DEF Judge
  <2>2. CASE ~Deleveraged(status')
    BY <1>1, <1>4, <2>2, ReenterStep DEF Judge
  <2> QED
    BY <2>1, <2>2
<1>6. AresTypeOK'
  BY <1>3, <1>4, <1>5 DEF AresTypeOK
<1>7. KillSwitchIsImmediate'
  <2>1. Deleveraged(status') => active' = PdsCeiling(status')
    BY <1>1 DEF Judge, Deleverage
  <2>2. /\ Deleveraged(status') => PdsCeiling(status') <= 600
        /\ status' = "DELEVERAGE_2" => Deleveraged(status') /\ PdsCeiling(status') <= 300
    BY DEF Deleveraged, PdsCeiling
  <2> QED
    BY <1>4, <2>1, <2>2 DEF KillSwitchIsImmediate
<1>8. ExitsHold
  BY <1>2, <1>3, SentinelHolds DEF ExitsHold
<1> QED
  BY <1>5, <1>6, <1>7, <1>8 DEF GatesInv

----------------------------------------------------------------------------
(* ReEntry: any NAV on any day.                                            *)

ReEntryInv == GatesInv /\ {nav, hwm} \subseteq Navs

LEMMA ReEntryInvariance == ReEntrySpec => []ReEntryInv
<1>1. ReEntryInit => ReEntryInv
  BY GatesOpen, NavsAssumption DEF ReEntryInit, ReEntryInv, AresInit
<1>2. ReEntryInv /\ [Day]_ares => ReEntryInv'
  <2>1. ASSUME ReEntryInv, Day PROVE ReEntryInv'
    <3>1. nav' \in Navs /\ nav' \in Int /\ AresDay
      BY <2>1, NavsAssumption DEF Day
    <3>2. GatesInv'
      BY <2>1, <3>1, DayKeepsGates DEF ReEntryInv
    <3>3. hwm' \in {nav', hwm}
      BY <3>1 DEF AresDay, Judge
    <3> QED
      BY <2>1, <3>1, <3>2, <3>3 DEF ReEntryInv
  <2>2. CASE UNCHANGED ares /\ ReEntryInv
    BY <2>2, GatesStay DEF ares, ReEntryInv
  <2> QED
    BY <2>1, <2>2
<1> QED
  BY <1>1, <1>2, PTL DEF ReEntrySpec

\* Types are kept; in particular the ceiling stays between none and full.
THEOREM ReEntryTypes == ReEntrySpec => []ReEntryTypeOK
<1>1. ReEntryInv => ReEntryTypeOK
  BY DEF ReEntryInv, GatesInv, ReEntryTypeOK
<1> QED
  BY <1>1, ReEntryInvariance, PTL

\* Full exposure takes at least five days from the last deleveraged day.
THEOREM RecoveryIsPaced == ReEntrySpec => []RecoveryTakesTime
<1>1. ReEntryInv => RecoveryTakesTime
  BY DEF ReEntryInv, GatesInv
<1> QED
  BY <1>1, ReEntryInvariance, PTL

\* Below the full ceiling there is a tranche left to deploy.
THEOREM ReEntryNeverStuck == ReEntrySpec => []TrancheLeft
<1>1. ReEntryInv => TrancheLeft
  BY DEF ReEntryInv, GatesInv
<1> QED
  BY <1>1, ReEntryInvariance, PTL

\* The drawdown cuts the ceiling on the day it is seen.
THEOREM CutsAreImmediate == ReEntrySpec => []KillSwitchIsImmediate
<1>1. ReEntryInv => KillSwitchIsImmediate
  BY DEF ReEntryInv, GatesInv
<1> QED
  BY <1>1, ReEntryInvariance, PTL

\* No deleverage level is left before its drawdown has recovered.
THEOREM ExitsHaveHysteresis == ReEntrySpec => ExitsAreHysteretic
<1>1. ReEntryInv /\ [Day]_ares => [ExitsHold]_ares
  <2>1. ASSUME ReEntryInv, Day PROVE ExitsHold
    BY <2>1, DayKeepsGates, NavsAssumption DEF Day, ReEntryInv
  <2> QED
    BY <2>1
<1> QED
  BY <1>1, ReEntryInvariance, PTL DEF ReEntrySpec, ExitsAreHysteretic, ExitsHold

----------------------------------------------------------------------------
(* ReplayBook: what a statement of the loop does to the money.             *)

BookTypes ==
    /\ day \in Nat /\ today \in Sessions /\ mics \in Convictions
    /\ eq \in [Tickers -> Int] /\ gold \in [Harvested -> Int]
    /\ {fund, coins, cash, made, paid} \subseteq Int
    /\ puts \in [count : Int, dte : Int, value : Int]
    /\ slof \in {10000, 11875, 12500}
    /\ targets \in [Tickers -> Int] /\ todo \in Seq(Tickers)

LEMMA FiniteBooks == IsFiniteSet(Tickers) /\ IsFiniteSet(Harvested)
<1>1. IsFiniteSet(Tickers)
  <2>1. Len(Equities) \in Nat /\ DOMAIN Equities = 1..Len(Equities)
    BY ReplayAssumption
  <2>2. IsFiniteSet(1..Len(Equities))
    BY <2>1, FS_Interval
  <2>3. Equities \in Surjection(1..Len(Equities), Tickers)
    BY <2>1, ReplayAssumption DEF Surjection, Tickers
  <2> QED
    BY <2>2, <2>3, FS_Surjection, Zenon
<1>2. IsFiniteSet(Harvested)
  <2>1. IsFiniteSet({"SGOL"})
    BY FS_Singleton
  <2>2. Harvested = {"SGOL"} \cup {"DBMF"}
    BY DEF Harvested
  <2> QED
    BY <2>1, <2>2, FS_AddElement
<1> QED
  BY <1>1, <1>2

\* Total is the sum of FoldFacts.
LEMMA TotalIsSum ==
    ASSUME NEW S, IsFiniteSet(S), NEW f \in [S -> Int]
    PROVE  Total(f) = Sum(f, S) /\ Total(f) \in Int
<1>1. DOMAIN f = S /\ \A x \in S : f[x] \in Int
  OBVIOUS
<1>2. Total(f) = Sum(f, S)
  BY <1>1 DEF Total, Sum
<1>3. Sum(f, S) \in Int
  BY <1>1, SumPicks
<1> QED
  BY <1>2, <1>3

LEMMA TotalsOfBooks ==
    /\ \A f \in [Tickers -> Int] : Total(f) = Sum(f, Tickers) /\ Total(f) \in Int
    /\ \A f \in [Harvested -> Int] : Total(f) = Sum(f, Harvested) /\ Total(f) \in Int
BY FiniteBooks, TotalIsSum

LEMMA MarketTypes ==
    ASSUME NEW s \in Sessions
    PROVE  /\ s.regime \in Regimes
           /\ s.stocks \in [Tickers -> Int] /\ s.sleeve \in [Harvested -> Int]
           /\ s.coin \in Int /\ s.fund \in Int
           /\ s.depth \in Nat /\ s.premium \in Nat /\ s.mark \in Nat /\ s.calls \in Nat
BY ReplayAssumption DEF MarketDay

LEMMA MoneyTypes ==
    \A a, b \in Int :
           /\ Share(a, b) \in Int /\ Moved(a, b) \in Int /\ AtLeast(a, b) \in Int
           /\ AbsValue(a) \in Nat /\ CapAt(a, b) \in Int /\ Slip(a) \in Int
<1> SUFFICES ASSUME NEW a \in Int, NEW b \in Int
             PROVE  /\ Share(a, b) \in Int /\ Moved(a, b) \in Int /\ AtLeast(a, b) \in Int
                    /\ AbsValue(a) \in Nat /\ CapAt(a, b) \in Int /\ Slip(a) \in Int
  OBVIOUS
<1>1. AbsValue(a) \in Nat
  BY DEF AbsValue
<1>2. \A p \in {5, 25, 50} : Share(AbsValue(a), p) \in Int
  BY <1>1 DEF Share
<1>3. Slip(a) \in Int
  BY <1>2 DEF Slip
<1> QED
  BY <1>1, <1>3 DEF Share, Moved, AtLeast, CapAt

LEMMA PutsUpdated ==
    ASSUME NEW p \in [count : Int, dte : Int, value : Int], NEW n \in Int
    PROVE  /\ [p EXCEPT !.dte = n] \in [count : Int, dte : Int, value : Int]
           /\ [p EXCEPT !.dte = n].value = p.value
           /\ [p EXCEPT !.dte = n].count = p.count
           /\ [p EXCEPT !.dte = n].dte = n
           /\ [p EXCEPT !.value = n] \in [count : Int, dte : Int, value : Int]
           /\ [p EXCEPT !.value = n].value = n
           /\ [p EXCEPT !.value = n].count = p.count
           /\ [p EXCEPT !.value = n].dte = p.dte
OBVIOUS

\* What the book holds of one thing splits into what is taken and what is left.
LEMMA TakenAndLeft ==
    ASSUME NEW S, IsFiniteSet(S), NEW f \in [S -> Int], NEW g \in [S -> Int],
           NEW h \in [S -> Int], \A x \in S : h[x] = f[x] - g[x]
    PROVE  Total(h) = Total(f) - Total(g)
<1>1. \A x \in S : h[x] \in Int /\ g[x] \in Int /\ f[x] = h[x] + g[x]
  OBVIOUS
<1>2. Sum(f, S) = Sum(h, S) + Sum(g, S)
  BY <1>1, SumsAdd
<1> QED
  BY <1>2, TotalIsSum

\* Conviction squared and decayed is positive.
LEMMA SquaredTypes ==
    ASSUME NEW scores \in Convictions, NEW days, NEW t \in Tickers
    PROVE  scores[t] * scores[t] * DecayOf(days[t]) \in Nat \ {0}
<1>1. scores[t] \in 1..10
  BY ReplayAssumption
<1>2. DecayOf(days[t]) \in {6, 8, 10}
  BY DEF DecayOf
<1>3. scores[t] * scores[t] \in Nat \ {0}
  BY <1>1
<1> HIDE DEF DecayOf
<1> QED
  BY <1>2, <1>3

\* The weights of a rebalance: none is negative or above the position limit,
\* and together they are within the ceiling's share of the equities.
LEMMA WeightsFit ==
    ASSUME NEW scores \in Convictions, NEW days, NEW ceiling \in Nat
    PROVE  /\ TargetWeights(scores, days, ceiling) \in [Tickers -> 0..MaxPosition]
           /\ Total(TargetWeights(scores, days, ceiling)) <= (ceiling * SleeveShare) \div 10
<1> DEFINE squared == [t \in Tickers |-> scores[t] * scores[t] * DecayOf(days[t])]
           T == Total(squared)
           c == ceiling * SleeveShare
           w == TargetWeights(scores, days, ceiling)
<1>1. squared \in [Tickers -> Nat \ {0}]
  BY SquaredTypes
<1>2. /\ T = Sum(squared, Tickers) /\ T \in Nat
      /\ \A t \in Tickers : squared[t] \in Nat /\ squared[t] > 0 /\ squared[t] <= T
  <2>1. squared \in [Tickers -> Int] /\ \A t \in Tickers : squared[t] \in Nat /\ squared[t] > 0
    BY <1>1
  <2> HIDE DEF squared
  <2>2. T = Sum(squared, Tickers)
    BY <2>1, TotalsOfBooks
  <2> QED
    BY <2>1, <2>2, FiniteBooks, SumOfNats
<1>3. c \in Nat
  BY DEF SleeveShare
<1>4. w = [t \in Tickers |-> CapAt((squared[t] * c) \div (10 * T), MaxPosition)]
  <2>1. \A t \in Tickers : squared[t] * ceiling * SleeveShare = squared[t] * c
    BY <1>2 DEF SleeveShare
  <2> QED
    BY <2>1 DEF TargetWeights
<1> HIDE DEF squared, T, c, w
<1>5. ASSUME NEW t \in Tickers
      PROVE  /\ w[t] \in 0..MaxPosition
             /\ 10 * T * w[t] \in Int /\ 10 * T * w[t] <= c * squared[t]
  <2> DEFINE n == 10 * T
             x == squared[t] * c
             q == x \div n
  <2>1. n \in Nat /\ n > 0 /\ x \in Nat
    BY <1>2, <1>3
  <2> HIDE DEF n, x
  <2>2. q \in Nat /\ n * q <= x
    BY <2>1
  <2>3. w[t] = CapAt(q, MaxPosition)
    BY <1>4 DEF n, x
  <2> HIDE DEF q
  <2>4. w[t] \in 0..MaxPosition /\ w[t] <= q
    BY <2>2, <2>3 DEF CapAt, MaxPosition
  <2>5. w[t] \in Nat
    BY <2>4
  <2>6. n * w[t] <= n * q /\ n * w[t] \in Int
    BY <2>1, <2>2, <2>4, <2>5
  <2>7. n * w[t] <= x
    BY <2>1, <2>2, <2>5, <2>6
  <2>8. n * w[t] = 10 * T * w[t] /\ x = c * squared[t]
    BY <1>2, <1>3, <2>5 DEF n, x
  <2> QED
    BY <2>4, <2>6, <2>7, <2>8
<1>6. w \in [Tickers -> 0..MaxPosition]
  <2>1. w \in [Tickers -> Int]
    BY <1>4, <1>5
  <2> QED
    BY <1>5, <2>1
<1>7. Total(w) = Sum(w, Tickers) /\ Total(w) \in Int
  <2>1. w \in [Tickers -> Int]
    BY <1>6 DEF MaxPosition
  <2> QED
    BY <2>1, TotalsOfBooks
<1>8. Total(w) <= c \div 10
  <2> DEFINE g == [t \in Tickers |-> (10 * T) * w[t]]
             h == [t \in Tickers |-> c * squared[t]]
  <2>1. \A t \in Tickers : /\ w[t] \in Int /\ g[t] = (10 * T) * w[t]
                            /\ squared[t] \in Int /\ h[t] = c * squared[t]
    BY <1>2, <1>6 DEF MaxPosition
  <2>2. \A t \in Tickers : g[t] \in Int /\ h[t] \in Int /\ g[t] <= h[t] + 0
    BY <1>2, <1>3, <1>5, <2>1
  <2> HIDE DEF g, h
  <2>3. Cardinality(Tickers) \in Nat
    BY FiniteBooks, FS_CardinalityType
  <2>4. Sum(g, Tickers) <= Sum(h, Tickers) + Cardinality(Tickers) * 0
    BY <2>2, FiniteBooks, SumsWithin
  <2>5. Sum(g, Tickers) = (10 * T) * Sum(w, Tickers)
    BY <1>2, <2>1, FiniteBooks, SumScales
  <2>6. Sum(h, Tickers) = c * T
    BY <1>2, <1>3, <2>1, FiniteBooks, SumScales
  <2>7. CASE Tickers = {}
    <3>1. Total(w) = 0
      BY <1>7, <2>7, EmptySum
    <3> QED
      BY <1>3, <3>1
  <2>8. CASE Tickers # {}
    <3>1. T > 0
      BY <1>2, <2>8
    <3>2. (10 * T) * Sum(w, Tickers) = T * (10 * Total(w))
      BY <1>2, <1>7
    <3>3. T * (10 * Total(w)) <= T * c
      BY <1>2, <1>3, <1>7, <2>3, <2>4, <2>5, <2>6, <3>2
    <3>4. 10 * Total(w) <= c
      BY <1>2, <1>3, <1>7, <3>1, <3>3
    <3> QED
      BY <1>3, <1>7, <3>4
  <2> QED
    BY <2>7, <2>8
<1> QED
  BY <1>6, <1>8 DEF w, c

\* The cap of the AI sector takes weight and adds none.
LEMMA AiCapFits ==
    ASSUME NEW w \in [Tickers -> 0..MaxPosition]
    PROVE  /\ AiCapped(w) \in [Tickers -> 0..MaxPosition]
           /\ \A t \in Tickers : AiCapped(w)[t] <= w[t]
<1> DEFINE ai == MapThenSumSet(LAMBDA t : w[t], AiSector)
           a == AiCapped(w)
<1>1. ai = Sum(w, AiSector)
  BY DEF Sum
<1>2. ai \in Int
  <2>1. AiSector \subseteq Tickers
    BY ReplayAssumption
  <2>2. IsFiniteSet(AiSector)
    BY <2>1, FiniteBooks, FS_Subset, Zenon
  <2>3. \A t \in AiSector : w[t] \in Int
    BY <2>1 DEF MaxPosition
  <2> QED
    BY <1>1, <2>2, <2>3, SumPicks
<1>3. a = [t \in Tickers |-> IF t \in AiSector /\ ai > MaxAiSector
                            THEN (w[t] * MaxAiSector) \div ai ELSE w[t]]
  BY DEF AiCapped
<1> HIDE DEF ai, a
<1>4. ASSUME NEW t \in Tickers
      PROVE  a[t] \in 0..MaxPosition /\ a[t] <= w[t]
  <2>1. w[t] \in Nat /\ w[t] <= MaxPosition
    BY DEF MaxPosition
  <2>2. CASE ai > MaxAiSector
    <3> DEFINE x == w[t] * 4800
               q == x \div ai
    <3>1. x \in Nat /\ ai \in Nat /\ ai > 4800
      BY <1>2, <2>1, <2>2 DEF MaxAiSector
    <3>2. x <= ai * w[t]
      BY <2>1, <3>1
    <3> HIDE DEF x
    <3>3. q \in Nat /\ ai * q <= x
      BY <3>1
    <3> HIDE DEF q
    <3>4. ai * q <= ai * w[t]
      BY <2>1, <3>1, <3>2, <3>3
    <3>5. q <= w[t]
      BY <2>1, <3>1, <3>3, <3>4
    <3>6. a[t] = q \/ a[t] = w[t]
      BY <1>3, <2>2 DEF q, x, MaxAiSector
    <3>7. q \in 0..MaxPosition /\ w[t] \in 0..MaxPosition /\ w[t] <= w[t]
      BY <2>1, <3>3, <3>5 DEF MaxPosition
    <3> QED
      BY <3>5, <3>6, <3>7
  <2>3. CASE ~(ai > MaxAiSector)
    BY <1>3, <2>1, <2>3 DEF MaxPosition
  <2> QED
    BY <2>2, <2>3
<1>5. a \in [Tickers -> 0..MaxPosition]
  BY <1>3, <1>4
<1> QED
  BY <1>4, <1>5 DEF a

LEMMA CeilingType ==
    ASSUME BookTypes, active \in 0..Full
    PROVE  CeilingToday \in 0..Full
<1>1. ArasCeiling(today.regime) \in {1000, 750, 400, 150}
  BY MarketTypes DEF BookTypes, Regimes, ArasCeiling
<1>2. slof \in {10000, 11875, 12500} /\ active \in 0..1000
  BY DEF BookTypes, Full
<1> HIDE DEF ArasCeiling
<1>3. (ArasCeiling(today.regime) * slof) \div 10000 \in Nat
  BY <1>1, <1>2
<1> QED
  BY <1>2, <1>3 DEF CeilingToday, Ceiling, CapAt, Full

LEMMA TargetsToday ==
    ASSUME BookTypes, active \in 0..Full
    PROVE  AiCapped(TargetWeights(mics, lag, CeilingToday)) \in [Tickers -> 0..MaxPosition]
<1>1. CeilingToday \in 0..Full
  BY CeilingType
<1>2. CeilingToday \in Nat
  BY <1>1 DEF Full
<1>3. mics \in Convictions
  BY DEF BookTypes
<1> QED
  BY <1>2, <1>3, WeightsFit, AiCapFits

\* What is bought or sold of a ticker is a whole amount.
LEMMA OrderType ==
    ASSUME BookTypes, nav \in Int, NEW t \in Tickers
    PROVE  OrderFor(t) \in Int
<1>1. targets[t] \in Int /\ eq[t] \in Int /\ cash \in Int /\ today.depth \in Nat
  BY MarketTypes DEF BookTypes
<1>2. MinCash \in Int /\ Share(nav, targets[t]) \in Int
  <2>1. Share(nav, 400) \in Int
    BY MoneyTypes
  <2>2. Share(nav, targets[t]) \in Int
    BY <1>1, MoneyTypes
  <2> QED
    BY <2>1, <2>2 DEF MinCash
<1>3. \A d \in Int : Affordable(d) \in Int
  BY <1>1, <1>2, MoneyTypes DEF Affordable
<1> DEFINE wanted == Share(nav, targets[t]) - eq[t]
           delta == Affordable(wanted)
<1>4. wanted \in Int /\ delta \in Int
  BY <1>1, <1>2, <1>3
<1>5. OrderFor(t) =
        CASE AbsValue(wanted) < SmallTrade -> 0
          [] AbsValue(wanted) >= SmallTrade /\ AbsValue(delta) < SmallTrade -> 0
          [] AbsValue(delta) >= SmallTrade /\ AbsValue(delta) > today.depth ->
                IF delta > 0 THEN today.depth ELSE -today.depth
          [] OTHER -> delta
  BY DEF OrderFor
<1> HIDE DEF wanted, delta
<1> QED
  BY <1>1, <1>4, <1>5

----------------------------------------------------------------------------
\* The market moves what is held; cash and puts stay.
LEMMA OpenDayBooks ==
    ASSUME BookTypes, MoneyIsConserved, OpenDay
    PROVE  BookTypes' /\ MoneyIsConserved' /\ nav' \in Int
<1>1. PICK s \in Sessions, gap \in Gaps :
        /\ today' = s
        /\ eq' = [t \in Tickers |-> Moved(eq[t], s.stocks[t])]
        /\ gold' = [g \in Harvested |-> Moved(gold[g], s.sleeve[g])]
        /\ fund' = Moved(fund, s.fund)
        /\ coins' = Moved(coins, s.coin)
        /\ nav' = Total(eq') + Total(gold') + fund' + coins' + cash + Leverage(Total(eq'), slof)
        /\ made' = made + (Total(eq') - Total(eq)) + (Total(gold') - Total(gold))
                        + (fund' - fund) + (coins' - coins)
        /\ puts' = [puts EXCEPT !.dte = @ - gap]
  BY DEF OpenDay
<1>2. /\ day' = day /\ mics' = mics /\ cash' = cash /\ slof' = slof
      /\ targets' = targets /\ todo' = todo /\ paid' = paid
  BY DEF OpenDay
<1>3. /\ eq' \in [Tickers -> Int] /\ gold' \in [Harvested -> Int] /\ coins' \in Int
      /\ fund' \in Int
  <2>0. /\ \A t \in Tickers : eq[t] \in Int
        /\ \A g \in Harvested : gold[g] \in Int
        /\ coins \in Int /\ fund \in Int
    BY DEF BookTypes
  <2>1. \A t \in Tickers : Moved(eq[t], s.stocks[t]) \in Int
    BY <2>0, MarketTypes, MoneyTypes
  <2>2. \A g \in Harvested : Moved(gold[g], s.sleeve[g]) \in Int
    BY <2>0, MarketTypes, MoneyTypes
  <2>3. Moved(coins, s.coin) \in Int /\ Moved(fund, s.fund) \in Int
    BY <2>0, MarketTypes, MoneyTypes
  <2> QED
    BY <1>1, <2>1, <2>2, <2>3
<1>4. /\ Total(eq) \in Int /\ Total(eq') \in Int
      /\ Total(gold) \in Int /\ Total(gold') \in Int
  BY <1>3, TotalsOfBooks DEF BookTypes
<1>5. fund \in Int /\ coins \in Int /\ cash \in Int /\ made \in Int /\ slof \in Int
  BY DEF BookTypes
<1>6. gap \in Int
  BY AresAssumption
<1>7. puts' \in [count : Int, dte : Int, value : Int] /\ puts'.value = puts.value
  <2>1. puts \in [count : Int, dte : Int, value : Int]
    BY DEF BookTypes
  <2>2. puts' = [puts EXCEPT !.dte = puts.dte - gap] /\ puts.dte - gap \in Int
    BY <1>1, <1>6, <2>1
  <2> QED
    BY <2>1, <2>2, PutsUpdated
<1>8. Leverage(Total(eq'), slof) \in Int
  BY <1>4, <1>5 DEF Leverage
<1>9. nav' \in Int /\ made' \in Int
  BY <1>1, <1>3, <1>4, <1>5, <1>8
<1>10. BookTypes'
  BY <1>1, <1>2, <1>3, <1>7, <1>9 DEF BookTypes
<1>11. puts.value \in Int /\ paid \in Int
  BY DEF BookTypes
<1>12. MoneyIsConserved'
  BY <1>1, <1>2, <1>3, <1>4, <1>5, <1>7, <1>11 DEF MoneyIsConserved, Holdings, Capital
<1> QED
  BY <1>9, <1>10, <1>12

LEMMA OverlayBooks ==
    ASSUME BookTypes, MoneyIsConserved, Overlay
    PROVE  BookTypes' /\ MoneyIsConserved'
<1>1. slof' \in {10000, 11875, 12500}
  BY DEF Overlay
<1>2. UNCHANGED <<market, equity, sleeve, coins, cash, puts, targets, todo, made, paid>>
  BY DEF Overlay
<1> QED
  BY <1>1, <1>2
     DEF BookTypes, MoneyIsConserved, Holdings, market, equity, sleeve

\* A roll pays for the new puts and takes in the old.
LEMMA BuyPutsBooks ==
    ASSUME BookTypes, MoneyIsConserved, nav \in Int, BuyPuts
    PROVE  BookTypes' /\ MoneyIsConserved'
<1> DEFINE closed == puts.count * today.mark
           price == Contracts * today.premium
<1>1. /\ puts' = [count |-> Contracts, dte |-> EntryDte, value |-> price]
      /\ cash' = cash + closed - price
      /\ made' = made + closed - puts.value
      /\ UNCHANGED <<market, equity, sleeve, coins, slof, targets, todo, paid>>
  BY DEF BuyPuts
<1>2. Contracts \in Int
  <2>1. Coverage(today.regime) \in Int
    BY MarketTypes DEF BookTypes, Regimes, Coverage
  <2>2. Share(nav, Coverage(today.regime)) \in Int
    BY <2>1, MoneyTypes
  <2> QED
    BY <2>2, MoneyTypes DEF Contracts, ContractNotional
<1>3. closed \in Int /\ price \in Int
  <2>1. puts.count \in Int /\ today.mark \in Int /\ today.premium \in Int
    BY MarketTypes DEF BookTypes
  <2> QED
    BY <1>2, <2>1
<1> HIDE DEF closed, price
<1>4. /\ Total(eq) \in Int /\ Total(gold) \in Int /\ fund \in Int /\ coins \in Int
      /\ cash \in Int /\ made \in Int /\ paid \in Int /\ puts.value \in Int
  BY TotalsOfBooks DEF BookTypes
<1>5. EntryDte \in Int
  BY ReplayAssumption
<1>6. puts' \in [count : Int, dte : Int, value : Int] /\ puts'.value = price
  BY <1>1, <1>2, <1>3, <1>5
<1>7. cash' \in Int /\ made' \in Int
  BY <1>1, <1>3, <1>4
<1>8. BookTypes'
  BY <1>1, <1>6, <1>7 DEF BookTypes, market, equity, sleeve
<1>9. MoneyIsConserved'
  BY <1>1, <1>3, <1>4, <1>6 DEF MoneyIsConserved, Holdings, Capital, equity, sleeve
<1> QED
  BY <1>8, <1>9

LEMMA HoldPutsBooks ==
    ASSUME BookTypes, MoneyIsConserved, HoldPuts
    PROVE  BookTypes' /\ MoneyIsConserved'
<1> DEFINE worth == puts.count * today.mark
<1>1. /\ puts' = [puts EXCEPT !.value = worth]
      /\ made' = made + puts'.value - puts.value
      /\ UNCHANGED <<market, equity, sleeve, coins, cash, slof, targets, todo, paid>>
  BY DEF HoldPuts
<1>2. worth \in Int
  <2>1. puts.count \in Int /\ today.mark \in Int
    BY MarketTypes DEF BookTypes
  <2> QED
    BY <2>1
<1> HIDE DEF worth
<1>3. /\ Total(eq) \in Int /\ Total(gold) \in Int /\ fund \in Int /\ coins \in Int
      /\ cash \in Int /\ made \in Int /\ paid \in Int /\ puts.value \in Int
  BY TotalsOfBooks DEF BookTypes
<1>4. puts' \in [count : Int, dte : Int, value : Int] /\ puts'.value = worth
  <2>1. puts \in [count : Int, dte : Int, value : Int]
    BY DEF BookTypes
  <2> QED
    BY <1>1, <1>2, <2>1, PutsUpdated
<1>5. made' \in Int
  BY <1>1, <1>2, <1>3, <1>4
<1>6. BookTypes'
  BY <1>1, <1>4, <1>5 DEF BookTypes, market, equity, sleeve
<1>7. MoneyIsConserved'
  BY <1>1, <1>3, <1>4 DEF MoneyIsConserved, Holdings, Capital, equity, sleeve
<1> QED
  BY <1>6, <1>7

LEMMA PlanBooks ==
    ASSUME BookTypes, MoneyIsConserved, active \in 0..Full, Plan
    PROVE  BookTypes' /\ MoneyIsConserved'
<1>1. targets' \in [Tickers -> Int]
  <2>1. targets' = AiCapped(TargetWeights(mics, lag, CeilingToday))
    BY DEF Plan
  <2>2. 0..MaxPosition \subseteq Int
    BY DEF MaxPosition
  <2> QED
    BY <2>1, <2>2, TargetsToday
<1>2. todo' = <<>> \/ todo' = ByBeta \/ todo' = Equities
  BY DEF Plan
<1>3. todo' \in Seq(Tickers)
  <2>1. ByBeta \in Seq(Tickers) /\ Equities \in Seq(Tickers)
    BY ReplayAssumption
  <2>2. <<>> \in Seq(Tickers)
    OBVIOUS
  <2> QED
    BY <1>2, <2>1, <2>2
<1>4. UNCHANGED <<market, equity, sleeve, coins, cash, puts, slof, made, paid>>
  BY DEF Plan
<1> QED
  BY <1>1, <1>3, <1>4 DEF BookTypes, MoneyIsConserved, Holdings, market, equity, sleeve

LEMMA TradedTotal ==
    ASSUME NEW f \in [Tickers -> Int], NEW t \in Tickers, NEW d \in Int
    PROVE  /\ [f EXCEPT ![t] = f[t] + d] \in [Tickers -> Int]
           /\ Total([f EXCEPT ![t] = f[t] + d]) = Total(f) + d
<1> DEFINE g == [f EXCEPT ![t] = f[t] + d]
<1>1. /\ g \in [Tickers -> Int] /\ g[t] = f[t] + d
      /\ \A x \in Tickers : x # t => g[x] = f[x]
  OBVIOUS
<1>2. \A x \in Tickers : f[x] \in Int /\ g[x] \in Int
  BY <1>1
<1> HIDE DEF g
<1>3. Sum(g, Tickers) = Sum(f, Tickers) + (g[t] - f[t])
  BY <1>1, <1>2, FiniteBooks, SumChanges
<1>4. /\ Total(f) = Sum(f, Tickers) /\ Total(g) = Sum(g, Tickers)
      /\ Total(f) \in Int /\ f[t] \in Int
  BY <1>1, TotalsOfBooks
<1> QED
  BY <1>1, <1>3, <1>4 DEF g

\* A trade moves money between a ticker and cash; slippage is what is lost.
LEMMA TradeNextBooks ==
    ASSUME BookTypes, MoneyIsConserved, nav \in Int, TradeNext
    PROVE  BookTypes' /\ MoneyIsConserved'
<1> DEFINE t == Head(todo)
           delta == OrderFor(t)
<1>1. /\ todo # <<>>
      /\ eq' = [eq EXCEPT ![t] = @ + delta]
      /\ cash' = cash - delta - Slip(delta)
      /\ paid' = paid + Slip(delta)
      /\ todo' = Tail(todo)
  BY DEF TradeNext, Settled
<1>0. UNCHANGED <<market, sleeve, coins, puts, slof, targets, made>>
  BY DEF TradeNext
<1>2. todo \in Seq(Tickers) /\ eq \in [Tickers -> Int]
  BY DEF BookTypes
<1>3. t \in Tickers /\ todo' \in Seq(Tickers)
  BY <1>1, <1>2
<1>4. delta \in Int
  BY <1>3, OrderType
<1>5. Slip(delta) \in Int
  BY <1>4, MoneyTypes
<1> HIDE DEF t, delta
<1>6. eq' = [eq EXCEPT ![t] = eq[t] + delta]
  BY <1>1
<1>7. eq' \in [Tickers -> Int] /\ Total(eq') = Total(eq) + delta
  BY <1>2, <1>3, <1>4, <1>6, TradedTotal
<1>8. /\ Total(eq) \in Int /\ Total(gold) \in Int /\ fund \in Int /\ coins \in Int
      /\ cash \in Int /\ made \in Int /\ paid \in Int /\ puts.value \in Int
  BY TotalsOfBooks DEF BookTypes
<1>9. cash' \in Int /\ paid' \in Int
  BY <1>1, <1>4, <1>5, <1>8
<1>10. BookTypes'
  BY <1>0, <1>3, <1>7, <1>9 DEF BookTypes, market, sleeve
<1>11. MoneyIsConserved'
  <2>1. cash' = cash - delta - Slip(delta) /\ paid' = paid + Slip(delta)
    BY <1>1
  <2>2. Holdings' + puts'.value = Holdings + puts.value - Slip(delta)
    BY <1>0, <1>4, <1>5, <1>7, <1>8, <2>1 DEF Holdings, sleeve
  <2>3. Holdings \in Int
    BY <1>8 DEF Holdings
  <2> QED
    BY <1>0, <1>5, <1>8, <2>1, <2>2, <2>3 DEF MoneyIsConserved, Capital
<1> QED
  BY <1>10, <1>11

\* What is above a cap goes to cash, less its slippage.
LEMMA CapPositionsBooks ==
    ASSUME BookTypes, MoneyIsConserved, nav \in Int, CapPositions
    PROVE  BookTypes' /\ MoneyIsConserved'
<1> DEFINE excess == [t \in Tickers |-> IF Crisis THEN 0
                                        ELSE AtLeast(eq[t] - Share(nav, MaxPosition), 0)]
           slips == [t \in Tickers |-> Slip(excess[t])]
<1>1. /\ eq' = [t \in Tickers |-> eq[t] - excess[t]]
      /\ cash' = cash + Total(excess) - Total(slips)
      /\ paid' = paid + Total(slips)
      /\ UNCHANGED <<market, sleeve, coins, puts, slof, targets, todo, made>>
  BY DEF CapPositions
<1>2. eq \in [Tickers -> Int]
  BY DEF BookTypes
<1>3. excess \in [Tickers -> Int]
  <2>1. Share(nav, MaxPosition) \in Int
    BY MoneyTypes DEF MaxPosition
  <2>2. \A t \in Tickers : AtLeast(eq[t] - Share(nav, MaxPosition), 0) \in Int
    BY <1>2, <2>1, MoneyTypes
  <2> QED
    BY <2>2
<1> HIDE DEF excess
<1>4. slips \in [Tickers -> Int]
  BY <1>3, MoneyTypes
<1> HIDE DEF slips
<1>5. eq' \in [Tickers -> Int] /\ \A t \in Tickers : eq'[t] = eq[t] - excess[t]
  BY <1>1, <1>2, <1>3
<1>6. Total(eq') = Total(eq) - Total(excess)
  BY <1>2, <1>3, <1>5, FiniteBooks, TakenAndLeft
<1>7. Total(excess) \in Int /\ Total(slips) \in Int
  BY <1>3, <1>4, TotalsOfBooks
<1>8. /\ Total(eq) \in Int /\ Total(gold) \in Int /\ fund \in Int /\ coins \in Int
      /\ cash \in Int /\ made \in Int /\ paid \in Int /\ puts.value \in Int
  BY TotalsOfBooks DEF BookTypes
<1>9. cash' \in Int /\ paid' \in Int
  BY <1>1, <1>7, <1>8
<1>10. BookTypes'
  BY <1>1, <1>5, <1>9 DEF BookTypes, market, sleeve
<1>11. MoneyIsConserved'
  BY <1>1, <1>6, <1>7, <1>8 DEF MoneyIsConserved, Holdings, Capital, sleeve
<1> QED
  BY <1>10, <1>11

LEMMA CryptoOrderType ==
    ASSUME BookTypes, nav \in Int
    PROVE  CryptoOrder \in Int /\ CryptoTarget \in Int
<1>1. CryptoTarget \in Int /\ MinCash \in Int
  <2>1. \A p \in {200, 400, 2000} : Share(nav, p) \in Int
    BY MoneyTypes
  <2> QED
    BY <2>1 DEF CryptoTarget, MinCash
<1>2. cash \in Int /\ coins \in Int
  BY DEF BookTypes
<1>3. \A d \in Int : Affordable(d) \in Int
  BY <1>1, <1>2, MoneyTypes DEF Affordable
<1> DEFINE wanted == CryptoTarget - coins
           delta == Affordable(wanted)
<1>4. wanted \in Int /\ delta \in Int
  BY <1>1, <1>2, <1>3
<1>5. CryptoOrder \in {delta, 0}
  BY DEF CryptoOrder
<1> QED
  BY <1>1, <1>4, <1>5

LEMMA TradeCryptoBooks ==
    ASSUME BookTypes, MoneyIsConserved, nav \in Int, TradeCrypto
    PROVE  BookTypes' /\ MoneyIsConserved'
<1>1. PICK delta \in {CryptoOrder, 0} :
        /\ coins' = coins + delta
        /\ cash' = cash - delta - Slip(delta)
        /\ paid' = paid + Slip(delta)
  BY DEF TradeCrypto, Settled
<1>2. UNCHANGED <<market, equity, sleeve, puts, slof, targets, todo, made>>
  BY DEF TradeCrypto
<1>3. delta \in Int
  BY CryptoOrderType
<1>4. Slip(delta) \in Int
  BY <1>3, MoneyTypes
<1>5. /\ Total(eq) \in Int /\ Total(gold) \in Int /\ fund \in Int /\ coins \in Int
      /\ cash \in Int /\ made \in Int /\ paid \in Int /\ puts.value \in Int
  BY TotalsOfBooks DEF BookTypes
<1>6. cash' \in Int /\ paid' \in Int /\ coins' \in Int
  BY <1>1, <1>3, <1>4, <1>5
<1>7. BookTypes'
  BY <1>2, <1>6 DEF BookTypes, market, equity, sleeve
<1>8. MoneyIsConserved'
  BY <1>1, <1>2, <1>3, <1>4, <1>5 DEF MoneyIsConserved, Holdings, Capital, equity, sleeve
<1> QED
  BY <1>7, <1>8

\* What is harvested is in the fund or in cash afterwards, once.
LEMMA HarvestBooks ==
    ASSUME BookTypes, MoneyIsConserved, nav \in Int, Harvest
    PROVE  BookTypes' /\ MoneyIsConserved'
<1> DEFINE trims == [g \in Harvested |-> TrimOf(g)]
           amount == Total(trims)
<1>1. /\ gold' = [g \in Harvested |-> gold[g] - trims[g]]
      /\ fund' = Proceeds(amount).fund
      /\ cash' = Proceeds(amount).cash
      /\ UNCHANGED <<market, equity, coins, puts, slof, targets, todo, made, paid>>
  BY DEF Harvest
<1>2. gold \in [Harvested -> Int]
  BY DEF BookTypes
<1>3. trims \in [Harvested -> Int]
  <2>1. \A p \in {200, 500} : Share(nav, p) \in Int
    BY MoneyTypes
  <2>2. \A g \in Harvested : HarvestTarget(g) \in Int
    BY <2>1 DEF HarvestTarget
  <2>3. \A g \in Harvested : AtLeast(gold[g] - HarvestTarget(g), 0) \in Int
    BY <1>2, <2>2, MoneyTypes
  <2>4. \A g \in Harvested : TrimOf(g) \in Int
    BY <2>3 DEF TrimOf
  <2> QED
    BY <2>4
<1> HIDE DEF trims
<1>4. gold' \in [Harvested -> Int] /\ \A g \in Harvested : gold'[g] = gold[g] - trims[g]
  BY <1>1, <1>2, <1>3
<1>5. Total(gold') = Total(gold) - amount /\ amount \in Int
  BY <1>2, <1>3, <1>4, FiniteBooks, TakenAndLeft, TotalsOfBooks
<1> HIDE DEF amount
<1>6. \/ fund' = fund + amount /\ cash' = cash
      \/ fund' = fund /\ cash' = cash + amount
  BY <1>1 DEF Proceeds
<1>7. /\ Total(eq) \in Int /\ Total(gold) \in Int /\ fund \in Int /\ coins \in Int
      /\ cash \in Int /\ made \in Int /\ paid \in Int /\ puts.value \in Int
  BY TotalsOfBooks DEF BookTypes
<1>8. fund' \in Int /\ cash' \in Int
  BY <1>5, <1>6, <1>7
<1>9. BookTypes'
  BY <1>1, <1>4, <1>8 DEF BookTypes, market, equity
<1>10. MoneyIsConserved'
  BY <1>1, <1>5, <1>6, <1>7 DEF MoneyIsConserved, Holdings, Capital, equity
<1> QED
  BY <1>9, <1>10

LEMMA SellCallsBooks ==
    ASSUME BookTypes, MoneyIsConserved, SellCalls
    PROVE  BookTypes' /\ MoneyIsConserved'
<1>1. PICK income \in {CallIncome, 0} : cash' = cash + income /\ made' = made + income
  BY DEF SellCalls
<1>2. UNCHANGED <<market, equity, sleeve, coins, puts, slof, targets, todo, paid>>
  BY DEF SellCalls
<1>3. CallIncome \in Int
  <2> DEFINE called == {t \in Tickers : /\ eq[t] > 0
                                        /\ \/ 10 * eq[t] >= 13 * cost[t]
                                           \/ DecayOf(lag[t]) <= 8}
             f == [t \in called |-> (eq[t] * today.calls) \div 400]
  <2>1. CallIncome = Total(f)
    BY DEF CallIncome
  <2>2. called \subseteq Tickers
    OBVIOUS
  <2> HIDE DEF called
  <2>3. IsFiniteSet(called)
    BY <2>2, FiniteBooks, FS_Subset, Zenon
  <2>4. \A t \in Tickers : eq[t] \in Int
    BY DEF BookTypes
  <2>5. today.calls \in Nat
    BY MarketTypes DEF BookTypes
  <2>6. f \in [called -> Int]
    BY <2>2, <2>4, <2>5
  <2> HIDE DEF f
  <2> QED
    BY <2>1, <2>3, <2>6, TotalIsSum
<1>4. /\ Total(eq) \in Int /\ Total(gold) \in Int /\ fund \in Int /\ coins \in Int
      /\ cash \in Int /\ made \in Int /\ paid \in Int /\ puts.value \in Int
  BY TotalsOfBooks DEF BookTypes
<1>5. cash' \in Int /\ made' \in Int
  BY <1>1, <1>3, <1>4
<1>6. BookTypes'
  BY <1>2, <1>5 DEF BookTypes, market, equity, sleeve
<1>7. MoneyIsConserved'
  BY <1>1, <1>2, <1>3, <1>4 DEF MoneyIsConserved, Holdings, Capital, equity, sleeve
<1> QED
  BY <1>6, <1>7

LEMMA CloseDayBooks ==
    ASSUME BookTypes, MoneyIsConserved, CloseDay
    PROVE  BookTypes' /\ MoneyIsConserved'
<1>1. /\ day' = day + 1
      /\ UNCHANGED <<today, mics, equity, sleeve, coins, cash, puts, slof, targets, todo,
                     made, paid>>
  BY DEF CloseDay
<1>2. day' \in Nat
  BY <1>1 DEF BookTypes
<1> QED
  BY <1>1, <1>2 DEF BookTypes, MoneyIsConserved, Holdings, equity, sleeve

----------------------------------------------------------------------------
(* ReplayBook: the gates, the hedge, the stress residue.                   *)

HedgeHeld ==
    puts.count > 0 => IF pc \in {"overlay", "hedge"} THEN puts.dte > 0
                                                     ELSE puts.dte > RollDte

\* Of a portfolio that is not worth less than nothing.
StressIsShed == nav >= 0 => CryptoIsShed

BookInv == GatesInv /\ BookTypes /\ MoneyIsConserved /\ HedgeHeld /\ StressIsShed

\* A backtest opens with its capital in the book.
LEMMA BooksOpen == Init => BookInv
<1> SUFFICES ASSUME Init PROVE BookInv
  OBVIOUS
<1>1. GatesInv /\ nav \in Int
  <2>1. nav \in Nat \ {0} /\ AresInit
    BY DEF Init, Capital
  <2> QED
    BY <2>1, GatesOpen
<1>2. /\ mics \in Convictions /\ today \in Sessions /\ day = 0 /\ slof = 10000
      /\ fund = 700 /\ coins = 2000 /\ made = 0 /\ paid = 0 /\ pc = "open"
  BY DEF Init
<1>3. /\ puts = [count |-> 0, dte |-> 0, value |-> 0]
      /\ targets = [t \in Tickers |-> 0] /\ todo = <<>>
      /\ cash = Capital - Total(eq) - Total(gold) - fund - coins
  BY DEF Init
<1>4. eq \in [Tickers -> Int]
  <2> DEFINE w == TargetWeights(mics, [u \in Tickers |-> 0], Full)
  <2>1. w \in [Tickers -> 0..MaxPosition]
    BY <1>2, WeightsFit DEF Full
  <2>2. eq = [t \in Tickers |-> Share(Capital, w[t])]
    BY DEF Init
  <2> HIDE DEF w
  <2>3. \A t \in Tickers : Share(Capital, w[t]) \in Int
    BY <2>1 DEF Share, Capital, MaxPosition
  <2> QED
    BY <2>2, <2>3
<1>5. gold \in [Harvested -> Int]
  BY DEF Init
<1>6. Total(eq) \in Int /\ Total(gold) \in Int
  BY <1>4, <1>5, TotalsOfBooks
<1>7. puts \in [count : Int, dte : Int, value : Int] /\ puts.value = 0 /\ puts.count = 0
  BY <1>3
<1>8. targets \in [Tickers -> Int] /\ todo \in Seq(Tickers)
  BY <1>3
<1>9. cash \in Int
  BY <1>2, <1>3, <1>6 DEF Capital
<1>10. BookTypes
  BY <1>2, <1>4, <1>5, <1>7, <1>8, <1>9 DEF BookTypes
<1>11. MoneyIsConserved
  BY <1>2, <1>3, <1>6, <1>7 DEF MoneyIsConserved, Holdings, Capital
<1>12. HedgeHeld /\ StressIsShed
  BY <1>2, <1>7 DEF HedgeHeld, StressIsShed, CryptoIsShed
<1> QED
  BY <1>1, <1>10, <1>11, <1>12 DEF BookInv

\* The open of a day is a day of the gates; the rest of the loop leaves them.
LEMMA OpenDayIsAresDay == OpenDay => AresDay
<1> SUFFICES ASSUME OpenDay PROVE AresDay
  OBVIOUS
<1>1. PICK s \in Sessions, size \in VaresSizes, gap \in Gaps :
        Judge(s.regime, s.calm, s.scoreFell, size, gap)
  BY DEF OpenDay
<1>2. s.regime \in Regimes /\ s.calm \in BOOLEAN /\ s.scoreFell \in BOOLEAN
  BY ReplayAssumption DEF MarketDay
<1> QED
  BY <1>1, <1>2 DEF AresDay

LEMMA RestLeavesGates ==
    ASSUME Overlay \/ BuyPuts \/ HoldPuts \/ Plan \/ TradeNext \/ CapPositions
           \/ TradeCrypto \/ Harvest \/ SellCalls \/ CloseDay
    PROVE  UNCHANGED ares /\ nav' = nav
BY DEF Overlay, BuyPuts, HoldPuts, Plan, TradeNext, CapPositions, TradeCrypto, Harvest,
       SellCalls, CloseDay, sentinel, ares

\* The puts are rolled RollDte days before they expire, and no two trading days
\* are as far apart.
LEMMA HedgeStep ==
    ASSUME BookTypes, HedgeHeld, Next
    PROVE  HedgeHeld'
<1>1. puts \in [count : Int, dte : Int, value : Int]
  BY DEF BookTypes
<1>2. RollDte \in Int /\ EntryDte \in Int /\ RollDte < EntryDte
  BY ReplayAssumption
<1>3. CASE OpenDay
  <2>1. PICK gap \in Gaps : puts' = [puts EXCEPT !.dte = @ - gap]
    BY <1>3 DEF OpenDay
  <2>2. pc = "open" /\ pc' = "overlay"
    BY <1>3 DEF OpenDay
  <2>3. gap \in Int /\ gap < RollDte
    BY AresAssumption, ReplayAssumption
  <2>4. puts'.count = puts.count /\ puts'.dte = puts.dte - gap
    BY <1>1, <2>1, <2>3
  <2>5. puts.count > 0 => puts.dte > RollDte
    BY <2>2 DEF HedgeHeld
  <2> QED
    BY <1>1, <1>2, <2>2, <2>3, <2>4, <2>5 DEF HedgeHeld
<1>4. CASE Overlay
  BY <1>4 DEF Overlay, HedgeHeld
<1>5. CASE BuyPuts
  <2>1. puts'.dte = EntryDte /\ pc' = "plan"
    BY <1>5 DEF BuyPuts
  <2> QED
    BY <1>2, <2>1 DEF HedgeHeld
<1>6. CASE HoldPuts
  <2>1. /\ puts' = [puts EXCEPT !.value = puts.count * today.mark]
        /\ ~(puts.dte <= RollDte) /\ pc' = "plan"
    BY <1>6 DEF HoldPuts, MustRoll
  <2>2. puts'.dte = puts.dte
    BY <1>1, <2>1
  <2> QED
    BY <1>1, <1>2, <2>1, <2>2 DEF HedgeHeld
<1>7. CASE Plan \/ TradeNext \/ CapPositions \/ TradeCrypto \/ Harvest \/ SellCalls \/ CloseDay
  <2>1. /\ puts' = puts /\ pc \notin {"overlay", "hedge"} /\ pc' \notin {"overlay", "hedge"}
    BY <1>7 DEF Plan, TradeNext, CapPositions, TradeCrypto, Harvest, SellCalls, CloseDay
  <2> QED
    BY <2>1 DEF HedgeHeld
<1> QED
  BY <1>3, <1>4, <1>5, <1>6, <1>7 DEF Next

\* Whatever there was of crypto, the order of a day of stress leaves the residue,
\* or what is too little above it to be traded.
LEMMA StressOrder ==
    ASSUME BookTypes, nav \in Int, nav >= 0, KillChain
    PROVE  coins + CryptoOrder <= Share(nav, 250)
<1> DEFINE wanted == Share(nav, 200) - coins
           delta == Affordable(wanted)
<1>1. coins \in Int /\ cash \in Int
  BY DEF BookTypes
<1>2. /\ Share(nav, 200) \in Nat /\ Share(nav, 50) \in Nat /\ Share(nav, 10) \in Nat
      /\ Share(nav, 250) \in Nat /\ MinCash \in Int
      /\ Share(nav, 200) + Share(nav, 50) <= Share(nav, 250)
      /\ Share(nav, 10) <= Share(nav, 50)
  BY DEF Share, MinCash
<1>3. CryptoOrder = IF AbsValue(wanted) > Share(nav, 50) /\ AbsValue(delta) > Share(nav, 10)
                    THEN delta ELSE 0
  BY DEF CryptoOrder, CryptoTarget, SmallTrade, MinTradeDrift
<1>4. wanted \in Int
  BY <1>1, <1>2
<1>5. CASE wanted >= 0
  <2>1. delta <= wanted /\ delta \in Int
    BY <1>1, <1>2, <1>4, <1>5 DEF Affordable, AtLeast
  <2> HIDE DEF delta
  <2>2. CryptoOrder <= wanted /\ CryptoOrder \in Int
    BY <1>3, <1>4, <1>5, <2>1
  <2> QED
    BY <1>1, <1>2, <2>2
<1>6. CASE wanted < 0
  <2>1. delta = wanted
    BY <1>4, <1>6 DEF Affordable
  <2>2. AbsValue(wanted) = 0 - wanted
    BY <1>4, <1>6 DEF AbsValue
  <2> HIDE DEF delta
  <2>3. CryptoOrder = wanted \/ (CryptoOrder = 0 /\ 0 - wanted <= Share(nav, 50))
    BY <1>2, <1>3, <1>4, <2>1, <2>2
  <2> QED
    BY <1>1, <1>2, <2>3
<1> QED
  BY <1>4, <1>5, <1>6

LEMMA StressStep ==
    ASSUME BookTypes, nav \in Int, StressIsShed, Next
    PROVE  StressIsShed'
<1>1. CASE TradeCrypto
  <2>1. nav' = nav /\ today' = today /\ status' = status
    BY <1>1 DEF TradeCrypto, sentinel, ares, market
  <2>2. KillChain => coins' = coins + CryptoOrder
    BY <1>1 DEF TradeCrypto
  <2>3. KillChain /\ nav >= 0 => coins' <= Share(nav, 250)
    BY <2>2, StressOrder
  <2> QED
    BY <2>1, <2>3
       DEF StressIsShed, CryptoIsShed, KillChain, Crisis, DeleverageMode, Share
<1>2. CASE OpenDay \/ Overlay \/ BuyPuts \/ HoldPuts \/ Plan \/ TradeNext \/ CapPositions
           \/ Harvest \/ SellCalls \/ CloseDay
  <2>1. pc' # "harvest"
    BY <1>2 DEF OpenDay, Overlay, BuyPuts, HoldPuts, Plan, TradeNext, CapPositions, Harvest,
                SellCalls, CloseDay
  <2> QED
    BY <2>1 DEF StressIsShed, CryptoIsShed
<1> QED
  BY <1>1, <1>2 DEF Next

LEMMA BookStep == BookInv /\ [Next]_vars => BookInv'
<1>1. ASSUME BookInv, Next PROVE BookInv'
  <2>1. /\ BookTypes /\ MoneyIsConserved /\ GatesInv /\ HedgeHeld /\ StressIsShed
        /\ nav \in Int /\ active \in 0..Full
    BY <1>1 DEF BookInv, GatesInv, AresTypeOK
  <2>2. BookTypes' /\ MoneyIsConserved'
    BY <1>1, <2>1, OpenDayBooks, OverlayBooks, BuyPutsBooks, HoldPutsBooks, PlanBooks,
       TradeNextBooks, CapPositionsBooks, TradeCryptoBooks, HarvestBooks, SellCallsBooks,
       CloseDayBooks DEF Next
  <2>3. GatesInv'
    <3>1. CASE OpenDay
      BY <2>1, <3>1, OpenDayBooks, OpenDayIsAresDay, DayKeepsGates
    <3>2. CASE ~OpenDay
      BY <1>1, <2>1, <3>2, RestLeavesGates, GatesStay DEF Next
    <3> QED
      BY <3>1, <3>2
  <2> QED
    BY <1>1, <2>1, <2>2, <2>3, HedgeStep, StressStep DEF BookInv
<1>2. CASE UNCHANGED vars /\ BookInv
  <2>1. GatesInv'
    BY <1>2, GatesStay DEF vars, sentinel, BookInv
  <2>2. BookTypes' /\ MoneyIsConserved' /\ HedgeHeld' /\ StressIsShed'
    BY <1>2 DEF vars, sentinel, ares, market, equity, sleeve, BookInv, BookTypes,
                MoneyIsConserved, Holdings, HedgeHeld, StressIsShed, CryptoIsShed, Crisis,
                DeleverageMode, Share
  <2> QED
    BY <2>1, <2>2 DEF BookInv
<1> QED
  BY <1>1, <1>2

LEMMA BookInvariance == Spec => []BookInv
BY BooksOpen, BookStep, PTL DEF Spec

----------------------------------------------------------------------------
\* No statement of the backtest makes or loses money.
THEOREM BooksConserveMoney == Spec => []MoneyIsConserved
<1>1. BookInv => MoneyIsConserved
  BY DEF BookInv
<1> QED
  BY <1>1, BookInvariance, PTL

\* A held put never reaches its expiry.
THEOREM HedgeIsRolled == Spec => []HedgeNeverExpires
<1>1. BookInv => HedgeNeverExpires
  BY DEF BookInv, HedgeHeld, HedgeNeverExpires
<1> QED
  BY <1>1, BookInvariance, PTL

\* The books keep what the gates promise: immediate cuts, paced recovery, a
\* tranche left below the full ceiling, and exits past their thresholds.
THEOREM BooksKeepGates ==
    Spec => /\ [](KillSwitchIsImmediate /\ RecoveryTakesTime /\ TrancheLeft)
            /\ ExitsAreHysteretic
<1>1. BookInv => KillSwitchIsImmediate /\ RecoveryTakesTime /\ TrancheLeft
  BY DEF BookInv, GatesInv
<1>2. BookInv /\ [Next]_vars => [ExitsHold]_ares
  <2>1. ASSUME BookInv, OpenDay PROVE ExitsHold
    <3>1. GatesInv /\ nav' \in Int /\ AresDay
      BY <2>1, OpenDayBooks, OpenDayIsAresDay DEF BookInv
    <3> QED
      BY <3>1, DayKeepsGates
  <2>2. ASSUME BookInv, Next, ~OpenDay PROVE UNCHANGED ares
    BY <2>2, RestLeavesGates DEF Next
  <2>3. CASE UNCHANGED vars
    BY <2>3 DEF vars, sentinel
  <2> QED
    BY <2>1, <2>2, <2>3
<1> QED
  BY <1>1, <1>2, BookInvariance, PTL DEF Spec, ExitsAreHysteretic, ExitsHold

----------------------------------------------------------------------------
(* ReplayBook: the rebalance, while the account is not overdrawn. How far  *)
(* cash may fall is a matter of what the market asks for puts, and         *)
(* NeverOverdrawn is not inductive; as long as it holds, no value is       *)
(* negative and a rebalance ends within its ceiling.                       *)

EventDay == (RegimeChanged \/ PdsChanged) /\ ~Crisis /\ today.depth >= nav

Solvent ==
    /\ nav \in Nat /\ fund \in Nat /\ coins \in Nat
    /\ eq \in [Tickers -> Nat] /\ gold \in [Harvested -> Nat]
    /\ targets \in [Tickers -> 0..MaxPosition]
    /\ pc \in {"overlay", "hedge", "plan", "trade"} => \A t \in Tickers : eq[t] <= nav

\* What is not to be traded any more is at its target, or too little above it.
TradesFit ==
    pc = "trade" /\ EventDay =>
        /\ Total(targets) <= (CeilingToday * SleeveShare) \div 10
        /\ \A t \in Tickers : \/ eq[t] <= Share(nav, targets[t]) + SmallTrade
                              \/ \E i \in DOMAIN todo : todo[i] = t

RebalanceInv == BookInv /\ Solvent /\ TradesFit /\ WithinCeilingAfterRebalance

LEMMA NatTotals ==
    /\ \A f \in [Tickers -> Nat] : Total(f) \in Nat /\ \A t \in Tickers : f[t] <= Total(f)
    /\ \A f \in [Harvested -> Nat] : Total(f) \in Nat
<1>1. ASSUME NEW f \in [Tickers -> Nat]
      PROVE  Total(f) \in Nat /\ \A t \in Tickers : f[t] <= Total(f)
  <2>1. f \in [Tickers -> Int] /\ \A t \in Tickers : f[t] \in Nat
    OBVIOUS
  <2>2. Total(f) = Sum(f, Tickers)
    BY <2>1, TotalsOfBooks
  <2> QED
    BY <2>1, <2>2, FiniteBooks, SumOfNats
<1>2. ASSUME NEW f \in [Harvested -> Nat] PROVE Total(f) \in Nat
  <2>1. f \in [Harvested -> Int] /\ \A t \in Harvested : f[t] \in Nat
    OBVIOUS
  <2>2. Total(f) = Sum(f, Harvested)
    BY <2>1, TotalsOfBooks
  <2> QED
    BY <2>1, <2>2, FiniteBooks, SumOfNats
<1> QED
  BY <1>1, <1>2

LEMMA NatMoney ==
    /\ \A m, p \in Nat : Share(m, p) \in Nat
    /\ \A v \in Nat, p \in Int : p >= -100 => Moved(v, p) \in Nat
    /\ \A m \in Nat, p \in 0..MaxPosition : Share(m, p) <= m
<1>1. \A m, p \in Nat : Share(m, p) \in Nat
  BY DEF Share
<1>2. ASSUME NEW v \in Nat, NEW p \in Int, p >= -100 PROVE Moved(v, p) \in Nat
  <2>1. v * (100 + p) \in Nat
    BY <1>2
  <2> QED
    BY <2>1 DEF Moved
<1>3. ASSUME NEW m \in Nat, NEW p \in 0..MaxPosition PROVE Share(m, p) <= m
  <2>1. p \in Nat /\ p <= 10000
    BY DEF MaxPosition
  <2>2. m * p \in Nat /\ m * p <= m * 10000
    BY <2>1
  <2> QED
    BY <2>2 DEF Share
<1> QED
  BY <1>1, <1>2, <1>3

\* An order ends between nothing and the target, or is too small to be sent.
LEMMA OrderFits ==
    ASSUME BookTypes, Solvent, NEW t \in Tickers, eq[t] <= nav
    PROVE  /\ eq[t] + OrderFor(t) \in Nat
           /\ eq[t] + OrderFor(t) <= nav
           /\ today.depth >= nav => eq[t] + OrderFor(t) <= Share(nav, targets[t]) + SmallTrade
<1> DEFINE e == eq[t]
           share == Share(nav, targets[t])
           wanted == share - e
           delta == Affordable(wanted)
           limit == today.depth
           small == SmallTrade
<1>1. /\ e \in Nat /\ share \in Nat /\ share <= nav /\ small \in Nat /\ nav \in Nat
      /\ limit \in Nat /\ e <= nav
  <2>1. targets[t] \in 0..MaxPosition /\ targets[t] \in Nat /\ nav \in Nat /\ e \in Nat
    BY DEF Solvent, MaxPosition
  <2>2. MinTradeDrift \in Nat
    BY DEF MinTradeDrift
  <2>3. share \in Nat /\ share <= nav /\ small \in Nat
    BY <2>1, <2>2, NatMoney DEF SmallTrade
  <2>4. limit \in Nat
    BY MarketTypes DEF BookTypes
  <2> QED
    BY <2>1, <2>3, <2>4
<1>2. /\ wanted > 0 => delta \in Nat /\ delta <= wanted
      /\ wanted <= 0 => delta = wanted
  <2>1. cash \in Int /\ MinCash \in Int
    BY <1>1, MoneyTypes DEF BookTypes, MinCash, Share
  <2>2. wanted \in Int
    BY <1>1
  <2> HIDE DEF wanted
  <2> QED
    BY <2>1, <2>2 DEF Affordable, AtLeast
<1>3. OrderFor(t) =
        CASE AbsValue(wanted) < small -> 0
          [] AbsValue(wanted) >= small /\ AbsValue(delta) < small -> 0
          [] AbsValue(delta) >= small /\ AbsValue(delta) > limit ->
                IF delta > 0 THEN limit ELSE -limit
          [] OTHER -> delta
  BY DEF OrderFor
<1> HIDE DEF delta, share, e, limit, small
<1>4. /\ e + OrderFor(t) \in Nat /\ e + OrderFor(t) <= nav
      /\ limit >= nav => e + OrderFor(t) <= share + small
  <2>1. CASE wanted > 0
    <3>1. AbsValue(wanted) = share - e /\ AbsValue(delta) = delta
      BY <1>1, <1>2, <2>1 DEF AbsValue
    <3>2. OrderFor(t) \in {0, limit, delta} /\ OrderFor(t) <= wanted /\ OrderFor(t) \in Nat
      BY <1>1, <1>2, <1>3, <2>1, <3>1
    <3> QED
      BY <1>1, <3>2
  <2>2. CASE wanted <= 0
    <3>1. AbsValue(wanted) = e - share /\ AbsValue(delta) = e - share /\ delta = share - e
      BY <1>1, <1>2, <2>2 DEF AbsValue
    <3>2. CASE e - share < small
      BY <1>1, <1>3, <3>1, <3>2
    <3>3. CASE e - share >= small /\ e - share > limit
      <4>1. OrderFor(t) = -limit
        BY <1>1, <1>3, <3>1, <3>3
      <4> QED
        BY <1>1, <3>3, <4>1
    <3>4. CASE e - share >= small /\ ~(e - share > limit)
      <4>1. OrderFor(t) = share - e
        BY <1>1, <1>3, <3>1, <3>4
      <4> QED
        BY <1>1, <4>1
    <3> QED
      BY <1>1, <3>2, <3>3, <3>4
  <2> QED
    BY <1>1, <2>1, <2>2
<1> QED
  BY <1>4 DEF e, share, limit, small

\* Shares of the NAV add up to no more than the share of the sum.
LEMMA SharesAddUp ==
    ASSUME NEW w \in [Tickers -> Nat], NEW n \in Nat, NEW limit \in Nat, Total(w) <= limit
    PROVE  Sum([t \in Tickers |-> Share(n, w[t])], Tickers) <= Share(n, limit)
<1> DEFINE s == [t \in Tickers |-> Share(n, w[t])]
           g == [t \in Tickers |-> 10000 * s[t]]
           h == [t \in Tickers |-> n * w[t]]
<1>1. \A t \in Tickers : /\ w[t] \in Nat /\ s[t] \in Nat /\ s[t] = (n * w[t]) \div 10000
                         /\ g[t] = 10000 * s[t] /\ h[t] = n * w[t]
  <2>1. \A t \in Tickers : w[t] \in Nat /\ Share(n, w[t]) \in Nat
    BY NatMoney
  <2>2. \A t \in Tickers : Share(n, w[t]) = (n * w[t]) \div 10000
    BY DEF Share
  <2> QED
    BY <2>1, <2>2
<1> HIDE DEF s, g, h
<1>2. \A t \in Tickers : /\ w[t] \in Int /\ s[t] \in Int
                         /\ g[t] \in Int /\ h[t] \in Int /\ g[t] <= h[t] + 0
  <2> SUFFICES ASSUME NEW t \in Tickers
               PROVE  /\ w[t] \in Int /\ s[t] \in Int
                      /\ g[t] \in Int /\ h[t] \in Int /\ g[t] <= h[t] + 0
    OBVIOUS
  <2> DEFINE x == n * w[t]
  <2>1. x \in Nat /\ s[t] = x \div 10000
    BY <1>1
  <2>2. h[t] = x
    BY <1>1
  <2> HIDE DEF x
  <2>3. 10000 * (x \div 10000) <= x
    BY <2>1
  <2> QED
    BY <1>1, <2>1, <2>2, <2>3
<1>3. /\ Sum(g, Tickers) = 10000 * Sum(s, Tickers)
      /\ Sum(h, Tickers) = n * Sum(w, Tickers)
  <2>1. \A t \in Tickers : s[t] \in Int /\ g[t] = 10000 * s[t]
    BY <1>1
  <2>2. \A t \in Tickers : w[t] \in Int /\ h[t] = n * w[t]
    BY <1>1
  <2>3. 10000 \in Int /\ n \in Int
    OBVIOUS
  <2>4. Sum(g, Tickers) = 10000 * Sum(s, Tickers)
    BY <2>1, <2>3, FiniteBooks, SumScales
  <2>5. Sum(h, Tickers) = n * Sum(w, Tickers)
    BY <2>2, <2>3, FiniteBooks, SumScales
  <2> QED
    BY <2>4, <2>5
<1>4. Sum(g, Tickers) <= Sum(h, Tickers) + Cardinality(Tickers) * 0
  BY <1>2, FiniteBooks, SumsWithin
<1>5. Cardinality(Tickers) \in Nat
  BY FiniteBooks, FS_CardinalityType
<1>6. Total(w) = Sum(w, Tickers) /\ Total(w) \in Nat
  <2>1. w \in [Tickers -> Int]
    OBVIOUS
  <2> QED
    BY <2>1, TotalsOfBooks, NatTotals
<1>7. Sum(s, Tickers) \in Int
  BY <1>2, FiniteBooks, SumPicks
<1>8. n * Total(w) \in Int /\ n * limit \in Int /\ n * Total(w) <= n * limit
  BY <1>6
<1>9. 10000 * Sum(s, Tickers) <= n * limit
  BY <1>3, <1>4, <1>5, <1>6, <1>7, <1>8
<1>10. Sum(s, Tickers) <= (n * limit) \div 10000
  BY <1>7, <1>8, <1>9
<1> QED
  BY <1>10 DEF s, Share

LEMMA SolventOpens == Init => Solvent /\ TradesFit /\ WithinCeilingAfterRebalance
<1> SUFFICES ASSUME Init PROVE Solvent /\ TradesFit /\ WithinCeilingAfterRebalance
  OBVIOUS
<1>1. nav = 10000 /\ fund = 700 /\ coins = 2000 /\ pc = "open"
  BY DEF Init, Capital
<1>2. eq \in [Tickers -> Nat]
  <2> DEFINE w == TargetWeights(mics, [u \in Tickers |-> 0], Full)
  <2>1. w \in [Tickers -> 0..MaxPosition]
    BY WeightsFit DEF Init, Full
  <2>2. eq = [t \in Tickers |-> Share(Capital, w[t])]
    BY DEF Init
  <2> HIDE DEF w
  <2>3. \A t \in Tickers : w[t] \in Nat
    BY <2>1 DEF MaxPosition
  <2>4. \A t \in Tickers : Share(Capital, w[t]) \in Nat
    <3>1. Capital \in Nat
      BY DEF Capital
    <3> QED
      BY <2>3, <3>1, NatMoney
  <2> QED
    BY <2>2, <2>4
<1>3. gold \in [Harvested -> Nat]
  BY DEF Init
<1>4. targets \in [Tickers -> 0..MaxPosition]
  BY DEF Init, MaxPosition
<1> QED
  BY <1>1, <1>2, <1>3, <1>4 DEF Solvent, TradesFit, WithinCeilingAfterRebalance

\* The market leaves every value at nothing or more, and none above the NAV.
LEMMA OpenDaySolvent ==
    ASSUME BookTypes, Solvent, cash \in Nat, OpenDay
    PROVE  Solvent' /\ pc' = "overlay"
<1>1. PICK s \in Sessions :
        /\ eq' = [t \in Tickers |-> Moved(eq[t], s.stocks[t])]
        /\ gold' = [g \in Harvested |-> Moved(gold[g], s.sleeve[g])]
        /\ fund' = Moved(fund, s.fund)
        /\ coins' = Moved(coins, s.coin)
        /\ nav' = Total(eq') + Total(gold') + fund' + coins' + cash + Leverage(Total(eq'), slof)
  BY DEF OpenDay
<1>2. targets' = targets /\ pc' = "overlay"
  BY DEF OpenDay
<1>3. /\ \A t \in Tickers : s.stocks[t] \in Int /\ s.stocks[t] >= -100
      /\ \A g \in Harvested : s.sleeve[g] \in Int /\ s.sleeve[g] >= -100
      /\ s.coin \in Int /\ s.coin >= -100 /\ s.fund \in Int /\ s.fund >= -100
  BY ReplayAssumption DEF MarketDay
<1>4. /\ \A t \in Tickers : eq[t] \in Nat
      /\ \A g \in Harvested : gold[g] \in Nat
      /\ coins \in Nat /\ fund \in Nat
  BY DEF Solvent
<1>5. /\ eq' \in [Tickers -> Nat] /\ gold' \in [Harvested -> Nat] /\ coins' \in Nat
      /\ fund' \in Nat
  <2>1. \A t \in Tickers : Moved(eq[t], s.stocks[t]) \in Nat
    BY <1>3, <1>4, NatMoney
  <2>2. \A g \in Harvested : Moved(gold[g], s.sleeve[g]) \in Nat
    BY <1>3, <1>4, NatMoney
  <2>3. Moved(coins, s.coin) \in Nat /\ Moved(fund, s.fund) \in Nat
    BY <1>3, <1>4, NatMoney
  <2> QED
    BY <1>1, <2>1, <2>2, <2>3
<1>6. /\ Total(eq') \in Nat /\ \A t \in Tickers : eq'[t] <= Total(eq') /\ eq'[t] \in Nat
      /\ Total(gold') \in Nat
  BY <1>5, NatTotals
<1>7. Leverage(Total(eq'), slof) \in Nat
  <2>1. slof \in {10000, 11875, 12500}
    BY DEF BookTypes
  <2>2. (slof - 10000) \in Nat
    BY <2>1
  <2>3. Total(eq') * (slof - 10000) \in Nat
    BY <1>6, <2>2
  <2> QED
    BY <2>3 DEF Leverage
<1>8. nav' \in Nat /\ nav' >= Total(eq')
  BY <1>1, <1>4, <1>5, <1>6, <1>7
<1>9. \A t \in Tickers : eq'[t] <= nav'
  BY <1>6, <1>8
<1> QED
  BY <1>2, <1>4, <1>5, <1>8, <1>9 DEF Solvent

\* Statements that leave equities, sleeve and coins as they are.
LEMMA IdleSolvent ==
    ASSUME Solvent, Overlay \/ BuyPuts \/ HoldPuts \/ SellCalls \/ CloseDay
    PROVE  Solvent' /\ pc' \in {"hedge", "plan", "close", "open"}
<1>1. UNCHANGED <<nav, fund, coins, eq, gold, targets>>
  BY DEF Overlay, BuyPuts, HoldPuts, SellCalls, CloseDay, sentinel, ares, equity, sleeve
<1>2. /\ pc' \in {"hedge", "plan", "close", "open"}
      /\ pc' \in {"hedge", "plan"} => pc \in {"overlay", "hedge"}
  BY DEF Overlay, BuyPuts, HoldPuts, SellCalls, CloseDay
<1> QED
  BY <1>1, <1>2 DEF Solvent

\* The plan of an event names every ticker, and targets within the ceiling.
LEMMA PlanFits ==
    ASSUME BookTypes, Solvent, active \in 0..Full, Plan
    PROVE  Solvent' /\ TradesFit' /\ pc' = "trade"
<1> DEFINE w == TargetWeights(mics, lag, CeilingToday)
<1>1. /\ pc = "plan" /\ pc' = "trade" /\ targets' = AiCapped(w)
      /\ UNCHANGED <<nav, fund, coins, eq, gold, today, lastStatus, lastRegime, status,
                     slof, active>>
  BY DEF Plan, sentinel, ares, equity, sleeve, market
<1>2. CeilingToday \in Nat /\ mics \in Convictions
  <2>1. CeilingToday \in 0..Full
    BY CeilingType
  <2> QED
    BY <2>1 DEF BookTypes, Full
<1>3. /\ w \in [Tickers -> 0..MaxPosition]
      /\ Total(w) <= (CeilingToday * SleeveShare) \div 10
  BY <1>2, WeightsFit
<1> HIDE DEF w
<1>4. targets' \in [Tickers -> 0..MaxPosition] /\ \A t \in Tickers : targets'[t] <= w[t]
  BY <1>1, <1>3, AiCapFits
<1>5. Solvent'
  BY <1>1, <1>4 DEF Solvent
<1>6. Total(targets') <= (CeilingToday * SleeveShare) \div 10
  <2>0. \A n \in 0..MaxPosition : n \in Int
    BY DEF MaxPosition
  <2>1. /\ \A t \in Tickers : w[t] \in Int /\ targets'[t] \in Int
        /\ w \in [Tickers -> Int] /\ targets' \in [Tickers -> Int]
    BY <1>3, <1>4, <2>0
  <2>2. /\ Total(w) = Sum(w, Tickers) /\ Total(w) \in Int
        /\ Total(targets') = Sum(targets', Tickers) /\ Total(targets') \in Int
    BY <2>1, TotalsOfBooks
  <2>3. \A t \in Tickers : w[t] \in Int /\ targets'[t] \in Int /\ targets'[t] <= w[t] + 0
    BY <1>4, <2>1
  <2>4. Sum(targets', Tickers) <= Sum(w, Tickers) + Cardinality(Tickers) * 0
    BY <2>3, FiniteBooks, SumsWithin
  <2>5. Cardinality(Tickers) \in Nat
    BY FiniteBooks, FS_CardinalityType
  <2>6. (CeilingToday * SleeveShare) \div 10 \in Int
    BY <1>2 DEF SleeveShare
  <2> QED
    BY <1>3, <2>2, <2>4, <2>5, <2>6
<1>7. CeilingToday' = CeilingToday
  BY <1>1 DEF CeilingToday
<1>8. EventDay' => \A t \in Tickers : \E i \in DOMAIN todo' : todo'[i] = t
  <2>1. EventDay' => (RegimeChanged \/ PdsChanged) /\ ~Crisis
    BY <1>1 DEF EventDay, RegimeChanged, PdsChanged, Crisis
  <2>2. (RegimeChanged \/ PdsChanged) /\ ~Crisis => todo' = ByBeta \/ todo' = Equities
    BY DEF Plan
  <2>3. \A t \in Tickers : \E i \in DOMAIN ByBeta : ByBeta[i] = t
    BY ReplayAssumption
  <2>4. \A t \in Tickers : \E i \in DOMAIN Equities : Equities[i] = t
    BY DEF Tickers
  <2> QED
    BY <2>1, <2>2, <2>3, <2>4
<1>9. TradesFit'
  BY <1>6, <1>7, <1>8 DEF TradesFit
<1> QED
  BY <1>1, <1>5, <1>9

LEMMA TradeNextFits ==
    ASSUME BookTypes, Solvent, TradesFit, TradeNext
    PROVE  Solvent' /\ TradesFit' /\ pc' = "trade"
<1> DEFINE t == Head(todo)
           delta == OrderFor(t)
<1>1. /\ pc = "trade" /\ pc' = "trade" /\ todo # <<>> /\ todo' = Tail(todo)
      /\ UNCHANGED <<nav, fund, coins, gold, targets, today, lastStatus, lastRegime, status,
                     slof, active>>
  BY DEF TradeNext, sentinel, ares, sleeve, market
<1>2. todo \in Seq(Tickers) /\ t \in Tickers /\ eq \in [Tickers -> Nat]
  BY <1>1 DEF BookTypes, Solvent
<1>3. eq' = [eq EXCEPT ![t] = eq[t] + delta]
  BY DEF TradeNext
<1>4. \A x \in Tickers : eq[x] <= nav
  BY <1>1 DEF Solvent
<1>5. /\ eq[t] + delta \in Nat /\ eq[t] + delta <= nav
      /\ today.depth >= nav => eq[t] + delta <= Share(nav, targets[t]) + SmallTrade
  BY <1>2, <1>4, OrderFits
<1> HIDE DEF t, delta
<1>6. /\ eq' \in [Tickers -> Nat] /\ eq'[t] = eq[t] + delta
      /\ \A x \in Tickers : x # t => eq'[x] = eq[x]
  BY <1>2, <1>3, <1>5
<1>7. \A x \in Tickers : eq'[x] <= nav
  BY <1>4, <1>5, <1>6
<1>8. Solvent'
  BY <1>1, <1>6, <1>7 DEF Solvent
<1>9. CeilingToday' = CeilingToday /\ SmallTrade' = SmallTrade /\ (EventDay' <=> EventDay)
  BY <1>1 DEF CeilingToday, SmallTrade, Share, EventDay, RegimeChanged, PdsChanged, Crisis
<1>10. ASSUME EventDay, NEW x \in Tickers
       PROVE  \/ eq'[x] <= Share(nav, targets[x]) + SmallTrade
              \/ \E i \in DOMAIN todo' : todo'[i] = x
  <2>1. CASE x = t
    BY <1>5, <1>6, <1>10, <2>1 DEF EventDay
  <2>2. CASE x # t
    <3>1. \/ eq[x] <= Share(nav, targets[x]) + SmallTrade
          \/ \E i \in DOMAIN todo : todo[i] = x
      BY <1>1, <1>10 DEF TradesFit
    <3>2. CASE \E i \in DOMAIN todo : todo[i] = x
      <4>1. PICK i \in DOMAIN todo : todo[i] = x
        BY <3>2
      <4>2. i \in 1..Len(todo) /\ i # 1
        BY <1>2, <2>2, <4>1 DEF t
      <4>3. i - 1 \in DOMAIN todo' /\ todo'[i - 1] = todo[i]
        BY <1>1, <1>2, <4>2
      <4> QED
        BY <4>1, <4>3
    <3> QED
      BY <1>6, <2>2, <3>1, <3>2
  <2> QED
    BY <2>1, <2>2
<1>11. TradesFit'
  <2>1. EventDay => Total(targets) <= (CeilingToday * SleeveShare) \div 10
    BY <1>1 DEF TradesFit
  <2>2. Total(targets') = Total(targets) /\ nav' = nav /\ targets' = targets
    BY <1>1
  <2>3. EventDay => \A x \in Tickers : \/ eq'[x] <= Share(nav, targets[x]) + SmallTrade
                                       \/ \E i \in DOMAIN todo' : todo'[i] = x
    BY <1>10
  <2> QED
    BY <1>9, <2>1, <2>2, <2>3 DEF TradesFit
<1> QED
  BY <1>1, <1>8, <1>11

\* The caps take from what the trades have left, and the sum is within.
LEMMA CapPositionsFit ==
    ASSUME BookTypes, Solvent, TradesFit, active \in 0..Full, CapPositions
    PROVE  Solvent' /\ WithinCeilingAfterRebalance' /\ pc' = "crypto"
<1> DEFINE excess == [t \in Tickers |-> IF Crisis THEN 0
                                        ELSE AtLeast(eq[t] - Share(nav, MaxPosition), 0)]
<1>1. /\ pc = "trade" /\ pc' = "crypto" /\ todo = <<>>
      /\ UNCHANGED <<nav, fund, coins, gold, targets, today, lastStatus, lastRegime, status,
                     slof, active>>
  BY DEF CapPositions, sentinel, ares, sleeve, market
<1>2. eq' = [t \in Tickers |-> eq[t] - excess[t]]
  BY DEF CapPositions
<1>3. nav \in Nat /\ eq \in [Tickers -> Nat] /\ targets \in [Tickers -> Nat]
  <2>1. targets \in [Tickers -> 0..MaxPosition] /\ \A n \in 0..MaxPosition : n \in Nat
    BY DEF Solvent, MaxPosition
  <2>2. targets \in [Tickers -> Nat]
    BY <2>1
  <2> QED
    BY <2>2 DEF Solvent
<1>4. Share(nav, MaxPosition) \in Nat
  <2>1. MaxPosition \in Nat
    BY DEF MaxPosition
  <2> QED
    BY <1>3, <2>1, NatMoney
<1>5. \A t \in Tickers : excess[t] \in Nat /\ excess[t] <= eq[t]
  BY <1>3, <1>4 DEF AtLeast
<1> HIDE DEF excess
<1>6. /\ eq' \in [Tickers -> Nat]
      /\ \A t \in Tickers : eq'[t] \in Nat /\ eq'[t] <= eq[t]
  BY <1>2, <1>3, <1>5
<1>7. Solvent'
  BY <1>1, <1>6 DEF Solvent
<1>8. ASSUME EventDay
      PROVE  Total(eq') <= Share(nav, (CeilingToday * SleeveShare) \div 10)
                           + Cardinality(Tickers) * SmallTrade
  <2> DEFINE limit == (CeilingToday * SleeveShare) \div 10
             s == [t \in Tickers |-> Share(nav, targets[t])]
  <2>1. /\ Total(targets) <= limit
        /\ \A t \in Tickers : \/ eq[t] <= Share(nav, targets[t]) + SmallTrade
                              \/ \E i \in DOMAIN todo : todo[i] = t
    BY <1>1, <1>8 DEF TradesFit
  <2>2. limit \in Nat
    <3>1. CeilingToday \in 0..Full
      BY CeilingType
    <3>2. CeilingToday \in Nat
      BY <3>1 DEF Full
    <3> QED
      BY <3>2 DEF SleeveShare
  <2> HIDE DEF limit
  <2>3. SmallTrade \in Nat /\ SmallTrade \in Int
    <3>1. MinTradeDrift \in Nat
      BY DEF MinTradeDrift
    <3>2. Share(nav, MinTradeDrift) \in Nat
      BY <1>3, <3>1, NatMoney
    <3> QED
      BY <3>2 DEF SmallTrade
  <2>4. Sum(s, Tickers) <= Share(nav, limit)
    BY <1>3, <2>1, <2>2, SharesAddUp
  <2>5. \A t \in Tickers : s[t] \in Nat /\ s[t] = Share(nav, targets[t])
    BY <1>3, NatMoney
  <2> HIDE DEF s
  <2>6. \A t \in Tickers : eq'[t] \in Int /\ s[t] \in Int /\ eq'[t] <= s[t] + SmallTrade
    <3>1. DOMAIN todo = {}
      BY <1>1
    <3>2. \A t \in Tickers : eq[t] <= s[t] + SmallTrade /\ eq[t] \in Nat
      BY <1>3, <2>1, <2>5, <3>1
    <3> QED
      BY <1>6, <2>3, <2>5, <3>2
  <2>7. Sum(eq', Tickers) <= Sum(s, Tickers) + Cardinality(Tickers) * SmallTrade
    BY <2>3, <2>6, FiniteBooks, SumsWithin
  <2>8. Total(eq') = Sum(eq', Tickers) /\ Total(eq') \in Int
    <3>1. eq' \in [Tickers -> Int]
      BY <1>6
    <3> QED
      BY <3>1, TotalsOfBooks
  <2>9. Sum(s, Tickers) \in Int
    BY <2>6, FiniteBooks, SumPicks
  <2>10. Cardinality(Tickers) * SmallTrade \in Int
    <3>1. Cardinality(Tickers) \in Nat
      BY FiniteBooks, FS_CardinalityType
    <3> QED
      BY <2>3, <3>1
  <2>11. Share(nav, limit) \in Int
    BY <1>3, <2>2, NatMoney
  <2> QED
    BY <2>4, <2>7, <2>8, <2>9, <2>10, <2>11 DEF limit
<1>9. CeilingToday' = CeilingToday /\ SmallTrade' = SmallTrade /\ (EventDay' <=> EventDay)
  BY <1>1 DEF CeilingToday, SmallTrade, Share, EventDay, RegimeChanged, PdsChanged, Crisis
<1>10. WithinCeilingAfterRebalance' <=>
        (EventDay' => Total(eq') <= Share(nav', (CeilingToday' * SleeveShare) \div 10)
                                    + Cardinality(Tickers) * SmallTrade')
  BY <1>1 DEF WithinCeilingAfterRebalance, CeilingToday, EventDay
<1> QED
  BY <1>1, <1>7, <1>8, <1>9, <1>10

LEMMA TradeCryptoSolvent ==
    ASSUME BookTypes, Solvent, TradeCrypto
    PROVE  Solvent' /\ pc' = "harvest"
<1>1. /\ pc' = "harvest" /\ UNCHANGED <<nav, fund, eq, gold, targets>>
  BY DEF TradeCrypto, sentinel, ares, equity, sleeve
<1>2. coins' = coins + CryptoOrder \/ coins' = coins + 0
  BY DEF TradeCrypto
<1>3. coins \in Nat /\ nav \in Nat /\ cash \in Int
  BY DEF BookTypes, Solvent
<1>4. CryptoTarget \in Nat /\ MinCash \in Nat
  <2>1. \A p \in Nat : Share(nav, p) \in Nat
    BY <1>3, NatMoney
  <2>2. Share(nav, 200) \in Nat /\ Share(nav, 400) \in Nat /\ Share(nav, 2000) \in Nat
    BY <2>1
  <2> QED
    BY <2>2 DEF CryptoTarget, MinCash
<1>5. coins + CryptoOrder \in Nat
  <2> DEFINE wanted == CryptoTarget - coins
             delta == Affordable(wanted)
  <2>1. CryptoOrder \in {delta, 0}
    BY DEF CryptoOrder
  <2>2. wanted \in Int /\ coins + wanted = CryptoTarget
    BY <1>3, <1>4
  <2> HIDE DEF wanted
  <2>3. delta = wanted \/ delta \in Nat
    BY <1>3, <1>4, <2>2 DEF Affordable, AtLeast
  <2> HIDE DEF delta
  <2> QED
    BY <1>3, <1>4, <2>1, <2>2, <2>3
<1>6. coins' \in Nat
  BY <1>2, <1>3, <1>5
<1> QED
  BY <1>1, <1>6 DEF Solvent

LEMMA HarvestSolvent ==
    ASSUME BookTypes, Solvent, Harvest
    PROVE  Solvent' /\ pc' = "calls"
<1> DEFINE trims == [g \in Harvested |-> TrimOf(g)]
           amount == Total(trims)
<1>1. /\ pc' = "calls" /\ UNCHANGED <<nav, coins, eq, targets>>
      /\ gold' = [g \in Harvested |-> gold[g] - trims[g]]
      /\ fund' = fund + amount \/ fund' = fund
  BY DEF Harvest, Proceeds, sentinel, ares, equity
<1>2. nav \in Nat /\ fund \in Nat /\ gold \in [Harvested -> Nat]
  BY DEF Solvent
<1>3. \A g \in Harvested : trims[g] \in Nat /\ trims[g] <= gold[g]
  <2>1. \A p \in {200, 500} : Share(nav, p) \in Nat
    BY <1>2, NatMoney
  <2>2. \A g \in Harvested : HarvestTarget(g) \in Nat
    BY <2>1 DEF HarvestTarget
  <2>3. \A g \in Harvested : /\ AtLeast(gold[g] - HarvestTarget(g), 0) \in Nat
                             /\ AtLeast(gold[g] - HarvestTarget(g), 0) <= gold[g]
    BY <1>2, <2>2 DEF AtLeast
  <2>4. \A g \in Harvested : TrimOf(g) \in Nat /\ TrimOf(g) <= gold[g]
    BY <1>2, <2>3 DEF TrimOf
  <2> QED
    BY <2>4
<1>4. trims \in [Harvested -> Nat]
  BY <1>3
<1> HIDE DEF trims
<1>5. amount \in Nat
  BY <1>4, NatTotals
<1>6. gold' \in [Harvested -> Nat]
  BY <1>1, <1>2, <1>3
<1>7. fund' \in Nat
  BY <1>1, <1>2, <1>5
<1> QED
  BY <1>1, <1>2, <1>6, <1>7 DEF Solvent

LEMMA RebalanceStep ==
    RebalanceInv /\ NeverOverdrawn /\ BookInv' /\ [Next]_vars => RebalanceInv'
<1>1. ASSUME RebalanceInv, NeverOverdrawn, BookInv', Next PROVE RebalanceInv'
  <2>1. /\ BookTypes /\ Solvent /\ TradesFit /\ active \in 0..Full
    BY <1>1 DEF RebalanceInv, BookInv, GatesInv, AresTypeOK
  <2>2. cash \in Nat
    BY <1>1, <2>1 DEF BookTypes, NeverOverdrawn
  <2>3. pc' # "trade" => TradesFit'
    BY DEF TradesFit
  <2>4. pc' # "crypto" => WithinCeilingAfterRebalance'
    BY DEF WithinCeilingAfterRebalance
  <2>5. Solvent' /\ TradesFit' /\ WithinCeilingAfterRebalance'
    <3>1. CASE OpenDay
      BY <2>1, <2>2, <2>3, <2>4, <3>1, OpenDaySolvent
    <3>2. CASE Overlay \/ BuyPuts \/ HoldPuts \/ SellCalls \/ CloseDay
      BY <2>1, <2>3, <2>4, <3>2, IdleSolvent
    <3>3. CASE Plan
      BY <2>1, <2>4, <3>3, PlanFits
    <3>4. CASE TradeNext
      BY <2>1, <2>4, <3>4, TradeNextFits
    <3>5. CASE CapPositions
      BY <2>1, <2>3, <3>5, CapPositionsFit
    <3>6. CASE TradeCrypto
      BY <2>1, <2>3, <2>4, <3>6, TradeCryptoSolvent
    <3>7. CASE Harvest
      BY <2>1, <2>3, <2>4, <3>7, HarvestSolvent
    <3> QED
      BY <1>1, <3>1, <3>2, <3>3, <3>4, <3>5, <3>6, <3>7 DEF Next
  <2> QED
    BY <1>1, <2>5 DEF RebalanceInv
<1>2. ASSUME RebalanceInv, BookInv', UNCHANGED vars PROVE RebalanceInv'
  <2>1. Solvent' /\ TradesFit' /\ WithinCeilingAfterRebalance'
    BY <1>2 DEF RebalanceInv, vars, sentinel, ares, market, equity, sleeve, Solvent, TradesFit,
       WithinCeilingAfterRebalance, EventDay, RegimeChanged, PdsChanged, Crisis, CeilingToday,
       SmallTrade, Share
  <2> QED
    BY <1>2, <2>1 DEF RebalanceInv
<1> QED
  BY <1>1, <1>2

----------------------------------------------------------------------------
(* Cash. Every purchase of the loop but that of puts stops at a floor which *)
(* is wider than any slippage.                                             *)

\* Slippage is half a percent of what is traded at most.
LEMMA SlipFits ==
    ASSUME NEW d \in Int, nav \in Nat
    PROVE  /\ Slip(d) \in Nat /\ Slip(d) <= AbsValue(d)
           /\ AbsValue(d) <= nav => Slip(d) <= MinCash
<1> DEFINE a == AbsValue(d)
<1>1. a \in Nat
  BY DEF AbsValue
<1>2. \E p \in {5, 25, 50} : Slip(d) = (a * p) \div 10000
  BY DEF Slip, Share
<1>3. MinCash = (nav * 400) \div 10000
  BY DEF MinCash, Share
<1> HIDE DEF a
<1>4. PICK p \in {5, 25, 50} : Slip(d) = (a * p) \div 10000
  BY <1>2
<1>5. /\ (a * p) \div 10000 \in Nat /\ (a * p) \div 10000 <= a
      /\ a <= nav => (a * p) \div 10000 <= (nav * 400) \div 10000
  BY <1>1
<1> QED
  BY <1>3, <1>4, <1>5 DEF a

\* What is left of cash after a trade: of a sale more than there was, of a
\* purchase within the NAV that leaves the floor, something.
LEMMA SettledFits ==
    ASSUME BookTypes, nav \in Nat, cash \in Nat, NEW d \in Int,
           d > 0 => d <= nav /\ cash - d >= MinCash
    PROVE  Settled(d) \in Nat
<1>1. Slip(d) \in Nat /\ Slip(d) <= AbsValue(d) /\ (AbsValue(d) <= nav => Slip(d) <= MinCash)
  BY SlipFits
<1>2. MinCash \in Nat
  BY DEF MinCash, Share
<1> QED
  BY <1>1, <1>2 DEF Settled, AbsValue

\* What can be afforded leaves the floor.
LEMMA AffordableLeaves ==
    ASSUME cash \in Nat, nav \in Nat, NEW w \in Int
    PROVE  /\ Affordable(w) \in Int
           /\ Affordable(w) > 0 => cash - Affordable(w) >= MinCash /\ Affordable(w) <= w
<1>1. MinCash \in Nat
  BY DEF MinCash, Share
<1> QED
  BY <1>1 DEF Affordable, AtLeast

LEMMA TradeNextPaid ==
    ASSUME BookTypes, Solvent, cash \in Nat, TradeNext
    PROVE  cash' \in Nat
<1> DEFINE t == Head(todo)
           w == Share(nav, targets[t]) - eq[t]
           delta == Affordable(w)
           limit == today.depth
           small == SmallTrade
<1>1. t \in Tickers /\ pc = "trade" /\ cash' = Settled(OrderFor(t))
  BY DEF TradeNext, BookTypes
<1>2. nav \in Nat /\ eq[t] \in Nat /\ eq[t] <= nav
  BY <1>1 DEF Solvent
<1>3. eq[t] + OrderFor(t) \in Nat /\ eq[t] + OrderFor(t) <= nav
  BY <1>1, <1>2, OrderFits
<1>4. limit \in Nat /\ small \in Int /\ Share(nav, targets[t]) \in Int
  <2>1. limit \in Nat
    BY MarketTypes DEF BookTypes
  <2>2. small \in Int
    BY <1>2, MoneyTypes DEF SmallTrade, MinTradeDrift
  <2>3. targets[t] \in Int /\ nav \in Int
    BY <1>1, <1>2 DEF BookTypes
  <2>4. Share(nav, targets[t]) \in Int
    BY <2>3, MoneyTypes
  <2> QED
    BY <2>1, <2>2, <2>4
<1>5. w \in Int
  BY <1>2, <1>4
<1>6. OrderFor(t) =
        CASE AbsValue(w) < small -> 0
          [] AbsValue(w) >= small /\ AbsValue(delta) < small -> 0
          [] AbsValue(delta) >= small /\ AbsValue(delta) > limit ->
                IF delta > 0 THEN limit ELSE -limit
          [] OTHER -> delta
  BY DEF OrderFor
<1> HIDE DEF w
<1>7. delta \in Int /\ (delta > 0 => cash - delta >= MinCash)
  BY <1>2, <1>5, AffordableLeaves
<1> HIDE DEF t, delta, limit, small
<1>8. OrderFor(t) \in Int /\ (OrderFor(t) > 0 => delta > 0 /\ OrderFor(t) <= delta)
  <2>1. AbsValue(delta) = IF delta < 0 THEN -delta ELSE delta
    BY DEF AbsValue
  <2>2. AbsValue(w) \in Int
    BY <1>5 DEF AbsValue
  <2> QED
    BY <1>4, <1>6, <1>7, <2>1, <2>2
<1>9. MinCash \in Int /\ cash \in Int
  BY <1>2, MoneyTypes DEF MinCash
<1>10. OrderFor(t) > 0 => OrderFor(t) <= nav /\ cash - OrderFor(t) >= MinCash
  BY <1>2, <1>3, <1>7, <1>8, <1>9
<1> QED
  BY <1>1, <1>2, <1>8, <1>10, SettledFits

LEMMA CapPositionsPaid ==
    ASSUME BookTypes, Solvent, cash \in Nat, CapPositions
    PROVE  cash' \in Nat
<1> DEFINE excess == [t \in Tickers |-> IF Crisis THEN 0
                                        ELSE AtLeast(eq[t] - Share(nav, MaxPosition), 0)]
           slips == [t \in Tickers |-> Slip(excess[t])]
<1>1. cash' = cash + Total(excess) - Total(slips)
  BY DEF CapPositions
<1>2. nav \in Nat /\ \A t \in Tickers : eq[t] \in Nat
  BY DEF Solvent
<1>3. Share(nav, MaxPosition) \in Int
  BY <1>2, MoneyTypes DEF MaxPosition
<1>4. excess \in [Tickers -> Nat]
  BY <1>2, <1>3 DEF AtLeast
<1> HIDE DEF excess
<1>5. \A t \in Tickers : /\ excess[t] \in Nat /\ slips[t] = Slip(excess[t])
                         /\ AbsValue(excess[t]) = excess[t]
  BY <1>4 DEF AbsValue
<1>6. slips \in [Tickers -> Nat] /\ \A t \in Tickers : slips[t] <= excess[t]
  <2>1. \A t \in Tickers : Slip(excess[t]) \in Nat /\ Slip(excess[t]) <= excess[t]
    <3>1. \A t \in Tickers : excess[t] \in Int
      BY <1>5
    <3> QED
      BY <1>2, <1>5, <3>1, SlipFits
  <2> QED
    BY <2>1
<1> HIDE DEF slips
<1>7. /\ Total(excess) = Sum(excess, Tickers) /\ Total(slips) = Sum(slips, Tickers)
      /\ Total(excess) \in Int /\ Total(slips) \in Int
  <2>1. excess \in [Tickers -> Int] /\ slips \in [Tickers -> Int]
    BY <1>4, <1>6
  <2> QED
    BY <2>1, TotalsOfBooks
<1>8. Total(slips) <= Total(excess)
  <2>1. \A t \in Tickers : slips[t] \in Int /\ excess[t] \in Int /\ slips[t] <= excess[t]
    BY <1>5, <1>6
  <2>2. Sum(slips, Tickers) <= Sum(excess, Tickers)
    BY <2>1, FiniteBooks, SumsOrdered
  <2> QED
    BY <1>7, <2>2
<1> QED
  BY <1>1, <1>7, <1>8

LEMMA TradeCryptoPaid ==
    ASSUME BookTypes, Solvent, cash \in Nat, TradeCrypto
    PROVE  cash' \in Nat
<1> DEFINE w == CryptoTarget - coins
           delta == Affordable(w)
<1>1. cash' = Settled(CryptoOrder) \/ cash' = Settled(0)
  BY DEF TradeCrypto
<1>2. nav \in Nat /\ coins \in Nat
  BY DEF Solvent
<1>3. CryptoTarget \in Nat /\ CryptoTarget <= nav
  <2>1. /\ Share(nav, 200) \in Nat /\ Share(nav, 2000) \in Nat
        /\ Share(nav, 200) <= nav /\ Share(nav, 2000) <= nav
    BY <1>2 DEF Share
  <2> QED
    BY <2>1 DEF CryptoTarget
<1>4. w \in Int /\ w <= nav
  BY <1>2, <1>3
<1>5. CryptoOrder \in {delta, 0}
  BY DEF CryptoOrder
<1> HIDE DEF w
<1>6. delta \in Int /\ (delta > 0 => cash - delta >= MinCash /\ delta <= w)
  BY <1>2, <1>4, AffordableLeaves
<1> HIDE DEF delta
<1>7. CryptoOrder \in Int /\ (CryptoOrder > 0 => CryptoOrder <= nav /\ cash - CryptoOrder >= MinCash)
  BY <1>2, <1>4, <1>5, <1>6
<1>8. Settled(CryptoOrder) \in Nat
  BY <1>2, <1>7, SettledFits
<1>9. Settled(0) \in Nat
  BY <1>2, SettledFits
<1> QED
  BY <1>1, <1>8, <1>9

LEMMA HarvestPaid ==
    ASSUME BookTypes, Solvent, cash \in Nat, Harvest
    PROVE  cash' \in Nat
<1> DEFINE trims == [g \in Harvested |-> TrimOf(g)]
<1>1. cash' = cash \/ cash' = cash + Total(trims)
  BY DEF Harvest, Proceeds
<1>2. \A g \in Harvested : TrimOf(g) \in Nat
  <2>1. nav \in Nat /\ \A g \in Harvested : gold[g] \in Nat
    BY DEF Solvent
  <2>2. \A p \in {200, 500} : Share(nav, p) \in Nat
    BY <2>1, NatMoney
  <2>3. \A g \in Harvested : HarvestTarget(g) \in Nat
    BY <2>2 DEF HarvestTarget
  <2>4. \A g \in Harvested : AtLeast(gold[g] - HarvestTarget(g), 0) \in Nat
    BY <2>1, <2>3 DEF AtLeast
  <2> QED
    BY <2>4 DEF TrimOf
<1>3. trims \in [Harvested -> Nat]
  BY <1>2
<1> HIDE DEF trims
<1>4. Total(trims) \in Nat
  BY <1>3, NatTotals
<1> QED
  BY <1>1, <1>4

LEMMA SellCallsPaid ==
    ASSUME BookTypes, Solvent, cash \in Nat, SellCalls
    PROVE  cash' \in Nat
<1>1. PICK income \in {CallIncome, 0} : cash' = cash + income
  BY DEF SellCalls
<1>2. CallIncome \in Nat
  <2> DEFINE called == {t \in Tickers : /\ eq[t] > 0
                                        /\ \/ 10 * eq[t] >= 13 * cost[t]
                                           \/ DecayOf(lag[t]) <= 8}
             f == [t \in called |-> (eq[t] * today.calls) \div 400]
  <2>1. CallIncome = Total(f)
    BY DEF CallIncome
  <2>2. called \subseteq Tickers
    OBVIOUS
  <2> HIDE DEF called
  <2>3. IsFiniteSet(called)
    BY <2>2, FiniteBooks, FS_Subset, Zenon
  <2>4. \A t \in Tickers : eq[t] \in Nat
    BY DEF Solvent
  <2>5. today.calls \in Nat
    BY MarketTypes DEF BookTypes
  <2>6. f \in [called -> Int] /\ \A t \in called : f[t] \in Nat
    <3>1. \A t \in called : (eq[t] * today.calls) \div 400 \in Nat
      <4>1. ASSUME NEW t \in called PROVE (eq[t] * today.calls) \div 400 \in Nat
        <5>1. eq[t] * today.calls \in Nat
          BY <2>2, <2>4, <2>5
        <5> QED
          BY <5>1
      <4> QED
        BY <4>1
    <3> QED
      BY <3>1
  <2> HIDE DEF f
  <2>7. Total(f) = Sum(f, called)
    BY <2>3, <2>6, TotalIsSum
  <2>8. Sum(f, called) \in Nat
    BY <2>3, <2>6, SumOfNats
  <2> QED
    BY <2>1, <2>7, <2>8
<1> QED
  BY <1>1, <1>2

\* A backtest opens with eight percent of its capital in cash at least.
LEMMA CashOpens == Init => NeverOverdrawn
<1> SUFFICES ASSUME Init PROVE cash >= 0
  BY DEF NeverOverdrawn
<1> DEFINE w == TargetWeights(mics, [u \in Tickers |-> 0], Full)
<1>1. cash = 10000 - Total(eq) - Total(gold) - 700 - 2000
  BY DEF Init, Capital
<1>2. w \in [Tickers -> 0..MaxPosition] /\ Total(w) <= 5800
  <2>1. mics \in Convictions /\ Full \in Nat
    BY DEF Init, Full
  <2>2. /\ w \in [Tickers -> 0..MaxPosition]
        /\ Total(w) <= (Full * SleeveShare) \div 10
    BY <2>1, WeightsFit
  <2>3. (Full * SleeveShare) \div 10 = 5800
    BY DEF Full, SleeveShare
  <2> QED
    BY <2>2, <2>3
<1>3. eq = [t \in Tickers |-> Share(10000, w[t])]
  BY DEF Init, Capital
<1> HIDE DEF w
<1>4. w \in [Tickers -> Nat]
  <2>1. \A n \in 0..MaxPosition : n \in Nat
    BY DEF MaxPosition
  <2> QED
    BY <1>2, <2>1
<1>5. Total(eq) <= 5800 /\ Total(eq) \in Int
  <2>1. Sum(eq, Tickers) <= Share(10000, 5800)
    BY <1>2, <1>3, <1>4, SharesAddUp
  <2>2. Share(10000, 5800) = 5800
    BY DEF Share
  <2>3. eq \in [Tickers -> Int]
    <3>1. \A t \in Tickers : Share(10000, w[t]) \in Int
      BY <1>4, NatMoney
    <3> QED
      BY <1>3, <3>1
  <2>4. Total(eq) = Sum(eq, Tickers) /\ Total(eq) \in Int
    BY <2>3, TotalsOfBooks
  <2> QED
    BY <2>1, <2>2, <2>4
<1>6. Total(gold) = 700
  <2>1. gold = [g \in Harvested |-> IF g = "SGOL" THEN 200 ELSE 500]
    BY DEF Init
  <2>2. /\ \A g \in Harvested : gold[g] \in Int
        /\ gold["SGOL"] = 200 /\ gold["DBMF"] = 500 /\ gold \in [Harvested -> Int]
    BY <2>1 DEF Harvested
  <2>3. Total(gold) = Sum(gold, Harvested)
    BY <2>2, TotalsOfBooks
  <2>4. Sum(gold, Harvested) = gold["SGOL"] + Sum(gold, Harvested \ {"SGOL"})
    BY <2>2, FiniteBooks, SumPicks DEF Harvested
  <2>5. Harvested \ {"SGOL"} = {"DBMF"} /\ IsFiniteSet({"DBMF"})
    BY FS_Singleton DEF Harvested
  <2>6. Sum(gold, {"DBMF"}) = gold["DBMF"] + Sum(gold, {"DBMF"} \ {"DBMF"})
    <3>1. "DBMF" \in {"DBMF"} /\ \A g \in {"DBMF"} : gold[g] \in Int
      BY <2>2
    <3> QED
      BY <2>5, <3>1, SumPicks
  <2>7. Sum(gold, {"DBMF"} \ {"DBMF"}) = 0
    <3>1. {"DBMF"} \ {"DBMF"} = {}
      OBVIOUS
    <3> QED
      BY <3>1, EmptySum
  <2>8. Sum(gold, {"DBMF"}) = 500
    BY <2>2, <2>6, <2>7
  <2>9. Sum(gold, Harvested) = 200 + Sum(gold, {"DBMF"})
    BY <2>2, <2>4, <2>5
  <2> QED
    BY <2>3, <2>8, <2>9
<1> QED
  BY <1>1, <1>5, <1>6

\* What the hedges of a day take, the account has.
HedgesAreCovered == [][BuyPuts => NeverOverdrawn']_vars

LEMMA CashStep ==
    RebalanceInv /\ NeverOverdrawn /\ [Next]_vars /\ (BuyPuts => NeverOverdrawn')
      => NeverOverdrawn'
<1>1. ASSUME RebalanceInv, NeverOverdrawn, Next, BuyPuts => NeverOverdrawn'
      PROVE  NeverOverdrawn'
  <2>1. BookTypes /\ Solvent /\ cash \in Nat
    BY <1>1 DEF RebalanceInv, BookInv, BookTypes, NeverOverdrawn
  <2>2. CASE OpenDay \/ Overlay \/ HoldPuts \/ Plan \/ CloseDay
    BY <1>1, <2>2 DEF OpenDay, Overlay, HoldPuts, Plan, CloseDay, NeverOverdrawn
  <2>3. CASE TradeNext \/ CapPositions \/ TradeCrypto \/ Harvest \/ SellCalls
    <3>1. cash' \in Nat
      BY <2>1, <2>3, TradeNextPaid, CapPositionsPaid, TradeCryptoPaid, HarvestPaid, SellCallsPaid
    <3> QED
      BY <3>1 DEF NeverOverdrawn
  <2> QED
    BY <1>1, <2>2, <2>3 DEF Next
<1>2. ASSUME NeverOverdrawn, UNCHANGED vars PROVE NeverOverdrawn'
  BY <1>2 DEF NeverOverdrawn, vars
<1> QED
  BY <1>1, <1>2

\* Nothing but a purchase of puts can overdraw the account: rebalances, caps,
\* crypto, harvests and calls never do, whatever the markets.
THEOREM OnlyHedgesOverdraw == Spec /\ HedgesAreCovered => []NeverOverdrawn
<1>1. Init /\ BookInv => RebalanceInv /\ NeverOverdrawn
  BY SolventOpens, CashOpens DEF RebalanceInv
<1>2. RebalanceInv /\ NeverOverdrawn /\ BookInv' /\ [Next]_vars
        /\ [BuyPuts => NeverOverdrawn']_vars
      => RebalanceInv' /\ NeverOverdrawn'
  <2> SUFFICES ASSUME RebalanceInv, NeverOverdrawn, BookInv', [Next]_vars,
                      [BuyPuts => NeverOverdrawn']_vars
               PROVE  RebalanceInv' /\ NeverOverdrawn'
    OBVIOUS
  <2>1. CASE UNCHANGED vars
    BY <2>1, RebalanceStep, CashStep DEF NeverOverdrawn, vars
  <2>2. CASE BuyPuts => NeverOverdrawn'
    BY <2>2, RebalanceStep, CashStep
  <2> QED
    BY <2>1, <2>2
<1> QED
  BY <1>1, <1>2, BookInvariance, PTL DEF Spec, HedgesAreCovered

\* While the hedges are covered, the rebalance of an event ends within the
\* ceiling in force.
THEOREM RebalancesFit == Spec /\ HedgesAreCovered => []WithinCeilingAfterRebalance
<1>1. Init /\ BookInv => RebalanceInv
  BY SolventOpens DEF RebalanceInv
<1>2. RebalanceInv => WithinCeilingAfterRebalance
  BY DEF RebalanceInv
<1> QED
  BY <1>1, <1>2, OnlyHedgesOverdraw, RebalanceStep, BookInvariance, PTL DEF Spec

\* A day of stress leaves the residue of crypto to a portfolio that is worth
\* something, and always does while the hedges are covered.
THEOREM StressShedsCrypto ==
    Spec => [](nav >= 0 => CryptoIsShed) /\ (HedgesAreCovered => []CryptoIsShed)
<1>1. Init /\ BookInv => RebalanceInv
  BY SolventOpens DEF RebalanceInv
<1>2. BookInv => (nav >= 0 => CryptoIsShed)
  BY DEF BookInv, StressIsShed
<1>3. RebalanceInv => CryptoIsShed
  BY DEF RebalanceInv, BookInv, Solvent, StressIsShed
<1> QED
  BY <1>1, <1>2, <1>3, OnlyHedgesOverdraw, RebalanceStep, BookInvariance, PTL DEF Spec

=============================================================================
