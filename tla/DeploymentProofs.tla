-------------------------- MODULE DeploymentProofs --------------------------
(***************************************************************************)
(* Safety of the deployment of a sweep, for every rulebook, every set of   *)
(* plans and every book it may find.                                       *)
(*                                                                         *)
(* What a thesis weighs in total is a sum over its positions: what is held *)
(* of each never exceeds what the pre-flight summed up, so neither do the  *)
(* sums (FoldFacts). Targets are shares of the ceiling that are rounded     *)
(* down, so the ceiling holds them all.                                    *)
(***************************************************************************)
EXTENDS Deployment, TargetWeights, FoldFacts, TLAPS

----------------------------------------------------------------------------
(* The operators.                                                          *)

\* A trim takes a part of a weight, never all of it.
LEMMA TrimIsPart ==
    ASSUME NEW w \in Nat
    PROVE  MaxTrim(w) \in Nat /\ MaxTrim(w) <= w /\ (w > 0 => MaxTrim(w) < w)
BY DEF MaxTrim

\* The smaller of two numbers.
LEMMA LesserIsLess ==
    ASSUME NEW m \in Nat, NEW n \in Nat
    PROVE  Lesser(m, n) \in Nat /\ Lesser(m, n) <= m /\ Lesser(m, n) <= n
BY DEF Lesser

\* Breaches carry a tag and how far it is over its cap.
LEMMA BreachesTyped ==
    ASSUME NEW w
    PROVE  CapBreaches(w) \subseteq [tag : Tags, excess : Positive]
<1>1. \A g \in {h \in Tags : Concentration(w, h) - Cap[h] \in Positive} :
        [tag |-> g, excess |-> Concentration(w, g) - Cap[g]] \in [tag : Tags, excess : Positive]
  OBVIOUS
<1> QED BY <1>1, Zenon DEF CapBreaches

\* A rebalance order closes the gap to the target, or the gap is small.
LEMMA OrdersClose ==
    ASSUME NEW held \in Weightings, NEW target \in Weightings, NEW t \in Tickers
    PROVE  LET o == RebalanceOrders(held, target)[t]
           IN  /\ o \in Int
               /\ o # 0 => held[t] + o = target[t] /\ Magnitude(o) > Deadband
               /\ o = 0 => held[t] <= target[t] + Deadband
BY DEF RebalanceOrders, Magnitude, Weightings, Deadband

\* Whole shares of a weight of n above the deadband come within half a share of
\* it, and no more of them are sold than a position of whole shares has.
LEMMA SharesAreNear ==
    ASSUME NEW s \in 1..2 * Deadband, NEW n \in Nat, n > Deadband
    PROVE  LET k == R!Shares(n, s)
           IN  /\ k * s \in Nat
               /\ 2 * (k * s) <= 2 * n + s
               /\ 2 * n <= 2 * (k * s) + s
               /\ \A b \in Nat : n <= b /\ b % s = 0 => k * s <= b
<1> DEFINE w == n \div s
           r == n % s
           d == w * s
<1>1. s \in Nat /\ s >= 1 /\ s <= 50 /\ n > 25
  BY DEF Deadband
<1>2. w \in Nat /\ r \in Nat /\ r < s
  BY <1>1
<1>3. n = d + r
  <2>1. n = s * w + r
    BY <1>1
  <2> HIDE DEF w, r
  <2>2. d = s * w
    BY <1>1, <1>2
  <2> QED BY <2>1, <2>2
<1>4. R!Nearest(n, s) = IF 2 * r > s \/ (2 * r = s /\ w % 2 = 1) THEN w + 1 ELSE w
  BY DEF R!Nearest
<1> HIDE DEF w, r
<1>5. d \in Nat /\ (w + 1) * s = d + s
  BY <1>1, <1>2
<1>6. w = 0 => d = 0
  BY <1>1
<1>7. \A b \in Nat : n <= b /\ b % s = 0 => d <= b /\ (r > 0 => d + s <= b)
  <2> SUFFICES ASSUME NEW b \in Nat, n <= b, b % s = 0
               PROVE  d <= b /\ (r > 0 => d + s <= b)
    OBVIOUS
  <2> DEFINE q == b \div s
  <2>1. q \in Nat
    BY <1>1
  <2>2. b = s * q
    <3>1. b = s * q + (b % s)
      BY <1>1
    <3> QED BY <2>1, <3>1, <1>1
  <2> HIDE DEF q
  <2>3. w <= q
    <3> SUFFICES ASSUME w >= q + 1 PROVE FALSE
      BY <1>2, <2>1
    <3>1. (w - q - 1) * s >= 0 /\ (w - q - 1) * s = d - s * q - s
      BY <1>1, <1>2, <2>1
    <3> QED BY <1>1, <1>2, <1>3, <1>5, <2>2, <3>1
  <2>4. (q - w) * s >= 0 /\ (q - w) * s = s * q - d
    BY <1>1, <1>2, <2>1, <2>3
  <2>5. r > 0 => q >= w + 1
    <3> SUFFICES ASSUME r > 0, q = w PROVE FALSE
      BY <1>2, <2>1, <2>3
    <3>1. s * q = d
      BY <1>1, <1>2, <2>1
    <3> QED BY <1>2, <1>3, <1>5, <2>2, <3>1
  <2>6. r > 0 => (q - w - 1) * s >= 0 /\ (q - w - 1) * s = s * q - d - s
    BY <1>1, <1>2, <2>1, <2>5
  <2>7. s * q \in Nat
    BY <2>2
  <2> HIDE DEF d
  <2> QED BY <1>1, <1>5, <2>2, <2>4, <2>6, <2>7
<1> HIDE DEF d
<1>8. CASE R!Nearest(n, s) = w + 1 /\ (2 * r > s \/ 2 * r = s)
  <2>1. R!Shares(n, s) = w + 1
    BY <1>2, <1>8 DEF R!Shares
  <2>2. r > 0
    BY <1>1, <1>2, <1>8
  <2> QED BY <1>1, <1>2, <1>3, <1>5, <1>7, <1>8, <2>1, <2>2
<1>9. CASE R!Nearest(n, s) = w /\ 2 * r <= s
  <2>1. w # 0
    BY <1>1, <1>2, <1>3, <1>6, <1>9
  <2>2. R!Shares(n, s) = w
    BY <1>9, <2>1 DEF R!Shares
  <2>3. w * s = d
    BY DEF d
  <2> QED BY <1>1, <1>2, <1>3, <1>5, <1>7, <1>9, <2>2, <2>3
<1> QED BY <1>1, <1>2, <1>4, <1>8, <1>9

\* Half a share is a weight below the deadband.
LEMMA HalfIsSmall ==
    ASSUME NEW t \in Tickers
    PROVE  /\ HalfShare[t] \in Nat /\ HalfShare[t] <= Deadband
           /\ Share[t] \in 1..2 * Deadband
           /\ 2 * HalfShare[t] <= Share[t] /\ Share[t] <= 2 * HalfShare[t] + 1
BY ShareAssumption DEF HalfShare, Deadband

\* What is filled of an order goes its way and is within half a share of it, and
\* a sale leaves a whole number of shares.
LEMMA FilledNear ==
    ASSUME NEW t \in Tickers, orders[t] \in Int, Magnitude(orders[t]) > Deadband,
           NEW b \in Nat, b % Share[t] = 0, b + orders[t] >= 0
    PROVE  /\ Filled(t) \in Int
           /\ orders[t] > 0 => Filled(t) >= 0
           /\ orders[t] < 0 => Filled(t) <= 0
           /\ Filled(t) <= orders[t] + HalfShare[t]
           /\ b + Filled(t) \in Nat /\ (b + Filled(t)) % Share[t] = 0
<1> DEFINE n == Magnitude(orders[t])
           s == Share[t]
           k == R!Shares(n, s)
           p == k * s
<1>1. /\ s \in 1..2 * Deadband /\ s \in Nat /\ s >= 1
      /\ 2 * HalfShare[t] <= s /\ s <= 2 * HalfShare[t] + 1 /\ HalfShare[t] \in Nat
  BY HalfIsSmall DEF Deadband
<1>2. /\ n \in Nat /\ n > Deadband
      /\ orders[t] > 0 => n = orders[t]
      /\ ~(orders[t] > 0) => n = -orders[t]
  BY DEF Magnitude, Deadband
<1>3. k \in Nat
  <2>1. n \div s \in Nat
    BY <1>1, <1>2
  <2> QED BY <2>1 DEF R!Shares, R!Nearest
<1> HIDE DEF n, s
<1>4. /\ p \in Nat
      /\ 2 * p <= 2 * n + s
      /\ 2 * n <= 2 * p + s
      /\ \A c \in Nat : n <= c /\ c % s = 0 => p <= c
  BY <1>1, <1>2, SharesAreNear
<1>5. Filled(t) = IF orders[t] > 0 THEN p ELSE -p
  <2>1. Filled(t) = R!UnitToward(orders[t]) * k * s
    BY DEF Filled, n, s
  <2> HIDE DEF k
  <2>2. R!UnitToward(orders[t]) = IF orders[t] > 0 THEN 1 ELSE -1
    BY DEF R!UnitToward
  <2>3. 1 * k * s = k * s /\ (-1) * k * s = -(k * s)
    BY <1>1, <1>3
  <2> QED BY <2>1, <2>2, <2>3
<1>6. b % s = 0
  BY DEF s
<1> DEFINE q == b \div s
<1>7. q \in Nat /\ b = q * s
  <2>1. q \in Nat /\ b = s * q + (b % s)
    BY <1>1
  <2> HIDE DEF q
  <2> QED BY <1>1, <1>6, <2>1
<1> HIDE DEF q, k
<1>8. (q + k) * s = b + p /\ (q - k) * s = b - p
  BY <1>1, <1>3, <1>7
<1>9. \A m \in Int : m * s \in Nat => (m * s) % s = 0
  BY <1>1
<1>10. CASE orders[t] > 0
  <2>1. b + p \in Nat /\ (b + p) % s = 0
    <3>1. q + k \in Int
      BY <1>3, <1>7
    <3> HIDE DEF p
    <3> QED BY <1>4, <1>8, <1>9, <3>1
  <2> HIDE DEF p
  <2> QED BY <1>1, <1>2, <1>4, <1>5, <1>10, <2>1 DEF s
<1>11. CASE ~(orders[t] > 0)
  <2>1. p <= b
    BY <1>2, <1>4, <1>6, <1>11
  <2>2. b - p \in Nat /\ (b - p) % s = 0
    <3>1. q - k \in Int
      BY <1>3, <1>7
    <3> HIDE DEF p
    <3> QED BY <1>4, <1>8, <1>9, <2>1, <3>1
  <2> HIDE DEF p
  <2>3. b + (-p) = b - p
    BY <1>4
  <2> QED BY <1>1, <1>2, <1>4, <1>5, <1>11, <2>2, <2>3 DEF s
<1> QED BY <1>10, <1>11

\* A thesis weighs an integer, and no less where no position weighs less.
LEMMA ConcentrationGrows ==
    ASSUME NEW v \in Weightings, NEW w \in Weightings, NEW g,
           \A t \in Tickers : v[t] <= w[t]
    PROVE  /\ Concentration(v, g) \in Int /\ Concentration(w, g) \in Int
           /\ Concentration(v, g) <= Concentration(w, g)
<1> DEFINE S == {t \in Tickers : g \in TagsOf[t]}
<1>1. IsFiniteSet(S) /\ S \subseteq Tickers
  BY RulebookAssumption, FS_Subset
<1>2. \A t \in S : v[t] \in Int /\ w[t] \in Int /\ v[t] <= w[t] + 0
  BY DEF Weightings
<1>3. Cardinality(S) \in Nat
  BY <1>1, FS_CardinalityType
<1>4. Concentration(v, g) = Sum(v, S) /\ Concentration(w, g) = Sum(w, S)
  BY DEF Concentration, Sum
<1> HIDE DEF S
<1>5. Sum(v, S) \in Int /\ Sum(w, S) \in Int
  BY <1>1, <1>2, SumPicks
<1>6. Sum(v, S) <= Sum(w, S) + Cardinality(S) * 0
  BY <1>1, <1>2, SumsWithin
<1> QED BY <1>3, <1>4, <1>5, <1>6

\* Where there is no breach no thesis is over its cap, nor in a lighter book.
LEMMA NoBreachBelow ==
    ASSUME NEW v \in Weightings, NEW w \in Weightings,
           \A t \in Tickers : v[t] <= w[t], CapBreaches(w) = {}
    PROVE  /\ \A g \in Tags : Concentration(v, g) <= Cap[g]
           /\ CapBreaches(v) = {}
<1>1. ASSUME NEW g \in Tags
      PROVE  Concentration(v, g) <= Cap[g] /\ Concentration(v, g) - Cap[g] \notin Positive
  <2>1. /\ Concentration(v, g) \in Int /\ Concentration(w, g) \in Int
        /\ Concentration(v, g) <= Concentration(w, g)
    BY ConcentrationGrows
  <2>2. Cap[g] \in Nat
    BY RulebookAssumption
  <2>3. Concentration(w, g) - Cap[g] \notin Positive
    BY DEF CapBreaches
  <2> QED BY <2>1, <2>2, <2>3 DEF Positive
<1> QED BY <1>1 DEF CapBreaches

----------------------------------------------------------------------------
(* The invariant.                                                          *)

\* What an order says of its position while a sweep goes on: a purchase is
\* unfilled, what has none is where the targets allow, and what has one will
\* be at its target.
Accounted(t) ==
    /\ orders[t] > 0 => book[t] = opened[t] /\ orders[t] = asked[t]
    /\ book[t] <= opened[t] + asked[t] + HalfShare[t]
    /\ orders[t] # 0 => book[t] + orders[t] = plan.weights[t] /\ Magnitude(orders[t]) > Deadband
    /\ orders[t] = 0 /\ ~R!ExecutionHalted(vix) => book[t] <= plan.weights[t] + Deadband

\* The purchases are those that were asked until the verdict.
Undecided ==
    stage \in {"trim", "cohere"} =>
        /\ status = "PENDING"
        /\ \A t \in Tickers : book[t] = opened[t] /\ asked[t] = Buys(orders)[t]

\* A blocked batch has no purchase left.
Sales == (stage = "fill" /\ status = "BLOCKED") => \A t \in Tickers : orders[t] <= 0

\* What the pre-flight cleared, it judged within the caps, and the book stays
\* below that until the next sweep.
Judged ==
    status = "CLEARED" =>
        /\ CapBreaches(Projected(opened, asked)) = {}
        /\ \A t \in Tickers : book[t] <= opened[t] + asked[t] + HalfShare[t]

\* A batch that is sent while a thesis is over its cap has no purchase.
OverCapSells ==
    (stage = "fill" /\ CapBreaches(opened) # {}) => \A t \in Tickers : orders[t] <= 0

Inv ==
    /\ TypeOK
    /\ OnlyReduces
    /\ \A t \in Tickers : book[t] % Share[t] = 0
    /\ \A t \in Tickers : book[t] + orders[t] >= 0
    /\ stage # "idle" => \A t \in Tickers : Accounted(t)
    /\ Undecided
    /\ Sales
    /\ Judged
    /\ OverCapSells

\* What is held is covered by the projection the pre-flight judged, at every
\* moment of the fills, up to the rounding to whole shares.
BooksStayProjected ==
    stage # "idle" =>
        \A t \in Tickers : book[t] <= Projected(opened, asked)[t] + HalfShare[t]

\* When its orders are done, no position is above its target by more than the
\* deadband, whatever the verdict was, except in a crisis.
PositionsKept ==
    (stage = "fill" /\ orders = Nothing /\ ~R!ExecutionHalted(vix)) =>
        \A t \in Tickers : book[t] <= plan.weights[t] + Deadband

\* A position grows only in a batch that was not blocked.
BlockedNeverBuys ==
    status = "BLOCKED" /\ stage = "fill" => \A t \in Tickers : book'[t] <= book[t]

----------------------------------------------------------------------------
LEMMA InitInv == Init => Inv
<1> SUFFICES ASSUME Init PROVE Inv
  OBVIOUS
<1>1. book \in Weightings
  BY PlansAssumption DEF Init
<1>2. Nothing \in Weightings /\ \A t \in Tickers : Nothing[t] = 0
  BY DEF Nothing, Weightings
<1>3. TypeOK
  BY <1>1, <1>2 DEF TypeOK, Init, Weightings, Stages, Statuses, NoTrim
<1>4. \A t \in Tickers : book[t] % Share[t] = 0
  BY ShareAssumption DEF Init
<1> QED BY <1>1, <1>2, <1>3, <1>4
   DEF Inv, Init, OnlyReduces, Undecided, Sales, Judged, OverCapSells, Weightings

\* Each action, the one that starts a sweep first.
LEMMA StartKeeps == ASSUME Inv, StartSweep PROVE Inv'
<1>1. book \in Weightings /\ plan \in Plans /\ plan.weights \in Weightings
  BY PlansAssumption DEF Inv, TypeOK
<1>2. orders' \in [Tickers -> Int]
  <2>1. \A t \in Tickers : RebalanceOrders(book, plan.weights)[t] \in Int
    BY <1>1, OrdersClose
  <2>2. RebalanceOrders(book, plan.weights) \in [Tickers -> Int]
    BY <2>1 DEF RebalanceOrders
  <2>3. Nothing \in [Tickers -> Int]
    BY DEF Nothing
  <2> QED BY <2>2, <2>3 DEF StartSweep
<1>3. asked' \in Weightings /\ queue' = asked'
  BY <1>2 DEF StartSweep, Buys, Weightings
<1>4. breaches' \subseteq [tag : Tags, excess : Positive]
  BY BreachesTyped DEF StartSweep
<1>5. TypeOK'
  BY <1>1, <1>2, <1>3, <1>4 DEF Inv, TypeOK, StartSweep, Stages, Statuses
<1>6. \A t \in Tickers : Accounted(t)' /\ (book[t] + orders[t] >= 0)'
  <2> SUFFICES ASSUME NEW t \in Tickers PROVE Accounted(t)' /\ (book[t] + orders[t] >= 0)'
    OBVIOUS
  <2> DEFINE o == RebalanceOrders(book, plan.weights)[t]
  <2>5. /\ o \in Int
        /\ o # 0 => book[t] + o = plan.weights[t] /\ Magnitude(o) > Deadband
        /\ o = 0 => book[t] <= plan.weights[t] + Deadband
    BY <1>1, OrdersClose
  <2>6. orders'[t] = IF R!ExecutionHalted(vix') THEN 0 ELSE o
    BY DEF StartSweep, Nothing
  <2> HIDE DEF o
  <2>1. /\ orders'[t] \in Int
        /\ orders'[t] # 0 => /\ book[t] + orders'[t] = plan.weights[t]
                              /\ Magnitude(orders'[t]) > Deadband
        /\ orders'[t] = 0 /\ ~R!ExecutionHalted(vix') => book[t] <= plan.weights[t] + Deadband
    BY <2>5, <2>6
  <2>7. HalfShare[t] \in Nat /\ HalfShare' = HalfShare
    BY HalfIsSmall DEF HalfShare
  <2>2. asked'[t] = (IF orders'[t] > 0 THEN orders'[t] ELSE 0)
    BY DEF StartSweep, Buys
  <2>3. book' = book /\ opened' = book /\ plan' = plan
    BY DEF StartSweep
  <2>4. book[t] \in Nat /\ plan.weights[t] \in Nat
    BY <1>1 DEF Weightings
  <2> QED BY <2>1, <2>2, <2>3, <2>4, <2>7 DEF Accounted
<1>7. OnlyReduces'
  BY <1>3 DEF OnlyReduces, Weightings
<1>8. Undecided'
  BY DEF Undecided, StartSweep
<1>9. Sales'
  BY DEF Sales, StartSweep
<1>10. Judged'
  BY DEF Judged, StartSweep
<1>11. OverCapSells'
  <2>1. CASE asked' = Nothing
    <3>1. \A t \in Tickers : (IF orders'[t] > 0 THEN orders'[t] ELSE 0) = 0
      BY <2>1 DEF StartSweep, Buys, Nothing
    <3>2. \A t \in Tickers : orders'[t] <= 0
      BY <1>2, <3>1
    <3> QED BY <3>2 DEF OverCapSells
  <2>2. CASE asked' # Nothing
    BY <2>2 DEF StartSweep, OverCapSells
  <2> QED BY <2>1, <2>2
<1>12. \A t \in Tickers : (book[t] % Share[t] = 0)'
  BY DEF Inv, StartSweep
<1> QED BY <1>5, <1>6, <1>7, <1>8, <1>9, <1>10, <1>11, <1>12 DEF Inv

\* The loop over the breaches.
LEMMA BreachKeeps == ASSUME Inv, NextBreach PROVE Inv'
<1>1. PICK b \in breaches :
        /\ breaches' = breaches \ {b}
        /\ trimming' = [tag |-> b.tag, excess |-> b.excess, left |-> Trimmable(b.tag)]
  BY DEF NextBreach
<1>2. trimming' \in [tag : Tags \union {NoTag}, excess : Nat, left : SUBSET Tickers]
  <2>1. Trimmable(b.tag) \in SUBSET Tickers
    BY DEF Trimmable, Queued, Listed
  <2>2. b.tag \in Tags /\ b.excess \in Nat
    BY DEF Inv, TypeOK, Positive
  <2> QED BY <1>1, <2>1, <2>2
<1>3. UNCHANGED <<book, plan, vix, stage, orders, queue, aligning, status, opened, asked>>
  BY DEF NextBreach
<1>4. TypeOK'
  BY <1>1, <1>2, <1>3 DEF Inv, TypeOK
<1> QED BY <1>3, <1>4 DEF Inv, OnlyReduces, Undecided, Sales, Judged, OverCapSells, Accounted, Buys

\* The loop over the tickers of a breach.
LEMMA TrimKeeps == ASSUME Inv, TrimOne PROVE Inv'
<1>1. UNCHANGED <<book, plan, vix, stage, orders, breaches, aligning, status, opened, asked>>
      /\ stage = "trim"
  BY DEF TrimOne
<1> DEFINE amount(t) == Lesser(trimming.excess, MaxTrim(queue[t]))
<1>2. PICK t \in TrimNext(trimming.tag, trimming.left) :
        /\ queue' = [queue EXCEPT ![t] = @ - amount(t)]
        /\ trimming' = [trimming EXCEPT !.excess = @ - amount(t), !.left = @ \ {t}]
  BY DEF TrimOne
<1>3. t \in Tickers /\ queue[t] \in Nat /\ trimming.excess \in Nat /\ asked[t] \in Nat
  BY DEF TrimNext, Inv, TypeOK, Weightings
<1>4. /\ amount(t) \in Nat
      /\ amount(t) <= trimming.excess
      /\ amount(t) <= queue[t]
      /\ queue[t] > 0 => amount(t) < queue[t]
  <2>1. /\ MaxTrim(queue[t]) \in Nat /\ MaxTrim(queue[t]) <= queue[t]
        /\ queue[t] > 0 => MaxTrim(queue[t]) < queue[t]
    BY <1>3, TrimIsPart
  <2>2. /\ amount(t) \in Nat /\ amount(t) <= trimming.excess
        /\ amount(t) <= MaxTrim(queue[t])
    BY <1>3, <2>1, LesserIsLess
  <2> QED BY <1>3, <2>1, <2>2
<1> HIDE DEF amount
<1>5. queue' \in Weightings
  BY <1>2, <1>3, <1>4 DEF Inv, TypeOK, Weightings
<1>6. trimming' \in [tag : Tags \union {NoTag}, excess : Nat, left : SUBSET Tickers]
  <2>1. trimming \in [tag : Tags \union {NoTag}, excess : Nat, left : SUBSET Tickers]
    BY DEF Inv, TypeOK
  <2>2. trimming.excess - amount(t) \in Nat
    BY <1>3, <1>4
  <2>3. trimming.left \ {t} \in SUBSET Tickers
    BY <2>1
  <2>4. trimming' = [tag |-> trimming.tag, excess |-> trimming.excess - amount(t),
                     left |-> trimming.left \ {t}]
    BY <1>2, <2>1
  <2> QED BY <2>1, <2>2, <2>3, <2>4
<1>7. TypeOK'
  BY <1>1, <1>5, <1>6 DEF Inv, TypeOK
<1>8. OnlyReduces'
  <2> SUFFICES ASSUME NEW u \in Tickers
               PROVE  (queue[u] <= asked[u] /\ (asked[u] > 0 => queue[u] > 0))'
    BY DEF OnlyReduces
  <2>1. queue[u] <= asked[u] /\ (asked[u] > 0 => queue[u] > 0) /\ queue[u] \in Nat
    BY <1>1 DEF Inv, OnlyReduces, TypeOK, Weightings
  <2>2. queue'[u] = (IF u = t THEN queue[t] - amount(t) ELSE queue[u])
    BY <1>2 DEF Inv, TypeOK, Weightings
  <2> QED BY <1>1, <1>3, <1>4, <2>1, <2>2
<1> QED BY <1>1, <1>7, <1>8 DEF Inv, Undecided, Sales, Judged, OverCapSells, Accounted, Buys

\* From the trims to the comparisons.
LEMMA TrimsDoneKeeps == ASSUME Inv, TrimsDone PROVE Inv'
<1>1. aligning' \subseteq Tags \X Tickers
  BY DEF TrimsDone, Comparisons
<1>2. TypeOK'
  BY <1>1 DEF Inv, TypeOK, TrimsDone, Stages, NoTrim
<1> QED
  BY <1>2
     DEF Inv, TrimsDone, OnlyReduces, Undecided, Sales, Judged, OverCapSells, Accounted, Buys

\* A comparison of the coherence pass.
LEMMA AlignKeeps == ASSUME Inv, AlignOne PROVE Inv'
<1>1. UNCHANGED <<book, plan, vix, stage, orders, breaches, trimming, status, opened, asked>>
      /\ stage = "cohere"
  BY DEF AlignOne
<1>2. PICK c \in FirstOf(aligning) :
        /\ aligning' = aligning \ {c}
        /\ \E later \in Follows(c[1], c[2]) :
            queue' = IF queue[c[2]] > queue[later] THEN Aligned(c[2], later) ELSE queue
  BY DEF AlignOne
<1>3. PICK later \in Follows(c[1], c[2]) :
        queue' = IF queue[c[2]] > queue[later] THEN Aligned(c[2], later) ELSE queue
  BY <1>2
<1>4. c[2] \in Tickers /\ later \in Tickers /\ queue[later] > 0
  BY DEF FirstOf, Follows, Listed, Inv, TypeOK
<1>5. queue \in Weightings /\ queue[later] \in Nat /\ queue[c[2]] \in Nat
  BY <1>4 DEF Inv, TypeOK, Weightings
<1>6. queue' \in Weightings
  BY <1>3, <1>4, <1>5 DEF Aligned, Weightings
<1>7. TypeOK'
  BY <1>1, <1>2, <1>6 DEF Inv, TypeOK
<1>8. OnlyReduces'
  <2> SUFFICES ASSUME NEW u \in Tickers
               PROVE  (queue[u] <= asked[u] /\ (asked[u] > 0 => queue[u] > 0))'
    BY DEF OnlyReduces
  <2>1. queue[u] <= asked[u] /\ (asked[u] > 0 => queue[u] > 0) /\ asked[u] \in Nat
    BY <1>1 DEF Inv, OnlyReduces, TypeOK, Weightings
  <2>2. queue'[u] = queue[u] \/ (queue'[u] = queue[later] /\ queue[later] < queue[u])
    BY <1>3, <1>4, <1>5 DEF Aligned, Weightings
  <2>3. queue[u] \in Nat
    BY <1>5 DEF Weightings
  <2> QED BY <1>1, <1>4, <1>5, <2>1, <2>2, <2>3
<1> QED BY <1>1, <1>7, <1>8 DEF Inv, Undecided, Sales, Judged, OverCapSells, Accounted, Buys

\* The verdict, which may take the purchases out.
LEMMA VerdictKeeps == ASSUME Inv, Verdict PROVE Inv'
<1>1. UNCHANGED <<book, plan, vix, breaches, trimming, aligning, opened, asked>>
      /\ stage = "cohere" /\ stage' = "fill" /\ queue' = Nothing
  BY DEF Verdict
<1>2. /\ orders \in [Tickers -> Int]
      /\ book \in Weightings /\ opened \in Weightings /\ asked \in Weightings
      /\ plan.weights \in Weightings
  BY PlansAssumption DEF Inv, TypeOK
<1>3. \/ status' = "BLOCKED" /\ orders' = WithoutBuys(orders)
      \/ status' \in {"CLEARED", "ADJUSTED"} /\ orders' = orders
  BY DEF Verdict, Block, Pass
<1>4. orders' \in [Tickers -> Int]
  BY <1>2, <1>3 DEF WithoutBuys
<1>5. TypeOK'
  BY <1>1, <1>3, <1>4 DEF Inv, TypeOK, Stages, Statuses, Nothing, Weightings
<1>6. \A t \in Tickers : Accounted(t)' /\ (book[t] + orders[t] >= 0)'
  <2> SUFFICES ASSUME NEW t \in Tickers PROVE Accounted(t)' /\ (book[t] + orders[t] >= 0)'
    OBVIOUS
  <2>1. Accounted(t) /\ book[t] + orders[t] >= 0
    BY <1>1 DEF Inv
  <2>2. orders'[t] = orders[t] \/ (orders[t] > 0 /\ orders'[t] = 0)
    BY <1>2, <1>3 DEF WithoutBuys
  <2>3. /\ orders[t] \in Int /\ book[t] \in Nat /\ opened[t] \in Nat /\ asked[t] \in Nat
        /\ plan.weights[t] \in Nat
    BY <1>2 DEF Weightings
  <2>4. HalfShare' = HalfShare
    BY DEF HalfShare
  <2> QED BY <1>1, <2>1, <2>2, <2>3, <2>4 DEF Accounted, Deadband
<1>7. Sales'
  BY <1>2, <1>3 DEF Sales, WithoutBuys
<1>8. \A t \in Tickers : /\ book[t] = opened[t] /\ asked[t] \in Nat
                         /\ opened[t] \in Nat /\ opened[t] <= opened[t] + asked[t]
  BY <1>1, <1>2 DEF Inv, Undecided, Weightings
<1>9. Projected(opened, asked) \in Weightings
  BY <1>8 DEF Projected, Weightings
<1>10. book = opened
  BY <1>2, <1>8 DEF Weightings
<1>11. Judged'
  <2> SUFFICES ASSUME status' = "CLEARED"
               PROVE  /\ CapBreaches(Projected(opened, asked)) = {}
                      /\ \A t \in Tickers : book[t] <= opened[t] + asked[t] + HalfShare[t]
    BY <1>1 DEF Judged, HalfShare
  <2>1. CapBreaches(Projected(book, queue)) = {} /\ queue = asked
    BY DEF Verdict, Block, Pass
  <2> QED BY <1>8, <1>10, <2>1, HalfIsSmall
<1>12. OverCapSells'
  <2> SUFFICES ASSUME CapBreaches(opened) # {}, NEW t \in Tickers
               PROVE  orders'[t] <= 0
    BY <1>1 DEF OverCapSells
  <2>1. CapBreaches(Projected(book, queue)) # {}
    <3> SUFFICES ASSUME CapBreaches(Projected(book, queue)) = {} PROVE FALSE
      OBVIOUS
    <3>1. queue \in Weightings
      BY DEF Inv, TypeOK
    <3>2. Projected(book, queue) \in Weightings
      BY <1>2, <3>1 DEF Projected, Weightings
    <3>3. \A u \in Tickers : opened[u] <= Projected(book, queue)[u]
      BY <1>8, <1>10, <3>1 DEF Projected, Weightings
    <3> QED BY <1>2, <3>2, <3>3, NoBreachBelow
  <2>2. orders' = WithoutBuys(orders)
    BY <2>1 DEF Verdict, Block
  <2> QED BY <1>2, <2>2 DEF WithoutBuys
<1> QED BY <1>1, <1>5, <1>6, <1>7, <1>11, <1>12 DEF Inv, OnlyReduces, Undecided

\* A fill.
LEMMA FillKeeps == ASSUME Inv, Fill PROVE Inv'
<1>1. UNCHANGED <<plan, vix, stage, queue, breaches, trimming, aligning, status, opened, asked>>
      /\ stage = "fill"
  BY DEF Fill
<1>2. PICK t \in Tickers :
        /\ orders[t] # 0
        /\ book' = [book EXCEPT ![t] = @ + Filled(t)]
        /\ orders' = [orders EXCEPT ![t] = 0]
  BY DEF Fill
<1>3. /\ orders \in [Tickers -> Int]
      /\ book \in Weightings /\ opened \in Weightings /\ asked \in Weightings
      /\ plan.weights \in Weightings
  BY PlansAssumption DEF Inv, TypeOK
<1> DEFINE f == Filled(t)
<1>4. /\ f \in Int
      /\ orders[t] > 0 => f >= 0
      /\ orders[t] < 0 => f <= 0
      /\ f <= orders[t] + HalfShare[t]
      /\ book[t] + f \in Nat /\ (book[t] + f) % Share[t] = 0
  <2>1. /\ orders[t] \in Int /\ book[t] \in Nat /\ book[t] % Share[t] = 0
        /\ book[t] + orders[t] >= 0
    BY <1>3 DEF Inv, Weightings
  <2>2. Magnitude(orders[t]) > Deadband
    BY <1>1, <1>2 DEF Inv, Accounted
  <2> QED BY <2>1, <2>2, FilledNear
<1> HIDE DEF f
<1>12. book' = [book EXCEPT ![t] = @ + f]
  BY <1>2 DEF f
<1>5. book' \in Weightings /\ orders' \in [Tickers -> Int]
  BY <1>2, <1>3, <1>4, <1>12 DEF Weightings
<1>6. TypeOK'
  BY <1>1, <1>5 DEF Inv, TypeOK
<1>13. \A u \in Tickers : /\ book'[u] = (IF u = t THEN book[u] + f ELSE book[u])
                           /\ orders'[u] = (IF u = t THEN 0 ELSE orders[u])
  BY <1>2, <1>3, <1>12 DEF Weightings
<1>14. \A u \in Tickers : (book[u] % Share[u] = 0)'
  BY <1>4, <1>13 DEF Inv
<1>7. \A u \in Tickers : Accounted(u)' /\ (book[u] + orders[u] >= 0)'
  <2> SUFFICES ASSUME NEW u \in Tickers PROVE Accounted(u)' /\ (book[u] + orders[u] >= 0)'
    OBVIOUS
  <2>1. Accounted(u) /\ book[u] + orders[u] >= 0
    BY <1>1 DEF Inv
  <2>2. /\ book'[u] = (IF u = t THEN book[u] + f ELSE book[u])
        /\ orders'[u] = (IF u = t THEN 0 ELSE orders[u])
    BY <1>13
  <2>3. /\ orders[u] \in Int /\ book[u] \in Nat /\ opened[u] \in Nat /\ asked[u] \in Nat
        /\ plan.weights[u] \in Nat
    BY <1>3 DEF Weightings
  <2>4. HalfShare[u] \in Nat /\ HalfShare[u] <= Deadband /\ HalfShare' = HalfShare
    BY HalfIsSmall DEF HalfShare
  <2>5. CASE u # t
    BY <1>1, <2>1, <2>2, <2>4, <2>5 DEF Accounted
  <2>6. CASE u = t
    <3>1. book'[u] = book[u] + f /\ orders'[u] = 0
      BY <2>2, <2>6
    <3>2. book[u] + f <= plan.weights[u] + Deadband
      BY <1>2, <1>4, <2>1, <2>3, <2>4, <2>6 DEF Accounted, Deadband
    <3>3. book[u] + f <= opened[u] + asked[u] + HalfShare[u]
      BY <1>2, <1>4, <2>1, <2>3, <2>4, <2>6 DEF Accounted
    <3>4. book[u] + f + 0 >= 0
      BY <1>4, <2>3, <2>6
    <3> QED BY <1>1, <2>4, <3>1, <3>2, <3>3, <3>4 DEF Accounted
  <2> QED BY <2>5, <2>6
<1>8. Sales'
  BY <1>1, <1>2, <1>3 DEF Inv, Sales
<1>9. Judged'
  <2> SUFFICES ASSUME status = "CLEARED", NEW u \in Tickers
               PROVE  book'[u] <= opened[u] + asked[u] + HalfShare[u]
    BY <1>1 DEF Inv, Judged, HalfShare
  <2>1. Accounted(u)'
    BY <1>7
  <2> QED BY <1>1, <2>1 DEF Accounted, HalfShare
<1>10. OverCapSells'
  BY <1>1, <1>2, <1>3 DEF Inv, OverCapSells
<1> QED BY <1>1, <1>6, <1>7, <1>8, <1>9, <1>10, <1>14 DEF Inv, OnlyReduces, Undecided

\* A fill of a batch without a purchase makes no position larger.
LEMMA SalesSell ==
    ASSUME Inv, Fill, NEW u \in Tickers, \A t \in Tickers : orders[t] <= 0
    PROVE  book'[u] <= book[u]
<1>1. PICK t \in Tickers :
        orders[t] # 0 /\ book' = [book EXCEPT ![t] = @ + Filled(t)]
  BY DEF Fill
<1>2. /\ orders[t] \in Int /\ orders[t] < 0 /\ book \in Weightings /\ book[t] \in Nat
      /\ book[t] % Share[t] = 0 /\ book[t] + orders[t] >= 0
      /\ Magnitude(orders[t]) > Deadband
  <2>1. orders[t] \in Int /\ book \in Weightings
    BY DEF Inv, TypeOK
  <2>2. Accounted(t) /\ book[t] % Share[t] = 0 /\ book[t] + orders[t] >= 0
    BY DEF Inv, Fill
  <2> QED BY <1>1, <2>1, <2>2 DEF Accounted, Weightings
<1>3. Filled(t) \in Int /\ Filled(t) <= 0
  BY <1>2, FilledNear
<1> QED BY <1>1, <1>2, <1>3 DEF Weightings

\* Between two sweeps.
LEMMA IdleKeeps == ASSUME Inv, EndSweep \/ AttemptFails \/ Rescore PROVE Inv'
<1>1. CASE EndSweep
  <2>1. TypeOK'
    BY <1>1 DEF Inv, TypeOK, EndSweep, Stages, Nothing, Weightings
  <2> QED BY <1>1, <2>1 DEF Inv, EndSweep, OnlyReduces, Undecided, Sales, Judged, OverCapSells
<1>3. CASE AttemptFails
  <2>1. orders' = Nothing /\ Nothing \in [Tickers -> Int] /\ \A t \in Tickers : Nothing[t] = 0
    BY <1>3 DEF AttemptFails, Nothing
  <2>2. TypeOK'
    BY <1>3, <2>1 DEF Inv, TypeOK, AttemptFails, Stages
  <2>3. \A t \in Tickers : (book[t] + orders[t] >= 0)'
    BY <1>3, <2>1 DEF AttemptFails, Inv, TypeOK, Weightings
  <2> QED BY <1>3, <2>2, <2>3
          DEF Inv, AttemptFails, OnlyReduces, Undecided, Sales, Judged, OverCapSells, HalfShare
<1>2. CASE Rescore
  <2>1. TypeOK'
    BY <1>2 DEF Inv, TypeOK, Rescore
  <2> QED BY <1>2, <2>1 DEF Inv, Rescore, OnlyReduces, Undecided, Sales, Judged, OverCapSells
<1> QED BY <1>1, <1>2, <1>3

LEMMA StepKeeps == ASSUME Inv, [Next]_vars PROVE Inv'
<1>1. CASE UNCHANGED vars
  BY <1>1 DEF vars, Inv, TypeOK, OnlyReduces, Accounted, Undecided, Sales, Judged,
              OverCapSells, Buys
<1>2. CASE Next
  BY <1>2, StartKeeps, BreachKeeps, TrimKeeps, TrimsDoneKeeps, AlignKeeps, VerdictKeeps,
     FillKeeps, IdleKeeps DEF Next, Sweeps
<1> QED BY <1>1, <1>2

THEOREM Invariance == Spec => []Inv
<1>1. Init => Inv
  BY InitInv
<1>2. Inv /\ [Next]_vars => Inv'
  BY StepKeeps
<1> QED BY <1>1, <1>2, PTL DEF Spec

\* Every variable keeps its type; in particular no weight becomes negative
\* through fills and trims.
THEOREM TypeCorrect == Spec => []TypeOK
<1>1. Inv => TypeOK
  BY DEF Inv
<1> QED BY <1>1, Invariance, PTL

\* paie.py: the pre-flight takes weight away, and never a whole order.
THEOREM PreflightReduces == Spec => []OnlyReduces
<1>1. Inv => OnlyReduces
  BY DEF Inv
<1> QED BY <1>1, Invariance, PTL

\* paie.py:363-366 and the fills: what is held stays below the book whose
\* concentrations were judged.
THEOREM Projection == Spec => []BooksStayProjected
<1>1. Inv => BooksStayProjected
  BY DEF Inv, BooksStayProjected, Accounted, Projected
<1> QED BY <1>1, Invariance, PTL

\* trade_order_generator.py and main.py:624: blocked or not, a sweep outside of
\* the crisis tier whose orders are done has brought every position down to its
\* target, up to the deadband.
THEOREM PositionsAreCut == Spec => []PositionsKept
<1>1. Inv => PositionsKept
  BY DEF Inv, PositionsKept, Accounted, Nothing
<1> QED BY <1>1, Invariance, PTL

\* main.py:622-624: no position grows after a block.
THEOREM BlockIsKept == Spec => [][BlockedNeverBuys]_vars
<1>1. Inv /\ [Next]_vars => [BlockedNeverBuys]_vars
  <2> SUFFICES ASSUME Inv, Next, status = "BLOCKED", stage = "fill", NEW u \in Tickers
               PROVE  book'[u] <= book[u]
    BY DEF BlockedNeverBuys
  <2>1. /\ \A t \in Tickers : orders[t] <= 0
        /\ book[u] \in Nat
    BY DEF Inv, Sales, TypeOK, Weightings
  <2>2. CASE Fill
    BY <2>1, <2>2, SalesSell
  <2>3. CASE EndSweep \/ AttemptFails
    BY <2>1, <2>3 DEF EndSweep, AttemptFails
  <2> QED BY <2>2, <2>3 DEF Next, Sweeps, Rescore, StartSweep, NextBreach, TrimOne, TrimsDone,
             AlignOne, Verdict
<1> QED BY <1>1, Invariance, PTL DEF Spec

\* paie.py:383-391: what the pre-flight cleared without a change is
\* within every cap at every moment of its fills, and until the next sweep, up
\* to half a share of each position of the thesis.
THEOREM ClearedIsWithin == Spec => []ClearedStaysWithin
<1>1. Inv => ClearedStaysWithin
  <2> SUFFICES ASSUME Inv, status = "CLEARED", NEW g \in Tags
               PROVE  Concentration(book, g) <= Cap[g] + Concentration(HalfShare, g)
    BY DEF ClearedStaysWithin
  <2> DEFINE judged == Projected(opened, asked)
             rounded == [t \in Tickers |-> judged[t] + HalfShare[t]]
             S == {t \in Tickers : g \in TagsOf[t]}
  <2>1. book \in Weightings /\ opened \in Weightings /\ asked \in Weightings
    BY DEF Inv, TypeOK
  <2>2. judged \in Weightings /\ HalfShare \in Weightings
    <3>1. judged \in Weightings
      BY <2>1 DEF Projected, Weightings
    <3>2. HalfShare \in Weightings
      BY ShareAssumption DEF HalfShare, Weightings, Deadband
    <3> QED BY <3>1, <3>2
  <2>3. /\ CapBreaches(judged) = {}
        /\ \A t \in Tickers : book[t] <= judged[t] + HalfShare[t]
    BY DEF Inv, Judged, Projected
  <2> HIDE DEF judged
  <2>4. rounded \in Weightings /\ \A t \in Tickers : book[t] <= rounded[t]
    BY <2>2, <2>3 DEF Weightings
  <2>5. Concentration(judged, g) <= Cap[g]
    <3>1. \A t \in Tickers : judged[t] <= judged[t]
      BY <2>2 DEF Weightings
    <3> QED BY <2>2, <2>3, <3>1, NoBreachBelow
  <2>6. /\ Concentration(book, g) \in Int /\ Concentration(rounded, g) \in Int
        /\ Concentration(book, g) <= Concentration(rounded, g)
    BY <2>1, <2>4, ConcentrationGrows, Zenon
  <2>7. Concentration(rounded, g) = Concentration(judged, g) + Concentration(HalfShare, g)
    <3>1. IsFiniteSet(S) /\ S \subseteq Tickers
      BY RulebookAssumption, FS_Subset
    <3>2. \A t \in S : /\ judged[t] \in Int /\ HalfShare[t] \in Int
                       /\ rounded[t] = judged[t] + HalfShare[t]
      BY <2>2 DEF Weightings
    <3>3. /\ Concentration(rounded, g) = Sum(rounded, S)
          /\ Concentration(judged, g) = Sum(judged, S)
          /\ Concentration(HalfShare, g) = Sum(HalfShare, S)
      BY DEF Concentration, Sum
    <3> HIDE DEF S, rounded
    <3>4. Sum(rounded, S) = Sum(judged, S) + Sum(HalfShare, S)
      BY <3>1, <3>2, SumsAdd, Zenon
    <3> QED BY <3>3, <3>4
  <2>8. /\ Concentration(judged, g) \in Int /\ Concentration(HalfShare, g) \in Int
        /\ Cap[g] \in Nat
    <3>1. /\ \A t \in Tickers : judged[t] <= judged[t]
          /\ \A t \in Tickers : HalfShare[t] <= HalfShare[t]
      BY <2>2 DEF Weightings
    <3>2. Concentration(judged, g) \in Int /\ Concentration(HalfShare, g) \in Int
      BY <2>2, <3>1, ConcentrationGrows, Zenon
    <3> QED BY <3>2, RulebookAssumption
  <2> HIDE DEF rounded
  <2> QED BY <2>5, <2>6, <2>7, <2>8
<1> QED BY <1>1, Invariance, PTL

\* main.py:614-624: while a thesis is over its cap, no sweep makes a position
\* larger, whatever its targets are and in whatever order it fills.
THEOREM OverCapIsFrozen == Spec => OverCapNeverGrows
<1>1. Inv /\ [Next]_vars =>
        [(stage = "fill" /\ CapBreaches(opened) # {})
            => \A t \in Tickers : book'[t] <= book[t]]_vars
  <2> SUFFICES ASSUME Inv, Next, stage = "fill", CapBreaches(opened) # {}, NEW u \in Tickers
               PROVE  book'[u] <= book[u]
    OBVIOUS
  <2>1. /\ \A t \in Tickers : orders[t] <= 0
        /\ book[u] \in Nat
    BY DEF Inv, OverCapSells, TypeOK, Weightings
  <2>2. CASE Fill
    BY <2>1, <2>2, SalesSell
  <2>3. CASE EndSweep \/ AttemptFails
    BY <2>1, <2>3 DEF EndSweep, AttemptFails
  <2> QED BY <2>2, <2>3 DEF Next, Sweeps, Rescore, StartSweep, NextBreach, TrimOne, TrimsDone,
             AlignOne, Verdict
<1> QED BY <1>1, Invariance, PTL DEF Spec, OverCapNeverGrows

----------------------------------------------------------------------------
(* The targets a plan is made of.                                          *)

\* Between two limits.
LEMMA ClampIsMedian ==
    ASSUME NEW low \in Int, NEW high \in Int, low <= high, NEW n \in Int
    PROVE  Clamp(low, high, n) = IF n < low THEN low ELSE IF n > high THEN high ELSE n
<1>1. /\ Min({high, n}) \in {high, n} /\ Min({high, n}) <= high /\ Min({high, n}) <= n
  BY DEF Min
<1> DEFINE m == Min({high, n})
<1> HIDE DEF m
<1>2. /\ Max({low, m}) \in {low, m} /\ Max({low, m}) >= low /\ Max({low, m}) >= m
  BY <1>1 DEF Max, m
<1>3. m \in Int /\ (m = high \/ m = n) /\ m <= high /\ m <= n
  BY <1>1 DEF m
<1> QED BY <1>2, <1>3 DEF Clamp, m

LEMMA ClampOrdered ==
    ASSUME NEW low \in Int, NEW high \in Int, low <= high, NEW n \in Int, NEW k \in Int, n <= k
    PROVE  /\ Clamp(low, high, n) \in low..high
           /\ Clamp(low, high, n) <= Clamp(low, high, k)
BY ClampIsMedian

LEMMA RoundingOrdered ==
    ASSUME NEW n \in Int, NEW k \in Int, n <= k
    PROVE  RoundHalfEven(n, 300) \in Int /\ RoundHalfEven(n, 300) <= RoundHalfEven(k, 300)
BY DEF RoundHalfEven

LEMMA ScoresAreMarks ==
    /\ \A x : SourceScore(x) \in Int
    /\ \A x : FemScore(x) \in Int
    /\ \A x : RegimeScore(x) \in Int
<1>1. \A x : SourceScore(x) \in {10, 8, 5, 4, 0}
  BY DEF SourceScore
<1>2. \A x : FemScore(x) \in {10, 7, 6, 4, 0}
  BY DEF FemScore
<1>3. \A x : RegimeScore(x) \in {10, 9, 7, 5, 0}
  BY DEF RegimeScore
<1> QED BY <1>1, <1>2, <1>3

\* mics.py calculate_mics: a better score at gate 3, from the thesis or from the
\* supplement, never lowers the level of conviction, whatever the other gates are.
THEOREM ConvictionFollowsGate3 ==
    ASSUME NEW gate3 \in Int, NEW better \in Int, gate3 <= better,
           NEW adjustment \in Int, NEW more \in Int, adjustment <= more,
           NEW source, NEW fem, NEW regime
    PROVE  LET old == [gate3 |-> gate3, source |-> source, fem |-> fem, regime |-> regime]
               new == [gate3 |-> better, source |-> source, fem |-> fem, regime |-> regime]
           IN  /\ ConvictionLevel(old, adjustment) \in 1..10
               /\ ConvictionLevel(old, adjustment) <= ConvictionLevel(new, more)
<1> DEFINE old == [gate3 |-> gate3, source |-> source, fem |-> fem, regime |-> regime]
           new == [gate3 |-> better, source |-> source, fem |-> fem, regime |-> regime]
           others == 90 * SourceScore(source) + 45 * FemScore(fem) + 45 * RegimeScore(regime)
           c == Clamp(0, 30, gate3 + 3 * adjustment)
           d == Clamp(0, 30, better + 3 * more)
<1>1. c \in Int /\ d \in Int /\ c <= d
  <2>1. /\ gate3 + 3 * adjustment \in Int /\ better + 3 * more \in Int
        /\ gate3 + 3 * adjustment <= better + 3 * more
    OBVIOUS
  <2> DEFINE x == gate3 + 3 * adjustment
             y == better + 3 * more
  <2> HIDE DEF x, y
  <2>2. Clamp(0, 30, x) \in 0..30 /\ Clamp(0, 30, y) \in 0..30
        /\ Clamp(0, 30, x) <= Clamp(0, 30, y)
    BY <2>1, ClampIsMedian DEF x, y
  <2> QED BY <2>2 DEF x, y
<1>2. others \in Int
  BY ScoresAreMarks
<1> HIDE DEF c, d, others
<1>3. RawScore(old, adjustment) = 40 * c + others /\ RawScore(new, more) = 40 * d + others
  <2>1. SourceScore(source) \in Int /\ FemScore(fem) \in Int /\ RegimeScore(regime) \in Int
    BY ScoresAreMarks
  <2>2. /\ old.gate3 = gate3 /\ old.source = source /\ old.fem = fem /\ old.regime = regime
        /\ new.gate3 = better /\ new.source = source /\ new.fem = fem /\ new.regime = regime
    OBVIOUS
  <2>3. /\ RawScore(old, adjustment) = 40 * c + 90 * SourceScore(source) + 45 * FemScore(fem)
                                       + 45 * RegimeScore(regime)
        /\ RawScore(new, more) = 40 * d + 90 * SourceScore(source) + 45 * FemScore(fem)
                                 + 45 * RegimeScore(regime)
    BY <2>2, Zenon DEF RawScore, c, d
  <2> QED BY <1>1, <2>1, <2>3 DEF others
<1> HIDE DEF old, new
<1>4. /\ RawScore(old, adjustment) \in Int /\ RawScore(new, more) \in Int
      /\ RawScore(old, adjustment) <= RawScore(new, more)
  BY <1>1, <1>2, <1>3
<1> DEFINE r == RoundHalfEven(RawScore(old, adjustment), 300)
           s == RoundHalfEven(RawScore(new, more), 300)
<1>5. r \in Int /\ s \in Int /\ r <= s
  BY <1>4, RoundingOrdered
<1> HIDE DEF r, s
<1>6. Clamp(1, 10, r) \in 1..10 /\ Clamp(1, 10, r) <= Clamp(1, 10, s)
  BY <1>5, ClampIsMedian
<1> QED BY <1>6 DEF ConvictionLevel, r, s, old, new

\* The squares the ceiling is shared out by.
Scores(level, decay) == [t \in DOMAIN level |-> ConvictionSquared(level[t], decay[t])]

LEMMA TargetsUnfold ==
    ASSUME NEW S, NEW level \in [S -> Nat], NEW decay, NEW ceiling
    PROVE  Targets(level, decay, ceiling) =
             [t \in S |->
                IF Sum(Scores(level, decay), S) = 0 THEN 0
                ELSE Min({MaxSinglePosition,
                          (Scores(level, decay)[t] * EffectiveCeiling(ceiling, Whole))
                              \div Sum(Scores(level, decay), S)})]
<1>1. DOMAIN level = S
  OBVIOUS
<1>2. Targets(level, decay, ceiling) =
        [t \in DOMAIN level |->
            IF Sum(Scores(level, decay), DOMAIN level) = 0 THEN 0
            ELSE Min({MaxSinglePosition,
                      (Scores(level, decay)[t] * EffectiveCeiling(ceiling, Whole))
                          \div Sum(Scores(level, decay), DOMAIN level)})]
  BY DEF Targets, Sum, Scores
<1> QED BY <1>1, <1>2, Zenon

LEMMA CeilingBounded ==
    ASSUME NEW ceiling \in Nat
    PROVE  /\ EffectiveCeiling(ceiling, Whole) \in Nat
           /\ EffectiveCeiling(ceiling, Whole) <= ceiling
<1>1. \E x \in {ceiling, 12500, 10000} : \A y \in {ceiling, 12500, 10000} : x =< y
  <2>1. CASE ceiling <= 10000 BY <2>1
  <2>2. CASE ceiling > 10000 BY <2>2
  <2> QED BY <2>1, <2>2
<1>2. /\ Min({ceiling, 12500, 10000}) \in {ceiling, 12500, 10000}
      /\ Min({ceiling, 12500, 10000}) <= ceiling
  BY <1>1 DEF Min
<1> QED BY <1>2 DEF EffectiveCeiling, Whole

LEMMA SquaresOrdered ==
    ASSUME NEW m \in Nat, NEW n \in Nat, m <= n, NEW d \in Nat
    PROVE  /\ ConvictionSquared(m, d) \in Nat
           /\ ConvictionSquared(n, d) \in Nat
           /\ ConvictionSquared(m, d) <= ConvictionSquared(n, d)
<1>1. m * m \in Nat /\ n * n \in Nat
  OBVIOUS
<1>2. m * m <= n * n
  <2>1. m * (n - m) >= 0 /\ n * (n - m) >= 0
    OBVIOUS
  <2>2. m * (n - m) = m * n - m * m /\ n * (n - m) = n * n - m * n
    OBVIOUS
  <2> QED BY <2>1, <2>2
<1> DEFINE p == m * m
           q == n * n
<1> HIDE DEF p, q
<1>3. p \in Nat /\ q \in Nat /\ p <= q
  BY <1>1, <1>2 DEF p, q
<1>4. p * d \in Nat /\ q * d \in Nat /\ p * d <= q * d
  <2>1. (q - p) * d >= 0 /\ (q - p) * d = q * d - p * d
    BY <1>3
  <2>2. p * d \in Nat /\ q * d \in Nat
    BY <1>3
  <2> QED BY <2>1, <2>2
<1> QED BY <1>4 DEF p, q, ConvictionSquared

\* master_engine.py compute_target_weights: the target weights come to no more
\* than the ceiling in all, and each to no more than the cap of a position, for
\* any number of positions, levels and decays.
THEOREM TargetsFitCeiling ==
    ASSUME NEW S, IsFiniteSet(S), NEW level \in [S -> Nat], NEW decay \in [S -> Nat],
           NEW ceiling \in Nat
    PROVE  LET weights == Targets(level, decay, ceiling)
           IN  /\ weights \in [S -> 0..MaxSinglePosition]
               /\ Sum(weights, S) <= ceiling
<1> DEFINE w == Targets(level, decay, ceiling)
           score == Scores(level, decay)
           total == Sum(score, S)
           C == EffectiveCeiling(ceiling, Whole)
           share == [t \in S |-> (score[t] * C) \div total]
<1>1. C \in Nat /\ C <= ceiling
  BY CeilingBounded
<1>2. \A t \in S : score[t] \in Nat
  <2>1. \A t \in S : score[t] = ConvictionSquared(level[t], decay[t])
    BY DEF Scores
  <2> QED BY <2>1 DEF ConvictionSquared
<1>3. total \in Nat
  BY <1>2, SumOfNats, Zenon
<1>4. w = [t \in S |-> IF total = 0 THEN 0
                       ELSE Min({MaxSinglePosition, (score[t] * C) \div total})]
  <2>1. DOMAIN level = S
    OBVIOUS
  <2>2. w = [t \in DOMAIN level |->
                IF Sum(score, DOMAIN level) = 0 THEN 0
                ELSE Min({MaxSinglePosition, (score[t] * C) \div Sum(score, DOMAIN level)})]
    BY DEF Targets, Sum, Scores
  <2> QED BY <2>1, <2>2, Zenon
<1> HIDE DEF w, total, C, score
<1>5. CASE total = 0
  <2>1. \A t \in S : w[t] = 0
    BY <1>4, <1>5
  <2>2. w \in [S -> 0..MaxSinglePosition]
    BY <1>4, <1>5 DEF MaxSinglePosition
  <2>4. Sum(w, S) = 0
    <3>1. \A t \in S : w[t] \in Int /\ w[t] = 0 * w[t]
      BY <2>1
    <3>2. Sum(w, S) = 0 * Sum(w, S)
      BY <3>1, SumScales
    <3>3. Sum(w, S) \in Int
      BY <3>1, SumPicks
    <3> QED BY <3>2, <3>3
  <2> QED BY <1>1, <2>2, <2>4 DEF w
<1>6. CASE total # 0
  <2>1. \A t \in S : /\ share[t] \in Nat
                     /\ total * share[t] <= C * score[t]
    <3> SUFFICES ASSUME NEW t \in S
                 PROVE  share[t] \in Nat /\ total * share[t] <= C * score[t]
      OBVIOUS
    <3>1. score[t] * C \in Nat /\ score[t] * C = C * score[t]
      BY <1>1, <1>2
    <3> QED BY <1>3, <1>6, <3>1, Quotient
  <2>2. \A t \in S : w[t] = Min({MaxSinglePosition, share[t]})
    BY <1>4, <1>6
  <2> HIDE DEF share
  <2>3. \A t \in S : w[t] \in 0..MaxSinglePosition /\ w[t] <= share[t]
    <3> SUFFICES ASSUME NEW t \in S
                 PROVE  w[t] \in 0..MaxSinglePosition /\ w[t] <= share[t]
      OBVIOUS
    <3>1. /\ share[t] \in Nat /\ MaxSinglePosition \in Nat
          /\ share[t] \in Int /\ MaxSinglePosition \in Int
      BY <2>1 DEF MaxSinglePosition
    <3>3. w[t] = Min({MaxSinglePosition, share[t]})
      BY <2>2
    <3>2. /\ w[t] \in {MaxSinglePosition, share[t]}
          /\ w[t] <= share[t] /\ w[t] <= MaxSinglePosition
      BY <3>1, <3>3, LeastOfTwo, Zenon
    <3> QED BY <3>1, <3>2
  <2>4. w \in [S -> 0..MaxSinglePosition]
    BY <1>4, <2>3
  <2> DEFINE scaled == [t \in S |-> total * share[t]]
             ceiled == [t \in S |-> C * score[t]]
  <2>5. \A t \in S : /\ share[t] \in Int /\ w[t] \in Int
                     /\ scaled[t] = total * share[t] /\ scaled[t] \in Int
                     /\ score[t] \in Int
                     /\ ceiled[t] = C * score[t] /\ ceiled[t] \in Int
                     /\ scaled[t] <= ceiled[t]
    BY <1>1, <1>2, <1>3, <2>1, <2>3
  <2>6. total \in Int /\ C \in Int
    BY <1>1, <1>3
  <2> HIDE DEF scaled, ceiled
  <2>7. Sum(scaled, S) = total * Sum(share, S)
    BY <2>5, <2>6, SumScales
  <2>8. Sum(ceiled, S) = C * total
    BY <2>5, <2>6, SumScales DEF total
  <2>9. Sum(scaled, S) <= Sum(ceiled, S)
    BY <2>5, SumsOrdered
  <2>10. Sum(w, S) <= Sum(share, S)
    BY <2>3, <2>5, SumsOrdered
  <2>11. /\ Sum(share, S) \in Int /\ Sum(w, S) \in Int
    BY <2>5, SumPicks
  <2>12. total * Sum(share, S) <= total * C
    BY <1>1, <1>3, <2>7, <2>8, <2>9, <2>11
  <2>13. Sum(share, S) <= C
    BY <1>1, <1>3, <1>6, <2>11, <2>12, Cancels
  <2> QED BY <1>1, <2>4, <2>10, <2>11, <2>13 DEF w
<1> QED BY <1>5, <1>6

\* compute_target_weights: a higher conviction level buys no less of a position,
\* and no more of any other: what it buys more is taken from them.
THEOREM TargetsFollowConviction ==
    ASSUME NEW S, IsFiniteSet(S), NEW level \in [S -> Nat], NEW decay \in [S -> Nat],
           NEW ceiling \in Nat, NEW t \in S, NEW n \in Nat, level[t] <= n
    PROVE  LET old == Targets(level, decay, ceiling)
               new == Targets([level EXCEPT ![t] = n], decay, ceiling)
           IN  /\ old[t] <= new[t]
               /\ \A u \in S \ {t} : Sum(Scores(level, decay), S) > 0 => new[u] <= old[u]
<1> DEFINE better == [level EXCEPT ![t] = n]
           f == Scores(level, decay)
           g == Scores(better, decay)
           C == EffectiveCeiling(ceiling, Whole)
           a == Sum(f, S)
           b == Sum(g, S)
<1>1. better \in [S -> Nat] /\ better[t] = n /\ \A u \in S : u # t => better[u] = level[u]
  OBVIOUS
<1>2. C \in Nat
  BY CeilingBounded
<1>3. /\ \A u \in S : f[u] \in Nat /\ g[u] \in Nat
      /\ \A u \in S : u # t => g[u] = f[u]
      /\ f[t] <= g[t]
  <2>1. /\ \A u \in S : f[u] = ConvictionSquared(level[u], decay[u])
        /\ \A u \in S : g[u] = ConvictionSquared(better[u], decay[u])
    BY <1>1 DEF Scores
  <2>2. \A u \in S : level[u] \in Nat /\ better[u] \in Nat /\ decay[u] \in Nat
    BY <1>1
  <2>3. level[t] <= better[t]
    BY <1>1
  <2> HIDE DEF better, f, g
  <2>4. \A u \in S : f[u] \in Nat /\ g[u] \in Nat
    <3>1. \A u \in S : level[u] <= level[u] /\ better[u] <= better[u]
      BY <2>2
    <3> QED BY <2>1, <2>2, <3>1, SquaresOrdered
  <2>5. f[t] <= g[t]
    <3>1. level[t] \in Nat /\ better[t] \in Nat /\ decay[t] \in Nat
      BY <2>2
    <3>2. ConvictionSquared(level[t], decay[t]) <= ConvictionSquared(better[t], decay[t])
      BY <2>3, <3>1, SquaresOrdered, Zenon
    <3> QED BY <2>1, <3>2
  <2>6. \A u \in S : u # t => g[u] = f[u]
    BY <1>1, <2>1
  <2> QED BY <2>4, <2>5, <2>6
<1>4. /\ Targets(level, decay, ceiling) =
            [u \in S |-> IF a = 0 THEN 0 ELSE Min({MaxSinglePosition, (f[u] * C) \div a})]
      /\ Targets(better, decay, ceiling) =
            [u \in S |-> IF b = 0 THEN 0 ELSE Min({MaxSinglePosition, (g[u] * C) \div b})]
  <2>1. Targets(level, decay, ceiling) =
            [u \in S |-> IF a = 0 THEN 0 ELSE Min({MaxSinglePosition, (f[u] * C) \div a})]
    BY TargetsUnfold
  <2> HIDE DEF better
  <2>2. Targets(better, decay, ceiling) =
            [u \in S |-> IF b = 0 THEN 0 ELSE Min({MaxSinglePosition, (g[u] * C) \div b})]
    BY <1>1, TargetsUnfold
  <2> QED BY <2>1, <2>2
<1> HIDE DEF better, f, g, C
<1>5. /\ a \in Nat /\ b \in Nat /\ b = a + (g[t] - f[t])
      /\ f[t] <= a /\ f[t] \in Nat /\ g[t] \in Nat
  <2>1. /\ \A u \in S : f[u] \in Nat
        /\ \A u \in S : g[u] \in Nat
        /\ \A u \in S : f[u] \in Int /\ g[u] \in Int
    BY <1>3
  <2>2. a \in Nat /\ f[t] <= a
    BY <2>1, SumOfNats
  <2>3. b \in Nat
    BY <2>1, SumOfNats
  <2>4. b = a + (g[t] - f[t])
    BY <1>3, <2>1, SumChanges
  <2> QED BY <2>1, <2>2, <2>3, <2>4
<1> HIDE DEF a, b
<1>6. MaxSinglePosition \in Int /\ MaxSinglePosition >= 0
  BY DEF MaxSinglePosition
<1>7. CASE a = 0
  <2>1. Targets(level, decay, ceiling)[t] = 0
    BY <1>4, <1>7
  <2>2. Targets(better, decay, ceiling)[t] >= 0
    <3>1. CASE b = 0
      BY <1>4, <3>1
    <3>2. CASE b # 0
      <4>1. Targets(better, decay, ceiling)[t] = Min({MaxSinglePosition, (g[t] * C) \div b})
        BY <1>4, <3>2
      <4>2. (g[t] * C) \div b \in Nat
        <5>1. g[t] * C \in Nat
          BY <1>2, <1>5
        <5> QED BY <1>5, <3>2, <5>1, Quotient
      <4>3. Min({MaxSinglePosition, (g[t] * C) \div b})
              \in {MaxSinglePosition, (g[t] * C) \div b}
        <5>1. (g[t] * C) \div b \in Int
          BY <4>2
        <5> QED BY <1>6, <5>1, LeastOfTwo, Zenon
      <4> QED BY <1>6, <4>1, <4>2, <4>3
    <3> QED BY <3>1, <3>2
  <2>3. Sum(Scores(level, decay), S) = 0
    BY <1>7 DEF a, f
  <2> QED BY <2>1, <2>2, <2>3 DEF better
<1>8. CASE a # 0
  <2>1. a \in Nat \ {0} /\ b \in Nat \ {0} /\ a <= b
    BY <1>3, <1>5, <1>8
  <2>2. \A u \in S : /\ (f[u] * C) \div a \in Int /\ (g[u] * C) \div b \in Int
                     /\ f[u] * C \in Nat /\ g[u] * C \in Nat
    <3> SUFFICES ASSUME NEW u \in S
                 PROVE  /\ (f[u] * C) \div a \in Int /\ (g[u] * C) \div b \in Int
                        /\ f[u] * C \in Nat /\ g[u] * C \in Nat
      OBVIOUS
    <3>1. f[u] * C \in Nat /\ g[u] * C \in Nat
      BY <1>2, <1>3
    <3> QED BY <2>1, <3>1, Quotient
  <2>3. (f[t] * C) \div a <= (g[t] * C) \div b
    <3>1. f[t] * b <= g[t] * a
      <4>1. f[t] * b = f[t] * a + f[t] * (g[t] - f[t])
        BY <1>5
      <4>2. g[t] * a = f[t] * a + a * (g[t] - f[t])
        BY <1>5
      <4>3. (a - f[t]) * (g[t] - f[t]) >= 0
        BY <1>3, <1>5
      <4>4. (a - f[t]) * (g[t] - f[t]) = a * (g[t] - f[t]) - f[t] * (g[t] - f[t])
        BY <1>5
      <4>5. f[t] * a \in Int /\ f[t] * (g[t] - f[t]) \in Int /\ a * (g[t] - f[t]) \in Int
        BY <1>5
      <4> QED BY <4>1, <4>2, <4>3, <4>4, <4>5
    <3>2. (f[t] * C) * b <= (g[t] * C) * a
      <4>1. f[t] * b \in Int /\ g[t] * a \in Int
        BY <1>5
      <4>2. C * (g[t] * a - f[t] * b) >= 0
        BY <1>2, <3>1, <4>1
      <4>3. C * (g[t] * a - f[t] * b) = C * (g[t] * a) - C * (f[t] * b)
        BY <1>2, <4>1
      <4>4. C * (g[t] * a) = (g[t] * C) * a /\ C * (f[t] * b) = (f[t] * C) * b
        BY <1>2, <1>5
      <4>5. (g[t] * C) * a \in Int /\ (f[t] * C) * b \in Int
        BY <1>2, <1>5
      <4> QED BY <4>2, <4>3, <4>4, <4>5
    <3> QED BY <2>1, <2>2, <3>2, QuotientsOrdered
  <2>4. Min({MaxSinglePosition, (f[t] * C) \div a}) <= Min({MaxSinglePosition, (g[t] * C) \div b})
    BY <1>6, <2>2, <2>3, LeastOrdered
  <2>5. \A u \in S \ {t} :
          Min({MaxSinglePosition, (g[u] * C) \div b}) <= Min({MaxSinglePosition, (f[u] * C) \div a})
    <3> SUFFICES ASSUME NEW u \in S, u # t
                 PROVE  Min({MaxSinglePosition, (g[u] * C) \div b})
                          <= Min({MaxSinglePosition, (f[u] * C) \div a})
      OBVIOUS
    <3>1. g[u] = f[u]
      BY <1>3
    <3>2. (f[u] * C) * a <= (f[u] * C) * b
      <4>1. (f[u] * C) * (b - a) >= 0
        BY <2>1, <2>2
      <4> QED BY <2>1, <2>2, <4>1
    <3>3. (f[u] * C) \div b <= (f[u] * C) \div a
      BY <2>1, <2>2, <3>2, QuotientsOrdered
    <3> QED BY <1>6, <2>2, <3>1, <3>3, LeastOrdered
  <2>6. /\ Targets(level, decay, ceiling)[t] = Min({MaxSinglePosition, (f[t] * C) \div a})
        /\ Targets(better, decay, ceiling)[t] = Min({MaxSinglePosition, (g[t] * C) \div b})
        /\ \A u \in S : /\ Targets(level, decay, ceiling)[u]
                              = Min({MaxSinglePosition, (f[u] * C) \div a})
                         /\ Targets(better, decay, ceiling)[u]
                              = Min({MaxSinglePosition, (g[u] * C) \div b})
    BY <1>4, <2>1
  <2> QED BY <2>4, <2>5, <2>6 DEF better
<1> QED BY <1>7, <1>8

----------------------------------------------------------------------------
\* trade_order_generator.py and main.py:622-624: when the orders of a sweep are
\* done, the book is within the ceiling its targets were made under, up to the
\* deadband of each position, outside of the crisis tier, also where the purchases
\* were blocked. Targets are what compute_target_weights makes of any conviction
\* levels and decays.
THEOREM CeilingHolds ==
    ASSUME \A p \in Plans : \E level, decay \in [Tickers -> Nat] :
               p.weights = Targets(level, decay, p.ceiling)
    PROVE  Spec => []CeilingKept
<1>0. \A p \in Plans : Invested(p.weights) <= p.ceiling
  <2> SUFFICES ASSUME NEW p \in Plans
               PROVE  Invested(p.weights) <= p.ceiling
    OBVIOUS
  <2>1. PICK level \in [Tickers -> Nat], decay \in [Tickers -> Nat] :
            p.weights = Targets(level, decay, p.ceiling)
    OBVIOUS
  <2>2. IsFiniteSet(Tickers) /\ p.ceiling \in Nat
    BY RulebookAssumption, PlansAssumption
  <2>3. Sum(p.weights, Tickers) <= p.ceiling
    BY <2>1, <2>2, TargetsFitCeiling, Zenon
  <2> QED BY <2>3 DEF Invested, Sum
<1>1. Inv => CeilingKept
  <2> SUFFICES ASSUME Inv, stage = "fill", orders = Nothing, ~R!ExecutionHalted(vix)
               PROVE  Invested(book) <= plan.ceiling + Cardinality(Tickers) * Deadband
    BY DEF CeilingKept
  <2>1. /\ book \in Weightings /\ plan.weights \in Weightings /\ plan.ceiling \in Nat
        /\ Invested(plan.weights) <= plan.ceiling
    BY <1>0, PlansAssumption DEF Inv, TypeOK
  <2>2. \A t \in Tickers : /\ book[t] \in Int /\ plan.weights[t] \in Int
                           /\ book[t] <= plan.weights[t] + Deadband
    <3>1. \A t \in Tickers : Accounted(t) /\ orders[t] = 0
      BY DEF Inv, Nothing
    <3> QED BY <2>1, <3>1 DEF Accounted, Weightings
  <2>3. Invested(book) = Sum(book, Tickers) /\ Invested(plan.weights) = Sum(plan.weights, Tickers)
    BY DEF Invested, Sum
  <2>4. Sum(book, Tickers) \in Int /\ Sum(plan.weights, Tickers) \in Int
    BY <2>2, RulebookAssumption, SumPicks
  <2>5. Deadband \in Int
    BY DEF Deadband
  <2>6. Sum(book, Tickers) <= Sum(plan.weights, Tickers) + Cardinality(Tickers) * Deadband
    BY <2>2, <2>5, RulebookAssumption, SumsWithin
  <2>7. Cardinality(Tickers) * Deadband \in Int
    BY <2>5, RulebookAssumption, FS_CardinalityType
  <2> QED BY <2>1, <2>3, <2>4, <2>6, <2>7
<1> QED BY <1>1, Invariance, PTL

=============================================================================
