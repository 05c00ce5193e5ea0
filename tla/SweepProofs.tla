---------------------------- MODULE SweepProofs ----------------------------
(***************************************************************************)
(* The safety properties of the sweep, for every set of positions, VIX     *)
(* levels and targets, and any number of attempts. The invariant follows   *)
(* one attempt's book: what its entries are, which of them may still be    *)
(* there given what the checks said, and that an entry leaves the batch    *)
(* exactly when its id enters the attempt's record, or suppression drops   *)
(* it.                                                                     *)
(***************************************************************************)
EXTENDS MorningSweep, TLAPS

\* What an entry of each generator looks like, for the positions it was made
\* from and the targets it was made for.
IsPut(e) ==
    /\ e.module = "PTRH" /\ e.action \in {"BUY_PUT", "SELL_PUT"} /\ e.item = Hedge
    /\ e.notional = 0 /\ e.priority = 1
IsOverwrite(e) ==
    /\ e.module = "PERM" /\ e.action = "SELL_CALL" /\ e.item \in Tickers
    /\ e.notional = 0 /\ e.priority = 3 /\ ~e.contract
IsTrim(e) ==
    /\ e.module = "FEM" /\ e.action = "SELL" /\ e.item \in Tickers
    /\ e.notional = 0 /\ e.priority = 2
IsDrift(e, value, goal) ==
    /\ e.module = "MASTER_ENGINE" /\ e.item \in Tickers
    /\ e.notional = goal[e.item] - value[e.item] /\ e.notional # 0
    /\ e.action = IF e.notional > 0 THEN "BUY" ELSE "SELL"
    /\ e.priority = 4
Entry(e, value, goal) == IsPut(e) \/ IsOverwrite(e) \/ IsTrim(e) \/ IsDrift(e, value, goal)

BookShape == \A e \in booked : Entry(e, MarketValue, target)

UniqueIds == \A e, f \in booked : Id(e) = Id(f) => e = f

PhaseShape ==
    /\ phase \in {"read", "book"} => booked = {}
    /\ phase \in {"read", "book", "preflight"} => ~blocked
    /\ phase \in {"read", "book", "preflight", "escalation"}
        => todo = {} /\ sentNow = {} /\ ~suppressed

\* What a check forbids is no longer in the book, or never leaves it.
CheckShape ==
    /\ tripped \/ ExecutionHalted(vix) => booked = {}
    /\ blocked => Buys(booked) = {}
    /\ suppressed => \A id \in sentNow : id[2] # "BUY"

\* What was sent is in the book and no longer in the batch; what is no longer
\* in the batch was sent, or dropped by suppression.
SentShape ==
    /\ \A id \in sentNow : id[1] # "PERM" /\ \E e \in booked \ todo : Id(e) = id
    /\ phase = "submit" => \A e \in booked \ todo : e.action = "BUY" \/ Id(e) \in sentNow

OrderShape == HedgedBeforeRebalanced /\ OverwriteStopsRebalance

Reconciled(t) == OnTarget(t) \/ Abs(pos[t] + working[t] - seen[t]) = 1

QuietShape ==
    \A t \in quiet :
        /\ Rebalanced(t) => Reconciled(t)
        /\ ~Rebalanced(t) /\ phase \notin {"none", "read"} => pos[t] + working[t] = seen[t]

JobShape ==
    /\ job = "idle" => attempt = 0
    /\ job = "backoff" => attempt < MaxRetries

IInv == /\ TypeOK /\ BookShape /\ UniqueIds /\ PhaseShape /\ CheckShape
        /\ SentShape /\ OrderShape /\ QuietShape /\ JobShape

----------------------------------------------------------------------------
(* What is generated and booked, and what it comes to in shares.           *)

\* What a position is worth is a number.
LEMMA ValuesAreInt ==
    ASSUME seen \in [Tickers -> Int], quote \in [Tickers -> Nat]
    PROVE  MarketValue \in [Tickers -> Int]
  <1>1. \A t \in Tickers : seen[t] * quote[t] \in Int
    OBVIOUS
  <1>2. QED BY <1>1 DEF MarketValue

\* The shares of an order are worth what it is made for up to half a share, or
\* they are the one share an order is at least for.
LEMMA SharesAreNear ==
    ASSUME NEW n \in Nat, NEW p \in Nat, p > 0
    PROVE  /\ Shares(n, p) \in Nat
           /\ \/ Shares(n, p) = 1
              \/ 2 * Abs(p * Shares(n, p) - n) <= p
  <1> DEFINE w == n \div p
             r == n % p
             d == p * w
  <1>1. w \in Int /\ w >= 0
    OBVIOUS
  <1>2. r \in Int /\ r >= 0 /\ r < p
    OBVIOUS
  <1>3. n = d + r
    OBVIOUS
  <1>4. d \in Int /\ p * (w + 1) = d + p
    BY <1>1
  <1>5. Nearest(n, p) = IF 2 * r > p \/ (2 * r = p /\ w % 2 = 1) THEN w + 1 ELSE w
    BY DEF Nearest
  <1> HIDE DEF w, r
  <1>6. CASE Nearest(n, p) = w + 1
    <2>1. 2 * r >= p
      <3>1. CASE 2 * r > p \/ (2 * r = p /\ w % 2 = 1) BY <3>1, <1>2
      <3>2. CASE ~(2 * r > p \/ (2 * r = p /\ w % 2 = 1)) BY <3>2, <1>1, <1>5, <1>6
      <3>3. QED BY <3>1, <3>2
    <2> HIDE DEF d
    <2>2. 2 * Abs((d + p) - n) <= p
      BY <2>1, <1>2, <1>3, <1>4 DEF Abs
    <2>3. p * Nearest(n, p) = d + p
      BY <1>4, <1>6
    <2>4. Nearest(n, p) \in Nat BY <1>1, <1>6
    <2>5. QED BY <2>2, <2>3, <2>4 DEF Shares
  <1>7. CASE Nearest(n, p) = w
    <2>1. 2 * r <= p
      <3>1. CASE 2 * r > p BY <3>1, <1>1, <1>5, <1>7
      <3>2. CASE ~(2 * r > p) BY <3>2, <1>2
      <3>3. QED BY <3>1, <3>2
    <2>2. p * Nearest(n, p) = d
      BY <1>7 DEF d
    <2> HIDE DEF d
    <2>3. 2 * Abs(d - n) <= p
      BY <2>1, <1>2, <1>3, <1>4 DEF Abs
    <2>4. Nearest(n, p) \in Nat BY <1>1, <1>7
    <2>5. QED BY <2>2, <2>3, <2>4 DEF Shares
  <1>8. QED BY <1>5, <1>6, <1>7

\* An order of q shares for the drift n of a position leads from s shares to the
\* target, up to half a share and to what s shares have gained from v to p each.
LEMMA Reconciling ==
    ASSUME NEW s \in Int, NEW v \in Int, NEW p \in Int, NEW n \in Int, NEW q \in Int,
           NEW goal \in Int, n = goal - s * v, 2 * Abs(p * q - Abs(n)) <= p
    PROVE  2 * Abs(p * (s + UnitToward(n) * q) - goal) <= p + 2 * Abs(s * (p - v))
  <1> DEFINE x == p * q
             y == s * (p - v)
             z == p * s
  <1>1. y = z - s * v /\ s * v \in Int /\ x \in Int /\ y \in Int /\ z \in Int
    OBVIOUS
  <1>2. CASE n > 0
    <2>1. UnitToward(n) * q = q /\ p * (s + q) = z + x /\ Abs(n) = n
      BY <1>2 DEF UnitToward, Abs
    <2>2. p * (s + UnitToward(n) * q) = z + x
      BY <2>1
    <2> HIDE DEF x, y, z
    <2>3. z + x - goal = y + (x - n)
      BY <1>1
    <2>4. 2 * Abs(x - n) <= p
      BY <2>1 DEF x
    <2>5. 2 * Abs(y + (x - n)) <= p + 2 * Abs(y)
      BY <1>1, <2>4 DEF Abs
    <2>6. 2 * Abs(z + x - goal) <= p + 2 * Abs(y)
      BY <2>3, <2>5
    <2> DEFINE a == p * (s + UnitToward(n) * q)
               b == s * (p - v)
    <2>7. a = z + x /\ b = y
      BY <2>2 DEF y
    <2> HIDE DEF a, b
    <2>8. 2 * Abs(a - goal) <= p + 2 * Abs(b)
      BY <1>1, <2>6, <2>7
    <2>9. QED BY <2>8, Zenon DEF a, b
  <1>3. CASE ~(n > 0)
    <2>1. UnitToward(n) * q = -q /\ p * (s + (-q)) = z - x /\ Abs(n) = -n
      BY <1>3 DEF UnitToward, Abs
    <2>2. p * (s + UnitToward(n) * q) = z - x
      BY <2>1
    <2> HIDE DEF x, y, z
    <2>3. z - x - goal = y - (x + n)
      BY <1>1
    <2>4. 2 * Abs(x + n) <= p
      <3>1. x - (-n) = x + n BY <1>1
      <3>2. QED BY <2>1, <3>1 DEF x
    <2>5. 2 * Abs(y - (x + n)) <= p + 2 * Abs(y)
      BY <1>1, <2>4 DEF Abs
    <2>6. 2 * Abs(z - x - goal) <= p + 2 * Abs(y)
      BY <2>3, <2>5
    <2> DEFINE a == p * (s + UnitToward(n) * q)
               b == s * (p - v)
    <2>7. a = z - x /\ b = y
      BY <2>2 DEF y
    <2> HIDE DEF a, b
    <2>8. 2 * Abs(a - goal) <= p + 2 * Abs(b)
      BY <1>1, <2>6, <2>7
    <2>9. QED BY <2>8, Zenon DEF a, b
  <1>4. QED BY <1>2, <1>3

\* Every request of the sweep is one of four; targets are positive, so that
\* there is no full exit.
LEMMA GeneratedForms ==
    ASSUME NEW plan, NEW priced, NEW gainers \in SUBSET Tickers,
           NEW goal \in Targets,
           MarketValue \in [Tickers -> Int],
           NEW r \in Generated(plan, priced, gainers, goal)
    PROVE  \/ \E a \in {"BUY_PUT", "SELL_PUT"} : r = PutOrder(a, priced)
           \/ \E t \in Tickers : r = Overwrite(t)
           \/ \E t \in Tickers : r = Trim(t)
           \/ \E t \in Tickers : r = Drift(t, MarketValue, goal) /\ goal[t] # MarketValue[t]
  <1>1. CASE r \in PtrhOrders(plan, priced)
    BY <1>1 DEF PtrhOrders
  <1>2. CASE r \in PermOrders(gainers, vix)
    BY <1>2 DEF PermOrders
  <1>3. CASE r \in RebalanceOrders(MarketValue, goal)
    <2>1. \A t \in Tickers : goal[t] # 0 /\ goal[t] \in Int /\ MarketValue[t] \in Int
      BY SweepAssumption
    <2>2. PICK t \in Tickers :
             r = Drift(t, MarketValue, goal) /\ Abs(goal[t] - MarketValue[t]) > Deadband
      BY <1>3, <2>1 DEF RebalanceOrders
    <2>3. goal[t] # MarketValue[t]
      BY <2>1, <2>2, DeadbandAssumption DEF Abs
    <2>4. QED BY <2>2, <2>3
  <1>4. CASE r \in Trims
    BY <1>4, SweepAssumption DEF Trims, FemTrims
  <1>5. QED BY <1>1, <1>2, <1>3, <1>4 DEF Generated

\* No two requests of an attempt share an id.
LEMMA GeneratedUnique ==
    ASSUME NEW plan, NEW priced, NEW gainers \in SUBSET Tickers,
           NEW goal \in Targets,
           MarketValue \in [Tickers -> Int],
           NEW r \in Generated(plan, priced, gainers, goal),
           NEW s \in Generated(plan, priced, gainers, goal),
           Id(r) = Id(s)
    PROVE  r = s
  <1> DEFINE Form(x) == \/ \E a \in {"BUY_PUT", "SELL_PUT"} : x = PutOrder(a, priced)
                        \/ \E t \in Tickers : x = Overwrite(t)
                        \/ \E t \in Tickers : x = Trim(t)
                        \/ \E t \in Tickers : x = Drift(t, MarketValue, goal)
  <1>1. Form(r) /\ Form(s)
    BY GeneratedForms
  <1>2. r.module = s.module /\ r.action = s.action /\ r.item = s.item
    BY DEF Id
  <1> DEFINE ById(x) == \/ x.module = "PTRH" /\ x = PutOrder(x.action, priced)
                        \/ x.module = "PERM" /\ x = Overwrite(x.item)
                        \/ x.module = "FEM" /\ x = Trim(x.item)
                        \/ x.module = "MASTER_ENGINE" /\ x = Drift(x.item, MarketValue, goal)
  <1>3. ASSUME NEW x, Form(x) PROVE ById(x)
    <2>1. CASE \E a \in {"BUY_PUT", "SELL_PUT"} : x = PutOrder(a, priced)
      <3>1. PICK a \in {"BUY_PUT", "SELL_PUT"} : x = PutOrder(a, priced) BY <2>1
      <3>2. x.module = "PTRH" /\ x.action = a BY <3>1 DEF PutOrder, Request
      <3>3. QED BY <3>1, <3>2
    <2>2. CASE \E t \in Tickers : x = Overwrite(t)
      <3>1. PICK t \in Tickers : x = Overwrite(t) BY <2>2
      <3>2. x.module = "PERM" /\ x.item = t BY <3>1 DEF Overwrite, Request
      <3>3. QED BY <3>1, <3>2
    <2>3. CASE \E t \in Tickers : x = Trim(t)
      <3>1. PICK t \in Tickers : x = Trim(t) BY <2>3
      <3>2. x.module = "FEM" /\ x.item = t BY <3>1 DEF Trim, Request
      <3>3. QED BY <3>1, <3>2
    <2>4. CASE \E t \in Tickers : x = Drift(t, MarketValue, goal)
      <3>1. PICK t \in Tickers : x = Drift(t, MarketValue, goal) BY <2>4
      <3>2. x.module = "MASTER_ENGINE" /\ x.item = t BY <3>1 DEF Drift, Request
      <3>3. QED BY <3>1, <3>2
    <2>5. QED BY <1>3, <2>1, <2>2, <2>3, <2>4
  <1>4. ById(r) /\ ById(s)
    BY <1>1, <1>3
  <1>5. QED BY <1>2, <1>4

\* An entry of the book has a known shape, and an id of its own.
LEMMA BookedEntries ==
    ASSUME NEW plan, NEW priced, NEW gainers \in SUBSET Tickers,
           NEW goal \in Targets, MarketValue \in [Tickers -> Int],
           NEW e \in Booked(Generated(plan, priced, gainers, goal))
    PROVE  /\ Entry(e, MarketValue, goal)
           /\ \A f \in Booked(Generated(plan, priced, gainers, goal)) :
                 Id(e) = Id(f) => e = f
  <1> DEFINE G == Generated(plan, priced, gainers, goal)
             Typed(r) == [r EXCEPT !.type = ResolveOrderType(vix, r)]
  <1>1. \A f \in Booked(G) : \E r \in G : f = Typed(r)
    BY DEF Booked, ProcessRequests
  <1>2. \A r \in G : Id(Typed(r)) = Id(r) /\ Entry(Typed(r), MarketValue, goal)
    <2> SUFFICES ASSUME NEW r \in G PROVE Id(Typed(r)) = Id(r) /\ Entry(Typed(r), MarketValue, goal)
      OBVIOUS
    <2> HIDE DEF G
    <2> DEFINE x == ResolveOrderType(vix, r)
    <2> HIDE DEF x
    <2>0. Typed(r) = [r EXCEPT !.type = x] BY DEF x
    <2>1. ASSUME NEW a \in {"BUY_PUT", "SELL_PUT"}, r = PutOrder(a, priced)
          PROVE  Id(Typed(r)) = Id(r) /\ IsPut(Typed(r))
      BY <2>0, <2>1 DEF PutOrder, Request, Id, IsPut
    <2>2. ASSUME NEW t \in Tickers, r = Overwrite(t)
          PROVE  Id(Typed(r)) = Id(r) /\ IsOverwrite(Typed(r))
      BY <2>0, <2>2 DEF Overwrite, Request, Id, IsOverwrite
    <2>3. ASSUME NEW t \in Tickers, r = Trim(t)
          PROVE  Id(Typed(r)) = Id(r) /\ IsTrim(Typed(r))
      BY <2>0, <2>3 DEF Trim, Request, Id, IsTrim
    <2>4. ASSUME NEW t \in Tickers, r = Drift(t, MarketValue, goal), goal[t] # MarketValue[t]
          PROVE  Id(Typed(r)) = Id(r) /\ IsDrift(Typed(r), MarketValue, goal)
      <3>1. goal[t] \in Int /\ MarketValue[t] \in Int BY SweepAssumption
      <3>2. /\ goal[t] > MarketValue[t] <=> goal[t] - MarketValue[t] > 0
            /\ goal[t] - MarketValue[t] # 0
        BY <2>4, <3>1
      <3>3. QED BY <2>0, <2>4, <3>2 DEF Drift, Request, Id, IsDrift
    <2>5. QED BY <2>1, <2>2, <2>3, <2>4, GeneratedForms DEF Entry, G
  <1>3. QED BY <1>1, <1>2, GeneratedUnique

----------------------------------------------------------------------------
(* The invariant.                                                          *)

LEMMA InitIInv == Init => IInv
  <1> SUFFICES ASSUME Init PROVE IInv
    OBVIOUS
  <1>1. TypeOK
    <2>1. InitialPositions \in [Tickers -> Int]
      BY SweepAssumption
    <2>2. MaxRetries \in Nat
      BY SweepAssumption
    <2>5. quote \in [Tickers -> Nat] /\ paid \in [Tickers -> Nat]
      BY DEF Init, Unpriced
    <2>3. sent \in [OrderIds -> Nat] /\ working \in [Tickers -> Int] /\ 0 \in 0..MaxRetries
      BY <2>2 DEF Init
    <2>4. QED BY <2>1, <2>3, <2>5 DEF Init, TypeOK
  <1>2. QED
    BY <1>1 DEF Init, IInv, BookShape, UniqueIds, PhaseShape, CheckShape, Buys, SentShape,
                OrderShape, HedgedBeforeRebalanced, OverwriteStopsRebalance,
                QuietShape, JobShape

\* The entries of the book are read by what no step but BookOrders and Preflight
\* changes.
LEMMA SameBook ==
    ASSUME IInv, UNCHANGED <<booked, seen, quote, target>>
    PROVE  BookShape' /\ UniqueIds'
  BY DEF IInv, BookShape, UniqueIds, MarketValue

\* Neither are the orders of an attempt that places none.
LEMMA SameOrders ==
    ASSUME IInv, UNCHANGED <<booked, sentNow>>
    PROVE  OrderShape'
  BY DEF IInv, OrderShape, HedgedBeforeRebalanced, OverwriteStopsRebalance

LEMMA SameQuiet ==
    ASSUME IInv, UNCHANGED <<seen, quote, pos, working, quiet, target, sentNow, paid>>,
           phase' \in {"none", phase}
    PROVE  QuietShape'
  BY DEF IInv, QuietShape, Rebalanced, Reconciled, OnTarget

LEMMA StartStep == IInv /\ StartAttempt => IInv'
  <1> SUFFICES ASSUME IInv, StartAttempt PROVE IInv'
    OBVIOUS
  <1> USE DEF StartAttempt, world, history, Unpriced
  <1>1. TypeOK'
    <2>1. attempt' \in 0..MaxRetries
      BY SweepAssumption DEF IInv, TypeOK, JobShape
    <2>2. QED BY <2>1 DEF IInv, TypeOK
  <1>2. BookShape' /\ UniqueIds' /\ PhaseShape' /\ CheckShape' /\ SentShape'
    BY DEF BookShape, UniqueIds, PhaseShape, CheckShape, Buys, SentShape
  <1>3. OrderShape' /\ QuietShape' /\ JobShape'
    BY DEF OrderShape, HedgedBeforeRebalanced, OverwriteStopsRebalance, QuietShape, Rebalanced,
           JobShape
  <1>4. QED BY <1>1, <1>2, <1>3 DEF IInv

LEMMA FailStep == IInv /\ AttemptFails /\ job = "running" => IInv'
  <1> SUFFICES ASSUME IInv, AttemptFails, job = "running" PROVE IInv'
    OBVIOUS
  <1> USE DEF AttemptFails, GiveUp, read, book, placed, world, history
  <1>1. TypeOK'
    BY SweepAssumption DEF IInv, TypeOK
  <1>2. BookShape' /\ UniqueIds' /\ OrderShape' /\ QuietShape'
    BY SameBook, SameOrders, SameQuiet
  <1>3. PhaseShape' /\ CheckShape' /\ SentShape'
    BY DEF IInv, PhaseShape, CheckShape, Buys, SentShape
  <1>4. JobShape'
    BY DEF IInv, JobShape
  <1>5. QED BY <1>1, <1>2, <1>3, <1>4 DEF IInv

LEMMA AlertStep == IInv /\ SendAlert => IInv'
  <1> SUFFICES ASSUME IInv, SendAlert PROVE IInv'
    OBVIOUS
  <1> USE DEF SendAlert, read, book, placed, world, history
  <1>1. TypeOK' /\ JobShape'
    BY DEF IInv, TypeOK, JobShape
  <1>2. BookShape' /\ UniqueIds' /\ OrderShape' /\ QuietShape'
    BY SameBook, SameOrders, SameQuiet
  <1>3. PhaseShape' /\ CheckShape' /\ SentShape'
    BY DEF IInv, PhaseShape, CheckShape, Buys, SentShape
  <1>4. QED BY <1>1, <1>2, <1>3 DEF IInv

LEMMA ReadStep == IInv /\ ReadMarket => IInv'
  <1> SUFFICES ASSUME IInv, ReadMarket PROVE IInv'
    OBVIOUS
  <1> USE DEF ReadMarket, book, placed, world
  <1>0. booked = {} /\ todo = {} /\ sentNow = {} /\ ~blocked /\ ~suppressed
    BY DEF IInv, PhaseShape
  <1>1. TypeOK' /\ JobShape'
    <2>1. quote' \in [Tickers -> Nat] /\ vix' \in Nat /\ crash' \in BOOLEAN
      BY SweepAssumption
    <2>2. QED BY <2>1 DEF IInv, TypeOK, JobShape
  <1>2. BookShape' /\ UniqueIds' /\ PhaseShape' /\ CheckShape' /\ SentShape'
    BY <1>0 DEF BookShape, UniqueIds, PhaseShape, CheckShape, Buys, SentShape
  <1>3. OrderShape'
    BY <1>0 DEF OrderShape, HedgedBeforeRebalanced, OverwriteStopsRebalance
  <1>4. QuietShape'
    <2> SUFFICES ASSUME NEW t \in Tickers, working[t] = 0
                 PROVE  pos[t] + working[t] = pos[t]
      BY <1>0 DEF QuietShape, Rebalanced
    <2>1. QED BY DEF IInv, TypeOK
  <1>5. QED BY <1>1, <1>2, <1>3, <1>4 DEF IInv

LEMMA BookStep ==
    ASSUME IInv, NEW plan, NEW priced, NEW gainers \in GainerSets, NEW goal \in Targets,
           BookOrders(plan, priced, gainers, goal)
    PROVE  IInv'
  <1> USE DEF BookOrders, read, placed
  <1>0. todo = {} /\ sentNow = {} /\ ~blocked /\ ~suppressed
    BY DEF IInv, PhaseShape
  <1>1. gainers \in SUBSET Tickers
    BY SweepAssumption
  <1>2. \A e \in booked' : Entry(e, MarketValue, goal) /\ \A f \in booked' : Id(e) = Id(f) => e = f
    <2>1. MarketValue \in [Tickers -> Int]
      BY ValuesAreInt DEF IInv, TypeOK
    <2>2. QED BY <1>1, <2>1, BookedEntries
  <1>3. TypeOK'
    <2>1. ASSUME NEW e \in booked' PROVE Id(e) \in OrderIds /\ e.notional \in Int
      <3>1. CASE IsPut(e) BY <3>1 DEF IsPut, Id, OrderIds
      <3>2. CASE IsOverwrite(e) BY <3>2 DEF IsOverwrite, Id, OrderIds
      <3>3. CASE IsTrim(e) BY <3>3 DEF IsTrim, Id, OrderIds
      <3>4. CASE IsDrift(e, MarketValue, goal)
        <4>1. goal[e.item] \in Int /\ MarketValue[e.item] \in Int
          BY <3>4, SweepAssumption, ValuesAreInt DEF IInv, TypeOK, IsDrift
        <4>2. e.notional \in Int BY <3>4, <4>1 DEF IsDrift
        <4>3. Id(e) \in OrderIds BY <3>4 DEF IsDrift, Id, OrderIds
        <4>4. QED BY <4>2, <4>3
      <3>5. QED BY <1>2, <3>1, <3>2, <3>3, <3>4 DEF Entry
    <2>2. QED BY <2>1, <1>0 DEF IInv, TypeOK
  <1>4. BookShape' /\ UniqueIds'
    BY <1>2 DEF BookShape, UniqueIds, MarketValue
  <1>5. PhaseShape' /\ SentShape'
    BY <1>0 DEF PhaseShape, SentShape
  <1>6. CheckShape'
    BY <1>0 DEF CheckShape, Booked, ProcessRequests
  <1>7. OrderShape' /\ JobShape'
    BY <1>0 DEF IInv, OrderShape, HedgedBeforeRebalanced, OverwriteStopsRebalance, JobShape
  <1>8. QuietShape'
    BY <1>0 DEF IInv, QuietShape, Rebalanced
  <1>9. QED BY <1>3, <1>4, <1>5, <1>6, <1>7, <1>8 DEF IInv

LEMMA PreflightStep ==
    ASSUME IInv, NEW verdict \in BOOLEAN, Preflight(verdict)
    PROVE  IInv'
  <1> USE DEF Preflight, read, placed, world, history
  <1>0. todo = {} /\ sentNow = {} /\ ~suppressed
    BY DEF IInv, PhaseShape
  <1>1. booked' \subseteq booked
    OBVIOUS
  <1>2. TypeOK' /\ JobShape'
    BY <1>0, <1>1 DEF IInv, TypeOK, JobShape
  <1>3. BookShape' /\ UniqueIds'
    BY <1>1 DEF IInv, BookShape, UniqueIds, MarketValue
  <1>4. PhaseShape' /\ SentShape'
    BY <1>0 DEF PhaseShape, SentShape
  <1>5. CheckShape'
    BY <1>0, <1>1 DEF IInv, CheckShape, Buys
  <1>6. OrderShape'
    BY <1>0 DEF OrderShape, HedgedBeforeRebalanced, OverwriteStopsRebalance
  <1>7. QuietShape'
    BY <1>0 DEF IInv, QuietShape, Rebalanced
  <1>8. QED BY <1>2, <1>3, <1>4, <1>5, <1>6, <1>7 DEF IInv

LEMMA EscalationStep ==
    ASSUME IInv, NEW verdict \in BOOLEAN, CheckEscalation(verdict)
    PROVE  IInv'
  <1> USE DEF CheckEscalation, read, placed, world, history
  <1>0. sentNow = {}
    BY DEF IInv, PhaseShape
  <1>1. TypeOK' /\ JobShape'
    BY DEF IInv, TypeOK, JobShape
  <1>2. BookShape' /\ UniqueIds' /\ OrderShape'
    BY SameBook, SameOrders
  <1>3. PhaseShape' /\ CheckShape' /\ SentShape'
    BY <1>0 DEF IInv, PhaseShape, CheckShape, Buys, SentShape
  <1>4. QuietShape'
    BY <1>0 DEF IInv, QuietShape, Rebalanced
  <1>5. QED BY <1>1, <1>2, <1>3, <1>4 DEF IInv

LEMMA SkipStep ==
    ASSUME IInv, phase = "submit", NEW e \in todo, SkipSuppressed(e)
    PROVE  IInv'
  <1> USE DEF SkipSuppressed, jobState, read, placed, world, history
  <1>1. TypeOK' /\ JobShape'
    BY DEF IInv, TypeOK, JobShape
  <1>2. BookShape' /\ UniqueIds' /\ OrderShape' /\ QuietShape'
    BY SameBook, SameOrders, SameQuiet
  <1>3. PhaseShape' /\ CheckShape' /\ SentShape'
    BY DEF IInv, PhaseShape, CheckShape, Buys, SentShape
  <1>4. QED BY <1>1, <1>2, <1>3 DEF IInv

LEMMA FillStep ==
    ASSUME IInv, NEW t \in Tickers, Fill(t)
    PROVE  IInv'
  <1> USE DEF Fill, jobState, read, book, placed, history
  <1>0. pos \in [Tickers -> Int] /\ working \in [Tickers -> Int] /\ UnitToward(working[t]) \in Int
    BY DEF IInv, TypeOK, UnitToward
  <1>1. TypeOK' /\ JobShape'
    BY <1>0 DEF IInv, TypeOK, JobShape
  <1>2. BookShape' /\ UniqueIds' /\ OrderShape'
    BY SameBook, SameOrders
  <1>3. PhaseShape' /\ CheckShape' /\ SentShape'
    BY DEF IInv, PhaseShape, CheckShape, Buys, SentShape
  <1>4. \A u \in Tickers : pos'[u] + working'[u] = pos[u] + working[u]
    <2> DEFINE n == UnitToward(working[t])
    <2> HIDE DEF n
    <2>1. n \in Int /\ pos' = [pos EXCEPT ![t] = @ + n] /\ working' = [working EXCEPT ![t] = @ - n]
      BY <1>0 DEF n
    <2>2. QED BY <1>0, <2>1
  <1>5. QuietShape'
    <2> SUFFICES ASSUME NEW u \in quiet
                 PROVE  /\ Rebalanced(u)' => Reconciled(u)'
                        /\ ~Rebalanced(u)' /\ phase \notin {"none", "read"}
                              => pos'[u] + working'[u] = seen[u]
      BY DEF QuietShape
    <2>1. pos'[u] + working'[u] = pos[u] + working[u]
      BY <1>4 DEF IInv, TypeOK
    <2>2. Rebalanced(u)' <=> Rebalanced(u)
      BY DEF Rebalanced
    <2>3. Reconciled(u)' <=> Reconciled(u)
      <3>1. UNCHANGED <<seen, quote, paid, target>>
        OBVIOUS
      <3>2. OnTarget(u)' <=> OnTarget(u)
        BY <2>1, <3>1, Zenon DEF OnTarget
      <3>3. Abs(pos'[u] + working'[u] - seen'[u]) = Abs(pos[u] + working[u] - seen[u])
        BY <2>1, <3>1, <1>1 DEF IInv, TypeOK
      <3>4. QED BY <3>2, <3>3, Zenon DEF Reconciled
    <2>4. QED BY <2>1, <2>2, <2>3 DEF IInv, QuietShape
  <1>6. QED BY <1>1, <1>2, <1>3, <1>5 DEF IInv

\* The order placed is not among those already placed, and keeps what follows
\* from the order of the batch.
LEMMA PlaceStep ==
    ASSUME IInv, phase = "submit", NEW e \in FirstInLine(todo),
           NEW price \in Quotes, Route(e, price)
    PROVE  IInv' /\ Id(e) \in OrderIds \ sentNow
  <1> USE DEF Route, PlaceOrder, jobState, read, history
  <1>0. /\ e \in todo /\ e \in booked /\ Entry(e, MarketValue, target)
        /\ \A f \in todo : e.priority <= f.priority
    <2>1. e \in todo /\ e \in booked /\ Entry(e, MarketValue, target)
      BY DEF FirstInLine, IInv, TypeOK, BookShape
    <2>2. \A f \in todo : e.priority < f.priority \/ e.priority = f.priority
      BY DEF FirstInLine
    <2>3. \A f \in booked : f.priority \in 1..4
      BY DEF IInv, BookShape, Entry, IsPut, IsOverwrite, IsTrim, IsDrift
    <2>4. QED BY <2>1, <2>2, <2>3 DEF IInv, TypeOK
  <1>1. Id(e) \in OrderIds \ sentNow
    BY <1>0 DEF IInv, TypeOK, UniqueIds, SentShape
  <1>2. e.module # "PERM"
    BY <1>0 DEF Entry, IsPut, IsOverwrite, IsTrim, IsDrift, Refused, UnresolvedOption,
                OptionActions
  <1>12. ASSUME e.notional # 0
         PROVE  /\ price \in Nat /\ price > 0 /\ Abs(e.notional) \in Nat
                /\ Shares(Abs(e.notional), price) \in Nat
                /\ \/ Shares(Abs(e.notional), price) = 1
                   \/ 2 * Abs(price * Shares(Abs(e.notional), price) - Abs(e.notional)) <= price
    <2>1. price \in Nat /\ price > 0
      BY <1>12, SweepAssumption DEF Refused, Unquoted
    <2>2. Abs(e.notional) \in Nat
      BY <1>0 DEF IInv, TypeOK, Abs
    <2>3. QED BY <2>1, <2>2, SharesAreNear
  <1>3. TypeOK'
    <2>1. sent' \in [OrderIds -> Nat]
      BY <1>1 DEF IInv, TypeOK
    <2>2. working' \in [Tickers -> Int] /\ paid' \in [Tickers -> Nat]
      <3>1. CASE e.notional = 0 BY <3>1 DEF IInv, TypeOK
      <3>2. CASE e.notional # 0
        <4> DEFINE q == SharesMoved(e, price)
                   i == e.item
        <4>1. working' = [working EXCEPT ![i] = @ + q] /\ paid' = [paid EXCEPT ![i] = price]
          BY <3>2
        <4>2. q \in Int
          BY <3>2, <1>12 DEF SharesMoved, UnitToward
        <4> HIDE DEF q, i
        <4>3. price \in Nat BY SweepAssumption
        <4>4. \A t \in Tickers : working[t] + q \in Int BY <4>2 DEF IInv, TypeOK
        <4>5. QED BY <4>1, <4>3, <4>4 DEF IInv, TypeOK
      <3>3. QED BY <3>1, <3>2
    <2>3. QED BY <1>1, <2>1, <2>2 DEF IInv, TypeOK
  <1>4. BookShape' /\ UniqueIds'
    BY SameBook
  <1>5. PhaseShape' /\ JobShape'
    BY DEF IInv, PhaseShape, JobShape
  <1>6. CheckShape'
    BY <1>0 DEF IInv, CheckShape, Buys, Id
  <1>7. SentShape'
    BY <1>0, <1>2 DEF IInv, SentShape, Id
  <1>8. HedgedBeforeRebalanced'
    <2>1. CASE e.module = "MASTER_ENGINE"
      <3>1. e.priority = 4
        BY <1>0, <2>1 DEF Entry, IsPut, IsOverwrite, IsTrim, IsDrift
      <3>2. ASSUME NEW f \in booked, IsHedge(Id(f)) PROVE Id(f) \in sentNow
        <4>1. IsPut(f)
          BY <3>2 DEF IInv, BookShape, Entry, IsPut, IsOverwrite, IsTrim, IsDrift, IsHedge, Id
        <4>2. f \notin todo
          BY <4>1, <3>1, <1>0 DEF IsPut
        <4>3. QED BY <4>1, <4>2 DEF IsPut, IInv, SentShape
      <3>3. QED BY <3>2 DEF HedgedBeforeRebalanced
    <2>2. CASE e.module # "MASTER_ENGINE"
      BY <2>2 DEF IInv, OrderShape, HedgedBeforeRebalanced, IsRebalance, Id
    <2>3. QED BY <2>1, <2>2
  <1>9. OverwriteStopsRebalance'
    <2>1. CASE e.module = "MASTER_ENGINE"
      <3>1. e.priority = 4
        BY <1>0, <2>1 DEF Entry, IsPut, IsOverwrite, IsTrim, IsDrift
      <3>2. ASSUME NEW f \in booked, f.module = "PERM" PROVE FALSE
        <4>1. f.priority = 3 /\ f.action # "BUY"
          BY <3>2 DEF IInv, BookShape, Entry, IsPut, IsOverwrite, IsTrim, IsDrift
        <4>2. f \notin todo
          BY <4>1, <3>1, <1>0
        <4>3. Id(f) \in sentNow
          BY <4>1, <4>2 DEF IInv, SentShape
        <4>4. Id(f)[1] = "PERM"
          BY <3>2 DEF Id
        <4>5. QED BY <4>3, <4>4 DEF IInv, SentShape
      <3>3. QED BY <3>2 DEF OverwriteStopsRebalance
    <2>2. CASE e.module # "MASTER_ENGINE"
      BY <2>2 DEF IInv, OrderShape, OverwriteStopsRebalance, IsRebalance, Id
    <2>3. QED BY <2>1, <2>2
  <1>10. QuietShape'
    <2> SUFFICES ASSUME NEW t \in quiet
                 PROVE  /\ Rebalanced(t)' => Reconciled(t)'
                        /\ ~Rebalanced(t)' => pos[t] + working'[t] = seen[t]
      BY DEF QuietShape
    <2>0. t \in Tickers
      BY DEF IInv, TypeOK
    <2>1. CASE IsDrift(e, MarketValue, target) /\ e.item = t
      <3>1. ~Rebalanced(t)
        <4> SUFFICES ASSUME NEW id \in sentNow, IsRebalance(id), id[3] = t PROVE FALSE
          BY DEF Rebalanced
        <4>1. PICK f \in booked \ todo : Id(f) = id
          BY DEF IInv, SentShape
        <4>2. f.module = "MASTER_ENGINE" /\ f.item = t
          BY <4>1 DEF Id, IsRebalance
        <4>3. IsDrift(f, MarketValue, target)
          BY <4>2 DEF IInv, BookShape, Entry, IsPut, IsOverwrite, IsTrim
        <4>4. Id(f) = Id(e)
          BY <2>1, <4>2, <4>3 DEF IsDrift, Id
        <4>5. QED BY <1>0, <4>1, <4>4 DEF IInv, UniqueIds
      <3>2. pos[t] + working[t] = seen[t]
        BY <3>1 DEF IInv, QuietShape
      <3>3. working'[t] = working[t] + SharesMoved(e, price) /\ paid'[t] = price
        BY <2>0, <2>1 DEF IInv, TypeOK, IsDrift
      <3>4. /\ e.notional = target[t] - seen[t] * quote[t] /\ e.notional # 0
            /\ target[t] \in Int /\ seen[t] \in Int /\ quote[t] \in Int
            /\ pos[t] \in Int /\ working[t] \in Int
        BY <2>0, <2>1, SweepAssumption DEF IInv, TypeOK, IsDrift, MarketValue
      <3>5. Reconciled(t)'
        <4> DEFINE q == Shares(Abs(e.notional), price)
                   u == UnitToward(e.notional)
        <4>1. working'[t] = working[t] + u * q /\ u \in {1, -1}
          BY <3>3, <3>4 DEF SharesMoved, UnitToward
        <4>2. q \in Nat /\ (q = 1 \/ 2 * Abs(price * q - Abs(e.notional)) <= price)
          BY <3>4, <1>12
        <4>3. price \in Int /\ e.notional \in Int
          BY <3>4, <1>12 DEF IInv, TypeOK
        <4>4. pos'[t] + working'[t] = seen'[t] + u * q
          <5> HIDE DEF q, u
          <5>1. u * q \in Int BY <4>1, <4>2
          <5>2. QED BY <5>1, <4>1, <3>2, <3>4
        <4>8. UNCHANGED <<seen, quote, target>>
          OBVIOUS
        <4>5. CASE q = 1
          <5> HIDE DEF q, u
          <5>1. u * q \in {1, -1}
            BY <4>1, <4>5
          <5> DEFINE n == pos'[t] + working'[t] - seen'[t]
          <5>4. n = u * q
            <6>1. seen'[t] \in Int /\ u * q \in Int BY <3>4, <4>8, <5>1
            <6>2. pos'[t] \in Int /\ working'[t] \in Int BY <1>3, <2>0 DEF TypeOK
            <6>3. QED BY <4>4, <6>1, <6>2
          <5> HIDE DEF n
          <5>5. Abs(n) = 1
            BY <5>1, <5>4 DEF Abs
          <5>2. Abs(pos'[t] + working'[t] - seen'[t]) = 1
            BY <5>5, Zenon DEF n
          <5>3. QED BY <5>2, Zenon DEF Reconciled
        <4>6. CASE 2 * Abs(price * q - Abs(e.notional)) <= price
          <5>1. 2 * Abs(price * (seen[t] + u * q) - target[t])
                   <= price + 2 * Abs(seen[t] * (price - quote[t]))
            <6>1. q \in Int BY <4>2
            <6>2. QED BY <6>1, <4>3, <4>6, <3>4, Reconciling, Zenon
          <5> HIDE DEF q, u
          <5>2. OnTarget(t)'
            BY <4>4, <4>8, <5>1, <3>3, Zenon DEF OnTarget
          <5>3. QED BY <5>2, Zenon DEF Reconciled
        <4>7. QED BY <4>2, <4>5, <4>6
      <3>6. Rebalanced(t)'
        BY <2>1 DEF Rebalanced, IsRebalance, Id, IsDrift
      <3>7. QED BY <3>5, <3>6
    <2>2. CASE ~(IsDrift(e, MarketValue, target) /\ e.item = t)
      <3>1. working'[t] = working[t] /\ paid'[t] = paid[t]
        BY <1>0, <2>0, <2>2 DEF IInv, TypeOK, Entry, IsPut, IsOverwrite, IsTrim, IsDrift
      <3>2. Rebalanced(t)' <=> Rebalanced(t)
        BY <1>0, <2>2 DEF Rebalanced, IsRebalance, Id, Entry, IsPut, IsOverwrite, IsTrim
      <3>3. QED BY <3>1, <3>2 DEF IInv, QuietShape, Reconciled, OnTarget
    <2>3. QED BY <2>1, <2>2
  <1>11. QED BY <1>1, <1>3, <1>4, <1>5, <1>6, <1>7, <1>8, <1>9, <1>10 DEF IInv, OrderShape

LEMMA NextIInv == IInv /\ [Next]_vars => IInv'
  <1> SUFFICES ASSUME IInv, [Next]_vars PROVE IInv'
    OBVIOUS
  <1>1. CASE StartAttempt \/ ReadMarket \/ SendAlert
    BY <1>1, StartStep, ReadStep, AlertStep
  <1>2. CASE \E plan \in HedgeChoices, priced \in BOOLEAN, gainers \in GainerSets,
                goal \in Targets : BookOrders(plan, priced, gainers, goal)
    BY <1>2, BookStep
  <1>3. CASE \E verdict \in BOOLEAN : Preflight(verdict) \/ CheckEscalation(verdict)
    BY <1>3, PreflightStep, EscalationStep
  <1>4. CASE SubmitNext
    BY <1>4, SkipStep, PlaceStep DEF SubmitNext, FirstInLine
  <1>5. CASE Raises \/ SubmissionRaises \/ UndefinedName
    <2>1. job = "running" /\ AttemptFails
      BY <1>5 DEF Raises, SubmissionRaises, UndefinedName, IInv, TypeOK
    <2>2. QED BY <2>1, FailStep
  <1>6. CASE FillAny
    BY <1>6, FillStep DEF FillAny
  <1>7. CASE UNCHANGED vars
    <2> USE <1>7 DEF vars, jobState, read, book, placed, world, history
    <2>1. TypeOK' /\ JobShape'
      BY DEF IInv, TypeOK, JobShape
    <2>2. BookShape' /\ UniqueIds' /\ OrderShape' /\ QuietShape'
      BY SameBook, SameOrders, SameQuiet
    <2>3. PhaseShape' /\ CheckShape' /\ SentShape'
      BY DEF IInv, PhaseShape, CheckShape, Buys, SentShape
    <2>4. QED BY <2>1, <2>2, <2>3 DEF IInv
  <1>8. QED
    BY <1>1, <1>2, <1>3, <1>4, <1>5, <1>6, <1>7 DEF Next, Statement

\* The invariant holds in every state of the sweep.
THEOREM Invariance == Spec => []IInv
  BY InitIInv, NextIInv, PTL DEF Spec

----------------------------------------------------------------------------
(* The properties.                                                         *)

\* The variables of the sweep keep their types: no attempt beyond the last, no
\* entry in the batch that the book does not have.
THEOREM TypeCorrect == Spec => []TypeOK
  BY Invariance, PTL DEF IInv

\* main.py and the order book between them keep the kill switch: a tripped
\* breaker and the crisis tier place no order, with any generator.
THEOREM KillSwitchHolds == Spec => []KillSwitch
  <1>1. IInv => KillSwitch
    BY DEF IInv, CheckShape, SentShape, KillSwitch
  <1>2. QED BY <1>1, Invariance, PTL

\* A verdict of PAIE or of the escalation engine is final for the attempt.
THEOREM BlockedBuysStay == Spec => []NoBlockedBuys
  <1>1. ASSUME IInv PROVE NoBlockedBuys
    <2>1. ASSUME blocked, NEW id \in sentNow PROVE id[2] # "BUY"
      <3>1. PICK e \in booked : Id(e) = id
        BY <1>1 DEF IInv, SentShape
      <3>2. e.action # "BUY"
        BY <1>1, <2>1 DEF IInv, CheckShape, Buys
      <3>3. QED BY <3>1, <3>2 DEF Id
    <2>2. QED BY <1>1, <2>1 DEF IInv, CheckShape, NoBlockedBuys
  <1>2. QED BY <1>1, Invariance, PTL

\* Hedges go first, wherever the batch is cut short.
THEOREM HedgesGoFirst == Spec => []HedgedBeforeRebalanced
  BY Invariance, PTL DEF IInv, OrderShape

\* An overwrite in the book keeps the attempt from rebalancing.
THEOREM OverwriteStops == Spec => []OverwriteStopsRebalance
  BY Invariance, PTL DEF IInv, OrderShape

\* One attempt over a quiet broker takes a position to its target, for any fills
\* and any prices meanwhile: what is off is half a share, the move of the price on
\* what was held, or the one share that is traded at least.
THEOREM QuietReconciles == Spec => []ReconcilesWhenQuiet
  <1>1. IInv => ReconcilesWhenQuiet
    BY DEF IInv, QuietShape, Reconciled, ReconcilesWhenQuiet
  <1>2. QED BY <1>1, Invariance, PTL

\* The sweep implements the retried job: a bounded number of attempts, and each
\* order at most once in each.
THEOREM ImplementsRetriedJob == Spec => RetriesJob
  <1>1. Init => Job!JobInit
    BY DEF Init, Job!JobInit
  <1>2. IInv /\ [Next]_vars => [Job!JobNext]_(Job!jobVars)
    <2> SUFFICES ASSUME IInv, [Next]_vars
                 PROVE  Job!JobNext \/ UNCHANGED Job!jobVars
      OBVIOUS
    <2> USE DEF Job!jobVars, jobState, read, book, placed, world, history
    <2>1. CASE StartAttempt
      BY <2>1 DEF StartAttempt, IInv, JobShape, Job!JobNext, Job!JobAttempt
    <2>2. CASE AttemptFails /\ job = "running"
      BY <2>2 DEF AttemptFails, GiveUp, Job!JobNext, Job!JobFails
    <2>3. ASSUME NEW e \in FirstInLine(todo), NEW price \in Quotes, phase = "submit",
                 Route(e, price)
          PROVE  Job!JobNext
      <3>1. Id(e) \in OrderIds \ sentNow
        BY <2>3, PlaceStep
      <3>2. job = "running"
        BY <2>3 DEF IInv, TypeOK
      <3>3. Job!JobEffect(Id(e))
        BY <2>3, <3>1, <3>2 DEF Route, PlaceOrder, Job!JobEffect
      <3>4. QED BY <3>1, <3>3 DEF Job!JobNext
    <2>4. CASE SubmitNext
      BY <2>3, <2>4 DEF SubmitNext, SkipSuppressed
    <2>5. CASE Raises \/ SubmissionRaises \/ UndefinedName
      BY <2>2, <2>5 DEF Raises, SubmissionRaises, UndefinedName, IInv, TypeOK
    <2>6. CASE ReadMarket \/ SendAlert \/ FillAny
      BY <2>6 DEF ReadMarket, SendAlert, FillAny, Fill
    <2>7. CASE \E plan \in HedgeChoices, priced \in BOOLEAN, gainers \in GainerSets,
                  goal \in Targets : BookOrders(plan, priced, gainers, goal)
      BY <2>7 DEF BookOrders
    <2>8. CASE \E verdict \in BOOLEAN : Preflight(verdict) \/ CheckEscalation(verdict)
      BY <2>8 DEF Preflight, CheckEscalation
    <2>9. CASE UNCHANGED vars
      BY <2>9 DEF vars
    <2>10. QED
      BY <2>1, <2>4, <2>5, <2>6, <2>7, <2>8, <2>9 DEF Next, Statement
  <1>3. QED
    BY <1>1, <1>2, Invariance, PTL DEF Spec, RetriesJob, Job!JobSpec

=============================================================================
