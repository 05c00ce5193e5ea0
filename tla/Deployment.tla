----------------------------- MODULE Deployment -----------------------------
(***************************************************************************)
(* The rebalance of a sweep through the PAIE pre-flight of engine/paie.py: *)
(* orders for what drifted from the target weights, the concentration of   *)
(* each thesis after the buys, trims of breaches in the rulebook's order,  *)
(* the sizing coherence pass, the verdict, and the fills of what was sent. *)
(*                                                                         *)
(* Weights are in basis points of NAV. The pre-flight works on a           *)
(* dictionary of its own, `queue`; main.py reads its status only. Sweeps   *)
(* follow one another with nothing working and the breaker untripped;      *)
(* MorningSweep is about the other cases. Every sweep reads the VIX, which *)
(* decides whether the broker module takes a market order at all, and      *)
(* orders are filled in whole shares, whose prices do not move here.       *)
(*                                                                         *)
(* `opened` and `asked` are history variables: no action reads `opened`,   *)
(* and `asked` is compared with `queue` where the code counts adjustments. *)
(***************************************************************************)
EXTENDS Integers, FiniteSets, FiniteSetsExt

CONSTANTS
    Tickers,
    Tags,           \* thesis tags of rulebook.json
    TagsOf,         \* thesis_tag_registry
    Cap,            \* thesis_caps
    TrimRank,       \* place in the trim_order of a tag, 0 when not listed
    TagRank,        \* place of a tag in sizing_hierarchy, 0 when not listed
    Share,          \* weight of one share of a ticker
    VixLevels,      \* levels of the VIX a sweep may read
    Plans,          \* target weights with the ceiling they were made under
    Books           \* weights the first sweep may find

Positive == Nat \ {0}
Weightings == [Tickers -> Nat]

ASSUME RulebookAssumption ==
    /\ IsFiniteSet(Tickers)
    /\ TagsOf \in [Tickers -> SUBSET Tags]
    /\ Cap \in [Tags -> Nat]
    /\ TrimRank \in [Tags -> [Tickers -> Nat]]
    /\ TagRank \in [Tags -> Nat]

Deadband == 25      \* 0.25% of NAV

\* A share is not worth so much that none comes nearer than the deadband, and
\* whole shares are held.
ASSUME ShareAssumption ==
    /\ Share \in [Tickers -> 1..2 * Deadband]
    /\ \A b \in Books : \A t \in Tickers : b[t] % Share[t] = 0

ASSUME PlansAssumption ==
    /\ \A p \in Plans : p.weights \in Weightings /\ p.ceiling \in Nat
    /\ Books \subseteq Weightings
    /\ VixLevels \subseteq Int

R == INSTANCE OrderRouting

VARIABLES
    book,           \* live weights
    plan,           \* target weights of the sweep
    vix,            \* the VIX the sweep has read
    stage,          \* where the sweep is
    orders,         \* signed orders of the order book
    queue,          \* the pre-flight's copy of the BUY orders; 0 for no order
    breaches,       \* breaches still to be resolved, each with its excess
    trimming,       \* the breach being resolved
    aligning,       \* <<tag, ticker>> comparisons the coherence pass has left
    status,         \* verdict of the last pre-flight
    opened,         \* book at the start of the sweep
    asked           \* BUY orders at the start of the pre-flight

vars == <<book, plan, vix, stage, orders, queue, breaches, trimming, aligning,
          status, opened, asked>>

Nothing == [t \in Tickers |-> 0]
NoTag == "none"
NoTrim == [tag |-> NoTag, excess |-> 0, left |-> {}]

Stages == {"idle", "trim", "cohere", "fill"}
Statuses == {"NONE", "SKIPPED", "PENDING", "CLEARED", "ADJUSTED", "BLOCKED"}

TypeOK ==
    /\ book \in Weightings
    /\ plan \in Plans
    /\ vix \in VixLevels
    /\ stage \in Stages
    /\ orders \in [Tickers -> Int]
    /\ queue \in Weightings
    /\ breaches \subseteq [tag : Tags, excess : Positive]
    /\ trimming \in [tag : Tags \union {NoTag}, excess : Nat, left : SUBSET Tickers]
    /\ aligning \subseteq Tags \X Tickers
    /\ status \in Statuses
    /\ opened \in Weightings
    /\ asked \in Weightings

----------------------------------------------------------------------------
(* Weights and concentrations.                                             *)

Magnitude(n) == IF n < 0 THEN -n ELSE n
Lesser(m, n) == IF m < n THEN m ELSE n

\* generate_rebalance_orders, for targets that are positive.
RebalanceOrders(held, target) ==
    [t \in Tickers |-> IF Magnitude(target[t] - held[t]) > Deadband
                       THEN target[t] - held[t] ELSE 0]

\* Mutant: every order counts as a purchase.
BuysOfAnySide(o) == [t \in Tickers |-> Magnitude(o[t])]

Buys(o) == [t \in Tickers |-> IF o[t] > 0 THEN o[t] ELSE 0]

\* Mutant: the projection forgets what is held.
ProjectedAlone(held, q) == q

Projected(held, q) == [t \in Tickers |-> held[t] + q[t]]

Concentration(weights, g) ==
    MapThenSumSet(LAMBDA t : weights[t], {t \in Tickers : g \in TagsOf[t]})

CapBreaches(weights) ==
    {[tag |-> g, excess |-> Concentration(weights, g) - Cap[g]] :
        g \in {h \in Tags : Concentration(weights, h) - Cap[h] \in Positive}}

----------------------------------------------------------------------------
(* The order of trims and comparisons.                                     *)

Queued(g) == {t \in Tickers : queue[t] > 0 /\ g \in TagsOf[t]}
Listed(g) == {t \in Tickers : queue[t] > 0 /\ TrimRank[g][t] > 0}

Trimmable(g) ==
    IF Queued(g) \intersect Listed(g) # {} THEN Queued(g) \intersect Listed(g)
                                           ELSE Queued(g)

\* The next to be trimmed: by rank, or the smallest where no rank is given.
TrimNext(g, left) ==
    {t \in left : \A u \in left :
        IF TrimRank[g][t] > 0 THEN TrimRank[g][t] <= TrimRank[g][u]
                              ELSE queue[t] <= queue[u]}

\* Mutant: a trim may take more than there is.
MaxTrimBeyond(weight) == (135 * weight) \div 100

\* coherence_floor_ratio is 0.65 in every hierarchy and by default.
MaxTrim(weight) == (35 * weight) \div 100

\* Neighbours in the trim order of a tag, among what is queued.
Follows(g, t) ==
    {u \in Listed(g) : /\ TrimRank[g][t] < TrimRank[g][u]
                       /\ \A v \in Listed(g) : TrimRank[g][t] < TrimRank[g][v]
                                                => TrimRank[g][u] <= TrimRank[g][v]}

Comparisons ==
    {c \in Tags \X Tickers : c[2] \in Listed(c[1]) /\ Follows(c[1], c[2]) # {}}

FirstOf(pairs) ==
    {c \in pairs : \A d \in pairs :
        \/ TagRank[c[1]] < TagRank[d[1]]
        \/ c[1] = d[1] /\ TrimRank[c[1]][c[2]] <= TrimRank[d[1]][d[2]]}

----------------------------------------------------------------------------
(* The sweep.                                                              *)

Init ==
    /\ book \in Books
    /\ plan \in Plans
    /\ vix \in VixLevels
    /\ stage = "idle"
    /\ orders = Nothing /\ queue = Nothing
    /\ breaches = {} /\ trimming = NoTrim /\ aligning = {}
    /\ status = "NONE"
    /\ opened = book /\ asked = Nothing

\* Scores, regime or decay change between two sweeps.
Rescore ==
    /\ stage = "idle"
    /\ plan' \in Plans
    /\ UNCHANGED <<book, vix, stage, orders, queue, breaches, trimming, aligning,
                   status, opened, asked>>

\* The rebalance orders, of which the order book takes none in a crisis, then
\* steps 1 and 2 of deployment_preflight; without a purchase the pre-flight is
\* skipped.
StartSweep ==
    /\ stage = "idle"
    /\ vix' \in VixLevels
    /\ orders' = IF R!ExecutionHalted(vix') THEN Nothing
                 ELSE RebalanceOrders(book, plan.weights)
    /\ opened' = book
    /\ asked' = Buys(orders')
    /\ queue' = asked'
    /\ IF asked' = Nothing
       THEN stage' = "fill" /\ status' = "SKIPPED" /\ breaches' = {}
       ELSE stage' = "trim" /\ status' = "PENDING"
            /\ breaches' = CapBreaches(Projected(book, asked'))
    /\ UNCHANGED <<book, plan, trimming, aligning>>

TrimmedEnough == trimming.excess = 0 \/ trimming.left = {}

\* The loops of resolve_cap_breaches: over the breaches, in the order of a
\* dictionary, and over the tickers of one.
NextBreach ==
    /\ stage = "trim" /\ TrimmedEnough
    /\ \E b \in breaches :
        /\ breaches' = breaches \ {b}
        /\ trimming' = [tag |-> b.tag, excess |-> b.excess, left |-> Trimmable(b.tag)]
    /\ UNCHANGED <<book, plan, vix, stage, orders, queue, aligning, status, opened, asked>>

TrimOne ==
    /\ stage = "trim" /\ ~TrimmedEnough
    /\ \E t \in TrimNext(trimming.tag, trimming.left) :
        LET amount == Lesser(trimming.excess, MaxTrim(queue[t]))
        IN  /\ queue' = [queue EXCEPT ![t] = @ - amount]
            /\ trimming' = [trimming EXCEPT !.excess = @ - amount, !.left = @ \ {t}]
    /\ UNCHANGED <<book, plan, vix, stage, orders, breaches, aligning, status, opened, asked>>

TrimsDone ==
    /\ stage = "trim" /\ TrimmedEnough /\ breaches = {}
    /\ stage' = "cohere"
    /\ trimming' = NoTrim
    /\ aligning' = Comparisons
    /\ UNCHANGED <<book, plan, vix, orders, queue, breaches, status, opened, asked>>

\* Mutant: the anchor is raised to the size of the smaller position.
AlignedUp(earlier, later) == [queue EXCEPT ![later] = queue[earlier]]

Aligned(earlier, later) == [queue EXCEPT ![earlier] = queue[later]]

\* One comparison of check_sizing_coherence.
AlignOne ==
    /\ stage = "cohere"
    /\ \E c \in FirstOf(aligning) :
        /\ aligning' = aligning \ {c}
        /\ \E later \in Follows(c[1], c[2]) :
            queue' = IF queue[c[2]] > queue[later] THEN Aligned(c[2], later) ELSE queue
    /\ UNCHANGED <<book, plan, vix, stage, orders, breaches, trimming, status, opened, asked>>

\* Mutants: a block keeps the purchases, or removes the sales as well.
BlockKeepsAll(o) == o
BlockDropsAll(o) == Nothing

WithoutBuys(o) == [t \in Tickers |-> IF o[t] > 0 THEN 0 ELSE o[t]]

\* A thesis trimmed to its cap exactly may come out above it by a rounding of
\* floats when it is summed up again.
MayRoundOver ==
    queue # asked /\ \E g \in Tags : Concentration(Projected(book, queue), g) = Cap[g]

Block == status' = "BLOCKED" /\ orders' = WithoutBuys(orders)
Pass == status' = (IF queue = asked THEN "CLEARED" ELSE "ADJUSTED") /\ orders' = orders

\* Step 6 of deployment_preflight, and what main.py makes of the status. The
\* adjusted queue goes no further.
Verdict ==
    /\ stage = "cohere" /\ aligning = {}
    /\ \/ (CapBreaches(Projected(book, queue)) # {} \/ MayRoundOver) /\ Block
       \/ CapBreaches(Projected(book, queue)) = {} /\ Pass
    /\ stage' = "fill"
    /\ queue' = Nothing
    /\ UNCHANGED <<book, plan, vix, breaches, trimming, aligning, opened, asked>>

\* Below 22 a market order becomes a limit order without a price.
Sends(v) == ~R!ExecutionHalted(v) /\ R!TierOrderType(v, "MARKET") # "LIMIT"

\* What whole shares change of a position.
Filled(t) == R!UnitToward(orders[t]) * R!Shares(Magnitude(orders[t]), Share[t]) * Share[t]

\* The broker takes an order of the batch and fills it.
Fill ==
    /\ stage = "fill" /\ Sends(vix)
    /\ \E t \in Tickers :
        /\ orders[t] # 0
        /\ book' = [book EXCEPT ![t] = @ + Filled(t)]
        /\ orders' = [orders EXCEPT ![t] = 0]
    /\ UNCHANGED <<plan, vix, stage, queue, breaches, trimming, aligning, status, opened, asked>>

\* An order raises, the first of them where no market order is sent, and the
\* attempt ends. The next begins as a sweep.
AttemptFails ==
    /\ stage = "fill" /\ orders # Nothing
    /\ stage' = "idle" /\ orders' = Nothing
    /\ UNCHANGED <<book, plan, vix, queue, breaches, trimming, aligning, status, opened, asked>>

EndSweep ==
    /\ stage = "fill" /\ orders = Nothing
    /\ stage' = "idle" /\ queue' = Nothing
    /\ UNCHANGED <<book, plan, vix, orders, breaches, trimming, aligning, status, opened, asked>>

Sweeps == \/ StartSweep \/ NextBreach \/ TrimOne \/ TrimsDone
          \/ AlignOne \/ Verdict \/ Fill \/ AttemptFails \/ EndSweep

Next == Rescore \/ Sweeps

Spec == Init /\ [][Next]_vars

\* The sweep is scheduled every weekday, and what is sent is filled.
FairSpec == Spec /\ WF_vars(Sweeps)

----------------------------------------------------------------------------
(* Properties.                                                             *)

\* The pre-flight only takes weight away, and never all of an order
\* (resolve_cap_breaches trims to a floor, coherence to another's size).
OnlyReduces ==
    stage \in {"trim", "cohere"} =>
        \A t \in Tickers : queue[t] <= asked[t] /\ (asked[t] > 0 => queue[t] > 0)

\* What rounding to whole shares may add to a position.
HalfShare == [t \in Tickers |-> Share[t] \div 2]

\* Where the pre-flight cleared the queue, no thesis is over its cap at any
\* moment of the fills, in whatever order sales and purchases are filled and
\* wherever they break off, but for the half share a position may be rounded by.
ClearedStaysWithin ==
    status = "CLEARED" =>
        \A g \in Tags : Concentration(book, g) <= Cap[g] + Concentration(HalfShare, g)

\* A thesis that was over its cap when the sweep started does not grow, nor
\* does any position: its excess blocks every purchase.
OverCapNeverGrows ==
    [][ (stage = "fill" /\ CapBreaches(opened) # {})
            => \A t \in Tickers : book'[t] <= book[t] ]_vars

Invested(weights) == MapThenSumSet(LAMBDA t : weights[t], Tickers)

\* When the orders of a sweep outside the crisis tier are done, no more is
\* invested than the ceiling its targets were made under, up to the deadband of
\* each position, also where the pre-flight blocked: that holds back purchases
\* only.
CeilingKept ==
    (stage = "fill" /\ orders = Nothing /\ ~R!ExecutionHalted(vix)) =>
        Invested(book) <= plan.ceiling + Cardinality(Tickers) * Deadband

Fits(weights) ==
    \A g \in Tags : Concentration(weights, g) + Cardinality(Tickers) * Deadband <= Cap[g]

OnTarget == \A t \in Tickers : Magnitude(plan.weights[t] - book[t]) <= Deadband

\* The orders of a sweep are done in a tier that sends market orders.
Completes == stage = "fill" /\ orders = Nothing /\ Sends(vix)

\* Targets that fit the caps and stay are reached, if again and again a sweep
\* completes where market orders are sent, whatever the sweeps between do: the
\* calm tiers fail, a crisis sends nothing, a batch breaks off. That a sweep
\* counts purchases and not the sales that make room for them, and is blocked,
\* delays the purchases but does not stop them.
Rebalances ==
    <>[][plan' = plan]_vars /\ []<>Completes => <>[](Fits(plan.weights) => OnTarget)

(***************************************************************************)
(* Not so.                                                                 *)
(***************************************************************************)
\* "resolves every resolvable condition per the governing rulebook, and
\* executes or adjusts the queue" (engine/paie.py:8-9): what it adjusted is
\* what is bought.
AdjustedStaysWithin ==
    status \in {"CLEARED", "ADJUSTED"} =>
        \A g \in Tags : Concentration(book, g) <= Cap[g] + Concentration(HalfShare, g)

=============================================================================
