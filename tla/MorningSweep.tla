---------------------------- MODULE MorningSweep ----------------------------
(***************************************************************************)
(* The execution path of the daily sweep: run_full_arms_cycle of main.py   *)
(* under _run_with_retry of scheduling/master_scheduler.py, against a      *)
(* broker that fills what it was sent while the sweep runs, fails and is   *)
(* retried. Orders and positions are in whole shares, targets in value;    *)
(* prices are read with the snapshot and again with every order.           *)
(*                                                                         *)
(* One attempt takes its snapshot of market and positions, fills an order  *)
(* book from it, runs the pre-flight checks over the book and sends the    *)
(* book order by order. Everything an attempt keeps is local to it; only   *)
(* the broker's state and the FEM alert file outlive it.                   *)
(***************************************************************************)
EXTENDS OrderRouting

CONSTANTS
    Markets,        \* readings of the VIX feed, each with whether the regime is CRASH
    Quotes,         \* prices a ticker may have, 0 for none
    Targets,        \* results of compute_target_weights, as values
    HedgeChoices,   \* outcomes of the PTRH module, from HedgePlans
    GainerSets,     \* outcomes of the PERM triggers
    FactorTickers,  \* positions of the alerting factor, trimmed by FEM
    InitialPositions,   \* in shares
    MaxRetries      \* max_retries of _run_with_retry

\* compute_target_weights gives every held ticker a positive weight: conviction
\* is at least 1, the decay multiplier at least 0.6, the ceiling at least 0.15.
ASSUME SweepAssumption ==
    /\ Markets \subseteq [vix : Nat, crash : BOOLEAN]
    /\ Quotes \subseteq Nat
    /\ Targets \subseteq [Tickers -> Nat \ {0}]
    /\ HedgeChoices \subseteq HedgePlans
    /\ GainerSets \subseteq SUBSET Tickers
    /\ FactorTickers \subseteq Tickers
    /\ InitialPositions \in [Tickers -> Nat]
    /\ MaxRetries \in Nat \ {0}

VARIABLES
    \* the job
    job, attempt, phase, alert,
    \* what the attempt under way read
    seen, quote, vix, crash, tripped,
    \* its order book, and what the checks said of it
    booked, blocked, suppressed, todo,
    \* ids of the orders it placed, and the prices its rebalance was converted at
    sentNow, paid,
    \* the world: orders placed by id, positions, unfilled shares, FEM alert
    sent, pos, working, femDue,
    \* history: a breaker tripped in the job; tickers with nothing working at
    \* the snapshot, and what the attempt wants to hold
    halted, quiet, target

jobState == <<job, attempt, phase, alert>>
read == <<seen, quote, vix, crash, tripped>>
book == <<booked, blocked, suppressed, todo>>
world == <<sent, pos, working, femDue>>
placed == <<sentNow, paid>>
history == <<halted, quiet, target>>
vars == <<jobState, read, book, placed, world, history>>

Id(e) == <<e.module, e.action, e.item>>

OrderIds ==
    ({"PTRH"} \X {"BUY_PUT", "SELL_PUT"} \X {Hedge})
    \union ({"PERM"} \X {"SELL_CALL"} \X Tickers)
    \union ({"FEM"} \X {"SELL"} \X Tickers)
    \union ({"MASTER_ENGINE"} \X {"BUY", "SELL"} \X Tickers)

IsRebalance(id) == id[1] = "MASTER_ENGINE"
IsHedge(id) == id[1] = "PTRH"

----------------------------------------------------------------------------
(* The job.                                                                *)

Unpriced == [t \in Tickers |-> 0]

Init ==
    /\ job = "idle" /\ attempt = 0 /\ phase = "none" /\ alert = "none"
    /\ seen = InitialPositions /\ quote = Unpriced
    /\ vix = 0 /\ crash = FALSE /\ tripped = FALSE
    /\ booked = {} /\ blocked = FALSE /\ suppressed = FALSE /\ todo = {}
    /\ sentNow = {} /\ paid = Unpriced
    /\ sent = [i \in OrderIds |-> 0]
    /\ pos = InitialPositions
    /\ working = [t \in Tickers |-> 0]
    /\ femDue \in BOOLEAN
    /\ halted = FALSE /\ quiet = {} /\ target \in Targets

\* Mutant: a retry that forgets which attempt it is.
StartAttemptAfresh ==
    /\ job \in {"idle", "backoff"}
    /\ job' = "running"
    /\ attempt' = 1
    /\ phase' = "read"
    /\ sentNow' = {} /\ paid' = Unpriced /\ booked' = {} /\ todo' = {}
    /\ blocked' = FALSE /\ suppressed' = FALSE /\ tripped' = FALSE
    /\ UNCHANGED <<alert, seen, quote, vix, crash, world, history>>

\* func() of attempt 1, or after the backoff: a new order book and a new
\* circuit breaker, the same broker and the same state files.
StartAttempt ==
    /\ job \in {"idle", "backoff"}
    /\ job' = "running"
    /\ attempt' = attempt + 1
    /\ phase' = "read"
    /\ sentNow' = {} /\ paid' = Unpriced /\ booked' = {} /\ todo' = {}
    /\ blocked' = FALSE /\ suppressed' = FALSE /\ tripped' = FALSE
    /\ UNCHANGED <<alert, seen, quote, vix, crash, world, history>>

\* Mutant: one attempt too many, as if the doc's "3 retries" were meant.
GiveUpLate ==
    /\ job' = IF attempt <= MaxRetries THEN "backoff" ELSE "exhausted"
    /\ alert' = IF attempt <= MaxRetries THEN alert ELSE "due"
    /\ UNCHANGED attempt

\* The except branch of an attempt, and what follows the last one.
GiveUp ==
    /\ job' = IF attempt < MaxRetries THEN "backoff" ELSE "exhausted"
    /\ alert' = IF attempt < MaxRetries THEN alert ELSE "due"
    /\ UNCHANGED attempt

\* Nothing an attempt sent before it failed is undone.
AttemptFails ==
    /\ GiveUp
    /\ phase' = "none"
    /\ UNCHANGED <<read, book, placed, world, history>>

\* Any statement of the attempt may raise: the broker, a feed, require_live.
Raises == job = "running" /\ AttemptFails

\* _send_pm_alert: published, or given up with a log line of its own.
SendAlert ==
    /\ alert = "due"
    /\ alert' \in {"sent", "lost"}
    /\ UNCHANGED <<job, attempt, phase, read, book, placed, world, history>>

----------------------------------------------------------------------------
(* One attempt.                                                            *)

\* Positions with their market values, the regime, VIX and the S&P's move are
\* read once. Where IBKR's portfolio cannot be had, a position without a price
\* has a market value of 0. The breaker's other test compares the VIX with
\* itself (vix_open = vix_val) and never fires.
ReadMarket ==
    /\ phase = "read"
    /\ seen' = pos
    /\ quote' \in [Tickers -> Quotes]
    /\ quiet' = {t \in Tickers : working[t] = 0}
    /\ \E m \in Markets : vix' = m.vix /\ crash' = m.crash
    /\ tripped' \in BOOLEAN
    /\ halted' = (halted \/ tripped')
    /\ phase' = "book"
    /\ UNCHANGED <<job, attempt, alert, book, placed, world, target>>

\* The alert file is reset where the trims are generated, whether or not they
\* are then booked.
Trims == IF femDue THEN FemTrims(FactorTickers) ELSE {}

\* Mutant: the breaker is evaluated and then ignored.
BookedTripped(requests) == ProcessRequests(vix, requests)

\* What reaches the book of the generated orders.
Booked(requests) == IF tripped THEN {} ELSE ProcessRequests(vix, requests)

MarketValue == [t \in Tickers |-> seen[t] * quote[t]]

Generated(plan, priced, gainers, goal) ==
    PtrhOrders(plan, priced) \union PermOrders(gainers, vix)
        \union RebalanceOrders(MarketValue, goal) \union Trims

BookOrders(plan, priced, gainers, goal) ==
    /\ phase = "book"
    /\ booked' = Booked(Generated(plan, priced, gainers, goal))
    /\ femDue' = (femDue /\ Trims = {})
    /\ target' = goal
    /\ phase' = "preflight"
    /\ UNCHANGED <<job, attempt, alert, read, blocked, suppressed, todo, placed,
                   sent, pos, working, halted, quiet>>

Buys(entries) == {e \in entries : e.action = "BUY"}

\* PAIE runs only if something is to be bought; BLOCKED takes the buys out.
Preflight(verdict) ==
    /\ phase = "preflight"
    /\ verdict => Buys(booked) # {}
    /\ blocked' = verdict
    /\ booked' = IF verdict THEN booked \ Buys(booked) ELSE booked
    /\ phase' = "escalation"
    /\ UNCHANGED <<job, attempt, alert, read, suppressed, todo, placed, world, history>>

\* The escalation engine is asked once, before the batch is handed over.
CheckEscalation(verdict) ==
    /\ phase = "escalation"
    /\ suppressed' = verdict
    /\ todo' = booked
    /\ phase' = "submit"
    /\ UNCHANGED <<job, attempt, alert, read, booked, blocked, placed, world, history>>

SkipSuppressed(e) ==
    /\ suppressed /\ e.action = "BUY"
    /\ todo' = todo \ {e}
    /\ UNCHANGED <<jobState, read, booked, blocked, suppressed, placed, world, history>>

\* submit_order, at the price it finds. Every request of the sweep is tier 0.
\* is_connected is a flag of connect(); a connection that drops shows as an
\* exception of placeOrder, in Raises.
PlaceOrder(e, price) ==
    /\ ~Refused(e, price)
    /\ todo' = todo \ {e}
    /\ sentNow' = sentNow \union {Id(e)}
    /\ sent' = [sent EXCEPT ![Id(e)] = @ + 1]
    /\ IF e.notional = 0
       THEN UNCHANGED <<working, paid>>
       ELSE /\ working' = [working EXCEPT ![e.item] = @ + SharesMoved(e, price)]
            /\ paid' = [paid EXCEPT ![e.item] = price]
    /\ UNCHANGED <<jobState, read, booked, blocked, suppressed, pos, femDue, history>>

\* As a mutant of Route, PlaceOrder is a loop that does not ask for suppression.
Route(e, price) ==
    /\ ~(suppressed /\ e.action = "BUY")
    /\ PlaceOrder(e, price)

\* One turn of the loop over the executable batch.
SubmitNext ==
    /\ phase = "submit"
    /\ \E e \in FirstInLine(todo) :
          SkipSuppressed(e) \/ \E price \in Quotes : Route(e, price)

SubmissionRaises ==
    /\ phase = "submit"
    /\ \E e \in FirstInLine(todo), price \in Quotes :
          Refused(e, price) /\ ~(suppressed /\ e.action = "BUY")
    /\ AttemptFails

\* With the batch sent, run_ares_check is called with macro_stress_score, a name
\* no statement binds: the attempt ends in a NameError. No attempt returns.
UndefinedName ==
    /\ phase = "submit"
    /\ todo = {}
    /\ AttemptFails

----------------------------------------------------------------------------
(* The broker, at any time: before, between and after the attempts.        *)

Fill(t) ==
    /\ working[t] # 0
    /\ pos' = [pos EXCEPT ![t] = @ + UnitToward(working[t])]
    /\ working' = [working EXCEPT ![t] = @ - UnitToward(working[t])]
    /\ UNCHANGED <<jobState, read, book, placed, sent, femDue, history>>

\* The statements of the sweep, one after the other.
Statement ==
    \/ StartAttempt
    \/ ReadMarket
    \/ \E plan \in HedgeChoices, priced \in BOOLEAN, gainers \in GainerSets,
          goal \in Targets : BookOrders(plan, priced, gainers, goal)
    \/ \E verdict \in BOOLEAN : Preflight(verdict)
    \/ \E verdict \in BOOLEAN : CheckEscalation(verdict)
    \/ SubmitNext
    \/ SubmissionRaises
    \/ UndefinedName
    \/ SendAlert

FillAny == \E t \in Tickers : Fill(t)

Next == Statement \/ Raises \/ FillAny

Spec == Init /\ [][Next]_vars

\* The process runs until its next statement is done, or raises; the broker
\* owes nothing.
FairSpec == Spec /\ WF_vars(Statement \/ Raises)

\* A day on which no call fails: what raises is the sweep's own doing.
HealthySpec == Init /\ [][Statement \/ FillAny]_vars /\ WF_vars(Statement)

----------------------------------------------------------------------------
(* Properties that hold.                                                   *)

TypeOK ==
    /\ job \in {"idle", "running", "backoff", "exhausted"}
    /\ attempt \in 0..MaxRetries
    /\ phase \in {"none", "read", "book", "preflight", "escalation", "submit"}
    /\ phase # "none" <=> job = "running"
    /\ alert \in {"none", "due", "sent", "lost"}
    /\ vix \in Nat /\ crash \in BOOLEAN
    /\ tripped \in BOOLEAN /\ blocked \in BOOLEAN /\ suppressed \in BOOLEAN
    /\ seen \in [Tickers -> Int] /\ pos \in [Tickers -> Int]
    /\ working \in [Tickers -> Int]
    /\ quote \in [Tickers -> Nat] /\ paid \in [Tickers -> Nat]
    /\ todo \subseteq booked
    /\ \A e \in booked : Id(e) \in OrderIds /\ e.notional \in Int
    /\ sentNow \subseteq OrderIds
    /\ sent \in [OrderIds -> Nat]
    /\ femDue \in BOOLEAN /\ halted \in BOOLEAN
    /\ quiet \subseteq Tickers /\ target \in Targets

\* An attempt that found the market crashing, or the VIX in its crisis tier
\* outside of the CRASH regime, places no order at all: not a hedge, not a trim,
\* whatever was generated and whatever the checks between the book and the broker
\* said. CrashProtocolExecutes is about the exception.
KillSwitch == tripped \/ (ExecutionHalted(vix) /\ ~crash) => sentNow = {}

\* An attempt that PAIE blocked or that escalation suppressed buys no equity.
NoBlockedBuys ==
    blocked \/ suppressed => \A id \in sentNow : id[2] # "BUY"

\* An equity is traded for the rebalance only when every hedge the attempt
\* booked is already placed, however the attempt ends: a batch cut short by an
\* exception leaves the book hedged and not rebalanced, never the reverse.
HedgedBeforeRebalanced ==
    (\E id \in sentNow : IsRebalance(id))
        => \A e \in booked : IsHedge(Id(e)) => Id(e) \in sentNow

Rebalanced(t) == \E id \in sentNow : IsRebalance(id) /\ id[3] = t

\* What is held and on order is worth the target, at the price of the order, up
\* to half a share and to what the shares held have gained or lost since the
\* snapshot (a share without a price then has gained all it is worth).
OnTarget(t) ==
    2 * Abs(paid[t] * (pos[t] + working[t]) - target[t])
        <= paid[t] + 2 * Abs(seen[t] * (paid[t] - quote[t]))

\* Where nothing was working at the broker when the attempt took its snapshot,
\* its rebalance order leads to the target, though fills come in while the batch
\* is sent and prices move; only that at least one share is traded may take it
\* past the target.
ReconcilesWhenQuiet ==
    \A t \in quiet :
        Rebalanced(t) => OnTarget(t) \/ Abs(pos[t] + working[t] - seen[t]) = 1

\* A PERM overwrite carries no contract and is refused; it ranks before the
\* rebalance, so an attempt that books one trades no equity for the rebalance.
OverwriteStopsRebalance ==
    (\E e \in booked : e.module = "PERM") => \A id \in sentNow : ~IsRebalance(id)

\* The sweep does what _run_with_retry promises of any job: at most MaxRetries
\* attempts, each with an order at most once, so that no order is placed more
\* than MaxRetries times.
Job == INSTANCE RetriedJob WITH
    Effects <- OrderIds, now <- sentNow, total <- sent
RetriesJob == Job!JobSpec

\* A sweep that was started ends.
SweepEnds == Job!Ends

----------------------------------------------------------------------------
(* What comments, docstrings and messages say, and the code does not do.   *)

\* trade_order_generator: orders "to reconcile the difference". A rebalance
\* order never takes what is held and on order farther from the target.
Reconciles ==
    [][\A t \in Tickers : working'[t] + pos'[t] # working[t] + pos[t] =>
          Abs(target[t] - paid'[t] * (pos'[t] + working'[t]))
              <= Abs(target[t] - paid'[t] * (pos[t] + working[t]))]_vars

\* laep: CRISIS is "Execution halted except CRASH protocol". An attempt that has
\* gone through its batch in the CRASH regime has sold what is above its target.
CrashProtocolExecutes ==
    (crash /\ ~tripped /\ phase = "submit" /\ todo = {}) =>
        \A t \in Tickers :
            MarketValue[t] - target[t] > Deadband => <<"MASTER_ENGINE", "SELL", t>> \in sentNow

\* circuit_breaker: once tripped it "remains tripped until manual reset". No
\* order is placed in the job after that.
BreakerStaysTripped == [][halted => sent' = sent]_vars

\* escalation_engine: the loss limit "suppresses all Tier 0 autonomous
\* execution". A suppressed attempt places no order; all of them are tier 0.
SuppressionIsTotal == suppressed => sentNow = {}

\* broker_api: "LIMIT orders require limit_price." What the book hands over as
\* a limit order has one.
LimitsArePriced == \A e \in todo : ~UnpricedLimit(e)

\* broker_api: "Upstream module must resolve contract metadata before
\* submission." What the book hands over as an option order has a contract.
OptionsAreResolved == \A e \in todo : ~UnresolvedOption(e)

\* factor_exposure: "Reset alert state after trim execution". The alert goes
\* only when trims of this attempt are in the batch to be sent.
TrimsOutliveReset ==
    [][femDue /\ ~femDue' => \E e \in booked' : e.module = "FEM"]_vars

\* master_scheduler logs "exhausted all retries. PM alert sent." once the last
\* attempt has failed. The alert that follows is then not lost.
AlertIsSent == job = "exhausted" => alert # "lost"

\* main: "Daily sweep complete." is the last line of a sweep's log. On a healthy
\* day a sweep that was started returns.
SweepCompletes == job = "running" ~> job = "ok"

=============================================================================
