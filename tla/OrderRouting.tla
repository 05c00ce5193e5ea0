---------------------------- MODULE OrderRouting ----------------------------
(***************************************************************************)
(* The stateless rules an order meets on its way to the broker: the        *)
(* request each generator makes, the liquidity-adjusted parameters of      *)
(* engine/laep.py, the order book's treatment of a request, and the guards *)
(* of broker_api.submit_order.                                             *)
(*                                                                         *)
(* A request keeps what these rules look at. `priced` is limit_price is    *)
(* not None, `contract` that the contract of an option can be resolved,    *)
(* and `notional` the signed value a rebalance order is made for, which    *)
(* the broker module turns into whole shares. Values and prices are        *)
(* integers of one unit; a price of 0 is no price.                         *)
(***************************************************************************)
EXTENDS Integers

CONSTANTS
    Tickers,        \* equity positions of the book
    Deadband        \* 0.25% of NAV

ASSUME DeadbandAssumption == Deadband \in Nat

Abs(n) == IF n < 0 THEN -n ELSE n
UnitToward(n) == IF n > 0 THEN 1 ELSE -1

OptionActions == {"BUY_PUT", "SELL_PUT", "SELL_CALL"}
PermVixFloor == 18

\* The item of an option order: the leg, not a ticker, tells PTRH orders apart.
Hedge == "QQQ"

----------------------------------------------------------------------------
(* Requests, one operator per generator.                                   *)

Request(module, action, item, type, priced, contract, notional, priority) ==
    [module |-> module, action |-> action, item |-> item, type |-> type,
     priced |-> priced, contract |-> contract, notional |-> notional, priority |-> priority]

\* _submit_ptrh_order: the ask of the contract, if there is one, is the limit.
PutOrder(action, priced) ==
    Request("PTRH", action, Hedge, "LIMIT", priced, TRUE, 0, 1)

HedgePlans == {"none", "buy", "sell", "roll"}
PtrhOrders(plan, priced) ==
    {PutOrder(a, priced) : a \in CASE plan = "buy" -> {"BUY_PUT"}
                                   [] plan = "sell" -> {"SELL_PUT"}
                                   [] plan = "roll" -> {"SELL_PUT", "BUY_PUT"}
                                   [] OTHER -> {}}

\* run_perm_evaluation: no contract metadata, and a limit price of 0.0.
Overwrite(t) == Request("PERM", "SELL_CALL", t, "LIMIT", TRUE, FALSE, 0, 3)

PermOrders(candidates, vix) ==
    IF vix < PermVixFloor THEN {} ELSE {Overwrite(t) : t \in candidates}

\* generate_paired_trims: the quantity is a weight, which submit_order takes
\* for a share count below one; it moves no whole share.
Trim(t) == Request("FEM", "SELL", t, "MARKET", FALSE, TRUE, 0, 2)

FemTrims(tickers) == {Trim(t) : t \in tickers}

\* generate_rebalance_orders: an order for what drifted, and one for the whole
\* of a position without a target. `value` is the market value of what is held.
Drift(t, value, target) ==
    Request("MASTER_ENGINE", IF target[t] > value[t] THEN "BUY" ELSE "SELL", t, "MARKET",
            FALSE, TRUE, target[t] - value[t], 4)

Exit(t, value) == Request("MASTER_ENGINE", "SELL", t, "MARKET", FALSE, TRUE, -value[t], 2)

RebalanceOrders(value, target) ==
    {Drift(t, value, target) : t \in {u \in Tickers : Abs(target[u] - value[u]) > Deadband}}
    \union
    {Exit(t, value) : t \in {u \in Tickers : target[u] = 0 /\ value[u] > 0}}

----------------------------------------------------------------------------
(* engine/laep.py and OrderBook.process_request.                           *)

VixTier(vix) ==
    CASE vix < 16 -> "NORMAL"
      [] 16 <= vix /\ vix < 22 -> "ELEVATED"
      [] 22 <= vix /\ vix < 28 -> "HIGH"
      [] 28 <= vix /\ vix <= 40 -> "STRESS"
      [] OTHER -> "CRISIS"

\* No caller sets is_crash_protocol, so CRISIS halts every request, in a CRASH as
\* well; the priorities of OrderBook for sales in CRISIS are never reached.
ExecutionHalted(vix) == VixTier(vix) = "CRISIS"

TierOrderType(vix, type) ==
    CASE VixTier(vix) \in {"NORMAL", "ELEVATED"} /\ type = "MARKET" -> "LIMIT"
      [] VixTier(vix) = "HIGH" /\ type = "MARKET" -> "VWAP"
      [] VixTier(vix) = "STRESS" /\ type \in {"MARKET", "LIMIT"} -> "VWAP"
      [] OTHER -> type

ResolveOrderType(vix, r) ==
    CASE r.module = "PDS" /\ r.action = "SELL" -> "MARKET"
      [] r.module = "CDF" /\ r.action = "SELL" -> "LIMIT"
      [] OTHER -> TierOrderType(vix, r.type)

\* What the order book queues of a set of requests.
ProcessRequests(vix, requests) ==
    IF ExecutionHalted(vix) THEN {}
    ELSE {[r EXCEPT !.type = ResolveOrderType(vix, r)] : r \in requests}

\* Mutant: the executable batch in the order of arrival, not of priority.
FirstInLineUnsorted(entries) == entries

\* get_executable_batch sorts by priority; a PTRH roll sells before it buys.
FirstInLine(entries) ==
    {e \in entries : \A f \in entries :
        \/ e.priority < f.priority
        \/ e.priority = f.priority /\ (e.action = "BUY_PUT" => f.action # "SELL_PUT")}

----------------------------------------------------------------------------
(* broker_api.submit_order: what makes it raise before it places an order. *)

UnpricedLimit(e) == e.type = "LIMIT" /\ ~e.priced

\* Mutant: an option order without a contract goes through.
ContractAssumed(e) == FALSE

UnresolvedOption(e) == e.action \in OptionActions /\ ~e.contract

\* No market price, no close and no historical bar to convert with.
Unquoted(e, price) == e.notional # 0 /\ price = 0

Refused(e, price) == UnpricedLimit(e) \/ UnresolvedOption(e) \/ Unquoted(e, price)

----------------------------------------------------------------------------
(* _resolve_equity_quantity_from_notional.                                 *)

\* Mutant: the quotient is cut off, not rounded.
SharesCutOff(notional, price) == IF notional < price THEN 1 ELSE notional \div price

\* The nearest number of shares, a half going to the even one.
Nearest(notional, price) ==
    LET whole == notional \div price
        rest == 2 * (notional % price)
    IN  IF rest > price \/ (rest = price /\ whole % 2 = 1) THEN whole + 1 ELSE whole

\* Whole shares, and at least one.
Shares(notional, price) ==
    IF Nearest(notional, price) = 0 THEN 1 ELSE Nearest(notional, price)

\* The signed number of shares an order moves.
SharesMoved(e, price) ==
    IF e.notional = 0 THEN 0 ELSE UnitToward(e.notional) * Shares(Abs(e.notional), price)

=============================================================================
