----------------------------- MODULE ReplayBook -----------------------------
(***************************************************************************)
(* The books of the backtest: the daily loop of                            *)
(* simulation/replay_harness.py with the put ladder of                     *)
(* simulation/options_proxy.py and the harvest rules of engine/dshp.py.    *)
(* A day marks the positions, asks the sentinel and the re-entry gates,    *)
(* moves decay, leverage overlay and hedge, and then trades equities,      *)
(* crypto and the defensive sleeve against one cash account.               *)
(*                                                                         *)
(* Money is in basis points of the initial capital, weights in basis       *)
(* points of NAV, ceilings in thousandths, decay in tenths; all are        *)
(* rounded down. A position is its market value and its cost, so that a    *)
(* price is what moves the value; market data is an input of the day.      *)
(***************************************************************************)
EXTENDS AresGates, Sequences, FiniteSets, FiniteSetsExt

CONSTANTS
    Equities,       \* the tickers, in the order of mics_scores: a sequence
    ByBeta,         \* the tickers, the highest beta first
    AiSector,       \* AI_SECTOR_TICKERS
    Convictions,    \* the scores a backtest may be started with
    Sessions,       \* what the market may do on a day
    DecayDays,      \* days behind for the first and the second decay: 45, 90
    EntryDte,       \* days to expiry of a put when bought: 75
    RollDte,        \* days to expiry at which it is rolled: 30
    CryptoDays,     \* trading days between rebalances of crypto: 21
    CallDays,       \* trading days between covered calls: 30
    ReserveFund,    \* the sleeve holds SGOV, which takes what is harvested
    Days            \* bound: trading days of the backtest

Tickers == {Equities[i] : i \in DOMAIN Equities}
Harvested == {"SGOL", "DBMF"}

\* Prices may fall to nothing and no further.
MarketDay(s) ==
    /\ s.regime \in Regimes /\ s.behind \cap s.leads = {}
    /\ s.stocks \in [Tickers -> Int] /\ \A t \in Tickers : s.stocks[t] >= -100
    /\ s.sleeve \in [Harvested -> Int] /\ \A g \in Harvested : s.sleeve[g] >= -100
    /\ s.coin \in Int /\ s.coin >= -100 /\ s.fund \in Int /\ s.fund >= -100
    /\ {s.depth, s.premium, s.mark, s.calls} \subseteq Nat
    /\ {s.edr, s.calm, s.scoreFell} \subseteq BOOLEAN

ASSUME ReplayAssumption ==
    /\ Equities \in Seq(Tickers) /\ ByBeta \in Seq(Tickers)
    /\ \A t \in Tickers : \E i \in DOMAIN ByBeta : ByBeta[i] = t
    /\ AiSector \subseteq Tickers
    /\ Convictions \subseteq [Tickers -> 1..10]
    /\ \A s \in Sessions : MarketDay(s)
    /\ DecayDays[1] < DecayDays[2]
    /\ {EntryDte, RollDte} \subseteq Nat
    /\ RollDte < EntryDte /\ \A g \in Gaps : g < RollDte

Capital == 10000
SleeveShare == 58
MaxPosition == 2200
MaxAiSector == 4800
MinTradeDrift == 50
Unset == "unset"

VARIABLES
    pc, day, today, \* statement of the loop, day, market data of the day
    lastStatus, lastRegime,
    mics,           \* conviction scores
    lag,            \* days_underperforming
    eq, cost,       \* market value and cost of each equity
    gold, goldCost, \* the same of the harvested positions of the sleeve
    fund,           \* the rest of the sleeve: SGOV, STRC or TLT
    coins,          \* crypto
    cash,
    puts,           \* contracts, days to expiry, value
    slof,           \* slof_multiplier, ten-thousandths
    targets,        \* last_target_weights
    todo,           \* tickers still to be rebalanced today
    idle,           \* days since last_crypto_rebalance_idx
    closing,        \* the NAV recorded for the day
    made, paid,     \* history: gains of the market and calls, slippage
    tradedAt        \* history: ceiling of the last rebalance

sentinel == <<ares, lastStatus, lastRegime>>
market == <<day, today, mics>>
equity == <<eq, cost>>
sleeve == <<gold, goldCost, fund>>
vars == <<sentinel, market, pc, lag, equity, sleeve, coins, cash, puts, slof, targets,
          todo, idle, closing, made, paid, tradedAt>>

----------------------------------------------------------------------------
Total(f) == MapThenSumSet(LAMBDA x : f[x], DOMAIN f)
Moved(value, percent) == (value * (100 + percent)) \div 100
Share(money, points) == (money * points) \div 10000
AbsValue(n) == IF n < 0 THEN -n ELSE n
AtLeast(n, floor) == IF n < floor THEN floor ELSE n

\* What the portfolio is worth without the puts and without leverage.
Holdings == Total(eq) + Total(gold) + fund + coins + cash
Leverage(equityValue, multiplier) == (equityValue * (multiplier - 10000)) \div 10000

----------------------------------------------------------------------------
(* Target weights: conviction squared, decayed, under the ceiling.         *)

ArasCeiling(regime) ==
    CASE regime \in {"RISK_ON", "WATCH"} -> 1000
      [] regime = "NEUTRAL"   -> 750
      [] regime = "DEFENSIVE" -> 400
      [] regime = "CRASH"     -> 150

DecayOf(days) ==
    CASE days >= DecayDays[2] -> 6
      [] days >= DecayDays[1] /\ days < DecayDays[2] -> 8
      [] OTHER -> 10

Ceiling(regime, multiplier, pds) ==
    CapAt(CapAt((ArasCeiling(regime) * multiplier) \div 10000, 1250), pds)

TargetWeights(scores, days, ceiling) ==
    LET squared == [t \in Tickers |-> scores[t] * scores[t] * DecayOf(days[t])]
    IN  [t \in Tickers |->
            CapAt((squared[t] * ceiling * SleeveShare) \div (10 * Total(squared)), MaxPosition)]

AiCapped(weights) ==
    LET ai == MapThenSumSet(LAMBDA t : weights[t], AiSector)
    IN  [t \in Tickers |-> IF t \in AiSector /\ ai > MaxAiSector
                           THEN (weights[t] * MaxAiSector) \div ai ELSE weights[t]]

----------------------------------------------------------------------------
Init ==
    /\ mics \in Convictions
    /\ eq = [t \in Tickers |->
                Share(Capital, TargetWeights(mics, [u \in Tickers |-> 0], Full)[t])]
    /\ cost = eq
    /\ gold = [g \in Harvested |-> IF g = "SGOL" THEN 200 ELSE 500] /\ goldCost = gold
    /\ fund = 700 /\ coins = 2000
    /\ cash = Capital - Total(eq) - Total(gold) - fund - coins
    /\ puts = [count |-> 0, dte |-> 0, value |-> 0]
    /\ nav = Capital /\ closing = Capital /\ AresInit
    /\ lastStatus = Unset /\ lastRegime = Unset
    /\ slof = 10000 /\ lag = [t \in Tickers |-> 0]
    /\ targets = [t \in Tickers |-> 0] /\ todo = <<>> /\ idle = 0
    /\ day = 0 /\ today \in Sessions /\ pc = "open"
    /\ made = 0 /\ paid = 0 /\ tradedAt = Full

----------------------------------------------------------------------------
(* The market opens: positions are marked, the sentinel and the gates of   *)
(* re-entry speak. The puts are not part of this mark.                     *)

OpenDay ==
    /\ pc = "open" /\ day < Days
    /\ \E s \in Sessions, size \in VaresSizes, gap \in Gaps :
        /\ today' = s
        /\ eq' = [t \in Tickers |-> Moved(eq[t], s.stocks[t])]
        /\ gold' = [g \in Harvested |-> Moved(gold[g], s.sleeve[g])]
        /\ fund' = Moved(fund, s.fund)
        /\ coins' = Moved(coins, s.coin)
        /\ nav' = Total(eq') + Total(gold') + fund' + coins' + cash + Leverage(Total(eq'), slof)
        /\ made' = made + (Total(eq') - Total(eq)) + (Total(gold') - Total(gold))
                        + (fund' - fund) + (coins' - coins)
        /\ lastStatus' = IF day = 0 THEN Unset ELSE status
        /\ lastRegime' = IF day = 0 THEN Unset ELSE today.regime
        /\ Judge(s.regime, s.calm, s.scoreFell, size, gap)
        /\ puts' = [puts EXCEPT !.dte = @ - gap]
    /\ pc' = "overlay"
    /\ UNCHANGED <<day, mics, lag, cost, goldCost, cash, slof, targets, todo, idle,
                   closing, paid, tradedAt>>

\* Days behind the benchmark count up and down; leading it clears them. Leverage
\* is for a held position of the highest conviction, and by regime.
Overlay ==
    /\ pc = "overlay"
    /\ lag' = IF day = 0 THEN lag
              ELSE [t \in Tickers |->
                        CASE eq[t] = 0 -> lag[t]
                          [] eq[t] > 0 /\ t \in today.leads -> 0
                          [] eq[t] > 0 /\ t \in today.behind -> lag[t] + 1
                          [] OTHER -> AtLeast(lag[t] - 1, 0)]
    /\ slof' = IF \E t \in Tickers : mics[t] >= 10 /\ eq[t] > 0
               THEN CASE today.regime \in {"RISK_ON", "WATCH"} -> 12500
                      [] today.regime = "NEUTRAL" -> 11875
                      [] OTHER -> 10000
               ELSE 10000
    /\ pc' = "hedge"
    /\ UNCHANGED <<sentinel, market, equity, sleeve, coins, cash, puts, targets, todo, idle,
                   closing, made, paid, tradedAt>>

----------------------------------------------------------------------------
(* The put ladder.                                                         *)

Coverage(regime) ==
    CASE regime = "RISK_ON" -> 120
      [] regime \in {"WATCH", "NEUTRAL"} -> 150
      [] regime = "DEFENSIVE" -> 180
      [] regime = "CRASH" -> 240

ContractNotional == 60

\* At least one contract is bought, whatever the notional wanted.
Contracts == AtLeast(Share(nav, Coverage(today.regime)) \div ContractNotional, 1)

\* Mutant: nothing is rolled before it has expired.
MustRollLate == puts.dte < 0

MustRoll == puts.dte <= RollDte

\* A roll sells what is held and buys anew; what it costs comes out of cash.
BuyPuts ==
    /\ pc = "hedge" /\ (puts.count = 0 \/ MustRoll)
    /\ LET closed == puts.count * today.mark
           price == Contracts * today.premium
       IN  /\ puts' = [count |-> Contracts, dte |-> EntryDte, value |-> price]
           /\ cash' = cash + closed - price
           /\ made' = made + closed - puts.value
    /\ pc' = "plan"
    /\ UNCHANGED <<sentinel, market, lag, equity, sleeve, coins, slof, targets, todo, idle,
                   closing, paid, tradedAt>>

HoldPuts ==
    /\ pc = "hedge" /\ puts.count > 0 /\ ~MustRoll
    /\ puts' = [puts EXCEPT !.value = puts.count * today.mark]
    /\ made' = made + puts'.value - puts.value
    /\ pc' = "plan"
    /\ UNCHANGED <<sentinel, market, lag, equity, sleeve, coins, cash, slof, targets, todo,
                   idle, closing, paid, tradedAt>>

----------------------------------------------------------------------------
(* The rebalance. An event, and only an event, trades; in a crisis nothing *)
(* is traded, and the targets of that day are remembered all the same.     *)

RegimeChanged == lastRegime # Unset /\ lastRegime # today.regime

TradeState(pds) == IF Deleveraged(pds) THEN pds ELSE "NO_MANDATORY_ACTION"
PdsChanged == lastStatus # Unset /\ TradeState(lastStatus) # TradeState(status)

Crisis == today.tier = "CRISIS"
DeleverageMode == Deleveraged(status) \/ today.regime \in {"DEFENSIVE", "CRASH"}

\* What a trade costs, by VIX tier.
Slip(amount) ==
    LET points == CASE today.tier = "NORMAL" -> 5
                    [] today.tier = "STRESS" -> 25
                    [] OTHER -> 50
    IN  Share(AbsValue(amount), points)

MinCash == Share(nav, 400)
SmallTrade == Share(nav, MinTradeDrift)

\* Mutant: the targets ignore what re-entry allows.
CeilingWithoutGates == Ceiling(today.regime, slof, PdsCeiling(status))

CeilingToday == Ceiling(today.regime, slof, active)

Plan ==
    /\ pc = "plan"
    /\ LET wanted == AiCapped(TargetWeights(mics, lag, CeilingToday))
           event == RegimeChanged \/ PdsChanged \/ day = 0 \/ wanted # targets
           acts == event /\ ~Crisis
       IN  /\ targets' = wanted
           /\ todo' = IF ~acts THEN <<>> ELSE IF DeleverageMode THEN ByBeta ELSE Equities
           /\ tradedAt' = IF acts THEN CeilingToday ELSE tradedAt
    /\ pc' = "trade"
    /\ UNCHANGED <<sentinel, market, lag, equity, sleeve, coins, cash, puts, slof, idle,
                   closing, made, paid>>

\* A purchase stops at the cash floor; one that cash cuts below the least worth
\* trading is dropped. No order takes more than the market's depth.
\* Mutant: purchases look at the cash there is, not at the floor.
AffordableToZero(delta) == IF delta > cash THEN AtLeast(cash, 0) ELSE delta

Affordable(delta) ==
    IF delta > 0 /\ cash - delta < MinCash THEN AtLeast(cash - MinCash, 0) ELSE delta

OrderFor(t) ==
    LET wanted == Share(nav, targets[t]) - eq[t]
        delta == Affordable(wanted)
        limit == today.depth
    IN  CASE AbsValue(wanted) < SmallTrade -> 0
          [] AbsValue(wanted) >= SmallTrade /\ AbsValue(delta) < SmallTrade -> 0
          [] AbsValue(delta) >= SmallTrade /\ AbsValue(delta) > limit ->
                IF delta > 0 THEN limit ELSE -limit
          [] OTHER -> delta

\* A sale takes its part of the cost with it.
CostAfter(value, spent, delta) ==
    IF delta >= 0 THEN spent + delta ELSE (spent * (value + delta)) \div value

\* Mutant: slippage is counted, but not taken from cash.
PaidFor(delta) == cash - delta

Settled(delta) == cash - delta - Slip(delta)

TradeNext ==
    /\ pc = "trade" /\ todo # <<>>
    /\ LET t == Head(todo)
           delta == OrderFor(t)
       IN  /\ eq' = [eq EXCEPT ![t] = @ + delta]
           /\ cost' = [cost EXCEPT ![t] = CostAfter(eq[t], @, delta)]
           /\ cash' = Settled(delta)
           /\ paid' = paid + Slip(delta)
    /\ todo' = Tail(todo)
    /\ UNCHANGED <<sentinel, market, pc, lag, sleeve, coins, puts, slof, targets, idle,
                   closing, made, tradedAt>>

\* KEVLAR: what a position has above its cap is sold, except in a crisis.
CapPositions ==
    /\ pc = "trade" /\ todo = <<>>
    /\ LET excess == [t \in Tickers |-> IF Crisis THEN 0
                                        ELSE AtLeast(eq[t] - Share(nav, MaxPosition), 0)]
           slips == [t \in Tickers |-> Slip(excess[t])]
       IN  /\ eq' = [t \in Tickers |-> eq[t] - excess[t]]
           /\ cost' = [t \in Tickers |-> CostAfter(eq[t], cost[t], 0 - excess[t])]
           /\ cash' = cash + Total(excess) - Total(slips)
           /\ paid' = paid + Total(slips)
    /\ pc' = "crypto"
    /\ UNCHANGED <<sentinel, market, lag, sleeve, coins, puts, slof, targets, todo, idle,
                   closing, made, tradedAt>>

----------------------------------------------------------------------------
(* Crypto is shed in any kind of stress, in a crisis too.                  *)

\* Mutant: crypto waits out the crisis as equities do.
KillChainButCrisis == ~Crisis /\ (DeleverageMode \/ today.edr)

KillChain == Crisis \/ DeleverageMode \/ today.edr

CryptoTarget == Share(nav, IF KillChain THEN 200 ELSE 2000)

CryptoOrder ==
    LET wanted == CryptoTarget - coins
        delta == Affordable(wanted)
    IN  IF AbsValue(wanted) > SmallTrade /\ AbsValue(delta) > Share(nav, 10) THEN delta ELSE 0

TradeCrypto ==
    /\ pc = "crypto"
    /\ LET due == KillChain \/ RegimeChanged \/ PdsChanged \/ idle >= CryptoDays
           delta == IF due THEN CryptoOrder ELSE 0
       IN  /\ coins' = coins + delta
           /\ cash' = Settled(delta)
           /\ paid' = paid + Slip(delta)
           /\ idle' = IF due THEN 1 ELSE idle + 1
    /\ pc' = "harvest"
    /\ UNCHANGED <<sentinel, market, lag, equity, sleeve, puts, slof, targets, todo, closing,
                   made, tradedAt>>

----------------------------------------------------------------------------
(* The defensive sleeve: a position that has appreciated, or drifted, is   *)
(* trimmed to its target, and the proceeds go to SGOV, or to cash.         *)

HarvestTarget(g) == Share(nav, IF g = "SGOL" THEN 200 ELSE 500)

Appreciated(g) == 100 * (gold[g] - goldCost[g]) > (IF g = "SGOL" THEN 20 ELSE 15) * goldCost[g]

Drifted(g) == g = "DBMF" /\ 10000 * gold[g] > (500 + 150) * nav

TrimOf(g) ==
    IF Appreciated(g) \/ Drifted(g) THEN AtLeast(gold[g] - HarvestTarget(g), 0) ELSE 0

\* Mutant: what is harvested goes to both.
ProceedsTwice(amount) == [fund |-> fund + amount, cash |-> cash + amount]

Proceeds(amount) == IF ReserveFund THEN [fund |-> fund + amount, cash |-> cash]
                                   ELSE [fund |-> fund, cash |-> cash + amount]

Harvest ==
    /\ pc = "harvest"
    /\ LET trims == [g \in Harvested |-> TrimOf(g)]
           after == Proceeds(Total(trims))
       IN  /\ gold' = [g \in Harvested |-> gold[g] - trims[g]]
           /\ goldCost' = [g \in Harvested |-> IF trims[g] > 0 THEN gold'[g] ELSE goldCost[g]]
           /\ fund' = after.fund
           /\ cash' = after.cash
    /\ pc' = "calls"
    /\ UNCHANGED <<sentinel, market, lag, equity, coins, puts, slof, targets, todo, idle,
                   closing, made, paid, tradedAt>>

\* PERM: calls on a quarter of each winner and of each decayed position.
CallIncome ==
    LET called == {t \in Tickers : /\ eq[t] > 0
                                   /\ \/ 10 * eq[t] >= 13 * cost[t]
                                      \/ DecayOf(lag[t]) <= 8}
    IN  Total([t \in called |-> (eq[t] * today.calls) \div 400])

SellCalls ==
    /\ pc = "calls"
    /\ LET income == IF day > 0 /\ day % CallDays = 0 THEN CallIncome ELSE 0
       IN  /\ cash' = cash + income
           /\ made' = made + income
    /\ pc' = "close"
    /\ UNCHANGED <<sentinel, market, lag, equity, sleeve, coins, puts, slof, targets, todo,
                   idle, closing, paid, tradedAt>>

\* The NAV recorded for the day, with the puts.
CloseDay ==
    /\ pc = "close"
    /\ closing' = Holdings + puts.value + Leverage(Total(eq), slof)
    /\ day' = day + 1
    /\ pc' = "open"
    /\ UNCHANGED <<sentinel, today, mics, lag, equity, sleeve, coins, cash, puts, slof,
                   targets, todo, idle, made, paid, tradedAt>>

Next ==
    \/ OpenDay \/ Overlay \/ BuyPuts \/ HoldPuts \/ Plan \/ TradeNext \/ CapPositions
    \/ TradeCrypto \/ Harvest \/ SellCalls \/ CloseDay

Spec == Init /\ [][Next]_vars

----------------------------------------------------------------------------
\* Values and phases are what the code can have.
TypeOK ==
    /\ pc \in {"open", "overlay", "hedge", "plan", "trade", "crypto", "harvest", "calls",
               "close"}
    /\ day \in 0..Days /\ today \in Sessions /\ mics \in Convictions
    /\ AresTypeOK /\ {nav, coins, fund, paid, closing} \subseteq Nat
    /\ eq \in [Tickers -> Nat] /\ cost \in [Tickers -> Nat]
    /\ gold \in [Harvested -> Nat] /\ goldCost \in [Harvested -> Nat]
    /\ lag \in [Tickers -> 0..Days]
    /\ slof \in {10000, 11875, 12500} /\ tradedAt \in 0..1000
    /\ puts \in [count : Nat, dte : Int, value : Nat]

\* No trade, hedge, harvest or call makes or loses money: what the portfolio is
\* worth is the capital, plus what the market and the calls brought, less
\* slippage, at every statement of the loop.
MoneyIsConserved == Holdings + puts.value = Capital + made - paid

\* The account is never overdrawn: the half of the reserve no purchase touches
\* covers slippage and hedges, whatever happens to the value of the portfolio.
NeverOverdrawn == cash >= 0

\* When the rebalance of a day is over, in a market deep enough, the equities
\* are within the ceiling in force, give or take the trades too small to make.
WithinCeilingAfterRebalance ==
    LET ceiling == Ceiling(today.regime, slof, active)
    IN  pc = "crypto" /\ (RegimeChanged \/ PdsChanged) /\ ~Crisis /\ today.depth >= nav
        => Total(eq) <= Share(nav, (ceiling * SleeveShare) \div 10)
                        + Cardinality(Tickers) * SmallTrade

\* On a day of stress of any kind crypto ends at its residue.
CryptoIsShed ==
    pc = "harvest" /\ (Crisis \/ DeleverageMode \/ today.edr) => coins <= Share(nav, 250)

\* The hedge is rolled before it expires, so that the branch of the simulator
\* which exercises an expired put is never reached.
HedgeNeverExpires == pc = "hedge" /\ puts.count > 0 => puts.dte > 0

\* replay_harness.py: in a crisis the "kill-chain takes over". On a day without
\* one, the last rebalance was made under a ceiling no higher than today's.
CutsAreExecuted == pc = "crypto" /\ ~Crisis => tradedAt <= CeilingToday

\* replay_harness.py: the value of held puts is "included in NAV". The NAV that
\* is recorded never exceeds the high-water mark by which the day is judged.
MarkCoversPuts == pc = "open" => closing <= hwm

\* options_proxy.py: "Sizing: Based on regime table notional requirement". After
\* the hedge step the puts cover what the table asks for.
HedgeFollowsRegime ==
    pc = "plan" => (puts.count + 1) * ContractNotional >= Share(nav, Coverage(today.regime))

\* drawdown_sentinel.py: the sentinel cuts exposure on a drawdown of the
\* portfolio. A day on which the market made money enters no deleverage level.
FallsAreLosses ==
    [][(~Deleveraged(status) /\ Deleveraged(status')) => made' < made]_vars
=============================================================================
