----------------------------- MODULE LiveFeeds ------------------------------
(***************************************************************************)
(* The data feeds of a live sweep: src/data_feeds/pipeline.py and its four *)
(* plugins. The world is a record of what the services would answer; which *)
(* of them answer in an attempt is the set `up`. A feed fetches a set of    *)
(* records, as the pipeline collects them; the signals of an attempt are   *)
(* the function from their types to their raw values, in hundredths. ETH,  *)
(* the pegs of the stablecoins and the split of the liquidations, which    *)
(* nothing reads, are left out.                                            *)
(***************************************************************************)
EXTENDS Integers, Sequences

\* FRED and the PMI file raise when they cannot answer; the gateway, the spot
\* exchange, the derivatives service and the margin series are done without.
CriticalFeeds == {"FRED", "PMI"}
OptionalFeeds == {"MARGIN", "GATEWAY", "COINBASE", "COINGLASS"}
Feeds == CriticalFeeds \cup OptionalFeeds

FredSeries == {"FED_FUNDS_RATE", "10Y_TREASURY_YIELD", "VIX_INDEX", "HY_CREDIT_SPREAD",
               "T10Y2Y", "EQUITY_PCR"}

\* What the services may answer: levels, rates and spreads are numbers, what
\* has a price or a volume is not negative.
IsWorld(w) ==
    /\ w.fred \in [FredSeries -> Int] /\ w.pmi \in Int
    /\ w.quarters \in Seq(Nat) /\ w.volumes \in Seq(Nat)
    /\ w.future \in Nat /\ w.spot \in Nat /\ w.coinbase \in Nat /\ w.skew \in Nat
    /\ w.funding \in Int /\ w.interest \in Int /\ w.liquidated \in Int
    /\ w.long \in Int /\ w.change \in Int

Record(t, raw) == [type |-> t, raw |-> raw]

FredSignals(w) == {Record(t, w.fred[t]) : t \in FredSeries}

\* Percent growth of a quarterly series, newest first; 0 over a zero.
Growth(new, old) == IF old = 0 THEN 0 ELSE ((new - old) * 10000) \div old

\* The newest row of the first bridge file that can be read.
PmiSignal(w) == Record("PMI_NOWCAST", w.pmi)

MarginSignals(w) ==
    LET q == w.quarters
    IN  (IF Len(q) >= 2 THEN {Record("MARGIN_DEBT_MOM_CHANGE", Growth(q[1], q[2]))} ELSE {})
        \cup (IF Len(q) >= 4 THEN {Record("MARGIN_DEBT_3M_GROWTH", Growth(q[1], q[4]))} ELSE {})

\* The basis of the front future over spot, in ten-thousandths. Spot is the
\* gateway's, or else the exchange's; a price that is not there is 0.
SpotPrice(w, up) == IF w.spot > 0 THEN w.spot
                    ELSE IF "COINBASE" \in up THEN w.coinbase ELSE 0

FuturesBasis(w, up) ==
    LET spot == SpotPrice(w, up)
    IN  IF w.future > 0 /\ spot > 0
        THEN {Record("BTC_FUNDING", ((w.future - spot) * 10000) \div spot)}
        ELSE {}

OpenInterest(w) == IF Len(w.volumes) >= 2 THEN {Record("BTC_OI", w.volumes[1])} ELSE {}

CboeSkew(w) == IF w.skew > 0 THEN {Record("CBOE_SKEW", w.skew)} ELSE {}

GatewaySignals(w, up) == FuturesBasis(w, up) \cup OpenInterest(w) \cup CboeSkew(w)

\* Each endpoint of the derivatives service fails on its own. The funding rate
\* is absent when no exchange has open interest.
CoinglassSignals(w) ==
    (IF "funding" \in w.endpoints THEN {Record("BTC_FUNDING_RATE_ANN", w.funding)} ELSE {})
    \cup (IF "interest" \in w.endpoints THEN {Record("BTC_OI_TOTAL", w.interest)} ELSE {})
    \cup (IF "liquidation" \in w.endpoints THEN {Record("LIQ_VOL_24H", w.liquidated)} ELSE {})
    \cup (IF "longshort" \in w.endpoints THEN {Record("BTC_LONG_SHORT_RATIO", w.long)} ELSE {})
    \cup (IF "price" \in w.endpoints THEN {Record("BTC_PRICE_24H_CHG_PCT", w.change)} ELSE {})

\* run_all_feeds raises out of the first critical plugin that fails.
PipelineAnswers(up) == CriticalFeeds \subseteq up

Records(w, up) ==
    FredSignals(w) \cup {PmiSignal(w)}
    \cup (IF "MARGIN" \in up THEN MarginSignals(w) ELSE {})
    \cup (IF "GATEWAY" \in up THEN GatewaySignals(w, up) ELSE {})
    \cup (IF "COINGLASS" \in up THEN CoinglassSignals(w) ELSE {})

AllSignals(w, up) ==
    LET records == Records(w, up)
    IN  [t \in {r.type : r \in records} |-> (CHOOSE r \in records : r.type = t).raw]

\* The normalized value of a signal, in ten-thousandths.
Value(t, raw) ==
    CASE t \in {"EQUITY_PCR", "LIQ_VOL_24H"} -> 100 * raw
      [] t = "CBOE_SKEW" -> raw \div 2
      [] t = "BTC_FUNDING" -> IF raw < -500 THEN 0 ELSE IF raw > 500 THEN 10000
                              ELSE 10 * (raw + 500)
      [] OTHER -> raw

----------------------------------------------------------------------------
(***************************************************************************)
(* What the consumers take from the signals, by the names they ask for.    *)
(***************************************************************************)
Take(signals, names) ==
    [k \in {k \in DOMAIN names : names[k] \in DOMAIN signals} |-> signals[names[k]]]

\* run_deleveraging_check, from signals.
DelevInputs(signals) ==
    Take(signals, [funding |-> "BTC_FUNDING_RATE_ANN", oi |-> "BTC_OI", skew |-> "CBOE_SKEW",
                   margin |-> "MARGIN_DEBT_3M_GROWTH", corr |-> "BTC_QQQ_CORR_5D"])

\* run_crypto_microstructure_check, from signals: the normalized basis, and
\* a flat one when there is only the open interest.
BasisNorm(signals) ==
    IF "BTC_FUNDING" \in DOMAIN signals THEN Value("BTC_FUNDING", signals["BTC_FUNDING"])
                                        ELSE 5000

MicroInputs(signals) ==
    LET given == Take(signals, [basisAnn |-> "BTC_BASIS_ANN", depth |-> "BTC_DEPTH_VS_AVG",
                                cluster |-> "BTC_LIQ_CLUSTER_RATIO", long |-> "BTC_LONG_PCT",
                                outflow |-> "STABLECOIN_7D_OUTFLOW"])
        basis == IF {"BTC_FUNDING", "BTC_OI"} \cap DOMAIN signals = {} THEN {}
                 ELSE {"basisNorm"}
    IN  [k \in DOMAIN given \cup basis |-> IF k = "basisNorm" THEN BasisNorm(signals)
                                                             ELSE given[k]]

=============================================================================
