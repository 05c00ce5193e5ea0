----------------------------- MODULE EdrScores ------------------------------
(***************************************************************************)
(* The advisory sub-modules next to the compass: modules/                  *)
(* deleveraging_risk.py, crypto_microstructure.py, margin_stress.py and    *)
(* dealer_gamma.py. The first two score what they are given by weight, and *)
(* an input that is missing scores nothing; the others grade the VIX and   *)
(* the credit spread.                                                      *)
(*                                                                         *)
(* Inputs are in hundredths unless said otherwise, sub-scores and scores   *)
(* in ten-thousandths; a score is handed to ARAS in hundredths, rounded    *)
(* down, which none of the boundaries of its table notices.                *)
(***************************************************************************)
EXTENDS Integers

Has(data, k) == k \in DOMAIN data
Given(data, k, default) == IF k \in DOMAIN data THEN data[k] ELSE default
Bounded(x, lo, hi) == IF x < lo THEN lo ELSE IF x > hi THEN hi ELSE x

----------------------------------------------------------------------------
\* Deleveraging risk.

FundingRateScore(data) ==
    IF ~Has(data, "funding") THEN 0
    ELSE LET rate == data.funding
         IN  CASE rate < 0 -> 9000
               [] rate >= 0 /\ Given(data, "fundingDelta", 0) < -4 -> 6500
               [] OTHER ->
                    CASE rate >= 2500 -> 7500
                      [] 2000 <= rate /\ rate < 2500 -> 4500 + (rate - 2000) * 6
                      [] 1000 <= rate /\ rate < 2000 -> 2000 + ((rate - 1000) * 5) \div 2
                      [] OTHER -> rate * 2

\* Open interest within 5% of its 30-day high while funding is above 20%.
OiAtPeak(data) == /\ Given(data, "oiHigh", 0) > 0
                  /\ 100 * data.oi >= 95 * data.oiHigh
                  /\ Given(data, "funding", 0) >= 2000

OiFragilityScore(data) ==
    LET change == Given(data, "oiChange", 0)
    IN  CASE ~Has(data, "oi") -> 0
          [] Has(data, "oi") /\ change < -1500 -> 9000
          [] /\ Has(data, "oi") /\ change >= -1500 /\ change < -800
             /\ Given(data, "priceChange", 0) >= -100 -> 7000
          [] OTHER ->
               IF OiAtPeak(data)
               THEN LET ratio == (10000 * data.oi) \div data.oiHigh
                    IN  Bounded(4000 + Bounded(2 * (ratio - 9500), 0, 1000)
                                     + Bounded(2 * (data.funding - 2000), 0, 1000), 0, 6000)
               ELSE 1000

SkewScore(data) ==
    IF ~Has(data, "skew") THEN 0
    ELSE CASE data.skew > 15000 -> 9000
           [] 14000 < data.skew /\ data.skew <= 15000 -> 6000
           [] 12500 < data.skew /\ data.skew <= 14000 -> 4000
           [] OTHER -> Bounded(((data.skew - 10000) * 4) \div 5, 0, 2000)

MarginDebtScore(data) ==
    IF ~Has(data, "margin") THEN 0
    ELSE CASE data.margin > 1000 /\ Given(data, "marginMom", 0) < 0 -> 8500
           [] data.margin > 2000 /\ Given(data, "marginMom", 0) >= 0 -> 6000
           [] 1000 < data.margin /\ data.margin <= 2000 /\ Given(data, "marginMom", 0) >= 0 -> 3000
           [] OTHER -> Bounded(data.margin * 2, 0, 2000)

CorrelationScore(data) ==
    IF ~Has(data, "corr") THEN 0
    ELSE CASE data.corr > 85 -> 9000
           [] 70 < data.corr /\ data.corr <= 85 -> 6000
           [] 50 < data.corr /\ data.corr <= 70 -> 3500
           [] OTHER -> Bounded(data.corr * 40, 0, 2000)

DeleveragingScore(data) ==
    Bounded((35 * FundingRateScore(data) + 30 * OiFragilityScore(data)
              + 15 * SkewScore(data) + 12 * MarginDebtScore(data)
              + 8 * CorrelationScore(data)) \div 100, 0, 10000) \div 100

----------------------------------------------------------------------------
\* Crypto microstructure. `basisNorm` is in ten-thousandths, 5000 flat.

BasisCompressionScore(data) ==
    IF Has(data, "basisAnn")
    THEN CASE data.basisAnn < 0 -> 9000
           [] 0 <= data.basisAnn /\ data.basisAnn < 400 -> 6000
           [] 400 <= data.basisAnn /\ data.basisAnn < 800 -> 4000
           [] OTHER -> 1000
    ELSE IF Has(data, "basisNorm")
    THEN CASE data.basisNorm < 2000 -> 9000
           [] 2000 <= data.basisNorm /\ data.basisNorm < 3500 -> 6000
           [] 3500 <= data.basisNorm /\ data.basisNorm < 4500 -> 4000
           [] OTHER -> 1000
    ELSE 0

\* How far below its seven-day average the book is, in percent.
OrderBookDepthScore(data) ==
    IF ~Has(data, "depth") THEN 0
    ELSE CASE data.depth > 4000 -> 9000
           [] 2500 < data.depth /\ data.depth <= 4000 -> 6000
           [] 1500 < data.depth /\ data.depth <= 2500 -> 4000
           [] OTHER -> Bounded((data.depth * 4) \div 3, 0, 2000)

LiquidationClusterScore(data) ==
    IF ~Has(data, "cluster") THEN 0
    ELSE CASE data.cluster >= 250 -> 9000
           [] 150 <= data.cluster /\ data.cluster < 250 -> 6000
           [] 120 <= data.cluster /\ data.cluster < 150 -> 3000
           [] OTHER -> Bounded((data.cluster - 50) * 40, 0, 2000)

LongShortRatioScore(data) ==
    IF ~Has(data, "long") THEN 0
    ELSE CASE data.long > 7500 -> 9000
           [] 7000 < data.long /\ data.long <= 7500 -> 6000
           [] 6000 < data.long /\ data.long <= 7000 -> 3000
           [] OTHER -> Bounded(((data.long - 4500) * 4) \div 3, 0, 2000)

\* Outflows while the price falls are a reaction, not a warning.
StablecoinOutflowScore(data) ==
    IF ~Has(data, "outflow") THEN 0
    ELSE CASE Given(data, "priceChange", 0) < -500 -> 1000
           [] Given(data, "priceChange", 0) >= -500 /\ data.outflow > 1000 -> 9000
           [] /\ Given(data, "priceChange", 0) >= -500
              /\ 500 < data.outflow /\ data.outflow <= 1000 -> 6000
           [] /\ Given(data, "priceChange", 0) >= -500
              /\ 300 < data.outflow /\ data.outflow <= 500 -> 3000
           [] OTHER -> Bounded((data.outflow * 20) \div 3, 0, 2000)

MicrostructureScore(data) ==
    Bounded((30 * BasisCompressionScore(data) + 25 * OrderBookDepthScore(data)
              + 20 * LiquidationClusterScore(data) + 15 * LongShortRatioScore(data)
              + 10 * StablecoinOutflowScore(data)) \div 100, 0, 10000) \div 100

MicrostructureCritical(data) == MicrostructureScore(data) >= 65

----------------------------------------------------------------------------
\* The two graders take the normalized value, in ten-thousandths. A VIX of 1.0
\* or more is taken for a level; the spread is compared as if it were one too.

VixLevel(value) == IF value < 10000 THEN value ELSE value \div 100

MarginStress(hy, vix) ==
    (IF hy > 50000 THEN 4 ELSE IF hy > 40000 THEN 2 ELSE 0)
    + (IF VixLevel(vix) > 3500 THEN 4 ELSE IF VixLevel(vix) > 2500 THEN 2 ELSE 0)

MarginStressActive(hy, vix) == MarginStress(hy, vix) >= 6

NegativeGamma(vix) == VixLevel(vix) > 3000

=============================================================================
