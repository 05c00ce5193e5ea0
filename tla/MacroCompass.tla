---------------------------- MODULE MacroCompass ----------------------------
(***************************************************************************)
(* The composite score of src/engine/macro_compass.py: five sub-scores,    *)
(* each a blend of the constituents that are available, two advisory       *)
(* adders, and the floor that the news puts under the sum.                 *)
(*                                                                         *)
(* A reading is the raw value of a signal in hundredths. Stress and scores *)
(* are in ten-thousandths, each quotient rounded down; the score is turned *)
(* into hundredths by rounding up, which no boundary of a regime notices.  *)
(***************************************************************************)
EXTENDS Integers, FiniteSetsExt

Unit == 10000
Clip(x) == IF x < 0 THEN 0 ELSE IF x > Unit THEN Unit ELSE x
Least(a, b) == IF a < b THEN a ELSE b
Most(a, b) == IF a < b THEN b ELSE a

Required == {"VIX_INDEX", "HY_CREDIT_SPREAD", "PMI_NOWCAST", "10Y_TREASURY_YIELD"}

\* A constituent: the reading it looks at, where its stress is 0 and where it
\* is 1, and its weight inside its sub-score.
Constituent(reading, calm, worst, weight) ==
    [reading |-> reading, calm |-> calm, worst |-> worst, weight |-> weight]

CreditStress == {Constituent("HY_CREDIT_SPREAD", 300, 800, 50),
                 Constituent("IG_OAS_PCT", 100, 400, 30),
                 Constituent("AAA_OAS_PCT", 30, 150, 20)}

VolatilityRegime == {Constituent("VIX_INDEX", 1000, 4500, 50),
                     Constituent("VIX_TERM_RATIO", 100, 130, 25),
                     Constituent("REALIZED_VOL_20D", 1000, 4000, 25)}

\* Mutant: the sign of the survey reversed.
MomentumReversed == {Constituent("PMI_NOWCAST", 4500, 5500, 50),
                     Constituent("YIELD_CURVE_T10Y2Y", 50, -50, 30),
                     Constituent("DFF_3M_CHANGE_BPS", 0, 15000, 20)}

MacroMomentum == {Constituent("PMI_NOWCAST", 5500, 4500, 50),
                  Constituent("YIELD_CURVE_T10Y2Y", 50, -50, 30),
                  Constituent("DFF_3M_CHANGE_BPS", 0, 15000, 20)}

LiquidityConditions == {Constituent("FED_BS_4W_PCT", 50, -150, 1),
                        Constituent("REPO_STRESS_BPS", 0, 2500, 1),
                        Constituent("DXY_20D_PCT", 0, 500, 1)}

EquityInternals == {Constituent("BREADTH_PCT_ABOVE_50DMA", 7000, 2000, 1),
                    Constituent("CROSS_SECTIONAL_DISPERSION_PCT", 300, 1200, 1),
                    Constituent("SECTOR_ROTATION_SPREAD_PCT", 500, 2000, 1)}

\* The one reading that is derived from two, and is there only with both.
WithTermRatio(raw) ==
    IF "VIX3M" \in DOMAIN raw /\ raw["VIX3M"] > 0
    THEN [n \in DOMAIN raw \cup {"VIX_TERM_RATIO"} |->
             IF n = "VIX_TERM_RATIO" THEN (100 * raw["VIX_INDEX"]) \div raw["VIX3M"]
                                     ELSE raw[n]]
    ELSE raw

Stress(c, x) ==
    IF c.worst > c.calm THEN Clip(((x - c.calm) * Unit) \div (c.worst - c.calm))
                        ELSE Clip(((c.calm - x) * Unit) \div (c.calm - c.worst))

\* _blend: what is missing is left out and the other weights are renormalised.
Blend(constituents, raw) ==
    LET have == {c \in constituents : c.reading \in DOMAIN raw}
        share == [c \in have |-> c.weight * Stress(c, raw[c.reading])]
        weight == [c \in have |-> c.weight]
    IN  IF have = {} THEN 0
        ELSE MapThenSumSet(LAMBDA c : share[c], have)
             \div MapThenSumSet(LAMBDA c : weight[c], have)

\* Margin debt adds in both directions: when it shrinks and when it grows fast.
MarginAdder(raw) ==
    IF "MARGIN_DEBT_QOQ_PCT" \notin DOMAIN raw THEN 0
    ELSE LET qoq == raw["MARGIN_DEBT_QOQ_PCT"]
         IN  IF qoq < 0 THEN Least(500, -qoq \div 2)
             ELSE IF qoq > 500 THEN Least(500, (qoq - 500) \div 2)
             ELSE 0

\* Mutant: the cap of the adder forgotten.
SkewAdderUncapped(raw) ==
    IF "CBOE_SKEW" \in DOMAIN raw /\ raw["CBOE_SKEW"] > 13000
    THEN (raw["CBOE_SKEW"] - 13000) \div 4
    ELSE 0

SkewAdder(raw) ==
    IF "CBOE_SKEW" \in DOMAIN raw /\ raw["CBOE_SKEW"] > 13000
    THEN Least(500, (raw["CBOE_SKEW"] - 13000) \div 4)
    ELSE 0

Composite(raw) ==
    LET r == WithTermRatio(raw)
    IN  (25 * Blend(CreditStress, r) + 25 * Blend(VolatilityRegime, r)
          + 20 * Blend(MacroMomentum, r) + 20 * Blend(LiquidityConditions, r)
          + 10 * Blend(EquityInternals, r)) \div 100
        + MarginAdder(r) + SkewAdder(r)

\* calculate_macro_regime_score raises unless every required reading is there.
Scorable(raw) == Required \subseteq DOMAIN raw

RegimeScore(raw, floor) == (Clip(Most(Composite(raw), Clip(floor))) + 99) \div 100

=============================================================================
