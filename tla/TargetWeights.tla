---------------------------- MODULE TargetWeights ----------------------------
(***************************************************************************)
(* From a position's thesis to its target weight: the gate inputs of       *)
(* engine/sentinel_bridge.py, the conviction level of engine/mics.py and   *)
(* the conviction-squared weights of engine/master_engine.py, capped by    *)
(* engine/kevlar.py. Pure operators in integer arithmetic: weights and     *)
(* ceilings are in basis points of NAV and are rounded down, decay         *)
(* multipliers are in tenths. The calibration file is taken as absent.     *)
(***************************************************************************)
EXTENDS Integers, Sequences, FiniteSetsExt

Clamp(low, high, n) == Max({low, Min({high, n})})

----------------------------------------------------------------------------
(* The inputs of a position: its active thesis, or what the bridge makes   *)
(* up where there is none. `adjustment` is the gate 3 supplement.          *)

FemImpact(status) ==
    IF status \in {"WATCH", "ALERT"} THEN "NORMAL->" \o status ELSE "NORMAL->NORMAL"

NoThesis == [gate3 |-> 14, source |-> "None"]

GateInputs(thesis, adjustment, regime, femStatus) ==
    LET active == IF thesis = NoThesis
                  THEN [gate3  |-> 14,
                        source |-> "None",
                        fem    |-> FemImpact(femStatus),
                        regime |-> IF regime \in {"RISK_ON", "WATCH"} THEN regime
                                                                      ELSE "NEUTRAL"]
                  ELSE thesis
    IN  [active EXCEPT !.gate3 = Clamp(0, 30, active.gate3 + adjustment)]

----------------------------------------------------------------------------
(* calculate_mics. Everything is scaled by 300: gate 3 by 3, for its       *)
(* thirty points on a scale of ten, and the weights by 100.                *)

SourceScore(source) ==
    CASE source = "Cat A" -> 10
      [] source = "Cat B" -> 8
      [] source = "Cat C" -> 5
      [] source = "None"  -> 4
      [] OTHER            -> 0

FemScore(impact) ==
    CASE impact = "NORMAL->NORMAL"             -> 10
      [] impact = "NORMAL->WATCH"              -> 7
      [] impact = "WATCH->WATCH"               -> 6
      [] impact = "WATCH->ALERT (paired trim)" -> 4
      [] OTHER                                 -> 0

RegimeScore(regime) ==
    CASE regime = "RISK_ON"          -> 10
      [] regime = "WATCH"            -> 9
      [] regime = "NEUTRAL"          -> 7
      [] regime = "NEUTRAL (queued)" -> 5
      [] OTHER                       -> 0

RawScore(inputs, adjustment) ==
      40 * Clamp(0, 30, inputs.gate3 + 3 * adjustment)
    + 90 * SourceScore(inputs.source)
    + 45 * FemScore(inputs.fem)
    + 45 * RegimeScore(inputs.regime)

\* Python rounds a half to the even neighbour.
RoundHalfEven(n, unit) ==
    LET up == (2 * n + unit) \div (2 * unit)
    IN  IF (2 * n + unit) % (2 * unit) = 0 /\ up % 2 = 1 THEN up - 1 ELSE up

ConvictionLevel(inputs, adjustment) ==
    Clamp(1, 10, RoundHalfEven(RawScore(inputs, adjustment), 300))

----------------------------------------------------------------------------
(* compute_target_weights.                                                 *)

MaxSinglePosition == 2200
Whole == 10000

EffectiveCeiling(arasCeiling, pdsCeiling) == Min({arasCeiling, 12500, pdsCeiling})

ConvictionSquared(level, decay) == level * level * decay

Targets(level, decay, ceiling) ==
    LET score == [t \in DOMAIN level |-> ConvictionSquared(level[t], decay[t])]
        total == MapThenSumSet(LAMBDA t : score[t], DOMAIN level)
        share(t) == (score[t] * EffectiveCeiling(ceiling, Whole)) \div total
    IN  [t \in DOMAIN level |-> IF total = 0 THEN 0 ELSE Min({MaxSinglePosition, share(t)})]

=============================================================================
