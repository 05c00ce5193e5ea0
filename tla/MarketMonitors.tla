--------------------------- MODULE MarketMonitors ---------------------------
(***************************************************************************)
(* The monitors a sweep runs next to the regime: the put/call regime and   *)
(* its trend (modules/pcr_regime.py), the transition forecast (engine/     *)
(* regime_probability.py), the event calendar (modules/shutdown_risk.py),  *)
(* overnight futures (execution/overnight_monitor.py), retail sentiment    *)
(* (engine/mc_rss.py) and the PM's heartbeat (engine/incapacitation.py).   *)
(* Each is a function of what it is given; the histories the first two     *)
(* keep are given to them.                                                 *)
(***************************************************************************)
EXTENDS Integers, Sequences, FiniteSets, FiniteSetsExt

\* The last n of a history.
Trailing(n, h) == IF Len(h) <= n THEN h ELSE SubSeq(h, Len(h) - n + 1, Len(h))

----------------------------------------------------------------------------
\* Put/call ratio, in ten-thousandths.
PcrTrendLength == 5

PcrStatus(pcr) ==
    CASE pcr > 13000 -> "EXTREME_FEAR"
      [] 10000 < pcr /\ pcr <= 13000 -> "FEAR"
      [] 8000 < pcr /\ pcr <= 10000 -> "CAUTIOUS"
      [] 6000 <= pcr /\ pcr <= 8000 -> "NORMAL"
      [] OTHER -> "GREED"

PcrTrend(history) ==
    LET recent == Trailing(PcrTrendLength, history)
        last == recent[Len(recent)]
    IN  CASE Len(recent) < 3 -> "insufficient_data"
          [] Len(recent) >= 3 /\ last > recent[1] -> "rising"
          [] Len(recent) >= 3 /\ last < recent[1] -> "falling"
          [] OTHER -> "flat"

----------------------------------------------------------------------------
\* Transition forecast. Momenta are in hundredths of a ten-thousandth.
RiskOff == {"VIX_INDEX", "HY_CREDIT_SPREAD", "LIQ_VOL_24H"}
RiskOn == {"PMI_NOWCAST", "BTC_FUNDING", "T10Y2Y"}
TrackedSignals == RiskOff \cup RiskOn \cup {"10Y_TREASURY_YIELD"}

RpeWeight == [VIX_INDEX |-> 3, HY_CREDIT_SPREAD |-> 3, LIQ_VOL_24H |-> 1,
              PMI_NOWCAST |-> -1, BTC_FUNDING |-> -1, T10Y2Y |-> -1]

Momentum(h) == IF Len(h) < 2 THEN 0 ELSE (100 * (h[Len(h)] - h[1])) \div Len(h)

RiskOffPressure(histories) ==
    MapThenSumSet(LAMBDA t : RpeWeight[t] * Momentum(histories[t]), RiskOff \cup RiskOn)

\* The regime next to the one in force in the direction of the pressure, and
\* its probability in percent: at most 45, so that STABLE keeps the rest.
RpeForecast(histories, regime) ==
    LET p == RiskOffPressure(histories)
        chance(q) == IF q \div 2000 > 45 THEN 45 ELSE q \div 2000
    IN  CASE p > 100000 /\ regime < 4 -> [to |-> regime + 1, chance |-> chance(p)]
          [] p < -100000 /\ regime > 0 -> [to |-> regime - 1, chance |-> chance(-p)]
          [] OTHER -> [to |-> regime, chance |-> 0]

\* max() over the probabilities.
RpeHighest(f, regime) == IF f.chance > 100 - f.chance THEN f.to ELSE regime

----------------------------------------------------------------------------
\* Event calendar: events with a severity and the days until them.
AlertWindow == [CRITICAL |-> 14, HIGH |-> 10, MEDIUM |-> 5, LOW |-> 2]
ShutdownOrder == [CLEAR |-> 0, WATCH |-> 1, ELEVATED |-> 2, CRITICAL |-> 3]

EventStatus(e) ==
    LET grave == e.severity \in {"HIGH", "CRITICAL"}
    IN  CASE e.days > AlertWindow[e.severity] -> 0
          [] e.days <= 2 /\ grave -> ShutdownOrder["CRITICAL"]
          [] 2 < e.days /\ e.days <= 5 /\ grave -> ShutdownOrder["ELEVATED"]
          [] OTHER -> ShutdownOrder["WATCH"]

ShutdownStatus(calendar) ==
    LET ahead == {e \in calendar : e.days >= 0}
    IN  Max({0} \cup {EventStatus(e) : e \in ahead})

----------------------------------------------------------------------------
\* Overnight futures: the move in hundredths of a percent, the VIX future in
\* tenths.
OvernightStatus(es, vix) ==
    CASE es <= -250 \/ vix >= 350 -> "GAP_CRITICAL"
      [] es > -250 /\ vix < 350 /\ (es <= -150 \/ vix >= 280) -> "GAP_WARNING"
      [] OTHER -> "NORMAL"

----------------------------------------------------------------------------
\* Retail sentiment: the z-score of the flow and the AAII spread in hundredths,
\* the NAAIM exposure in points.
RssScore(z, naaim, aaii) ==
    LET flow == IF z < -300 THEN 0 ELSE IF z > 300 THEN 600 ELSE z + 300
    IN  (40 * flow) \div 6 + (30 * naaim) \div 2 + (30 * (aaii + 100)) \div 2

RssLabel(score) ==
    CASE score <= 2500 -> "EXTREME_FEAR"
      [] 2500 < score /\ score < 4000 -> "FEAR"
      [] score >= 8500 -> "EXTREME_GREED"
      [] 7000 < score /\ score < 8500 -> "GREED"
      [] OTHER -> "NEUTRAL"

----------------------------------------------------------------------------
\* The regime the silence of the PM forces, as an index; -1 for none. It never
\* replaces one that is as defensive.
SafetyTier(hours) == IF hours >= 72 THEN 3 ELSE IF hours >= 24 THEN 2
                     ELSE IF hours >= 4 THEN 1 ELSE 0

ForcedRegime(hours, regime) ==
    LET forced == CASE SafetyTier(hours) = 3 -> 3 [] SafetyTier(hours) = 2 -> 2 [] OTHER -> -1
    IN  IF regime >= forced THEN -1 ELSE forced

\* A sweep passes a heartbeat of 45 minutes ago.
SweepHeartbeat == 0

=============================================================================
