-------------------------- MODULE DrawdownSentinel --------------------------
(***************************************************************************)
(* run_pds_check of engine/drawdown_sentinel.py: a NAV, its high-water     *)
(* mark and the last status give a status, and the status a ceiling. NAVs  *)
(* are positive integers (both callers refuse a NAV that is not positive), *)
(* ceilings are in thousandths.                                            *)
(***************************************************************************)
EXTENDS Integers

PdsStatuses == {"NORMAL", "WARNING", "DELEVERAGE_1", "DELEVERAGE_2"}
Deleveraged(status) == status \in {"DELEVERAGE_1", "DELEVERAGE_2"}

Full == 1000

\* The drawdown of nav from hwm is percent or more.
Down(percent, nav, hwm) == 100 * nav <= (100 - percent) * hwm

RawStatus(nav, hwm) ==
    CASE Down(18, nav, hwm) -> "DELEVERAGE_2"
      [] Down(12, nav, hwm) /\ ~Down(18, nav, hwm) -> "DELEVERAGE_1"
      [] Down(8, nav, hwm) /\ ~Down(12, nav, hwm) -> "WARNING"
      [] OTHER -> "NORMAL"

\* Mutant: the status without its exit hysteresis.
PdsStatusAbrupt(nav, hwm, last) == RawStatus(nav, hwm)

\* A level is left only where the drawdown is less than the next level's entry.
PdsStatus(nav, hwm, last) ==
    CASE last = "DELEVERAGE_2" /\ Down(12, nav, hwm) -> "DELEVERAGE_2"
      [] last = "DELEVERAGE_1" /\ Down(8, nav, hwm) /\ ~Down(18, nav, hwm) -> "DELEVERAGE_1"
      [] OTHER -> RawStatus(nav, hwm)

\* Mutant: the ceiling of the first level at both.
PdsCeilingFlat(status) == IF Deleveraged(status) THEN 600 ELSE Full

PdsCeiling(status) ==
    CASE status = "DELEVERAGE_2" -> 300
      [] status = "DELEVERAGE_1" -> 600
      [] OTHER -> Full

=============================================================================
