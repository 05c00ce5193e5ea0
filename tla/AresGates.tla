------------------------------ MODULE AresGates ------------------------------
(***************************************************************************)
(* The day of the portfolio in simulation/replay_harness.py: the drawdown  *)
(* sentinel with its hysteresis cuts the ceiling at once, and the ARES     *)
(* gates of engine/ares.py let it back up in three tranches two days       *)
(* apart. ReEntry takes the NAV of a day as it comes, ReplayBook computes  *)
(* it from the books of the backtest.                                      *)
(*                                                                         *)
(* Ceilings are in thousandths; a tranche is rounded down to one. The      *)
(* volatility gate, the score gate and the size VARES gives a tranche are  *)
(* inputs of the day.                                                      *)
(***************************************************************************)
EXTENDS DrawdownSentinel

CONSTANTS
    VaresSizes,     \* adjusted tranche sizes, percent: 15..35 in the code
    Gaps            \* calendar days between two trading days

ASSUME AresAssumption ==
    /\ VaresSizes \subseteq 15..35
    /\ Gaps \subseteq Nat \ {0}

Regimes == {"RISK_ON", "WATCH", "NEUTRAL", "DEFENSIVE", "CRASH"}

TrancheCooldownDays == 2
Tranches == 3
\* REENTRY_TRANCHES, percent.
ReentryTranche(level) == <<0, 33, 66, 100>>[level + 1]

\* No cooldown left to wait; also ares_last_tranche_date = None.
Rested == TrancheCooldownDays

VARIABLES
    nav, hwm,
    status,         \* last_pds_status
    level,          \* ares_tranche_level
    rest,           \* days since ares_last_tranche_date, up to Rested
    active,         \* ares_active_ceiling
    low,            \* pds_low_ceiling_at_exit, the ceiling a recovery starts from
    cleared,        \* all four gates were cleared that day
    away            \* history: days since the last deleveraged day, up to 5

ares == <<nav, hwm, status, level, rest, active, low, cleared, away>>

\* The portfolio opens at its mark, with the full ceiling.
AresInit ==
    /\ hwm = nav
    /\ status = "NORMAL"
    /\ level = 0 /\ rest = Rested
    /\ active = Full /\ low = Full
    /\ cleared = FALSE
    /\ away = 5

----------------------------------------------------------------------------
CapAt(n, limit) == IF n > limit THEN limit ELSE n

Aborted(regime, pds) == regime \in {"CRASH", "DEFENSIVE"} \/ pds = "DELEVERAGE_2"

\* run_ares_check: the four gates, then the cooldown and the tranche count.
GatesCleared(regime, pds, calm, scoreFell) ==
    /\ regime \notin {"CRASH", "DEFENSIVE"}
    /\ calm
    /\ ~Deleveraged(pds)
    /\ scoreFell

\* Mutants: a tranche too many, and a cooldown one day short.
CanDeployOneMore(lvl, rested) == lvl <= Tranches /\ rested >= TrancheCooldownDays
CanDeployEarly(lvl, rested) == lvl < Tranches /\ rested >= TrancheCooldownDays - 1

CanDeploy(lvl, rested) == lvl < Tranches /\ rested >= TrancheCooldownDays

\* Mutant: the last tranche sized as the others are.
RaisedAlike(lvl, size) == active + ((Full - active) * size) \div 100

\* The third tranche deploys what is left of the gap.
Raised(lvl, size) ==
    IF lvl >= Tranches THEN Full
    ELSE active + ((Full - active) * size) \div 100

\* The sentinel deleverages: its ceiling rules, and re-entry starts over.
Deleverage(pds) ==
    /\ active' = PdsCeiling(pds)
    /\ low' = PdsCeiling(pds)
    /\ level' = 0
    /\ rest' = Rested
    /\ cleared' = FALSE
    /\ away' = 0

\* A day out of deleverage. A tranche counts even when there is nothing left to
\* re-enter; an abort takes back the count, not the ceiling.
Reenter(regime, pds, calm, scoreFell, size, gap) ==
    LET lvl == IF Aborted(regime, pds) THEN 0 ELSE level
        rested == IF Aborted(regime, pds) THEN Rested ELSE CapAt(rest + gap, Rested)
        gates == GatesCleared(regime, pds, calm, scoreFell)
        fires == gates /\ CanDeploy(lvl, rested)
    IN  /\ cleared' = gates
        /\ level' = IF fires THEN lvl + 1 ELSE lvl
        /\ rest' = IF fires THEN 0 ELSE rested
        /\ active' = IF fires /\ active < Full THEN Raised(lvl + 1, size) ELSE active
        /\ away' = CapAt(away + gap, 5)
        /\ UNCHANGED low

\* What the loop makes of the NAV the day is marked at.
Judge(regime, calm, scoreFell, size, gap) ==
    /\ hwm' = IF nav' > hwm THEN nav' ELSE hwm
    /\ status' = PdsStatus(nav', hwm', status)
    /\ IF Deleveraged(status')
       THEN Deleverage(status')
       ELSE Reenter(regime, status', calm, scoreFell, size, gap)

AresDay ==
    \E regime \in Regimes, calm \in BOOLEAN, scoreFell \in BOOLEAN,
       size \in VaresSizes, gap \in Gaps : Judge(regime, calm, scoreFell, size, gap)

----------------------------------------------------------------------------
\* What the gates make of any NAV.
AresTypeOK ==
    /\ nav \in Int /\ hwm \in Nat /\ nav <= hwm
    /\ status \in PdsStatuses
    /\ level \in 0..Tranches
    /\ rest \in 0..Rested
    /\ active \in 0..Full /\ low \in {300, 600, Full}
    /\ cleared \in BOOLEAN
    /\ away \in 0..5

\* The kill switch: on a day the drawdown reaches a level, the ceiling the
\* rebalance works with is no higher than that level's, whatever re-entry was
\* under way.
KillSwitchIsImmediate ==
    /\ Down(12, nav, hwm) => active <= 600
    /\ Down(18, nav, hwm) => active <= 300

\* A deleverage level is left only where the doc of the sentinel says it is.
ExitsAreHysteretic ==
    [][/\ status = "DELEVERAGE_1" /\ ~Deleveraged(status') => ~Down(8, nav', hwm')
       /\ status = "DELEVERAGE_2" /\ status' # status => ~Down(12, nav', hwm')]_ares

\* The full ceiling is back no sooner than five days after the last deleveraged
\* day: one to leave it, and two cooldowns between the three tranches. Aborts,
\* weekends and levels counted before do not make it sooner.
RecoveryTakesTime == active = Full => away = 5

\* What the count of tranches says can still be deployed can: a ceiling below
\* full always has a tranche left, so re-entry never gets stuck.
TrancheLeft == active < Full => level < Tranches

=============================================================================
