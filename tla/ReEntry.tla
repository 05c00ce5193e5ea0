------------------------------- MODULE ReEntry -------------------------------
(***************************************************************************)
(* Deleveraging and staged re-entry over the days of a portfolio whose NAV *)
(* may be any of Navs on any day: the gates of AresGates against every     *)
(* drawdown and every recovery.                                            *)
(***************************************************************************)
EXTENDS AresGates

CONSTANT Navs           \* NAVs the portfolio may have

ASSUME NavsAssumption == Navs \subseteq Nat \ {0}

ReEntryInit == nav \in Navs /\ AresInit

\* One trading day of the loop.
Day == nav' \in Navs /\ AresDay

ReEntrySpec == ReEntryInit /\ [][Day]_ares

\* The replay goes through its days.
ReEntryFairSpec == ReEntrySpec /\ WF_ares(Day)

----------------------------------------------------------------------------
\* The NAV and its peak are among those the portfolio may have.
ReEntryTypeOK == AresTypeOK /\ {nav, hwm} \subseteq Navs

\* With all gates clear from some day on, the full ceiling comes back.
Reenters == <>[]cleared => <>[](active = Full)

\* ares.py: capital is deployed "in 3 equal tranches of 33%", REENTRY_TRANCHES
\* has them summed. Out of deleverage, and with VARES at its base size, the
\* ceiling has made up the share of the gap its tranches come to.
TranchesAreEqual ==
    ~Deleveraged(status) => 100 * (active - low) >= ReentryTranche(level) * (Full - low) - 100

=============================================================================
