------------------------------ MODULE MCSweep ------------------------------
(* The sweep over two positions, one to be reduced and one to be bought.    *)
EXTENDS MorningSweep, TLC

CONSTANTS a, b

MCTickers == {a, b}
At(level) == [vix |-> level, crash |-> FALSE]
Crash(level) == [vix |-> level, crash |-> TRUE]

\* Levels of the LAEP tiers NORMAL, HIGH and CRISIS.
MCMarkets == {At(15), At(25), At(45), Crash(45)}
MCInitial == (a :> 3) @@ (b :> 1)
MCTargets == {(a :> 1) @@ (b :> 3)}
\* For a price of 3 a share: halves and thirds of a share, and a need that a
\* retry finds reversed.
MCValues == {(a :> 1) @@ (b :> 8), (a :> 11) @@ (b :> 6)}
MCGainers == {{}, {b}}
MCFactor == {a}
MCHedges == {"none", "roll"}
=============================================================================
