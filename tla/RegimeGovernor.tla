--------------------------- MODULE RegimeGovernor ---------------------------
(***************************************************************************)
(* What the rest of ARMS is promised about the risk regime, whatever the   *)
(* assessor does with scores and confirmations: a regime gives way to its  *)
(* neighbour only, and only after it has been in force for a number of     *)
(* observations that is larger for relaxing than for tightening; CRASH may *)
(* be entered at once, from anywhere.                                      *)
(***************************************************************************)
EXTENDS Integers

CONSTANTS
    RelaxAfter,     \* observations a regime lasts before a less defensive one
    TightenAfter    \* observations a regime lasts before a more defensive one

VARIABLES
    regime,         \* 0 (RISK_ON) .. 4 (CRASH)
    age             \* observations since the regime came into force, at most
                    \* RelaxAfter - 1 of them counted

govVars == <<regime, age>>

Capped(n) == IF n < RelaxAfter THEN n ELSE RelaxAfter - 1

GovInit == regime = 0 /\ age = 0

Keep == /\ regime' = regime
        /\ age' \in {age, Capped(age + 1)}

Relax == /\ age + 1 >= RelaxAfter
         /\ regime > 0
         /\ regime' = regime - 1
         /\ age' = 0

Tighten == /\ age + 1 >= TightenAfter
           /\ regime < 4
           /\ regime' = regime + 1
           /\ age' = 0

Crash == /\ regime' = 4
         /\ age' = 0

GovNext == Keep \/ Relax \/ Tighten \/ Crash

GovSpec == GovInit /\ [][GovNext]_govVars
=============================================================================
