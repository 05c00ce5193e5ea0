---------------------------- MODULE MCCandidates -----------------------------
(***************************************************************************)
(* A neutral item and a risk-on one; mornings on both sides of their       *)
(* thresholds, with and without reviews and alerts against them; three     *)
(* saves of the PM over three sweeps, two of which fail or die.            *)
(***************************************************************************)
EXTENDS CandidateQueue, TLC

MCItems == {[ticker |-> "GOOGL", threshold |-> 65], [ticker |-> "VRT", threshold |-> 45]}

Morning(score, cleared, googl, vrt, alerts) ==
    [score |-> score, cleared |-> cleared, reviews |-> [GOOGL |-> googl, VRT |-> vrt],
     alerts |-> alerts]

MCMornings ==
    {Morning(40, TRUE, "none", "INTACT", {}), Morning(44, TRUE, "BROKEN", "none", {"VRT"}),
     Morning(60, TRUE, "INTACT", "WATCH", {}), Morning(72, FALSE, "INTACT, weak", "none", {}),
     Morning(90, FALSE, "none", "BROKEN", {"GOOGL"})}

\* Both; one when the other is taken out; none where the file cannot be read.
MCListings == {{"GOOGL", "VRT"}, {"VRT"}, {}}

Answer(parses, gate2, score) ==
    [parses |-> parses, gate1 |-> TRUE, gate2 |-> gate2, score |-> score]
MCEvaluations == {Answer(FALSE, FALSE, 0), Answer(TRUE, FALSE, 25), Answer(TRUE, TRUE, 16)}
MCCircumstances == {[fem |-> "NORMAL", regime |-> "WATCH"], [fem |-> "NORMAL", regime |-> "CRASH"],
                    [fem |-> "ALERT", regime |-> "WATCH"]}
MCSources == {"Cat A", "Cat C"}
NoOverride == [t \in {} |-> ""]
=============================================================================
