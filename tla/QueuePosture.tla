---------------------------- MODULE QueuePosture -----------------------------
(***************************************************************************)
(* What becomes of a candidate in the strategic queue: the reasons of      *)
(* execution/queue_reasoning.py, the states of execution/queue_state.py    *)
(* and the gates of engine/sentinel_workflow.py. Pure operators; scores    *)
(* and thresholds are in hundredths, gate 3 scores in points.              *)
(*                                                                         *)
(* A thesis is [status, gate3, source]; a ticker without one has Missing.  *)
(* A morning is what the sweep knows by then: the regime score, whether    *)
(* ARES has cleared, the stored review of each ticker and the tickers with *)
(* an alert of the dependency scan.                                        *)
(***************************************************************************)
EXTENDS Integers

CONSTANTS
    ConsensusPriced, Preconsensus,  \* tickers in consensus_overrides.json
    ActionOverride                  \* and the actions it gives to some of them

NoScore == -1
Missing == [status |-> "MISSING", gate3 |-> NoScore, source |-> "None"]

----------------------------------------------------------------------------
(* run_automated_gates. An evaluation is what the model answers.           *)

Threshold(source) == IF source \in {"Cat A", "Cat B"} THEN 14 ELSE 20

Evaluated(thesis, answer, fem, regime) ==
    IF ~answer.parses THEN [thesis EXCEPT !.status = "REJECTED"]
    ELSE LET judged == [thesis EXCEPT !.gate3 = answer.score]
         IN  CASE ~answer.gate1 \/ ~answer.gate2 \/ answer.score < Threshold(thesis.source)
                    \/ fem = "ALERT" -> [judged EXCEPT !.status = "REJECTED"]
               [] OTHER -> IF regime \in {"DEFENSIVE", "CRASH"} THEN judged
                           ELSE [judged EXCEPT !.status = "ACTIVE"]

----------------------------------------------------------------------------
(* derive_queue_reasoning_signals: an action and a reason.                 *)

Signal(action, reason) == [action |-> action, reason |-> reason]

KnownRiskOnOnly == {"NVDA"}

Unconfirmed(thesis) ==
    \/ thesis.status \in {"REJECTED", "MISSING", "RETIRED"}
    \/ thesis.status = "DRAFT" /\ thesis.gate3 = NoScore

Converging(thesis, review) ==
    \/ review = "INTACT, weak"
    \/ thesis.gate3 \in 10..13

ConsensusOrAsymmetry(ticker, thesis, review) ==
    CASE ticker \in ConsensusPriced ->
           Signal(IF ticker \in DOMAIN ActionOverride THEN ActionOverride[ticker] ELSE "REMOVE",
                  "CONSENSUS_PRICED")
      [] ticker \notin ConsensusPriced /\ ticker \in Preconsensus ->
           Signal("KEEP", "ASYMMETRY_RETAINED")
      [] OTHER ->
           IF Converging(thesis, review) THEN Signal("MONITOR", "CONSENSUS_CONVERGING")
           ELSE IF thesis.gate3 = NoScore THEN Signal("KEEP", "REGIME_NOT_CLEARED")
           ELSE IF thesis.gate3 < 14 THEN Signal("REMOVE", "SENTINEL_UNCONFIRMED")
           ELSE Signal("KEEP", "ASYMMETRY_RETAINED")

\* Mutant: the PM's hints are asked before the reviews.
ReasoningHintsFirst(ticker, thesis, review, alerted) ==
    IF Unconfirmed(thesis) THEN Signal("REMOVE", "SENTINEL_UNCONFIRMED")
    ELSE IF ticker \in KnownRiskOnOnly THEN Signal("EVAL_ONLY", "RISK_ON_EVAL_ONLY")
    ELSE IF ticker \in ConsensusPriced \cup Preconsensus
         THEN ConsensusOrAsymmetry(ticker, thesis, review)
    ELSE IF review = "BROKEN" THEN Signal("REMOVE", "THESIS_MONITOR_ONLY")
    ELSE IF review \in {"WATCH", "IMPAIRED"} \/ alerted THEN Signal("MONITOR", "THESIS_MONITOR_ONLY")
    ELSE ConsensusOrAsymmetry(ticker, thesis, review)

Reasoning(ticker, thesis, review, alerted) ==
    IF Unconfirmed(thesis) THEN Signal("REMOVE", "SENTINEL_UNCONFIRMED")
    ELSE IF ticker \in KnownRiskOnOnly THEN Signal("EVAL_ONLY", "RISK_ON_EVAL_ONLY")
    ELSE IF review = "BROKEN" THEN Signal("REMOVE", "THESIS_MONITOR_ONLY")
    ELSE IF review \in {"WATCH", "IMPAIRED"} \/ alerted THEN Signal("MONITOR", "THESIS_MONITOR_ONLY")
    ELSE ConsensusOrAsymmetry(ticker, thesis, review)

----------------------------------------------------------------------------
(* build_queue_governance_state: what an item's score makes of it, and what *)
(* the reasoning overrules.                                                 *)

Lane(item) == IF item.threshold <= 45 THEN "RISK_ON" ELSE "NEUTRAL"

ScoredState(item, score, cleared) ==
    IF score <= item.threshold /\ cleared THEN "TRIGGERED"
    ELSE IF Lane(item) = "RISK_ON" THEN "EVAL_ONLY"
    ELSE IF score <= item.threshold + 10 THEN "WATCH"
    ELSE "LOCKED"

StateOf(item, signal, score, cleared) ==
    CASE signal.action = "REMOVE"    -> "REMOVED"
      [] signal.action = "MONITOR"   -> "MONITOR_LIST"
      [] signal.action = "HOLD"      -> "HOLD_CURRENT_WEIGHT"
      [] signal.action = "EVAL_ONLY" -> "EVAL_ONLY"
      [] OTHER                       -> ScoredState(item, score, cleared)

Entry(item, thesis, morning) ==
    LET signal == Reasoning(item.ticker, thesis, morning.reviews[item.ticker],
                            item.ticker \in morning.alerts)
    IN  [state |-> StateOf(item, signal, morning.score, morning.cleared),
         reason |-> signal.reason]

\* VALID_TRANSITIONS. A transition outside the table is logged as invalid and
\* made all the same.
ValidTransitions ==
    [ABSENT              |-> {"LOCKED", "WATCH", "EVAL_ONLY", "MONITOR_LIST", "REMOVED"},
     LOCKED              |-> {"WATCH", "TRIGGERED", "EVAL_ONLY", "REMOVED", "MONITOR_LIST", "LOCKED"},
     WATCH               |-> {"TRIGGERED", "LOCKED", "EVAL_ONLY", "REMOVED", "MONITOR_LIST", "WATCH"},
     TRIGGERED           |-> {"LOCKED", "WATCH", "HOLD_CURRENT_WEIGHT", "REMOVED", "TRIGGERED"},
     EVAL_ONLY           |-> {"WATCH", "LOCKED", "TRIGGERED", "REMOVED", "MONITOR_LIST", "EVAL_ONLY"},
     HOLD_CURRENT_WEIGHT |-> {"EVAL_ONLY", "REMOVED", "MONITOR_LIST", "WATCH", "HOLD_CURRENT_WEIGHT"},
     REMOVED             |-> {"LOCKED", "WATCH", "REMOVED"},
     MONITOR_LIST        |-> {"LOCKED", "WATCH", "EVAL_ONLY", "REMOVED", "MONITOR_LIST"}]

=============================================================================
