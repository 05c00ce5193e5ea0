---------------------------- MODULE MCDeployment ----------------------------
(* Five positions of data/rulebook.json, with its tags, caps and trim       *)
(* orders, and target weights made by TargetWeights.                        *)
EXTENDS Deployment, TLC

TW == INSTANCE TargetWeights

MCTickers == {"NVDA", "AVGO", "AMD", "GOOGL", "TSLA"}
MCTags == {"AI_SILICON", "HYPERSCALER", "CUSTOM_SILICON"}

MCTagsOf ==
    "NVDA"  :> {"AI_SILICON", "HYPERSCALER"} @@
    "AVGO"  :> {"AI_SILICON", "CUSTOM_SILICON", "HYPERSCALER"} @@
    "AMD"   :> {"AI_SILICON"} @@
    "GOOGL" :> {"HYPERSCALER"} @@
    "TSLA"  :> {}

MCCap == "AI_SILICON" :> 3000 @@ "HYPERSCALER" :> 2500 @@ "CUSTOM_SILICON" :> 2000

Ranks(order) ==
    [t \in MCTickers |-> IF \E i \in DOMAIN order : order[i] = t
                         THEN CHOOSE i \in DOMAIN order : order[i] = t ELSE 0]

MCTrimRank ==
    "AI_SILICON"     :> Ranks(<<"AMD", "AVGO", "NVDA">>) @@
    "HYPERSCALER"    :> Ranks(<<"AVGO", "NVDA", "GOOGL">>) @@
    "CUSTOM_SILICON" :> Ranks(<<>>)

MCTagRank == "AI_SILICON" :> 1 @@ "HYPERSCALER" :> 2 @@ "CUSTOM_SILICON" :> 0

----------------------------------------------------------------------------
\* A strong thesis, and none.
Strong == [gate3 |-> 27, source |-> "Cat A", fem |-> "NORMAL->NORMAL", regime |-> "RISK_ON"]

Level(thesis, regime) ==
    TW!ConvictionLevel(TW!GateInputs(thesis, 0, regime, "NORMAL"), 0)

PlanOf(strong, decayed, regime, ceiling) ==
    [ceiling |-> ceiling,
     weights |-> TW!Targets(
        [t \in MCTickers |-> Level(IF t \in strong THEN Strong ELSE TW!NoThesis, regime)],
        [t \in MCTickers |-> IF t \in decayed THEN 6 ELSE 10],
        ceiling)]

\* Targets over the caps of both shared tags, over one, and within all.
MCPlans == {PlanOf({"TSLA"}, {}, "RISK_ON", 10000),
            PlanOf({"NVDA", "AVGO"}, {"NVDA"}, "RISK_ON", 10000),
            PlanOf({"TSLA"}, {}, "DEFENSIVE", 4000),
            PlanOf({"AMD", "AVGO", "TSLA"}, {}, "DEFENSIVE", 4000)}

MCBooks == {b \in [MCTickers -> {300, 2100}] : b["TSLA"] = 300 /\ b["GOOGL"] = 300}

\* Shares of 0.1% to 0.5% of NAV: targets lie between two of them.
MCShare == "NVDA" :> 20 @@ "AVGO" :> 30 @@ "AMD" :> 12 @@ "GOOGL" :> 10 @@ "TSLA" :> 50

\* A calm tier, one that sends market orders, and the crisis tier.
MCVixLevels == {18, 25, 45}

----------------------------------------------------------------------------
(* What the formulas of TargetWeights must give, over all their inputs.    *)

Sources == {"Cat A", "Cat B", "Cat C", "None"}
Impacts == {"NORMAL->NORMAL", "NORMAL->WATCH", "WATCH->WATCH", "WATCH->ALERT (paired trim)"}
Entries == {"RISK_ON", "WATCH", "NEUTRAL", "NEUTRAL (queued)"}
Inputs == [gate3 : 0..30, source : Sources, fem : Impacts, regime : Entries]

\* A better score at gate 3 never lowers the conviction level.
ASSUME ConvictionIsMonotone ==
    \A i \in Inputs : i.gate3 < 30 =>
        TW!ConvictionLevel(i, 0) <= TW!ConvictionLevel([i EXCEPT !.gate3 = @ + 1], 0)

\* The targets of a plan stay within its ceiling and the single-position cap.
ASSUME TargetsFit ==
    \A p \in MCPlans :
        /\ Invested(p.weights) <= p.ceiling
        /\ \A t \in MCTickers : p.weights[t] \in 1..TW!MaxSinglePosition

=============================================================================
