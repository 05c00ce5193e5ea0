---------------------------- MODULE SignalScores -----------------------------
(***************************************************************************)
(* The anticipatory signals: what the four trackers of src/intelligence    *)
(* make of a reading and of the readings before it, and how                *)
(* gate3_supplementary.py and engine/mics.py turn the signals of a         *)
(* position into its conviction level. Pure operators.                     *)
(*                                                                         *)
(* A history is a sequence of entries [monday, reads], `reads` a count, or *)
(* for ELVT a score in hundredths, per category. A signal is a direction   *)
(* and a severity; the signals of a position are a function from pairs of  *)
(* entity and category. Adjustments are in hundredths of a gate 3 point.   *)
(***************************************************************************)
EXTENDS TargetWeights, SequencesExt

CONSTANTS
    Window,         \* entries a count is compared with: 12 weeks
    PatentWindow,   \* of PFVT: 6 months
    MinWeeks        \* entries JPVI needs before the gate reads it: 4

ASSUME WindowAssumption ==
    Window \in Nat \ {0} /\ PatentWindow \in Nat \ {0} /\ MinWeeks \in Nat \ {0, 1}

----------------------------------------------------------------------------
(* Which positions an entity bears on, per category.                       *)

LanguageCategories == {"capex_commitment", "demand_visibility", "competitive_posture"}

ElvtPositions ==
    [Microsoft |-> {"MU", "NVDA", "ALAB", "ANET", "MRVL"},
     Google    |-> {"MU", "NVDA", "ALAB", "AVGO", "ANET", "MRVL"},
     Amazon    |-> {"MU", "NVDA", "ALAB", "ANET", "MRVL"},
     Meta      |-> {"MU", "NVDA", "ALAB", "AVGO", "ANET"},
     Oracle    |-> {"NVDA"},
     Apple     |-> {"AVGO", "ARM"}]

JobCategories ==
    {"data_center_infrastructure", "ai_ml_infrastructure", "network_engineering", "power_cooling"}

Hyperscaler ==
    [data_center_infrastructure |-> {"MU", "NVDA", "ALAB", "ANET"},
     ai_ml_infrastructure       |-> {"NVDA", "MU", "AVGO", "MRVL"},
     network_engineering        |-> {"ANET", "MRVL", "AVGO"},
     power_cooling              |-> {"ETN", "VRT"}]

JpviPositions ==
    [Microsoft |-> Hyperscaler, Google |-> Hyperscaler, Amazon |-> Hyperscaler,
     Meta      |-> [Hyperscaler EXCEPT !.ai_ml_infrastructure = @ \ {"MRVL"},
                                       !.network_engineering = @ \ {"MRVL"}],
     Oracle    |-> [c \in JobCategories |->
                      IF c \in {"data_center_infrastructure", "ai_ml_infrastructure"}
                      THEN {"NVDA"} ELSE {}]]

PatentCategories ==
    {"hbm_memory_packaging", "ai_inference_chip", "pcie_cxl_interconnect",
     "datacenter_power_cooling", "custom_networking_silicon"}

Assignee ==
    [hbm_memory_packaging      |-> {"MU"},
     ai_inference_chip         |-> {"NVDA"},
     pcie_cxl_interconnect     |-> {"ALAB"},
     datacenter_power_cooling  |-> {"ETN", "VRT"},
     custom_networking_silicon |-> {"MRVL", "AVGO"}]

OnlyFor(categories) == [c \in PatentCategories |-> IF c \in categories THEN Assignee[c] ELSE {}]

PfvtPositions ==
    [Google    |-> [Assignee EXCEPT !.custom_networking_silicon = @ \cup {"ANET"}],
     Microsoft |-> Assignee, Amazon |-> Assignee,
     Meta      |-> [Assignee EXCEPT !.ai_inference_chip = @ \cup {"AVGO"},
                                    !.custom_networking_silicon = {"AVGO"}],
     Samsung   |-> OnlyFor({"hbm_memory_packaging"}),
     SKHynix   |-> OnlyFor({"hbm_memory_packaging"}),
     Intel     |-> OnlyFor({"ai_inference_chip", "pcie_cxl_interconnect"})]

SccrPositions ==
    [TSMC      |-> {"NVDA", "MU", "ALAB", "AVGO", "MRVL", "AMD"},
     Microsoft |-> {"MU", "NVDA", "ALAB", "ANET"},
     Google    |-> {"MU", "NVDA", "ALAB", "AVGO", "ANET"},
     Amazon    |-> {"MU", "NVDA", "ALAB", "ANET"},
     Meta      |-> {"MU", "NVDA", "ALAB", "AVGO"}]

\* Categories no position depends on are not looked up.
Followed(positions) == {c \in DOMAIN positions : positions[c] # {}}

----------------------------------------------------------------------------
(* Velocity.                                                               *)

Signal(direction, severity) == [direction |-> direction, severity |-> severity]

\* _classify_velocity of ELVT, over the change of a score.
ScoreVelocity(change) ==
    CASE change > 40  -> Signal("ACCELERATING", "CRITICAL")
      [] change > 20 /\ change <= 40 -> Signal("IMPROVING", "HIGH")
      [] change > 5 /\ change <= 20  -> Signal("IMPROVING", "MEDIUM")
      [] change < -40 -> Signal("DETERIORATING", "CRITICAL")
      [] change < -20 /\ change >= -40 -> Signal("SOFTENING", "HIGH")
      [] change < -5 /\ change >= -20  -> Signal("SOFTENING", "MEDIUM")
      [] OTHER -> Signal("STABLE", "LOW")

\* Mutant: the sign of the lower threshold lost.
GradedUnsigned(change, base) ==
    CASE 100 * change > 40 * base -> Signal("ACCELERATING", "CRITICAL")
      [] 100 * change > 20 * base /\ 100 * change <= 40 * base -> Signal("INCREASING", "HIGH")
      [] 100 * change < 20 * base -> Signal("DECLINING", "HIGH")
      [] OTHER -> Signal("STABLE", "LOW")

\* A change relative to a base, by the thresholds the three counts share.
Graded(change, base) ==
    CASE 100 * change > 40 * base -> Signal("ACCELERATING", "CRITICAL")
      [] 100 * change > 20 * base /\ 100 * change <= 40 * base -> Signal("INCREASING", "HIGH")
      [] 100 * change > 5 * base /\ 100 * change <= 20 * base -> Signal("ELEVATED", "MEDIUM")
      [] 100 * change < -20 * base -> Signal("DECLINING", "HIGH")
      [] OTHER -> Signal("STABLE", "LOW")

\* score_jpvi_velocity, and _score_velocity of PFVT and SCCR: a count against
\* the average of some of those before. From nothing to something is all of it.
VelocityOver(used, count, prior) ==
    LET total == MapThenSumSet(LAMBDA i : prior[i], used)
    IN  IF total > 0 THEN Graded(Cardinality(used) * count - total, total)
        ELSE IF count > 0 THEN Graded(1, 1) ELSE Graded(0, 1)

CountVelocity(count, prior) == VelocityOver(DOMAIN prior, count, prior)

LastOf(n, s) == SubSeq(s, Max({1, Len(s) - n + 1}), Len(s))
\* Mutant: an average that takes in the entry it is compared with.
BeforeAndItself(n, s) == LastOf(n, s)
Before(n, s) == LastOf(n, Front(s))
Reads(entries, c) == [i \in DOMAIN entries |-> entries[i].reads[c]]

(* What a sweep finds: the reading it took against the file it read.       *)

\* run_jpvi_analysis leaves zeros out of the average; the others do not.
JpviFound(history, reads, c) ==
    LET prior == Reads(LastOf(Window, history), c)
    IN  VelocityOver({i \in DOMAIN prior : prior[i] > 0}, reads[c], prior)

PfvtFound(history, reads, c) ==
    CountVelocity(reads[c], Reads(LastOf(PatentWindow, history), c))

SccrFound(history, reads, c) == CountVelocity(reads[c], Reads(LastOf(Window, history), c))

ElvtFound(history, reads, c) ==
    IF history = <<>> THEN Signal("STABLE", "LOW")
    ELSE ScoreVelocity(reads[c] - Last(history).reads[c])

(* What the gate finds: the last entry of the file against those before.   *)

LongEnough(n, files, categories) ==
    {k \in (DOMAIN files) \X categories : Len(files[k[1]]) >= n}

CountSignal(n, h, c) == CountVelocity(Last(h).reads[c], Reads(Before(n, h), c))

ElvtSignals(ticker, files) ==
    [k \in {k \in LongEnough(2, files, LanguageCategories) : ticker \in ElvtPositions[k[1]]} |->
        LET h == files[k[1]]
        IN  ScoreVelocity(Last(h).reads[k[2]] - h[Len(h) - 1].reads[k[2]])]

JpviSignals(ticker, files) ==
    [k \in {k \in LongEnough(MinWeeks, files, JobCategories) :
            ticker \in JpviPositions[k[1]][k[2]]} |->
        CountSignal(Window, files[k[1]], k[2])]

PfvtSignals(ticker, files) ==
    [k \in {k \in LongEnough(2, files, PatentCategories) :
            ticker \in PfvtPositions[k[1]][k[2]]} |->
        CountSignal(PatentWindow, files[k[1]], k[2])]

SccrSignals(ticker, files) ==
    [k \in {k \in LongEnough(2, files, {"volume"}) : ticker \in SccrPositions[k[1]]} |->
        CountSignal(Window, files[k[1]], k[2])]

----------------------------------------------------------------------------
(* calculate_gate3_supplementary, with the default weights: no code writes *)
(* the file of calibrated ones.                                            *)

Weight == [ELVT |-> 35, JPVI |-> 30, PFVT |-> 15, SCCR |-> 20]

SeverityMultiplier == [CRITICAL |-> 10, HIGH |-> 7, MEDIUM |-> 3, LOW |-> 0]

DirectionMultiplier ==
    [ACCELERATING |-> 10, INCREASING |-> 6, IMPROVING |-> 6, ELEVATED |-> 3, STABLE |-> 0,
     SOFTENING |-> -5, DECLINING |-> -8, DETERIORATING |-> -10]

Impact(signal) == SeverityMultiplier[signal.severity] * DirectionMultiplier[signal.direction]

\* _score_signals, times the scale of five points; in millionths.
Contribution(signals, weight) ==
    LET counted == {k \in DOMAIN signals : signals[k].severity # "LOW"}
        impact == [k \in counted |-> Impact(signals[k])]
    IN  IF counted = {} THEN 0
        ELSE (500 * weight * MapThenSumSet(LAMBDA k : impact[k], counted))
                \div Cardinality(counted)

Adjustment(signals) ==
    LET points == [t \in DOMAIN signals |-> Contribution(signals[t], Weight[t])]
    IN  RoundHalfEven(Clamp(-5000000, 5000000,
                            MapThenSumSet(LAMBDA t : points[t], DOMAIN signals)),
                      10000)

----------------------------------------------------------------------------
(* The conviction level of a position, as the sweep comes to it: the       *)
(* bridge adds the adjustment to the thirty points of gate 3, calculate_   *)
(* mics to the ten they become.                                            *)

Level(thesis, bridged, adjustment, regime) ==
    LET inputs == GateInputs(thesis, 0, regime, "NORMAL")
        gate3 == Clamp(0, 3000, 100 * inputs.gate3 + bridged)
    IN  Clamp(1, 10, RoundHalfEven(40 * Clamp(0, 3000, gate3 + 3 * adjustment)
                                     + RawScore([inputs EXCEPT !.gate3 = 0], 0) * 100, 30000))

Conviction(thesis, adjustment, regime) == Level(thesis, adjustment, adjustment, regime)

=============================================================================
