----------------------------- MODULE NewsEvents -----------------------------
(***************************************************************************)
(* News items and what is made of them: the typed catalogue and the floor  *)
(* of src/data_feeds/macro_event_state.py, the fingerprints and the store  *)
(* of seen events of event_state.py, and what the RSS feed lets through.   *)
(*                                                                         *)
(* The text of an item is the set of rules one of whose keywords it        *)
(* contains; a keyword inside another ("oil" in "oil price drop") makes    *)
(* the text match both rules. Stress is in ten-thousandths, time in hours. *)
(***************************************************************************)
EXTENDS Integers, Sequences, FiniteSets, FiniteSetsExt, SequencesExt

CONSTANT MaxKeys        \* MAX_KEYS: fingerprints the store keeps

ASSUME NewsAssumption == MaxKeys \in Nat \ {0}

Rule(category, direction, stress, ttl) ==
    [category |-> category, direction |-> direction, stress |-> stress, ttl |-> ttl]

\* _CLASSIFICATION_RULES, in order.
ClassificationRules == <<
    Rule("OIL_ENERGY", "ESCALATION", 8000, 96),
    Rule("OIL_ENERGY", "ESCALATION", 4500, 72),
    Rule("OIL_ENERGY", "DE_ESCALATION", 1500, 48),
    Rule("DIPLOMACY", "ESCALATION", 7000, 96),
    Rule("DIPLOMACY", "ESCALATION", 5000, 72),
    Rule("DIPLOMACY", "DE_ESCALATION", 1000, 48),
    Rule("DIPLOMACY", "NEUTRAL", 1500, 48),
    Rule("MILITARY", "ESCALATION", 9000, 120),
    Rule("MILITARY", "ESCALATION", 6000, 72),
    Rule("MILITARY", "ESCALATION", 3500, 48),
    Rule("MILITARY", "DE_ESCALATION", 1000, 48),
    Rule("REGULATORY", "ESCALATION", 5000, 72),
    Rule("REGULATORY", "NEUTRAL", 2500, 48),
    Rule("CREDIT", "ESCALATION", 7500, 96),
    Rule("CREDIT", "ESCALATION", 4500, 72),
    Rule("TRADE_TARIFF", "ESCALATION", 5500, 72),
    Rule("TRADE_TARIFF", "NEUTRAL", 1500, 48),
    Rule("CENTRAL_BANK", "ESCALATION", 5000, 48),
    Rule("CENTRAL_BANK", "NEUTRAL", 1000, 24),
    Rule("ELECTION", "ESCALATION", 5500, 96),
    Rule("ELECTION", "NEUTRAL", 1000, 48),
    Rule("PANDEMIC_HEALTH", "ESCALATION", 7000, 120),
    Rule("PANDEMIC_HEALTH", "ESCALATION", 3000, 72) >>

EventTypeFallback ==
    [LEGAL_RULING |-> Rule("REGULATORY", "NEUTRAL", 3500, 48),
     REGULATORY_FILING |-> Rule("REGULATORY", "NEUTRAL", 2000, 48),
     CREDIT_EVENT |-> Rule("CREDIT", "ESCALATION", 4500, 48),
     EARNINGS_WARNING |-> Rule("UNKNOWN", "ESCALATION", 2000, 48),
     MA_ANNOUNCEMENT |-> Rule("UNKNOWN", "NEUTRAL", 1500, 48),
     LEADERSHIP_CHANGE |-> Rule("UNKNOWN", "NEUTRAL", 1000, 48)]

\* The first rule that matches wins, then the event type, then UNKNOWN.
ClassifyEvent(item) ==
    IF item.says # {} THEN ClassificationRules[Min(item.says)]
    ELSE IF item.type \in DOMAIN EventTypeFallback THEN EventTypeFallback[item.type]
    ELSE Rule("UNKNOWN", "NEUTRAL", 500, 24)

----------------------------------------------------------------------------
(***************************************************************************)
(* How an item is dated: with a zone; with a date or time of no zone       *)
(* ("naive"); as RSS does, which nothing here parses ("opaque"); or not at *)
(* all, and then the feed stamps it with the moment it was fetched.        *)
(***************************************************************************)
Forms == {"zoned", "naive", "opaque", "undated"}

IsItem(item) ==
    item.says \subseteq DOMAIN ClassificationRules /\ item.form \in Forms /\ item.at \in Int

\* A difference between an aware and a naive time raises TypeError, which the
\* handler around the parser does not catch.
Datable(items) == \A i \in DOMAIN items : items[i].form # "naive"

IsActive(item, now) ==
    CASE item.form \in {"opaque", "undated"} -> TRUE
      [] item.form = "zoned" -> now - item.at <= ClassifyEvent(item).ttl

Fields == {"macro", "oil", "diplomacy", "military"}

FieldOf(category) ==
    CASE category = "OIL_ENERGY" -> "oil"
      [] category = "DIPLOMACY" -> "diplomacy"
      [] category = "MILITARY" -> "military"
      [] OTHER -> "macro"

\* One event: de-escalation dampens its field, anything else raises it.
Contribute(scores, item) ==
    LET e == ClassifyEvent(item)
        f == FieldOf(e.category)
        dampened == scores[f] - e.stress \div 2
    IN  [scores EXCEPT ![f] =
            IF e.direction = "DE_ESCALATION" THEN (IF dampened > 0 THEN dampened ELSE 0)
            ELSE IF e.stress > @ THEN e.stress ELSE @]

\* derive_macro_event_state: the active events in the order of the feeds.
MacroEventState(items, now) ==
    FoldLeft(LAMBDA scores, item : IF IsActive(item, now) THEN Contribute(scores, item)
                                                          ELSE scores,
             [f \in Fields |-> 0], items)

OverrideFloor(s) ==
    (35 * s["macro"] + 25 * s["oil"] + 20 * s["diplomacy"] + 20 * s["military"]) \div 100

----------------------------------------------------------------------------
\* The fingerprint holds the timestamp, so that an undated item has a new one
\* whenever it is fetched.
Fingerprint(item, clock) == <<item.id, IF item.form = "undated" THEN clock ELSE 0>>

\* Mutant: the keys kept are the first instead of the last.
KeepOldest(keys) == IF Len(keys) > MaxKeys THEN SubSeq(keys, 1, MaxKeys) ELSE keys

\* _save_state: the last MaxKeys keys, in the order they were added.
Keep(keys) == IF Len(keys) > MaxKeys
              THEN SubSeq(keys, Len(keys) - MaxKeys + 1, Len(keys)) ELSE keys

Keys(items, clock) == [i \in DOMAIN items |-> Fingerprint(items[i], clock)]

\* dedupe_news_items: the items whose fingerprint neither the store nor an
\* earlier item of the batch has, in order.
Deduped(items, seen, clock) ==
    FoldLeft(LAMBDA fresh, item :
                IF Fingerprint(item, clock) \in ToSet(seen) \cup ToSet(Keys(fresh, clock))
                THEN fresh ELSE Append(fresh, item),
             <<>>, items)

\* The store is written only when something was added to it.
StoreAfter(fresh, seen, clock) ==
    IF fresh = <<>> THEN seen ELSE Keep(seen \o Keys(fresh, clock))

\* _parse_rss drops an item that names no position's dependency, or whose type
\* no word of the text gives.
RssAdmits(item) == item.entities # {} /\ item.type # "UNKNOWN"

\* What the news feeds return of what they hold, in their order.
Fetched(news) ==
    FoldLeft(LAMBDA items, i : IF i.source # "rss" \/ RssAdmits(i) THEN Append(items, i)
                                                                  ELSE items,
             <<>>, news)

=============================================================================
