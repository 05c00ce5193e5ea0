# ARMS: TLA+ models and proofs

This directory holds a verification project for Achelion ARMS, the autonomous
risk-management system in `src/src/`: TLA+ modules for the parts whose behaviour
over time matters, TLC configurations that model-check them on small instances,
and proofs, checked by TLAPS, of their safety properties for every value of the
constants. Paths below are relative to `src/src/` unless they start with `src/`.

Run from this directory:

    tlc -workers 2 -config Sweep.cfg MCSweep.tla      # a run of the table below
    tlapm SweepProofs.tla                             # a proof module

`PROJECT.json` is the index: components, runs, the mutant that breaks each
property, the source lines each definition stands for, findings, hazards and
theorems.

## 1. The system

ARMS decides once a day how much of a portfolio may be invested, what the
target weights are, how the book is hedged, and sends the orders to Interactive
Brokers. It is a sequential program; what makes it hard is what surrounds it: it
is retried after a failure anywhere, its orders are filled while it runs, most of
its memory is JSON files that several scheduled processes read and write without
a lock, and a process lives for one job.

| component | state it keeps | operations | talks to | what is hard | what makes it correct |
|---|---|---|---|---|---|
| scheduler (`scheduling/master_scheduler.py`) | attempt number | run a job with retries, alert the PM, dispatch ECS tasks | every job | a retry after side effects, a lost alert | bounded attempts, no effect more often than that, every job ends |
| daily sweep (`main.py`) | objects of one attempt; state files | read market, generate, book, pre-flight, escalate, submit | all below | snapshot goes stale, checks at different times, failure in the middle | nothing leaves that a check forbids; hedges first; orders fit the gap |
| order book, LAEP (`execution/order_book.py`, `engine/laep.py`) | the queue of an attempt | rewrite a request for the VIX tier, sort by priority | sweep, broker | rewritten orders must still be valid | halted in a crisis, priority order |
| broker adapter (`execution/broker_api.py`) | connection | submit, positions, NAV, prices | IBKR | refuses in the middle of a batch, partial fills, prices read again or not at all | a refused order is not placed, a sent one fits the gap up to rounding |
| generators (`execution/trade_order_generator.py`, `engine/tail_hedge.py`, `perm.py`, `factor_exposure.py`) | FEM alert file | emit order requests | order book | working orders are not looked at; reset before execution | orders reconcile, alerts are not lost |
| circuit breaker, escalation | per attempt; a loss file | one verdict each | sweep | asked once, acted on later | a stop stops everything it says it stops |
| master engine (`engine/mics.py`, `master_engine.py`, `kevlar.py`) | none | conviction levels, target weights | sweep | rounding, caps | monotone, within the ceiling |
| PAIE pre-flight (`engine/paie.py`, `data/rulebook.json`) | a copy of the queue | project, trim, align, judge | sweep | several rules change the same weights; sales are not projected | cleared books keep the caps, nothing is enlarged, sweeps still reach their targets |
| ARAS (`engine/aras.py`) | regime, pending step, its count | assess a score | everything that sizes | consecutive confirmations, direction changes, restarts | staged recovery, no unearned step, follows the score |
| drawdown sentinel (`engine/drawdown_sentinel.py`, `pds_state.py`) | high-water-mark file | check, update | sweep, replay | thresholds, hysteresis, truncating writes | ceiling cut at once, mark never lowered |
| ARES re-entry (`engine/ares.py`, `simulation/replay_harness.py`) | tranche count, cooldown date, ceiling | gate check, tranche, abort | replay | three resets in three places | paced, never stuck, completes |
| decay, reviews, retirement (`engine/cdf*.py`, `tdc*.py`, `thesis_retirement.py`) | a record per ticker in two files | count a day, review, audit, check | language model, sweep | retries on one day, dates overwritten before they are read | one day at a time, decays, retires |
| confirmation queue (`execution/confirmation_queue.py`) | a JSON file, a copy per process | add, respond, time out | sweep, EOD cycle, PM | overlap, crash in a save | outcomes are final and durable |
| feeds (`data_feeds/`) | the store of seen news | fetch, normalise, de-duplicate | sweep | some fail quietly, one raises for all; a store that forgets | an outage does not calm, news is new once |
| compass, EDR scores, monitors (`engine/macro_compass.py`, `mc_rss.py`, `regime_probability.py`, `modules/`) | two histories | score a market, log alarms | ARAS, sweep | absent readings change the weights of the others | a worse market never scores lower |
| trackers and gate 3 supplement (`intelligence/`, `engine/sentinel_bridge.py`) | a history file per entity | count, append, grade; score a position | sources, sweep | retries append again, a torn file raises for all, two windows for one number | the gate scores what was found; growth does not count against a position |
| thesis workflow (`engine/sentinel_workflow.py`) | a JSON file of theses | initiate, run gates, save | PM, sweep | a save of two steps, a copy per process | no thesis is lost (it is not so) |
| strategic queue (`execution/queue_*.py`, `strategic_queue.py`) | snapshot and transition log | reason, derive, diff, persist | sweep, theses | three writes, any of which may be the last | only a clean item is triggered, the log tells what the snapshot holds |
| backtest (`simulation/replay_harness.py`, `options_proxy.py`) | the whole book of a day | mark, judge, trade, hedge, harvest | ARAS, sentinel, ARES | seven traders of one cash account, event flags used up without a trade | money is conserved, ceilings hold |
| PM co-sign, SLOF and AUP advice, reporting, database adapter, Terraform | see `PROJECT.json` | | | | not modelled, section 7 |

How they interact: the scheduler starts a process per job (`dispatch_ecs_job`,
`infra/main.tf`) or runs them in one process (`start_local_scheduler`). The sweep
calls the rest as functions. It shares state with its own retries through the
broker and the state files, and with other processes through the files only.

## 2. The modules

| module | models | extends / instantiates |
|---|---|---|
| `RegimeGovernor` | abstract: what consumers of the regime may rely on | |
| `Assessor` | `ARASAssessor.assess`, one action per branch, on any observation | INSTANCE `RegimeGovernor` |
| `Aras` | the assessor alone: whatever it may be shown, and new processes | EXTENDS `Assessor` |
| `OrderRouting` | pure rules: generated requests, LAEP, order book, refusals, values in whole shares | |
| `RetriedJob` | abstract: what `_run_with_retry` promises of any job | |
| `MorningSweep` | the sweep's order path with retries, prices and fills | EXTENDS `OrderRouting`, INSTANCE `RetriedJob` |
| `ActionLifecycle` | abstract: queued once, one outcome, final | |
| `ConfirmationQueue` | the queue, its file, several processes | INSTANCE `ActionLifecycle` |
| `DrawdownSentinel` | pure: `run_pds_check` | |
| `LiveDrawdown` | the sentinel and its mark in the live sweep | EXTENDS `DrawdownSentinel` |
| `AresGates` | sentinel, abort, gates, tranche and ceiling of one day of the replay, for a given NAV | EXTENDS `DrawdownSentinel` |
| `ReEntry` | the days of the replay, for any NAVs | EXTENDS `AresGates` |
| `ThesisRetirement` | decay, review and retirement of one position | |
| `TargetWeights` | pure: gate inputs, conviction level, target weights | |
| `Deployment` | rebalance orders, PAIE pre-flight, verdict, fills in whole shares | INSTANCE `OrderRouting` |
| `ReplayBook` | the replay's daily loop on one cash account, with the put ladder and the harvest | EXTENDS `AresGates` |
| `MacroCompass`, `EdrScores` | pure: the regime score, the two scores of the advisory modules | |
| `NewsEvents` | pure: RSS admission, the store of seen news, active events and their floor | |
| `LiveFeeds` | pure: the signals an attempt has, given the services that answer | |
| `MarketMonitors` | pure: put/call regime, calendar, sentiment, forecast, overnight levels, safety tiers | |
| `RegimeSweep` | the attempts of a morning from feeds to dependency scan | EXTENDS `Assessor` and the five above |
| `SignalScores` | pure: velocities, gradings, the gate 3 supplement and the conviction level | EXTENDS `TargetWeights` |
| `SignalHistories` | the four trackers, their files, retries and crashes, and the score | EXTENDS `SignalScores` |
| `QueuePosture` | pure: thesis gates, reasoning signals, the state of an item | |
| `CandidateQueue` | the PM's sessions and the sweeps that persist the queue | EXTENDS `QueuePosture` |
| `FoldFacts` | lemmas: what `MapThenSumSet` and `FoldLeft` of the community modules come to | EXTENDS `FiniteSetsExt`, `TLAPS` |
| `SweepProofs`, `QueueProofs` | theorems about `MorningSweep`, `ConfirmationQueue` | EXTENDS the component |
| `RegimeProofs` | theorems about the assessor, alone and in the mornings, and about markets, scores and news | EXTENDS `Aras`, `RegimeSweep`, `FoldFacts` |
| `SignalProofs` | theorems about the trackers' files and the gate 3 supplement | EXTENDS `SignalHistories`, `FoldFacts` |
| `ReplayProofs` | theorems about the gates, and about the books that keep them | EXTENDS `ReEntry`, `ReplayBook`, `FoldFacts` |
| `RecordProofs` | theorems about three records kept in files: mark, decay, strategic queue | EXTENDS `LiveDrawdown`, `ThesisRetirement`, `CandidateQueue` |
| `DeploymentProofs` | theorems about targets, orders and the pre-flight | EXTENDS `Deployment`, `TargetWeights`, `FoldFacts` |
| `MCAras`, `MCSweep`, `MCQueue`, `MCReplay`, `MCRegime`, `MCSignals`, `MCCandidates` | values of constants, symmetry | EXTENDS the component |
| `MCDeployment` | five positions of the rulebook, targets made by `TargetWeights` | EXTENDS `Deployment`, INSTANCE `TargetWeights` |

### State and actions against the code

**Assessor, Aras.** `regime` is `_regime_idx`, `pending` the three `_pending_*` fields.
`AssessCrash`, `AssessConfirmed`, `AssessCount` and `AssessStep` are the exits of
`assess`. Scores are integers in hundredths: the comparisons with band boundaries
are exact there. `recent` and `sinceCrash` are history variables. `NewTask` is a
new process.

**MorningSweep.** One attempt is `StartAttempt`, `ReadMarket`, `BookOrders`,
`Preflight`, `CheckEscalation`, then one `SubmitNext` per entry of the batch. An
attempt ends in `Raises` (any statement), in `SubmissionRaises` (the adapter
refuses an order) or in `UndefinedName`: `main.py:678` passes
`macro_stress_score`, which nothing binds, so no attempt returns. The book and
the verdicts are reset by `StartAttempt` because `main.py:116-123` makes new
objects; `sent`, `pos`, `working` and `femDue` outlive an attempt. Positions are whole
shares, targets are values. `quote` is the prices of the snapshot: what is held is worth
`MarketValue`, which is nothing where `get_positions` has no price (the fallback of
`portfolio()`). A rebalance order is made for a value (`notional`). `PlaceOrder` reads a
price again, any of `Quotes` whichever of the three sources it comes from, is refused where
there is none, and sends `Shares` of it: rounded, a half to the even number, and one at
least. `paid` keeps the price for the properties. A request keeps the fields the rules
look at. FEM trims, whose quantity is a weight taken for a share count below one, move no
whole share. `crash` is that the regime is CRASH; `ExecutionHalted` does not look at it,
since no caller sets the flag of LAEP's exception. The
requests are booked in one action: nothing reads the book before it is complete
and an exception in between leaves nothing behind but the FEM alert, which is
reset last. Fills are actions of the broker between any two statements.

**ConfirmationQueue.** `file` is what loading the file gives, `mem` the `_queue` of
each process. `ChangeAndSave` is the change of the dictionary and `open(.., 'w')`,
`FinishSave` the dump and close. Three specifications differ in the environment:
`SerialSpec` (one process at a time, each ended by itself), `CrashSpec` (it may
die), `SharedSpec` (processes overlap). Ids are not used twice: they hold the
minute of the sweep, and retries are a minute or more apart.

**DrawdownSentinel, LiveDrawdown, AresGates, ReEntry.** NAVs are positive integers,
thresholds are compared by cross-multiplication (the code divides floats; a
drawdown that rounds to a threshold is not told apart), ceilings are in
thousandths. `LiveDrawdown` has one action per access of the file. `AresDay` is what one
day of the replay's loop does with a NAV: sentinel, abort, gates, tranche, ceiling.
`ReEntry.Day` takes it with any NAV, `ReplayBook.OpenDay` with the one of its books.

**ThesisRetirement.** One position; an attempt of the sweep is `Decay` followed by a
review or none. `Decay` saves the record, takes the larger of its count and the one a PM
supplies (`BridgeCounts`), and raises where that is a milestone (`DecayRaises`: the message
formats a float with `:.2x`), which ends the attempt. Thresholds are constants, 45, 90 and
135 days and 30 for a broken thesis in the code, scaled to 2, 4, 6 and 3 for TLC; the
theorems hold for all. The count is cut off one past the last milestone.

**TargetWeights, Deployment.** Weights are basis points of NAV. The loops of
`resolve_cap_breaches` are `NextBreach` (a tag of the breach list, in the order of a
dictionary, hence any) and `TrimOne` (a ticker of it), that of
`check_sizing_coherence` is `AlignOne`. `TrimRank` and `TagRank` are the places in the
rulebook's lists. `queue` is the dictionary the pre-flight works on and `orders` the
order book; the two meet only in `Verdict`, where BLOCKED takes the purchases out. A
trim is rounded down to a basis point. A concentration that was trimmed to its cap
exactly is a sum of floats which may come out above it: `MayRoundOver` lets the verdict
be either. A sweep reads the VIX (`StartSweep`); a crisis leaves its order book empty, and
only where `Sends` holds, by the rules of `OrderRouting`, does the broker module take market
orders. `Fill` changes a position by whole shares (`Filled`). `AttemptFails` is an order
that raises, in a calm tier the first of all: the rest of the batch is lost. Prices do not
move here, an order is filled in one step, and no share is worth more than two deadbands
(`ShareAssumption`), as otherwise no number of them need come near a target. `MorningSweep`
has the same sweep with retries, prices and hedges, and takes the verdict and the targets
as inputs.

**ReplayBook.** One trading day is a sequence of actions in the order of the loop: mark
and judge, overlay, hedge, rebalance ticker by ticker, position caps, crypto, harvest,
call income, close. Money is in basis points of the initial capital and rounded down;
a position is its value and its cost, so that a price is what moves the value. Regime,
VIX tier, EDR alarm and who leads or lags the benchmark are inputs of a day (a
session). `made` and `paid` are history variables, which the conservation of money is
stated with.

**RegimeSweep.** One attempt is `ReadFeeds`, `ReadNews`, `AssessRegime` (or
`NoPriceOfSpy`), `RunMonitors`, `ScanNews`; it always ends `raised`, which is where
`MorningSweep` takes over. The assessor's actions are those of `Assessor`, on the score the
attempt computes. A feed returns a set of records, as `pipeline.py` collects them; the
signals of an attempt are the function from the types to the raw values of all of them. What lives as long as the process is kept over the attempts:
`_aras_assessor` (`main.py:73`) and the forecast's history; what is a file is kept too:
the store of seen news. Scores are integers in ten-thousandths; a world is a record of
what every service would answer, an attempt sees the part that is `up`.

**SignalHistories.** One action per tracker, over the entities in the order of the code
up to the one at which it stops; `Faults` says how an attempt may go wrong: a source
that is down reads as zero, filings too short to be analysed leave out every entity of
ELVT, an answer of the model that does not parse leaves out one, an analysis that raises or a process that dies ends the tracker. `found` is
a history variable: what the trackers logged.

**QueuePosture, CandidateQueue.** The PM's session loads the records once and saves all
of them in two steps; the sweep's process read them when it imported the workflow, so a
retry in the same process sees them as they were (`theses`). `DeriveQueue` is
`load_queue` to `build_queue_governance_state`, then `persist_queue_state` takes four
steps: the diff, the truncated snapshot, the filled snapshot, and the log, line by line
(`LogTransition`). Any may be the last (`SweepStops`). What the queue file lists on a day,
nothing where it cannot be read, is an input (`Listings`). `lost` is a history variable:
the items whose line is owed by a sweep that died.

## 3. The runs

| run | states | shows |
|---|---|---|
| `Aras` | 18 720 | recovery is staged (`RecoveryIsStaged`), a relaxation is earned (`RelaxIsEarned`), `RegimeGovernor` is implemented (`Governed`), steady scores are followed (`Converges`) |
| `Sweep` | 2.1 million | the kill switch, blocked buys, hedges before rebalance, orders that lead to the target where nothing was working, up to rounding and prices (`ReconcilesWhenQuiet`), no rebalance past a refused overwrite, `RetriedJob` implemented, and a started sweep ends (`SweepEnds`) |
| `QueueSerial` | 761 | outcomes stand, `ActionLifecycle` implemented |
| `ReEntry` | 16 101 | cuts are immediate, exits hysteretic, recovery takes five days, re-entry completes |
| `LiveDrawdown` | 370 | the mark is the peak, ceilings cover the drawdown from it |
| `Thesis` | 28 233 | a day counts once, a position that stays behind gets past the milestones to the floor |
| `Deployment` | 435 978 | the pre-flight only reduces, cleared books stay within the caps during all fills up to half a share of each position, a thesis over its cap does not grow, fitting targets are reached if sweeps complete again and again |
| `Replay` | 147 161 | money is conserved at every statement, the account is never overdrawn, a rebalanced book is within its ceiling, crypto is shed in stress, the hedge never expires |
| `Regime` | 483 656 | a morning relaxes one band at most (`OneBandAMorning`) and tightens when stressed, whatever fails (`StressedMorningTightens`); an outage costs one band (`OutageCostsOneBand`); a worse reading never calms (`WorseIsNeverCalmer`); dated news is new once (`NewsIsNewOnce`) |
| `Signals` | 297 036 | the gate makes of the files what the trackers found (`GateSeesWhatWasFound`), readings that only grew never cost a point (`GrowthIsNeverPenalised`) |
| `Candidates` | 4.4 million | a triggered item is clean (`TriggeredIsClean`), log and snapshot tell the same but for owed lines (`LogExplainsSnapshot`, `NothingIsLoggedAhead`) |
| `SweepReconciles` | violated | a retry repeats orders still working |

Two of them say less than their names may suggest. No optional feed is a constituent of the
blend today, so what `OutageCostsOneBand` exercises is the skew and the contribution of the
deleveraging module, not the renormalisation of the weights. And `GateSeesWhatWasFound` is
about windows, truncation and torn files; that a retry appends a reading twice is what
`VelocityIsBetweenQuarters` of section 5 shows.

`SweepReconciles` checks one statement of a docstring that the code does not keep; it is
quoted under `findings` in `PROJECT.json`. Section 5 has the others.

### Bounds

* `Aras`: a score in each of the five bands, one of them on a boundary (0.50), and
  EDR contributions 0, 4 and 6, so that a contribution crosses a boundary. The
  assessor sees scores through their band only. `sinceCrash` is capped at 12, the
  longest way back.
* `Sweep`: two positions, one to be reduced and one to be bought, and a second
  target that reverses the need of one; VIX levels in the tiers that turn market
  orders into limits, into VWAP, and halt, the last in a CRASH and out of it; an
  overwrite or none. Every price is 3 or missing, at the snapshot and at the order, for
  targets that are no multiples of 3; a price that moves from one value to another is
  left to the theorem `QuietReconciles`. Two positions are what ordering and
  interference need; a third repeats them. Two attempts: one that fails with its orders
  working, and one after it that the job gives up with. The hedge is always rolled.
  `SweepReconciles` takes three attempts, the code's number, one price, and a hedge that
  may also be left alone; the theorems are for any number of attempts.
* `QueueSerial`: two actions, two processes, any order of operations. Symmetry is
  used where no temporal property is checked (`QueueCrash.cfg`) only.
* `ReEntry`: NAVs on both sides of each threshold from two peaks; gaps of one and
  three days (a weekend); tranche sizes at both limits of VARES. `away` is capped
  at 5, `rest` at 2, the values the properties compare with.
* `LiveDrawdown`: NAVs on both sides of each threshold from two peaks.
* `Deployment`: five tickers of the rulebook that share two tags with a trim order and
  one without, books light and heavy in each, and four sets of targets: over the caps of
  both shared tags, over one, and within all, at two ceilings; VIX levels of a calm tier, one
  that sends market orders, and the crisis; shares of 0.1% to 0.5% of NAV that no target is a
  multiple of. `MCDeployment` also
  has TLC evaluate that a better gate 3 score never lowers the conviction level, over
  all gate inputs, and that the targets stay within ceiling and position cap.
* `Thesis`: all weekdays, three attempts a day, counts cut off past the last milestone; no
  count supplied by the PM, or one at the second milestone.
* `Replay`: four trading days, equities of the highest and of lower convictions, sessions
  with a rally, a slide, a crash, a crisis tier and an EDR alarm; put expiry, crypto and
  call periods scaled to 8, 2 and 2 days so that a roll, an expiry and a second
  rebalance happen.
* `Regime`: two mornings of three attempts (the code's number) that start from any
  regime with any pending streak an earlier morning may have left; markets calm, a hair
  below a boundary, in a funding crisis and in a crash of the size of 2020; no service,
  all optional ones, a critical one or the broker down, per attempt. Three keys in the
  store of seen news (5000 in the code), so that it overflows; windows of 2 and 3 for
  the histories.
* `Signals`: three Mondays of two attempts, two of them in a month of earnings, so that
  all four trackers run twice and a history is longer than its window; windows of 3
  and 2 and three weeks at least (12, 6 and 4 in the code; the assumption is only that
  histories keep more than a window, and that the gate asks for two weeks at least), two entities per tracker, readings on both sides of the thresholds, up to
  two attempts that go wrong, one of them for filings too short to analyse.
* `Candidates`: an item for neutral and one for risk-on markets, five mornings on both
  sides of their thresholds, with and without reviews and alerts against them; a queue
  file that lists both, one of them or none; three sweeps, three saves, two crashes: one
  more sweep than it takes to persist, lose and compare.

Deadlock is checked except where a bound ends the behaviour: the job of a sweep is over
at some point, and so are the mornings, Mondays and sweeps of `Regime`, `Signals` and
`Candidates`.

### Fairness

* `Aras`: observations keep coming (the job is scheduled every five minutes). That the
  scores settle is a premise of `Converges`, not fairness.
* `MorningSweep`: the process takes its next statement, or raises. Nothing is assumed
  of the broker's fills, nor that a statement succeeds.
* `ReEntry`: the replay goes through its days. That the gates clear is a premise of
  `Reenters`.
* `Deployment`: the sweep is scheduled every weekday and goes on; a batch may break off at
  any order. That scores settle, and that again and again a sweep completes with the VIX
  where market orders are sent, are premises of `Rebalances`: in the calm tiers none does
  (`LimitsArePriced`), and a book that drifted there stays where it is.
* `ReplayBook`, `RegimeSweep`, `SignalHistories` and `CandidateQueue` are checked for safety
  only and assume no fairness.
* `ThesisRetirement`: days pass, a sweep that got past its decay step goes on or
  fails, and decay steps happen again and again (strong fairness: there is none at
  weekends). A sweep may fail on any given day, and does on that of a milestone.

## 4. The proofs

All are safety: each part states an inductive invariant that the properties follow from
(`IInv`, `QInv`, `Inv`, `GatesInv`, `BookInv`, `ArasInv`, `MorningInv`, `NewsInv`,
`MarkInv`, `ThesisInv`, `LogInv`, `CleanInv`, `HistoriesInv`), shows that the initial
states satisfy it and that every action keeps it, and derives the properties. No theorem rests on more than the
named assumptions of the component's constants (`ScoresAssumption`, `RegimeAssumption`,
`NewsAssumption`, `SweepAssumption`, `DeadbandAssumption`, `AresAssumption`,
`NavsAssumption`, `ReplayAssumption`, `ThresholdsAssumption`, `RulebookAssumption`,
`PlansAssumption`, `QueueAssumption`, `HistoriesAssumption`, `WindowAssumption`), which TLC
evaluates in the runs, but for these, whose hypotheses are part of their statement:

* `MorningsAreBounded` is for mornings of no more attempts than an upgrade takes
  observations (`Attempts <= UpgradeConfirmations`). Both are 3 in the code
  (`master_scheduler.py`, `aras.py:40`); a fourth attempt could give back a second band.
* `OnlyHedgesOverdraw`, `RebalancesFit` and half of `StressShedsCrypto` are for behaviours
  in which the account has what a purchase of puts takes (`HedgesAreCovered`; the run
  `Replay` checks `NeverOverdrawn`, which implies it). What puts take depends on premiums,
  which `ReplayAssumption` leaves open; of prices it asks nothing but their sign.
* `CeilingHolds` is for plans whose weights are those of `Targets`, the function of
  `compute_target_weights` that `TargetsFitCeiling` is about; in `Deployment` alone plans
  are any weights. The plans of `MCDeployment` are made that way.

**FoldFacts.** The models sum with `MapThenSumSet` and run through lists with `FoldLeft`.
Both are defined by recursive functions chosen with CHOOSE; that those exist is shown by
induction over the finite subsets of a set, or over the indices of a sequence, which
the well-foundedness theorems of the library give without a predicate parameter
(`SubsetInduction`: a set of subsets that has every subset whose parts it has, has them
all). From there: a sum picks out an element (`SumPicks`), is changed by what one element
changes (`SumChanges`), keeps order, bounds and scale; a fold stays in a set its steps stay
in (`FoldsStay`).

**RegimeProofs.**
* `RecoveryIsStaged` is not inductive: an observation that counts toward a step uses up
  time without moving the regime. `PendingIsEarned` says that a pending count of n stands
  for the last n observations, all under the regime in force and on one side of it;
  `RecoveryIsPaid` charges three observations for each band plus those pending.
  `EarnedRelaxation`, `EarnedTightening` and `ImplementsGovernor` (a step simulation with
  `age` read off `recent`) follow.
* In the mornings a count may stem from days the history does not hold, so only its shape
  is known (`PendingIsShaped`). `OneBandAMorning` needs `BandIsCounted`: once a band has
  been given back since dawn, what is counted toward the next was asked for after it, and
  three attempts are too few for both. `StressedMorningTightens` needs `StressIsCounted`:
  after the first of two assessments that ask for more, the step is at least pending.
* `WorseIsNeverCalmer` and `OutageCostsOneBand` are monotonicity, from the bottom up. The
  raw value of a signal does not depend on which feeds answer, but for the futures basis,
  which moves no score (`SignalsAreReadings`). The stress of a constituent follows
  its reading (`StressOrdered`), the blend its constituents as long as the set of readings
  is the same (`BlendsOrdered`: this is where an absent reading would change the weights of
  the others, and why the readings of the compass are those of feeds that raise), the
  composite the blends and the skew. What the optional feeds add is the skew, five points
  at most, and the contribution of the deleveraging module, two at most; the two that could
  add more are dead (`CompositeHasNoMargin`, `MicroIsQuiet`: no feed delivers what they
  ask for). Seven points are less than the narrowest band, so an outage costs one
  (`BandsOrdered`).
* `NewsIsNewOnce` rests on `Remembered`: the last print of an item lies as far from the end
  of the store as `behind` counts, while that is less than the store holds. A fetch appends
  the prints of what it lets through, in order and each once (`DedupedItems`), then cuts
  from the front (`KeepsTheLast`).

**SignalProofs.**
* `GateSeesWhatWasFound` rests on `FoundIsFiled`: what a tracker has logged in an attempt
  it found in the entry that is now the last of the file, against the file as it was, of
  which the new file is the end. `SavedContinues` does the windows: as long as a file keeps
  more entries than a window takes, the window before the last entry is the one the
  tracker took, whatever was dropped from the front.
* `GrowthIsNeverPenalised`: a count that none of those before exceeds is at least their
  average, also where the average is zero (`VelocityFollows`); the grade takes the side of
  the change (`GradedFollows`), and averages, weights, the clamp and the rounding keep it
  (`ContributionFollows`, `RoundingFollows`). That the gate asks for two entries is needed
  (`WindowAssumption`): the first count of all would be a growth from nothing.

**SweepProofs.** The invariant follows one attempt's book: what an entry of each
generator looks like, that ids are unique, what a check has removed (`CheckShape`), that
an entry leaves the batch exactly when its id is recorded or suppression drops it
(`SentShape`), and that held plus on order equals the snapshot until the rebalance order
of a quiet ticker goes out, and the snapshot with the shares of that order from then on
(`QuietShape`); a fill changes neither sum. What the shares come to is arithmetic
(`SharesAreNear`, `Reconciling`): at the price of the order they are within half a share of
its value, unless they are the one share that is the least; the value itself was taken at
the price of the snapshot. Prices are any numbers. Of the targets only positivity is
assumed, which the weight formula gives for held positions.

**QueueProofs.** The invariant says where the truth is at each moment: in the file while no
process runs, in file and memory (`MemoryIsFile`) between operations, in the memory alone
during a save (`Known`). `Seen`, the refinement mapping, follows it. The theorems are
about `SerialSpec` for any sets of actions and processes.

**ReplayProofs.**
* `GatesInv` is about the day of the gates for any NAV; both `ReEntry` and the books
  of `ReplayBook` keep it. `RecoveryTakesTime` needs `Pace`: below the full ceiling, `level`
  tranches have cost at least `2 * level - 1` days away from deleverage, besides the days of
  rest since the last of them. `TrancheLeft` is about counts reset in three places.
* `MoneyIsConserved`: each statement moves as much out of cash as into a holding, or into
  `paid`; a sum over the holdings changes by what the one that is traded changes.
  `HedgeNeverExpires` needs `HedgeHeld`: when the hedge of the day is done, a put has more
  days left than the roll margin, and no gap between trading days is as long as the margin
  (`ReplayAssumption`).
* `WithinCeilingAfterRebalance` needs `TradesFit`: of an event day, the targets fit the
  ceiling, and a ticker that is not to be traded any more is at its target or a small
  trade above it. Values are not negative while the account is not overdrawn
  (`Solvent`).
* `NeverOverdrawn`: every purchase leaves 4% of the NAV in cash, and its slippage is half a
  percent at most (`AffordableLeaves`); a sale brings more than its slippage
  (`SettledFits`), and so do a harvest and calls. The one statement that asks for no cash
  is the purchase of puts, so `OnlyHedgesOverdraw` says that no other can overdraw.

**RecordProofs.**
* `Read`: what a sweep has in memory is the peak, or its own NAV where nothing was ever
  recorded, also while the file is truncated. So the status of a check is that of the
  drawdown from the peak.
* `Uncounted`: until a sweep has counted the day, the count is at most that of midnight.
* `LogExplainsSnapshot` speaks of the moments between sweeps, and excuses the lines that a
  sweep owes which died between the two writes: nothing in the code makes good for them
  before the item changes again. `LogInv` says what holds
  within one: log and snapshot agree until the snapshot is truncated (`Agreed`), from then
  on an item that is not to be logged has in the log what is written (`Covered`), and
  what is logged is in the snapshot (`Filled`).
* `TriggeredIsClean` rests on `CleanInv`, which carries "passed every gate but the
  regime's" through the three places a thesis is kept in (file, PM's memory, sweep's
  memory), and on a case analysis of the reasoning (`TriggeredEntry`): what an item needs
  to be left to its score.

**DeploymentProofs.**
* `Accounted` ties each order to its position: a purchase is unfilled and is what was
  asked, an order ends at the target, a position without one is at most a deadband above
  it. `PositionsKept`, `OnlyReduces` and `BlockedNeverBuys` follow position by position.
* The caps are about sums. What is projected bounds the book and its open orders
  (`BooksStayProjected`), and a sum follows its terms: `ClearedIsWithin`. With a thesis over
  its cap at the verdict, all purchases are out and what is left sells: `OverCapIsFrozen`.
  A fill in whole shares misses its order by half a share at most (`FilledNear`), which is
  the slack in the bounds and never more than the deadband (`HalfIsSmall`).
* `TargetsFitCeiling`: each target is its share of the ceiling rounded down, at most; the
  shares add up to it. `CeilingHolds` adds the deadbands. `TargetsFollowConviction`: a level
  that rises enlarges its numerator more than the common denominator.
  `ConvictionFollowsGate3` goes through the rounding of both averages.

Types (`TypeOK`), `TightenIsEarned`, `TrancheLeft`, `CeilingKept` and what the theorems say
of `Targets` and of conviction are proved and have no run of their own; a run spends its
time on what is harder to get right.

Model-checked only:
* `Converges`, `SweepEnds`, `Reenters`, `Decays`, `Rebalances`: liveness under fairness.
* That the hedges are covered (by `NeverOverdrawn` in `Replay`), for the markets of
  `MCReplay`: the code buys puts without a look at the cash.
* The monitors of `RegimeSweep` (`MarketMonitors`), which no property of a run reads.


## 5. Further divergences

These statements of comments and docstrings are properties of the modules too, and
TLC refutes each: put the one line for the property in place of the property lines of the
configuration named, with the specification given.

| property | configuration, specification | what the text says | what the code does |
|---|---|---|---|
| `MorningSweep.SuppressionIsTotal` | `SweepReconciles.cfg`, `Spec`, INVARIANT | `execution/escalation_engine.py:6-7` "suppresses all Tier 0 autonomous execution for the remainder of the session" | `main.py:655` drops BUY orders only; sells, puts and calls are tier 0 and go out |
| `MorningSweep.BreakerStaysTripped` | `SweepReconciles.cfg`, `Spec`, PROPERTY | `execution/circuit_breaker.py:40` "Remains tripped until manual reset" | each attempt makes a new breaker (`main.py:121`) |
| `MorningSweep.OptionsAreResolved` | `SweepReconciles.cfg`, `Spec`, INVARIANT | `execution/broker_api.py:275` "must resolve contract metadata before submission" | PERM orders have none; the refusal ends the batch |
| `MorningSweep.TrimsOutliveReset` | `SweepReconciles.cfg`, `Spec`, PROPERTY | `engine/factor_exposure.py:269` "Reset alert state after trim execution" | reset when generated, also when nothing is executed |
| `MorningSweep.AlertIsSent` | `SweepReconciles.cfg`, `Spec`, INVARIANT | `scheduling/master_scheduler.py:271` "PM alert sent." | logged before the alert is published, which may fail |
| `MorningSweep.SweepCompletes` | `Sweep.cfg`, `HealthySpec`, PROPERTY | `main.py:992` "Daily sweep complete." | `main.py:678` raises a NameError in every sweep |
| `MorningSweep.LimitsArePriced` | `SweepReconciles.cfg`, `Spec`, INVARIANT | `execution/broker_api.py:250-251` "LIMIT orders require limit_price."; `engine/laep.py:22` "Standard (VIX<22): Limit at mid" | below VIX 22 LAEP turns market orders into limit orders (`engine/laep.py:129-139`) that nothing prices; the broker module refuses them, and no rebalance is sent |
| `MorningSweep.CrashProtocolExecutes` | `SweepReconciles.cfg`, `Spec`, INVARIANT | `engine/laep.py:13` "Execution halted except CRASH protocol"; `execution/order_book.py:81` "CRISIS + non-CRASH" | the exception is a parameter of `process_request` that is False by default and that no caller passes: above VIX 40 the de-risking of a CRASH is halted with everything else |
| `ThesisRetirement.MilestonesApply` | `ThesisRetires.cfg`, `Spec`, PROPERTY | `engine/cdf.py:113` "Milestone: multiplier set to"; `engine/cdf.py:123` "Test Day 45 Decay" | lines 113 and 116 format a float with `:.2x`: a ValueError that nothing catches (`main.py:401`), so that on the day a position is at 45, 90 or 135 every attempt of the sweep ends there, for all positions |
| `Deployment.AdjustedStaysWithin` | `Deployment.cfg`, `Spec`, INVARIANT | `engine/paie.py:8-9` "executes or adjusts the queue without PM input" | the adjusted weights stay in a local dictionary (`main.py:600-623`); what was trimmed is bought in full |
| `Aras.NoEdrModuleForces` | `Aras.cfg`, `ArasSpec`, PROPERTY | `engine/aras.py:10-11` neither module can force a regime change independently | a contribution of one module can cross a boundary by itself |
| `ConfirmationQueue.VetoStands` | `QueueCrash.cfg`, `SharedSpec`, INVARIANT | `execution/confirmation_queue.py:106` "PM vetoes execution outright" | a process that loaded the queue earlier writes its copy back |
| `ReEntry.TranchesAreEqual` | `ReEntry.cfg`, `ReEntrySpec`, `VaresSizes = {33}`, INVARIANT | `engine/ares.py:6` "3 equal tranches of 33%" | each tranche is a third of the gap that is left (`replay_harness.py:1018-1025`) |
| `LiveDrawdown.MarkIsDurable` | `LiveDrawdown.cfg`, `MarkCrashSpec`, INVARIANT | `engine/pds_state.py:4-5` "durable state across process boots" | a process that dies in the write leaves an empty file |
| `LiveDrawdown.ExitIsHysteretic` | `LiveDrawdown.cfg`, `MarkSpec`, PROPERTY | `engine/drawdown_sentinel.py:20` "DELEVERAGE_1 exits only when DD recovers above WARNING threshold" | `main.py:299` passes no last status |
| `Aras.RecoveryIsStaged` | `ArasTasks.cfg`, `TaskSpec`, INVARIANT | `engine/aras.py:128-129` a recovery "MUST traverse each intermediate band with its own confirmation hold"; `main.py:72` "persists hysteresis state across cycles" | with a task per job (`infra/main.tf`), a new process starts at RISK_ON |
| `ConfirmationQueue.Durable` | `QueueCrash.cfg`, `CrashSpec`, INVARIANT | `execution/confirmation_queue.py:53` "durable JSON persistence" | a process that dies in a save leaves an empty file |
| `ThesisRetirement.RetiresWhenBroken` | `ThesisRetires.cfg`, `Spec`, PROPERTY | `engine/thesis_retirement.py:88` "Trigger: TIS BROKEN 30d + CDF at 0.60x + no PM reaffirmation 45d" | the days are counted from `reviewed_at`, which the review of the same sweep has just set (`main.py:483-493`) |
| `ReplayBook.CutsAreExecuted` | `ReplayCuts.cfg`, `Spec`, INVARIANT | `simulation/replay_harness.py:1056` "CRISIS regime → kill-chain takes over; skip equity rebalance" | the kill-chain sheds crypto only, the skipped day records its targets as traded (`1249`), and the next one finds no event |
| `ReplayBook.MarkCoversPuts` | `ReplayCuts.cfg`, `Spec`, INVARIANT | `simulation/replay_harness.py:365` "MTM of held puts; included in NAV" | in the NAV that is recorded, not in the one the high-water mark is kept of |
| `ReplayBook.HedgeFollowsRegime` | `ReplayCuts.cfg`, `Spec`, INVARIANT | `simulation/options_proxy.py` "Sizing: Based on regime table notional requirement" | a held put is resized at its roll only, whatever the regime becomes |
| `ReplayBook.FallsAreLosses` | `ReplayCuts.cfg`, `Spec`, PROPERTY | `engine/drawdown_sentinel.py` the sentinel acts on drawdowns of the portfolio | what is spent on hedges leaves the NAV it looks at |
| `RegimeSweep.NothingTriggersTwice` | `Regime.cfg`, `Spec`, INVARIANT | `data_feeds/event_state.py:4-5` polling does not re-trigger the same workflow endlessly | an RSS item without a date gets the time of the fetch (`news_rss_feed.py:69`) and is new at every one |
| `RegimeSweep.ActiveEventsContribute` | `Regime.cfg`, `Spec`, INVARIANT | `data_feeds/macro_event_state.py:56` `ttl_hours` is how long an event stays active | the state is derived from the fresh items (`main.py:182-183`): the next attempt has lost the floor |
| `RegimeSweep.SeenIsScanned` | `Regime.cfg`, `Spec`, INVARIANT | `main.py:178-184` fetches, de-duplicates and scans in one sweep | an attempt that raises in between has stored the item as seen; no other scans it |
| `RegimeSweep.ElevatedIsLogged` | `Regime.cfg`, `Spec`, INVARIANT | `engine/regime_probability.py:139-141` a transition of more than 20% is logged | only one whose likeliest band is another than today's is |
| `SignalHistories.VelocityIsBetweenQuarters` | `Signals.cfg`, `Spec`, INVARIANT | `intelligence/elvt.py` velocity across consecutive transcripts | a retry appends the same quarter again |
| `SignalHistories.AddedOnce` | `Signals.cfg`, `Spec`, INVARIANT | `intelligence/gate3_supplementary.py:7-9` an additive adjustment of -5 to +5 | added to thirty points (`sentinel_bridge.py:72`) and again to the ten they become (`mics.py:105`) |
| `SignalHistories.CrashCostsOneTracker` | `Signals.cfg`, `Spec`, INVARIANT | `engine/sentinel_bridge.py:74` "Phase 2 signals are supplementary — never block MICS" | one file that cannot be parsed takes the signals of all four trackers away |
| `SignalHistories.OutageIsNoEvidence` | `Signals.cfg`, `Spec`, INVARIANT | `intelligence/jpvi.py:301-305` readings of zero are left out of the average | the gate grades an outage as a decline |
| `CandidateQueue.ThesesAreDurable` | `Candidates.cfg`, `CandidateSpec`, INVARIANT | `engine/sentinel_workflow.py:4-5` a durable thesis-entry workflow | a session that dies in a save leaves no thesis |
| `CandidateQueue.TransitionsAreValid` | `Candidates.cfg`, `CandidateSpec`, INVARIANT | `execution/queue_state.py:40-52` the table of valid transitions | `persist_queue_state` does not ask for it |
| `ThesisRetirement.AuditedWeekly` | `ThesisRetires.cfg`, `Spec`, INVARIANT | `engine/tdc.py:266-274` a weekly audit, by default on Sundays | the sweep that calls it runs on weekdays |
| `ThesisRetirement.FailSafeIsConservative` | `ThesisRetires.cfg`, `Spec`, PROPERTY | `engine/tdc.py:190-191` "Conservative fail-safe ... Never silently approve" | a failed review turns BROKEN into WATCH |

Seen while reading and outside the models: the Terraform schedules give UTC hours
with a Chicago time zone (`src/infra/main.tf:194-195`); `check_for_timeouts` has
one caller, after a call of a DataPipeline method that does not exist
(`main.py:1027-1043`), and nothing executes what it times out; the breaker's VIX
test compares the VIX with itself (`main.py:218`); LAEP's halved size in the stress
tier is applied nowhere; the gate 3 supplement is added twice, by the bridge
(`engine/sentinel_bridge.py:86`) and again by `calculate_mics` (`main.py:552`); the 48% cap of
the AI sector (`engine/kevlar.py:18`) is used nowhere. Two scheduled jobs import names no
module has (`run_systematic_scan`, `scheduling/master_scheduler.py:365`, and
`generate_proactive_digest`, `:424`) and fail three times whenever they run. The deleveraging
module has no status "ACTIVE" that `main.py:197` asks for; market data alone cannot score a
CRASH, since signals are asked for by names no feed uses; the incapacitation check is always given a
heartbeat 45 minutes old (`main.py:294`). The hyperscaler pattern of SCCR asks with an empty list of
shippers and is always zero; nothing writes the calibrated weights the gate 3 supplement looks for.
`initiate_thesis`, `run_automated_gates`, `evaluate_queue`, `load_transition_history` and
`save_futures_snapshot` have no caller; `execution/queue_reasoning.py:78` compares a score of 0 to 10
with 0.4.

## 6. Plan

1. `PmCosign` (signatures, expiry) composed with `ConfirmationQueue` and the EOD cycle,
   once that cycle can run.
2. The composition of `Deployment` with `MorningSweep`: pre-flights of retries whose
   projection lacks the orders still working.
3. `FactorAlert`: the FEM alert clock and file.
4. A bound on premiums under which hedges are covered, and a proof of
   `ConfirmationQueue` with a save that replaces the file in one step, as a corrected
   design.

## 7. Not modelled

Reporting, metrics, HTTP, parsing and what a language model answers are I/O: a failure
of theirs is an exception or an input. Scores of the regime and of signals are computed in
integers rounded as stated in the modules; hedge sizes, correlations and prices of
options are inputs. Not modelled:

* the PM co-sign protocol, since no tier-1 order reaches it today;
* SLOF and AUP as live advice, whose output no order path reads (the replay's overlay is
  in `ReplayBook`);
* the correlation monitor, which the live sweep calls without returns, and the stress
  scenarios, a report;
* the systematic scan and the digest, whose jobs cannot import what they call;
* loading of price data, performance statistics and option pricing of the backtest;
* the knowledge base and reports in PDF, HTML and spreadsheets, the audit log;
* the database adapter, which nothing imports;
* the end-of-day cycle, which raises where it calls a DataPipeline method that does not exist, and what follows
  the NameError of `main.py:678` except the queue stage, which `CandidateQueue` models as if it
  were reached.
