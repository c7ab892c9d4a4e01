# Verification of coin-trading

TLA+ models of the coin-trading program (Bybit candles, a rule-based strategy,
a reviewing model and its gate, a risk guardrail, local paper trading, a testnet
execution adapter and a backtester), checked with TLC on small instances and, but
for liveness, proved with TLAPS for every value of the constants.

- `PROJECT.json` lists the components, the runs, the mutants that show each
  property can fail, the map from definitions to source lines, the hazards, the
  findings and the theorems.
- Model-check a run: `tlc -workers 2 -config PaperRunnerStream.cfg MCPaperRunner.tla`
- Check the proofs: `tlapm` on each of the eight `*Proofs.tla` (a few minutes each from
  nothing)

All source paths below are relative to `src/src/coin_trading/`.

## Inventory

| Part | State | Operations | Talks to |
|---|---|---|---|
| `operations/cli.py` | main thread, `stopped` event | restore, fetch, replay, subscribe, wait, report | state store, REST client, runner, stream thread |
| `operations/runner.py` | history, `pending_signal`, `last_processed_ms` | `on_candle` | broker, strategy, risk engine, state store |
| `operations/paper.py` | equity, position, trades, day, day-start equity | `submit`, `on_candle`, `export_state`, `restore_state` | kill switch, audit log |
| `operations/safety.py`, `state.py`, `audit.py` | the files `HALT`, `state.json`, `audit.jsonl` | engage, ensure, reset; load, save; record | the disk |
| `risk.py`, `config.py`, `domain.py` | none (settings) | `evaluate`, `validate` | the runner |
| `execution/bybit.py`, `models.py` | recovery and blocked flags, rules cache | `recover`, `submit`, `verify_position_protection`, `instrument_rules` | the exchange over REST |
| `execution/state.py` | last state per order | `update` | nothing yet |
| `market_data/bybit.py`, `validation.py` | page cursor; ticker state | `fetch_candles`, stream parsing | the exchange |
| `market_data/storage.py`, `cli.py` | files | one exclusive write | the disk |
| `strategy/backtest.py` | cash, position, queued signal, curve | `run` | strategy |
| `strategy/walk_forward.py` | fold, scores | `walk_forward` | backtester |
| `strategy/timeframes.py` | none | `resample_candles` | - |
| `strategy/signals.py`, `indicators.py`, `regime.py` | none | formulas over floats | - |
| `multimodal/*` | none | chart, context, review, consensus | an external model |
| `operations/reporting.py` | none | statistics | - |

What is hard, and what makes each part correct:

- **The paper process** has two threads (the main thread and the stream's), three
  files written one after the other while a candle is handled, and a replay at
  every start. It may die between any two writes, and any write may raise; a
  raising callback writes to the same disk once more. Correct means that a restart
  neither loses nor repeats a trade, that money is neither made nor lost, that a
  daily loss once reached stops trading until a person has released it, that the
  audit log is never behind the state, and that a restart gets back to the stream.
- **The stream** loses, repeats and reorders candles, and carries nothing of what
  closed before the subscription.
- **The execution adapter** calls an exchange whose answers may be lost or late,
  and retries. Correct means one order per key, at its leverage and within its
  intent, and no order once a position is known to be unprotected.
- **Order statuses** arrive late, twice or in the wrong order. Correct means that an
  order that is done stays done.
- **The candle download** pages backwards through rows it does not control, and its
  writing may be cut short. Correct means that it ends, returns a complete,
  contiguous, confirmed range or an error, and destroys nothing it stored before.
- **The backtester** interleaves fees, funding, exits and the end of the data; the
  walk around it slices its candles. Correct means that its cash is what its trades
  account for, and that what is tested was chosen on what came before.
- **The decision** combines two timeframes, one made from the other, and a model's
  answer. Correct means that every failure ends without an approval, that the sides
  are treated alike and that higher candles are whole and do not change later.

## Modules

| Module | Models | Correspondence |
|---|---|---|
| `OrderIntents` | `OrderIntent.validate`, `InstrumentRules`, the rounding in `submit` | operators on records |
| `TradingRules` | `RiskEngine.evaluate`, `Settings.validate`, the fill rules | operators on records; a rate `r` is `r/Unit` |
| `PaperBroker` | `PaperBroker`, `_enter_pending` | each method is a function from broker to broker (`Opened`, `Settled`, `Restored`, ...) |
| `PaperRunner` | `main`, `on_candle`, `handle_candle`, the three files | one action per stretch between two disk writes |
| `PaperRunnerFaults` | the same on a disk that refuses to write | each step with the writes it needs, and one for each write that raises |
| `CandleLedger` | what the durable state promises | abstract specification: one step per handled candle |
| `BybitExecution` | the adapter and, externally, the exchange | one action per REST call; `call` is the program counter |
| `OrderTracking` | `OrderStateMachine` beside the adapter | `Update` for a status the exchange may have reported by now |
| `Backtester` | `Backtester.run` | one action per candle, one for the end of the data |
| `WalkForward` | `walk_forward` | one action when a training run is over, one when a test is; the runs are `Backtester`'s |
| `KlinePagination` | `fetch_candles`, `validate_candles` | one action per page |
| `CandleDownload` | the download command, `ImmutableJsonlStore` | the fetch, the exclusive creation of a file, one action per piece written |
| `Resampling` | `resample_candles` | operators on sequences of candles |
| `Indicators`, `BaselineStrategy` | `calculate_indicators`; `classify_regime`, `evaluate` | operators on sequences of candles; on snapshots |
| `TradeDecision` | `evaluate_timeframes`, `review`, `_parse`, the gate, and a caller | one action per candle, evaluation and review |
| `MC*` | - | constants of the instances |
| `TradingRulesProofs` | - | lemmas on rates, fills and sizes |
| `PaperBrokerProofs` | - | lemmas on what entries and exits do to a broker |
| `PaperRunnerProofs`, `PaperRunnerFaultsProofs` | - | theorems of the paper process, on a good and a bad disk |
| `BybitExecutionProofs` | - | theorems of `OrderIntents`, `BybitExecution` and `OrderTracking` |
| `WalkForwardProofs` | - | theorems of `Backtester` and `WalkForward` |
| `CandleDownloadProofs` | - | theorems of `KlinePagination` and `CandleDownload` |
| `TradeDecisionProofs` | - | theorems of `TradeDecision`, its indicators and resampling |

`TradingRules` extends `OrderIntents`, `PaperBroker` extends `TradingRules`,
`PaperRunner` extends `PaperBroker` and `PaperRunnerFaults` extends `PaperRunner`.
`Backtester` extends `TradingRules` too, and `WalkForward` extends `Backtester`.
`BybitExecution` extends `OrderIntents`, `OrderTracking` extends it. `CandleDownload`
extends `KlinePagination`. `TradeDecision` extends `BaselineStrategy` (and through it
`Indicators`) and `Resampling`. `PaperRunner` instantiates `CandleLedger` with the
durable broker and the last saved candle. A module of proofs extends the last module it is
about; `TradingRulesProofs` is used by `PaperBrokerProofs` (and through it by
`PaperRunnerProofs`, then `PaperRunnerFaultsProofs`) and by `WalkForwardProofs`.

### PaperRunner

The life of a process is `phase`: `down`, `replay` (restored, handling the missed
candles), `live` (subscribed) and `stopping` (`stopped` is set, the stream's daemon
thread may still deliver until the main thread returns and ends it). The handler of
one candle goes through `step`: `idle`, then `entered` once the queued signal has
been dealt with (`PassEntry`, `RefuseEntry`, `Enter`), then `closed` when the candle
hit a level and the exit is in the audit log (`Close`), `settled` when the daily loss
has been looked at (`EnforceDailyLoss`, or `Hold` when nothing was hit), and `idle`
again when the state has been saved (`Conclude`). `Ignore` and `Fail` are the ways
`on_candle` returns early or raises in the stream, `DieInReplay` the way it raises in
the replay, where nothing catches it. `Crash`, in any state of a running process,
leaves only `saved`, `halt` and `audit`; so does `Finish`.

Abstractions. Time is the index of an hourly candle; the last candle before the model
starts is 0. Decimals are integers; only fees, slipped prices and budgets are rounded,
and comparisons with a limit are cross-multiplied. A strategy answers any signal. The
list of trades is its net sum and its last exit. The audit log is the set of its
events, without those no property is about. The stream is modelled after parsing: what
the parser drops is lost. `cleared` (what the operator has seen) and `crashes` are not
in the code.

### PaperRunnerFaults

`broken` is the set of files that cannot be written; `Break` and `Repair` change it at
any moment. A write that raises leaves its file as it was. A step of `PaperRunner` that
writes is taken only where its files can be written; otherwise the step's own failure is
(`EnterFails`, `CloseFails`, `EnforceFails`, ...), which keeps what the handler had done in
memory before the line that raised. In the replay that ends the process. In the stream
`Caught` follows the order of `handle_candle`: engage the kill switch, record, set
`stopped`; where one of them raises, the later ones do not happen, and the process goes
on. `suffered` and `faults` are not in the code.

### BybitExecution and OrderTracking

An intent is a record of its key, its prices and its leverage, so that a caller may use
a key again at newer prices; `LinkId` is a digest of the key, and digests are taken not
to collide. `submit` validates, rounds to the cached or fetched rules of the instrument
and looks the order up before it places it. A call fails with or without its effect on
the exchange: `CallFails` covers a lost request, `PlaceOrder` an accepted one whether or
not the answer comes back, after which the caller may submit again. `late`, chosen once,
says whether a request whose caller gave up may arrive at any later time (`PlaceLate`,
`Arrives`). The exchange's part is external: it lists orders by `orderLinkId`, attaches
stop and target with the fill, and changes positions out of the adapter's sight. `alarm`
is the adapter's last word on protection, kept across restarts for the properties only:
`sighted` is what an answer showed, `reported` what a whole `recover` or
`verify_position_protection` returned.

`OrderTracking` puts an `OrderStateMachine` into the adapter's process. It is told any
status the exchange may have reported of an order by now, so an old status may follow a
terminal one; a restart begins with an empty machine. Nothing in the repository calls
the machine yet: who calls it is modelled from what its tests do.

### Backtester and WalkForward

A bar of `run` is one action: funding, entry of the queued signal, exit, equity, and
the strategy's next signal, which is any. Funding rates are any of the instance at any
bar. `WalkForward` is `walk_forward` with its folds; a parameter of its grid is the set of
ATRs the strategy signals at, so parameters earn different scores. A start without data is a
single run, so that the same instance covers both callers. A run only begins with candles
`Enough`: `walk_forward` takes a `test_size` of one, for which `run` then raises and the walk
ends without a result.

### KlinePagination and CandleDownload

`honest` chooses, once, whether the exchange answers with the newest listed candles of
the asked range (with or without the candle the range starts in, which is not
documented in the source) or with any rows at all. The range, the clock and the listed
candles are any of the instance. `CandleDownload` writes what was fetched into a file
opened in mode `x`, whose name is a time and may therefore come again, in pieces of whole
lines, the last of which may be torn; the process may end between two pieces, and the
command may be given again, for the same range at a later clock, by which the exchange may
list more candles.

### TradeDecision

No file of the repository calls the whole pipeline. The caller modelled here follows the
order of `docs/architecture.md`: it keeps a window of the last closed candles, resamples
them, asks `evaluate_timeframes`, and gives the signal to `review` and the gate. The
reviewing API fails or answers anything with the schema's fields, `NaN` included, which
`json.loads` accepts for a price. Floating-point values are integers in a small unit,
rounded down; the Bollinger bands and the volume average only go to the reviewer and are
left out, except for the history they need. Deciding is a function of signal and answer.

## Runs

| Run | What it shows |
|---|---|
| `stream` | `TypeOK`, `EquityLedger`, `Timeline`, `MemoryFollowsDisk` and `LedgerSpec` with an unreliable stream and a crash |
| `days` | `BreachStaysHalted`, `AuditCoversState`, `EntryWithinDailyLoss`, `HaltFreezesBook` over five candles of two-candle days, with a crash |
| `faults` | `BreachOutlivesFaults`, `AuditOutlivesFaults`, `BooksOutliveFaults` and the liveness `RecoversFromFaults` with files that refuse to write |
| `retry` | `AtMostOneOrder`, `AcceptedAtItsLeverage`, `WithinIntents`, `ReportStopsOrders`, `DoneStaysDone` with lost and late requests, failed calls and a restart |
| `backtest` | `Balanced`, `AllAccountedFor`, `DrawdownCoversLoss`, `WithinFraction` for every single run of the instance; `TestsTheBest`, `TestsMoveOn`, `WalkEnds` for the walks |
| `pagination` | `ResultUsable`, `ResultComplete`, `NoFalseAlarm`, `StoredUsable`, `StoreImmutable`, `DownloadEnds` |
| `decision` | `Corroborated`, `SidesAlike`, `WholeCandles`, `NoRepainting` |
| `skips`, `stale_day`, `unlogged`, `sight`, `misaligned` | the findings below, each one property the code violates |

In `retry`, where a request either arrives while its caller waits or never does, the
look-up in `_find_existing` is enough and the exchange may accept a repeated
`orderLinkId`. Where it may arrive later the look-up is not enough, and `AtMostOneOrder`
rests on the exchange refusing an `orderLinkId` it knows and on the digest being the same
in every process. An order that arrives late may be accepted at a leverage set since for
another intent; `AcceptedAtItsLeverage` is stated where none is late.

### Bounds, and why they are enough

- `stream`: `MaxCandles` 3, `MaxCrashes` 1. A signal, its entry and an exit take three
  candles. `Window` 3 and `MinHistory` 2 let a downtime outlive the window. A crash
  between two writes is followed by a whole replay, and an orderly stop may come any
  number of times. The proofs have no such bound.
- `days`: `MaxCandles` 5 of days of two (`DayLength`). A loss followed by a signal and a
  refusal takes five candles.
- Candle shapes: a flat one, one that hits a long's stop, and one that hits a stop and
  a target at once. With an ATR of 50 a position of 20 loses about 2% at its stop,
  which is the limit of the instance.
- `faults`: `MaxCandles` 3; `MaxFaults` 1, of the log, of the state file or of the whole
  disk, for as long as it takes; an ATR of 100, at which a short's target is at zero and
  `submit` raises, so that a refusal by the broker happens too. `MaxCrashes` is 0: a replay
  that dies of a write that raises stands in for a crash at the same place.
- `retry`: `MaxOrders` 3, `MaxCrashes` 1, one instrument with a tick of 5 and a step of 2,
  and five intents, none of them on the tick: a long, the same key at newer prices, a limit
  short at another leverage, one too small for the instrument and one whose stop is rounded
  across its entry. Both environments and both kinds of network. Statuses are followed only
  where no request is late.
- `backtest`: all single runs over five candles of three shapes with two ATRs and funding
  of either sign; walks over the eight histories that put a wide candle at the third, fifth
  or seventh of eight places, where queued signals are entered. `TrainSize` 3, `TestSize` 2
  and a step of zero, which the code takes for no step, make two folds and leave one candle
  that is too few for a third. A grid of two.
- `pagination`: a page of two rows, up to four candles (`Horizon` 7, `Interval` 2), so that
  a range takes up to three requests; clocks and range ends that fall inside a candle. Two
  file names and two commands, so that a name does and does not come again.
- `decision`: seven candles, at most one of them lost, a window of six, a higher candle of
  two, three shapes, and the strategy's own ratios with shorter periods. Breakouts,
  pullbacks, volatile markets, refused confirmations, approvals on both sides and gaps all
  occur. A fast average of period 1 is the close itself, so `NearFastEma` always holds here,
  which is why it is not the mutated part of a pullback.

`Backtester`, `WalkForward`, `CandleDownload` and `TradeDecision` come to an end, so deadlock
is not checked in their runs. It is checked everywhere else.

### Fairness

- `FaultFairness` asks that somebody starts the program again when it is down (the
  documentation tells the operator to run the same command) and that its fetches succeed
  in the end, that a handler or a replay that has begun goes on (plain sequential code),
  and that somebody repairs the disk. It asks nothing of the market, the stream, signals
  or the operator's releases. A state with an equity of zero or less cannot be restored
  (`Restorable`) and would never recover; the instance's prices do not reach it, and the
  hazard is listed.
- `FairSpecWalk`: the walk is a loop over finite data in one thread.
- `FairSpecDownload`: the pages, the creation of the file and its writing go on; nothing
  asks that the command be given again or that it be interrupted.

## What is proved

Every safety and action property of the passing runs is a theorem, for every value of the
constants that meets the named assumptions of the modules, without a bound on candles,
orders, faults, crashes or restarts other than the constants. The assumptions are the
limits `Settings.validate` enforces, candles `validate_candles` accepts, a window no shorter
than the minimum history; for the adapter, intents and instrument rules of the right types;
periods of one or more and a MACD whose fast period is not the longer one; and

- `FeeAssumption` (`PaperBroker`): a fee is no more than what is traded. The program runs
  with the constructor's default of 0.055%. Only `EntriesWithinDailyLoss` needs it: a fee above
  it could turn the equity negative before the day is rolled.
- `MinHistory > 1` (`WalkForward`): the warm-up before a test is one candle shorter than the
  minimum history and is not empty.
- `None` is not an order state, a position, a holding, a record of saved state or a file name.

| Theorem | States | Inductive invariant |
|---|---|---|
| *PaperRunner* | | |
| `TypeCorrect` | `Spec => []TypeOK` | `TypeInv`: types and `Control` |
| `MemoryFollowed` | `Spec => []MemoryFollowsDisk` | `BookInv`: and memory as a function of the disk |
| `RefinesLedger` | `Spec => LedgerSpec` | `BookInv` |
| `BooksBalance` | `Spec => []EquityLedger` | `LedgerInv`: `LooseInv` and the balance |
| `AuditCovers` | `Spec => []AuditCoversState` | itself, with `LooseInv` |
| `BreachHalts` | `Spec => []BreachStaysHalted` | `BreachInv`: and `ReviewCoversDisk` |
| `TradesInOrder` | `Spec => []Timeline` | `Dates` |
| `HaltFreezes` | `Spec => HaltFreezesBook` | `FrozenInv`: `BookInv` and `Frozen` |
| `EntriesWithinDailyLoss` | `Spec => EntryWithinDailyLoss` | `SolventInv` |
| *PaperRunnerFaults* | | |
| `FaultTypeCorrect` | `FaultSpec => []FaultTypeOK` | `FaultTypeInv`: and `LooseInv` |
| `BooksOutlive` | `FaultSpec => []BooksOutliveFaults` | and `EquityLedger` |
| `AuditOutlives` | `FaultSpec => []AuditOutlivesFaults` | itself |
| `BreachOutlives` | `FaultSpec => []BreachOutlivesFaults` | `BreachInv` while `HALT` was writable |
| *BybitExecution, OrderTracking* | | |
| `RoundingKeepsIntent` | what `submit` sends is `WithinIntent` of what it was given | - |
| `OrdersWithinIntents` | `Spec => []WithinIntents` | `Inv` |
| `OneOrder` | `Spec => []AtMostOneOrder` | `Inv` |
| `OwnLeverage` | `Spec => []AcceptedAtItsLeverage` | `Inv` |
| `ReportStops` | `Spec => ReportStopsOrders` | `Stopped` |
| `TrackingIsQuiet` | `TrackSpec => Spec` | - |
| `TrackTypeCorrect` | `TrackSpec => []TrackTypeOK` | `TrackInv`, with `NumberInv` |
| `DoneIsFinal` | `TrackSpec => DoneStaysDone` | `TrackInv` |
| *Backtester, WalkForward* | | |
| `BacktestBalances` | every run keeps `Balanced` | `RunInv` |
| `ResultAddsUp` | every run keeps `AllAccountedFor` | `RunInv` |
| `LossIsDrawn` | every run keeps `DrawdownCoversLoss` | `RunInv` |
| `SizeWithinFraction` | every step keeps `WithinFraction` | `RunInv` |
| `WalkTypeCorrect` | every walk keeps `TypeOKWalk` | `WalkInv` |
| `TestIsOfTheBest` | every walk keeps `TestsTheBest` | `WalkInv` |
| `TestsMoveForward` | every step keeps `TestsMoveOn` | `WalkInv` |
| *KlinePagination, CandleDownload* | | |
| `FetchedIsUsable` | every fetch keeps `ResultUsable` | `FetchInv` |
| `FetchedIsComplete` | every fetch keeps `ResultComplete` | `FetchInv` |
| `NoFalseAlarmRaised` | every step keeps `NoFalseAlarm` | `FetchInv` |
| `DownloadTypeCorrect` | every download keeps `TypeOKDownload` | `DownloadInv` |
| `StoredIsUsable` | every download keeps `StoredUsable` | `DownloadInv` |
| `StoreIsImmutable` | every step keeps `StoreImmutable` | `DownloadInv` |
| *TradeDecision* | | |
| `DecisionTypeCorrect` | `Spec => []TypeOK` | `DecisionInv` |
| `ApprovedIsCorroborated` | `Spec => []Corroborated` | `DecisionInv` |
| `HigherIsWhole` | `Spec => []WholeCandles` | `HistoryInv` |
| `HigherIsFinal` | `Spec => NoRepainting` | `HistoryInv` |
| `LongsAndShortsAlike` | `Spec => []SidesAlike` | `DecisionInv` |

### The paper process

`TypeOK` of `PaperRunner` is not inductive: the handled candle must be known to have
closed and to be newer than the last one, which `Control` adds. `MemoryFollowsDisk` is the
heart of the argument: in the middle of a handler, memory is `Entered` or `Processed` of
what the disk holds, with a signal of the last saved candle. When `Conclude` saves, the
disk's change is therefore exactly one `Consume` of the ledger, and every other action
leaves the ledger's variables alone (`StutterOrStep`). A crash throws away memory, for
which the invariant asks nothing but the disk. `HaltFreezes` is the same argument with
`Frozen`: a handler whose disk was flat when the halt came holds nothing.

None of this holds on a disk that refuses to write, where memory runs ahead of the disk. The
other invariants therefore rest on `LooseInv` only, which never compares the two, and are
used twice. The steps of `PaperRunnerFaults` are those of `PaperRunner` or one of
`FailingStep`, which are sorted by what they leave behind (the process ended or survived;
nothing done, an entry or an exit without its line, a handled candle without its save), and
each invariant is shown once for each sort.

- *The ledger*: `SettledKeeps` and `OpenedKeeps` of `PaperBrokerProofs` say what an entry and
  an exit make of equity, position and trades, with every price and fee of the right kind.
- *The log* (`AuditNext`): a broker is `AuditedIn` a log that holds its entry and its last exit;
  what the replay handles again is logged again under the same candle.
- *The breach*: `BreachStaysHalted` is not inductive. A person releases the halt after looking
  at memory's last exit; `ReviewCoversDisk` says that memory's is then the disk's, so that a
  release never covers a loss nobody has seen.
- *The daily loss*: the guardrail looks before the broker rolls the day and takes the loss as a
  share of the equity; the property takes it on the day of the entry, as a share of that
  day's start. `ApprovedWithinDailyLoss` shows that what the guardrail allows is below the
  limit both where the day is rolled and where it is not, if the day began with something,
  which is `Solvent`.

### The adapter

`AtMostOneOrder` is not inductive: it must be known that an order about to be placed is not
there yet. `Inv` is `SubjectInv` (an intent being submitted is valid, fits its instrument
and, in `place_order`, has its leverage set) and `ExchangeInv`: no two orders share a link,
each order and each request still on its way is made of its intent (`Sound`, from
`RoundingKeepsIntent`), none is on its way where no request is late, and there what `submit`
has looked for and not found is absent (`Absent`), because only `submit` itself places orders
between the look-up and the placement. Where requests are late, `Accept` refuses a link the
exchange knows. `Stopped` says that an adapter with an alarm that was reported is blocked or
has not recovered, and that no operation of `submit` is under way.

`TrackingIsQuiet` carries these theorems over to the adapter with its state machine.
`NumberInv` bounds the exchange's orders by their count, for which the orders are numbered
by the sequence they arrived in. `TrackInv` says that a state the machine holds is one the
exchange has reported, so that a terminal state is the order's own.

### The backtester and the walk

`RunInv` is `TypeOK`, `Balanced`, `OnTime` (the curve has a point per candle, a position was
opened before the candle of now) and `Drawn`: while the run goes on, the greatest drawdown
of the curve so far is no less than what the last point lost. The greatest of a set of
shares exists because the set is finite (`GreatestExists`); that the share lost grows with
the peak (`HigherPeakLosesMore`) is why the drawdown from the initial equity is covered. The
walk's `WalkInv` adds `AskedByBest` (a signal under test is one of the best parameter's) and
that no place tested so far lies beyond the training window of now.

### The download

`FetchInv`: what was collected is in range and confirmed; of an honest exchange it is all that
is wanted above the cursor. `HonestPage` is the core: a page that is not empty holds the newest
candles up to the cursor, so that the cursor can move to just before its oldest row and
leaves nothing behind. Completeness follows when the cursor leaves the range or the page is
empty. `Valid` goes from candle to candle as `validate_candles` does, while the properties
count; `ValidIsGapless` proves that candles of which each but the last is followed by the
next are as many as the range between their ends has places.

### The decision

`DecisionInv`: the history ascends, is no longer than the window and is in the past, and a
signal is the one made of this history. What a higher candle covers is shown of `GroupOfCandles`
and `HigherCandle`; that a later window makes the same one of `SameGroup` and
`HistoriesAgree`, since a group whose candles are all in both windows is the same group.
`MirroredSnapshot` and `ConditionsTurned` show that each condition for one side is the other
side's condition on the mirrored market, and `SideTurned` that the answer turns with them.

`DecisionTypeCorrect` needs that the averages exist at all. They are recursive functions, for
which the library's induction theorems cannot be used here, as they take an operator as a
parameter. `RankedRecursion` takes the function itself instead, and argues by the least
argument at which it would leave its range; `SumType`, `EmaType`, `SmoothedType`
and from them `SnapshotType` follow.

### Only model-checked

- Liveness: `RecoversFromFaults`, `WalkEnds`, `DownloadEnds`. They need `ENABLED` and fairness.
- The runs that end in a violation: a counterexample is not proved, it is shown.
- What an average is of. The theorems say that it exists and in which range it is, not that
  it is the right one, which is an induction over data.

## Findings

1. **A candle is skipped** (`skips`). The history is fetched (`operations/cli.py:55`),
   replayed, and only then is the stream subscribed (`:101`). A candle that closes in
   between is in neither; `on_candle` accepts the next one. The docstring of the runner
   says that each confirmed candle is consumed once.
2. **A fill the log never tells of** (`unlogged`). `submit` changes equity and position
   before it writes its line. When the write fails, `handle_candle` writes to the same log,
   which raises before `stopped.set`; the process lives on, and the next candle saves the
   position. The policy says that every order and fill is kept in the audit log.
3. **A refusal for yesterday's loss** (`stale_day`). The guardrail sees the daily profit
   before the broker rolls the day, so the first candle of a day is judged on the day before.
   No entry is wrongly allowed (`EntryWithinDailyLoss` holds).
4. **A recovery that fails half-way forgets what it saw** (`sight`). The adapter stays
   open for orders although the first answer showed an unprotected position.
5. **Groups off their boundaries** (`misaligned`). Where the missing candles lie between two
   groups, `resample_candles` notices nothing and all later higher candles start off the
   target's boundaries. Each still covers consecutive candles (`WholeCandles` holds).

Also seen: a review whose invalidation price is `NaN` passes `_parse` and the gate, since no
comparison with it holds. `Corroborated` excepts that price and the hazard is listed; the
response schema the API is given keeps such an answer away.

## Not modelled

- Charts, the context given to the reviewer, and the evaluation of reviews: rendering and
  counting, without state of their own. The request's text and image.
- The daily report, the closing report, and the win rate and Sharpe ratio of a backtest:
  statistics that only go to the log or the caller.
- The merge of ticker snapshots and deltas and the parsing of the stream's messages: the
  paper process ignores tickers, and what the parser drops is lost in the model.
- The download of funding rates, which repeats the pagination of candles in a simpler form,
  and the checks of `validate_candles` on prices, which bound the candles of the models.
- Reading the environment and the arguments.
- The failure of the machine, after which a state file renamed without `fsync` may be
  unreadable: only the death of the process and failing writes are modelled.

## Plan

Done, in this order: `TradingRules`, `PaperBroker`, `CandleLedger`, `PaperRunner` with its
runs and its first four theorems; `BybitExecution`; `Backtester`; `KlinePagination`;
`PaperRunnerFaults`; `OrderIntents` with its theorem; `OrderTracking`; `Resampling`,
`Indicators`, `BaselineStrategy`, `TradeDecision`; `WalkForward`; `CandleDownload`; the four
theorems of `BybitExecution`; then the other safety and action properties of every module.

Next, by weight:

1. Abstract specifications of the adapter (a set of keys, each placed at most once) and of the
   store (a set of files, each written once), with the refinements from `Inv` and `DownloadInv`.
2. What the durable state still promises on a disk that refuses to write: a specification
   weaker than `CandleLedger`, since one save may then hold what several candles did.
3. Shorter proofs where two modules argue alike: the greatest member of a finite set in
   `WalkForwardProofs`, `CandleDownloadProofs` and `TradeDecisionProofs`.
