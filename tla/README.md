# A TLA+ verification of perpetuals-carry-strategy

The repository replays recorded order books in C++ (`src/cpp`), calibrates
market impact on them, and backtests a long-spot/short-perpetual carry in
Python (`src/python/perpcarry`).  This directory holds TLA+ models of its core
logic, the TLC runs that check them and the TLAPS proofs about them.
`PROJECT.json` maps every definition to the lines it models.

## Inventory

### C++ core

| component | state | operations | interacts with |
|---|---|---|---|
| `spsc_queue.hpp` | `head_`, `tail_`, a ring of raw slots | `try_push`, `try_pop`, `size_approx`, destructor, capacity rounding | one producer and one consumer thread; any thread may ask the size |
| `order_book.cpp` | two sorted vectors of levels | `apply`, `clear`, `best`, `is_crossed` | owned by the replayer; read by comparison and simulation |
| `book_replayer.cpp` | book, statistics, `started_`, `previous_was_snapshot_` | `apply`, `apply_batch` | pipeline, validation, simulator |
| `pipeline.cpp` | replayer; per run a queue, a thread, a flag, two errors | `run` | producer thread and calling thread share queue and flag |
| `book_compare.cpp` | none | `compare_top_n` | validation |
| `replay_validate.cpp` | two streams, replayer, summary | `validate` | reads files exported by `export_book.py` |
| `impact_simulator.cpp` | a copied replayer, a cursor | walk, execute, sliced execution | calibration, `BookExecutor` |
| `book_debug.cpp`, bindings, probes | none | rendering, wrapping, benchmarking | |

### Python

| component | state | operations | interacts with |
|---|---|---|---|
| `strategy/accounting.py` | an immutable ledger | `fill`, `settle`, `finance`, `value` | fees; the runner |
| `strategy/fees.py` | dated fee periods | `quote` | ledger, runner |
| `strategy/walk_forward.py` | ledger, position, schedule, sealed curves | `process` of funding and market events | everything under `strategy/`, the funding model |
| `strategy/execution.py` | none | `fills`, inferred or from a book | runner, C++ simulator |
| `strategy/carry.py`, `sizing.py`, `costs.py` | none | the gate, the lot search, the cost curve | runner |
| `models/rolling_funding.py`, `funding_walk_forward.py` | a window of settlements, a frozen comparator | `update`, forecasts, `forecast_stream` | runner, evaluation |
| `models/calibration_dataset.py`, `order_size.py` | a pipeline, a sampling grid, files | `generate` | pipeline, simulator, storage, both reports |
| `models/impact_model*.py` | files | `load_calibration`, fit, seal, load an artifact | calibration, `costs.py` |
| `ingestion/download.py` | cache, part files | `fetch`, `cached_fetch` | every ingester |
| `ingestion/fetch_book.py` and the other ingesters | partitions on disk | `ingest`, `backfill` | downloads, storage |
| `ingestion/validate_data.py` | a report | registered checks, allowlist | the corpus on disk |
| `tools/export_book.py`, `run_backtest.py`, `run_pipeline.py` | files | export, JSONL run, replay of a day | partitions, runner, pipeline |
| `ingestion/fetch_funding.py`, `funding_series.py` | partitions of settlements; a window being read | `backfill`, `check_month`, `load`, `validate` | the rolling model, studies |
| `tools/validate_book.py` | a report per book and day | fingerprint, export, replay, write | the C++ validator, the calibration |
| `tools/corpus_inventory.py` | corpus and volume reports | hash, check, reuse, write | `validate_data.py`, the calibration |
| `reporting/`, the other tools | none | tables and plots | |

### What is hard, and what correct means

* **Queue.** Lock-free, with relaxed and acquire/release accesses, wrapping
  indices and raw storage.  Correct: first in first out, each item once, no
  slot used out of turn, sizes that never underflow.
* **Pipeline.** Two threads, either of which may fail at any step.  Correct:
  indistinguishable from one thread replaying the batch, always ends, leaves
  nothing behind, and can be used again.
* **Replayer and book.** Errors after a partial change, resync blocks, any order
  of prices.  Correct: the book is the last word on every price since the last
  resync.
* **Validation.** One streaming pass decides whether the replay is right.
  Correct: its verdict is the one a fresh replay per image would give, and a
  pass means something was compared.
* **Ledger and runner.** Long sequences of events, a schedule that two parts keep
  separately, paired fills, settlement guards, evidence with dates.  Correct: money
  balances, no settlement or decision is skipped, no trade looks ahead.
* **Ingestion.** Crashes between removal and write, retries, a cache trusted on
  presence, partial days.  Correct: a partition is a whole day or absent, and
  a skipped day is really missing (it is not always: see Findings).
* **Funding.** The check of a month lets losses pass, windows are read while they are
  replaced, intervals change.  Correct: an admitted series is whole and of one moment, and a
  forecast rests on the recent past, all of it and nothing newer.
* **Sizing.** A binary search that relies on monotony, and an optimum by a formula.
  Correct: no admissible lot promises more, and an entry is not undone at once.
* **Evidence.** Four tools that hash, read and write files without a lock, killed anywhere,
  while the corpus changes.  Correct: rows that are admitted to a fit are of the book that was
  verified, and rest on the venue's trades.

## Modules

| module | models | state and actions |
|---|---|---|
| `BoundedFIFO` | what the queue promises | `items`, `received`; `Push`, `Pop` |
| `SPSCQueue` | `spsc_queue.hpp` | one action per atomic access or move of `try_push` and `try_pop` |
| `CapacityRounding` | `round_up_to_power_of_two` | the constructor's loop, one doubling a step |
| `SPSCQueueObserver` | a queue from its constructor on, with `size_approx` on a third thread | extends both: the loop first, then `LoadHead`, `LoadTail` beside the queue's actions |
| `OrderBook`, `BookReplayer` | the book and the replayer | functions of a state and a row: the error, the state after it |
| `SequentialReplay` | what `Pipeline::run` promises | `Begin`, `ApplyNext`, `RefuseNext`, `Return`, `Throw`, `Interrupted` |
| `Pipeline` | `pipeline.cpp` over `SPSCQueue` and `BookReplayer` | a program counter per thread; one action per step on shared state |
| `BookCompare`, `ReplayValidate` | `compare_top_n`, `validate()` | read an image, feed events, judge, drain, finish |
| `ExportBook` | `export_book.py` | extends `ReplayValidate`: a stored day becomes the two files, batch by batch, then the validator reads them |
| `ImpactSimulator` | `impact_simulator.cpp` | walks as functions of a book; one sliced call: `CallSliced`, `ApplyDue`, `SkipSlot`, `ExecuteSlot`, `EndOrder` |
| `Calibration` | `sample_rows` of `calibration_dataset.py` | extends `ImpactSimulator`: `TakeGroup`, `Replay`, `LookAhead`, `Quote`, `Record`, `Finish` |
| `Accounting`, `Ledger` | `accounting.py`, `fees.py` | functions of a ledger and an event; `Fill`, `Settle`, `Finance` |
| `WalkForward` | `walk_forward.py`, `execution.py` | one action per outcome of `process()` on an event |
| `BacktestCommand` | `main` of `run_backtest.py` | extends `WalkForward`: `RunEvent` writes what the runner yields, `ManifestEnds` the footer |
| `Download` | `download.py` | one process over `cached` and `part` files; `FetchChecksum`, `LookInCache`, the attempts of `fetch`, `Verify` |
| `Backfill` | `fetch_book.py`, the backfill of `fetch_trades.py` | extends `Download`; partitions on disk; `Start`, `Skip`, `Raise`, the steps of `ingest` and of `store`, `Kill` |
| `FundingSeries` | the backfill of `fetch_funding.py`, `load` of `funding_series.py` | months fetched, checked and stored day by day; beside it a window fingerprinted, read, confirmed and validated |
| `RollingFunding` | `rolling_funding.py`, `forecast_stream` | extends `FundingSeries`: `ObserveSettlement` makes a record, then updates |
| `CarryGate` | `CarryStrategy.decide` of `carry.py` | functions: the refusals in their order, the action |
| `Sizing` | `size_position` of `sizing.py`, `from_curve` of `costs.py` | extends `RollingFunding` and `CarryGate`: `Ask`, `CheckInputs`, `Halve`, `Choose`; `DecisionSpec` composes the three, as `MCDecision` runs them |
| `CorpusChecks` | the checks of `validate_data.py` on trades, books and snapshots | functions of a corpus: the set of results |
| `Evidence` | `validate_book.py`, `corpus_inventory.py`, `generate`, `average_daily_volume`, `load_calibration` | extends `CorpusChecks`: the files, and each tool's steps between two reads or writes; `Clear`, `Store`, `Killed` |
| `Selections` | nothing of its own | the rows of a sequence at given positions, in a form the provers can reason about; for the filters of `ReplayValidate`, `ExportBook`, `FundingSeries`, `RollingFunding` and `Calibration` |
| `QueueProofs`, `ReplayProofs`, `LedgerProofs`, `WalkForwardProofs`, `BackfillProofs`, `DecisionProofs`, `CalibrationProofs` | theorems | an inductive invariant of each system, one lemma per action |
| `SharedProofs` | lemmas | what several of the proofs need: least elements, selections, sequences put together, sorted levels, division |

`Pipeline` extends the queue and the replayer, so its steps on the queue are
the queue's own actions.  `Ledger` and `WalkForward` share the functions of
`Accounting`.  `Sizing` reaches down to the archives: a size rests on a forecast, that on a series,
that on what was stored.  A definition under a comment that starts `fault:` is a plausible
bug of the definition after it.  It is not used by any specification: it shows
that the checked properties can be violated.

### How the code is read

* **Memory model.** `head` and `tail` are positions; a load of the other thread's
  index returns any position between the last one it saw and the newest one
  (coherence).  An acquire load that reads a release store makes what was
  written before it visible; since slots are only touched when the loaded index
  admits it, `slots` can be a plain variable, and `SlotDiscipline` checks that it
  may be.  Indices grow for ever in the model; what the code computes from them
  goes through `Word` and `Minus`, modulo `IndexMod`, so the wrap is modelled.  The constructor's loop
  has a word of its own, of `Words` values, which is a power of two because it has no odd divisor but 1.
* **Errors.** An exception that reaches a caller that goes on (`BookReplayer`,
  `Pipeline`) leaves the state the code leaves.  One that ends a run
  (`ReplayValidate`, `WalkForward`) ends the behaviour with the reason.  One on an
  immutable value (`Ledger`) is no step, since the caller keeps the old value.
  A ledger whose first boundary is the epoch itself, which could be given nothing but
  that settlement, is left out.
* **`ProduceThrow`.** Copying a `BookUpdate` cannot throw today.  The handler in the
  producer exists all the same and its path (error kept, peer told) is modelled.
* **Data.** Prices, quantities and money are integers; fees, rates and the
  collateral are parts of `Parts`.  `Leg.trade` divides; `WholeAverage` restricts
  `Ledger` to fills for which that division is exact.  The runner trades one
  opening and one closing fill per leg, for which it always is.  Spot fills at its mid in
  `WalkForward`; the perpetual at its mid plus or minus a slip.
* **Orders.** Quantities are integers, so a slice's share is rounded down where the code's doubles
  round either way; either way the last slice takes what is left.  A fill keeps what
  it took from each level; notional and filled quantity stand for its average price and
  its basis points.  `SliceTime` beside each child is history.  `Calibration`
  itself asks for equal slices; `Weightings` lets the run call the simulator with
  a weight of zero as well, as its binding allows.  `Pipeline.run` is the sequential replay there.
* **Files and crashes.** A file is the list of chunks it holds; what is in memory is
  lost with the process, what is on disk stays.  `Kill` may come between any two steps;
  `rename` and `unlink` are atomic, a removal of a directory is one step.  A Parquet file can be
  read once its writer is closed (`closed`).  The server is not part of the repository:
  `Remotes` says what it has, and a request may fail, break off, or end its body early
  without an error, as a body without a length can.  A gzip that is cut short inflates
  up to the cut and then raises (`InflationEnds`); a zip that is cut short does
  not open (`Readable`).  The structural checks of an archive are one verdict,
  `remote[url]`.  A month of trades is one partition here instead of one per day.
* **Funding.** A settlement is its time, the hours of its interval and whether its rate is sane.  A
  day has `DayHours` hours and a month `MonthDays` days; the tolerance is a quarter of an hour of the
  model where the code's is five seconds of an hour, so that late settlements matter.  `Archives` says how
  a month's archive may differ from what was settled: a row lost, its end lost, a row twice, a
  wrong rate, a row of another month.  A partition has the number of the backfill that stored
  it for its fingerprint.  What the regression makes of a window is left out: a forecast
  keeps the rows it was fitted to, and its samples are any of `SampleSets`.
* **Money in `Sizing`.** Impact grows with the root of the quantity; `Root` is a table of roots in
  `RootScale` parts, which `RootAssumption` makes TLC check.  Edges are compared as sums, so
  nothing is divided but where the code rounds down to a lot.
* **Evidence.** A fingerprint is a version number, a new one whenever bytes change.  Fragments of
  trades have random names, so storing the same trades again is a new version; a book is one file
  of a fixed name.  Contents that change and later change back are left out.  A file being
  written is `Torn` until its writer ends, and stays so when it is killed.  The position entered in
  `EntryIsNotUndoneAtOnce` is the one the runner would make of the answer.  The average daily volume
  is that of trades only.
* **The command.** Of the records written, the footer's two times and two counts are kept.  The
  manifest may end after any event.
* **Nondeterminism.** In `WalkForward` a forecast, the gate and the sizing result
  are free choices: `Wait`, `Enter` with any affordable lot, `Hold` and `Exit` are
  all possible when the guards that do not depend on them allow it.

## Runs

| run | question | bounds, and why they are enough |
|---|---|---|
| `spsc_queue` | does the ring work under every interleaving and stale read? | two slots, indices modulo 4, `MaxPushes` = 5: the ring fills, empties and every index wraps past its word; the constructor is asked for all 64 capacities of a 6-bit word |
| `pipeline` | is threading invisible, and does every run end? | `MaxRuns` = 2 over six batches of up to five rows on a queue of two: full, empty, wrapped, and each error first, in the middle and last |
| `replay_validate` | is the book right, the streaming verdict honest, and an export no cause of mismatches? | all event files of up to four rows out of five and all references of up to three out of five: milliseconds with no, one and two events, holes, all four kinds of difference; event files of five rows over three bid prices, two ask prices and an invalid level: inserts in front, between and behind, replacement, removal, a resync; and the ordered ones with up to two reference rows, exported with budgets 0 to 3 and one no day reaches, in batches of one and two rows |
| `replay_validate_empty` | does a pass mean that something was compared? | the same files; the property fails (see Findings) |
| `ledger` | does money balance in every order of events? | `MaxEvents` = 4 over two settlements, two prices, quantities of one and two on both sides: open, add, reduce, close, a fee change whose evidence comes late, an interval of zero |
| `walk_forward` | do schedule, position, ledger and evidence stay in step? | one warmup settlement and four scored ones in two folds, a horizon of two, so a position is opened, completes, closes and is opened again; a curve gathered during the first fold; both execution modes; `MaxObserved` = 1 market event that is no decision; a manifest that ends after any event; `EventTimes` drops times that are refused like their neighbours |
| `calibration` | does no sample know its future, and does cutting up an order change nothing but its timing? | a snapshot of three rows and any three of six updates (levels that go, shrink, come back, a better ask, a second snapshot) at five patterns of milliseconds, both sides, two sizes, slices at one instant or one millisecond apart, `SampleEvery` = 2; `DayEnd` falls between the last samples; two files that are refused half way |
| `calibration_depth` | does a deep fill say that it is deep? | the same; the property fails (see Findings) |
| `backfill` | is a partition whole or absent, and each period accounted for? | two periods of two datasets, archives of two chunks, two attempts a download, `MaxRuns` = 2 and `MaxKills` = 1: a kill at every step of the first or second run, and a second run over everything the first can leave |
| `backfill_skips` | does a skipped period lack its data? | the same; the property fails (see Findings) |
| `evidence` | do admitted rows rest on a verified book and the venue's trades? | one calibrated day with one day of volume before it; trades that are right, doubled, or of the wrong day, two books, one of which its snapshots contradict; `MaxVersions` = 1 partition replaced at any point, `MaxInventories` = 2 so that a volume report can be reused, one or two tools at a time (`Overlaps`), each of which may be killed and started again |
| `decision` | is a size the best one, on a forecast of the whole recent past? | three plans of intervals that change twice within 16 hours, on time or late, archives with each damage, `MaxBackfills` = 2 over two months of two days beside one load of two or three days; the histories of a whole series, with cadence resets, go on to every combination of a market, a curve, charges, an approval and samples of which either market or curve is the plain one, up to six lots |

Every run turns TLC's deadlock check off, because each system may really stop: a queue
is destroyed, a function returns, a stream fails or ends, or a bound is reached.

What the properties say:

* `QueueInv`, `SlotDiscipline`, `SizeNeverUnderflows` and `ImplementsFIFO`: the queue's contract;
  `RoundedIsLeastPowerOfTwo`: the constructor grants what the others assume;
* `PipelineInv`, `NothingLeftBehind`, `ImplementsSequentialReplay` and
  `EveryRunEnds`: that of `Pipeline::run`;
* `BookIsLastWord` compares book and statistics with a definition
  over the rows replayed that never looks at the book's algorithm;
* `VerdictIsThatOfAFreshReplay` compares every verdict with a replay of the stored day from nothing, so
  it covers the export as well; `PairingIsSound` and `SamplesTellTheTruth` say that what is
  reported is what happened;
* `LedgerInv`, `CashIsAccountedFor`, `ProfitsAreThoseOfTheFills`, `FillsKeepClearOfSettlements` and
  `SettlementsAreComplete`: the books;
* `OneDecisionPerSettlement`, `HeldForThePlan`, `LegsPaired`, `FillsAreNeverRefused`,
  `SizedEntriesAreAffordable` and `FoldsAreSealed`: the backtest; `CompleteMeansCovered`: the
  footer of its command, which knows only two times, is right about the whole study;
* `AdmittedSeriesIsWhole`, `AdmittedSeriesIsAccepted` and `SeriesIsOneStoredState`: the funding a study is
  given, against what the venue settled; `ForecastIsOfTheRecentPast`: what the model makes of it;
* `ChosenSizeIsBest` compares the search with all lots; `EntryIsNotUndoneAtOnce`: the gate agrees
  with itself;
* `AdmittedRowsAreOfTheVerifiedBook` and `AdmittedTradesAreThoseOfTheVenue`: what a fit is made from;
* `GridIsSampled`, `FillsAreThoseOfTheMarket`, `ParentIsTheSumOfItsSlices` and
  `SplittingIsNotCheaper`: the samples a cost model is fitted to, against definitions over the
  whole file (the last word on a price at a time, less what was taken since);
* `CacheHoldsOneBody`, `NoThinDays` and `BackfillAccountsForEveryPeriod`: what the disk holds
  after failures, retries, kills and restarts.

`NoThinDays` has one exception, which the code has too: a failed `ingest` closes its writer, and
with that gives half a day a valid footer, before it removes the directory.  A process
killed between the two leaves a thin day that can be read (`abandoned`) until that day is
ingested again.  A truncated book archive in the cache is trusted on presence by every later
run and refused every time by inflation: never a thin day, but no progress either until
someone deletes it.

`AdmittedSeriesIsWhole` has an exception too: at the very end of a window rows may be missing when
they settled at shorter intervals than a last one that reaches the end, since `validate` measures the
end by the interval of the last row it has.

The evidence has a gap no run shows: `generate` reads the average daily volume before it verifies the
trades it was summed from (`calibration_dataset.py:247`), so sizes may come from trades other than the
ones under the recorded hashes.  The model reads the volume where the code does;
`AdmittedTradesAreThoseOfTheVenue` is about the hashed trades.

### Fairness

Only `Pipeline` has a liveness property (`EveryRunEnds`): the other components are sequential code, or
tools somebody starts and may not start again.  In the pipeline both threads are
runnable whenever they are not in `join`, and yield when they spin: weak fairness of
each thread.  C++ asks that a store become visible to atomic loads in finite
time, so a load that is repeated for ever does not return an old value for ever: strong
fairness of the steps that see the newer value (`ProducePush`, `ProduceStop`,
`ConsumePop`, `ConsumeStop`).  Nothing is assumed of the caller, who need not start a
run.

### Findings

* `ValidationSummary::verdict()` tests `images == 0` for "nothing was compared".  Images
  that share their millisecond with no event are counted in `images` and skipped, so a
  run with only such images ends with `Pass` although its own comment says that
  a run that compared nothing must never report success (`replay_validate.hpp:84-90`,
  `replay_validate.cpp:143-146`).  `PassMeansCompared` states the comment; TLC finds the
  counterexample, two rows long.
* `--allow-missing` is documented to skip periods without data, before a symbol was
  listed (`fetch_book.py:586`, `fetch_trades.py:320`).  The code skips a period on any
  `DownloadError`, which is also what a server error, the last failed attempt and a
  damaged download raise (`fetch_book.py:563`, `fetch_trades.py:250`,
  `download.py:101,162,200`).  `SkippedPeriodsHaveNoData` states the option's help text; TLC
  finds a vendor that has everything and a month skipped after one failed checksum request.
* `beyond_validated_depth` counts levels in the book that earlier slices of the same order
  have depleted (`impact_simulator.cpp:73,93-102`).  D-021 wants it on every fill that goes deeper
  than the reference can vouch for (`docs/decisions.md:560`).  `DepthIsDisclosed` states that; TLC
  finds an order that is flagged when it is taken at once and not flagged when the
  same levels are taken in two slices at the same instant.

## Proofs

For every value of the constants the assumptions allow.  TLC checked each inductive invariant on
the component's run before it was proved.  The assumptions, each named in the module that declares
the constants and evaluated by TLC:

* a capacity that divides the index range with at least one ring to spare; a word with no odd divisor but 1;
* files of typed rows, the stored ones in time order and, for an export, with timestamps that are not
  negative (the model's -1 is the code's `budget_end = None`);
* a configuration `WalkForwardConfig` accepts, and curves other than the placeholder for none;
* at least one period and dataset; contents to ingest only for partitions of the corpus, none of
  them empty;
* `VenueAssumption`: the venue settles on the hour, at most `Tolerance` late and less than half an hour
  (`TOLERANCE_MS`, five seconds), and a row's interval is the hours since the one before it
  (`fetch_funding.py:8,67`); archives may lose, double, damage and mix in rows all the same, and a row
  of another month lies outside the months on disk;
* `InputsAssumption`: market, curve and charges as their `__post_init__` accept them, with a positive step
  and quantities up to `LargestQuantity`; `RootAssumption`: the table holds the roots, rounded down;
* `CalibrationAssumption`: at least one order size, all positive, at least one slice, a positive grid;
  weights of slices may be any integers, and updates any rows in any order.

The arguments, by module:

* `QueueProofs`, the queue: `QueueInv` is inductive.  It says how far each index may be ahead of
  what either thread saw of it (`IndicesBound`), that the history of pushes and pops is
  what lies below the indices (`HistoriesAgree`), that the slots between head and tail
  hold what was sent (`SlotsHoldSent`) and that the others are raw but for the one in
  either thread's hands (`OtherSlotsRaw`).  `InOrder` alone is not inductive: that a pop
  returns the right item needs the slots, and that a stale index never admits too
  much needs the bounds.  From it follow `QueueTypeOK`, `InOrder`, `SlotDiscipline`
  and that the queue implements `BoundedFIFO` with `items` = the live part of the history.
  Lemmas on `%` (distinct positions within one capacity have distinct slots) carry
  the arithmetic.
* `QueueProofs`, constructor and observer: `RoundInv` and `ObserverInv`.  The loop of the constructor is right because what
  it has doubled so far divides the word at least twice (`Words = k * rounded`): with no odd
  divisor but 1, the parts can then be put together two by two, so a doubling never leaves
  the word, and the value before the last doubling was too small.  `WordsAssumption` stands for "a
  power of two" because nothing can be proved of `^`.  `size_approx` does not underflow because
  a head comes with the tail its consumer knew (`tailAt`), and the tail is loaded after the head.
  `RoundedIsLeastPowerOfTwo` and `SizeNeverUnderflows` follow, and that the observer changes
  nothing for the queue (`ObservedQueueIsTheQueue`).
* `QueueProofs`, the pipeline: `PipelineInv` adds where each thread is in the batch
  (`ProducerFollowsBatch`, `ConsumerFollowsQueue`) and what the flag means
  (`AbortsExplained`).  From it follow the types, `PeakWithinCapacity`,
  `NothingLeftBehind` and the refinement of `SequentialReplay`: the row a consumer
  applies is the next row of the batch because the queue is in order.  The refinement uses nothing of
  `ErrorOf`, `Applied` and `AfterError` but that they are functions of replayer and row.
* `LedgerProofs`: `LedgerInv` is inductive, whatever the capital, prices, rates, fees and
  number of events.  `CashIsAccountedFor` needs the legs' types and that a fee was
  quotable.  `ProfitsAreThoseOfTheFills` speaks of marks and is not inductive:
  `FillsAreInTheLegs` says the same of basis and realized profit, and `TradeIsPaid` is the
  lemma that every branch of `Leg.trade` moves basis less realized by what the
  fill paid.  `FillsKeepClearOfSettlements` looks at all earlier settlements, the code only
  at the last and the next: `BoundariesAreKept` closes that gap.  The averages enter
  through `WholeAverage` only.
* `ReplayProofs`: `ReplayInv` says of the replayer, after any prefix of any file, that each
  side is sorted for all pairs of levels, that there is a row which opened the current block, and that the levels held
  are exactly the prices whose last row since then has a quantity (`Said`).
  `BookIsLastWord` compares with a maximum and with neighbours only: `MaxIsGreatest` and `LeastElement`, from
  the library's well-foundedness of `<`, bridge the two.  `SearchFacts` and `AppliedLevelsFacts` are the
  binary search and the insertion, replacement and removal of a level in the sorted vector.  The
  invariant also covers a refused row, which may have cleared the book before it was refused.
  `PairingInv` adds to it what `PairingIsSound` needs.  What was written is the front of the day, and as soon as nothing
  more is written the rest of the day is strictly later (`ExportInv`, `CutBetween`); the rows applied are in order
  because the replayer refuses any that is not; before an image is taken up the stream stands between two
  milliseconds (`AtABoundary`), so its group is counted from its first row (`GroupInv`), and a verdict was on all
  of it (`IsJudged`), however many rows a batch or a budget has.
  `VerdictInv` says that the replayer is a fresh replay of the rows applied so far.  A replay is a fold, that
  is a choice among functions that satisfy its equation: `FoldExists` builds one, so the choice is
  one, and `ReplayOfOneMore` is what a further row adds to it.  With the pairing, a verdict is the one a
  replay of the stored day from nothing would give, and the samples are the first mismatches of the
  run, counted once each (`MismatchesInv`).
* `WalkForwardProofs`: `RunnerInv`.  None of the runner's properties is inductive alone: that a fill
  is never refused needs that no fill falls on a settlement, which needs the schedule
  (`ScheduleInv`: the event before a decision is strictly before it); that a position is held for the plan
  needs that a held position has an opening; that a trade rests on its fold's seal needs that a fold
  has one seal (`SealsInv`).  `CommandInv` adds what was written (`OutputInv`): the count of settlements is what
  the last one's time implies, the count of decisions at most one behind, so that the footer's
  two times say all four.  The command's behaviours are the runner's (`CommandIsARunner`).
* `BackfillProofs`: `BackfillInv`.  A part file is what was streamed so far and a partition under
  construction what was ingested so far (`FetchInv`, `DiskInv`), at every kill; the cached file that is being
  ingested may be cut short, which is why `NoThinDays` needs that a trade is stored from
  a verified body.  `AccountInv` says what was reported, skipped and fetched before the
  archive at hand, and so carries `BackfillAccountsForEveryPeriod` over the two nested loops.
* `CalibrationProofs`, the evidence: `EvidenceInv`.  Every version number a tool or a file holds has been, or is, that of its
  partition, and will not come back once it has gone (`Seen`).  What a report claims of a
  version holds as long as that version is stored (`ReplayIsOf`, `QualityIsOf`), rows were
  sampled after their manifest's inputs were (`SampledAfter`), and successive generations of rows
  never reuse a book for another (`Precedes`).  From that,
  `AdmittedRowsAreOfTheVerifiedBook`, however the four tools overlap or are killed.
* `CalibrationProofs`, the samples: four invariants of `CalibrationSpec`, each resting on the ones before.
  `GridInv` says that what is read ahead is the groups of the day that come next, that the threshold
  is the next multiple of the grid, and that the rows so far are the grid points passed times the
  sizes: from it `GridIsSampled`.
  `ParentInv` says that a replayer's book is sorted with positive levels (`SoundBook`), that a walk of such a
  side takes what it reports (`WalkFacts`), that the slices of a schedule, whatever the weights, are never negative and
  sum to the order (`SliceQuantitiesFacts`), and that the parent's totals are sums over the children so
  far: from it `ParentIsTheSumOfItsSlices`.
  `SplitInv` says that the rows not replayed are in hand and the replayed ones in the order of time, so
  nothing read ahead is due when nothing happens until the last slice (`NothingAhead`).  A walk can then be cut
  in two: a depleted side serves the rest of an order as the whole side would have after its first
  part (`WalkInTwo`), levels emptied to nothing and a part of a level included.  The slices so far
  and the rest on the depleted book are one walk (`Bought`): from it `SplittingIsNotCheaper`.
  `FillsInv` says, of both replayers, that their book holds at each price the last word of the rows given on it,
  less what the order's slices took since (`IsMarket`).  A row that is accepted is the next last
  word, untouched (`MarketAfterApply`), and a slice takes from each price what it reports there (`MarketAfterDepleted`).
  What was read ahead is the file's next rows up to the last slice (`FutureIsNext`), and in a day that is
  in the order of time the rows the simulator was given when a slice executes are those known at its instant
  (`KnownAtSlice`): so each fill walked the market of its own instant (`IsOnMarket`).  That a walk
  is greedy over a sorted side (`TakenIsGreedy`), and that each level of it is an offer of the market
  and each offer a level (`BookOffers`), make it the best execution (`OnMarketIsBest`): from it `FillsAreThoseOfTheMarket`.
  The order of time is what the pipeline found of the whole file when it returned, so nothing is assumed of the day.
* `DecisionProofs`, the funding: `FundingInv`.  The number of a backfill that stored a day never comes back
  once the day was `Replaced`, so a window whose fingerprint is confirmed was not stored to in between:
  `SeriesIsOneStoredState`.  What `check_month` lets through is rows of the venue in their own month (`CheckedMonth`),
  though some may be lost.  That two rows of the venue a regular step apart are neighbours
  (`RegularStepIsNext`) makes what `validate` passes a run of the venue's settlements, and its test of the first row
  makes it begin where the window does (`WindowIsARun`): `AdmittedSeriesIsWhole`.
* `DecisionProofs`, the rolling model: `RollingInv`.  What the model keeps is the run of the series that begins
  after the last change of cadence or at the edge of its window (`Kept`), and the frozen
  comparator ends with a settlement of the series.  With the series whole, no settlement of it is refused
  (`AdmittedSeriesIsAccepted`) and a forecast is fitted to the recent past, all of it and nothing newer
  (`ForecastIsOfTheRecentPast`).
* `DecisionProofs`, the size: `SizingInv`.  Costs grow with the lots because rounded roots, products and
  divisions do, so the gate accepts every lot below one it accepts, and the bounds of the search
  close in on the greatest (`SearchIsExact`, a conjunct of `ChosenSizeIsBest`).
  `EntryIsNotUndoneAtOnce` then compares two thresholds over the same costs.
* `SharedProofs`: least elements from the library's well-foundedness of `<`, from which induction over the
  positions of a sequence follows without an operator parameter (`StepByStep`); rows selected by
  positions; sequences of sequences; levels of a sorted side; division and multiples.  `ReplayProofs`, `DecisionProofs` and
  `CalibrationProofs` extend it.

`QueueTypeOK`, `InOrder`, `PipelineTypeOK` and `PeakWithinCapacity` are theorems only: the runs check the
stronger `QueueInv` and `PipelineInv`.

Model-checked only:

* `EveryRunEnds`: liveness under fairness is out of the prover's reach;
* `AdmittedTradesAreThoseOfTheVenue` is not true of every content: two days that had exchanged trades of
  equal volume, with ids no further apart than the skip that is allowed, would pass each check (TLC finds it with
  `MaxIdSkip` = 2 and such contents).  Ingestion stores each trade in its own day and cannot
  produce them, so the property is checked for the damages of the run;
* of `ChosenSizeIsBest`, that the profit is greatest at one of the two lots that are compared.  This is not
  true of every `Root` that `RootAssumption` allows: with roots rounded to integers (`RootScale` = 1)
  the profit is jagged, and TLC finds a third lot that promises more.  The code's roots are
  doubles; the run takes hundredths (`RootScale` = 100), fine enough for its twelve units.
  `SearchIsExact`, its other part, does not depend on the rounding and is proved.

## Plan

Modelled, in this order: queue, replayer, pipeline; validation; ledger; runner; downloads and
backfill; simulator and sampling; funding, rolling model, gate and sizing; corpus checks and the
evidence chain; export; the backtest command; the constructor.  Proved, in this order: queue, pipeline, ledger; runner and
command; backfill; evidence; observer and constructor; replayer, export and
pairing; replay verdicts; funding, rolling model and sizing; the sampling grid, sliced orders, orders
cut in two, fills and the market.  What is left is no theorem
as it stands (the three above); of the optimum, a bound up to the rounding of the roots could be.

Not modelled, and not planned: rendering and CSV text (`book_debug.cpp`,
`event_csv.cpp`); the Python binding, which has no protocol of its own; the regression
(`funding_model.py`), the curve fit and its sealed artifact (`impact_model.py`, `impact_model_io.py`),
which are numerical; klines, price bars, mark prices and symbol metadata, one-shot conversions of
vendor files whose correctness is a matter of values and not of order; of `validate_data.py` the checks on
funding, the checksums, the allowlist and the printed report; reports, plots and benchmarks.
