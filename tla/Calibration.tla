----------------------------- MODULE Calibration -----------------------------
(***************************************************************************)
(* sample_rows (python/perpcarry/models/calibration_dataset.py): one pass  *)
(* over a day's events that stops at every grid point, reads ahead for the *)
(* slices to come, and quotes each size against the book as it stands, at  *)
(* once and sliced.  What was read ahead is replayed later.                *)
(*                                                                         *)
(* Pipeline.run is the replay it was shown to implement (Pipeline.tla).    *)
(* Config gives its schedules no weights; Weightings may have others, so   *)
(* that the simulator is also called as its binding allows.                *)
(***************************************************************************)
EXTENDS ImpactSimulator, Selections

CONSTANTS Files,        \* the events of a day: sequences of rows
          SampleEvery,  \* Config.sample_every
          Quantities,   \* the order sizes, fraction * adv of each
          Slices,       \* Config.slices
          Durations,    \* what Config.duration_ms may be
          Weightings,
          OrderSides,   \* what Config.side may be
          DayEnd        \* the first millisecond of the next day

ASSUME CalibrationAssumption ==
    /\ SampleEvery \in Nat \ {0} /\ Slices \in Nat \ {0} /\ Durations \subseteq Nat
    /\ Quantities \in Seq(Nat \ {0}) \ {<<>>} /\ OrderSides \subseteq {"buy", "sell"}
    /\ Weightings \subseteq Seq(Int)
    /\ Files \subseteq Seq(BookUpdate) /\ DayEnd \in Int

VARIABLES file, config,
          position,     \* rows the group iterator has read
          pending,      \* groups read ahead
          replay_batch, \* rows not replayed yet
          replayer,     \* the pipeline's
          applied, threshold,
          instant,      \* timestamp of the group last taken
          size,         \* which of the quantities is quoted
          static,       \* and its static fill
          rows,         \* what was sampled
          pc

calibrationVars == <<simVars, file, config, position, pending, replay_batch, replayer, applied,
                     threshold, instant, size, static, rows, pc>>

CalibrationInit ==
    /\ SimInit
    /\ file \in Files
    /\ config \in [side : OrderSides, duration : Durations, weights : Weightings]
    /\ position = 0 /\ pending = <<>> /\ replay_batch = <<>>
    /\ replayer = NewReplayer
    /\ applied = 0 /\ threshold = SampleEvery
    /\ instant = 0 /\ size = 1 /\ static = <<>>
    /\ rows = <<>>
    /\ pc = "loop"

\* itertools.groupby: the rows from a position on that share its timestamp
Group(from) ==
    LET same == {n \in from .. Len(file) :
                    \A i \in from .. n : file[i].timestamp = file[from].timestamp}
    IN  SubSeq(file, from, Max(same))

ReadGroup == Group(position + 1)
MoreGroups == position < Len(file)
TimeOf(group) == group[1].timestamp

\* Pipeline.run: the replayer after a batch, or after the row that failed in it
Replayed(batch) ==
    FoldLeft(LAMBDA r, row :
                IF r.error # NoError THEN r
                ELSE [replayer |-> AfterApply(r.replayer, row), error |-> ErrorOf(r.replayer, row)],
             [replayer |-> replayer, error |-> NoError], batch)

Schedule ==
    [start |-> instant, duration |-> config.duration, slices |-> Slices, weights |-> config.weights]

LastSlice == instant + (config.duration * (Slices - 1)) \div Slices

Unchanged == UNCHANGED <<file, config>>
------------------------------------------------------------------------------
\* groups read ahead come first
TakeGroup ==
    /\ pc = "loop" /\ (pending # <<>> \/ MoreGroups)
    /\ LET group == IF pending # <<>> THEN Head(pending) ELSE ReadGroup
       IN  /\ replay_batch' = replay_batch \o group
           /\ applied' = applied + Len(group)
           /\ instant' = TimeOf(group)
           /\ IF pending # <<>> THEN pending' = Tail(pending) /\ UNCHANGED position
              ELSE position' = position + Len(group) /\ UNCHANGED pending
    /\ pc' = IF applied' < threshold THEN "loop" ELSE "replay"
    /\ UNCHANGED <<simVars, replayer, threshold, size, static, rows>> /\ Unchanged

\* fault: the next grid point is counted from the sample
NextThresholdDrifting == applied + SampleEvery

NextThreshold == (applied \div SampleEvery + 1) * SampleEvery

\* the pipeline catches up; too late in the day there is no sample
Replay ==
    /\ pc = "replay"
    /\ replayer' = Replayed(replay_batch).replayer
    /\ IF Replayed(replay_batch).error # NoError
       THEN pc' = "raised" /\ UNCHANGED <<replay_batch, threshold>>
       ELSE /\ replay_batch' = <<>>
            /\ threshold' = NextThreshold
            /\ pc' = IF LastSlice >= DayEnd THEN "loop" ELSE "look_ahead"
    /\ size' = 1
    /\ UNCHANGED <<simVars, position, pending, applied, instant, static, rows>> /\ Unchanged

ReadBeyond == pending # <<>> /\ TimeOf(Last(pending)) > LastSlice

\* groups up to the last slice are read, and one beyond it
LookAhead ==
    /\ pc = "look_ahead" /\ ~ReadBeyond /\ MoreGroups
    /\ pending' = Append(pending, ReadGroup)
    /\ position' = position + Len(ReadGroup)
    /\ UNCHANGED <<simVars, replay_batch, replayer, applied, threshold, instant, size, static,
                   rows, pc>> /\ Unchanged

LookedAhead ==
    /\ pc = "look_ahead" /\ (ReadBeyond \/ ~MoreGroups)
    /\ pc' = "quote"
    /\ UNCHANGED <<simVars, position, pending, replay_batch, replayer, applied, threshold, instant,
                   size, static, rows>> /\ Unchanged

Future == FlattenSeq(RowsAt(pending, {k \in 1 .. Len(pending) : TimeOf(pending[k]) <= LastSlice}))

Quote ==
    /\ pc = "quote"
    /\ static' = Walk(replayer.book, config.side, Quantities[size])
    /\ CallSliced(replayer, Future, config.side, Quantities[size], Schedule)
    /\ pc' = "slicing"
    /\ UNCHANGED <<position, pending, replay_batch, replayer, applied, threshold, instant, size,
                   rows>> /\ Unchanged

\* the two rows of this size, as one entry
Record ==
    /\ pc = "slicing" /\ sim_phase = "returned"
    /\ rows' = Append(rows, [event_count |-> applied, timestamp |-> instant, size |-> size,
                             static |-> static, sliced |-> parent, slices |-> children])
    /\ size' = size + 1
    /\ pc' = IF size < Len(Quantities) THEN "quote" ELSE "loop"
    /\ UNCHANGED <<simVars, position, pending, replay_batch, replayer, applied, threshold, instant,
                   static>> /\ Unchanged

\* an update of the future that is refused ends the sampling
SlicedThrows ==
    /\ pc = "slicing" /\ sim_phase = "threw"
    /\ pc' = "raised"
    /\ UNCHANGED <<simVars, position, pending, replay_batch, replayer, applied, threshold, instant,
                   size, static, rows>> /\ Unchanged

\* the file is at its end: what is left is replayed too, and everything counted
Finish ==
    /\ pc = "loop" /\ pending = <<>> /\ ~MoreGroups
    /\ replayer' = IF rows = <<>> THEN replayer ELSE Replayed(replay_batch).replayer
    /\ pc' = IF \/ rows = <<>>
                \/ Replayed(replay_batch).error # NoError
                \/ replayer'.applied # applied
             THEN "raised" ELSE "returned"
    /\ UNCHANGED <<simVars, position, pending, replay_batch, applied, threshold, instant, size,
                   static, rows>> /\ Unchanged

CalibrationNext ==
    \/ TakeGroup \/ Replay \/ LookAhead \/ LookedAhead \/ Quote \/ Record \/ SlicedThrows \/ Finish
    \/ /\ pc = "slicing" /\ SimNext
       /\ UNCHANGED <<file, config, position, pending, replay_batch, replayer, applied, threshold,
                      instant, size, static, rows, pc>>

CalibrationSpec == CalibrationInit /\ [][CalibrationNext]_calibrationVars
------------------------------------------------------------------------------
\* positions at which a millisecond ends, and those a grid point falls into
GroupEnds ==
    {n \in 1 .. Len(file) : n = Len(file) \/ file[n + 1].timestamp # file[n].timestamp}

Before(n) == Max({0} \cup {m \in GroupEnds : m < n})

GridPoints ==
    {n \in GroupEnds :
        /\ \E k \in Before(n) + 1 .. n : k % SampleEvery = 0
        /\ file[n].timestamp + (config.duration * (Slices - 1)) \div Slices < DayEnd}

(* Every grid point is sampled once, at the end of the first millisecond   *)
(* that reaches it, with every size, in the order of the day, and no other *)
(* instant is.  Neither what was read ahead nor a grid point that was too  *)
(* late in the day shifts, repeats or drops one (sample_rows).             *)
GridIsSampled ==
    /\ \A i \in 1 .. Len(rows) :
          /\ rows[i].event_count \in GridPoints
          /\ rows[i].timestamp = file[rows[i].event_count].timestamp
          /\ rows[i].size = ((i - 1) % Len(Quantities)) + 1
          /\ i > 1 => IF rows[i].size = 1 THEN rows[i].event_count > rows[i - 1].event_count
                      ELSE rows[i].event_count = rows[i - 1].event_count
    /\ pc = "returned" => Len(rows) = Cardinality(GridPoints) * Len(Quantities)
------------------------------------------------------------------------------
\* how many rows of the day are known at a time
KnownAt(time) == Cardinality({i \in 1 .. Len(file) : file[i].timestamp <= time})

\* the first row of the book that stands after n rows
BookStart(n) ==
    Max({1} \cup {i \in 2 .. n : file[i].is_snapshot /\ ~file[i - 1].is_snapshot})

\* the last of the first n rows that says something of a price; 0 if none does
LastWord(side, price, n) ==
    Max({0} \cup {i \in BookStart(n) .. n : file[i].side = side /\ file[i].price = price})

TakenAt(fill, price) ==
    Total([i \in DOMAIN fill.takes |->
              IF fill.takes[i].price = price THEN fill.takes[i].quantity ELSE 0])

\* what the j-th slice finds at a price: the last word on it, less what earlier slices took since
Available(slices, j, side, price) ==
    LET word == LastWord(side, price, KnownAt(slices[j].at))
        since == [i \in 1 .. j - 1 |->
                     IF side = ConsumedSide(config.side) /\ KnownAt(slices[i].at) >= word
                     THEN TakenAt(slices[i].fill, price) ELSE 0]
    IN  IF word = 0 THEN 0 ELSE file[word].quantity - Total(since)

FilePrices == {file[i].price : i \in 1 .. Len(file)}

Better(side, price) == {p \in FilePrices : IsBetter(side, p, price)}

\* greedy: at each price what better ones could not give, as far as it is there
IsBestExecution(slices, j) ==
    LET fill == slices[j].fill
        side == ConsumedSide(config.side)
        missing(p) == fill.requested
                        - MapThenSumSet(LAMBDA q : Available(slices, j, side, q), Better(side, p))
        isBest(s, p) == /\ Available(slices, j, s, p) > 0
                        /\ \A q \in Better(s, p) : Available(slices, j, s, q) = 0
    IN  /\ \A p \in FilePrices :
              TakenAt(fill, p) = Max({0, Min({missing(p), Available(slices, j, side, p)})})
        /\ \A p \in FilePrices : fill.bid_at_entry = p <=> isBest("bid", p)
        /\ \A p \in FilePrices : fill.ask_at_entry = p <=> isBest("ask", p)

Alone(row) == <<[at |-> row.timestamp, fill |-> row.static]>>

(* Every fill, at once or in a slice, is the best execution on what the    *)
(* day's events say up to its own instant and on nothing later, and takes  *)
(* no liquidity that an earlier slice of the same order took and the       *)
(* market has not restated since (sample_rows,                             *)
(* simulate_sliced_execution_from_state; "No look-ahead", D-023).          *)
FillsAreThoseOfTheMarket ==
    pc = "returned" =>
        \A i \in 1 .. Len(rows) :
            /\ IsBestExecution(Alone(rows[i]), 1)
            /\ \A j \in 1 .. Len(rows[i].slices) : IsBestExecution(rows[i].slices, j)

Fills(row) == {row.slices[j].fill : j \in DOMAIN row.slices}

(* A sliced order is its slices: they ask for all of it and no more, what  *)
(* they got is what it got, it is complete exactly when it got everything, *)
(* and its worst price is the worst any of them paid                       *)
(* (slice_quantities, simulate_sliced_execution_from_state).               *)
ParentIsTheSumOfItsSlices ==
    pc = "returned" =>
        \A i \in 1 .. Len(rows) :
            LET row == rows[i]
                children_of(Op(_)) == Total([j \in DOMAIN row.slices |-> Op(row.slices[j].fill)])
            IN  /\ children_of(LAMBDA f : f.requested) = Quantities[row.size]
                /\ children_of(Filled) = row.sliced.filled
                /\ children_of(Notional) = row.sliced.notional
                /\ Completed(row.sliced) <=> row.sliced.filled = Quantities[row.size]
                /\ \A f \in Fills(row) : \A k \in DOMAIN f.takes :
                      ~IsBetter(ConsumedSide(config.side), row.sliced.worst_price, f.takes[k].price)
                /\ row.sliced.filled > 0 =>
                      \E f \in Fills(row) : WorstPrice(f) = row.sliced.worst_price

(* While the market stands still, an order cut into slices gets and pays   *)
(* exactly what it would at once: "splitting an order at one instant does  *)
(* not make it cheaper" (test_impact_simulator.cpp:550).                   *)
SplittingIsNotCheaper ==
    pc = "returned" =>
        \A i \in 1 .. Len(rows) :
            LET row == rows[i]
                last == row.timestamp + (config.duration * (Slices - 1)) \div Slices
            IN  KnownAt(row.timestamp) = KnownAt(last) =>
                    /\ row.sliced.filled = Filled(row.static)
                    /\ row.sliced.notional = Notional(row.static)

\* how deep in the market's own book a price lies at a time
DepthOf(price, time) ==
    LET side == ConsumedSide(config.side)
        stands(p) == LET word == LastWord(side, p, KnownAt(time))
                     IN  word # 0 /\ file[word].quantity > 0
    IN  Cardinality({p \in Better(side, price) \cup {price} : stands(p)})

(* A fill from beyond the levels that the reference constrains says so:    *)
(* "report levels_consumed and beyond_validated_depth on every fill"       *)
(* (docs/decisions.md, D-021).                                             *)
DepthIsDisclosed ==
    pc = "returned" =>
        \A i \in 1 .. Len(rows) : \A j \in DOMAIN rows[i].slices :
            LET slice == rows[i].slices[j]
            IN  (\E k \in DOMAIN slice.fill.takes :
                    DepthOf(slice.fill.takes[k].price, slice.at) > ValidatedDepth)
                  => slice.fill.beyond_validated_depth
==============================================================================
