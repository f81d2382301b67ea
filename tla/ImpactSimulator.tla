--------------------------- MODULE ImpactSimulator ---------------------------
(***************************************************************************)
(* Market walks over a book and one sliced execution                       *)
(* (cpp/src/impact_simulator.cpp): a replayer is copied, carried on to the *)
(* instant of each slice, and the slice takes its quantity out of the      *)
(* copy's book.  Quantities are integers, so a share is rounded down here  *)
(* where the code's doubles round either way; average prices and basis     *)
(* points are left out, notional and filled quantity stand for them.       *)
(***************************************************************************)
EXTENDS BookReplayer

CONSTANT ValidatedDepth  \* kValidatedDepth

ASSUME DepthAssumption == ValidatedDepth \in Nat

VARIABLES order,     \* the arguments of the call
          sim_phase, \* "idle", "running", "returned" or "threw"
          sim,       \* the copied replayer
          cursor,    \* how many of the future updates it was given
          slot,      \* the slice the loop is at
          children,  \* SlicedFill::slices, with the instant of each
          parent     \* SlicedFill::parent

simVars == <<order, sim_phase, sim, cursor, slot, children, parent>>

NoPrice == 0  \* NaN

ConsumedSide(order_side) == IF order_side = "buy" THEN "ask" ELSE "bid"

Total(quantities) == FoldLeft(LAMBDA sum, q : sum + q, 0, quantities)

BestPrice(levels) == IF levels = <<>> THEN NoPrice ELSE levels[1].price
------------------------------------------------------------------------------
\* what the first n levels hold, and how many of them an order touches
Depth(levels, n) == Total([i \in 1 .. n |-> levels[i].quantity])

Touched(levels, quantity) == Cardinality({n \in 1 .. Len(levels) : Depth(levels, n - 1) < quantity})

Taken(levels, quantity, i) ==
    LET remaining == quantity - Depth(levels, i - 1)
    IN  IF remaining < levels[i].quantity THEN remaining ELSE levels[i].quantity

\* the Fill of an order; takes is what it consumed, level by level
Walk(book, order_side, quantity) ==
    LET levels == book[ConsumedSide(order_side)]
        n == Touched(levels, quantity)
    IN  [requested |-> quantity,
         takes |-> [i \in 1 .. n |-> Level(levels[i].price, Taken(levels, quantity, i))],
         bid_at_entry |-> BestPrice(book["bid"]), ask_at_entry |-> BestPrice(book["ask"]),
         crossed_at_entry |-> IsCrossed(book),
         exhausted_book |-> Depth(levels, Len(levels)) < quantity,
         beyond_validated_depth |-> n > ValidatedDepth]

Filled(fill) == Total([i \in DOMAIN fill.takes |-> fill.takes[i].quantity])

Notional(fill) == Total([i \in DOMAIN fill.takes |-> fill.takes[i].price * fill.takes[i].quantity])

WorstPrice(fill) == IF fill.takes = <<>> THEN NoPrice ELSE Last(fill.takes).price

\* fault: execute_market_order leaves the book as simulate_market_order does
Undepleted(book, order_side, fill) == book

\* execute_market_order: each touched level is set to what is left of it
Depleted(book, order_side, fill) ==
    LET side == ConsumedSide(order_side)
        left == [i \in DOMAIN fill.takes |-> Level(fill.takes[i].price,
                     book[side][i].quantity - fill.takes[i].quantity)]
    IN  FoldLeft(LAMBDA b, level : AppliedBook(b, side, level.price, level.quantity), book, left)
------------------------------------------------------------------------------
Weights(schedule) ==
    IF schedule.weights = <<>> THEN [i \in 1 .. schedule.slices |-> 1] ELSE schedule.weights

Share(total, schedule, i) == (total * Weights(schedule)[i]) \div Total(Weights(schedule))

\* fault: every slice takes its own share
OwnShares(total, schedule) == [i \in 1 .. schedule.slices |-> Share(total, schedule, i)]

\* the last slice takes what the others left
SliceQuantities(total, schedule) ==
    [i \in 1 .. schedule.slices |->
        IF i < schedule.slices THEN Share(total, schedule, i)
        ELSE total - Total([j \in 1 .. schedule.slices - 1 |-> Share(total, schedule, j)])]

SliceTime(schedule, i) == schedule.start + (schedule.duration * (i - 1)) \div schedule.slices

\* the arguments that are refused
Refused(initial, total, schedule) ==
    \/ total <= 0 \/ schedule.slices = 0 \/ schedule.duration < 0
    \/ /\ schedule.weights # <<>>
       /\ \/ Len(schedule.weights) # schedule.slices
          \/ Total(schedule.weights) <= 0
          \/ \E i \in DOMAIN schedule.weights : schedule.weights[i] < 0
    \/ initial.applied > 0 /\ initial.last_timestamp > schedule.start

SimInit ==
    /\ sim_phase = "idle"
    /\ order = [updates |-> <<>>] /\ sim = NewReplayer
    /\ cursor = 0 /\ slot = 1 /\ children = <<>> /\ parent = [requested |-> 0]

CallSliced(initial, updates, side, total, schedule) ==
    /\ order' = [updates |-> updates, side |-> side, total |-> total, schedule |-> schedule]
    /\ sim_phase' = IF Refused(initial, total, schedule) THEN "threw" ELSE "running"
    /\ sim' = initial
    /\ cursor' = 0 /\ slot' = 1 /\ children' = <<>>
    /\ parent' = [requested |-> total, filled |-> 0, notional |-> 0, levels_consumed |-> 0,
                  bid_at_entry |-> NoPrice, ask_at_entry |-> NoPrice,
                  crossed_at_entry |-> FALSE, worst_price |-> NoPrice,
                  slices_exhausted |-> 0, slices_beyond_validated_depth |-> 0,
                  slices_crossed |-> 0]

\* fault: what comes before the next slice is seen by this one
DueBeforeNext(row) == row.timestamp <= SliceTime(order.schedule, slot + 1)

Due(row) == row.timestamp <= SliceTime(order.schedule, slot)

InSlot == sim_phase = "running" /\ slot <= order.schedule.slices

HasDue == cursor < Len(order.updates) /\ Due(order.updates[cursor + 1])

SlotSize == SliceQuantities(order.total, order.schedule)[slot]

ApplyDue ==
    /\ InSlot /\ HasDue
    /\ LET row == order.updates[cursor + 1]
       IN  /\ sim' = AfterApply(sim, row)
           /\ sim_phase' = IF ErrorOf(sim, row) = NoError THEN "running" ELSE "threw"
    /\ cursor' = cursor + 1
    /\ UNCHANGED <<order, slot, children, parent>>

SkipSlot ==
    /\ InSlot /\ ~HasDue /\ SlotSize <= 0
    /\ slot' = slot + 1
    /\ UNCHANGED <<order, sim_phase, sim, cursor, children, parent>>

\* the later of two fills decides what is worst only if it is worse
WorseOf(side, price, other) ==
    IF other = NoPrice THEN price
    ELSE IF price = NoPrice \/ IsBetter(ConsumedSide(side), price, other) THEN other ELSE price

WithChild(p, fill, first) ==
    [p EXCEPT
        !.filled = @ + Filled(fill), !.notional = @ + Notional(fill),
        !.levels_consumed = @ + Len(fill.takes),
        !.slices_exhausted = @ + Count(fill.exhausted_book),
        !.slices_beyond_validated_depth = @ + Count(fill.beyond_validated_depth),
        !.slices_crossed = @ + Count(fill.crossed_at_entry),
        !.bid_at_entry = IF first THEN fill.bid_at_entry ELSE @,
        !.ask_at_entry = IF first THEN fill.ask_at_entry ELSE @,
        !.crossed_at_entry = IF first THEN fill.crossed_at_entry ELSE @,
        !.worst_price = WorseOf(order.side, @, WorstPrice(fill))]

ExecuteSlot ==
    /\ InSlot /\ ~HasDue /\ SlotSize > 0
    /\ LET fill == Walk(sim.book, order.side, SlotSize)
       IN  /\ sim' = [sim EXCEPT !.book = Depleted(@, order.side, fill)]
           /\ children' = Append(children, [at |-> SliceTime(order.schedule, slot), fill |-> fill])
           /\ parent' = WithChild(parent, fill, children = <<>>)
    /\ slot' = slot + 1
    /\ UNCHANGED <<order, sim_phase, cursor>>

EndOrder ==
    /\ sim_phase = "running" /\ slot > order.schedule.slices
    /\ sim_phase' = "returned"
    /\ UNCHANGED <<order, sim, cursor, slot, children, parent>>

SimNext == ApplyDue \/ SkipSlot \/ ExecuteSlot \/ EndOrder

Completed(p) == p.slices_exhausted = 0
==============================================================================
