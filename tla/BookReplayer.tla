---------------------------- MODULE BookReplayer -----------------------------
(***************************************************************************)
(* BookReplayer::apply (cpp/src/book_replayer.cpp) as a function of the    *)
(* replayer's state and one row: the error it throws, if any, and the      *)
(* state it leaves behind, thrown out of or not.                           *)
(***************************************************************************)
EXTENDS OrderBook

\* a row of an event file; an infinite or undefined number is any invalid one here
BookUpdate ==
    [timestamp : Int, is_snapshot : BOOLEAN, side : Side, price : Int, quantity : Int]

NewReplayer ==
    [book |-> EmptyBook,
     applied |-> 0, resyncs |-> 0, snapshot_rows |-> 0, removals |-> 0,
     crossed |-> 0, last_timestamp |-> 0,
     started |-> FALSE,
     previous_was_snapshot |-> TRUE]

NoError == "none"

\* a row that opens a new snapshot block: the book starts over
Resyncs(r, row) == row.is_snapshot /\ ~ r.previous_was_snapshot

ErrorOf(r, row) ==
    CASE ~ r.started /\ ~ row.is_snapshot                  -> "no_opening_snapshot"
      [] r.started /\ row.timestamp < r.last_timestamp     -> "backwards"
      [] OTHER -> IF ValidLevel(row.price, row.quantity) THEN NoError
                                                         ELSE "invalid_level"

\* book_.clear() and ++resyncs, before the row itself is looked at
Resynced(r, row) ==
    IF Resyncs(r, row)
    THEN [r EXCEPT !.book = EmptyBook, !.resyncs = @ + 1]
    ELSE r

Count(condition) == IF condition THEN 1 ELSE 0

\* the whole of a successful apply
Applied(r, row) ==
    LET book == AppliedBook(Resynced(r, row).book, row.side, row.price, row.quantity)
    IN  [Resynced(r, row) EXCEPT
            !.book = book,
            !.applied = @ + 1,
            !.snapshot_rows = @ + Count(row.is_snapshot),
            !.removals = @ + Count(row.quantity = 0),
            !.crossed = @ + Count(IsCrossed(book)),
            !.last_timestamp = row.timestamp,
            !.previous_was_snapshot = row.is_snapshot,
            !.started = TRUE]

\* an invalid level is noticed by OrderBook::apply, after the clear
AfterError(r, row) == IF ErrorOf(r, row) = "invalid_level" THEN Resynced(r, row) ELSE r

AfterApply(r, row) ==
    IF ErrorOf(r, row) = NoError THEN Applied(r, row) ELSE AfterError(r, row)
==============================================================================
