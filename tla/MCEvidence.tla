----------------------------- MODULE MCEvidence -----------------------------
EXTENDS Evidence

T(id, quantity) == [id |-> id, time |-> id, quantity |-> quantity]
MCVenueTrades == [d \in 1 .. 2 |-> IF d = 1 THEN <<T(1, 2), T(2, 1), T(3, 1)>>
                                   ELSE <<T(4, 1), T(6, 2)>>]
MCKlines == [d \in 1 .. 2 |-> IF d = 1 THEN 4 ELSE 3]

Part(rows) == [rows |-> rows, columns |-> TRUE, sane |-> TRUE, venue |-> TRUE, present |-> TRUE]
Trades(rows) == Part(rows) @@ [image |-> 0]
B(is_snapshot, quantity) == [time |-> 1, is_snapshot |-> is_snapshot, quantity |-> quantity]
Book(image) == Part(<<B(TRUE, 1), B(FALSE, 0)>>) @@ [image |-> image]
Snapshots(image) == Part(<<B(TRUE, 1)>>) @@ [image |-> image]

Good(p) == IF p[1] = "trades" THEN Trades(MCVenueTrades[p[2]])
           ELSE IF p[1] = "book" THEN Book(1) ELSE Snapshots(1)

\* the second has a trade twice, the third one of the next day, instead of the last
Stored1 == {Trades(MCVenueTrades[1]), Trades(<<T(1, 2), T(2, 1), T(2, 1)>>),
            Trades(<<T(1, 2), T(2, 1), T(4, 1)>>)}
Stored2 == {Trades(MCVenueTrades[2]), Trades(<<T(6, 2)>>)}
MCContents ==
    (<<"trades", 1>> :> Stored1) @@ (<<"trades", 2>> :> Stored2)
    @@ (<<"book", 2>> :> {Book(1), Book(2)}) @@ (<<"book_snapshot", 2>> :> {Snapshots(1)})

MCInitial ==
    {[p \in Partitions |-> IF p \notin DOMAIN MCContents THEN Absent @@ [image |-> 0]
                           ELSE IF p = <<"trades", 1>> THEN first ELSE Good(p)]
        : first \in Stored1}

Options(names) ==
    [reconcile |-> "reconcile" \in names, trades_only |-> "trades_only" \in names,
     reuse |-> "reuse" \in names]
\* any one of them, or two
MCOverlaps == {tools \in SUBSET {"replay", "inventory", "generator", "loader"} :
                  Cardinality(tools) \in {1, 2}}

MCOptions == {Options({"reconcile"}), Options({"reconcile", "trades_only"}), Options({"reuse"})}
=============================================================================
