---------------------------- MODULE CorpusChecks ----------------------------
(***************************************************************************)
(* The checks of a stored corpus (python/perpcarry/ingestion/              *)
(* validate_data.py) on the datasets a calibration rests on: the trades of *)
(* one symbol, its order book, and the snapshots the book is compared      *)
(* with.  A corpus is a function from partitions, pairs of a dataset and a *)
(* day, to what is stored there; what the check of a column, price or      *)
(* venue looks at is one flag of the partition each.                       *)
(***************************************************************************)
EXTENDS Integers, FiniteSets, SequencesExt, FiniteSetsExt

CONSTANTS Days,          \* days of the corpus, an interval of numbers
          FirstsOfMonth, \* those the free tier has books of
          MaxIdSkip,     \* MAX_ID_SKIP
          Klines         \* volume of each day, from the venue's bars

ASSUME CorpusAssumption ==
    Days \subseteq Nat /\ IsFiniteSet(Days) /\ FirstsOfMonth \subseteq Days /\ MaxIdSkip \in Nat

Datasets == {"trades", "book", "book_snapshot"}
Partitions == Datasets \X Days

\* a partition that is not there
Absent == [rows |-> <<>>, columns |-> FALSE, sane |-> FALSE, venue |-> FALSE, present |-> FALSE]

Dates(corpus, dataset) == {d \in Days : corpus[<<dataset, d>>].present}
Rows(corpus, dataset, day) == corpus[<<dataset, day>>].rows

\* CheckResult: day 0 stands for a whole symbol
Result(check, dataset, day, passed) ==
    [check |-> check, dataset |-> dataset, day |-> day, passed |-> passed, skipped |-> FALSE]

NotRun(check, dataset) ==
    [check |-> check, dataset |-> dataset, day |-> 0, passed |-> TRUE, skipped |-> TRUE]

\* one result for each partition of a dataset
Each(check, corpus, dataset, Passes(_)) ==
    {Result(check, dataset, d, Passes(d)) : d \in Dates(corpus, dataset)}

\* one for each day that offends, or one for the symbol when none does
Offending(check, dataset, days) ==
    IF days = {} THEN {Result(check, dataset, 0, TRUE)}
    ELSE {Result(check, dataset, d, FALSE) : d \in days}

CheckSchema(corpus) ==
    UNION {Each("schema", corpus, s, LAMBDA d : corpus[<<s, d>>].columns) : s \in Datasets}

\* holes between the first day and the last
CheckDateCoverage(corpus) ==
    LET between(days) == {d \in Days : Min(days) <= d /\ d <= Max(days)}
        expected(s) == IF s = "trades" THEN between(Dates(corpus, s))
                       ELSE between(Dates(corpus, s)) \cap FirstsOfMonth
    IN  UNION {Offending("date_coverage", s, expected(s) \ Dates(corpus, s))
                  : s \in {t \in Datasets : Dates(corpus, t) # {}}}

ById(rows) == SortSeq(rows, LAMBDA a, b : a.id < b.id)

\* classify_gaps: a run of missing ids too long for the venue to have skipped
Lost(from, to) == to - from - 1 > MaxIdSkip

LosesWithin(rows) ==
    \E i \in 1 .. Len(rows) - 1 : Lost(ById(rows)[i].id, ById(rows)[i + 1].id)

\* the last day before one that has trades
PreviousDay(corpus, day) ==
    LET earlier == {d \in Dates(corpus, "trades") : d < day /\ Rows(corpus, "trades", d) # <<>>}
    IN  IF earlier = {} THEN 0 ELSE Max(earlier)

LosesBefore(corpus, day) ==
    /\ PreviousDay(corpus, day) # 0
    /\ Lost(Last(ById(Rows(corpus, "trades", PreviousDay(corpus, day)))).id,
            ById(Rows(corpus, "trades", day))[1].id)

CheckTradeIdContinuity(corpus) ==
    LET days == {d \in Dates(corpus, "trades") : Rows(corpus, "trades", d) # <<>>}
    IN  {Result("trade_id_continuity", "trades", d, ~LosesWithin(Rows(corpus, "trades", d)))
            : d \in days}
        \cup {Result("trade_id_continuity", "trades", d, FALSE)
                 : d \in {e \in days : LosesBefore(corpus, e)}}

\* fault: only within a day
NoDuplicatesWithinDays(corpus) ==
    \A d \in Dates(corpus, "trades") :
        \A i, j \in 1 .. Len(Rows(corpus, "trades", d)) :
            Rows(corpus, "trades", d)[i].id = Rows(corpus, "trades", d)[j].id => i = j

\* no id twice, within a day or on two days
NoDuplicates(corpus) ==
    \A d, e \in Dates(corpus, "trades") :
        \A i \in 1 .. Len(Rows(corpus, "trades", d)), j \in 1 .. Len(Rows(corpus, "trades", e)) :
            Rows(corpus, "trades", d)[i].id = Rows(corpus, "trades", e)[j].id => d = e /\ i = j

CheckDuplicateTradeIds(corpus) ==
    IF Dates(corpus, "trades") = {} THEN {}
    ELSE {Result("duplicate_trade_ids", "trades", 0, NoDuplicates(corpus))}

\* trades in the order of their ids, books in that of the file
InOrderOf(dataset, rows) == IF dataset = "trades" THEN ById(rows) ELSE rows

CheckTimestampMonotonic(corpus) ==
    UNION {{Result("timestamp_monotonic", s, d,
                   LET rows == InOrderOf(s, Rows(corpus, s, d))
                   IN  \A i \in 1 .. Len(rows) - 1 : rows[i].time <= rows[i + 1].time)
               : d \in {e \in Dates(corpus, s) : Rows(corpus, s, e) # <<>>}} : s \in Datasets}

Volume(rows) == FoldLeft(LAMBDA sum, row : sum + row.quantity, 0, rows)

\* exactly what the venue's bars say
VolumeAgrees(corpus, d) == Volume(Rows(corpus, "trades", d)) = Klines[d]

CheckVolumeReconciliation(corpus, reconcile) ==
    IF ~reconcile THEN {NotRun("volume_reconciliation", "trades")}
    ELSE {Result("volume_reconciliation", "trades", d, VolumeAgrees(corpus, d))
             : d \in Dates(corpus, "trades")}

Tagged(corpus) ==
    {p \in {"book", "book_snapshot"} \X Days : corpus[p].present /\ corpus[p].rows # <<>>}

CheckSingleVenue(corpus) ==
    {Result("single_venue", p[1], p[2], corpus[p].venue) : p \in Tagged(corpus)}
    \cup {NotRun("single_venue", s) : s \in {"trades"} \cup IF Tagged(corpus) = {} THEN {"book"} ELSE {}}

CheckFinitePositive(corpus) ==
    UNION {Each("finite_positive", corpus, s, LAMBDA d : corpus[<<s, d>>].sane) : s \in Datasets}

\* a thin symbol may have days without a trade
CheckNoEmptyDays(corpus) ==
    UNION {Each("no_empty_days", corpus, s, LAMBDA d : Rows(corpus, s, d) # <<>>)
              : s \in {"book", "book_snapshot"}}

BooksWithRows(corpus) == {d \in Dates(corpus, "book") : Rows(corpus, "book", d) # <<>>}

CheckBookOpensWithSnapshot(corpus) ==
    {Result("book_opens_with_snapshot", "book", d, Rows(corpus, "book", d)[1].is_snapshot)
        : d \in BooksWithRows(corpus)}

CheckBookHasRemovals(corpus) ==
    {Result("book_has_removals", "book", d,
            \E i \in 1 .. Len(Rows(corpus, "book", d)) : Rows(corpus, "book", d)[i].quantity = 0)
        : d \in BooksWithRows(corpus)}

CheckBookReferencePairing(corpus) ==
    Each("book_reference_pairing", corpus, "book", LAMBDA d : d \in FirstsOfMonth)
    \cup {Result("book_reference_pairing", "book_snapshot", d, corpus[<<"book_snapshot", d>>].present)
             : d \in Dates(corpus, "book")}

CheckBookWithinTradesWindow(corpus) ==
    LET trades == Dates(corpus, "trades")
        books == Dates(corpus, "book")
    IN  IF books = {} THEN {}
        ELSE IF trades = {} THEN {Result("book_within_trades_window", "book", 0, FALSE)}
        ELSE Offending("book_within_trades_window", "book",
                       {d \in books : d < Min(trades) \/ d > Max(trades)})

\* validate, with the checks of an inventory; the allowlist only softens the
\* verdict on the whole, and no checksum is asked for
Validate(corpus, reconcile, trades_only) ==
    IF trades_only THEN CheckVolumeReconciliation(corpus, reconcile)
    ELSE UNION {CheckSchema(corpus), {NotRun("archive_checksums", "trades")},
                CheckDateCoverage(corpus), CheckTradeIdContinuity(corpus),
                CheckDuplicateTradeIds(corpus), CheckTimestampMonotonic(corpus),
                CheckVolumeReconciliation(corpus, reconcile), CheckSingleVenue(corpus),
                CheckFinitePositive(corpus), CheckNoEmptyDays(corpus),
                CheckBookOpensWithSnapshot(corpus), CheckBookHasRemovals(corpus),
                CheckBookReferencePairing(corpus), CheckBookWithinTradesWindow(corpus)}
=============================================================================
