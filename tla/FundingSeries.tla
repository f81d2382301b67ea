--------------------------- MODULE FundingSeries ---------------------------
(***************************************************************************)
(* Funding settlements from the venue's archive to a study: the backfill   *)
(* of months (python/perpcarry/ingestion/fetch_funding.py) and the load of *)
(* a window of days (ingestion/funding_series.py), which may run at the    *)
(* same time.  A row says when it was settled and the interval, in hours,  *)
(* that ended then; of its rate only whether it is sane.                   *)
(*                                                                         *)
(* Days and months are counted from 0, and a day has DayHours hours.       *)
(***************************************************************************)
EXTENDS Integers, FiniteSets, SequencesExt, Selections

CONSTANTS Hour,         \* milliseconds of an hour
          Tolerance,    \* TOLERANCE_MS, and JITTER_MS of the model
          DayHours,
          MonthDays,    \* days of a month
          Months,       \* months the backfill is asked for
          Truths,       \* what the venue may have settled: sequences of rows
          Windows,      \* what may be loaded: <<first day, day after the last>>
          MaxBackfills, \* bound: how often the backfill is run
          AllowMissing, \* --allow-missing
          Stale         \* a row of another month that an archive may hold

ASSUME FundingSeriesAssumption ==
    /\ {Hour, DayHours, MonthDays, Months} \subseteq Nat \ {0}
    /\ Tolerance \in Nat /\ 2 * Tolerance < Hour
    /\ Windows \subseteq {w \in (0 .. Months * MonthDays) \X (0 .. Months * MonthDays) : w[1] < w[2]}
    /\ AllowMissing \in BOOLEAN /\ MaxBackfills \in Nat

\* the venue settles on the hour or a little later, and the interval of a row
\* is the hours since the settlement before it
ASSUME VenueAssumption ==
    /\ \A rows \in Truths :
          /\ rows \in Seq([time : Nat, hours : Nat \ {0}, sane : {TRUE}])
          /\ \A i \in 1 .. Len(rows) : rows[i].time % Hour <= Tolerance
          /\ \A i \in 1 .. Len(rows) - 1 :
                rows[i + 1].time \div Hour = rows[i].time \div Hour + rows[i + 1].hours
    /\ Stale.time \in Int \ (0 .. Months * MonthDays * DayHours * Hour - 1)

VARIABLES truth,
          stored,    \* the partition of each day: its version and its rows
          backfills, \* runs of the backfill so far, also the version a run stores
          month,     \* the month a run is at; Months when none is running
          frame,     \* the rows of that month still to be stored
          window,
          load_pc, load_day,
          before,    \* the partition whose fingerprint was taken
          series,    \* the rows read
          evidence   \* the partitions read, by day

fetchVars == <<stored, backfills, month, frame>>
loadVars == <<load_pc, load_day, before, series, evidence>>
fundingVars == <<truth, window, fetchVars, loadVars>>

Day == DayHours * Hour
Days == 0 .. Months * MonthDays - 1
DateOf(row) == row.time \div Day
OfDay(rows, day) == RowsAt(rows, {i \in 1 .. Len(rows) : DateOf(rows[i]) = day})
MonthStart(m) == m * MonthDays * Day

NoPartition == [version |-> 0, rows |-> <<>>]

FundingInit ==
    /\ truth \in Truths /\ window \in Windows
    /\ stored = [d \in Days |-> NoPartition]
    /\ backfills = 0 /\ month = Months /\ frame = <<>>
    /\ load_pc = "next_day" /\ load_day = window[1]
    /\ before = NoPartition /\ series = <<>> /\ evidence = <<>>
------------------------------------------------------------------------------
Settled(m) ==
    RowsAt(truth, {i \in 1 .. Len(truth) : truth[i].time \in MonthStart(m) .. MonthStart(m + 1) - 1})

Insane(row) == [row EXCEPT !.sane = FALSE]

\* what normalise makes of the archive of a month: it may have lost rows or
\* its end, hold a row twice, a wrong rate or a row of another month
Archives(m) ==
    LET rows == Settled(m)
        at == 1 .. Len(rows)
    IN  {rows, <<Stale>> \o rows}
        \cup {RemoveAt(rows, i) : i \in at} \cup {SubSeq(rows, 1, i - 1) : i \in at}
        \cup {InsertAt(rows, i, rows[i]) : i \in at}
        \cup {ReplaceAt(rows, i, Insane(rows[i])) : i \in at}

\* each step is measured against the interval of its later row
SettlementGaps(rows) ==
    {i \in 1 .. Len(rows) - 1 :
        rows[i + 1].time - rows[i].time > rows[i + 1].hours * Hour + Tolerance}

Intervals(rows) == {rows[i].hours : i \in 1 .. Len(rows)}

PartialStart(rows, m) == rows[1].time - rows[1].hours * Hour > MonthStart(m) + Tolerance

ExpectedSettlements(hours) == (MonthDays * DayHours) \div hours

Sane(rows) == \A i \in 1 .. Len(rows) : rows[i].sane

CheckMonth(rows, m) ==
    /\ rows # <<>>
    /\ \A i \in 1 .. Len(rows) : rows[i].time \in MonthStart(m) .. MonthStart(m + 1) - 1
    /\ SettlementGaps(rows) = {}
    /\ Sane(rows)
    /\ Last(rows).time + Last(rows).hours * Hour >= MonthStart(m + 1) - Tolerance
    /\ Cardinality(Intervals(rows)) = 1 /\ ~PartialStart(rows, m)
          => Len(rows) = ExpectedSettlements(rows[1].hours)

LoadPending == load_pc \in {"next_day", "read", "confirm", "admit"}

StartBackfill ==
    /\ LoadPending /\ month = Months /\ backfills < MaxBackfills
    /\ backfills' = backfills + 1 /\ month' = 0 /\ frame' = <<>>
    /\ UNCHANGED <<truth, window, stored, loadVars>>

\* a month that fails its check ends the run; the months before it are stored
FetchMonth ==
    /\ LoadPending /\ month < Months /\ frame = <<>>
    /\ \E rows \in Archives(month) :
          IF CheckMonth(rows, month) THEN frame' = rows /\ UNCHANGED month
          ELSE month' = Months /\ UNCHANGED frame
    /\ UNCHANGED <<truth, window, stored, backfills, loadVars>>

NoArchive ==
    /\ LoadPending /\ month < Months /\ frame = <<>>
    /\ month' = IF AllowMissing THEN month + 1 ELSE Months
    /\ UNCHANGED <<truth, window, stored, backfills, frame, loadVars>>

DaysToStore == {DateOf(frame[i]) : i \in 1 .. Len(frame)}

\* write_parquet deletes the matching partition first
ClearDay ==
    /\ LoadPending
    /\ \E d \in DaysToStore :
          /\ stored[d] # NoPartition
          /\ stored' = [stored EXCEPT ![d] = NoPartition]
    /\ UNCHANGED <<truth, window, backfills, month, frame, loadVars>>

StoreDay ==
    /\ LoadPending
    /\ \E d \in DaysToStore :
          /\ stored[d] = NoPartition
          /\ stored' = [stored EXCEPT ![d] = [version |-> backfills, rows |-> OfDay(frame, d)]]
          /\ frame' = RowsAt(frame, {i \in 1 .. Len(frame) : DateOf(frame[i]) # d})
    /\ month' = IF frame' = <<>> THEN month + 1 ELSE month
    /\ UNCHANGED <<truth, window, backfills, loadVars>>

BackfillKilled ==
    /\ LoadPending /\ month < Months
    /\ month' = Months /\ frame' = <<>>
    /\ UNCHANGED <<truth, window, stored, backfills, loadVars>>
------------------------------------------------------------------------------
Raise(pc) == load_pc' = pc /\ UNCHANGED <<load_day, before, series, evidence>>

\* the fingerprint of a day; none is an error
FingerprintDay ==
    /\ load_pc = "next_day" /\ load_day < window[2]
    /\ IF stored[load_day] = NoPartition THEN Raise("raised")
       ELSE /\ before' = stored[load_day] /\ load_pc' = "read"
            /\ UNCHANGED <<load_day, series, evidence>>
    /\ UNCHANGED <<truth, window, fetchVars>>

ReadDay ==
    /\ load_pc = "read"
    /\ IF stored[load_day] = NoPartition THEN Raise("raised")
       ELSE /\ series' = series \o stored[load_day].rows
            /\ evidence' = Append(evidence, before)
            /\ load_pc' = "confirm" /\ UNCHANGED <<load_day, before>>
    /\ UNCHANGED <<truth, window, fetchVars>>

ConfirmDay ==
    /\ load_pc = "confirm"
    /\ IF stored[load_day] # before THEN Raise("raised")
       ELSE /\ load_day' = load_day + 1 /\ load_pc' = "next_day"
            /\ UNCHANGED <<before, series, evidence>>
    /\ UNCHANGED <<truth, window, fetchVars>>

WindowStart == window[1] * Day
WindowStop == window[2] * Day
AbsoluteValue(n) == IF n < 0 THEN -n ELSE n
Regular(step, hours) == AbsoluteValue(step - hours * Hour) <= Tolerance

\* fault: as in the backfill, a step is only too long
ValidatedLikeTheBackfill ==
    /\ series # <<>> /\ Sane(series)
    /\ SettlementGaps(series) = {}
    /\ series[1].time - WindowStart <= Tolerance
    /\ Regular(WindowStop - Last(series).time, Last(series).hours)

\* fault: the beginning of the window is not looked at
ValidatedWithoutStart ==
    /\ series # <<>> /\ Sane(series)
    /\ \A i \in 1 .. Len(series) - 1 :
          /\ series[i + 1].time > series[i].time
          /\ Regular(series[i + 1].time - series[i].time, series[i + 1].hours)
    /\ Regular(WindowStop - Last(series).time, Last(series).hours)
    /\ {DateOf(series[i]) : i \in 1 .. Len(series)} = window[1] .. window[2] - 1

\* validate
Validated ==
    /\ series # <<>> /\ Sane(series)
    /\ \A i \in 1 .. Len(series) : series[i].time \in WindowStart .. WindowStop - 1
    /\ \A i \in 1 .. Len(series) - 1 :
          /\ series[i + 1].time > series[i].time
          /\ Regular(series[i + 1].time - series[i].time, series[i + 1].hours)
    /\ series[1].time - WindowStart <= Tolerance
    /\ Regular(WindowStop - Last(series).time, Last(series).hours)
    /\ {DateOf(series[i]) : i \in 1 .. Len(series)} = window[1] .. window[2] - 1

\* fault: days read earlier are not looked at again
StillEvidenceOfTheLastDay == stored[window[2] - 1] = Last(evidence)

\* the whole selection is fingerprinted again
StillEvidence == \A i \in 1 .. Len(evidence) : stored[window[1] + i - 1] = evidence[i]

Admit ==
    /\ load_pc = "next_day" /\ load_day = window[2]
    /\ load_pc' = IF Validated /\ StillEvidence THEN "admitted" ELSE "raised"
    /\ UNCHANGED <<truth, window, fetchVars, load_day, before, series, evidence>>

FundingNext ==
    \/ StartBackfill \/ FetchMonth \/ NoArchive \/ ClearDay \/ StoreDay \/ BackfillKilled
    \/ FingerprintDay \/ ReadDay \/ ConfirmDay \/ Admit
------------------------------------------------------------------------------
InWindow ==
    RowsAt(truth, {i \in 1 .. Len(truth) : truth[i].time \in WindowStart .. WindowStop - 1})

(* A window that is admitted has every settlement of the venue, whatever   *)
(* its archives lost, doubled or misplaced, however often and how far the  *)
(* backfill ran, and although the check of a month lets losses pass: only  *)
(* at the very end may rows be missing, when they settled at shorter       *)
(* intervals a last one that reaches to the end (check_month, validate).   *)
AdmittedSeriesIsWhole ==
    load_pc = "admitted" =>
        /\ IsPrefix(series, InWindow)
        /\ \A i \in Len(series) + 1 .. Len(InWindow) : InWindow[i].hours < Last(series).hours

(* What is admitted is what the partitions held together at that moment,   *)
(* although they are read one by one while backfills replace them (load).  *)
SeriesIsOneStoredState ==
    [][load_pc' = "admitted" =>
          series = FlattenSeq([i \in 1 .. window[2] - window[1] |->
                                  stored[window[1] + i - 1].rows])]_fundingVars
=============================================================================
