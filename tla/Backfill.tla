------------------------------ MODULE Backfill -------------------------------
(***************************************************************************)
(* backfill() of order books (ingestion/fetch_book.py) and of trades       *)
(* (ingestion/fetch_trades.py): archive after archive is fetched, checked  *)
(* and written to its partition.  The process may be killed at any step    *)
(* and started again over what the disk holds.                             *)
(*                                                                         *)
(* The remote of a url is "missing", "good", "bad" (a structural check     *)
(* fails somewhere in it), "empty" (no rows) or, for trades, "gapped" (its *)
(* ids do not go on where those of the period before ended).  A month of   *)
(* trades is one partition here, and has rows.                             *)
(***************************************************************************)
EXTENDS Download

CONSTANTS Remotes,    \* functions from Urls: what a vendor may have
          Kinds,      \* subset of {"book", "trades"}
          Periods,    \* how many days or months start .. end has
          Datasets,   \* how many datasets a day of books has
          MaxRuns,    \* bound: how often backfill is started
          MaxKills    \* bound: how often the process is killed

ASSUME BackfillAssumption ==
    /\ Periods \in Nat \ {0} /\ Datasets \in Nat \ {0}
    /\ Urls = (1 .. Periods) \X (1 .. Datasets)
    /\ \A r \in Remotes : r \in [Urls -> {"missing", "good", "bad", "empty", "gapped"}]
    /\ Kinds \subseteq {"book", "trades"}

VARIABLES kind,          \* which of the two is run
          allow_missing,
          partition,     \* what each partition holds, [rows, closed]
          ingested,      \* chunks of the archive ingested so far
          fetched_day,   \* fetch_day's own list of reports
          reports, skipped,
          joins,         \* previous_last_id is not None
          runs, kills,
          abandoned      \* history: partitions whose clean-up was killed

backfillVars == <<fetchVars, kind, allow_missing, partition, ingested, fetched_day, reports,
                  skipped, joins, runs, kills, abandoned>>

runVars == <<kind, allow_missing, runs, kills>>
diskVars == <<partition, ingested, abandoned>>
resultVars == <<fetched_day, reports, skipped, joins>>

Ended == {"idle", "returned", "raised", "killed"}

DatasetsOf == IF kind = "book" THEN Datasets ELSE 1

\* only the book's vendor publishes no digest
Fetching == IF kind = "book" THEN "look" ELSE "checksum"

BackfillInit ==
    /\ remote \in Remotes
    /\ DownloadInit
    /\ pc = "idle" /\ url = <<1, 1>>
    /\ kind \in Kinds
    /\ kind = "trades" => \A u \in Urls : remote[u] # "empty"
    /\ allow_missing = FALSE
    /\ partition = [u \in Urls |-> NoFile]
    /\ ingested = 0
    /\ fetched_day = {} /\ reports = {} /\ skipped = {}
    /\ joins = FALSE
    /\ runs = 0 /\ kills = 0 /\ abandoned = {}

\* backfill is called: by a new process, over the disk as it is
Start ==
    /\ pc \in Ended /\ runs < MaxRuns
    /\ runs' = runs + 1
    /\ allow_missing' \in BOOLEAN
    /\ url' = <<1, 1>> /\ pc' = Fetching
    /\ expected' = FALSE
    /\ fetched_day' = {} /\ reports' = {} /\ skipped' = {} /\ joins' = FALSE
    /\ UNCHANGED <<remote, cached, part, attempt, streamed, kind, kills, diskVars>>

\* on with the first archive of the period after p, if there is one
NextPeriod(p) ==
    /\ expected' = FALSE
    /\ IF p < Periods THEN url' = <<p + 1, 1>> /\ pc' = Fetching
                      ELSE url' = url /\ pc' = "returned"

\* this archive is stored: on to the next dataset of the day, or the next period
Stored ==
    LET stored == fetched_day \cup {url}
    IN  IF url[2] < DatasetsOf
        THEN /\ url' = [url EXCEPT ![2] = @ + 1] /\ pc' = Fetching
             /\ expected' = FALSE
             /\ fetched_day' = stored /\ UNCHANGED reports
        ELSE /\ NextPeriod(url[1])
             /\ fetched_day' = {} /\ reports' = reports \cup stored
------------------------------------------------------------------------------
\* except DownloadError: but a 401 for a book is a FreeTierError, which is none
Skippable == allow_missing /\ pc \in Refused /\ ~(kind = "book" /\ pc = "unauthorized")

\* fault: the reports of the day's datasets before the one that failed are kept
SkipKeepsReports ==
    /\ Skippable
    /\ skipped' = skipped \cup {url[1]}
    /\ reports' = reports \cup fetched_day /\ fetched_day' = {}
    /\ joins' = FALSE
    /\ NextPeriod(url[1])
    /\ UNCHANGED <<remote, cached, part, attempt, streamed, runVars, diskVars>>

Skip ==
    /\ Skippable
    /\ skipped' = skipped \cup {url[1]}
    /\ fetched_day' = {} /\ UNCHANGED reports
    /\ joins' = FALSE
    /\ NextPeriod(url[1])
    /\ UNCHANGED <<remote, cached, part, attempt, streamed, runVars, diskVars>>

Raise ==
    /\ pc \in Refused /\ ~Skippable
    /\ pc' = "raised"
    /\ UNCHANGED <<remote, cached, part, url, expected, attempt, streamed, runVars, diskVars,
                   resultVars>>
------------------------------------------------------------------------------
Unchanged == UNCHANGED <<remote, cached, part, url, expected, attempt, streamed, runVars>>

\* ingest removes the old partition and makes its directory
ReplacePartition ==
    /\ kind = "book" /\ pc = "fetched"
    /\ partition' = [partition EXCEPT ![url] = NoFile]
    /\ abandoned' = abandoned \ {url}
    /\ ingested' = 0
    /\ pc' = "ingest"
    /\ UNCHANGED resultVars /\ Unchanged

\* a chunk that passes its checks is a row group; the first one opens the writer
IngestChunk ==
    /\ pc = "ingest" /\ ingested < Len(cached[url])
    /\ remote[url] # "empty"
    /\ remote[url] = "bad" => ingested + 1 < Size
    /\ ingested' = ingested + 1
    /\ partition' = [partition EXCEPT ![url] =
          [rows |-> Append(IF ingested = 0 THEN <<>> ELSE @.rows, cached[url][ingested + 1]),
           closed |-> FALSE]]
    /\ UNCHANGED <<pc, abandoned, resultVars>> /\ Unchanged

\* except BaseException: the writer, if there is one, is closed before all is removed
IngestFails ==
    /\ partition' = [partition EXCEPT ![url] =
          IF @ = NoFile THEN NoFile ELSE [@ EXCEPT !.closed = TRUE]]
    /\ pc' = "discard"
    /\ UNCHANGED <<ingested, abandoned, resultVars>> /\ Unchanged

\* BookDataError: normalise, normalise_snapshot, or no snapshot at the start
ChunkRefused == pc = "ingest" /\ remote[url] = "bad" /\ IngestFails

IngestInterrupted == pc = "ingest" /\ IngestFails

\* EOFError: the archive ends before its gzip trailer
InflationEnds ==
    pc = "ingest" /\ ingested = Len(cached[url]) /\ cached[url] # Whole /\ IngestFails

\* nothing but an error has come of it: the directory goes
Discard ==
    /\ pc = "discard"
    /\ partition' = [partition EXCEPT ![url] = NoFile]
    /\ pc' = "raised"
    /\ UNCHANGED <<ingested, abandoned, resultVars>> /\ Unchanged

\* an archive without rows has opened no writer
EmptyRefused ==
    /\ pc = "ingest" /\ remote[url] = "empty" /\ cached[url] = Whole
    /\ partition' = [partition EXCEPT ![url] = NoFile]
    /\ pc' = "raised"
    /\ UNCHANGED <<ingested, abandoned, resultVars>> /\ Unchanged

\* fault: an archive that is too short ends like any other
IngestEndsShort ==
    /\ pc = "ingest" /\ ingested = Len(cached[url]) /\ ingested > 0
    /\ partition' = [partition EXCEPT ![url].closed = TRUE]
    /\ Stored
    /\ UNCHANGED <<ingested, abandoned, skipped, joins>>
    /\ UNCHANGED <<remote, cached, part, attempt, streamed, runVars>>

IngestEnds ==
    /\ pc = "ingest" /\ ingested = Size
    /\ partition' = [partition EXCEPT ![url].closed = TRUE]
    /\ Stored
    /\ UNCHANGED <<ingested, abandoned, skipped, joins>>
    /\ UNCHANGED <<remote, cached, part, attempt, streamed, runVars>>
------------------------------------------------------------------------------
\* a zip that is cut short does not open
Readable == cached[url] = Whole

\* TradeDataError: rows, id gaps, duplicates, stray dates, or the join with the last period
PeriodAccepted == remote[url] # "bad" /\ (joins => remote[url] # "gapped")

TradesRefused ==
    /\ kind = "trades" /\ pc = "fetched"
    /\ ~Readable \/ ~PeriodAccepted
    /\ pc' = "raised"
    /\ UNCHANGED <<diskVars, resultVars>> /\ Unchanged

\* store: delete_matching, and a file that has no footer yet
StoreBegins ==
    /\ kind = "trades" /\ pc = "fetched"
    /\ Readable /\ PeriodAccepted
    /\ partition' = [partition EXCEPT ![url] = [rows |-> <<>>, closed |-> FALSE]]
    /\ joins' = TRUE
    /\ pc' = "store"
    /\ UNCHANGED <<ingested, abandoned, fetched_day, reports, skipped>> /\ Unchanged

StoreEnds ==
    /\ pc = "store"
    /\ partition' = [partition EXCEPT ![url] = [rows |-> cached[url], closed |-> TRUE]]
    /\ Stored
    /\ UNCHANGED <<ingested, abandoned, skipped, joins>>
    /\ UNCHANGED <<remote, cached, part, attempt, streamed, runVars>>
------------------------------------------------------------------------------
\* the process is killed: only the disk is left
Kill ==
    /\ pc \notin Ended /\ kills < MaxKills
    /\ kills' = kills + 1
    /\ pc' = "killed"
    /\ abandoned' = IF pc = "discard" THEN abandoned \cup {url} ELSE abandoned
    /\ UNCHANGED <<remote, cached, part, url, expected, attempt, streamed, kind, allow_missing,
                   runs, partition, ingested, resultVars>>

BackfillNext ==
    \/ Start \/ Skip \/ Raise \/ Kill
    \/ DownloadNext /\ UNCHANGED <<runVars, diskVars, resultVars>>
    \/ ReplacePartition \/ IngestChunk \/ ChunkRefused \/ IngestInterrupted \/ InflationEnds
    \/ Discard \/ EmptyRefused \/ IngestEnds
    \/ TradesRefused \/ StoreBegins \/ StoreEnds

BackfillSpec == BackfillInit /\ [][BackfillNext]_backfillVars
------------------------------------------------------------------------------
IsWhole(u) == partition[u] = [rows |-> Whole, closed |-> TRUE]

(* A partition that can be read is the whole archive, whatever was cut     *)
(* short, refused, interrupted or killed, and however often it was         *)
(* ingested before: "a half-written partition looks like a thin day"       *)
(* (ingest).  The one exception is a process that is killed between        *)
(* closing the file of a failed ingest and removing it; the next ingest    *)
(* of that day ends it.                                                    *)
NoThinDays ==
    \A u \in Urls : partition[u] # NoFile /\ partition[u].closed =>
        IsWhole(u) \/ u \in abandoned \/ (pc = "discard" /\ url = u)

(* A backfill that returns has accounted for every period: it is reported  *)
(* whole, with all its datasets, or skipped, never both, and skipped only  *)
(* when that was allowed.  What is reported is on the disk, and its trades *)
(* join those of the period before unless that one was skipped (backfill,  *)
(* fetch_day).                                                             *)
BackfillAccountsForEveryPeriod ==
    /\ skipped # {} => allow_missing
    /\ \A u \in reports : IsWhole(u) /\ u[1] \notin skipped
    /\ pc = "returned" =>
          \A p \in (1 .. Periods) \ skipped : \A d \in 1 .. DatasetsOf : <<p, d>> \in reports
    /\ kind = "trades" =>
          \A u \in reports : remote[u] = "gapped" => u[1] = 1 \/ u[1] - 1 \in skipped

(* A period is skipped because the vendor has no data for it: "skip days   *)
(* with no data (e.g. before the symbol was listed)" (fetch_book.py, help  *)
(* of --allow-missing).                                                    *)
SkippedPeriodsHaveNoData ==
    \A p \in skipped : \E d \in 1 .. DatasetsOf : remote[<<p, d>>] = "missing"
==============================================================================
