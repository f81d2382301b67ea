----------------------------- MODULE ExportBook ------------------------------
(***************************************************************************)
(* A day of an order book on its way through export() (python/perpcarry/   *)
(* tools/export_book.py) to the validator: the stored events are written   *)
(* batch by batch up to a budget of rows, the stored images up to the last *)
(* event written, and replay_validate compares what was written.           *)
(*                                                                         *)
(* The validator may also be given files of another origin; those are both *)
(* what is stored and what it reads.                                       *)
(***************************************************************************)
EXTENDS ReplayValidate

CONSTANTS Days,       \* what may be stored of a day: <<events, images>>
          Budgets,    \* max_events
          BatchSizes  \* batch_size

\* partitions are in the order of their timestamps (timestamp_monotonic, D-014)
InOrder(rows) == \A i \in 1 .. Len(rows) - 1 : rows[i].timestamp <= rows[i + 1].timestamp

\* and count milliseconds since the epoch: -1 stands for a budget_end of None
ASSUME ExportAssumption ==
    /\ \A files \in Days : /\ files[1] \in Seq(BookUpdate) /\ files[2] \in Seq(ReferenceRow)
                            /\ InOrder(files[1]) /\ InOrder(files[2])
                            /\ \A i \in 1 .. Len(files[1]) : files[1][i].timestamp >= 0
    /\ Budgets \subseteq Nat /\ BatchSizes \subseteq Nat \ {0}

VARIABLES day,     \* the stored events
          images,  \* the stored rows of the images not exported yet
          export   \* budget, batch size and locals of a running export

exportVars == <<day, images, export>>
exportedVars == <<validateVars, exportVars>>

NoExport == [budget |-> 0, batch |-> 1, next |-> 1, budget_end |-> -1]

\* a validator that is given files
GivenInit ==
    /\ ValidateInit
    /\ day = events /\ images = <<>> /\ export = NoExport

ExportInit ==
    /\ \E files \in Days : day = files[1] /\ images = files[2]
    /\ \E budget \in Budgets, batch \in BatchSizes :
          export = [budget |-> budget, batch |-> batch, next |-> 1, budget_end |-> -1]
    /\ events = <<>> /\ reference = <<>>
    /\ position = 0 /\ image = NoImage /\ group = 0
    /\ replayer = NewReplayer
    /\ sampling = [open |-> FALSE, midday |-> FALSE, target |-> 0]
    /\ summary = NewSummary
    /\ phase = "exporting_events" /\ judged = <<>>
------------------------------------------------------------------------------
Batch(rows) == SubSeq(rows, export.next, Smaller(export.next + export.batch - 1, Len(rows)))

LastTimestamp(rows) == IF rows = <<>> THEN 0 ELSE Last(rows).timestamp

\* the rows of a batch up to the first that is past a timestamp
UpTo(rows, timestamp) ==
    LET past == SelectInSeq(rows, LAMBDA row : row.timestamp > timestamp)
    IN  IF past = 0 THEN rows ELSE SubSeq(rows, 1, past - 1)

\* fault: the budget is a limit, whatever millisecond it lands in
BudgetCutsAnywhere(rows) ==
    SubSeq(rows, 1, Smaller(Len(rows), export.budget - Len(events)))

\* the millisecond the budget lands in, once it is known
BudgetEnd(rows) ==
    IF export.budget_end # -1 \/ Len(events) + Len(rows) <= export.budget
    THEN export.budget_end
    ELSE IF export.budget > Len(events) THEN rows[export.budget - Len(events)].timestamp
    ELSE LastTimestamp(events)

\* the rows of a batch that are written
Kept(rows) == IF BudgetEnd(rows) = -1 THEN rows ELSE UpTo(rows, BudgetEnd(rows))

ExportEvents ==
    /\ phase = "exporting_events" /\ export.next <= Len(day)
    /\ LET rows == Batch(day)
           kept == Kept(rows)
       IN  /\ events' = events \o kept
           /\ export' = [export EXCEPT !.budget_end = BudgetEnd(rows),
                                       !.next = IF kept = rows THEN @ + export.batch
                                                ELSE Len(day) + 1]
    /\ UNCHANGED <<day, images, position, reference, image, group, replayer, sampling, summary,
                   phase, judged>>

\* an export without an event raises
EndEvents ==
    /\ phase = "exporting_events" /\ export.next > Len(day)
    /\ phase' = IF events = <<>> THEN "no_export" ELSE "exporting_images"
    /\ export' = [export EXCEPT !.next = 1]
    /\ UNCHANGED <<day, images, events, position, reference, image, group, replayer, sampling,
                   summary, judged>>

ExportImages ==
    /\ phase = "exporting_images" /\ export.next <= Len(images)
    /\ LET rows == Batch(images)
           kept == UpTo(rows, LastTimestamp(events))
       IN  /\ reference' = reference \o kept
           /\ export' = [export EXCEPT !.next = IF kept = rows THEN @ + export.batch
                                                ELSE Len(images) + 1]
    /\ UNCHANGED <<day, images, events, position, image, group, replayer, sampling, summary, phase,
                   judged>>

EndImages ==
    /\ phase = "exporting_images" /\ export.next > Len(images)
    /\ phase' = "reading"
    /\ images' = <<>> /\ export' = NoExport
    /\ UNCHANGED <<day, events, position, reference, image, group, replayer, sampling, summary,
                   judged>>

ExportNext ==
    \/ ExportEvents \/ EndEvents \/ ExportImages \/ EndImages
    \/ ValidateNext /\ UNCHANGED exportVars

ExportSpec == (GivenInit \/ ExportInit) /\ [][ExportNext]_exportedVars
------------------------------------------------------------------------------
\* a replay of rows from nothing
Replay(rows) == FoldLeft(LAMBDA r, row : Applied(r, row), NewReplayer, rows)

\* the book after the stored rows at or before an instant
BookAt(timestamp) ==
    Replay(RowsAt(day, {i \in 1 .. Len(day) : day[i].timestamp <= timestamp})).book

Top(levels) == SubSeq(levels, 1, Smaller(Depth, Len(levels)))

Matches(i) ==
    \A side \in Side : Top(BookAt(i.timestamp)[side]) = Top(i.book[side])

EventsAt(timestamp) == {i \in 1 .. Len(day) : day[i].timestamp = timestamp}

(* The verdict is the one a replay of the whole day from nothing would     *)
(* give for every image that was compared: an export that stops at its     *)
(* budget never makes a mismatch or hides one, and the streaming neither   *)
(* looks ahead of an image nor drops a row before it, whatever the order   *)
(* and the spacing of the two files; a side thinner or deeper than the     *)
(* image is a mismatch (export, "must not cut in the middle of a           *)
(* millisecond"; validate, "the replay cannot look ahead"; compare_side).  *)
VerdictIsThatOfAFreshReplay ==
    phase = "done" /\ judged # <<>> =>
        (Verdict(summary) = "pass" <=>
            \A i \in 1 .. Len(judged) : Matches(judged[i].image))

(* An image is compared exactly when an event shares its millisecond and   *)
(* was replayed for it, and counts as forced exactly when that event is    *)
(* the only one: the two sets the report keeps apart, with the orphans,    *)
(* partition the images (ValidationSummary).                               *)
PairingIsSound ==
    phase = "done" =>
        /\ \A i \in 1 .. Len(judged) :
              /\ judged[i].group = Cardinality(EventsAt(judged[i].image.timestamp))
              /\ judged[i].at = Cardinality({e \in 1 .. Len(day) :
                                    day[e].timestamp <= judged[i].image.timestamp})
        /\ summary.unambiguous_images =
              Cardinality({i \in 1 .. Len(judged) : judged[i].group = 1})
        /\ summary.ambiguous_images =
              Cardinality({i \in 1 .. Len(judged) : judged[i].group > 1})
        /\ summary.images = Len(judged) + summary.orphan_images

\* the first mismatches of either kind of pairing
MismatchTimes(forced) ==
    LET wrong == {i \in 1 .. Len(judged) : /\ (judged[i].group = 1) <=> forced
                                           /\ ~ Matches(judged[i].image)}
    IN  [k \in 1 .. Smaller(MaxSamples, Cardinality(wrong)) |->
            judged[Nth(wrong, k)].image.timestamp]

(* What a run shows is the truth about it.  A failing run points at its    *)
(* first mismatches of either kind of pairing, in order, and levels are    *)
(* reported as different exactly when a forced pairing differs; a passing  *)
(* run shows samples of images that were compared, at most three, and a    *)
(* run that does not pass claims none (ValidationSummary, "bury the first  *)
(* - which is the informative one"; sample_clean_timestamps).              *)
SamplesTellTheTruth ==
    phase = "done" =>
        LET samples == summary.sample_clean_timestamps
            times == {judged[i].image.timestamp : i \in 1 .. Len(judged)}
        IN  /\ summary.sample_mismatch_timestamps = MismatchTimes(TRUE)
            /\ summary.sample_ambiguous_timestamps = MismatchTimes(FALSE)
            /\ (\A kind \in DiffKind : summary.differences[kind] = 0)
                  <=> summary.unambiguous_mismatches = 0
            /\ Len(samples) <= 3 /\ Range(samples) \subseteq times
            /\ Verdict(summary) = "pass" /\ judged # <<>> => samples # <<>>
            /\ Verdict(summary) # "pass" => samples = <<>>
==============================================================================
