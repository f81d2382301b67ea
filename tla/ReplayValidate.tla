--------------------------- MODULE ReplayValidate ----------------------------
(***************************************************************************)
(* validate() (cpp/tools/replay_validate.cpp): replay the events of a day  *)
(* and compare the book with every reference image of that day, streaming  *)
(* both files and holding neither.                                         *)
(*                                                                         *)
(* A file is the sequence of its rows.  Reading one is a step of the       *)
(* stream position; text, parsing and rendering are left out, and so is a  *)
(* run without a diagnostics stream (the tool always passes one).          *)
(***************************************************************************)
EXTENDS BookReplayer, BookCompare, Selections

CONSTANTS Inputs,          \* the files a run may be given: <<events, reference>>
          Depth,           \* options.depth
          MaxSamples,      \* options.max_sample_mismatches
          DayLength        \* kMsPerDay

\* a row of a reference file
ReferenceRow ==
    [timestamp : Int, side : Side, level : Int, price : Int, quantity : Int]

ASSUME ValidateAssumption ==
    /\ \A files \in Inputs : files[1] \in Seq(BookUpdate) /\ files[2] \in Seq(ReferenceRow)
    /\ Depth \in Nat \ {0} /\ MaxSamples \in Nat
    /\ DayLength \in Nat \ {0}

VARIABLES events,      \* the event file
          position,    \* how many of its rows have been applied
          reference,   \* the rows of the reference file not read yet
          image,       \* the image in hand
          group,       \* how many events share its millisecond
          replayer,
          sampling,    \* the wall-clock rule of the clean samples
          summary,
          phase,
          judged       \* history: the images that were compared, with the verdict on each

validateVars == <<events, position, reference, image, group, replayer, sampling,
                  summary, phase, judged>>

NewSummary ==
    [images |-> 0, reference_rows |-> 0,
     unambiguous_images |-> 0, ambiguous_images |-> 0, orphan_images |-> 0,
     unambiguous_mismatches |-> 0, ambiguous_mismatches |-> 0,
     differences |-> [kind \in DiffKind |-> 0],
     sample_mismatch_timestamps |-> <<>>, sample_ambiguous_timestamps |-> <<>>,
     sample_clean_timestamps |-> <<>>]

NoImage == [timestamp |-> 0, book |-> EmptyBook]

ValidateInit ==
    /\ \E files \in Inputs : events = files[1] /\ reference = files[2]
    /\ position = 0
    /\ image = NoImage /\ group = 0
    /\ replayer = NewReplayer
    /\ sampling = [open |-> FALSE, midday |-> FALSE, target |-> 0]
    /\ summary = NewSummary
    /\ phase = "reading"
    /\ judged = <<>>

\* the rows at the front of the reference that share a timestamp: one image
ImageRows ==
    LET next == SelectInSeq(reference,
                            LAMBDA row : row.timestamp # reference[1].timestamp)
    IN  IF next = 0 THEN reference ELSE SubSeq(reference, 1, next - 1)

RowsOf(side) == RowsAt(ImageRows, {i \in 1 .. Len(ImageRows) : ImageRows[i].side = side})

\* levels arrive best first, without a hole
Contiguous ==
    \A side \in Side : \A i \in 1 .. Len(RowsOf(side)) : RowsOf(side)[i].level = i - 1

\* ReferenceStream::next
ReadImage ==
    /\ phase = "reading" /\ reference # <<>>
    /\ Contiguous
    /\ image' = [timestamp |-> reference[1].timestamp,
                 book |-> [side \in Side |->
                             [i \in 1 .. Len(RowsOf(side)) |->
                                Level(RowsOf(side)[i].price, RowsOf(side)[i].quantity)]]]
    /\ reference' = SubSeq(reference, Len(ImageRows) + 1, Len(reference))
    /\ group' = 0
    /\ summary' = [summary EXCEPT !.images = @ + 1,
                                  !.reference_rows = @ + Len(ImageRows)]
    /\ phase' = "catching_up"
    /\ UNCHANGED <<events, position, replayer, sampling, judged>>

\* a row out of place: validate() throws, and there is no summary
ReadFails ==
    /\ phase = "reading" /\ reference # <<>>
    /\ ~ Contiguous
    /\ phase' = "malformed"
    /\ UNCHANGED <<events, position, reference, image, group, replayer, sampling,
                   summary, judged>>

HasEvent == position < Len(events)
Peek == events[position + 1]

\* replayer.apply(stream.peek()), stream.advance()
Feed ==
    IF ErrorOf(replayer, Peek) = NoError
    THEN replayer' = Applied(replayer, Peek) /\ position' = position + 1
    ELSE replayer' = AfterError(replayer, Peek) /\ UNCHANGED position

FeedPhase == IF ErrorOf(replayer, Peek) = NoError THEN phase ELSE "threw"

\* fault: the events before the image are counted into its group
ApplyEventCountsAll ==
    /\ phase = "catching_up"
    /\ HasEvent /\ Peek.timestamp <= image.timestamp
    /\ Feed
    /\ group' = group + 1
    /\ phase' = FeedPhase
    /\ UNCHANGED <<events, reference, image, sampling, summary, judged>>

\* everything before the image, then the group that shares its millisecond
ApplyEvent ==
    /\ phase = "catching_up"
    /\ HasEvent /\ Peek.timestamp <= image.timestamp
    /\ Feed
    /\ group' = IF Peek.timestamp = image.timestamp THEN group + 1 ELSE group
    /\ phase' = FeedPhase
    /\ UNCHANGED <<events, reference, image, sampling, summary, judged>>

CaughtUp == phase = "catching_up" /\ ~ (HasEvent /\ Peek.timestamp <= image.timestamp)

Diff == CompareTopN(replayer.book, image.book, Depth)

\* no event shares the image's millisecond: counted, and not compared
SkipOrphan ==
    /\ CaughtUp /\ group = 0
    /\ summary' = [summary EXCEPT !.orphan_images = @ + 1]
    /\ phase' = "reading"
    /\ UNCHANGED <<events, position, reference, image, group, replayer, sampling, judged>>

Midday == (image.timestamp \div DayLength) * DayLength + DayLength \div 2

\* which clean sample the image in hand is, if any
SampleLabel ==
    CASE ~ sampling.open -> "open"
      [] sampling.open /\ ~ sampling.midday /\ image.timestamp >= sampling.target
             -> "midday"
      [] OTHER -> IF reference = <<>> THEN "close" ELSE "none"

AppendUpTo(seq, bound, x) == IF Len(seq) < bound THEN Append(seq, x) ELSE seq
AppendIf(condition, seq, x) == IF condition THEN Append(seq, x) ELSE seq

DiffsOf(kind) == Cardinality({d \in Diff : d.kind = kind})

\* fault: the mismatches of a millisecond with several events are not asserted on
CountedForcedOnly(s) ==
    IF group > 1
    THEN [s EXCEPT !.ambiguous_images = @ + 1]
    ELSE [s EXCEPT !.unambiguous_images = @ + 1,
                   !.unambiguous_mismatches = @ + Count(Diff # {}),
                   !.differences = [kind \in DiffKind |-> @[kind] + DiffsOf(kind)]]

\* the counters of a compared image, kept apart for the two kinds of pairing
Counted(s) ==
    IF group > 1
    THEN [s EXCEPT !.ambiguous_images = @ + 1,
                   !.ambiguous_mismatches = @ + Count(Diff # {}),
                   !.sample_ambiguous_timestamps =
                       IF Diff = {} THEN @ ELSE AppendUpTo(@, MaxSamples, image.timestamp)]
    ELSE [s EXCEPT !.unambiguous_images = @ + 1,
                   !.unambiguous_mismatches = @ + Count(Diff # {}),
                   !.differences = [kind \in DiffKind |-> @[kind] + DiffsOf(kind)],
                   !.sample_mismatch_timestamps =
                       IF Diff = {} THEN @ ELSE AppendUpTo(@, MaxSamples, image.timestamp)]

Compare ==
    /\ CaughtUp /\ group > 0
    /\ sampling' = CASE SampleLabel = "open" ->
                          [sampling EXCEPT !.open = TRUE, !.target = Midday]
                     [] SampleLabel = "midday" -> [sampling EXCEPT !.midday = TRUE]
                     [] OTHER -> sampling
    /\ summary' = Counted([summary EXCEPT !.sample_clean_timestamps =
                              AppendIf(SampleLabel # "none", @, image.timestamp)])
    /\ judged' = Append(judged, [image |-> image, at |-> position, group |-> group])
    /\ phase' = "reading"
    /\ UNCHANGED <<events, position, reference, image, group, replayer>>

\* events after the last image still belong to the replay's statistics
Drain ==
    /\ phase = "reading" /\ reference = <<>> /\ HasEvent
    /\ Feed
    /\ phase' = FeedPhase
    /\ UNCHANGED <<events, reference, image, group, sampling, summary, judged>>

Verdict(s) ==
    CASE s.images = 0 -> "inconclusive"
      [] OTHER -> IF s.unambiguous_mismatches = 0 /\ s.ambiguous_mismatches = 0
                  THEN "pass" ELSE "fail"

\* a run that did not pass rendered no clean sample, and reports none
Finish ==
    /\ phase = "reading" /\ reference = <<>> /\ ~ HasEvent
    /\ summary' = IF Verdict(summary) = "pass" THEN summary
                  ELSE [summary EXCEPT !.sample_clean_timestamps = <<>>]
    /\ phase' = "done"
    /\ UNCHANGED <<events, position, reference, image, group, replayer, sampling, judged>>

ValidateNext ==
    \/ ReadImage \/ ReadFails \/ ApplyEvent \/ SkipOrphan \/ Compare
    \/ Drain \/ Finish

ValidateSpec == ValidateInit /\ [][ValidateNext]_validateVars
------------------------------------------------------------------------------
\* the rows that took effect: a refused one may have begun a new block
Seen == position + Count(phase = "threw")

\* the definition of a resync (book_replayer.hpp): a snapshot row after a diff
OpensBlock(i) ==
    /\ events[i].is_snapshot /\ i > 1 /\ ~ events[i - 1].is_snapshot
    /\ i > position => ErrorOf(replayer, events[i]) = "invalid_level"

BlockStart == Max({1} \cup {i \in 1 .. Seen : OpensBlock(i)})

\* the rows that say something of a price since the current book was begun
Mentions(side, price) ==
    {i \in BlockStart .. position : events[i].side = side /\ events[i].price = price}

Quantity(side, price) ==
    IF Mentions(side, price) = {} THEN 0 ELSE events[Max(Mentions(side, price))].quantity

(* The book is the last word on every price since the last resync, no      *)
(* matter in what order levels were added, replaced and removed, and each  *)
(* side stays ordered best first without a duplicate or an empty level,    *)
(* also when a row is refused half way through, after the book was cleared *)
(* for it (BookReplayer::apply over OrderBook::apply's sorted insert).     *)
BookIsLastWord ==
    \A side \in Side :
        LET levels == replayer.book[side]
            prices == {row.price : row \in {r \in Range(SubSeq(events, 1, position)) :
                                              r.side = side}}
        IN  /\ Ordered(levels, side)
            /\ {<<levels[i].price, levels[i].quantity>> : i \in 1 .. Len(levels)}
                 = {<<p, Quantity(side, p)>> : p \in {q \in prices : Quantity(side, q) > 0}}

(* "Inconclusive means nothing was compared. A run that compared nothing   *)
(* must never report success" (replay_validate.hpp, above verdict()).      *)
PassMeansCompared ==
    phase = "done" /\ Verdict(summary) = "pass" =>
        summary.unambiguous_images + summary.ambiguous_images > 0
==============================================================================
