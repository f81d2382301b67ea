----------------------------- MODULE ReplayProofs -----------------------------
(***************************************************************************)
(* A replay and its validation, for files of any length, any prices and    *)
(* quantities, any depth, budget and batch size: the book is the last word *)
(* on every price since the last resync, and an image is compared with the *)
(* whole group of stored events that shares its millisecond.               *)
(***************************************************************************)
EXTENDS ExportBook, SharedProofs, FiniteSetTheorems, TLAPS

(***************************************************************************)
(* Rows.                                                                   *)
(***************************************************************************)

\* OpensBlock, of a row that took effect
Opens(rows, i) == rows[i].is_snapshot /\ i > 1 /\ ~ rows[i - 1].is_snapshot

\* BlockStart, without Max: b is where the block of row n begins
IsBlock(rows, n, b) ==
    /\ b \in 1 .. n + 1
    /\ b = 1 \/ (b <= n /\ Opens(rows, b))
    /\ \A i \in b + 1 .. n : ~ Opens(rows, i)

Mentioned(rows, i, side, p) == rows[i].side = side /\ rows[i].price = p

\* Quantity, without Max: of the rows from b to n the last of price p gives it q
Said(rows, b, n, side, p, q) ==
    /\ q # 0
    /\ \E k \in b .. n :
          /\ Mentioned(rows, k, side, p) /\ rows[k].quantity = q
          /\ \A m \in k + 1 .. n : ~ Mentioned(rows, m, side, p)

(* r is the replay of the first n rows, of which `seen` have had an effect *)
(* on the block, one more than n when the last was refused half way.       *)
IsReplay(r, rows, n, seen) ==
    /\ r \in Replayers
    /\ r.previous_was_snapshot <=> (n = 0 \/ rows[n].is_snapshot)
    /\ \A i \in 1 .. n : rows[i].quantity >= 0
    /\ \A side \in Side : Sorted(r.book[side], side)
    /\ \E b \in Nat :
          /\ IsBlock(rows, seen, b)
          /\ \A side \in Side : \A p, q :
                Holds(r.book[side], p, q) <=> Said(rows, b, n, side, p, q)

\* A row that opens a block is its start; any other stays in the block.
LEMMA NextBlock ==
    ASSUME NEW rows, NEW n \in Nat, NEW b \in Nat, IsBlock(rows, n, b)
    PROVE  /\ Opens(rows, n + 1) => IsBlock(rows, n + 1, n + 1)
           /\ ~ Opens(rows, n + 1) => IsBlock(rows, n + 1, b)
  <1>1. Opens(rows, n + 1) => IsBlock(rows, n + 1, n + 1)
    BY DEF IsBlock
  <1>2. ASSUME ~ Opens(rows, n + 1) PROVE IsBlock(rows, n + 1, b)
    <2>1. \A i \in b + 1 .. n + 1 : i \in b + 1 .. n \/ i = n + 1
      OBVIOUS
    <2> QED BY <1>2, <2>1 DEF IsBlock
  <1> QED BY <1>1, <1>2

\* The next row has the last word on its price, and says nothing of others.
LEMMA NextWord ==
    ASSUME NEW rows, NEW n \in Nat, NEW b \in 1 .. n + 1,
           NEW side, NEW p, NEW q
    PROVE  Said(rows, b, n + 1, side, p, q) <=>
              IF Mentioned(rows, n + 1, side, p)
              THEN q # 0 /\ rows[n + 1].quantity = q
              ELSE Said(rows, b, n, side, p, q)
  <1>1. CASE Mentioned(rows, n + 1, side, p)
    <2>1. ASSUME Said(rows, b, n + 1, side, p, q)
          PROVE  q # 0 /\ rows[n + 1].quantity = q
      <3>1. PICK k \in b .. n + 1 :
               /\ rows[k].quantity = q
               /\ \A m \in k + 1 .. n + 1 : ~ Mentioned(rows, m, side, p)
        BY <2>1 DEF Said
      <3>2. k = n + 1
        BY <1>1, <3>1
      <3> QED BY <2>1, <3>1, <3>2 DEF Said
    <2>2. ASSUME q # 0, rows[n + 1].quantity = q
          PROVE  Said(rows, b, n + 1, side, p, q)
      <3>1. n + 1 \in b .. n + 1 /\ (n + 1) + 1 .. n + 1 = {}
        OBVIOUS
      <3> QED BY <1>1, <2>2, <3>1 DEF Said
    <2> QED BY <1>1, <2>1, <2>2
  <1>2. CASE ~ Mentioned(rows, n + 1, side, p)
    <2>1. ASSUME Said(rows, b, n + 1, side, p, q)
          PROVE  Said(rows, b, n, side, p, q)
      <3>1. PICK k \in b .. n + 1 :
               /\ Mentioned(rows, k, side, p) /\ rows[k].quantity = q
               /\ \A m \in k + 1 .. n + 1 : ~ Mentioned(rows, m, side, p)
        BY <2>1 DEF Said
      <3>2. k \in b .. n
        BY <1>2, <3>1
      <3>3. \A m \in k + 1 .. n : ~ Mentioned(rows, m, side, p)
        BY <3>1
      <3> QED BY <2>1, <3>1, <3>2, <3>3 DEF Said
    <2>2. ASSUME Said(rows, b, n, side, p, q)
          PROVE  Said(rows, b, n + 1, side, p, q)
      <3>1. PICK k \in b .. n :
               /\ Mentioned(rows, k, side, p) /\ rows[k].quantity = q
               /\ \A m \in k + 1 .. n : ~ Mentioned(rows, m, side, p)
        BY <2>2 DEF Said
      <3>2. \A m \in k + 1 .. n + 1 : m \in k + 1 .. n \/ m = n + 1
        OBVIOUS
      <3>3. \A m \in k + 1 .. n + 1 : ~ Mentioned(rows, m, side, p)
        BY <1>2, <3>1, <3>2
      <3>4. k \in b .. n + 1
        OBVIOUS
      <3> QED BY <2>2, <3>1, <3>3, <3>4 DEF Said
    <2> QED BY <1>2, <2>1, <2>2
  <1> QED BY <1>1, <1>2

\* A replayer that has seen nothing.
LEMMA NewReplayerFacts ==
    ASSUME NEW rows
    PROVE  IsReplay(NewReplayer, rows, 0, 0)
  <1>1. EmptyBook \in Books /\ \A side \in Side : EmptyBook[side] = <<>>
    BY DEF EmptyBook, Books
  <1>2. NewReplayer \in Replayers
    BY <1>1 DEF NewReplayer, Replayers
  <1>3. NewReplayer.book = EmptyBook /\ NewReplayer.previous_was_snapshot = TRUE
    BY DEF NewReplayer
  <1>4. ASSUME NEW side \in Side
        PROVE  /\ Sorted(NewReplayer.book[side], side)
               /\ \A p, q : ~ Holds(NewReplayer.book[side], p, q)
    BY <1>1, <1>3 DEF Sorted, Holds
  <1>5. IsBlock(rows, 0, 1)
    BY DEF IsBlock
  <1>6. \A side, p, q : ~ Said(rows, 1, 0, side, p, q)
    BY DEF Said
  <1> QED BY <1>2, <1>3, <1>4, <1>5, <1>6 DEF IsReplay

\* A row resyncs exactly when it opens a block.
LEMMA ResyncsIsOpens ==
    ASSUME NEW r, NEW rows \in Seq(BookUpdate), NEW n \in Nat, n < Len(rows),
           IsReplay(r, rows, n, n)
    PROVE  Resyncs(r, rows[n + 1]) <=> Opens(rows, n + 1)
  <1>1. r.previous_was_snapshot <=> (n = 0 \/ rows[n].is_snapshot)
    BY DEF IsReplay
  <1>2. n + 1 > 1 <=> n # 0
    OBVIOUS
  <1>3. (n + 1) - 1 = n
    OBVIOUS
  <1> QED BY <1>1, <1>2, <1>3 DEF Resyncs, Opens

\* A row that is applied.
LEMMA ReplayApplies ==
    ASSUME NEW r, NEW rows \in Seq(BookUpdate), NEW n \in Nat, n < Len(rows),
           IsReplay(r, rows, n, n), ErrorOf(r, rows[n + 1]) = NoError
    PROVE  IsReplay(Applied(r, rows[n + 1]), rows, n + 1, n + 1)
  <1> DEFINE row == rows[n + 1]
             new == Applied(r, row)
  <1>1. row \in BookUpdate /\ r \in Replayers
        /\ \A side \in Side : Sorted(r.book[side], side)
    BY DEF IsReplay
  <1>2. /\ new \in Replayers /\ row.quantity >= 0
        /\ new.previous_was_snapshot = row.is_snapshot
        /\ \A side \in Side : Sorted(new.book[side], side)
        /\ \A side \in Side : \A p, q :
              Holds(new.book[side], p, q)
                 <=> IF row.side = side /\ row.price = p
                     THEN q # 0 /\ row.quantity = q
                     ELSE ~ Resyncs(r, row) /\ Holds(r.book[side], p, q)
    BY <1>1, AppliedFacts
  <1>3. PICK b \in Nat :
           /\ IsBlock(rows, n, b)
           /\ \A side \in Side : \A p, q :
                 Holds(r.book[side], p, q) <=> Said(rows, b, n, side, p, q)
    BY DEF IsReplay
  <1>4. b \in 1 .. n + 1
    BY <1>3 DEF IsBlock
  <1>5. Resyncs(r, row) <=> Opens(rows, n + 1)
    BY ResyncsIsOpens
  <1> HIDE DEF new
  <1>6. \E c \in Nat :
           /\ IsBlock(rows, n + 1, c)
           /\ \A side \in Side : \A p, q :
                 Holds(new.book[side], p, q) <=> Said(rows, c, n + 1, side, p, q)
    <2>1. CASE Opens(rows, n + 1)
      <3>1. IsBlock(rows, n + 1, n + 1)
        BY <1>3, <2>1, NextBlock
      <3>2. ASSUME NEW side \in Side, NEW p, NEW q
            PROVE  Holds(new.book[side], p, q) <=> Said(rows, n + 1, n + 1, side, p, q)
        <4>1. n + 1 \in 1 .. n + 1
          OBVIOUS
        <4>2. Said(rows, n + 1, n + 1, side, p, q) <=>
                 IF Mentioned(rows, n + 1, side, p)
                 THEN q # 0 /\ rows[n + 1].quantity = q
                 ELSE Said(rows, n + 1, n, side, p, q)
          BY <4>1, NextWord
        <4>3. ~ Said(rows, n + 1, n, side, p, q)
          BY DEF Said
        <4> QED BY <1>2, <1>5, <2>1, <4>2, <4>3 DEF Mentioned
      <3> QED BY <3>1, <3>2
    <2>2. CASE ~ Opens(rows, n + 1)
      <3>1. IsBlock(rows, n + 1, b)
        BY <1>3, <2>2, NextBlock
      <3>2. ASSUME NEW side \in Side, NEW p, NEW q
            PROVE  Holds(new.book[side], p, q) <=> Said(rows, b, n + 1, side, p, q)
        <4>1. Said(rows, b, n + 1, side, p, q) <=>
                 IF Mentioned(rows, n + 1, side, p)
                 THEN q # 0 /\ rows[n + 1].quantity = q
                 ELSE Said(rows, b, n, side, p, q)
          BY <1>4, NextWord
        <4> QED BY <1>2, <1>3, <1>5, <2>2, <4>1 DEF Mentioned
      <3> QED BY <3>1, <3>2
    <2> QED BY <2>1, <2>2
  <1>7. \A i \in 1 .. n + 1 : rows[i].quantity >= 0
    <2>1. \A i \in 1 .. n : rows[i].quantity >= 0
      BY DEF IsReplay
    <2>2. \A i \in 1 .. n + 1 : i \in 1 .. n \/ i = n + 1
      OBVIOUS
    <2> QED BY <1>2, <2>1, <2>2
  <1>8. new.previous_was_snapshot <=> (n + 1 = 0 \/ rows[n + 1].is_snapshot)
    BY <1>2
  <1> QED BY <1>2, <1>6, <1>7, <1>8 DEF IsReplay, new

\* A row that is refused, before or after the book was cleared for it.
LEMMA ReplayRefuses ==
    ASSUME NEW r, NEW rows \in Seq(BookUpdate), NEW n \in Nat, n < Len(rows),
           IsReplay(r, rows, n, n)
    PROVE  /\ ErrorOf(r, rows[n + 1]) = "invalid_level"
                 => IsReplay(AfterError(r, rows[n + 1]), rows, n, n + 1)
           /\ ErrorOf(r, rows[n + 1]) # "invalid_level"
                 => IsReplay(AfterError(r, rows[n + 1]), rows, n, n)
  <1> DEFINE row == rows[n + 1]
             new == Resynced(r, row)
  <1>1. ErrorOf(r, row) # "invalid_level" => AfterError(r, row) = r
    BY DEF AfterError
  <1>2. ErrorOf(r, row) = "invalid_level" => AfterError(r, row) = new
    BY DEF AfterError
  <1>3. IsReplay(new, rows, n, n + 1)
    <2>1. row \in BookUpdate /\ r \in Replayers
          /\ \A side \in Side : Sorted(r.book[side], side)
      BY DEF IsReplay
    <2>2. /\ new \in Replayers
          /\ new.previous_was_snapshot = r.previous_was_snapshot
          /\ \A side \in Side : Sorted(new.book[side], side)
          /\ \A side \in Side : \A p, q :
                Holds(new.book[side], p, q)
                   <=> ~ Resyncs(r, row) /\ Holds(r.book[side], p, q)
      BY <2>1, ResyncedFacts
    <2>3. PICK b \in Nat :
             /\ IsBlock(rows, n, b)
             /\ \A side \in Side : \A p, q :
                   Holds(r.book[side], p, q) <=> Said(rows, b, n, side, p, q)
      BY DEF IsReplay
    <2>4. Resyncs(r, row) <=> Opens(rows, n + 1)
      BY ResyncsIsOpens
    <2> HIDE DEF new
    <2>5. \E c \in Nat :
             /\ IsBlock(rows, n + 1, c)
             /\ \A side \in Side : \A p, q :
                   Holds(new.book[side], p, q) <=> Said(rows, c, n, side, p, q)
      <3>1. CASE Opens(rows, n + 1)
        <4>1. IsBlock(rows, n + 1, n + 1)
          BY <2>3, <3>1, NextBlock
        <4>2. \A side, p, q : ~ Said(rows, n + 1, n, side, p, q)
          BY DEF Said
        <4>3. ASSUME NEW side \in Side, NEW p, NEW q
              PROVE  Holds(new.book[side], p, q) <=> Said(rows, n + 1, n, side, p, q)
          BY <2>2, <2>4, <3>1, <4>2
        <4> QED BY <4>1, <4>3
      <3>2. CASE ~ Opens(rows, n + 1)
        <4>1. IsBlock(rows, n + 1, b)
          BY <2>3, <3>2, NextBlock
        <4> QED BY <2>2, <2>3, <2>4, <3>2, <4>1
      <3> QED BY <3>1, <3>2
    <2> QED BY <2>2, <2>5 DEF IsReplay
  <1> QED BY <1>1, <1>2, <1>3

(***************************************************************************)
(* The stream.                                                             *)
(***************************************************************************)

Exports == [budget : Nat, batch : Nat \ {0}, next : Nat \ {0}, budget_end : Int]

StreamTypeOK ==
    /\ day \in Seq(BookUpdate) /\ events \in Seq(BookUpdate)
    /\ position \in 0 .. Len(events)
    /\ images \in Seq(ReferenceRow)
    /\ export \in Exports

\* the rows that had an effect on the block: a row refused for its level may
\* have cleared the book
Affecting ==
    IF phase = "threw" /\ ErrorOf(replayer, events[position + 1]) = "invalid_level"
    THEN position + 1 ELSE position

(* The replayer is the replay of the rows the stream has applied, and      *)
(* nothing is applied while files are still being written.                 *)
ReplayInv ==
    /\ StreamTypeOK
    /\ phase \in {"exporting_events", "exporting_images"}
          => position = 0 /\ replayer = NewReplayer
    /\ phase = "threw" => position < Len(events)
    /\ IsReplay(replayer, events, position, Affecting)

\* A refused row does not change the reason it is refused for.
LEMMA ErrorStays ==
    ASSUME NEW r \in Replayers, NEW row \in BookUpdate
    PROVE  ErrorOf(AfterError(r, row), row) = ErrorOf(r, row)
  <1>1. CASE AfterError(r, row) = r
    BY <1>1
  <1>2. CASE AfterError(r, row) = [r EXCEPT !.book = EmptyBook, !.resyncs = @ + 1]
    <2>1. /\ AfterError(r, row).started = r.started
          /\ AfterError(r, row).last_timestamp = r.last_timestamp
      BY <1>2 DEF Replayers
    <2> QED BY <2>1 DEF ErrorOf
  <1> QED BY <1>1, <1>2 DEF AfterError, Resynced

\* What is written of a batch, or of an image, is its front, up to a timestamp.
LEMMA UpToFacts ==
    ASSUME NEW S, NEW rows \in Seq(S), NEW t
    PROVE  /\ UpTo(rows, t) \in Seq(S) /\ Len(UpTo(rows, t)) <= Len(rows)
           /\ \A i \in 1 .. Len(UpTo(rows, t)) :
                 UpTo(rows, t)[i] = rows[i] /\ ~ (rows[i].timestamp > t)
           /\ Len(UpTo(rows, t)) = Len(rows) => UpTo(rows, t) = rows
           /\ Len(UpTo(rows, t)) < Len(rows) => rows[Len(UpTo(rows, t)) + 1].timestamp > t
  <1> DEFINE I == {i \in 1 .. Len(rows) : rows[i].timestamp > t}
             past == SelectInSeq(rows, LAMBDA row : row.timestamp > t)
             kept == UpTo(rows, t)
  <1>1. past = IF I # {} THEN Min(I) ELSE 0
    BY DEF SelectInSeq
  <1>2. kept = IF past = 0 THEN rows ELSE SubSeq(rows, 1, past - 1)
    BY DEF UpTo
  <1>3. I \in SUBSET Nat /\ I \subseteq 1 .. Len(rows)
    OBVIOUS
  <1>4. \A i \in 1 .. Len(rows) : i \in I <=> rows[i].timestamp > t
    OBVIOUS
  <1> HIDE DEF I, past, kept
  <1>5. CASE I = {}
    <2>1. kept = rows
      BY <1>1, <1>2, <1>5
    <2> QED BY <1>4, <1>5, <2>1 DEF kept
  <1>6. CASE I # {}
    <2>1. past \in I /\ \A i \in I : past <= i
      BY <1>1, <1>3, <1>6, MinIsLeast
    <2>2. past \in 1 .. Len(rows) /\ rows[past].timestamp > t
      BY <1>3, <1>4, <2>1
    <2>3. kept = SubSeq(rows, 1, past - 1)
      BY <1>2, <2>2
    <2>4. /\ kept \in Seq(S) /\ Len(kept) = past - 1
          /\ \A i \in 1 .. past - 1 : kept[i] = rows[i]
      BY <2>2, <2>3
    <2>5. \A i \in 1 .. past - 1 : ~ (rows[i].timestamp > t)
      <3> SUFFICES ASSUME NEW i \in 1 .. past - 1, rows[i].timestamp > t PROVE FALSE
        OBVIOUS
      <3>1. i \in I
        BY <1>4, <2>2
      <3> QED BY <2>1, <2>2, <3>1
    <2>6. Len(kept) + 1 = past /\ Len(kept) < Len(rows)
      BY <2>2, <2>4
    <2> QED BY <2>2, <2>4, <2>5, <2>6 DEF kept
  <1> QED BY <1>5, <1>6

\* A batch is a window of the stored rows.
LEMMA BatchFacts ==
    ASSUME NEW S, NEW rows \in Seq(S), export \in Exports
    PROVE  /\ Batch(rows) \in Seq(S)
           /\ export.next <= Len(rows) =>
                 /\ Len(Batch(rows)) = Smaller(export.batch, Len(rows) - export.next + 1)
                 /\ \A i \in 1 .. Len(Batch(rows)) : Batch(rows)[i] = rows[export.next - 1 + i]
  <1> DEFINE from == export.next
             to == Smaller(export.next + export.batch - 1, Len(rows))
  <1>1. /\ from \in Nat \ {0} /\ to \in Nat /\ to <= Len(rows)
        /\ from <= Len(rows) =>
              from <= to /\ to - from + 1 = Smaller(export.batch, Len(rows) - export.next + 1)
    BY DEF Exports, Smaller
  <1>2. Batch(rows) = SubSeq(rows, from, to)
    BY DEF Batch
  <1>3. export.next = from
    OBVIOUS
  <1> HIDE DEF from, to
  <1>4. SubSeq(rows, from, to) \in Seq(S)
    BY <1>1
  <1>5. ASSUME from <= Len(rows)
        PROVE  /\ Len(SubSeq(rows, from, to)) = to - from + 1
               /\ \A i \in 1 .. to - from + 1 : SubSeq(rows, from, to)[i] = rows[from - 1 + i]
    <2>1. from <= to
      BY <1>1, <1>5
    <2>2. SubSeq(rows, from, to) = [i \in 1 .. to - from + 1 |-> rows[from + i - 1]]
      BY <1>1, <2>1
    <2>3. \A i \in 1 .. to - from + 1 : from + i - 1 = from - 1 + i
      BY <1>1
    <2>4. Len(SubSeq(rows, from, to)) = to - from + 1
      BY <1>1, <2>1
    <2> QED BY <2>2, <2>3, <2>4
  <1> QED BY <1>1, <1>2, <1>3, <1>4, <1>5

LEMMA LastTimestampType ==
    ASSUME NEW rows \in Seq(BookUpdate)
    PROVE  LastTimestamp(rows) \in Int
  <1>1. CASE rows = <<>>
    BY <1>1 DEF LastTimestamp
  <1>2. CASE rows # <<>>
    <2>1. rows[Len(rows)] \in BookUpdate
      BY <1>2
    <2> QED BY <1>2, <2>1 DEF LastTimestamp, Last, BookUpdate
  <1> QED BY <1>1, <1>2

LEMMA BudgetEndType ==
    ASSUME NEW rows \in Seq(BookUpdate), events \in Seq(BookUpdate), export \in Exports
    PROVE  BudgetEnd(rows) \in Int
  <1>1. export.budget_end \in Int /\ export.budget \in Nat
    BY DEF Exports
  <1>2. LastTimestamp(events) \in Int
    BY LastTimestampType
  <1>3. ASSUME ~ (Len(events) + Len(rows) <= export.budget), export.budget > Len(events)
        PROVE  rows[export.budget - Len(events)].timestamp \in Int
    <2>1. export.budget - Len(events) \in 1 .. Len(rows)
      BY <1>1, <1>3
    <2>2. rows[export.budget - Len(events)] \in BookUpdate
      BY <2>1
    <2> QED BY <2>2 DEF BookUpdate
  <1> QED BY <1>1, <1>2, <1>3 DEF BudgetEnd

LEMMA ReplayInitInv == GivenInit \/ ExportInit => ReplayInv
  <1>1. NoExport \in Exports
    BY DEF NoExport, Exports
  <1>2. ASSUME GivenInit PROVE ReplayInv
    <2>1. /\ events \in Seq(BookUpdate) /\ day = events /\ position = 0
          /\ replayer = NewReplayer /\ phase = "reading" /\ export = NoExport
          /\ images \in Seq(ReferenceRow)
      BY <1>2, ValidateAssumption DEF GivenInit, ValidateInit
    <2>2. Affecting = 0
      BY <2>1 DEF Affecting
    <2>3. IsReplay(replayer, events, position, Affecting)
      BY <2>1, <2>2, NewReplayerFacts
    <2> QED BY <1>1, <2>1, <2>3 DEF ReplayInv, StreamTypeOK
  <1>3. ASSUME ExportInit PROVE ReplayInv
    <2>1. /\ events = <<>> /\ day \in Seq(BookUpdate) /\ position = 0
          /\ replayer = NewReplayer /\ phase = "exporting_events"
          /\ images \in Seq(ReferenceRow)
      BY <1>3, ExportAssumption DEF ExportInit
    <2>2. export \in Exports
      BY <1>3, ExportAssumption DEF ExportInit, Exports
    <2>3. Affecting = 0
      BY <2>1 DEF Affecting
    <2>4. IsReplay(replayer, events, position, Affecting)
      BY <2>1, <2>3, NewReplayerFacts
    <2> QED BY <2>1, <2>2, <2>4 DEF ReplayInv, StreamTypeOK
  <1> QED BY <1>2, <1>3

\* A step that applies no row.
LEMMA OtherStepsKeep ==
    ASSUME ReplayInv, UNCHANGED <<events, position, replayer, day>>,
           export' \in Exports, images' \in Seq(ReferenceRow), phase # "threw", phase' # "threw",
           phase' \in {"exporting_events", "exporting_images"}
              => phase \in {"exporting_events", "exporting_images"}
    PROVE  ReplayInv'
  <1>1. Affecting = position /\ Affecting' = position
    BY DEF Affecting
  <1>2. IsReplay(replayer, events, position, position)
    BY <1>1 DEF ReplayInv
  <1>3. IsReplay(replayer, events, position, Affecting)'
    BY <1>1, <1>2
  <1> QED BY <1>3 DEF ReplayInv, StreamTypeOK

LEMMA FeedKeeps ==
    ASSUME ReplayInv, HasEvent, Feed, phase' = FeedPhase,
           phase \notin {"threw", "exporting_events", "exporting_images"},
           UNCHANGED <<events, day, images, export>>
    PROVE  ReplayInv'
  <1>1. /\ StreamTypeOK /\ position < Len(events) /\ position + 1 \in 1 .. Len(events)
        /\ Peek = events[position + 1] /\ Peek \in BookUpdate
        /\ IsReplay(replayer, events, position, position) /\ replayer \in Replayers
    BY DEF ReplayInv, StreamTypeOK, HasEvent, Peek, Affecting, IsReplay
  <1>2. CASE ErrorOf(replayer, Peek) = NoError
    <2>1. replayer' = Applied(replayer, Peek) /\ position' = position + 1 /\ phase' = phase
      BY <1>2 DEF Feed, FeedPhase
    <2>2. IsReplay(Applied(replayer, Peek), events, position + 1, position + 1)
      BY <1>1, <1>2, ReplayApplies DEF StreamTypeOK
    <2>3. Affecting' = position + 1
      BY <2>1 DEF Affecting
    <2>4. IsReplay(replayer, events, position, Affecting)'
      BY <2>1, <2>2, <2>3
    <2> QED BY <1>1, <2>1, <2>4 DEF ReplayInv, StreamTypeOK
  <1>3. CASE ErrorOf(replayer, Peek) # NoError
    <2>1. replayer' = AfterError(replayer, Peek) /\ position' = position
          /\ phase' = "threw"
      BY <1>3 DEF Feed, FeedPhase
    <2>2. Affecting' = IF ErrorOf(replayer, Peek) = "invalid_level"
                       THEN position + 1 ELSE position
      <3>1. ErrorOf(AfterError(replayer, Peek), Peek) = ErrorOf(replayer, Peek)
        BY <1>1, ErrorStays
      <3>2. ErrorOf(replayer', events[position + 1]) = ErrorOf(replayer, Peek)
        BY <1>1, <2>1, <3>1
      <3> QED BY <2>1, <3>2 DEF Affecting
    <2>3. /\ ErrorOf(replayer, Peek) = "invalid_level"
                => IsReplay(AfterError(replayer, Peek), events, position, position + 1)
          /\ ErrorOf(replayer, Peek) # "invalid_level"
                => IsReplay(AfterError(replayer, Peek), events, position, position)
      BY <1>1, ReplayRefuses DEF StreamTypeOK
    <2>4. IsReplay(replayer, events, position, Affecting)'
      BY <2>1, <2>2, <2>3
    <2> QED BY <1>1, <2>1, <2>4 DEF ReplayInv, StreamTypeOK
  <1> QED BY <1>2, <1>3

LEMMA ExportEventsKeeps == ReplayInv /\ ExportEvents => ReplayInv'
  <1> SUFFICES ASSUME ReplayInv, ExportEvents PROVE ReplayInv'
    OBVIOUS
  <1> DEFINE rows == Batch(day)
             kept == Kept(rows)
  <1>1. /\ day \in Seq(BookUpdate) /\ events \in Seq(BookUpdate) /\ export \in Exports
        /\ position = 0 /\ replayer = NewReplayer /\ phase = "exporting_events"
    BY DEF ReplayInv, StreamTypeOK, ExportEvents
  <1>2. rows \in Seq(BookUpdate)
    BY <1>1, BatchFacts
  <1>3. kept \in Seq(BookUpdate)
    BY <1>2, UpToFacts DEF Kept
  <1>4. BudgetEnd(rows) \in Int
    BY <1>1, <1>2, BudgetEndType
  <1> HIDE DEF rows, kept
  <1>5. /\ events' = events \o kept
        /\ export' = [export EXCEPT !.budget_end = BudgetEnd(rows),
                                    !.next = IF kept = rows THEN @ + export.batch
                                             ELSE Len(day) + 1]
        /\ UNCHANGED <<day, images, position, replayer, phase>>
    BY DEF ExportEvents, rows, kept
  <1>6. export' \in Exports
    <2> DEFINE next == IF kept = rows THEN export.next + export.batch ELSE Len(day) + 1
    <2>1. next \in Nat \ {0}
      BY <1>1 DEF Exports
    <2> HIDE DEF next
    <2>2. export' = [export EXCEPT !.budget_end = BudgetEnd(rows), !.next = next]
      BY <1>5 DEF next
    <2> QED BY <1>1, <1>4, <2>1, <2>2 DEF Exports
  <1>7. events' \in Seq(BookUpdate)
    BY <1>1, <1>3, <1>5
  <1>8. Affecting' = 0
    BY <1>1, <1>5 DEF Affecting
  <1>9. IsReplay(NewReplayer, events', 0, 0)
    BY NewReplayerFacts
  <1>10. IsReplay(replayer, events, position, Affecting)'
    BY <1>1, <1>5, <1>8, <1>9
  <1> QED BY <1>1, <1>5, <1>6, <1>7, <1>10 DEF ReplayInv, StreamTypeOK

LEMMA OtherExportStepsKeep ==
    ReplayInv /\ (EndEvents \/ ExportImages \/ EndImages) => ReplayInv'
  <1> SUFFICES ASSUME ReplayInv, EndEvents \/ ExportImages \/ EndImages
               PROVE  ReplayInv'
    OBVIOUS
  <1>1. export \in Exports /\ images \in Seq(ReferenceRow)
    BY DEF ReplayInv, StreamTypeOK
  <1>2. CASE EndEvents
    <2>1. export' \in Exports
      BY <1>1, <1>2 DEF EndEvents, Exports
    <2> QED BY <1>1, <1>2, <2>1, OtherStepsKeep DEF EndEvents
  <1>3. CASE ExportImages
    <2> DEFINE next == IF UpTo(Batch(images), LastTimestamp(events)) = Batch(images)
                       THEN export.next + export.batch ELSE Len(images) + 1
    <2>1. next \in Nat \ {0}
      <3>1. export.next + export.batch \in Nat \ {0}
        BY <1>1 DEF Exports
      <3>2. Len(images) + 1 \in Nat \ {0}
        BY <1>1
      <3> QED BY <3>1, <3>2
    <2> HIDE DEF next
    <2>2. export' = [export EXCEPT !.next = next]
      BY <1>3 DEF ExportImages, next
    <2>3. export' \in Exports
      BY <1>1, <2>1, <2>2 DEF Exports
    <2> QED BY <1>1, <1>3, <2>3, OtherStepsKeep DEF ExportImages
  <1>4. CASE EndImages
    <2>1. export' \in Exports /\ images' \in Seq(ReferenceRow)
      BY <1>4 DEF EndImages, NoExport, Exports
    <2> QED BY <1>4, <2>1, OtherStepsKeep DEF EndImages
  <1> QED BY <1>2, <1>3, <1>4

LEMMA ValidateStepsKeep == ReplayInv /\ ValidateNext /\ UNCHANGED exportVars => ReplayInv'
  <1> SUFFICES ASSUME ReplayInv, ValidateNext, UNCHANGED exportVars PROVE ReplayInv'
    OBVIOUS
  <1>1. /\ export \in Exports /\ export' = export /\ day' = day
        /\ images \in Seq(ReferenceRow) /\ images' = images
    BY DEF ReplayInv, StreamTypeOK, exportVars
  <1>2. CASE ApplyEvent
    BY <1>1, <1>2, FeedKeeps DEF ApplyEvent
  <1>3. CASE Drain
    BY <1>1, <1>3, FeedKeeps DEF Drain
  <1>4. CASE ReadImage \/ ReadFails
    BY <1>1, <1>4, OtherStepsKeep DEF ReadImage, ReadFails
  <1>5. CASE SkipOrphan \/ Compare
    BY <1>1, <1>5, OtherStepsKeep DEF SkipOrphan, Compare, CaughtUp
  <1>6. CASE Finish
    BY <1>1, <1>6, OtherStepsKeep DEF Finish
  <1> QED BY <1>2, <1>3, <1>4, <1>5, <1>6 DEF ValidateNext

(* At every step of an export and of the validation that follows it, the   *)
(* replayer is what the rows applied so far make of it.                    *)
THEOREM ReplayInvariant == ExportSpec => []ReplayInv
  <1>1. GivenInit \/ ExportInit => ReplayInv
    BY ReplayInitInv
  <1>2. ReplayInv /\ [ExportNext]_exportedVars => ReplayInv'
    <2> SUFFICES ASSUME ReplayInv, [ExportNext]_exportedVars PROVE ReplayInv'
      OBVIOUS
    <2>1. CASE ExportNext
      BY <2>1, ExportEventsKeeps, OtherExportStepsKeep, ValidateStepsKeep DEF ExportNext
    <2>2. CASE UNCHANGED exportedVars
      <3>1. UNCHANGED <<events, position, replayer, day, images, export, phase>>
        BY <2>2 DEF exportedVars, validateVars, exportVars
      <3>2. Affecting' = Affecting
        BY <3>1 DEF Affecting
      <3> QED BY <3>1, <3>2 DEF ReplayInv, StreamTypeOK
    <2> QED BY <2>1, <2>2
  <1> QED BY <1>1, <1>2, PTL DEF ExportSpec

(***************************************************************************)
(* The last word.                                                          *)
(***************************************************************************)

LEMMA BlockStartIs ==
    ASSUME ReplayInv, NEW b \in Nat, IsBlock(events, Affecting, b)
    PROVE  BlockStart = b
  <1> DEFINE T == {1} \cup {i \in 1 .. Seen : OpensBlock(i)}
  <1>1. position \in Nat /\ Seen \in Nat
        /\ Seen = IF phase = "threw" THEN position + 1 ELSE position
    BY DEF ReplayInv, StreamTypeOK, Seen, Count
  <1>2. \A i \in 1 .. Seen : OpensBlock(i) <=> i <= Affecting /\ Opens(events, i)
    <2> SUFFICES ASSUME NEW i \in 1 .. Seen
                 PROVE  OpensBlock(i) <=> i <= Affecting /\ Opens(events, i)
      OBVIOUS
    <2>1. CASE i <= position
      <3>1. i <= Affecting /\ ~ (i > position)
        BY <1>1, <2>1 DEF Affecting
      <3> QED BY <3>1 DEF OpensBlock, Opens
    <2>2. CASE i > position
      <3>1. i = position + 1 /\ phase = "threw"
        BY <1>1, <2>2
      <3>2. i <= Affecting <=> ErrorOf(replayer, events[i]) = "invalid_level"
        BY <1>1, <3>1 DEF Affecting
      <3> QED BY <2>2, <3>2 DEF OpensBlock, Opens
    <2> QED BY <1>1, <2>1, <2>2
  <1>3. Affecting \in Nat /\ Affecting <= Seen
    BY <1>1 DEF Affecting
  <1>4. b \in T
    BY <1>1, <1>2, <1>3 DEF IsBlock
  <1>5. \A i \in T : i <= b
    <2> SUFFICES ASSUME NEW i \in T, i > b PROVE FALSE
      BY <1>1
    <2>1. i \in 1 .. Seen /\ OpensBlock(i)
      BY <1>3 DEF IsBlock
    <2>2. i \in b + 1 .. Affecting /\ Opens(events, i)
      BY <1>2, <1>3, <2>1
    <2> QED BY <2>2 DEF IsBlock
  <1>6. T \in SUBSET Int
    BY <1>1
  <1> HIDE DEF T
  <1>7. Max(T) = b
    BY <1>4, <1>5, <1>6, MaxIs
  <1> QED BY <1>7 DEF BlockStart, T

LEMMA QuantityIs ==
    ASSUME StreamTypeOK, NEW b \in Nat, BlockStart = b, b # 0,
           \A i \in 1 .. position : events[i].quantity >= 0,
           NEW side \in Side, NEW p
    PROVE  /\ \A q : Said(events, b, position, side, p, q)
                        => Quantity(side, p) = q /\ Quantity(side, p) > 0
           /\ Quantity(side, p) > 0
                 => Said(events, b, position, side, p, Quantity(side, p))
  <1> DEFINE T == Mentions(side, p)
  <1>1. T = {i \in b .. position : Mentioned(events, i, side, p)}
    BY DEF Mentions, Mentioned
  <1>2. position \in Nat /\ \A i \in 1 .. position :
           events[i].quantity \in Int /\ events[i].quantity >= 0
    <2>1. position \in Nat /\ \A i \in 1 .. position : events[i] \in BookUpdate
      BY DEF StreamTypeOK
    <2> QED BY <2>1 DEF BookUpdate
  <1>3. Quantity(side, p) = IF T = {} THEN 0 ELSE events[Max(T)].quantity
    BY DEF Quantity
  <1> HIDE DEF T
  <1>4. ASSUME NEW q, Said(events, b, position, side, p, q)
        PROVE  Quantity(side, p) = q /\ Quantity(side, p) > 0
    <2>1. PICK k \in b .. position :
             /\ Mentioned(events, k, side, p) /\ events[k].quantity = q
             /\ \A m \in k + 1 .. position : ~ Mentioned(events, m, side, p)
      BY <1>4 DEF Said
    <2>2. k \in T /\ T \in SUBSET Int
      BY <1>1, <1>2, <2>1
    <2>3. \A m \in T : m <= k
      BY <1>1, <1>2, <2>1
    <2>4. Max(T) = k
      BY <2>2, <2>3, MaxIs
    <2>5. q # 0
      BY <1>4 DEF Said
    <2>6. k \in 1 .. position
      BY <1>2
    <2>7. q \in Int /\ q > 0
      BY <1>2, <2>1, <2>5, <2>6
    <2> QED BY <1>3, <2>1, <2>2, <2>4, <2>7
  <1>5. ASSUME Quantity(side, p) > 0
        PROVE  Said(events, b, position, side, p, Quantity(side, p))
    <2>1. T # {} /\ Quantity(side, p) = events[Max(T)].quantity
      BY <1>3, <1>5
    <2>2. T \in SUBSET (0 .. position)
      BY <1>1, <1>2
    <2>3. Max(T) \in T /\ \A m \in T : m <= Max(T)
      BY <1>2, <2>1, <2>2, MaxIsGreatest
    <2>4. \A m \in Max(T) + 1 .. position : ~ Mentioned(events, m, side, p)
      <3> SUFFICES ASSUME NEW m \in Max(T) + 1 .. position,
                          Mentioned(events, m, side, p)
                   PROVE  FALSE
        OBVIOUS
      <3>1. m \in T
        BY <1>1, <1>2, <2>2, <2>3
      <3>2. Max(T) \in 0 .. position
        BY <2>2, <2>3
      <3>3. m <= Max(T)
        BY <2>3, <3>1
      <3> HIDE DEF T
      <3> DEFINE last == Max(T)
      <3> HIDE DEF last
      <3>4. last \in 0 .. position /\ m \in last + 1 .. position /\ m <= last
        BY <3>2, <3>3 DEF last
      <3> QED BY <1>2, <3>4
    <2>5. Max(T) \in b .. position /\ Mentioned(events, Max(T), side, p)
      BY <1>1, <2>3
    <2>6. Quantity(side, p) # 0
      BY <1>5
    <2> QED BY <2>1, <2>4, <2>5, <2>6 DEF Said
  <1> QED BY <1>4, <1>5

LEMMA ReplayIsLastWord == ReplayInv => BookIsLastWord
  <1> SUFFICES ASSUME ReplayInv, NEW side \in Side
               PROVE  LET levels == replayer.book[side]
                          prices == {row.price : row \in {r \in Range(SubSeq(events, 1, position)) :
                                                            r.side = side}}
                      IN  /\ Ordered(levels, side)
                          /\ {<<levels[i].price, levels[i].quantity>> : i \in 1 .. Len(levels)}
                               = {<<p, Quantity(side, p)>> : p \in {q \in prices : Quantity(side, q) > 0}}
    BY DEF BookIsLastWord
  <1> DEFINE levels == replayer.book[side]
             applied == SubSeq(events, 1, position)
             prices == {row.price : row \in {r \in Range(applied) : r.side = side}}
  <1>1. /\ StreamTypeOK /\ IsReplay(replayer, events, position, Affecting)
        /\ position \in Nat /\ position <= Len(events) /\ events \in Seq(BookUpdate)
    BY DEF ReplayInv, StreamTypeOK
  <1>2. PICK b \in Nat :
           /\ IsBlock(events, Affecting, b)
           /\ \A p, q : Holds(levels, p, q) <=> Said(events, b, position, side, p, q)
    BY <1>1 DEF IsReplay
  <1>3. BlockStart = b /\ b # 0
    BY <1>2, BlockStartIs DEF IsBlock
  <1>4. \A p : /\ \A q : Said(events, b, position, side, p, q)
                            => Quantity(side, p) = q /\ Quantity(side, p) > 0
               /\ Quantity(side, p) > 0
                     => Said(events, b, position, side, p, Quantity(side, p))
    BY <1>1, <1>3, QuantityIs DEF IsReplay
  <1>5. levels \in Seq(Levels) /\ Sorted(levels, side)
    BY <1>1 DEF IsReplay, Replayers, Books
  <1> HIDE DEF levels
  <1>6. Ordered(levels, side)
    <2>1. Len(levels) \in Nat
      BY <1>5
    <2> QED BY <1>5, <2>1 DEF Sorted, Ordered
  <1>7. ASSUME NEW p, NEW q, Said(events, b, position, side, p, q)
        PROVE  p \in prices
    <2>1. PICK k \in b .. position : Mentioned(events, k, side, p)
      BY <1>7 DEF Said
    <2>2. k \in 1 .. position
      BY <1>1, <1>3
    <2>3. k \in DOMAIN applied /\ applied[k] = events[k]
      BY <1>1, <2>2
    <2>4. events[k] \in Range(applied)
      BY <2>3 DEF Range
    <2> QED BY <2>1, <2>4 DEF Mentioned
  <1> HIDE DEF prices
  <1>8. ASSUME NEW i \in 1 .. Len(levels)
        PROVE  /\ levels[i].price \in {q \in prices : Quantity(side, q) > 0}
               /\ levels[i].quantity = Quantity(side, levels[i].price)
    <2>1. Holds(levels, levels[i].price, levels[i].quantity)
      BY DEF Holds
    <2> QED BY <1>2, <1>4, <1>7, <2>1
  <1>9. ASSUME NEW p \in {q \in prices : Quantity(side, q) > 0}
        PROVE  \E i \in 1 .. Len(levels) :
                  <<p, Quantity(side, p)>> = <<levels[i].price, levels[i].quantity>>
    <2>1. Holds(levels, p, Quantity(side, p))
      BY <1>2, <1>4
    <2> QED BY <2>1 DEF Holds
  <1>10. {<<levels[i].price, levels[i].quantity>> : i \in 1 .. Len(levels)}
           = {<<p, Quantity(side, p)>> : p \in {q \in prices : Quantity(side, q) > 0}}
    BY <1>8, <1>9
  <1> QED BY <1>6, <1>10 DEF levels, prices

(* The book is the last word on every price since the last resync, each    *)
(* side best first and no price twice, whatever rows in whatever order the *)
(* files hold and whichever row is refused (BookReplayer::apply over       *)
(* OrderBook::apply).                                                      *)
THEOREM BookAlwaysLastWord == ExportSpec => []BookIsLastWord
  BY ReplayInvariant, ReplayIsLastWord, PTL

(***************************************************************************)
(* Pairing.                                                                *)
(***************************************************************************)

At(rows, n, t) == {i \in 1 .. n : rows[i].timestamp = t}

InOrderUpTo(rows, n) ==
    \A i, j \in 1 .. n : i <= j => rows[i].timestamp <= rows[j].timestamp

Exporting == phase \in {"exporting_events", "exporting_images"}

\* The rest of the day is later than what was written.
CutBetween ==
    \A e \in 1 .. Len(events), i \in Len(events) + 1 .. Len(day) :
        events[e].timestamp < day[i].timestamp

\* The file is the front of the day, and is cut between two milliseconds.
ExportInv ==
    /\ Len(events) <= Len(day) /\ \A i \in 1 .. Len(events) : events[i] = day[i]
    /\ IF phase = "exporting_events"
       THEN /\ InOrderUpTo(day, Len(day)) /\ \A i \in 1 .. Len(day) : day[i].timestamp >= 0
            /\ export.next <= Len(day) =>
                  /\ Len(events) = export.next - 1
                  /\ export.budget_end # -1 =>
                        \A i \in 1 .. Len(events) : events[i].timestamp <= export.budget_end
            /\ export.next > Len(day) => CutBetween
       ELSE CutBetween

\* The stream stands between two milliseconds.
AtABoundary ==
    \/ position = 0
    \/ position = Len(events)
    \/ events[position].timestamp < events[position + 1].timestamp

\* How far the group of the image in hand has come.
GroupInv ==
    /\ phase = "reading" /\ reference # <<>> => AtABoundary
    /\ phase = "catching_up" =>
          /\ image.timestamp \in Int /\ group \in Nat
          /\ group = 0 => AtABoundary \/ events[position].timestamp < image.timestamp
          /\ group > 0 =>
                /\ position > 0 /\ events[position].timestamp = image.timestamp
                /\ group = Cardinality(At(events, position, image.timestamp))

\* A verdict was on the whole group of an image, at its end.
IsJudged(j) ==
    /\ j.at \in 1 .. position
    /\ j.image.timestamp = events[j.at].timestamp
    /\ j.at < Len(events) => j.image.timestamp < events[j.at + 1].timestamp
    /\ j.group \in Nat \ {0}
    /\ j.group = Cardinality(At(events, j.at, j.image.timestamp))

Forced == {i \in 1 .. Len(judged) : judged[i].group = 1}
Unforced == {i \in 1 .. Len(judged) : judged[i].group > 1}

CountersInv ==
    /\ DOMAIN summary = DOMAIN NewSummary
    /\ summary.images \in Int /\ summary.orphan_images \in Int
    /\ summary.unambiguous_images = Cardinality(Forced)
    /\ summary.ambiguous_images = Cardinality(Unforced)
    /\ phase # "threw" =>
          summary.images = Len(judged) + summary.orphan_images + Count(phase = "catching_up")

PairingInv ==
    /\ ReplayInv
    /\ reference \in Seq(ReferenceRow)
    /\ judged \in Seq(Range(judged))
    /\ Exporting => judged = <<>>
    /\ ExportInv
    /\ InOrderUpTo(events, position)
    /\ position > 0 =>
          replayer.started /\ replayer.last_timestamp = events[position].timestamp
    /\ GroupInv
    /\ \A i \in 1 .. Len(judged) : IsJudged(judged[i])
    /\ CountersInv
    /\ phase = "done" => position = Len(events)

-------------------------------------------------------------------------------
(* Rows in order. *)

LEMMA InOrderRows ==
    ASSUME NEW rows, Len(rows) \in Nat, \A i \in 1 .. Len(rows) : rows[i].timestamp \in Int,
           InOrder(rows)
    PROVE  InOrderUpTo(rows, Len(rows))
  <1> SUFFICES ASSUME NEW i \in 1 .. Len(rows), NEW j \in 1 .. Len(rows), i <= j
               PROVE  rows[i].timestamp <= rows[j].timestamp
    BY DEF InOrderUpTo
  <1> DEFINE T == {k \in i .. Len(rows) : rows[k].timestamp < rows[i].timestamp}
  <1>1. CASE T = {}
    BY <1>1
  <1>2. CASE T # {}
    <2>1. T \in SUBSET Nat
      OBVIOUS
    <2>2. PICK m \in T : \A k \in T : m <= k
      BY <1>2, <2>1, LeastElement
    <2>3. m \in i .. Len(rows) /\ rows[m].timestamp < rows[i].timestamp
      OBVIOUS
    <2>4. m # i
      BY <2>3
    <2>5. m - 1 \in i .. Len(rows) - 1 /\ m - 1 \in 1 .. Len(rows) - 1 /\ m - 1 + 1 = m
      BY <2>3, <2>4
    <2>6. ~ (m - 1 \in T)
      BY <2>2, <2>5
    <2>7. rows[m - 1].timestamp >= rows[i].timestamp
      BY <2>5, <2>6
    <2>8. rows[m - 1].timestamp <= rows[m].timestamp
      BY <2>5 DEF InOrder
    <2>9. /\ rows[m - 1].timestamp \in Int /\ rows[m].timestamp \in Int
          /\ rows[i].timestamp \in Int
      BY <2>3, <2>5
    <2> QED BY <2>3, <2>7, <2>8, <2>9
  <1> QED BY <1>1, <1>2

\* The rows of one timestamp can be counted, one row after the other.
LEMMA AtFacts ==
    ASSUME NEW rows, NEW n \in Nat, NEW t
    PROVE  /\ IsFiniteSet(At(rows, n, t)) /\ Cardinality(At(rows, n, t)) \in Nat
           /\ rows[n + 1].timestamp # t => At(rows, n + 1, t) = At(rows, n, t)
           /\ rows[n + 1].timestamp = t =>
                 Cardinality(At(rows, n + 1, t)) = Cardinality(At(rows, n, t)) + 1
           /\ (\A i \in 1 .. n : rows[i].timestamp # t) => Cardinality(At(rows, n, t)) = 0
  <1>1. IsFiniteSet(1 .. n)
    BY FS_Interval
  <1>2. At(rows, n, t) \in SUBSET (1 .. n)
    BY DEF At
  <1>3. IsFiniteSet(At(rows, n, t))
    BY <1>1, <1>2, FS_Subset
  <1>4. Cardinality(At(rows, n, t)) \in Nat
    BY <1>3, FS_CardinalityType
  <1>5. 1 .. n + 1 = (1 .. n) \cup {n + 1}
    OBVIOUS
  <1>6. ASSUME rows[n + 1].timestamp # t PROVE At(rows, n + 1, t) = At(rows, n, t)
    BY <1>5, <1>6 DEF At
  <1>7. ASSUME rows[n + 1].timestamp = t
        PROVE  Cardinality(At(rows, n + 1, t)) = Cardinality(At(rows, n, t)) + 1
    <2>1. At(rows, n + 1, t) = At(rows, n, t) \cup {n + 1}
      BY <1>5, <1>7 DEF At
    <2>2. n + 1 \notin At(rows, n, t)
      BY <1>2
    <2> QED BY <1>3, <2>1, <2>2, FS_AddElement
  <1>8. ASSUME \A i \in 1 .. n : rows[i].timestamp # t
        PROVE  Cardinality(At(rows, n, t)) = 0
    <2>1. At(rows, n, t) = {}
      BY <1>8 DEF At
    <2> QED BY <2>1, FS_EmptySet
  <1> QED BY <1>3, <1>4, <1>6, <1>7, <1>8

-------------------------------------------------------------------------------
(* Export. *)

\* A sequence put behind another.
LEMMA BehindFacts ==
    ASSUME NEW S, NEW front \in Seq(S), NEW back \in Seq(S)
    PROVE  /\ front \o back \in Seq(S) /\ Len(front \o back) = Len(front) + Len(back)
           /\ \A i \in 1 .. Len(front) : (front \o back)[i] = front[i]
           /\ \A i \in 1 .. Len(back) : (front \o back)[Len(front) + i] = back[i]
  OBVIOUS

\* The millisecond the budget lands in is not before what was written.
LEMMA BudgetEndFacts ==
    ASSUME PairingInv, phase = "exporting_events", export.next <= Len(day)
    PROVE  LET end == BudgetEnd(Batch(day))
           IN  end # -1 => \A i \in 1 .. Len(events) : events[i].timestamp <= end
  <1> DEFINE rows == Batch(day)
             end == BudgetEnd(rows)
  <1>1. /\ day \in Seq(BookUpdate) /\ events \in Seq(BookUpdate) /\ export \in Exports
        /\ Len(events) = export.next - 1 /\ Len(events) <= Len(day)
        /\ \A i \in 1 .. Len(events) : events[i] = day[i]
        /\ InOrderUpTo(day, Len(day))
        /\ export.budget_end # -1 =>
              \A i \in 1 .. Len(events) : events[i].timestamp <= export.budget_end
    BY DEF PairingInv, ReplayInv, StreamTypeOK, ExportInv
  <1>2. /\ rows \in Seq(BookUpdate)
        /\ Len(rows) = Smaller(export.batch, Len(day) - export.next + 1)
        /\ \A i \in 1 .. Len(rows) : rows[i] = day[export.next - 1 + i]
    BY <1>1, BatchFacts
  <1>3. /\ export.next \in Nat \ {0} /\ export.budget \in Nat /\ export.batch \in Nat \ {0}
        /\ Len(day) \in Nat /\ Len(rows) \in Nat /\ Len(rows) <= Len(day) - export.next + 1
    BY <1>1, <1>2 DEF Exports, Smaller
  <1>4. CASE export.budget_end # -1 \/ Len(events) + Len(rows) <= export.budget
    BY <1>1, <1>4 DEF BudgetEnd
  <1>5. CASE /\ ~ (export.budget_end # -1 \/ Len(events) + Len(rows) <= export.budget)
             /\ export.budget > Len(events)
    <2> DEFINE k == export.budget - Len(events)
    <2>1. end = rows[k].timestamp
      BY <1>5 DEF BudgetEnd
    <2>2. k \in 1 .. Len(rows)
      BY <1>1, <1>3, <1>5
    <2> HIDE DEF k
    <2>3. rows[k] = day[Len(events) + k] /\ Len(events) + k \in 1 .. Len(day)
      <3>1. rows[k] = day[export.next - 1 + k]
        BY <1>2, <2>2
      <3>2. export.next - 1 + k = Len(events) + k /\ Len(events) + k \in 1 .. Len(day)
        BY <1>1, <1>3, <2>2
      <3> QED BY <3>1, <3>2
    <2>4. \A i \in 1 .. Len(events) : events[i].timestamp <= day[Len(events) + k].timestamp
      <3> SUFFICES ASSUME NEW i \in 1 .. Len(events)
                   PROVE  events[i].timestamp <= day[Len(events) + k].timestamp
        OBVIOUS
      <3>1. i \in 1 .. Len(day) /\ i <= Len(events) + k
        BY <1>1, <1>3, <2>2
      <3> QED BY <1>1, <2>3, <3>1 DEF InOrderUpTo
    <2> QED BY <2>1, <2>3, <2>4
  <1>6. CASE /\ ~ (export.budget_end # -1 \/ Len(events) + Len(rows) <= export.budget)
             /\ ~ (export.budget > Len(events))
    <2>1. end = LastTimestamp(events)
      BY <1>6 DEF BudgetEnd
    <2>2. SUFFICES ASSUME NEW i \in 1 .. Len(events) PROVE events[i].timestamp <= end
      OBVIOUS
    <2>3. /\ events # <<>> /\ Len(events) \in 1 .. Len(day) /\ i \in 1 .. Len(day)
          /\ i <= Len(events)
      BY <1>1
    <2>4. end = events[Len(events)].timestamp
      BY <2>1, <2>3 DEF LastTimestamp, Last
    <2>5. day[i].timestamp <= day[Len(events)].timestamp
      BY <1>1, <2>3 DEF InOrderUpTo
    <2> QED BY <1>1, <2>3, <2>4, <2>5
  <1> QED BY <1>4, <1>5, <1>6

LEMMA ExportEventsCuts ==
    ASSUME PairingInv, ExportEvents
    PROVE  ExportInv'
  <1> DEFINE rows == Batch(day)
             end == BudgetEnd(rows)
             kept == Kept(rows)
  <1>0. PICK n : n = Len(events)
    OBVIOUS
  <1>1. /\ day \in Seq(BookUpdate) /\ events \in Seq(BookUpdate) /\ export \in Exports
        /\ phase = "exporting_events" /\ export.next <= Len(day)
        /\ n = export.next - 1 /\ n <= Len(day) /\ n \in Nat
        /\ \A i \in 1 .. n : events[i] = day[i]
        /\ InOrderUpTo(day, Len(day)) /\ \A i \in 1 .. Len(day) : day[i].timestamp >= 0
    BY <1>0 DEF PairingInv, ReplayInv, StreamTypeOK, ExportInv, ExportEvents
  <1>2. /\ events' = events \o kept
        /\ export' = [export EXCEPT !.budget_end = end,
                                    !.next = IF kept = rows THEN @ + export.batch
                                             ELSE Len(day) + 1]
        /\ day' = day /\ phase' = phase
    BY DEF ExportEvents
  <1>3. /\ rows \in Seq(BookUpdate)
        /\ Len(rows) = Smaller(export.batch, Len(day) - export.next + 1)
        /\ \A i \in 1 .. Len(rows) : rows[i] = day[export.next - 1 + i]
    BY <1>1, BatchFacts
  <1>4. end # -1 => \A i \in 1 .. n : events[i].timestamp <= end
    BY <1>0, <1>1, BudgetEndFacts
  <1>5. /\ kept \in Seq(BookUpdate) /\ Len(kept) <= Len(rows)
        /\ \A i \in 1 .. Len(kept) : kept[i] = rows[i]
        /\ end # -1 => \A i \in 1 .. Len(kept) : ~ (rows[i].timestamp > end)
        /\ Len(kept) = Len(rows) => kept = rows
        /\ Len(kept) < Len(rows) => end # -1 /\ rows[Len(kept) + 1].timestamp > end
    <2>1. CASE end = -1
      BY <1>3, <2>1 DEF Kept
    <2>2. CASE end # -1
      <3>1. kept = UpTo(rows, end)
        BY <2>2 DEF Kept
      <3> HIDE DEF kept, rows, end
      <3> QED BY <1>3, <2>2, <3>1, UpToFacts
    <2> QED BY <2>1, <2>2
  <1>6. end \in Int
    BY <1>1, <1>3, BudgetEndType
  <1> HIDE DEF rows, end, kept
  <1>7. /\ export.next \in Nat \ {0} /\ export.batch \in Nat \ {0} /\ Len(day) \in Nat
        /\ Len(rows) \in Nat /\ Len(rows) <= Len(day) - n /\ Len(kept) \in Nat
        /\ Len(rows) = export.batch \/ Len(rows) = Len(day) - n
        /\ Len(rows) <= export.batch
        /\ export'.budget_end = end
        /\ export'.next = IF kept = rows THEN export.next + export.batch ELSE Len(day) + 1
    BY <1>1, <1>2, <1>3, <1>5 DEF Exports, Smaller
  <1>8. /\ Len(events') = n + Len(kept)
        /\ \A i \in 1 .. n : events'[i] = events[i]
        /\ \A i \in 1 .. Len(kept) : events'[n + i] = kept[i]
    <2>1. kept \in Seq(BookUpdate) /\ events \in Seq(BookUpdate)
      BY <1>1, <1>5
    <2> QED BY <1>0, <1>2, <2>1, BehindFacts
  <1>a. /\ n \in Nat /\ Len(kept) \in Nat /\ Len(day) \in Nat /\ n <= Len(day)
        /\ Len(rows) \in Nat /\ Len(rows) <= Len(day) - n /\ Len(kept) <= Len(rows)
        /\ Len(events') = n + Len(kept) /\ export.next = n + 1
    BY <1>1, <1>5, <1>7, <1>8
  <1>9. \A i \in 1 .. Len(kept) : kept[i] = day[n + i] /\ n + i \in 1 .. Len(day)
    <2> SUFFICES ASSUME NEW i \in 1 .. Len(kept)
                 PROVE  kept[i] = day[n + i] /\ n + i \in 1 .. Len(day)
      OBVIOUS
    <2>1. i \in 1 .. Len(rows) /\ kept[i] = rows[i]
      BY <1>5, <1>7
    <2>2. rows[i] = day[export.next - 1 + i] /\ export.next - 1 + i = n + i
      BY <1>1, <1>3, <2>1
    <2>3. n + i \in 1 .. Len(day)
      BY <1>a
    <2> QED BY <2>1, <2>2, <2>3
  <1>10. Len(events') <= Len(day) /\ \A i \in 1 .. Len(events') : events'[i] = day[i]
    <2>1. Len(events') <= Len(day)
      BY <1>1, <1>5, <1>7, <1>8
    <2>2. ASSUME NEW i \in 1 .. Len(events') PROVE events'[i] = day[i]
      <3>1. CASE i <= n
        BY <1>1, <1>8, <2>2, <3>1
      <3>2. CASE i > n
        <4>1. i - n \in 1 .. Len(kept) /\ n + (i - n) = i
          BY <1>a, <2>2, <3>2
        <4>2. events'[n + (i - n)] = kept[i - n] /\ kept[i - n] = day[n + (i - n)]
          BY <1>8, <1>9, <4>1
        <4> QED BY <4>1, <4>2
      <3> QED BY <1>1, <2>2, <3>1, <3>2
    <2> QED BY <2>1, <2>2
  <1>11. ASSUME end # -1 PROVE \A i \in 1 .. Len(events') : events'[i].timestamp <= end
    <2> SUFFICES ASSUME NEW i \in 1 .. Len(events') PROVE events'[i].timestamp <= end
      OBVIOUS
    <2>1. CASE i <= n
      BY <1>1, <1>4, <1>8, <1>11, <2>1
    <2>2. CASE i > n
      <3>1. i - n \in 1 .. Len(kept) /\ n + (i - n) = i
        BY <1>a, <2>2
      <3>2. events'[n + (i - n)] = rows[i - n] /\ ~ (rows[i - n].timestamp > end)
            /\ rows[i - n] \in BookUpdate
        BY <1>3, <1>5, <1>7, <1>8, <1>11, <3>1
      <3>3. rows[i - n].timestamp \in Int
        BY <3>2 DEF BookUpdate
      <3> QED BY <1>6, <3>1, <3>2, <3>3
    <2> QED BY <1>1, <2>1, <2>2
  <1>12. CASE kept = rows
    <2>1. export'.next <= Len(day) => Len(events') = export'.next - 1
      <3>1. /\ export'.next = export.next + export.batch /\ export.batch \in Nat
            /\ Len(kept) = Len(rows) /\ Len(rows) <= export.batch
            /\ Len(rows) = export.batch \/ Len(rows) = Len(day) - n
        BY <1>7, <1>12
      <3> QED BY <1>a, <3>1
    <2>2. export'.next > Len(day) => Len(events') = Len(day)
      <3>1. /\ export'.next = export.next + export.batch /\ export.batch \in Nat
            /\ Len(kept) = Len(rows)
            /\ Len(rows) = export.batch \/ Len(rows) = Len(day) - n
        BY <1>7, <1>12
      <3> QED BY <1>a, <3>1
    <2>3. export'.next > Len(day) => CutBetween'
      BY <1>1, <1>2, <2>2 DEF CutBetween
    <2> QED BY <1>1, <1>2, <1>7, <1>10, <1>11, <2>1, <2>3 DEF ExportInv
  <1>13. CASE kept # rows
    <2>1. Len(kept) < Len(rows) /\ end # -1 /\ rows[Len(kept) + 1].timestamp > end
      BY <1>5, <1>7, <1>13
    <2>2. export'.next = Len(day) + 1
      BY <1>7, <1>13
    <2>3. CutBetween'
      <3> SUFFICES ASSUME NEW e \in 1 .. Len(events'), NEW i \in Len(events') + 1 .. Len(day)
                   PROVE  events'[e].timestamp < day[i].timestamp
        BY <1>2 DEF CutBetween
      <3>0. PICK m : m = n + Len(kept) + 1
        OBVIOUS
      <3>1. m \in 1 .. Len(day) /\ i \in 1 .. Len(day) /\ m <= i
        BY <1>a, <2>1, <3>0
      <3>2. rows[Len(kept) + 1] = day[m]
        <4>1. rows[Len(kept) + 1] = day[export.next - 1 + (Len(kept) + 1)]
          BY <1>3, <1>7, <2>1
        <4>2. export.next - 1 + (Len(kept) + 1) = m
          BY <1>a, <3>0
        <4> QED BY <4>1, <4>2
      <3>3. day[m].timestamp <= day[i].timestamp
        BY <1>1, <3>1 DEF InOrderUpTo
      <3>4. events'[e].timestamp <= end
        BY <1>11, <2>1
      <3>5. day[m].timestamp > end
        BY <2>1, <3>2
      <3>6. events'[e] \in BookUpdate /\ day[m] \in BookUpdate /\ day[i] \in BookUpdate
        <4>1. e \in 1 .. Len(day)
          BY <1>1, <1>7, <1>10
        <4> QED BY <1>1, <1>10, <3>1, <4>1
      <3>7. /\ events'[e].timestamp \in Int /\ day[m].timestamp \in Int
            /\ day[i].timestamp \in Int
        BY <3>6 DEF BookUpdate
      <3> QED BY <1>6, <3>3, <3>4, <3>5, <3>7
    <2>4. ~ (export'.next <= Len(day))
      BY <1>7, <2>2
    <2> QED BY <1>1, <1>2, <1>10, <2>3, <2>4 DEF ExportInv
  <1> QED BY <1>12, <1>13

\* A file that is not written any more stays cut between two milliseconds.
LEMMA CutStays ==
    ASSUME PairingInv, UNCHANGED <<day, events>>, phase' # "exporting_events",
           phase = "exporting_events" => export.next > Len(day)
    PROVE  ExportInv'
  <1>1. CutBetween
    BY DEF PairingInv, ExportInv
  <1>2. CutBetween'
    BY <1>1 DEF CutBetween
  <1> QED BY <1>2 DEF PairingInv, ExportInv

-------------------------------------------------------------------------------
(* The verdicts. *)

LEMMA SeqOfItsRange ==
    ASSUME NEW S, NEW seq \in Seq(S)
    PROVE  seq \in Seq(Range(seq))
  <1>1. \A i \in 1 .. Len(seq) : seq[i] \in Range(seq)
    BY DEF Range
  <1> QED BY <1>1

\* A step that compares no image leaves the verdicts as they are.
LEMMA VerdictsStay ==
    ASSUME PairingInv, UNCHANGED <<events, judged>>, position' \in Nat, position' >= position
    PROVE  /\ judged' \in Seq(Range(judged'))
           /\ (\A i \in 1 .. Len(judged) : IsJudged(judged[i]))'
           /\ Forced' = Forced /\ Unforced' = Unforced
  <1>1. position \in Nat
    BY DEF PairingInv, ReplayInv, StreamTypeOK
  <1>2. judged' = judged /\ judged \in Seq(Range(judged))
    BY DEF PairingInv
  <1>3. ASSUME NEW i \in 1 .. Len(judged) PROVE IsJudged(judged[i])'
    <2>1. IsJudged(judged[i])
      BY DEF PairingInv
    <2>2. judged[i].at \in 1 .. position => judged[i].at \in 1 .. position'
      BY <1>1
    <2>3. At(events, judged[i].at, judged[i].image.timestamp)'
             = At(events, judged[i].at, judged[i].image.timestamp)
      BY <1>2 DEF At
    <2> QED BY <1>2, <2>1, <2>2, <2>3 DEF IsJudged
  <1>4. Forced' = Forced /\ Unforced' = Unforced
    BY <1>2 DEF Forced, Unforced
  <1> QED BY <1>2, <1>3, <1>4

\* One more verdict is counted on its side.
LEMMA OneMoreVerdict ==
    ASSUME judged \in Seq(Range(judged)), NEW j, j.group \in Nat \ {0},
           judged' = Append(judged, j)
    PROVE  /\ judged' \in Seq(Range(judged')) /\ Len(judged') = Len(judged) + 1
           /\ \A i \in 1 .. Len(judged) : judged'[i] = judged[i]
           /\ judged'[Len(judged) + 1] = j
           /\ Cardinality(Forced') = Cardinality(Forced) + Count(j.group = 1)
           /\ Cardinality(Unforced') = Cardinality(Unforced) + Count(j.group > 1)
  <1> DEFINE S == Range(judged) \cup {j}
  <1>1. judged \in Seq(S) /\ j \in S
    <2>1. \A i \in 1 .. Len(judged) : judged[i] \in S
      OBVIOUS
    <2> QED BY <2>1
  <1> HIDE DEF S
  <1>2. /\ judged' \in Seq(S) /\ Len(judged') = Len(judged) + 1
        /\ \A i \in 1 .. Len(judged) : judged'[i] = judged[i]
        /\ judged'[Len(judged) + 1] = j
    BY <1>1
  <1>3. judged' \in Seq(Range(judged'))
    BY <1>2, SeqOfItsRange
  <1>4. PICK n \in Nat : n = Len(judged)
    BY <1>1
  <1>5. 1 .. Len(judged') = (1 .. n) \cup {n + 1}
    BY <1>2, <1>4
  <1>6. IsFiniteSet(1 .. n)
    BY FS_Interval
  <1>7. Cardinality(Forced') = Cardinality(Forced) + Count(j.group = 1)
    <2>1. Forced \in SUBSET (1 .. n)
      BY <1>4 DEF Forced
    <2>2. IsFiniteSet(Forced)
      BY <1>6, <2>1, FS_Subset
    <2>3. n + 1 \notin Forced
      BY <2>1
    <2>4. Cardinality(Forced) \in Nat
      BY <2>2, FS_CardinalityType
    <2>5. CASE j.group = 1
      <3>1. Forced' = Forced \cup {n + 1}
        BY <1>2, <1>4, <1>5, <2>5 DEF Forced
      <3> QED BY <2>2, <2>3, <2>5, <3>1, FS_AddElement DEF Count
    <2>6. CASE j.group # 1
      <3>1. Forced' = Forced
        BY <1>2, <1>4, <1>5, <2>6 DEF Forced
      <3> QED BY <2>4, <2>6, <3>1 DEF Count
    <2> QED BY <2>5, <2>6
  <1>8. Cardinality(Unforced') = Cardinality(Unforced) + Count(j.group > 1)
    <2>1. Unforced \in SUBSET (1 .. n)
      BY <1>4 DEF Unforced
    <2>2. IsFiniteSet(Unforced)
      BY <1>6, <2>1, FS_Subset
    <2>3. n + 1 \notin Unforced
      BY <2>1
    <2>4. Cardinality(Unforced) \in Nat
      BY <2>2, FS_CardinalityType
    <2>5. CASE j.group > 1
      <3>1. Unforced' = Unforced \cup {n + 1}
        BY <1>2, <1>4, <1>5, <2>5 DEF Unforced
      <3> QED BY <2>2, <2>3, <2>5, <3>1, FS_AddElement DEF Count
    <2>6. CASE ~ (j.group > 1)
      <3>1. Unforced' = Unforced
        BY <1>2, <1>4, <1>5, <2>6 DEF Unforced
      <3> QED BY <2>4, <2>6, <3>1 DEF Count
    <2> QED BY <2>5, <2>6
  <1> QED BY <1>2, <1>3, <1>7, <1>8

\* A step that counts nothing.
LEMMA CountersStay ==
    ASSUME PairingInv, UNCHANGED summary, Len(judged') = Len(judged),
           Forced' = Forced, Unforced' = Unforced,
           phase' # "threw" => phase # "threw" /\ (phase' = "catching_up" <=> phase = "catching_up")
    PROVE  CountersInv'
  <1>1. phase' # "threw" => Count(phase = "catching_up")' = Count(phase = "catching_up")
    BY DEF Count
  <1> QED BY <1>1 DEF PairingInv, CountersInv

\* A step that applies no row and compares no image.
LEMMA OtherStepsPair ==
    ASSUME PairingInv, ReplayInv', UNCHANGED <<day, events, position, replayer, judged>>,
           ExportInv', GroupInv', CountersInv',
           reference' \in Seq(ReferenceRow), Exporting' => Exporting,
           phase' = "done" => position = Len(events)
    PROVE  PairingInv'
  <1>1. position \in Nat
    BY DEF PairingInv, ReplayInv, StreamTypeOK
  <1>2. /\ judged' \in Seq(Range(judged'))
        /\ (\A i \in 1 .. Len(judged) : IsJudged(judged[i]))'
    BY <1>1, VerdictsStay
  <1>3. InOrderUpTo(events, position)'
    BY DEF PairingInv, InOrderUpTo
  <1> QED BY <1>2, <1>3 DEF PairingInv

-------------------------------------------------------------------------------
(* The steps. *)

LEMMA PairingInitInv == GivenInit \/ ExportInit => PairingInv
  <1> SUFFICES ASSUME GivenInit \/ ExportInit PROVE PairingInv
    OBVIOUS
  <1>1. ReplayInv
    BY ReplayInitInv
  <1>2. /\ position = 0 /\ judged = <<>> /\ summary = NewSummary
        /\ phase \in {"reading", "exporting_events"}
    BY DEF GivenInit, ValidateInit, ExportInit
  <1>3. judged \in Seq(Range(judged)) /\ InOrderUpTo(events, position) /\ GroupInv
    <2>1. judged \in Seq(Range(judged))
      BY <1>2
    <2>2. InOrderUpTo(events, position)
      BY <1>2 DEF InOrderUpTo
    <2>3. GroupInv
      BY <1>2 DEF GroupInv, AtABoundary
    <2> QED BY <2>1, <2>2, <2>3
  <1>4. CountersInv
    <2>1. Forced = {} /\ Unforced = {} /\ Len(judged) = 0
      BY <1>2 DEF Forced, Unforced
    <2>2. Cardinality(Forced) = 0 /\ Cardinality(Unforced) = 0
      BY <2>1, FS_EmptySet
    <2>3. /\ summary.images = 0 /\ summary.orphan_images = 0
          /\ summary.unambiguous_images = 0 /\ summary.ambiguous_images = 0
      BY <1>2 DEF NewSummary
    <2>4. Count(phase = "catching_up") = 0
      BY <1>2 DEF Count
    <2> QED BY <1>2, <2>1, <2>2, <2>3, <2>4 DEF CountersInv
  <1>5. CASE GivenInit
    <2>1. /\ events = day /\ events \in Seq(BookUpdate) /\ phase = "reading"
          /\ reference \in Seq(ReferenceRow)
      BY <1>5, ValidateAssumption DEF GivenInit, ValidateInit
    <2>2. ExportInv
      BY <2>1 DEF ExportInv, CutBetween
    <2> QED BY <1>1, <1>2, <1>3, <1>4, <2>1, <2>2 DEF PairingInv
  <1>6. CASE ExportInit
    <2>1. PICK files \in Days : day = files[1]
      BY <1>6 DEF ExportInit
    <2>2. /\ day \in Seq(BookUpdate) /\ InOrder(day)
          /\ \A i \in 1 .. Len(day) : day[i].timestamp >= 0
      BY <2>1, ExportAssumption
    <2>3. \A i \in 1 .. Len(day) : day[i].timestamp \in Int
      <3>1. \A i \in 1 .. Len(day) : day[i] \in BookUpdate
        BY <2>2
      <3> QED BY <3>1 DEF BookUpdate
    <2>4. InOrderUpTo(day, Len(day))
      BY <2>2, <2>3, InOrderRows
    <2>5. /\ events = <<>> /\ phase = "exporting_events" /\ reference = <<>>
          /\ export.next = 1 /\ export.budget_end = -1
      BY <1>6 DEF ExportInit
    <2>6. ExportInv
      BY <2>2, <2>4, <2>5 DEF ExportInv, CutBetween
    <2>7. reference \in Seq(ReferenceRow)
      BY <2>5
    <2> QED BY <1>1, <1>2, <1>3, <1>4, <2>6, <2>7 DEF PairingInv
  <1> QED BY <1>5, <1>6

\* BookReplayer::apply refuses a row that is earlier than the last.
LEMMA FeedInOrder ==
    ASSUME PairingInv, HasEvent, Feed, UNCHANGED events
    PROVE  /\ InOrderUpTo(events, position)'
           /\ (position > 0 =>
                 replayer.started /\ replayer.last_timestamp = events[position].timestamp)'
  <1>1. PICK n \in Nat : n = position
    BY DEF PairingInv, ReplayInv, StreamTypeOK
  <1>2. /\ n + 1 \in 1 .. Len(events) /\ Peek = events[n + 1] /\ Peek \in BookUpdate
        /\ replayer \in Replayers /\ InOrderUpTo(events, n)
        /\ n > 0 => replayer.started /\ replayer.last_timestamp = events[n].timestamp
    BY <1>1 DEF PairingInv, ReplayInv, StreamTypeOK, IsReplay, HasEvent, Peek
  <1>3. \A i \in 1 .. n + 1 : events[i].timestamp \in Int
    <2>1. \A i \in 1 .. n + 1 : events[i] \in BookUpdate
      BY <1>1 DEF PairingInv, ReplayInv, StreamTypeOK, HasEvent
    <2> QED BY <2>1 DEF BookUpdate
  <1>4. CASE ErrorOf(replayer, Peek) = NoError
    <2>1. replayer' = Applied(replayer, Peek) /\ position' = n + 1
      BY <1>1, <1>4 DEF Feed
    <2>2. replayer'.started /\ replayer'.last_timestamp = events[n + 1].timestamp
      <3> DEFINE old == Resynced(replayer, Peek)
                 book == AppliedBook(old.book, Peek.side, Peek.price, Peek.quantity)
      <3>1. old \in Replayers
        BY <1>1, <1>2, ResyncedFacts DEF PairingInv, ReplayInv, IsReplay
      <3> HIDE DEF old
      <3>2. Applied(replayer, Peek) =
               [old EXCEPT
                  !.book = book, !.applied = @ + 1,
                  !.snapshot_rows = @ + Count(Peek.is_snapshot),
                  !.removals = @ + Count(Peek.quantity = 0),
                  !.crossed = @ + Count(IsCrossed(book)),
                  !.last_timestamp = Peek.timestamp,
                  !.previous_was_snapshot = Peek.is_snapshot,
                  !.started = TRUE]
        BY DEF Applied, old
      <3> HIDE DEF book
      <3> QED BY <1>2, <2>1, <3>1, <3>2 DEF Replayers
    <2>3. n > 0 => events[n].timestamp <= events[n + 1].timestamp
      BY <1>2, <1>3, <1>4 DEF ErrorOf, NoError
    <2>4. InOrderUpTo(events, n + 1)
      <3> SUFFICES ASSUME NEW i \in 1 .. n + 1, NEW j \in 1 .. n + 1, i <= j
                   PROVE  events[i].timestamp <= events[j].timestamp
        BY DEF InOrderUpTo
      <3>1. CASE j <= n
        BY <1>2, <3>1 DEF InOrderUpTo
      <3>2. CASE j = n + 1 /\ i <= n
        <4>1. events[i].timestamp <= events[n].timestamp
          BY <1>2, <3>2 DEF InOrderUpTo
        <4> QED BY <1>3, <2>3, <3>2, <4>1
      <3>3. CASE j = n + 1 /\ i = n + 1
        BY <1>3, <3>3
      <3> QED BY <3>1, <3>2, <3>3
    <2> QED BY <2>1, <2>2, <2>4
  <1>5. CASE ErrorOf(replayer, Peek) # NoError
    <2>1. replayer' = AfterError(replayer, Peek) /\ position' = n
      BY <1>1, <1>5 DEF Feed
    <2>2. /\ replayer'.started = replayer.started
          /\ replayer'.last_timestamp = replayer.last_timestamp
      <3>1. CASE replayer' = replayer
        BY <3>1
      <3>2. CASE replayer' = [replayer EXCEPT !.book = EmptyBook, !.resyncs = @ + 1]
        BY <1>2, <3>2 DEF Replayers
      <3> QED BY <2>1, <3>1, <3>2 DEF AfterError, Resynced
    <2> QED BY <1>1, <1>2, <2>1, <2>2
  <1> QED BY <1>4, <1>5

\* The group of an image is counted from its first event to its last.
LEMMA ApplyEventGroups ==
    ASSUME PairingInv, ApplyEvent
    PROVE  GroupInv'
  <1>1. PICK n \in Nat : n = position
    BY DEF PairingInv, ReplayInv, StreamTypeOK
  <1>2. /\ HasEvent /\ n < Len(events) /\ Peek = events[n + 1]
        /\ Peek.timestamp <= image.timestamp
        /\ Feed /\ events' = events /\ image' = image /\ phase = "catching_up"
        /\ group' = IF Peek.timestamp = image.timestamp THEN group + 1 ELSE group
        /\ phase' = FeedPhase
    BY <1>1 DEF ApplyEvent, HasEvent, Peek
  <1>3. \A i \in 1 .. n + 1 : events[i].timestamp \in Int
    <2>1. \A i \in 1 .. n + 1 : events[i] \in BookUpdate
      BY <1>1, <1>2 DEF PairingInv, ReplayInv, StreamTypeOK
    <2> QED BY <2>1 DEF BookUpdate
  <1>4. /\ image.timestamp \in Int /\ group \in Nat
        /\ group = 0 => AtABoundary \/ events[n].timestamp < image.timestamp
        /\ group > 0 => /\ n > 0 /\ events[n].timestamp = image.timestamp
                        /\ group = Cardinality(At(events, n, image.timestamp))
    BY <1>1, <1>2 DEF PairingInv, GroupInv
  <1>5. CASE ErrorOf(replayer, Peek) # NoError
    <2>1. phase' = "threw"
      BY <1>2, <1>5 DEF FeedPhase
    <2> QED BY <2>1 DEF GroupInv
  <1>6. CASE ErrorOf(replayer, Peek) = NoError
    <2>1. phase' = "catching_up" /\ position' = n + 1
      BY <1>1, <1>2, <1>6 DEF Feed, FeedPhase
    <2>2. InOrderUpTo(events, n + 1)
      <3>1. InOrderUpTo(events, position)'
        BY <1>2, FeedInOrder
      <3> QED BY <1>2, <2>1, <3>1 DEF InOrderUpTo
    <2>3. CASE events[n + 1].timestamp < image.timestamp
      <3>1. group = 0
        <4>1. n > 0 => events[n].timestamp <= events[n + 1].timestamp
          BY <2>2 DEF InOrderUpTo
        <4> QED BY <1>3, <1>4, <2>3, <4>1
      <3>2. group' = 0
        BY <1>2, <2>3, <3>1, <1>3, <1>4
      <3> QED BY <1>2, <1>4, <2>1, <2>3, <3>2 DEF GroupInv
    <2>4. CASE events[n + 1].timestamp = image.timestamp
      <3>1. group' = group + 1
        BY <1>2, <2>4
      <3>2. Cardinality(At(events, n + 1, image.timestamp)) = group + 1
        <4>1. CASE group > 0
          BY <1>4, <2>4, <4>1, AtFacts
        <4>2. CASE group = 0
          <5>1. \A i \in 1 .. n : events[i].timestamp # image.timestamp
            <6> SUFFICES ASSUME NEW i \in 1 .. n
                         PROVE  events[i].timestamp < image.timestamp
              BY <1>3, <1>4
            <6>1. n > 0 /\ n < Len(events)
              BY <1>2
            <6>2. events[n].timestamp < image.timestamp
              BY <1>1, <1>4, <2>4, <4>2, <6>1 DEF AtABoundary
            <6>3. events[i].timestamp <= events[n].timestamp
              BY <2>2, <6>1 DEF InOrderUpTo
            <6> QED BY <1>3, <1>4, <6>1, <6>2, <6>3
          <5>2. Cardinality(At(events, n, image.timestamp)) = 0
            BY <5>1, AtFacts
          <5> QED BY <2>4, <4>2, <5>2, AtFacts
        <4> QED BY <1>4, <4>1, <4>2
      <3>3. group' \in Nat /\ group' > 0
        BY <1>4, <3>1
      <3>4. At(events, position, image.timestamp)' = At(events, n + 1, image.timestamp)
        BY <1>2, <2>1 DEF At
      <3> QED BY <1>2, <1>4, <2>1, <2>4, <3>1, <3>2, <3>3, <3>4 DEF GroupInv
    <2> QED BY <1>2, <1>3, <1>4, <2>3, <2>4
  <1> QED BY <1>5, <1>6

LEMMA FeedPairs ==
    ASSUME PairingInv, ReplayInv', HasEvent, Feed, phase' = FeedPhase,
           phase \in {"reading", "catching_up"}, GroupInv',
           UNCHANGED <<day, events, reference, summary, judged>>
    PROVE  PairingInv'
  <1>1. position \in Nat /\ position' \in Nat /\ position' >= position
    <2>1. position \in Nat /\ position' \in Nat
      BY DEF PairingInv, ReplayInv, StreamTypeOK
    <2>2. position' = position \/ position' = position + 1
      BY DEF Feed
    <2> QED BY <2>1, <2>2
  <1>2. phase' = phase \/ phase' = "threw"
    BY DEF FeedPhase
  <1>3. /\ judged' \in Seq(Range(judged'))
        /\ (\A i \in 1 .. Len(judged) : IsJudged(judged[i]))'
        /\ Forced' = Forced /\ Unforced' = Unforced
    BY <1>1, VerdictsStay
  <1>4. CountersInv'
    BY <1>2, <1>3, CountersStay
  <1>5. ExportInv'
    BY <1>2, CutStays
  <1>6. /\ InOrderUpTo(events, position)'
        /\ (position > 0 =>
              replayer.started /\ replayer.last_timestamp = events[position].timestamp)'
    BY FeedInOrder
  <1>7. ~ Exporting' /\ phase' # "done" /\ reference' \in Seq(ReferenceRow)
    BY <1>2 DEF Exporting, PairingInv
  <1> QED BY <1>3, <1>4, <1>5, <1>6, <1>7 DEF PairingInv

\* The rows of the next image are at the front of the reference.
LEMMA ImageRowsFacts ==
    ASSUME reference \in Seq(ReferenceRow)
    PROVE  ImageRows \in Seq(ReferenceRow) /\ Len(ImageRows) \in Nat
  <1> DEFINE T == {i \in 1 .. Len(reference) : reference[i].timestamp # reference[1].timestamp}
             next == SelectInSeq(reference,
                                 LAMBDA row : row.timestamp # reference[1].timestamp)
  <1>1. next = IF T # {} THEN Min(T) ELSE 0
    BY DEF SelectInSeq
  <1>2. ImageRows = IF next = 0 THEN reference ELSE SubSeq(reference, 1, next - 1)
    BY DEF ImageRows
  <1>3. T \in SUBSET Nat /\ T \subseteq 1 .. Len(reference)
    OBVIOUS
  <1> HIDE DEF T, next
  <1>4. next = 0 \/ next \in 1 .. Len(reference)
    <2>1. T # {} => Min(T) \in T
      BY <1>3, MinIsLeast
    <2> QED BY <1>1, <1>3, <2>1
  <1> QED BY <1>2, <1>4

LEMMA ReadImagePairs ==
    ASSUME PairingInv, ReplayInv', ReadImage, UNCHANGED day
    PROVE  PairingInv'
  <1>1. /\ phase = "reading" /\ phase' = "catching_up" /\ reference # <<>>
        /\ reference \in Seq(ReferenceRow)
        /\ reference' = SubSeq(reference, Len(ImageRows) + 1, Len(reference))
        /\ image'.timestamp = reference[1].timestamp /\ group' = 0
        /\ UNCHANGED <<events, position, replayer, judged>>
    BY DEF ReadImage, PairingInv
  <1>2. reference' \in Seq(ReferenceRow)
    <2>1. Len(ImageRows) + 1 \in Nat /\ Len(ImageRows) + 1 >= 1
      BY <1>1, ImageRowsFacts
    <2> HIDE DEF ImageRows
    <2> QED BY <1>1, <2>1
  <1>3. image'.timestamp \in Int
    <2>1. reference[1] \in ReferenceRow
      BY <1>1
    <2> QED BY <1>1, <2>1 DEF ReferenceRow
  <1>4. GroupInv'
    <2>1. AtABoundary'
      BY <1>1 DEF PairingInv, GroupInv, AtABoundary
    <2> QED BY <1>1, <1>3, <2>1 DEF GroupInv
  <1>5. CountersInv'
    <2>1. CountersInv
      BY DEF PairingInv
    <2>2. /\ DOMAIN summary' = DOMAIN summary
          /\ summary'.images = summary.images + 1
          /\ summary'.orphan_images = summary.orphan_images
          /\ summary'.unambiguous_images = summary.unambiguous_images
          /\ summary'.ambiguous_images = summary.ambiguous_images
      <3> DEFINE rows == summary.reference_rows + Len(ImageRows)
      <3>1. summary' = [summary EXCEPT !.images = @ + 1, !.reference_rows = rows]
        BY DEF ReadImage
      <3> HIDE DEF rows
      <3> QED BY <2>1, <3>1 DEF CountersInv, NewSummary
    <2>3. Forced' = Forced /\ Unforced' = Unforced /\ Len(judged') = Len(judged)
      BY <1>1 DEF Forced, Unforced
    <2>4. Count(phase = "catching_up") = 0 /\ Count(phase = "catching_up")' = 1
      BY <1>1 DEF Count
    <2>5. Len(judged) \in Nat
      BY DEF PairingInv
    <2> QED BY <1>1, <2>1, <2>2, <2>3, <2>4, <2>5 DEF CountersInv
  <1>6. ExportInv'
    BY <1>1, CutStays
  <1> QED BY <1>1, <1>2, <1>4, <1>5, <1>6, OtherStepsPair DEF Exporting

\* An image is left behind between two milliseconds.
LEMMA LeavesAtABoundary ==
    ASSUME PairingInv, CaughtUp, UNCHANGED <<events, position>>, phase' = "reading"
    PROVE  GroupInv'
  <1>1. AtABoundary
    <2>1. PICK n \in Nat : n = position
      BY DEF PairingInv, ReplayInv, StreamTypeOK
    <2>2. n <= Len(events) /\ phase = "catching_up"
      BY <2>1 DEF PairingInv, ReplayInv, StreamTypeOK, CaughtUp
    <2>3. CASE n = 0 \/ n = Len(events)
      BY <2>1, <2>3 DEF AtABoundary
    <2>4. CASE n > 0 /\ n < Len(events)
      <3>1. events[n] \in BookUpdate /\ events[n + 1] \in BookUpdate
        BY <2>4 DEF PairingInv, ReplayInv, StreamTypeOK
      <3>2. events[n].timestamp \in Int /\ events[n + 1].timestamp \in Int
        BY <3>1 DEF BookUpdate
      <3>3. /\ image.timestamp \in Int /\ group \in Nat
            /\ group = 0 => AtABoundary \/ events[n].timestamp < image.timestamp
            /\ group > 0 => events[n].timestamp = image.timestamp
        BY <2>1, <2>2 DEF PairingInv, GroupInv
      <3>4. ~ (events[n + 1].timestamp <= image.timestamp)
        BY <2>1, <2>4 DEF CaughtUp, HasEvent, Peek
      <3>5. AtABoundary \/ events[n].timestamp < events[n + 1].timestamp
        BY <3>2, <3>3, <3>4
      <3> QED BY <2>1, <3>5 DEF AtABoundary
    <2> QED BY <2>1, <2>2, <2>3, <2>4
  <1>2. AtABoundary'
    BY <1>1 DEF AtABoundary
  <1> QED BY <1>2 DEF GroupInv

LEMMA SkipOrphanPairs ==
    ASSUME PairingInv, ReplayInv', SkipOrphan, UNCHANGED day
    PROVE  PairingInv'
  <1>1. /\ CaughtUp /\ phase = "catching_up" /\ phase' = "reading"
        /\ summary' = [summary EXCEPT !.orphan_images = @ + 1]
        /\ UNCHANGED <<events, position, reference, replayer, judged>>
    BY DEF SkipOrphan, CaughtUp
  <1>2. GroupInv'
    BY <1>1, LeavesAtABoundary
  <1>3. CountersInv'
    <2>1. CountersInv
      BY DEF PairingInv
    <2>2. /\ DOMAIN summary' = DOMAIN summary
          /\ summary'.images = summary.images
          /\ summary'.orphan_images = summary.orphan_images + 1
          /\ summary'.unambiguous_images = summary.unambiguous_images
          /\ summary'.ambiguous_images = summary.ambiguous_images
      BY <1>1, <2>1 DEF CountersInv, NewSummary
    <2>3. Forced' = Forced /\ Unforced' = Unforced /\ Len(judged') = Len(judged)
      BY <1>1 DEF Forced, Unforced
    <2>4. Count(phase = "catching_up") = 1 /\ Count(phase = "catching_up")' = 0
      BY <1>1 DEF Count
    <2>5. Len(judged) \in Nat
      BY DEF PairingInv
    <2> QED BY <1>1, <2>1, <2>2, <2>3, <2>4, <2>5 DEF CountersInv
  <1>4. ExportInv'
    BY <1>1, CutStays
  <1>5. reference' \in Seq(ReferenceRow)
    BY <1>1 DEF PairingInv
  <1> QED BY <1>1, <1>2, <1>3, <1>4, <1>5, OtherStepsPair DEF Exporting

\* The counters of a compared image go with its verdict.
LEMMA CompareCounts ==
    ASSUME PairingInv, Compare
    PROVE  /\ DOMAIN summary' = DOMAIN summary
           /\ summary'.images = summary.images
           /\ summary'.orphan_images = summary.orphan_images
           /\ group > 1 =>
                 /\ summary'.unambiguous_images = summary.unambiguous_images
                 /\ summary'.ambiguous_images = summary.ambiguous_images + 1
           /\ ~ (group > 1) =>
                 /\ summary'.unambiguous_images = summary.unambiguous_images + 1
                 /\ summary'.ambiguous_images = summary.ambiguous_images
  <1> DEFINE clean == AppendIf(SampleLabel # "none", summary.sample_clean_timestamps,
                               image.timestamp)
             wrong == Count(Diff # {})
  <1>1. DOMAIN summary = DOMAIN NewSummary
    BY DEF PairingInv, CountersInv
  <1>2. PICK s : s = [summary EXCEPT !.sample_clean_timestamps = clean]
    OBVIOUS
  <1>3. summary' = Counted(s)
    BY <1>2 DEF Compare
  <1> HIDE DEF clean, wrong
  <1>4. /\ DOMAIN s = DOMAIN NewSummary /\ s.images = summary.images
        /\ s.orphan_images = summary.orphan_images
        /\ s.unambiguous_images = summary.unambiguous_images
        /\ s.ambiguous_images = summary.ambiguous_images
    BY <1>1, <1>2 DEF NewSummary
  <1>5. CASE group > 1
    <2> DEFINE mismatches == s.ambiguous_mismatches + wrong
               samples == IF Diff = {} THEN s.sample_ambiguous_timestamps
                          ELSE AppendUpTo(s.sample_ambiguous_timestamps, MaxSamples,
                                          image.timestamp)
    <2>1. summary' = [s EXCEPT !.ambiguous_images = @ + 1,
                               !.ambiguous_mismatches = mismatches,
                               !.sample_ambiguous_timestamps = samples]
      BY <1>3, <1>5 DEF Counted, wrong
    <2> HIDE DEF mismatches, samples
    <2> QED BY <1>1, <1>4, <1>5, <2>1 DEF NewSummary
  <1>6. CASE ~ (group > 1)
    <2> DEFINE mismatches == s.unambiguous_mismatches + wrong
               differences == [kind \in DiffKind |-> s.differences[kind] + DiffsOf(kind)]
               samples == IF Diff = {} THEN s.sample_mismatch_timestamps
                          ELSE AppendUpTo(s.sample_mismatch_timestamps, MaxSamples,
                                          image.timestamp)
    <2>1. summary' = [s EXCEPT !.unambiguous_images = @ + 1,
                               !.unambiguous_mismatches = mismatches,
                               !.differences = differences,
                               !.sample_mismatch_timestamps = samples]
      BY <1>3, <1>6 DEF Counted, wrong
    <2> HIDE DEF mismatches, differences, samples
    <2> QED BY <1>1, <1>4, <1>6, <2>1 DEF NewSummary
  <1> QED BY <1>5, <1>6

LEMMA ComparePairs ==
    ASSUME PairingInv, ReplayInv', Compare, UNCHANGED day
    PROVE  PairingInv'
  <1> DEFINE j == [image |-> image, at |-> position, group |-> group]
  <1>1. /\ CaughtUp /\ group > 0 /\ phase = "catching_up" /\ phase' = "reading"
        /\ judged' = Append(judged, j)
        /\ UNCHANGED <<events, position, reference, replayer>>
    BY DEF Compare, CaughtUp
  <1>2. /\ image.timestamp \in Int /\ group \in Nat \ {0} /\ position > 0
        /\ events[position].timestamp = image.timestamp
        /\ group = Cardinality(At(events, position, image.timestamp))
        /\ position \in 1 .. Len(events)
    BY <1>1 DEF PairingInv, GroupInv, ReplayInv, StreamTypeOK
  <1>3. position < Len(events) => image.timestamp < events[position + 1].timestamp
    <2> SUFFICES ASSUME position < Len(events)
                 PROVE  image.timestamp < events[position + 1].timestamp
      OBVIOUS
    <2>1. events[position + 1] \in BookUpdate
      BY <1>2 DEF PairingInv, ReplayInv, StreamTypeOK
    <2>2. events[position + 1].timestamp \in Int
      BY <2>1 DEF BookUpdate
    <2>3. ~ (events[position + 1].timestamp <= image.timestamp)
      BY <1>1 DEF CaughtUp, HasEvent, Peek
    <2> QED BY <1>2, <2>2, <2>3
  <1>4. /\ j.image.timestamp = image.timestamp /\ j.at = position /\ j.group = group
    OBVIOUS
  <1>5. IsJudged(j)
    BY <1>2, <1>3, <1>4 DEF IsJudged
  <1>6. judged \in Seq(Range(judged)) /\ j.group \in Nat \ {0}
    BY <1>2, <1>4 DEF PairingInv
  <1> HIDE DEF j
  <1>7. /\ judged' \in Seq(Range(judged')) /\ Len(judged') = Len(judged) + 1
        /\ \A i \in 1 .. Len(judged) : judged'[i] = judged[i]
        /\ judged'[Len(judged) + 1] = j
        /\ Cardinality(Forced') = Cardinality(Forced) + Count(j.group = 1)
        /\ Cardinality(Unforced') = Cardinality(Unforced) + Count(j.group > 1)
    BY <1>1, <1>6, OneMoreVerdict
  <1>8. (\A i \in 1 .. Len(judged) : IsJudged(judged[i]))'
    <2>1. Len(judged) \in Nat
      BY <1>6
    <2>2. ASSUME NEW i \in 1 .. Len(judged') PROVE IsJudged(judged'[i])
      <3>1. CASE i <= Len(judged)
        <4>1. i \in 1 .. Len(judged) /\ judged'[i] = judged[i]
          BY <1>7, <2>1, <2>2, <3>1
        <4> QED BY <4>1 DEF PairingInv
      <3>2. CASE i = Len(judged) + 1
        BY <1>5, <1>7, <3>2
      <3> QED BY <1>7, <2>1, <2>2, <3>1, <3>2
    <2>3. ASSUME NEW i \in 1 .. Len(judged') PROVE IsJudged(judged[i])'
      <3>1. IsJudged(judged'[i])
        BY <2>2
      <3>2. At(events, judged[i].at, judged[i].image.timestamp)'
               = At(events, judged'[i].at, judged'[i].image.timestamp)
        BY <1>1 DEF At
      <3> QED BY <1>1, <3>1, <3>2 DEF IsJudged
    <2> QED BY <2>3
  <1>9. CountersInv'
    <2>1. /\ DOMAIN summary' = DOMAIN summary
          /\ summary'.images = summary.images
          /\ summary'.orphan_images = summary.orphan_images
          /\ group > 1 =>
                /\ summary'.unambiguous_images = summary.unambiguous_images
                /\ summary'.ambiguous_images = summary.ambiguous_images + 1
          /\ ~ (group > 1) =>
                /\ summary'.unambiguous_images = summary.unambiguous_images + 1
                /\ summary'.ambiguous_images = summary.ambiguous_images
      BY CompareCounts
    <2>2. CountersInv
      BY DEF PairingInv
    <2>3. Count(phase = "catching_up") = 1 /\ Count(phase = "catching_up")' = 0
      BY <1>1 DEF Count
    <2>4. Cardinality(Forced) \in Nat /\ Cardinality(Unforced) \in Nat /\ Len(judged) \in Nat
      <3>1. Len(judged) \in Nat
        BY <1>6
      <3>2. IsFiniteSet(1 .. Len(judged))
        BY <3>1, FS_Interval
      <3>3. Forced \in SUBSET (1 .. Len(judged)) /\ Unforced \in SUBSET (1 .. Len(judged))
        BY DEF Forced, Unforced
      <3>4. IsFiniteSet(Forced) /\ IsFiniteSet(Unforced)
        BY <3>2, <3>3, FS_Subset
      <3> QED BY <3>1, <3>4, FS_CardinalityType
    <2>5. DOMAIN summary' = DOMAIN NewSummary
      BY <2>1, <2>2 DEF CountersInv
    <2>6. /\ summary'.images \in Int /\ summary'.orphan_images \in Int
          /\ summary'.images = Len(judged') + summary'.orphan_images + 0
      BY <1>1, <1>7, <2>1, <2>2, <2>3, <2>4 DEF CountersInv
    <2>7. /\ summary'.unambiguous_images = Cardinality(Forced')
          /\ summary'.ambiguous_images = Cardinality(Unforced')
      <3>1. /\ summary.unambiguous_images = Cardinality(Forced)
            /\ summary.ambiguous_images = Cardinality(Unforced)
        BY <2>2 DEF CountersInv
      <3>2. CASE group > 1
        <4>1. Count(j.group = 1) = 0 /\ Count(j.group > 1) = 1
          BY <1>2, <1>4, <3>2 DEF Count
        <4> QED BY <1>7, <2>1, <2>4, <3>1, <3>2, <4>1
      <3>3. CASE group = 1
        <4>1. Count(j.group = 1) = 1 /\ Count(j.group > 1) = 0 /\ ~ (group > 1)
          BY <1>4, <3>3 DEF Count
        <4> QED BY <1>7, <2>1, <2>4, <3>1, <4>1
      <3> QED BY <1>2, <3>2, <3>3
    <2> QED BY <2>3, <2>5, <2>6, <2>7 DEF CountersInv
  <1>10. GroupInv'
    BY <1>1, LeavesAtABoundary
  <1>11. ExportInv'
    BY <1>1, CutStays
  <1>12. /\ reference' \in Seq(ReferenceRow) /\ InOrderUpTo(events, position)'
         /\ (position > 0 =>
               replayer.started /\ replayer.last_timestamp = events[position].timestamp)'
         /\ ~ Exporting' /\ phase' # "done"
    BY <1>1 DEF PairingInv, InOrderUpTo, Exporting
  <1> QED BY <1>7, <1>8, <1>9, <1>10, <1>11, <1>12 DEF PairingInv

LEMMA LastStepsPair ==
    ASSUME PairingInv, ReplayInv', ReadFails \/ Finish, UNCHANGED day
    PROVE  PairingInv'
  <1>1. /\ phase = "reading" /\ phase' \in {"malformed", "done"}
        /\ phase' = "done" => position = Len(events)
        /\ UNCHANGED <<events, position, reference, replayer, judged>>
    BY DEF ReadFails, Finish, HasEvent, PairingInv, ReplayInv, StreamTypeOK
  <1>2. /\ DOMAIN summary' = DOMAIN summary
        /\ summary'.images = summary.images
        /\ summary'.orphan_images = summary.orphan_images
        /\ summary'.unambiguous_images = summary.unambiguous_images
        /\ summary'.ambiguous_images = summary.ambiguous_images
    <2>1. DOMAIN summary = DOMAIN NewSummary
      BY DEF PairingInv, CountersInv
    <2>2. \/ summary' = summary
          \/ summary' = [summary EXCEPT !.sample_clean_timestamps = <<>>]
      BY DEF ReadFails, Finish
    <2> QED BY <2>1, <2>2 DEF NewSummary
  <1>3. CountersInv'
    <2>1. Forced' = Forced /\ Unforced' = Unforced /\ Len(judged') = Len(judged)
      BY <1>1 DEF Forced, Unforced
    <2>2. Count(phase = "catching_up") = 0 /\ Count(phase = "catching_up")' = 0
      BY <1>1 DEF Count
    <2> QED BY <1>1, <1>2, <2>1, <2>2 DEF PairingInv, CountersInv
  <1>4. ExportInv' /\ GroupInv'
    <2>1. ExportInv'
      BY <1>1, CutStays
    <2>2. GroupInv'
      BY <1>1 DEF GroupInv
    <2> QED BY <2>1, <2>2
  <1>5. reference' \in Seq(ReferenceRow)
    BY <1>1 DEF PairingInv
  <1> QED BY <1>1, <1>3, <1>4, <1>5, OtherStepsPair DEF Exporting

\* While files are written nothing is applied and nothing is compared.
LEMMA ExportStepsPair ==
    ASSUME PairingInv, ReplayInv', ExportEvents \/ EndEvents \/ ExportImages \/ EndImages
    PROVE  PairingInv'
  <1>1. /\ Exporting /\ position = 0 /\ judged = <<>> /\ reference \in Seq(ReferenceRow)
        /\ events \in Seq(BookUpdate) /\ images \in Seq(ReferenceRow) /\ export \in Exports
    BY DEF PairingInv, ReplayInv, StreamTypeOK, Exporting,
           ExportEvents, EndEvents, ExportImages, EndImages
  <1>2. /\ UNCHANGED <<position, replayer, judged, summary>>
        /\ phase' \in {"exporting_events", "no_export", "exporting_images", "reading"}
    BY DEF ExportEvents, EndEvents, ExportImages, EndImages
  <1>3. GroupInv'
    BY <1>1, <1>2 DEF GroupInv, AtABoundary
  <1>4. CountersInv'
    <2>1. Forced' = Forced /\ Unforced' = Unforced /\ Len(judged') = Len(judged)
      BY <1>2 DEF Forced, Unforced
    <2>2. phase # "threw" /\ phase # "catching_up"
      BY <1>1 DEF Exporting
    <2> QED BY <1>2, <2>1, <2>2, CountersStay
  <1>5. CASE ExportEvents
    <2>1. ExportInv'
      BY <1>5, ExportEventsCuts
    <2>2. UNCHANGED reference /\ phase' = phase /\ phase' # "done"
      BY <1>2, <1>5 DEF ExportEvents
    <2>3. InOrderUpTo(events, position)'
      BY <1>1, <1>2 DEF InOrderUpTo
    <2>4. /\ judged' \in Seq(Range(judged'))
          /\ (\A i \in 1 .. Len(judged) : IsJudged(judged[i]))'
      BY <1>1, <1>2
    <2>5. (position > 0 =>
             replayer.started /\ replayer.last_timestamp = events[position].timestamp)'
      BY <1>1, <1>2
    <2>6. judged' = <<>> /\ reference' \in Seq(ReferenceRow)
      BY <1>1, <1>2, <2>2
    <2> QED BY <1>3, <1>4, <2>1, <2>2, <2>3, <2>4, <2>5, <2>6 DEF PairingInv
  <1>6. CASE EndEvents
    <2>1. ExportInv'
      BY <1>6, CutStays DEF EndEvents
    <2> QED BY <1>1, <1>2, <1>3, <1>4, <1>6, <2>1, OtherStepsPair DEF EndEvents
  <1>7. CASE ExportImages
    <2>1. ExportInv'
      BY <1>7, CutStays DEF ExportImages
    <2>2. reference' \in Seq(ReferenceRow)
      <3> DEFINE rows == Batch(images)
                 kept == UpTo(rows, LastTimestamp(events))
      <3>1. rows \in Seq(ReferenceRow)
        BY <1>1, BatchFacts
      <3>2. kept \in Seq(ReferenceRow)
        BY <3>1, UpToFacts
      <3>3. reference' = reference \o kept
        BY <1>7 DEF ExportImages
      <3> HIDE DEF kept
      <3> QED BY <1>1, <3>2, <3>3
    <2> QED BY <1>1, <1>2, <1>3, <1>4, <1>7, <2>1, <2>2, OtherStepsPair DEF ExportImages
  <1>8. CASE EndImages
    <2>1. ExportInv'
      BY <1>8, CutStays DEF EndImages
    <2> QED BY <1>1, <1>2, <1>3, <1>4, <1>8, <2>1, OtherStepsPair DEF EndImages
  <1> QED BY <1>5, <1>6, <1>7, <1>8

LEMMA ValidateStepsPair ==
    ASSUME PairingInv, ReplayInv', ValidateNext, UNCHANGED exportVars
    PROVE  PairingInv'
  <1>1. UNCHANGED day
    BY DEF exportVars
  <1>2. CASE ReadImage
    BY <1>1, <1>2, ReadImagePairs
  <1>3. CASE ApplyEvent
    <2>1. GroupInv'
      BY <1>3, ApplyEventGroups
    <2> QED BY <1>1, <1>3, <2>1, FeedPairs DEF ApplyEvent
  <1>4. CASE Drain
    <2>1. phase' \in {"reading", "threw"} /\ reference' = <<>>
      BY <1>4 DEF Drain, FeedPhase
    <2>2. GroupInv'
      BY <2>1 DEF GroupInv
    <2> QED BY <1>1, <1>4, <2>2, FeedPairs DEF Drain
  <1>5. CASE SkipOrphan
    BY <1>1, <1>5, SkipOrphanPairs
  <1>6. CASE Compare
    BY <1>1, <1>6, ComparePairs
  <1>7. CASE ReadFails \/ Finish
    BY <1>1, <1>7, LastStepsPair
  <1> QED BY <1>2, <1>3, <1>4, <1>5, <1>6, <1>7 DEF ValidateNext

LEMMA StutterPairs ==
    ASSUME PairingInv, ReplayInv', UNCHANGED exportedVars
    PROVE  PairingInv'
  <1>1. UNCHANGED <<day, export, events, position, reference, image, group, replayer, summary,
                    phase, judged>>
    BY DEF exportedVars, validateVars, exportVars
  <1>2. CutBetween' = CutBetween
    BY <1>1 DEF CutBetween
  <1>3. ExportInv'
    BY <1>1, <1>2 DEF PairingInv, ExportInv, InOrderUpTo
  <1>4. GroupInv'
    BY <1>1 DEF PairingInv, GroupInv, AtABoundary, At
  <1>5. CountersInv'
    BY <1>1 DEF PairingInv, CountersInv, Forced, Unforced, Count
  <1>6. reference' \in Seq(ReferenceRow) /\ Exporting' = Exporting
    BY <1>1 DEF PairingInv, Exporting
  <1>7. phase' = "done" => position = Len(events)
    BY <1>1 DEF PairingInv
  <1> QED BY <1>1, <1>3, <1>4, <1>5, <1>6, <1>7, OtherStepsPair

(* At every step the stream stands where the image in hand needs it: the   *)
(* group is counted from its first event, and every verdict was on a whole *)
(* group of a file that is cut between two milliseconds.                   *)
THEOREM PairingInvariant == ExportSpec => []PairingInv
  <1>1. GivenInit \/ ExportInit => PairingInv
    BY PairingInitInv
  <1>2. PairingInv /\ ReplayInv' /\ [ExportNext]_exportedVars => PairingInv'
    BY ExportStepsPair, ValidateStepsPair, StutterPairs DEF ExportNext
  <1>3. ExportSpec => []ReplayInv
    BY ReplayInvariant
  <1> QED BY <1>1, <1>2, <1>3, PTL DEF ExportSpec

\* When all is done, the rows of an image's time are those before its verdict.
LEMMA JudgedAt ==
    ASSUME PairingInv, phase = "done", NEW i \in 1 .. Len(judged)
    PROVE  /\ judged[i].at \in 1 .. Len(events) /\ judged[i].at \in 1 .. Len(day)
           /\ EventsAt(judged[i].image.timestamp)
                 = At(events, judged[i].at, judged[i].image.timestamp)
           /\ {e \in 1 .. Len(day) : day[e].timestamp <= judged[i].image.timestamp}
                 = 1 .. judged[i].at
           /\ SubSeq(day, 1, judged[i].at) = SubSeq(events, 1, judged[i].at)
  <1>1. PICK at, t : at = judged[i].at /\ t = judged[i].image.timestamp
    OBVIOUS
  <1>2. /\ at \in 1 .. Len(events) /\ t = events[at].timestamp
        /\ at < Len(events) => t < events[at + 1].timestamp
        /\ judged[i].group = Cardinality(At(events, at, t))
        /\ position = Len(events)
    <2>1. IsJudged(judged[i])
      BY DEF PairingInv
    <2> QED BY <1>1, <2>1 DEF IsJudged, PairingInv
  <1>3. /\ day \in Seq(BookUpdate) /\ events \in Seq(BookUpdate)
        /\ Len(events) <= Len(day) /\ \A e \in 1 .. Len(events) : events[e] = day[e]
        /\ CutBetween /\ InOrderUpTo(events, Len(events))
    BY <1>2 DEF PairingInv, ReplayInv, StreamTypeOK, ExportInv
  <1>4. \A e \in 1 .. Len(day) : day[e].timestamp \in Int
    <2>1. \A e \in 1 .. Len(day) : day[e] \in BookUpdate
      BY <1>3
    <2> QED BY <2>1 DEF BookUpdate
  <1>5. PICK n, m \in Nat : n = Len(events) /\ m = Len(day)
    BY <1>3
  <1>6. /\ at \in 1 .. n /\ n <= m /\ t \in Int /\ t = day[at].timestamp
        /\ \A e \in 1 .. n : events[e] = day[e]
    BY <1>2, <1>3, <1>4, <1>5
  <1>7. \A e \in 1 .. at : day[e].timestamp <= t
    <2> SUFFICES ASSUME NEW e \in 1 .. at PROVE day[e].timestamp <= t
      OBVIOUS
    <2>1. e \in 1 .. n /\ e <= at
      BY <1>6
    <2>2. events[e].timestamp <= events[at].timestamp
      BY <1>3, <1>5, <1>6, <2>1 DEF InOrderUpTo
    <2> QED BY <1>2, <1>6, <2>1, <2>2
  <1>8. \A e \in at + 1 .. m : t < day[e].timestamp
    <2> SUFFICES ASSUME NEW e \in at + 1 .. m PROVE t < day[e].timestamp
      OBVIOUS
    <2>1. e \in 1 .. m /\ at + 1 <= e
      BY <1>5, <1>6
    <2>2. CASE e <= n
      <3>1. e \in 1 .. n /\ at + 1 \in 1 .. n /\ at < n /\ events[e] = day[e]
        BY <1>5, <1>6, <2>1, <2>2
      <3>2. events[at + 1].timestamp <= events[e].timestamp
        BY <1>3, <1>5, <2>1, <3>1 DEF InOrderUpTo
      <3>3. t < events[at + 1].timestamp /\ events[at + 1] = day[at + 1]
        BY <1>2, <1>5, <1>6, <3>1
      <3>4. /\ day[e].timestamp \in Int /\ day[at + 1].timestamp \in Int
        BY <1>4, <1>5, <1>6, <2>1, <3>1
      <3> QED BY <1>6, <3>1, <3>2, <3>3, <3>4
    <2>3. CASE e > n
      <3>1. e \in n + 1 .. m
        BY <1>5, <2>1, <2>3
      <3>2. events[at].timestamp < day[e].timestamp
        BY <1>3, <1>5, <1>6, <3>1 DEF CutBetween
      <3> QED BY <1>2, <3>2
    <2> QED BY <1>5, <2>1, <2>2, <2>3
  <1>9. \A e \in 1 .. m : e <= at \/ e \in at + 1 .. m
    BY <1>5, <1>6
  <1>10. EventsAt(t) = At(events, at, t)
    <2>1. \A e \in 1 .. m : day[e].timestamp = t => e \in 1 .. at
      BY <1>4, <1>5, <1>6, <1>8, <1>9
    <2>2. \A e \in 1 .. at : e \in 1 .. m /\ events[e] = day[e]
      BY <1>5, <1>6
    <2> QED BY <1>5, <2>1, <2>2 DEF EventsAt, At
  <1>11. {e \in 1 .. Len(day) : day[e].timestamp <= t} = 1 .. at
    <2>1. \A e \in 1 .. m : day[e].timestamp <= t => e \in 1 .. at
      BY <1>4, <1>5, <1>6, <1>8, <1>9
    <2>2. \A e \in 1 .. at : e \in 1 .. m
      BY <1>5, <1>6
    <2> QED BY <1>5, <1>7, <2>1, <2>2
  <1>12. at \in 1 .. Len(day)
    BY <1>5, <1>6
  <1>13. SubSeq(day, 1, at) = SubSeq(events, 1, at)
    <2>1. SubSeq(day, 1, at) = [e \in 1 .. at |-> day[e]]
      BY <1>3, <1>12
    <2>2. SubSeq(events, 1, at) = [e \in 1 .. at |-> events[e]]
      BY <1>2, <1>3
    <2>3. \A e \in 1 .. at : events[e] = day[e]
      BY <1>5, <1>6
    <2> QED BY <2>1, <2>2, <2>3
  <1> QED BY <1>1, <1>2, <1>10, <1>11, <1>12, <1>13

LEMMA PairingInvIsSound == PairingInv => PairingIsSound
  <1> SUFFICES ASSUME PairingInv, phase = "done"
               PROVE  /\ \A i \in 1 .. Len(judged) :
                            /\ judged[i].group = Cardinality(EventsAt(judged[i].image.timestamp))
                            /\ judged[i].at =
                                  Cardinality({e \in 1 .. Len(day) :
                                      day[e].timestamp <= judged[i].image.timestamp})
                      /\ summary.unambiguous_images =
                            Cardinality({i \in 1 .. Len(judged) : judged[i].group = 1})
                      /\ summary.ambiguous_images =
                            Cardinality({i \in 1 .. Len(judged) : judged[i].group > 1})
                      /\ summary.images = Len(judged) + summary.orphan_images
    BY DEF PairingIsSound
  <1>1. ASSUME NEW i \in 1 .. Len(judged)
        PROVE  /\ judged[i].group = Cardinality(EventsAt(judged[i].image.timestamp))
               /\ judged[i].at = Cardinality({e \in 1 .. Len(day) :
                                     day[e].timestamp <= judged[i].image.timestamp})
    <2>1. PICK at, t : at = judged[i].at /\ t = judged[i].image.timestamp
      OBVIOUS
    <2>2. /\ at \in 1 .. Len(events) /\ EventsAt(t) = At(events, at, t)
          /\ {e \in 1 .. Len(day) : day[e].timestamp <= t} = 1 .. at
      BY <2>1, JudgedAt
    <2>3. judged[i].group = Cardinality(At(events, at, t)) /\ Len(events) \in Nat
      BY <2>1 DEF PairingInv, IsJudged, ReplayInv, StreamTypeOK
    <2>4. Cardinality(1 .. at) = at
      <3>1. at \in Nat
        BY <2>2, <2>3
      <3> QED BY <3>1, FS_Interval
    <2> QED BY <2>1, <2>2, <2>3, <2>4
  <1>2. /\ summary.unambiguous_images = Cardinality(Forced)
        /\ summary.ambiguous_images = Cardinality(Unforced)
        /\ summary.images = Len(judged) + summary.orphan_images
    <2>1. Count(phase = "catching_up") = 0 /\ phase # "threw"
      BY DEF Count
    <2>2. Len(judged) \in Nat
      BY DEF PairingInv
    <2> QED BY <2>1, <2>2 DEF PairingInv, CountersInv
  <1> QED BY <1>1, <1>2 DEF Forced, Unforced

(* An image is compared exactly with the whole group of stored events that *)
(* share its millisecond, wherever the export's budget fell, and the two   *)
(* kinds of pairing and the orphans partition the images (ValidationSummary*)
(* and export, "must not cut in the middle of a millisecond").             *)
THEOREM PairingAlwaysSound == ExportSpec => []PairingIsSound
  BY PairingInvariant, PairingInvIsSound, PTL

(***************************************************************************)
(* A replay from nothing.                                                  *)
(***************************************************************************)

\* The equation a fold over sets of positions is to satisfy.
IsFold(g, rows, n) ==
    g = [T \in SUBSET (1 .. n) |->
           IF T = {} THEN NewReplayer ELSE Applied(g[T \ {Max(T)}], rows[Max(T)])]

LEMMA FoldExists ==
    ASSUME NEW rows, NEW n \in Nat
    PROVE  \E g : IsFold(g, rows, n)
  <1> DEFINE T == {m \in Nat : ~ \E g : IsFold(g, rows, m)}
  <1>1. \E g : IsFold(g, rows, 0)
    <2> DEFINE g == [R \in SUBSET (1 .. 0) |-> NewReplayer]
    <2>1. \A R \in SUBSET (1 .. 0) : R = {}
      OBVIOUS
    <2>2. IsFold(g, rows, 0)
      BY <2>1 DEF IsFold
    <2> QED BY <2>2
  <1>2. ASSUME NEW m \in Nat, NEW g, IsFold(g, rows, m)
        PROVE  \E h : IsFold(h, rows, m + 1)
    <2> DEFINE h == [R \in SUBSET (1 .. m + 1) |->
                       IF m + 1 \in R THEN Applied(g[R \ {m + 1}], rows[m + 1]) ELSE g[R]]
    <2>1. \A R \in SUBSET (1 .. m) :
             g[R] = IF R = {} THEN NewReplayer ELSE Applied(g[R \ {Max(R)}], rows[Max(R)])
      BY <1>2, Zenon DEF IsFold
    <2>2. \A R \in SUBSET (1 .. m) : R \in SUBSET (1 .. m + 1) /\ m + 1 \notin R
      OBVIOUS
    <2>3. \A R \in SUBSET (1 .. m) : h[R] = g[R]
      BY <2>2
    <2>4. ASSUME NEW R \in SUBSET (1 .. m + 1)
          PROVE  h[R] = IF R = {} THEN NewReplayer
                        ELSE Applied(h[R \ {Max(R)}], rows[Max(R)])
      <3>1. CASE m + 1 \in R
        <4>1. R \ {m + 1} \in SUBSET (1 .. m)
          OBVIOUS
        <4>2. Max(R) = m + 1
          <5>1. R \in SUBSET Int /\ \A k \in R : k <= m + 1
            OBVIOUS
          <5> QED BY <3>1, <5>1, MaxIs
        <4>3. h[R] = Applied(g[R \ {m + 1}], rows[m + 1])
          BY <3>1
        <4>4. h[R \ {m + 1}] = g[R \ {m + 1}]
          BY <2>3, <4>1
        <4> HIDE DEF h
        <4> QED BY <3>1, <4>2, <4>3, <4>4
      <3>2. CASE m + 1 \notin R
        <4>1. R \in SUBSET (1 .. m)
          BY <3>2
        <4>2. h[R] = g[R]
          BY <2>3, <4>1
        <4>3. R \ {Max(R)} \in SUBSET (1 .. m)
          BY <4>1
        <4>4. h[R \ {Max(R)}] = g[R \ {Max(R)}]
          BY <2>3, <4>3
        <4> HIDE DEF h
        <4> QED BY <2>1, <4>1, <4>2, <4>4
      <3> QED BY <3>1, <3>2
    <2>5. DOMAIN h = SUBSET (1 .. m + 1) /\ h = [R \in DOMAIN h |-> h[R]]
      OBVIOUS
    <2> HIDE DEF h
    <2>6. IsFold(h, rows, m + 1)
      BY <2>4, <2>5 DEF IsFold
    <2> QED BY <2>6
  <1>3. T = {}
    <2> SUFFICES ASSUME T # {} PROVE FALSE
      OBVIOUS
    <2>1. T \in SUBSET Nat
      OBVIOUS
    <2>2. PICK m \in T : \A k \in T : m <= k
      BY <2>1, LeastElement
    <2>3. m \in Nat /\ ~ \E g : IsFold(g, rows, m)
      OBVIOUS
    <2>4. m # 0
      BY <1>1, <2>3
    <2>5. m - 1 \in Nat /\ m - 1 + 1 = m /\ ~ (m - 1 \in T)
      BY <2>2, <2>3, <2>4
    <2>6. \E g : IsFold(g, rows, m - 1)
      BY <2>5
    <2> QED BY <1>2, <2>3, <2>5, <2>6
  <1> QED BY <1>3

LEMMA ReplayIs ==
    ASSUME NEW X, NEW rows \in Seq(X)
    PROVE  \E g : IsFold(g, rows, Len(rows)) /\ Replay(rows) = g[1 .. Len(rows)]
  <1>1. PICK n \in Nat : n = Len(rows)
    OBVIOUS
  <1>2. DOMAIN rows = 1 .. n
    BY <1>1
  <1> DEFINE G == CHOOSE g : g = [T \in SUBSET (1 .. n) |->
                    IF T = {} THEN NewReplayer ELSE Applied(g[T \ {Max(T)}], rows[Max(T)])]
  <1>3. Replay(rows) = G[1 .. n]
    BY <1>2, Zenon DEF Replay, FoldLeft, MapThenFoldSet
  <1>4. IsFold(G, rows, n)
    <2>1. \E g : g = [T \in SUBSET (1 .. n) |->
                    IF T = {} THEN NewReplayer ELSE Applied(g[T \ {Max(T)}], rows[Max(T)])]
      BY FoldExists, Zenon DEF IsFold
    <2> QED BY <2>1, Zenon DEF IsFold
  <1> HIDE DEF G
  <1> QED BY <1>1, <1>3, <1>4

LEMMA FoldStep ==
    ASSUME NEW g, NEW rows, NEW n \in Nat, IsFold(g, rows, n)
    PROVE  /\ g[1 .. 0] = NewReplayer
           /\ \A k \in 0 .. n - 1 : g[1 .. k + 1] = Applied(g[1 .. k], rows[k + 1])
  <1>1. \A T \in SUBSET (1 .. n) :
           g[T] = IF T = {} THEN NewReplayer ELSE Applied(g[T \ {Max(T)}], rows[Max(T)])
    BY Zenon DEF IsFold
  <1>2. g[1 .. 0] = NewReplayer
    <2>1. 1 .. 0 = {} /\ {} \in SUBSET (1 .. n)
      OBVIOUS
    <2> QED BY <1>1, <2>1, Zenon
  <1>3. ASSUME NEW k \in 0 .. n - 1
        PROVE  g[1 .. k + 1] = Applied(g[1 .. k], rows[k + 1])
    <2>1. 1 .. k + 1 \in SUBSET (1 .. n) /\ 1 .. k + 1 # {} /\ (1 .. k + 1) \ {k + 1} = 1 .. k
      <3>1. 1 .. k + 1 \in SUBSET (1 .. n)
        OBVIOUS
      <3>2. k + 1 \in 1 .. k + 1
        OBVIOUS
      <3>3. \A i : i \in (1 .. k + 1) \ {k + 1} <=> i \in 1 .. k
        OBVIOUS
      <3> QED BY <3>1, <3>2, <3>3, Zenon
    <2>2. Max(1 .. k + 1) = k + 1
      <3>1. 1 .. k + 1 \in SUBSET Int /\ k + 1 \in 1 .. k + 1 /\ \A i \in 1 .. k + 1 : i <= k + 1
        OBVIOUS
      <3> QED BY <3>1, MaxIs
    <2> QED BY <1>1, <2>1, <2>2, Zenon
  <1> QED BY <1>2, <1>3

\* A fold over a longer sequence agrees on what they share.
LEMMA FoldsAgree ==
    ASSUME NEW g, NEW r, NEW n \in Nat, IsFold(g, r, n),
           NEW h, NEW s, NEW m \in Nat, IsFold(h, s, m),
           NEW k \in Nat, k <= n, k <= m, \A i \in 1 .. k : r[i] = s[i]
    PROVE  g[1 .. k] = h[1 .. k]
  <1> DEFINE T == {l \in 0 .. k : g[1 .. l] # h[1 .. l]}
  <1>1. g[1 .. 0] = NewReplayer /\ h[1 .. 0] = NewReplayer
    BY FoldStep
  <1>2. ASSUME NEW l \in 0 .. k - 1, g[1 .. l] = h[1 .. l]
        PROVE  g[1 .. l + 1] = h[1 .. l + 1]
    <2>1. l \in 0 .. n - 1 /\ l \in 0 .. m - 1 /\ r[l + 1] = s[l + 1]
      OBVIOUS
    <2>2. g[1 .. l + 1] = Applied(g[1 .. l], r[l + 1]) /\ h[1 .. l + 1] = Applied(h[1 .. l], s[l + 1])
      BY <2>1, FoldStep
    <2> QED BY <1>2, <2>1, <2>2
  <1>3. T = {}
    <2> SUFFICES ASSUME T # {} PROVE FALSE
      OBVIOUS
    <2>1. T \in SUBSET Nat
      OBVIOUS
    <2>2. PICK l \in T : \A i \in T : l <= i
      BY <2>1, LeastElement
    <2>3. l \in 0 .. k /\ g[1 .. l] # h[1 .. l]
      OBVIOUS
    <2>4. l # 0
      BY <1>1, <2>3
    <2>5. l - 1 \in 0 .. k - 1 /\ l - 1 \in 0 .. k /\ l - 1 + 1 = l /\ ~ (l <= l - 1)
      BY <2>3, <2>4
    <2>6. ~ (l - 1 \in T)
      BY <2>2, <2>5
    <2>7. g[1 .. l - 1] = h[1 .. l - 1]
      BY <2>5, <2>6
    <2> QED BY <1>2, <2>3, <2>5, <2>7
  <1>4. k \in 0 .. k
    OBVIOUS
  <1> QED BY <1>3, <1>4

LEMMA ReplayOfNothing == Replay(<<>>) = NewReplayer
  <1>1. <<>> \in Seq(BookUpdate) /\ Len(<<>>) = 0
    OBVIOUS
  <1>2. PICK g : IsFold(g, <<>>, 0) /\ Replay(<<>>) = g[1 .. 0]
    BY <1>1, ReplayIs
  <1> QED BY <1>2, FoldStep

LEMMA ReplayOfOneMore ==
    ASSUME NEW X, NEW rows \in Seq(X), NEW n \in 0 .. Len(rows) - 1
    PROVE  Replay(SubSeq(rows, 1, n + 1)) = Applied(Replay(SubSeq(rows, 1, n)), rows[n + 1])
  <1>1. /\ SubSeq(rows, 1, n) \in Seq(X) /\ Len(SubSeq(rows, 1, n)) = n
        /\ SubSeq(rows, 1, n + 1) \in Seq(X) /\ Len(SubSeq(rows, 1, n + 1)) = n + 1
        /\ \A i \in 1 .. n : SubSeq(rows, 1, n)[i] = SubSeq(rows, 1, n + 1)[i]
        /\ SubSeq(rows, 1, n + 1)[n + 1] = rows[n + 1]
    OBVIOUS
  <1>2. PICK r : r = SubSeq(rows, 1, n)
    OBVIOUS
  <1>3. PICK s : s = SubSeq(rows, 1, n + 1)
    OBVIOUS
  <1>4. PICK g : IsFold(g, r, n) /\ Replay(r) = g[1 .. n]
    BY <1>1, <1>2, ReplayIs
  <1>5. PICK h : IsFold(h, s, n + 1) /\ Replay(s) = h[1 .. n + 1]
    BY <1>1, <1>3, ReplayIs
  <1>6. n \in Nat /\ n + 1 \in Nat /\ n <= n + 1 /\ n \in 0 .. n + 1 - 1 /\ n <= n
    OBVIOUS
  <1>7. \A i \in 1 .. n : r[i] = s[i]
    BY <1>1, <1>2, <1>3
  <1>8. g[1 .. n] = h[1 .. n]
    BY <1>4, <1>5, <1>6, <1>7, FoldsAgree
  <1>9. h[1 .. n + 1] = Applied(h[1 .. n], s[n + 1])
    BY <1>5, <1>6, FoldStep
  <1> QED BY <1>1, <1>2, <1>3, <1>4, <1>5, <1>8, <1>9

(***************************************************************************)
(* What a comparison finds.                                                *)
(***************************************************************************)

LEMMA TopsAreEqual ==
    ASSUME NEW X, NEW a \in Seq(X), NEW b \in Seq(X), NEW side
    PROVE  SideDiff(a, b, side, Depth) = {} <=> Top(a) = Top(b)
  <1>1. PICK m \in Nat : m = Len(a)
    OBVIOUS
  <1>2. PICK n \in Nat : n = Len(b)
    OBVIOUS
  <1>3. PICK d \in Nat \ {0} : d = Depth
    BY ValidateAssumption
  <1> DEFINE T == {i \in 1 .. ComparedRankCount(m, n, d) : i > m \/ i > n \/ a[i] # b[i]}
  <1>4. SideDiff(a, b, side, Depth) = {[side |-> side, rank |-> i, kind |-> KindAt(a, b, i)] : i \in T}
    BY <1>1, <1>2, <1>3 DEF SideDiff
  <1>5. T = {} => Top(a) = Top(b)
    <2> SUFFICES ASSUME T = {} PROVE Top(a) = Top(b)
      OBVIOUS
    <2>1. \A i \in 1 .. ComparedRankCount(m, n, d) : i <= m /\ i <= n /\ a[i] = b[i]
      OBVIOUS
    <2>2. Smaller(d, m) = Smaller(d, n) /\ Smaller(d, m) \in 0 .. m /\ Smaller(d, m) \in 0 .. n
      <3> DEFINE c == ComparedRankCount(m, n, d)
      <3>1. c = IF m > n THEN IF d < m THEN d ELSE m ELSE IF d < n THEN d ELSE n
        BY DEF ComparedRankCount, Smaller
      <3>2. c \in Nat /\ (c > 0 => c <= m /\ c <= n)
        <4>1. c \in Nat
          BY <3>1
        <4>2. c > 0 => c \in 1 .. c
          BY <4>1
        <4> QED BY <2>1, <4>1, <4>2
      <3> HIDE DEF c
      <3> QED BY <3>1, <3>2 DEF Smaller
    <2>3. PICK c \in Nat : c = Smaller(d, m) /\ c = Smaller(d, n) /\ c <= m /\ c <= n
      BY <2>2
    <2>4. \A i \in 1 .. c : a[i] = b[i]
      <3>1. c <= ComparedRankCount(m, n, d) /\ ComparedRankCount(m, n, d) \in Int
        BY <2>3 DEF ComparedRankCount, Smaller
      <3> QED BY <2>1, <3>1
    <2>5. SubSeq(a, 1, c) = [i \in 1 .. c |-> a[i]] /\ SubSeq(b, 1, c) = [i \in 1 .. c |-> b[i]]
      BY <1>1, <1>2, <2>3
    <2>6. Top(a) = SubSeq(a, 1, c) /\ Top(b) = SubSeq(b, 1, c)
      BY <1>1, <1>2, <1>3, <2>3 DEF Top
    <2>7. [i \in 1 .. c |-> a[i]] = [i \in 1 .. c |-> b[i]]
      BY <2>4
    <2> QED BY <2>5, <2>6, <2>7
  <1>6. Top(a) = Top(b) => T = {}
    <2> SUFFICES ASSUME Top(a) = Top(b), NEW i \in T PROVE FALSE
      OBVIOUS
    <2>1. PICK p \in Nat : p = Smaller(d, m)
      BY DEF Smaller
    <2>2. PICK q \in Nat : q = Smaller(d, n)
      BY DEF Smaller
    <2>3. p <= m /\ q <= n
      BY <2>1, <2>2 DEF Smaller
    <2>4. Top(a) = SubSeq(a, 1, p) /\ Top(b) = SubSeq(b, 1, q)
      BY <1>1, <1>2, <1>3, <2>1, <2>2 DEF Top
    <2>5. Len(SubSeq(a, 1, p)) = p /\ Len(SubSeq(b, 1, q)) = q
      BY <1>1, <1>2, <2>3
    <2>6. p = q
      BY <2>4, <2>5
    <2>7. \A k \in 1 .. p : SubSeq(a, 1, p)[k] = a[k] /\ SubSeq(b, 1, p)[k] = b[k]
      BY <1>1, <1>2, <2>3, <2>6
    <2>8. \A k \in 1 .. p : a[k] = b[k]
      <3>1. PICK l : l = SubSeq(a, 1, p)
        OBVIOUS
      <3>2. l = SubSeq(b, 1, p)
        BY <2>4, <2>6, <3>1
      <3> QED BY <2>7, <3>1, <3>2
    <2>9. i \in 1 .. ComparedRankCount(m, n, d) /\ (i > m \/ i > n \/ a[i] # b[i])
      OBVIOUS
    <2>10. i \in 1 .. p /\ i <= m /\ i <= n
      BY <2>1, <2>2, <2>3, <2>6, <2>9 DEF ComparedRankCount, Smaller
    <2> QED BY <2>8, <2>9, <2>10
  <1> HIDE DEF T
  <1> QED BY <1>4, <1>5, <1>6

LEMMA DiffFacts ==
    ASSUME NEW X, \A side \in Side : replayer.book[side] \in Seq(X) /\ image.book[side] \in Seq(X)
    PROVE  /\ Diff = {} <=> \A side \in Side : Top(replayer.book[side]) = Top(image.book[side])
           /\ \A kind \in DiffKind : DiffsOf(kind) \in Nat
           /\ (\A kind \in DiffKind : DiffsOf(kind) = 0) <=> Diff = {}
  <1> DEFINE D(side) == SideDiff(replayer.book[side], image.book[side], side, Depth)
  <1>1. Diff = UNION {D(side) : side \in Side}
    BY DEF Diff, CompareTopN
  <1>2. \A side \in Side : D(side) = {} <=> Top(replayer.book[side]) = Top(image.book[side])
    BY TopsAreEqual
  <1>3. \A side \in Side : IsFiniteSet(D(side)) /\ \A x \in D(side) : x.kind \in DiffKind
    <2> SUFFICES ASSUME NEW side \in Side, NEW a, a = replayer.book[side],
                        NEW b, b = image.book[side]
                 PROVE  IsFiniteSet(D(side)) /\ \A x \in D(side) : x.kind \in DiffKind
      OBVIOUS
    <2>1. Len(a) \in Nat /\ Len(b) \in Nat /\ Depth \in Nat
      BY ValidateAssumption
    <2>2. ComparedRankCount(Len(a), Len(b), Depth) \in Nat
      BY <2>1 DEF ComparedRankCount, Smaller
    <2> DEFINE T == {i \in 1 .. ComparedRankCount(Len(a), Len(b), Depth) :
                        i > Len(a) \/ i > Len(b) \/ a[i] # b[i]}
    <2>3. IsFiniteSet(T)
      <3>1. IsFiniteSet(1 .. ComparedRankCount(Len(a), Len(b), Depth))
        BY <2>2, FS_Interval
      <3> QED BY <3>1, FS_Subset
    <2>4. D(side) = {[side |-> side, rank |-> i, kind |-> KindAt(a, b, i)] : i \in T}
      BY DEF SideDiff
    <2> HIDE DEF T
    <2>5. IsFiniteSet(D(side))
      <3> DEFINE f == [i \in T |-> [side |-> side, rank |-> i, kind |-> KindAt(a, b, i)]]
      <3> HIDE DEF D
      <3>1. f \in [T -> D(side)] /\ \A x \in D(side) : \E i \in T : f[i] = x
        BY <2>4
      <3> HIDE DEF f
      <3>2. f \in Surjection(T, D(side))
        BY <3>1 DEF Surjection
      <3> QED BY <2>3, <3>2, FS_Surjection
    <2>6. \A i \in T : KindAt(a, b, i) \in DiffKind
      BY DEF KindAt, DiffKind
    <2>7. \A x \in D(side) : x.kind \in DiffKind
      <3> HIDE DEF D
      <3> QED BY <2>4, <2>6
    <2> QED BY <2>5, <2>7
  <1> HIDE DEF D
  <1>4. Diff = D("bid") \cup D("ask")
    BY <1>1 DEF Side
  <1>5. IsFiniteSet(Diff)
    <2>1. IsFiniteSet(D("bid")) /\ IsFiniteSet(D("ask"))
      BY <1>3 DEF Side
    <2> QED BY <1>4, <2>1, FS_Union
  <1>6. \A x \in Diff : x.kind \in DiffKind
    BY <1>1, <1>3
  <1>7. \A kind : /\ DiffsOf(kind) \in Nat
                  /\ DiffsOf(kind) = 0 <=> {x \in Diff : x.kind = kind} = {}
    <2> TAKE kind
    <2> DEFINE K == {x \in Diff : x.kind = kind}
    <2>1. IsFiniteSet(K)
      BY <1>5, FS_Subset
    <2>2. DiffsOf(kind) = Cardinality(K)
      BY DEF DiffsOf
    <2> HIDE DEF K
    <2>3. Cardinality(K) \in Nat /\ (Cardinality(K) = 0 <=> K = {})
      BY <2>1, FS_CardinalityType, FS_EmptySet
    <2> QED BY <2>2, <2>3 DEF K
  <1>8. Diff = {} <=> \A side \in Side : Top(replayer.book[side]) = Top(image.book[side])
    BY <1>1, <1>2
  <1>9. (\A kind \in DiffKind : DiffsOf(kind) = 0) <=> Diff = {}
    BY <1>6, <1>7
  <1> QED BY <1>7, <1>8, <1>9

(***************************************************************************)
(* Verdicts.                                                               *)
(***************************************************************************)

ImageLevels == [price : Int, quantity : Int]

\* The book of an image was the one a fresh replay of the rows before it has reached.
Agrees(rows, j) ==
    \A side \in Side : Top(Replay(SubSeq(rows, 1, j.at)).book[side]) = Top(j.image.book[side])

\* Verdicts of groups of some sizes that are on another book than that.
WrongOf(rows, verdicts, sizes) ==
    {i \in 1 .. Len(verdicts) : /\ verdicts[i].group \in sizes
                                /\ ~ Agrees(rows, verdicts[i])}

\* The times of the first of some verdicts.
FirstTimes(verdicts, chosen) ==
    [k \in 1 .. Smaller(MaxSamples, Cardinality(chosen)) |->
        verdicts[Nth(chosen, k)].image.timestamp]

IsWrong(rows, j, sizes) == j.group \in sizes /\ ~ Agrees(rows, j)

Wrong(sizes) == WrongOf(events, judged, sizes)

One == {1}
Several == Nat \ {0, 1}

\* The counters and samples of mismatches are those of the wrong images.
MismatchesInv ==
    /\ summary.unambiguous_mismatches = Cardinality(Wrong(One))
    /\ summary.ambiguous_mismatches = Cardinality(Wrong(Several))
    /\ summary.sample_mismatch_timestamps = FirstTimes(judged, Wrong(One))
    /\ summary.sample_ambiguous_timestamps = FirstTimes(judged, Wrong(Several))
    /\ summary.differences \in [DiffKind -> Nat]
    /\ (\A kind \in DiffKind : summary.differences[kind] = 0) <=> Wrong(One) = {}

\* The clean samples: at most one for the opening, one for midday and one for the close.
CleanInv ==
    LET samples == summary.sample_clean_timestamps
        times == {judged[i].image.timestamp : i \in 1 .. Len(judged)}
    IN  /\ samples \in Seq(times)
        /\ sampling.open \in BOOLEAN /\ sampling.midday \in BOOLEAN
        /\ DOMAIN sampling = {"open", "midday", "target"}
        /\ Len(samples) <= 3
        /\ phase = "catching_up" \/ (phase = "reading" /\ reference # <<>>) =>
              Len(samples) <= Count(sampling.open) + Count(sampling.midday)
        /\ sampling.midday => sampling.open
        /\ judged = <<>> => ~ sampling.open
        /\ judged # <<>> => (samples = <<>> => phase = "done" /\ Verdict(summary) # "pass")
        /\ phase = "done" /\ Verdict(summary) # "pass" => samples = <<>>

VerdictInv ==
    /\ phase # "threw" => replayer = Replay(SubSeq(events, 1, position))
    /\ \A side \in Side : image.book[side] \in Seq(ImageLevels)
    /\ summary.images \in Nat
    /\ phase = "catching_up" \/ judged # <<>> => summary.images > 0
    /\ MismatchesInv
    /\ CleanInv
    /\ Exporting => summary = NewSummary /\ sampling.open = FALSE

\* One more verdict.
IsOneMore(rows, js, j, sizes, more) ==
    /\ Cardinality(WrongOf(rows, js, sizes)) \in Nat
    /\ WrongOf(rows, js, sizes) = {} <=> Cardinality(WrongOf(rows, js, sizes)) = 0
    /\ Cardinality(WrongOf(rows, more, sizes))
          = IF IsWrong(rows, j, sizes) THEN Cardinality(WrongOf(rows, js, sizes)) + 1
            ELSE Cardinality(WrongOf(rows, js, sizes))
    /\ WrongOf(rows, more, sizes) = {} <=> WrongOf(rows, js, sizes) = {} /\ ~ IsWrong(rows, j, sizes)
    /\ FirstTimes(more, WrongOf(rows, more, sizes))
          = IF IsWrong(rows, j, sizes)
            THEN AppendUpTo(FirstTimes(js, WrongOf(rows, js, sizes)), MaxSamples, j.image.timestamp)
            ELSE FirstTimes(js, WrongOf(rows, js, sizes))

LEMMA OneMoreWrong ==
    ASSUME NEW rows, NEW X, NEW js \in Seq(X), NEW j \in X, NEW sizes,
           NEW more, more = Append(js, j)
    PROVE  IsOneMore(rows, js, j, sizes, more)
  <1>0. PICK wrong \in BOOLEAN : wrong <=> IsWrong(rows, j, sizes)
    OBVIOUS
  <1>1. PICK n \in Nat : n = Len(js)
    OBVIOUS
  <1>2. /\ Len(more) = n + 1 /\ more[n + 1] = j /\ \A i \in 1 .. n : more[i] = js[i]
        /\ \A i : i \in 1 .. Len(more) <=> i \in 1 .. n \/ i = n + 1
        /\ n + 1 \notin 1 .. n
    BY <1>1
  <1> DEFINE S == WrongOf(rows, js, sizes)
             T == WrongOf(rows, more, sizes)
  <1>3. S \in SUBSET (1 .. n)
    BY <1>1 DEF WrongOf
  <1>4. T = IF wrong THEN S \cup {n + 1} ELSE S
    <2>1. \A i : i \in S <=> i \in 1 .. n /\ js[i].group \in sizes /\ ~ Agrees(rows, js[i])
      BY <1>1, Zenon DEF WrongOf
    <2>2. \A i : i \in T <=> /\ i \in 1 .. n \/ i = n + 1
                             /\ more[i].group \in sizes /\ ~ Agrees(rows, more[i])
      BY <1>2, Zenon DEF WrongOf
    <2>3. \A i : i \in T <=> i \in S \/ (i = n + 1 /\ wrong)
      <3>1. \A i \in 1 .. n : i \in T <=> i \in S
        BY <1>2, <2>1, <2>2
      <3>2. n + 1 \in T <=> wrong
        BY <1>0, <1>2, <2>2 DEF IsWrong
      <3> HIDE DEF S, T
      <3> QED BY <1>2, <2>1, <2>2, <3>1, <3>2
    <2> HIDE DEF S, T
    <2> QED BY <2>3
  <1>5. /\ Cardinality(S) \in Nat /\ IsFiniteSet(S)
        /\ Cardinality(S \cup {n + 1}) = Cardinality(S) + 1
        /\ \A k \in 1 .. Cardinality(S) : Nth(S \cup {n + 1}, k) = Nth(S, k) /\ Nth(S, k) \in S
        /\ Nth(S \cup {n + 1}, Cardinality(S) + 1) = n + 1
    <2> HIDE DEF S, T
    <2>1. n + 1 \in Nat /\ n + 1 > n
      OBVIOUS
    <2>2. Cardinality(S) \in Nat /\ IsFiniteSet(S)
      BY <1>3, PositionsToType
    <2>3. \A k \in 1 .. Cardinality(S) : Nth(S, k) \in S
      BY <1>3, NthFacts
    <2>4. /\ Cardinality(S \cup {n + 1}) = Cardinality(S) + 1
          /\ \A k \in 1 .. Cardinality(S) : Nth(S \cup {n + 1}, k) = Nth(S, k)
          /\ Nth(S \cup {n + 1}, Cardinality(S) + 1) = n + 1
      BY <1>3, <2>1, NthOfOneMore
    <2> QED BY <2>2, <2>3, <2>4
  <1> HIDE DEF S, T
  <1>6. S = {} <=> Cardinality(S) = 0
    BY <1>5, FS_EmptySet
  <1>7. PICK c \in Nat : c = Cardinality(S)
    BY <1>5
  <1>8. PICK m \in Nat : m = MaxSamples
    BY ValidateAssumption
  <1> DEFINE before == FirstTimes(js, S)
             after == FirstTimes(more, T)
  <1>9. before = [k \in 1 .. Smaller(m, c) |-> js[Nth(S, k)].image.timestamp]
    BY <1>7, <1>8 DEF FirstTimes
  <1>10. CASE ~ wrong
    <2>1. T = S
      BY <1>4, <1>10
    <2>2. after = [k \in 1 .. Smaller(m, c) |-> more[Nth(S, k)].image.timestamp]
      BY <1>7, <1>8, <2>1 DEF FirstTimes
    <2>3. \A k \in 1 .. Smaller(m, c) : more[Nth(S, k)] = js[Nth(S, k)]
      <3>1. \A k \in 1 .. Smaller(m, c) : k \in 1 .. c
        BY DEF Smaller
      <3> QED BY <1>2, <1>3, <1>5, <1>7, <3>1
    <2>4. after = before
      <3> HIDE DEF after, before
      <3> QED BY <1>9, <2>2, <2>3
    <2> QED BY <1>0, <1>5, <1>6, <1>10, <2>1, <2>4 DEF S, T, IsOneMore
  <1>11. CASE wrong
    <2>1. T = S \cup {n + 1} /\ T # {} /\ Cardinality(T) = c + 1
      BY <1>4, <1>5, <1>7, <1>11
    <2>2. after = [k \in 1 .. Smaller(m, c + 1) |-> more[Nth(T, k)].image.timestamp]
      BY <1>8, <2>1 DEF FirstTimes
    <2>3. \A k \in 1 .. c : more[Nth(T, k)] = js[Nth(S, k)]
      BY <1>2, <1>3, <1>5, <1>7, <2>1
    <2>4. more[Nth(T, c + 1)] = j
      BY <1>2, <1>5, <1>7, <2>1
    <2>5. CASE m <= c
      <3>1. Smaller(m, c) = m /\ Smaller(m, c + 1) = m /\ \A k \in 1 .. m : k \in 1 .. c
        BY <2>5 DEF Smaller
      <3>2. after = before /\ Len(before) = m
        <4> HIDE DEF after, before
        <4>1. before = [k \in 1 .. m |-> js[Nth(S, k)].image.timestamp]
          BY <1>9, <3>1
        <4>2. after = [k \in 1 .. m |-> more[Nth(T, k)].image.timestamp]
          BY <2>2, <3>1
        <4>3. Len(before) = m
          BY <4>1
        <4> QED BY <2>3, <3>1, <4>1, <4>2, <4>3
      <3>3. after = AppendUpTo(before, MaxSamples, j.image.timestamp)
        <4> HIDE DEF after, before
        <4> QED BY <1>8, <3>2 DEF AppendUpTo
      <3> QED BY <1>0, <1>5, <1>6, <1>7, <1>11, <2>1, <3>3 DEF S, T, IsOneMore
    <2>6. CASE c < m
      <3>1. Smaller(m, c) = c /\ Smaller(m, c + 1) = c + 1
        BY <2>6 DEF Smaller
      <3> DEFINE s == [k \in 1 .. c |-> js[Nth(S, k)].image.timestamp]
                 Y == {s[k] : k \in 1 .. c}
      <3>2. s \in Seq(Y) /\ Len(s) = c
        OBVIOUS
      <3>3. after = [k \in 1 .. c + 1 |-> IF k = c + 1 THEN j.image.timestamp ELSE s[k]]
        <4>1. \A k \in 1 .. c + 1 :
                 more[Nth(T, k)].image.timestamp
                   = IF k = c + 1 THEN j.image.timestamp ELSE s[k]
          <5>1. \A k \in 1 .. c : s[k] = js[Nth(S, k)].image.timestamp
            OBVIOUS
          <5> HIDE DEF s
          <5>2. \A k \in 1 .. c + 1 : k = c + 1 \/ k \in 1 .. c
            OBVIOUS
          <5>3. c + 1 \notin 1 .. c
            OBVIOUS
          <5> QED BY <2>3, <2>4, <5>1, <5>2, <5>3
        <4> HIDE DEF s, after
        <4> QED BY <2>2, <3>1, <4>1
      <3>4. before = s
        BY <1>9, <3>1
      <3> HIDE DEF s, after, before
      <3>5. after = Append(s, j.image.timestamp)
        BY <3>2, <3>3
      <3>6. after = AppendUpTo(before, MaxSamples, j.image.timestamp)
        BY <1>8, <2>6, <3>2, <3>4, <3>5 DEF AppendUpTo
      <3> QED BY <1>0, <1>5, <1>6, <1>7, <1>11, <2>1, <3>6 DEF IsOneMore, S, T, after, before
    <2> QED BY <2>5, <2>6
  <1> QED BY <1>10, <1>11

\* A step that judges nothing and changes no counter of mismatches.
LEMMA MismatchesStay ==
    ASSUME MismatchesInv, UNCHANGED <<events, judged>>,
           summary'.unambiguous_mismatches = summary.unambiguous_mismatches,
           summary'.ambiguous_mismatches = summary.ambiguous_mismatches,
           summary'.sample_mismatch_timestamps = summary.sample_mismatch_timestamps,
           summary'.sample_ambiguous_timestamps = summary.sample_ambiguous_timestamps,
           summary'.differences = summary.differences
    PROVE  MismatchesInv'
  <1>1. Wrong(One)' = Wrong(One) /\ Wrong(Several)' = Wrong(Several)
    BY DEF Wrong
  <1>2. /\ FirstTimes(judged, Wrong(One))' = FirstTimes(judged, Wrong(One))
        /\ FirstTimes(judged, Wrong(Several))' = FirstTimes(judged, Wrong(Several))
    BY <1>1 DEF FirstTimes
  <1> QED BY <1>1, <1>2, Zenon DEF MismatchesInv

\* What Compare leaves in the summary.
LEMMA CompareSummary ==
    ASSUME PairingInv, Compare
    PROVE  /\ summary'.sample_clean_timestamps
                 = AppendIf(SampleLabel # "none", summary.sample_clean_timestamps, image.timestamp)
           /\ summary'.images = summary.images
           /\ group > 1 =>
                 /\ summary'.ambiguous_mismatches
                       = summary.ambiguous_mismatches + Count(Diff # {})
                 /\ summary'.sample_ambiguous_timestamps
                       = IF Diff = {} THEN summary.sample_ambiguous_timestamps
                         ELSE AppendUpTo(summary.sample_ambiguous_timestamps, MaxSamples,
                                         image.timestamp)
                 /\ summary'.unambiguous_mismatches = summary.unambiguous_mismatches
                 /\ summary'.sample_mismatch_timestamps = summary.sample_mismatch_timestamps
                 /\ summary'.differences = summary.differences
           /\ ~ (group > 1) =>
                 /\ summary'.unambiguous_mismatches
                       = summary.unambiguous_mismatches + Count(Diff # {})
                 /\ summary'.sample_mismatch_timestamps
                       = IF Diff = {} THEN summary.sample_mismatch_timestamps
                         ELSE AppendUpTo(summary.sample_mismatch_timestamps, MaxSamples,
                                         image.timestamp)
                 /\ summary'.differences
                       = [kind \in DiffKind |-> summary.differences[kind] + DiffsOf(kind)]
                 /\ summary'.ambiguous_mismatches = summary.ambiguous_mismatches
                 /\ summary'.sample_ambiguous_timestamps = summary.sample_ambiguous_timestamps
  <1> DEFINE clean == AppendIf(SampleLabel # "none", summary.sample_clean_timestamps,
                               image.timestamp)
             wrong == Count(Diff # {})
  <1>1. DOMAIN summary = DOMAIN NewSummary
    BY DEF PairingInv, CountersInv
  <1>2. PICK s : s = [summary EXCEPT !.sample_clean_timestamps = clean]
    OBVIOUS
  <1>3. summary' = Counted(s)
    BY <1>2 DEF Compare
  <1> HIDE DEF clean, wrong
  <1>4. /\ DOMAIN s = DOMAIN NewSummary
        /\ s.images = summary.images /\ s.sample_clean_timestamps = clean
        /\ s.unambiguous_mismatches = summary.unambiguous_mismatches
        /\ s.ambiguous_mismatches = summary.ambiguous_mismatches
        /\ s.differences = summary.differences
        /\ s.sample_mismatch_timestamps = summary.sample_mismatch_timestamps
        /\ s.sample_ambiguous_timestamps = summary.sample_ambiguous_timestamps
    BY <1>1, <1>2 DEF NewSummary
  <1>5. CASE group > 1
    <2> DEFINE mismatches == s.ambiguous_mismatches + wrong
               samples == IF Diff = {} THEN s.sample_ambiguous_timestamps
                          ELSE AppendUpTo(s.sample_ambiguous_timestamps, MaxSamples,
                                          image.timestamp)
    <2>1. summary' = [s EXCEPT !.ambiguous_images = @ + 1,
                               !.ambiguous_mismatches = mismatches,
                               !.sample_ambiguous_timestamps = samples]
      BY <1>3, <1>5 DEF Counted, wrong
    <2>2. /\ mismatches = summary.ambiguous_mismatches + Count(Diff # {})
          /\ samples = IF Diff = {} THEN summary.sample_ambiguous_timestamps
                       ELSE AppendUpTo(summary.sample_ambiguous_timestamps, MaxSamples,
                                       image.timestamp)
      BY <1>4, Zenon DEF wrong
    <2> HIDE DEF mismatches, samples
    <2>3. /\ summary'.images = s.images
          /\ summary'.sample_clean_timestamps = s.sample_clean_timestamps
          /\ summary'.ambiguous_mismatches = mismatches
          /\ summary'.sample_ambiguous_timestamps = samples
          /\ summary'.unambiguous_mismatches = s.unambiguous_mismatches
          /\ summary'.sample_mismatch_timestamps = s.sample_mismatch_timestamps
          /\ summary'.differences = s.differences
      BY <1>4, <2>1 DEF NewSummary
    <2> QED BY <1>4, <1>5, <2>2, <2>3, Zenon DEF clean
  <1>6. CASE ~ (group > 1)
    <2> DEFINE mismatches == s.unambiguous_mismatches + wrong
               differences == [kind \in DiffKind |-> s.differences[kind] + DiffsOf(kind)]
               samples == IF Diff = {} THEN s.sample_mismatch_timestamps
                          ELSE AppendUpTo(s.sample_mismatch_timestamps, MaxSamples,
                                          image.timestamp)
    <2>1. summary' = [s EXCEPT !.unambiguous_images = @ + 1,
                               !.unambiguous_mismatches = mismatches,
                               !.differences = differences,
                               !.sample_mismatch_timestamps = samples]
      BY <1>3, <1>6 DEF Counted, wrong
    <2>2. /\ mismatches = summary.unambiguous_mismatches + Count(Diff # {})
          /\ samples = IF Diff = {} THEN summary.sample_mismatch_timestamps
                       ELSE AppendUpTo(summary.sample_mismatch_timestamps, MaxSamples,
                                       image.timestamp)
          /\ differences = [kind \in DiffKind |-> summary.differences[kind] + DiffsOf(kind)]
      BY <1>4, Zenon DEF wrong
    <2> HIDE DEF mismatches, differences, samples
    <2>3. /\ summary'.images = s.images
          /\ summary'.sample_clean_timestamps = s.sample_clean_timestamps
          /\ summary'.unambiguous_mismatches = mismatches
          /\ summary'.sample_mismatch_timestamps = samples
          /\ summary'.differences = differences
          /\ summary'.ambiguous_mismatches = s.ambiguous_mismatches
          /\ summary'.sample_ambiguous_timestamps = s.sample_ambiguous_timestamps
      BY <1>4, <2>1 DEF NewSummary
    <2> QED BY <1>4, <1>6, <2>2, <2>3, Zenon DEF clean
  <1> QED BY <1>5, <1>6

LEMMA CompareMismatches ==
    ASSUME PairingInv, VerdictInv, Compare
    PROVE  MismatchesInv'
  <1> DEFINE j == [image |-> image, at |-> position, group |-> group]
             X == Range(judged) \cup {j}
  <1>1. /\ phase = "catching_up" /\ group > 0 /\ judged' = Append(judged, j)
        /\ UNCHANGED <<events, position, image, replayer>>
    BY DEF Compare, CaughtUp
  <1>2. j.image = image /\ j.at = position /\ j.group = group /\ group \in Nat \ {0}
    BY <1>1 DEF PairingInv, GroupInv
  <1>3. judged \in Seq(X) /\ j \in X
    <2>1. judged \in Seq(Range(judged))
      BY DEF PairingInv
    <2> HIDE DEF j
    <2>2. \A i \in 1 .. Len(judged) : judged[i] \in X
      BY <2>1
    <2> QED BY <2>1, <2>2
  <1>4. PICK Y : \A side \in Side : replayer.book[side] \in Seq(Y) /\ image.book[side] \in Seq(Y)
    <2>1. replayer.book \in Books
      BY DEF PairingInv, ReplayInv, IsReplay, Replayers
    <2>2. \A side \in Side : replayer.book[side] \in Seq(Levels)
      BY <2>1 DEF Books
    <2>3. \A side \in Side : image.book[side] \in Seq(ImageLevels)
      BY DEF VerdictInv
    <2>4. \A side \in Side : /\ replayer.book[side] \in Seq(Levels \cup ImageLevels)
                             /\ image.book[side] \in Seq(Levels \cup ImageLevels)
      <3> SUFFICES ASSUME NEW side \in Side
                   PROVE  /\ replayer.book[side] \in Seq(Levels \cup ImageLevels)
                          /\ image.book[side] \in Seq(Levels \cup ImageLevels)
        OBVIOUS
      <3>1. replayer.book[side] \in Seq(Levels) /\ image.book[side] \in Seq(ImageLevels)
        BY <2>2, <2>3
      <3> QED BY <3>1
    <2> QED BY <2>4
  <1>5. /\ Diff = {} <=> \A side \in Side : Top(replayer.book[side]) = Top(image.book[side])
        /\ \A kind \in DiffKind : DiffsOf(kind) \in Nat
        /\ (\A kind \in DiffKind : DiffsOf(kind) = 0) <=> Diff = {}
    BY <1>4, DiffFacts
  <1>6. Agrees(events, j) <=> Diff = {}
    <2>1. replayer = Replay(SubSeq(events, 1, position))
      BY <1>1 DEF VerdictInv
    <2> HIDE DEF j
    <2> QED BY <1>2, <1>5, <2>1, Zenon DEF Agrees
  <1>7. PICK wrong \in BOOLEAN : wrong <=> Diff # {}
    OBVIOUS
  <1>8. PICK t : t = image.timestamp
    OBVIOUS
  <1> HIDE DEF j, X
  <1>9. Cardinality(Wrong(One)) \in Nat /\ Cardinality(Wrong(Several)) \in Nat
    <2>1. PICK more : more = Append(judged, j)
      OBVIOUS
    <2>2. IsOneMore(events, judged, j, One, more) /\ IsOneMore(events, judged, j, Several, more)
      BY <1>3, <2>1, OneMoreWrong, Zenon
    <2> QED BY <2>2 DEF IsOneMore, Wrong
  <1>10. /\ Cardinality(Wrong(One)') = Cardinality(Wrong(One)) + Count(group = 1 /\ wrong)
         /\ Wrong(One)' = {} <=> Wrong(One) = {} /\ ~ (group = 1 /\ wrong)
         /\ FirstTimes(judged, Wrong(One))'
               = IF group = 1 /\ wrong
                 THEN AppendUpTo(FirstTimes(judged, Wrong(One)), MaxSamples, t)
                 ELSE FirstTimes(judged, Wrong(One))
    <2>1. PICK f : f = One
      OBVIOUS
    <2>2. IsWrong(events, j, f) <=> group = 1 /\ wrong
      BY <1>2, <1>6, <1>7, <2>1 DEF IsWrong, One, Several
    <2>3. PICK more : more = Append(judged, j)
      OBVIOUS
    <2>4. /\ Cardinality(WrongOf(events, more, f))
               = IF IsWrong(events, j, f) THEN Cardinality(WrongOf(events, judged, f)) + 1
                 ELSE Cardinality(WrongOf(events, judged, f))
          /\ WrongOf(events, more, f) = {} <=> WrongOf(events, judged, f) = {} /\ ~ IsWrong(events, j, f)
          /\ FirstTimes(more, WrongOf(events, more, f))
               = IF IsWrong(events, j, f) THEN AppendUpTo(FirstTimes(judged, WrongOf(events, judged, f)),
                                      MaxSamples, j.image.timestamp)
                 ELSE FirstTimes(judged, WrongOf(events, judged, f))
      <3>1. IsOneMore(events, judged, j, f, more)
        BY <1>3, <2>3, OneMoreWrong, Zenon
      <3> QED BY <3>1, Zenon DEF IsOneMore
    <2>5. Wrong(One)' = WrongOf(events, more, f) /\ Wrong(One) = WrongOf(events, judged, f)
      BY <1>1, <2>1, <2>3 DEF Wrong
    <2>6. FirstTimes(judged, Wrong(One))' = FirstTimes(more, WrongOf(events, more, f))
      BY <1>1, <2>3, <2>5 DEF FirstTimes
    <2>7. /\ Count(group = 1 /\ wrong) = IF group = 1 /\ wrong THEN 1 ELSE 0
          /\ \A c \in Nat : c + 0 = c
      BY DEF Count
    <2>8. j.image.timestamp = t
      BY <1>2, <1>8
    <2> QED BY <1>9, <2>2, <2>4, <2>5, <2>6, <2>7, <2>8, Zenon
  <1>11. /\ Cardinality(Wrong(Several)') = Cardinality(Wrong(Several)) + Count(group > 1 /\ wrong)
         /\ FirstTimes(judged, Wrong(Several))'
               = IF group > 1 /\ wrong
                 THEN AppendUpTo(FirstTimes(judged, Wrong(Several)), MaxSamples, t)
                 ELSE FirstTimes(judged, Wrong(Several))
    <2>1. PICK f : f = Several
      OBVIOUS
    <2>2. IsWrong(events, j, f) <=> group > 1 /\ wrong
      BY <1>2, <1>6, <1>7, <2>1 DEF IsWrong, One, Several
    <2>3. PICK more : more = Append(judged, j)
      OBVIOUS
    <2>4. /\ Cardinality(WrongOf(events, more, f))
               = IF IsWrong(events, j, f) THEN Cardinality(WrongOf(events, judged, f)) + 1
                 ELSE Cardinality(WrongOf(events, judged, f))
          /\ FirstTimes(more, WrongOf(events, more, f))
               = IF IsWrong(events, j, f) THEN AppendUpTo(FirstTimes(judged, WrongOf(events, judged, f)),
                                      MaxSamples, j.image.timestamp)
                 ELSE FirstTimes(judged, WrongOf(events, judged, f))
      <3>1. IsOneMore(events, judged, j, f, more)
        BY <1>3, <2>3, OneMoreWrong, Zenon
      <3> QED BY <3>1, Zenon DEF IsOneMore
    <2>5. Wrong(Several)' = WrongOf(events, more, f) /\ Wrong(Several) = WrongOf(events, judged, f)
      BY <1>1, <2>1, <2>3 DEF Wrong
    <2>6. FirstTimes(judged, Wrong(Several))' = FirstTimes(more, WrongOf(events, more, f))
      BY <1>1, <2>3, <2>5 DEF FirstTimes
    <2>7. /\ Count(group > 1 /\ wrong) = IF group > 1 /\ wrong THEN 1 ELSE 0
          /\ \A c \in Nat : c + 0 = c
      BY DEF Count
    <2>8. j.image.timestamp = t
      BY <1>2, <1>8
    <2> QED BY <1>9, <2>2, <2>4, <2>5, <2>6, <2>7, <2>8, Zenon
  <1>12. MismatchesInv
    BY DEF VerdictInv
  <1>13. \A a \in Nat : a + 0 = a
    OBVIOUS
  <1>14. CASE group > 1
    <2>1. /\ summary'.ambiguous_mismatches = summary.ambiguous_mismatches + Count(Diff # {})
          /\ summary'.sample_ambiguous_timestamps
                = IF Diff = {} THEN summary.sample_ambiguous_timestamps
                  ELSE AppendUpTo(summary.sample_ambiguous_timestamps, MaxSamples, t)
          /\ summary'.unambiguous_mismatches = summary.unambiguous_mismatches
          /\ summary'.sample_mismatch_timestamps = summary.sample_mismatch_timestamps
          /\ summary'.differences = summary.differences
      BY <1>8, <1>14, CompareSummary
    <2>2. /\ Count(group = 1 /\ wrong) = 0 /\ Count(group > 1 /\ wrong) = Count(Diff # {})
          /\ ~ (group = 1 /\ wrong)
      BY <1>7, <1>14 DEF Count
    <2>3. (group > 1 /\ wrong) <=> ~ (Diff = {})
      BY <1>7, <1>14
    <2>4. summary'.unambiguous_mismatches = Cardinality(Wrong(One)')
      BY <1>9, <1>10, <1>12, <1>13, <2>1, <2>2, Zenon DEF MismatchesInv
    <2>5. summary'.ambiguous_mismatches = Cardinality(Wrong(Several)')
      BY <1>11, <1>12, <2>1, <2>2, Zenon DEF MismatchesInv
    <2>6. summary'.sample_mismatch_timestamps = FirstTimes(judged, Wrong(One))'
      BY <1>10, <1>12, <2>1, <2>2, Zenon DEF MismatchesInv
    <2>7. summary'.sample_ambiguous_timestamps = FirstTimes(judged, Wrong(Several))'
      BY <1>11, <1>12, <2>1, <2>3, Zenon DEF MismatchesInv
    <2>8. /\ summary'.differences \in [DiffKind -> Nat]
          /\ (\A kind \in DiffKind : summary'.differences[kind] = 0) <=> Wrong(One)' = {}
      BY <1>10, <1>12, <2>1, <2>2, Zenon DEF MismatchesInv
    <2> QED BY <2>4, <2>5, <2>6, <2>7, <2>8, Zenon DEF MismatchesInv
  <1>15. CASE ~ (group > 1)
    <2>1. /\ summary'.unambiguous_mismatches = summary.unambiguous_mismatches + Count(Diff # {})
          /\ summary'.sample_mismatch_timestamps
                = IF Diff = {} THEN summary.sample_mismatch_timestamps
                  ELSE AppendUpTo(summary.sample_mismatch_timestamps, MaxSamples, t)
          /\ summary'.differences
                = [kind \in DiffKind |-> summary.differences[kind] + DiffsOf(kind)]
          /\ summary'.ambiguous_mismatches = summary.ambiguous_mismatches
          /\ summary'.sample_ambiguous_timestamps = summary.sample_ambiguous_timestamps
      BY <1>8, <1>15, CompareSummary
    <2>2. group = 1
      BY <1>2, <1>15
    <2>3. /\ Count(group > 1 /\ wrong) = 0 /\ Count(group = 1 /\ wrong) = Count(Diff # {})
          /\ ~ (group > 1 /\ wrong)
      BY <1>7, <1>15, <2>2 DEF Count
    <2>4. (group = 1 /\ wrong) <=> ~ (Diff = {})
      BY <1>7, <2>2
    <2>5. summary'.ambiguous_mismatches = Cardinality(Wrong(Several)')
      BY <1>9, <1>11, <1>12, <1>13, <2>1, <2>3, Zenon DEF MismatchesInv
    <2>6. summary'.unambiguous_mismatches = Cardinality(Wrong(One)')
      BY <1>10, <1>12, <2>1, <2>3, Zenon DEF MismatchesInv
    <2>7. summary'.sample_ambiguous_timestamps = FirstTimes(judged, Wrong(Several))'
      BY <1>11, <1>12, <2>1, <2>3, Zenon DEF MismatchesInv
    <2>8. summary'.sample_mismatch_timestamps = FirstTimes(judged, Wrong(One))'
      BY <1>10, <1>12, <2>1, <2>4, Zenon DEF MismatchesInv
    <2>9. /\ summary'.differences \in [DiffKind -> Nat]
          /\ (\A kind \in DiffKind : summary'.differences[kind] = 0) <=> Wrong(One)' = {}
      <3>1. PICK d \in [DiffKind -> Nat] : d = summary.differences
        BY <1>12 DEF MismatchesInv
      <3>2. \A kind \in DiffKind : /\ summary'.differences[kind] = d[kind] + DiffsOf(kind)
                                   /\ d[kind] \in Nat /\ DiffsOf(kind) \in Nat
        BY <1>5, <2>1, <3>1
      <3>3. \A kind \in DiffKind : /\ summary'.differences[kind] \in Nat
                                   /\ summary'.differences[kind] = 0
                                         <=> d[kind] = 0 /\ DiffsOf(kind) = 0
        BY <3>2
      <3>4. summary'.differences \in [DiffKind -> Nat]
        BY <2>1, <3>3
      <3>5. (\A kind \in DiffKind : summary'.differences[kind] = 0)
               <=> (\A kind \in DiffKind : d[kind] = 0) /\ (\A kind \in DiffKind : DiffsOf(kind) = 0)
        BY <3>3
      <3>6. (\A kind \in DiffKind : d[kind] = 0) <=> Wrong(One) = {}
        BY <1>12, <3>1 DEF MismatchesInv
      <3> QED BY <1>5, <1>10, <2>4, <3>4, <3>5, <3>6, Zenon
    <2> QED BY <2>5, <2>6, <2>7, <2>8, <2>9, Zenon DEF MismatchesInv
  <1> QED BY <1>14, <1>15

(***************************************************************************)
(* The clean samples.                                                      *)
(***************************************************************************)

TimesJudged == {judged[i].image.timestamp : i \in 1 .. Len(judged)}

\* A step that samples nothing.
LEMMA CleanStays ==
    ASSUME CleanInv, UNCHANGED <<judged, sampling>>, phase # "done", phase' # "done",
           summary'.sample_clean_timestamps = summary.sample_clean_timestamps,
           phase' = "catching_up" \/ (phase' = "reading" /\ reference' # <<>>) =>
              \/ phase = "catching_up" \/ (phase = "reading" /\ reference # <<>>)
              \/ summary.sample_clean_timestamps = <<>>
    PROVE  CleanInv'
  <1>1. PICK samples : samples = summary.sample_clean_timestamps
    OBVIOUS
  <1>2. TimesJudged' = TimesJudged
    BY DEF TimesJudged
  <1>3. /\ samples \in Seq(TimesJudged)
        /\ sampling.open \in BOOLEAN /\ sampling.midday \in BOOLEAN
        /\ DOMAIN sampling = {"open", "midday", "target"}
        /\ Len(samples) <= 3
        /\ phase = "catching_up" \/ (phase = "reading" /\ reference # <<>>) =>
              Len(samples) <= Count(sampling.open) + Count(sampling.midday)
        /\ sampling.midday => sampling.open
        /\ judged = <<>> => ~ sampling.open
        /\ judged # <<>> => samples # <<>>
    BY <1>1, Zenon DEF CleanInv, TimesJudged
  <1>4. samples = <<>> => Len(samples) <= Count(sampling.open) + Count(sampling.midday)
    BY DEF Count
  <1>5. /\ samples \in Seq(TimesJudged')
        /\ Len(samples) <= 3
        /\ phase' = "catching_up" \/ (phase' = "reading" /\ reference' # <<>>) =>
              Len(samples) <= Count(sampling'.open) + Count(sampling'.midday)
        /\ judged' # <<>> => samples # <<>>
    BY <1>1, <1>2, <1>3, <1>4, Zenon
  <1>6. samples = summary'.sample_clean_timestamps
    BY <1>1
  <1> QED BY <1>3, <1>5, <1>6, Zenon DEF CleanInv, TimesJudged

LEMMA CompareClean ==
    ASSUME PairingInv, VerdictInv, Compare
    PROVE  CleanInv'
  <1>1. PICK j : j = [image |-> image, at |-> position, group |-> group]
    OBVIOUS
  <1>2. PICK t : t = image.timestamp
    OBVIOUS
  <1>3. PICK samples : samples = summary.sample_clean_timestamps
    OBVIOUS
  <1>4. PICK label : label = SampleLabel
    OBVIOUS
  <1>5. /\ phase = "catching_up" /\ phase' = "reading" /\ judged' = Append(judged, j)
        /\ reference' = reference
    BY <1>1 DEF Compare, CaughtUp
  <1>6. summary'.sample_clean_timestamps = AppendIf(label # "none", samples, t)
    BY <1>2, <1>3, <1>4, CompareSummary
  <1>7. /\ samples \in Seq(TimesJudged)
        /\ sampling.open \in BOOLEAN /\ sampling.midday \in BOOLEAN
        /\ DOMAIN sampling = {"open", "midday", "target"}
        /\ Len(samples) <= Count(sampling.open) + Count(sampling.midday)
        /\ sampling.midday => sampling.open
        /\ judged = <<>> => ~ sampling.open
        /\ judged # <<>> => samples # <<>>
    BY <1>3, <1>5, Zenon DEF VerdictInv, CleanInv, TimesJudged
  <1>8. /\ judged \in Seq(Range(judged)) /\ judged' # <<>> /\ Len(judged') = Len(judged) + 1
        /\ judged'[Len(judged) + 1] = j /\ \A i \in 1 .. Len(judged) : judged'[i] = judged[i]
        /\ Len(judged) \in Nat
    <2>1. judged \in Seq(Range(judged))
      BY DEF PairingInv
    <2>2. PICK X : judged \in Seq(X) /\ j \in X
      <3>1. judged \in Seq(Range(judged) \cup {j}) /\ j \in Range(judged) \cup {j}
        <4> DEFINE X == Range(judged) \cup {j}
        <4>1. \A i \in 1 .. Len(judged) : judged[i] \in X
          BY <2>1
        <4> QED BY <2>1, <4>1
      <3> QED BY <3>1
    <2> QED BY <1>5, <2>1, <2>2
  <1>9. TimesJudged' = TimesJudged \cup {t}
    <2>1. PICK n \in Nat : n = Len(judged)
      BY <1>8
    <2>2. j.image.timestamp = t
      BY <1>1, <1>2
    <2>3. \A i : i \in 1 .. Len(judged') <=> i \in 1 .. n \/ i = n + 1
      BY <1>8, <2>1
    <2>4. \A x : x \in TimesJudged' <=> x \in TimesJudged \/ x = t
      BY <1>8, <2>1, <2>2, <2>3 DEF TimesJudged
    <2> QED BY <2>4
  <1>10. PICK more : more = AppendIf(label # "none", samples, t)
    OBVIOUS
  <1>11. more \in Seq(TimesJudged')
    <2>1. samples \in Seq(TimesJudged') /\ t \in TimesJudged'
      BY <1>7, <1>9
    <2> QED BY <1>10, <2>1 DEF AppendIf
  <1>12. PICK open \in BOOLEAN, midday \in BOOLEAN : open = sampling.open /\ midday = sampling.midday
    BY <1>7
  <1>13. PICK n \in Nat : n = Len(samples)
    BY <1>7
  <1>14. /\ n <= Count(open) + Count(midday) /\ (midday => open)
         /\ judged = <<>> => ~ open
         /\ judged # <<>> => samples # <<>>
    BY <1>7, <1>12, <1>13
  <1>15. /\ label # "none" => Len(more) = n + 1 /\ more # <<>>
         /\ label = "none" => more = samples /\ Len(more) = n
    BY <1>7, <1>10, <1>13 DEF AppendIf
  <1>15a. ASSUME sampling'.open \in BOOLEAN, sampling'.midday \in BOOLEAN,
                DOMAIN sampling' = {"open", "midday", "target"},
                Len(more) <= 3,
                reference' # <<>> =>
                   Len(more) <= Count(sampling'.open) + Count(sampling'.midday),
                sampling'.midday => sampling'.open, more # <<>>
         PROVE  CleanInv'
    <2>1. phase' # "catching_up" /\ phase' # "done"
      BY <1>5
    <2>2. more = summary'.sample_clean_timestamps
      BY <1>6, <1>10
    <2> QED BY <1>8, <1>11, <1>15a, <2>1, <2>2, Zenon DEF CleanInv, TimesJudged
  <1>16. CASE ~ open
    <2>1. label = "open" /\ sampling' = [sampling EXCEPT !.open = TRUE, !.target = Midday]
      BY <1>4, <1>12, <1>16 DEF SampleLabel, Compare
    <2>2. /\ sampling'.open = TRUE /\ sampling'.midday = midday
          /\ DOMAIN sampling' = {"open", "midday", "target"}
      BY <1>7, <1>12, <2>1
    <2>3. n = 0 /\ ~ midday
      BY <1>13, <1>14, <1>16 DEF Count
    <2>4. Len(more) = 1 /\ more # <<>>
      BY <1>15, <2>1, <2>3
    <2>5. Count(sampling'.open) + Count(sampling'.midday) = 1
      BY <2>2, <2>3 DEF Count
    <2>6. /\ sampling'.open \in BOOLEAN /\ sampling'.midday \in BOOLEAN
          /\ sampling'.midday => sampling'.open
      BY <1>12, <2>2, <2>3
    <2>7. /\ Len(more) <= 3
          /\ Len(more) <= Count(sampling'.open) + Count(sampling'.midday)
      BY <2>4, <2>5
    <2> QED BY <1>15a, <2>2, <2>4, <2>6, <2>7, Zenon
  <1>17. CASE open
    <2>1. more # <<>>
      <3>1. judged # <<>>
        BY <1>14, <1>17
      <3> QED BY <1>14, <1>15, <3>1
    <2>2. CASE label = "midday"
      <3>1. ~ midday /\ sampling' = [sampling EXCEPT !.midday = TRUE]
        BY <1>4, <1>12, <1>17, <2>2 DEF SampleLabel, Compare
      <3>2. /\ sampling'.open = TRUE /\ sampling'.midday = TRUE
            /\ DOMAIN sampling' = {"open", "midday", "target"}
        BY <1>7, <1>12, <1>17, <3>1
      <3>3. Len(more) <= 2
        BY <1>14, <1>15, <1>17, <2>2, <3>1 DEF Count
      <3>4. Count(sampling'.open) + Count(sampling'.midday) = 2
        BY <3>2 DEF Count
      <3>6. /\ sampling'.open \in BOOLEAN /\ sampling'.midday \in BOOLEAN
            /\ sampling'.midday => sampling'.open
        BY <3>2
      <3>7. /\ Len(more) <= 3
            /\ Len(more) <= Count(sampling'.open) + Count(sampling'.midday)
        BY <3>3, <3>4
      <3> QED BY <1>15a, <2>1, <3>2, <3>6, <3>7, Zenon
    <2>3. CASE label # "midday"
      <3>1. sampling' = sampling /\ (label = "none" \/ (label = "close" /\ reference = <<>>))
        BY <1>4, <1>12, <1>17, <2>3 DEF SampleLabel, Compare
      <3>2. /\ sampling'.open = open /\ sampling'.midday = midday
            /\ DOMAIN sampling' = {"open", "midday", "target"}
        BY <1>7, <1>12, <3>1
      <3>3. n <= 2 /\ n <= Count(open) + Count(midday)
        BY <1>14 DEF Count
      <3>4. Len(more) <= 3 /\ (reference # <<>> => Len(more) <= Count(open) + Count(midday))
        BY <1>15, <3>1, <3>3
      <3> QED BY <1>5, <1>14, <1>15a, <1>17, <2>1, <3>2, <3>4
    <2> QED BY <2>2, <2>3
  <1> QED BY <1>16, <1>17

(***************************************************************************)
(* Every step keeps the verdicts.                                          *)
(***************************************************************************)

LEMMA VerdictInitInv == GivenInit \/ ExportInit => VerdictInv
  <1> SUFFICES ASSUME GivenInit \/ ExportInit PROVE VerdictInv
    OBVIOUS
  <1>1. /\ position = 0 /\ image = NoImage /\ replayer = NewReplayer
        /\ sampling = [open |-> FALSE, midday |-> FALSE, target |-> 0]
        /\ summary = NewSummary /\ judged = <<>>
        /\ phase # "done" /\ phase # "catching_up" /\ phase # "threw"
    BY DEF GivenInit, ExportInit, ValidateInit
  <1>2. replayer = Replay(SubSeq(events, 1, position))
    <2>1. SubSeq(events, 1, 0) = <<>>
      OBVIOUS
    <2> QED BY <1>1, <2>1, ReplayOfNothing
  <1>3. \A side \in Side : image.book[side] \in Seq(ImageLevels)
    BY <1>1 DEF NoImage, EmptyBook
  <1>4. \A sizes : Wrong(sizes) = {}
    <2>1. Len(judged) = 0
      BY <1>1
    <2> QED BY <2>1 DEF Wrong, WrongOf
  <1>5. Cardinality({}) = 0
    BY FS_EmptySet
  <1>6. FirstTimes(judged, {}) = <<>>
    <2>1. Smaller(MaxSamples, 0) = 0
      BY ValidateAssumption DEF Smaller
    <2> QED BY <1>5, <2>1 DEF FirstTimes
  <1>7. MismatchesInv
    <2>1. /\ summary.unambiguous_mismatches = 0 /\ summary.ambiguous_mismatches = 0
          /\ summary.sample_mismatch_timestamps = <<>>
          /\ summary.sample_ambiguous_timestamps = <<>>
          /\ summary.differences = [kind \in DiffKind |-> 0]
      BY <1>1 DEF NewSummary
    <2>2. Wrong(One) = {} /\ Wrong(Several) = {}
      BY <1>4
    <2>3. /\ summary.differences \in [DiffKind -> Nat]
          /\ \A kind \in DiffKind : summary.differences[kind] = 0
      BY <2>1
    <2> QED BY <1>5, <1>6, <2>1, <2>2, <2>3, Zenon DEF MismatchesInv
  <1>8. CleanInv
    <2>1. summary.sample_clean_timestamps = <<>> /\ Len(<<>>) = 0
      BY <1>1 DEF NewSummary
    <2>3. /\ ~ sampling.open /\ ~ sampling.midday
          /\ sampling.open \in BOOLEAN /\ sampling.midday \in BOOLEAN
          /\ DOMAIN sampling = {"open", "midday", "target"}
      BY <1>1
    <2>2. Count(sampling.open) = 0 /\ Count(sampling.midday) = 0
      BY <2>3, Zenon DEF Count
    <2>4. /\ <<>> \in Seq(TimesJudged) /\ Len(<<>>) <= 3
          /\ Len(<<>>) <= Count(sampling.open) + Count(sampling.midday)
      BY <2>2
    <2> QED BY <1>1, <2>1, <2>3, <2>4, Zenon DEF CleanInv, TimesJudged
  <1>9. summary.images = 0 /\ sampling.open = FALSE
    BY <1>1 DEF NewSummary
  <1> QED BY <1>1, <1>2, <1>3, <1>7, <1>8, <1>9 DEF VerdictInv

\* A step that judges, reads and counts nothing.
LEMMA OtherStepsVerdict ==
    ASSUME VerdictInv, UNCHANGED <<image, sampling, judged>>,
           phase' # "threw" => replayer' = Replay(SubSeq(events', 1, position')),
           judged # <<>> => UNCHANGED events,
           phase # "done", phase' # "done",
           phase' = "catching_up" => phase = "catching_up",
           phase' = "reading" /\ reference' # <<>> =>
              \/ phase = "catching_up" \/ (phase = "reading" /\ reference # <<>>)
              \/ summary.sample_clean_timestamps = <<>>,
           Exporting' => Exporting,
           summary'.images = summary.images,
           summary'.sample_clean_timestamps = summary.sample_clean_timestamps,
           summary'.unambiguous_mismatches = summary.unambiguous_mismatches,
           summary'.ambiguous_mismatches = summary.ambiguous_mismatches,
           summary'.sample_mismatch_timestamps = summary.sample_mismatch_timestamps,
           summary'.sample_ambiguous_timestamps = summary.sample_ambiguous_timestamps,
           summary'.differences = summary.differences,
           Exporting' => summary' = summary
    PROVE  VerdictInv'
  <1>1. CleanInv /\ MismatchesInv
    BY DEF VerdictInv
  <1>2. CleanInv'
    BY <1>1, CleanStays
  <1>3. MismatchesInv'
    <2>1. CASE UNCHANGED events
      BY <1>1, <2>1, MismatchesStay
    <2>2. CASE judged = <<>>
      <3>1. Len(judged) = 0 /\ Len(judged') = 0
        BY <2>2
      <3>2. /\ Wrong(One) = {} /\ Wrong(One)' = {} /\ Wrong(Several) = {} /\ Wrong(Several)' = {}
        BY <3>1 DEF Wrong, WrongOf
      <3>3. /\ FirstTimes(judged, Wrong(One))' = FirstTimes(judged, Wrong(One))
            /\ FirstTimes(judged, Wrong(Several))' = FirstTimes(judged, Wrong(Several))
        BY <3>2 DEF FirstTimes
      <3> QED BY <1>1, <3>2, <3>3, Zenon DEF MismatchesInv
    <2> QED BY <2>1, <2>2
  <1> QED BY <1>2, <1>3 DEF VerdictInv

LEMMA FeedVerdict ==
    ASSUME PairingInv, VerdictInv, HasEvent, Feed, phase' = FeedPhase,
           phase \in {"reading", "catching_up"},
           UNCHANGED <<events, reference, image, sampling, summary, judged>>
    PROVE  VerdictInv'
  <1>1. phase' # "threw" => replayer' = Replay(SubSeq(events', 1, position'))
    <2> SUFFICES ASSUME phase' # "threw"
                 PROVE  replayer' = Replay(SubSeq(events', 1, position'))
      OBVIOUS
    <2>1. replayer' = Applied(replayer, Peek) /\ position' = position + 1
      BY DEF Feed, FeedPhase
    <2>2. events \in Seq(BookUpdate) /\ position \in 0 .. Len(events) - 1
      BY DEF PairingInv, ReplayInv, StreamTypeOK, HasEvent
    <2>3. replayer = Replay(SubSeq(events, 1, position))
      BY DEF VerdictInv
    <2>4. Replay(SubSeq(events, 1, position + 1))
             = Applied(Replay(SubSeq(events, 1, position)), events[position + 1])
      BY <2>2, ReplayOfOneMore
    <2> QED BY <2>1, <2>3, <2>4 DEF Peek
  <1>2. phase' = phase \/ phase' = "threw"
    BY DEF FeedPhase
  <1>3. ~ Exporting /\ ~ Exporting' /\ phase' # "done" /\ phase # "done"
        /\ (phase' = "catching_up" => phase = "catching_up")
        /\ (phase' = "reading" => phase = "reading")
    BY <1>2 DEF Exporting
  <1> QED BY <1>1, <1>3, OtherStepsVerdict

LEMMA ReadImageVerdict ==
    ASSUME PairingInv, VerdictInv, ReadImage
    PROVE  VerdictInv'
  <1>1. /\ phase = "reading" /\ phase' = "catching_up" /\ reference # <<>>
        /\ UNCHANGED <<events, position, replayer, sampling, judged>>
    BY DEF ReadImage
  <1>2. CountersInv /\ CleanInv /\ MismatchesInv
    BY DEF PairingInv, VerdictInv
  <1>3. /\ summary'.images = summary.images + 1
        /\ summary'.sample_clean_timestamps = summary.sample_clean_timestamps
        /\ summary'.unambiguous_mismatches = summary.unambiguous_mismatches
        /\ summary'.ambiguous_mismatches = summary.ambiguous_mismatches
        /\ summary'.sample_mismatch_timestamps = summary.sample_mismatch_timestamps
        /\ summary'.sample_ambiguous_timestamps = summary.sample_ambiguous_timestamps
        /\ summary'.differences = summary.differences
    <2> DEFINE rows == summary.reference_rows + Len(ImageRows)
    <2>1. summary' = [summary EXCEPT !.images = @ + 1, !.reference_rows = rows]
      BY DEF ReadImage
    <2> HIDE DEF rows
    <2> QED BY <1>2, <2>1 DEF CountersInv, NewSummary
  <1>4. CleanInv'
    <2>1. phase # "done" /\ phase' # "done"
      BY <1>1
    <2> QED BY <1>1, <1>2, <1>3, <2>1, CleanStays
  <1>5. MismatchesInv'
    BY <1>1, <1>2, <1>3, MismatchesStay
  <1>6. \A side \in Side : image'.book[side] \in Seq(ImageLevels)
    <2> SUFFICES ASSUME NEW side \in Side PROVE image'.book[side] \in Seq(ImageLevels)
      OBVIOUS
    <2>1. PICK rows : rows = RowsOf(side)
      OBVIOUS
    <2>2. image'.book[side] = [i \in 1 .. Len(rows) |-> Level(rows[i].price, rows[i].quantity)]
      BY <2>1 DEF ReadImage
    <2>3. rows \in Seq(ReferenceRow)
      <3>1. ImageRows \in Seq(ReferenceRow)
        BY ImageRowsFacts DEF PairingInv
      <3> DEFINE S == {i \in 1 .. Len(ImageRows) : ImageRows[i].side = side}
      <3>2. S \in SUBSET (1 .. Len(ImageRows))
        OBVIOUS
      <3>3. rows = RowsAt(ImageRows, S)
        BY <2>1 DEF RowsOf
      <3> HIDE DEF S
      <3> QED BY <3>1, <3>2, <3>3, RowsAtFacts
    <2>4. \A i \in 1 .. Len(rows) : Level(rows[i].price, rows[i].quantity) \in ImageLevels
      <3> SUFFICES ASSUME NEW i \in 1 .. Len(rows)
                   PROVE  Level(rows[i].price, rows[i].quantity) \in ImageLevels
        OBVIOUS
      <3>1. rows[i] \in ReferenceRow
        BY <2>3
      <3> QED BY <3>1 DEF ReferenceRow, Level, ImageLevels
    <2>5. Len(rows) \in Nat
      BY <2>3
    <2> QED BY <2>2, <2>4, <2>5
  <1>7. summary.images \in Nat
    BY DEF VerdictInv
  <1>8. summary'.images \in Nat /\ summary'.images > 0
    BY <1>3, <1>7
  <1>9. phase' # "threw" => replayer' = Replay(SubSeq(events', 1, position'))
    BY <1>1 DEF VerdictInv
  <1>10. ~ Exporting'
    BY <1>1 DEF Exporting
  <1> QED BY <1>4, <1>5, <1>6, <1>8, <1>9, <1>10 DEF VerdictInv

LEMMA CompareVerdict ==
    ASSUME PairingInv, VerdictInv, Compare
    PROVE  VerdictInv'
  <1>1. CleanInv' /\ MismatchesInv'
    BY CompareClean, CompareMismatches
  <1>2. /\ phase = "catching_up" /\ phase' = "reading"
        /\ UNCHANGED <<events, position, image, replayer>>
    BY DEF Compare, CaughtUp
  <1>3. summary'.images = summary.images
    BY CompareSummary
  <1>4. ~ Exporting'
    BY <1>2 DEF Exporting
  <1> QED BY <1>1, <1>2, <1>3, <1>4 DEF VerdictInv

LEMMA FinishVerdict ==
    ASSUME PairingInv, VerdictInv, Finish
    PROVE  VerdictInv'
  <1>1. /\ phase = "reading" /\ phase' = "done"
        /\ UNCHANGED <<events, position, reference, image, replayer, sampling, judged>>
        /\ summary' = IF Verdict(summary) = "pass" THEN summary
                      ELSE [summary EXCEPT !.sample_clean_timestamps = <<>>]
    BY DEF Finish
  <1>2. CountersInv /\ CleanInv /\ MismatchesInv
    BY DEF PairingInv, VerdictInv
  <1>3. /\ summary'.images = summary.images
        /\ summary'.unambiguous_mismatches = summary.unambiguous_mismatches
        /\ summary'.ambiguous_mismatches = summary.ambiguous_mismatches
        /\ summary'.sample_mismatch_timestamps = summary.sample_mismatch_timestamps
        /\ summary'.sample_ambiguous_timestamps = summary.sample_ambiguous_timestamps
        /\ summary'.differences = summary.differences
        /\ summary'.sample_clean_timestamps
              = IF Verdict(summary) = "pass" THEN summary.sample_clean_timestamps ELSE <<>>
    BY <1>1, <1>2 DEF CountersInv, NewSummary
  <1>4. Verdict(summary') = Verdict(summary)
    BY <1>3, Zenon DEF Verdict
  <1>5. MismatchesInv'
    BY <1>1, <1>2, <1>3, MismatchesStay
  <1>6. CleanInv'
    <2>1. PICK samples : samples = summary.sample_clean_timestamps
      OBVIOUS
    <2>2. PICK after : after = summary'.sample_clean_timestamps
      OBVIOUS
    <2>3. /\ samples \in Seq(TimesJudged) /\ Len(samples) <= 3
          /\ sampling.open \in BOOLEAN /\ sampling.midday \in BOOLEAN
          /\ DOMAIN sampling = {"open", "midday", "target"}
          /\ sampling.midday => sampling.open
          /\ judged = <<>> => ~ sampling.open
          /\ judged # <<>> => samples # <<>>
      <3>1. phase # "done"
        BY <1>1
      <3> QED BY <1>2, <2>1, <3>1, Zenon DEF CleanInv, TimesJudged
    <2>4. TimesJudged' = TimesJudged
      BY <1>1 DEF TimesJudged
    <2>5. after = IF Verdict(summary) = "pass" THEN samples ELSE <<>>
      BY <1>3, <2>1, <2>2
    <2>6. /\ after \in Seq(TimesJudged') /\ Len(after) <= 3
          /\ judged # <<>> => (after = <<>> => Verdict(summary) # "pass")
          /\ Verdict(summary) # "pass" => after = <<>>
      BY <2>3, <2>4, <2>5
    <2>7. phase' # "catching_up" /\ phase' # "reading" /\ phase' = "done"
      BY <1>1
    <2> QED BY <1>1, <1>4, <2>2, <2>3, <2>6, <2>7, Zenon DEF CleanInv, TimesJudged
  <1>7. ~ Exporting' /\ phase' # "catching_up"
    BY <1>1 DEF Exporting
  <1>8. phase' # "threw" => replayer' = Replay(SubSeq(events', 1, position'))
    BY <1>1 DEF VerdictInv
  <1> QED BY <1>1, <1>3, <1>5, <1>6, <1>7, <1>8 DEF VerdictInv

LEMMA ExportStepsVerdict ==
    ASSUME PairingInv, VerdictInv, ExportEvents \/ EndEvents \/ ExportImages \/ EndImages
    PROVE  VerdictInv'
  <1>1. /\ Exporting /\ UNCHANGED <<position, replayer, image, sampling, summary, judged>>
        /\ phase' \in {"exporting_events", "exporting_images", "no_export", "reading"}
    BY DEF ExportEvents, EndEvents, ExportImages, EndImages, Exporting
  <1>2. judged = <<>> /\ position = 0 /\ replayer = NewReplayer
    BY <1>1 DEF PairingInv, ReplayInv, Exporting
  <1>3. replayer' = Replay(SubSeq(events', 1, position'))
    <2>1. SubSeq(events', 1, 0) = <<>>
      OBVIOUS
    <2> QED BY <1>1, <1>2, <2>1, ReplayOfNothing
  <1>4. phase # "done" /\ phase' # "done" /\ phase' # "catching_up"
    BY <1>1 DEF Exporting
  <1>5. summary.sample_clean_timestamps = <<>>
    BY <1>1 DEF VerdictInv, NewSummary
  <1> QED BY <1>1, <1>2, <1>3, <1>4, <1>5, OtherStepsVerdict

LEMMA ValidateStepsVerdict ==
    ASSUME PairingInv, VerdictInv, ValidateNext
    PROVE  VerdictInv'
  <1>1. CASE ReadImage
    BY <1>1, ReadImageVerdict
  <1>2. CASE ApplyEvent
    BY <1>2, FeedVerdict DEF ApplyEvent
  <1>3. CASE Drain
    BY <1>3, FeedVerdict DEF Drain
  <1>4. CASE Compare
    BY <1>4, CompareVerdict
  <1>5. CASE Finish
    BY <1>5, FinishVerdict
  <1>6. CASE ReadFails
    <2>1. phase = "reading" /\ phase' = "malformed"
          /\ UNCHANGED <<events, position, reference, image, replayer, sampling, summary, judged>>
      BY <1>6 DEF ReadFails
    <2>2. replayer' = Replay(SubSeq(events', 1, position'))
      BY <2>1 DEF VerdictInv
    <2>3. ~ Exporting' /\ phase # "done" /\ phase' # "done" /\ phase' # "catching_up"
          /\ phase' # "reading"
      BY <2>1 DEF Exporting
    <2> QED BY <2>1, <2>2, <2>3, OtherStepsVerdict
  <1>7. CASE SkipOrphan
    <2>1. phase = "catching_up" /\ phase' = "reading"
          /\ UNCHANGED <<events, position, reference, image, replayer, sampling, judged>>
          /\ summary' = [summary EXCEPT !.orphan_images = @ + 1]
      BY <1>7 DEF SkipOrphan, CaughtUp
    <2>2. CountersInv
      BY DEF PairingInv
    <2>3. /\ summary'.images = summary.images
          /\ summary'.sample_clean_timestamps = summary.sample_clean_timestamps
          /\ summary'.unambiguous_mismatches = summary.unambiguous_mismatches
          /\ summary'.ambiguous_mismatches = summary.ambiguous_mismatches
          /\ summary'.sample_mismatch_timestamps = summary.sample_mismatch_timestamps
          /\ summary'.sample_ambiguous_timestamps = summary.sample_ambiguous_timestamps
          /\ summary'.differences = summary.differences
      BY <2>1, <2>2 DEF CountersInv, NewSummary
    <2>4. replayer' = Replay(SubSeq(events', 1, position'))
      BY <2>1 DEF VerdictInv
    <2>5. ~ Exporting' /\ phase # "done" /\ phase' # "done"
      BY <2>1 DEF Exporting
    <2> QED BY <2>1, <2>3, <2>4, <2>5, OtherStepsVerdict
  <1> QED BY <1>1, <1>2, <1>3, <1>4, <1>5, <1>6, <1>7 DEF ValidateNext

LEMMA StutterVerdict ==
    ASSUME VerdictInv, UNCHANGED exportedVars
    PROVE  VerdictInv'
  <1>1. UNCHANGED <<events, position, reference, image, replayer, sampling, summary, phase, judged>>
    BY DEF exportedVars, validateVars
  <1>2. MismatchesInv'
    BY <1>1, MismatchesStay DEF VerdictInv
  <1>3. CleanInv'
    BY <1>1 DEF VerdictInv, CleanInv
  <1>4. Exporting' = Exporting
    BY <1>1 DEF Exporting
  <1> QED BY <1>1, <1>2, <1>3, <1>4 DEF VerdictInv

(* At every step of an export and a validation the replayer is a fresh     *)
(* replay of the rows applied so far, and counters and samples are those   *)
(* of the images that differ from it.                                      *)
THEOREM VerdictInvariant == ExportSpec => [](PairingInv /\ VerdictInv)
  <1>1. GivenInit \/ ExportInit => VerdictInv
    BY VerdictInitInv
  <1>2. PairingInv /\ VerdictInv /\ [ExportNext]_exportedVars => VerdictInv'
    <2> SUFFICES ASSUME PairingInv, VerdictInv, [ExportNext]_exportedVars PROVE VerdictInv'
      OBVIOUS
    <2>1. CASE ExportNext
      BY <2>1, ExportStepsVerdict, ValidateStepsVerdict DEF ExportNext
    <2>2. CASE UNCHANGED exportedVars
      BY <2>2, StutterVerdict
    <2> QED BY <2>1, <2>2
  <1>3. ExportSpec => []PairingInv
    BY PairingInvariant
  <1> QED BY <1>1, <1>2, <1>3, PTL DEF ExportSpec

\* Once all is done, an image matches the whole day exactly when it was judged to.
LEMMA MatchesIsAgrees ==
    ASSUME PairingInv, phase = "done", NEW i \in 1 .. Len(judged)
    PROVE  Matches(judged[i].image) <=> Agrees(events, judged[i])
  <1>1. PICK at : at = judged[i].at
    OBVIOUS
  <1>2. PICK t : t = judged[i].image.timestamp
    OBVIOUS
  <1>3. /\ at \in 1 .. Len(day) /\ {e \in 1 .. Len(day) : day[e].timestamp <= t} = 1 .. at
        /\ SubSeq(day, 1, at) = SubSeq(events, 1, at)
    BY <1>1, <1>2, JudgedAt
  <1>4. day \in Seq(BookUpdate)
    BY DEF PairingInv, ReplayInv, StreamTypeOK
  <1>5. RowsAt(day, 1 .. at) = SubSeq(day, 1, at)
    <2>1. at \in 0 .. Len(day)
      BY <1>3, <1>4
    <2> QED BY <1>4, <2>1, RowsAtFront
  <1>6. BookAt(t) = Replay(SubSeq(events, 1, at)).book
    BY <1>3, <1>5, Zenon DEF BookAt
  <1> QED BY <1>1, <1>2, <1>6, Zenon DEF Matches, Agrees

LEMMA VerdictsAreThoseOfTheDay ==
    ASSUME PairingInv, phase = "done"
    PROVE  /\ Wrong(One) = {i \in 1 .. Len(judged) : /\ (judged[i].group = 1) <=> TRUE
                                                     /\ ~ Matches(judged[i].image)}
           /\ Wrong(Several) = {i \in 1 .. Len(judged) : /\ (judged[i].group = 1) <=> FALSE
                                                         /\ ~ Matches(judged[i].image)}
  <1>1. \A i \in 1 .. Len(judged) : judged[i].group \in Nat \ {0}
    BY DEF PairingInv, IsJudged
  <1>2. \A i \in 1 .. Len(judged) : Matches(judged[i].image) <=> Agrees(events, judged[i])
    BY MatchesIsAgrees
  <1>3. \A i \in 1 .. Len(judged) : /\ judged[i].group \in One <=> judged[i].group = 1
                                    /\ judged[i].group \in Several <=> ~ (judged[i].group = 1)
    BY <1>1 DEF One, Several
  <1>4. \A i : i \in Wrong(One) <=> /\ i \in 1 .. Len(judged) /\ judged[i].group = 1
                                    /\ ~ Matches(judged[i].image)
    BY <1>2, <1>3, Zenon DEF Wrong, WrongOf
  <1>5. \A i : i \in Wrong(Several) <=> /\ i \in 1 .. Len(judged) /\ ~ (judged[i].group = 1)
                                        /\ ~ Matches(judged[i].image)
    BY <1>2, <1>3, Zenon DEF Wrong, WrongOf
  <1>6. Wrong(One) = {i \in 1 .. Len(judged) : /\ (judged[i].group = 1) <=> TRUE
                                               /\ ~ Matches(judged[i].image)}
    BY <1>4, Zenon
  <1>7. Wrong(Several) = {i \in 1 .. Len(judged) : /\ (judged[i].group = 1) <=> FALSE
                                                   /\ ~ Matches(judged[i].image)}
    BY <1>5, Zenon
  <1> QED BY <1>6, <1>7

LEMMA VerdictInvIsFresh == PairingInv /\ VerdictInv => VerdictIsThatOfAFreshReplay
  <1> SUFFICES ASSUME PairingInv, VerdictInv, phase = "done", judged # <<>>
               PROVE  Verdict(summary) = "pass"
                         <=> \A i \in 1 .. Len(judged) : Matches(judged[i].image)
    BY DEF VerdictIsThatOfAFreshReplay
  <1>1. summary.images > 0 /\ summary.images \in Nat /\ MismatchesInv
    BY DEF VerdictInv
  <1>2. Len(judged) \in Nat
    BY DEF PairingInv
  <1>3. \A sizes : IsFiniteSet(Wrong(sizes))
    <2> TAKE sizes
    <2>1. IsFiniteSet(1 .. Len(judged))
      BY <1>2, FS_Interval
    <2>2. Wrong(sizes) \in SUBSET (1 .. Len(judged))
      BY DEF Wrong, WrongOf
    <2> QED BY <2>1, <2>2, FS_Subset
  <1>4. /\ summary.unambiguous_mismatches = 0 <=> Wrong(One) = {}
        /\ summary.ambiguous_mismatches = 0 <=> Wrong(Several) = {}
    BY <1>1, <1>3, FS_EmptySet, Zenon DEF MismatchesInv
  <1>5. Verdict(summary) = "pass" <=> Wrong(One) = {} /\ Wrong(Several) = {}
    BY <1>1, <1>4 DEF Verdict
  <1>6. Wrong(One) = {} /\ Wrong(Several) = {}
           <=> \A i \in 1 .. Len(judged) : Matches(judged[i].image)
    <2>1. Wrong(One) = {} <=> \A i \in 1 .. Len(judged) :
             ~ (judged[i].group = 1 /\ ~ Matches(judged[i].image))
      BY VerdictsAreThoseOfTheDay, Zenon
    <2>2. Wrong(Several) = {} <=> \A i \in 1 .. Len(judged) :
             ~ (~ (judged[i].group = 1) /\ ~ Matches(judged[i].image))
      BY VerdictsAreThoseOfTheDay, Zenon
    <2> QED BY <2>1, <2>2, Zenon
  <1> QED BY <1>5, <1>6, Zenon

(* The verdict is the one a replay of the whole day from nothing would     *)
(* give for every image that was compared, wherever the budget fell and    *)
(* whatever the depth (export, validate, compare_side).                    *)
THEOREM VerdictAlwaysThatOfAFreshReplay == ExportSpec => []VerdictIsThatOfAFreshReplay
  BY VerdictInvariant, VerdictInvIsFresh, PTL

LEMMA VerdictInvTellsTheTruth == PairingInv /\ VerdictInv => SamplesTellTheTruth
  <1> SUFFICES ASSUME PairingInv, VerdictInv, phase = "done" PROVE SamplesTellTheTruth
    BY DEF SamplesTellTheTruth
  <1>1. MismatchesInv /\ CleanInv
    BY DEF VerdictInv
  <1>2. MismatchTimes(TRUE) = FirstTimes(judged, Wrong(One))
    BY VerdictsAreThoseOfTheDay, Zenon DEF MismatchTimes, FirstTimes
  <1>3. MismatchTimes(FALSE) = FirstTimes(judged, Wrong(Several))
    BY VerdictsAreThoseOfTheDay, Zenon DEF MismatchTimes, FirstTimes
  <1>4. summary.unambiguous_mismatches = 0 <=> Wrong(One) = {}
    <2>1. Len(judged) \in Nat
      BY DEF PairingInv
    <2>2. IsFiniteSet(1 .. Len(judged)) /\ Wrong(One) \in SUBSET (1 .. Len(judged))
      BY <2>1, FS_Interval DEF Wrong, WrongOf
    <2>3. IsFiniteSet(Wrong(One))
      BY <2>2, FS_Subset
    <2> QED BY <1>1, <2>3, FS_EmptySet, Zenon DEF MismatchesInv
  <1>5. (\A kind \in DiffKind : summary.differences[kind] = 0)
           <=> summary.unambiguous_mismatches = 0
    BY <1>1, <1>4, Zenon DEF MismatchesInv
  <1>6. PICK samples : samples = summary.sample_clean_timestamps
    OBVIOUS
  <1>7. /\ samples \in Seq(TimesJudged) /\ Len(samples) <= 3
        /\ Verdict(summary) = "pass" /\ judged # <<>> => samples # <<>>
        /\ Verdict(summary) # "pass" => samples = <<>>
    BY <1>1, <1>6, Zenon DEF CleanInv, TimesJudged
  <1>8. Range(samples) \subseteq TimesJudged
    <2>1. Range(samples) = {samples[i] : i \in DOMAIN samples}
      BY DEF Range
    <2>2. \A i \in DOMAIN samples : samples[i] \in TimesJudged
      BY <1>7
    <2> QED BY <2>1, <2>2, Zenon
  <1> QED BY <1>1, <1>2, <1>3, <1>5, <1>6, <1>7, <1>8, Zenon
          DEF SamplesTellTheTruth, MismatchesInv, TimesJudged

(* What a finished run shows is the truth about it: its first mismatches   *)
(* of either kind in order, differences exactly when a forced pairing      *)
(* differs, and at most three clean samples, only of a run that passed.    *)
THEOREM SamplesAlwaysTellTheTruth == ExportSpec => []SamplesTellTheTruth
  BY VerdictInvariant, VerdictInvTellsTheTruth, PTL
==============================================================================
