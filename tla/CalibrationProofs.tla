-------------------------- MODULE CalibrationProofs --------------------------

(***************************************************************************)
(* What a fit of the market's impact is made from.  The evidence: that     *)
(* rows admitted to a fit were sampled from the book that was stored,      *)
(* replayed and checked, for every corpus, whatever the ingestion stores   *)
(* and however the tools that share the files overlap, are killed and are  *)
(* run again.  The samples, for every day: that they follow their grid,    *)
(* that an order is the sum of its slices, that cutting it up changes      *)
(* nothing as long as nothing happens in the market, and that every fill   *)
(* is the best the market of its instant gives, and knows of none later.   *)
(***************************************************************************)
EXTENDS Evidence, Calibration, SharedProofs, FiniteSetTheorems, TLAPS

(***************************************************************************)
(* The evidence.                                                           *)
(***************************************************************************)

DayBook == <<"book", Day>>
DaySnapshots == <<"book_snapshot", Day>>

DiskInv ==
    /\ versions \in Nat \ {0}
    /\ DOMAIN disk = Partitions
    /\ \A p \in Partitions :
          /\ Version(p) \in 0 .. versions
          /\ Version(p) # 0 => disk[p].contents.present

\* The partition has been at this version, or is: it will not come back to it.
Seen(p, v) ==
    v \in Nat /\ (v # 0 => IF Version(p) = 0 THEN v < versions ELSE v <= Version(p))

IsStored(p, v) == v # 0 /\ Version(p) = v

BookReplays == Replays(disk[DayBook].contents, disk[DaySnapshots].contents)

\* What a report says holds as long as what it is of is stored.
ReplayIsOf(input, passed) ==
    /\ \A p \in TheBook : Seen(p, input[p])
    /\ passed /\ (\A p \in TheBook : IsStored(p, input[p])) => BookReplays

ReplayInv ==
    /\ replay.pc \in {"idle", "export", "report", "write"}
    /\ replay.pc = "export" => \A p \in TheBook : Seen(p, replay.before[p])
    /\ replay.pc = "report" => ReplayIsOf(replay.before, replay.passed)
    /\ replay.pc = "write" =>
          replay.report.kind = "replay" /\ ReplayIsOf(replay.report.input, replay.report.passed)
    /\ book_report.kind = "replay" => ReplayIsOf(book_report.input, book_report.passed)

NothingFailedOn(results, p) ==
    \A r \in results : r.dataset = p[1] /\ r.day \in {0, p[2]} => r.passed \/ r.skipped

QualityIsOf(entries, results) ==
    /\ Seen(DayBook, entries[DayBook])
    /\ IsStored(DayBook, entries[DayBook]) /\ NothingFailedOn(results, DayBook) => disk[DayBook].contents.sane

\* The inventory visits 1, 2, ... up to the length of its order.
Visited(i) == \A j \in 1 .. i - 1 : j < Len(Order(inventory.trades_only))

IsRead(p) ==
    p \in Partitions /\ IsStored(p, inventory.entries[p])
        => inventory.read[p] = disk[p].contents

\* A scan that is under way; its options are as they were.
Scan ==
    [pc : {"hash", "read", "check"}, reconcile : {inventory.reconcile},
     trades_only : {inventory.trades_only}, volume : {inventory.volume}, next : Nat \ {0},
     entries : [Partitions -> Nat], read : {f \in {inventory.read} : DOMAIN f = Partitions}]

InventoryInv ==
    /\ inventory.pc \in {"idle", "hash", "read", "check", "write"}
    /\ inventory.pc \in {"hash", "read", "check"} =>
          inventory \in Scan /\ \A p \in Partitions : Seen(p, inventory.entries[p])
    /\ inventory.pc \in {"hash", "read"} =>
          /\ Visited(inventory.next)
          /\ \A p \in Partitions : inventory.entries[p] # 0 =>
                \E i \in Nat \ {0} : /\ p = Order(inventory.trades_only)[i] /\ Visited(i)
                                     /\ inventory.pc = "hash" => i < inventory.next
    /\ inventory.pc = "read" =>
          \A i \in 1 .. inventory.next - 1 : IsRead(Order(inventory.trades_only)[i])
    /\ inventory.pc = "check" => \A p \in Partitions : IsRead(p)
    /\ inventory.pc = "write" /\ ~inventory.trades_only =>
          /\ inventory.report.kind = "quality"
          /\ QualityIsOf(inventory.report.entries, inventory.report.results)
    /\ corpus_report.kind = "quality" => QualityIsOf(corpus_report.entries, corpus_report.results)

SampledAfter(inputs, sampled) ==
    /\ sampled.kind = "rows" /\ Seen(DayBook, sampled.book)
    /\ inputs.entries[DayBook] \in Nat /\ inputs.entries[DayBook] <= sampled.book

\* Rows are only replaced by rows that were sampled later.
Precedes(sampled, later) == later.kind = "rows" /\ later.book \in Nat /\ sampled.book <= later.book

GeneratorInv ==
    /\ generator.pc \in {"idle", "verify", "sample", "replace", "hash", "write"}
    /\ calibration.kind = "rows" => Seen(DayBook, calibration.book)
    /\ generator.pc = "sample" => Seen(DayBook, generator.inputs.entries[DayBook])
    /\ generator.pc = "replace" =>
          /\ SampledAfter(generator.inputs, generator.rows)
          /\ calibration.kind = "rows" => Precedes(calibration, generator.rows)
    /\ generator.pc = "hash" => SampledAfter(generator.inputs, calibration)
    /\ generator.pc = "write" =>
          /\ generator.manifest.kind = "manifest" /\ generator.manifest.output = calibration
          /\ SampledAfter(generator.manifest.inputs, calibration)
    /\ manifest.kind = "manifest" =>
          SampledAfter(manifest.inputs, manifest.output) /\ Precedes(manifest.output, calibration)

LoaderInv ==
    /\ loader.pc \in {"idle", "verify", "read", "confirm", "admitted"}
    /\ loader.pc \in {"verify", "read", "confirm"} =>
          /\ SampledAfter(loader.manifest.inputs, loader.manifest.output)
          /\ Precedes(loader.manifest.output, calibration)
    /\ loader.pc \in {"read", "confirm", "admitted"} =>
          /\ loader.pc # "admitted" => loader.stored[DayBook].version = loader.manifest.output.book
          /\ Replays(loader.stored[DayBook].contents, loader.stored[DaySnapshots].contents)
          /\ loader.stored[DayBook].contents.sane
    /\ loader.pc = "confirm" =>
          /\ loader = [pc |-> "confirm", manifest |-> loader.manifest, stored |-> loader.stored,
                       rows |-> loader.rows]
          /\ Precedes(loader.manifest.output, loader.rows) /\ Precedes(loader.rows, calibration)
    /\ loader.pc = "admitted" => loader.rows.book = loader.stored[DayBook].version

EvidenceInv == DiskInv /\ ReplayInv /\ InventoryInv /\ GeneratorInv /\ LoaderInv
------------------------------------------------------------------------------

(* Versions. *)

LEMMA Configured ==
    /\ DayBook \in Partitions /\ DaySnapshots \in Partitions /\ TheBook = {DayBook, DaySnapshots}
    /\ DayBook \in Required
    /\ DOMAIN Contents \subseteq Partitions
  <1>1. Day \in Days
    BY EvidenceAssumption, CorpusAssumption
  <1> QED BY <1>1, EvidenceAssumption DEF DayBook, DaySnapshots, Partitions, Datasets, TheBook, Required

\* The ingestion never brings a version back.
LEMMA VersionsAreNotReused ==
    ASSUME DiskInv, Clear \/ Store
    PROVE  /\ DiskInv'
           /\ \A p \in Partitions : \A v : Seen(p, v) =>
                 Seen(p, v)' /\ (IsStored(p, v)' => IsStored(p, v) /\ disk'[p] = disk[p])
  <1>1. CASE Clear
    <2>1. PICK q \in DOMAIN Contents :
             disk' = [disk EXCEPT ![q] = [version |-> 0, contents |-> Absent]]
      BY <1>1 DEF Clear
    <2>2. versions' = versions + 1
      BY <1>1 DEF Clear
    <2>3. /\ DOMAIN disk' = Partitions
          /\ \A p \in Partitions : IF p = q THEN Version(p)' = 0 ELSE disk'[p] = disk[p]
      BY <2>1 DEF DiskInv, Version
    <2> QED BY <2>2, <2>3 DEF DiskInv, Seen, IsStored, Version
  <1>2. CASE Store
    <2>1. PICK q \in DOMAIN Contents, contents \in UNION {Contents[p] : p \in DOMAIN Contents} :
             /\ Version(q) = 0 /\ contents.present
             /\ disk' = [disk EXCEPT ![q] = [version |-> versions, contents |-> contents]]
      BY <1>2, EvidenceAssumption DEF Store
    <2>2. versions' = versions
      BY <1>2 DEF Store
    <2>3. /\ DOMAIN disk' = Partitions
          /\ \A p \in Partitions :
                IF p = q THEN Version(p)' = versions /\ disk'[p].contents.present
                         ELSE disk'[p] = disk[p]
      BY <2>1 DEF DiskInv, Version
    <2> QED BY <2>1, <2>2, <2>3, Configured DEF DiskInv, Seen, IsStored, Version
  <1> QED BY <1>1, <1>2

LEMMA IngestionInv == EvidenceInv /\ (Clear \/ Store) => EvidenceInv'
  <1> SUFFICES ASSUME EvidenceInv, Clear \/ Store PROVE EvidenceInv'
    OBVIOUS
  <1>1. UNCHANGED <<book_report, corpus_report, calibration, manifest, replay, inventory, generator,
                    loader>>
    BY DEF Clear, Store, files
  <1>2. DiskInv'
    BY VersionsAreNotReused DEF EvidenceInv
  <1>3. \A p \in Partitions : \A v : Seen(p, v) =>
           Seen(p, v)' /\ (IsStored(p, v)' => IsStored(p, v) /\ disk'[p] = disk[p])
    BY VersionsAreNotReused DEF EvidenceInv
  <1>4. ASSUME NEW input, NEW passed, ReplayIsOf(input, passed)
        PROVE  ReplayIsOf(input, passed)'
    <2>1. \A p \in TheBook : Seen(p, input[p])'
      BY <1>3, <1>4, Configured DEF ReplayIsOf
    <2>2. ASSUME passed, \A p \in TheBook : IsStored(p, input[p])' PROVE BookReplays'
      <3>1. \A p \in TheBook : IsStored(p, input[p]) /\ disk'[p] = disk[p]
        BY <1>3, <1>4, <2>2, Configured DEF ReplayIsOf
      <3>2. BookReplays /\ disk'[DayBook] = disk[DayBook] /\ disk'[DaySnapshots] = disk[DaySnapshots]
        BY <1>4, <2>2, <3>1, Configured DEF ReplayIsOf
      <3> QED BY <3>2 DEF BookReplays, Replays
    <2> QED BY <2>1, <2>2 DEF ReplayIsOf
  <1>5. ASSUME NEW entries, NEW results, QualityIsOf(entries, results)
        PROVE  QualityIsOf(entries, results)'
    BY <1>3, <1>5, Configured DEF QualityIsOf, NothingFailedOn
  <1>6. ReplayInv'
    BY <1>1, <1>3, <1>4, Configured DEF EvidenceInv, ReplayInv
  <1>7. InventoryInv'
    <2>1. \A i : Visited(i)' <=> Visited(i)
      BY <1>1 DEF Visited
    <2>2. ASSUME NEW p, inventory.pc \in {"read", "check"}, IsRead(p) PROVE IsRead(p)'
      <3>1. p \in Partitions => Seen(p, inventory.entries[p])
        BY <2>2 DEF EvidenceInv, InventoryInv
      <3> QED BY <1>1, <1>3, <2>2, <3>1 DEF IsRead
    <2>3. inventory.pc \in {"hash", "read", "check"} =>
             inventory' \in Scan' /\ \A p \in Partitions : Seen(p, inventory.entries[p])'
      BY <1>1, <1>3 DEF EvidenceInv, InventoryInv, Scan
    <2> QED BY <1>1, <1>5, <2>1, <2>2, <2>3 DEF EvidenceInv, InventoryInv
  <1>8. \A inputs, sampled : SampledAfter(inputs, sampled) => SampledAfter(inputs, sampled)'
    BY <1>3, Configured DEF SampledAfter
  <1>9. GeneratorInv'
    BY <1>1, <1>3, <1>8, Configured DEF EvidenceInv, GeneratorInv, Precedes
  <1>10. LoaderInv'
    BY <1>1, <1>8 DEF EvidenceInv, LoaderInv, Precedes
  <1> QED BY <1>2, <1>6, <1>7, <1>9, <1>10 DEF EvidenceInv

\* A step of a tool leaves what concerns the other tools.
LEMMA OthersInv ==
    ASSUME EvidenceInv, disk' = disk, versions' = versions
    PROVE  /\ DiskInv'
           /\ \A p, v : Seen(p, v)' <=> Seen(p, v)
           /\ \A p, v : IsStored(p, v)' <=> IsStored(p, v)
           /\ \A input, passed : ReplayIsOf(input, passed)' <=> ReplayIsOf(input, passed)
           /\ \A entries, results :
                 QualityIsOf(entries, results)' <=> QualityIsOf(entries, results)
           /\ \A inputs, sampled : SampledAfter(inputs, sampled)' <=> SampledAfter(inputs, sampled)
           /\ UNCHANGED <<replay, book_report>> => ReplayInv'
           /\ UNCHANGED <<inventory, corpus_report>> => InventoryInv'
           /\ UNCHANGED <<generator, calibration, manifest>> => GeneratorInv'
           /\ UNCHANGED <<loader, calibration>> => LoaderInv'
  <1>1. DiskInv'
    BY DEF EvidenceInv, DiskInv, Version
  <1>2. /\ \A p, v : Seen(p, v)' <=> Seen(p, v)
        /\ \A p, v : IsStored(p, v)' <=> IsStored(p, v)
    BY DEF Seen, IsStored, Version
  <1>3. /\ \A input, passed : ReplayIsOf(input, passed)' <=> ReplayIsOf(input, passed)
        /\ \A entries, results : QualityIsOf(entries, results)' <=> QualityIsOf(entries, results)
        /\ \A inputs, sampled : SampledAfter(inputs, sampled)' <=> SampledAfter(inputs, sampled)
    BY <1>2 DEF ReplayIsOf, BookReplays, Replays, QualityIsOf, NothingFailedOn, SampledAfter
  <1>4. ASSUME UNCHANGED <<replay, book_report>> PROVE ReplayInv'
    BY <1>2, <1>3, <1>4 DEF EvidenceInv, ReplayInv
  <1>5. ASSUME UNCHANGED <<inventory, corpus_report>> PROVE InventoryInv'
    <2>1. (\A i : Visited(i)' <=> Visited(i)) /\ Scan' = Scan
      BY <1>5 DEF Visited, Scan
    <2>2. \A p : IsRead(p)' <=> IsRead(p)
      BY <1>2, <1>5 DEF IsRead
    <2> QED BY <1>2, <1>3, <1>5, <2>1, <2>2 DEF EvidenceInv, InventoryInv
  <1>6. ASSUME UNCHANGED <<generator, calibration, manifest>> PROVE GeneratorInv'
    BY <1>2, <1>3, <1>6 DEF EvidenceInv, GeneratorInv, Precedes
  <1>7. ASSUME UNCHANGED <<loader, calibration>> PROVE LoaderInv'
    BY <1>3, <1>7 DEF EvidenceInv, LoaderInv, Precedes
  <1> QED BY <1>1, <1>2, <1>3, <1>4, <1>5, <1>6, <1>7
------------------------------------------------------------------------------

(* The replay validation. *)

ReplayNext == ReplayStarts \/ ReplayExports \/ ReplayReports \/ ReplayWrites

LEMMA SeenNow ==
    ASSUME DiskInv, NEW p \in Partitions
    PROVE  Seen(p, Version(p))
  BY DEF DiskInv, Seen

LEMMA ReplayNextInv == EvidenceInv /\ ReplayNext => EvidenceInv'
  <1> SUFFICES ASSUME EvidenceInv, ReplayNext PROVE EvidenceInv'
    OBVIOUS
  <1>1. UNCHANGED <<disk, versions, corpus_report, calibration, manifest, inventory, generator,
                    loader>>
    BY DEF ReplayNext, ReplayStarts, ReplayExports, ReplayReports, ReplayWrites, files
  <1>2. \A p \in TheBook : Seen(p, Version(p))
    BY SeenNow, Configured DEF EvidenceInv
  <1>3. \A p, v : Seen(p, v)' <=> Seen(p, v)
    BY <1>1, OthersInv
  <1>4. \A input, passed : ReplayIsOf(input, passed)' <=> ReplayIsOf(input, passed)
    BY <1>1, OthersInv
  <1>5. ReplayInv'
    <2>1. CASE ReplayStarts
      <3>1. /\ replay' = [pc |-> "export", before |-> [p \in TheBook |-> Version(p)]]
            /\ book_report' = book_report
        BY <2>1 DEF ReplayStarts, files
      <3> QED BY <1>2, <1>3, <1>4, <3>1 DEF EvidenceInv, ReplayInv
    <2>2. CASE ReplayExports
      <3> DEFINE passed == Replays(disk[DayBook].contents, disk[DaySnapshots].contents)
      <3>1. /\ replay.pc = "export" /\ book_report' = book_report
            /\ \/ replay' = Idle
               \/ replay' = [pc |-> "report", before |-> replay.before, passed |-> passed]
        BY <2>2 DEF ReplayExports, files, DayBook, DaySnapshots
      <3>2. ReplayIsOf(replay.before, passed)
        BY <3>1 DEF EvidenceInv, ReplayInv, ReplayIsOf, BookReplays
      <3> HIDE DEF passed
      <3> QED BY <1>4, <3>1, <3>2 DEF EvidenceInv, ReplayInv, Idle
    <2>3. CASE ReplayReports
      <3> DEFINE after == [p \in TheBook |-> Version(p)]
                 holds == ReplayHolds(after)
      <3>1. /\ replay.pc = "report" /\ book_report' = Torn
            /\ replay' = [pc |-> "write", report |-> [kind |-> "replay", input |-> after,
                                                      passed |-> holds]]
        BY <2>3 DEF ReplayReports
      <3>2. ReplayIsOf(after, holds)
        <4>1. \A p \in TheBook : Seen(p, after[p])
          BY <1>2
        <4>2. ASSUME holds, \A p \in TheBook : IsStored(p, after[p]) PROVE BookReplays
          BY <3>1, <4>2 DEF ReplayHolds, EvidenceInv, ReplayInv, ReplayIsOf
        <4> QED BY <4>1, <4>2 DEF ReplayIsOf
      <3> HIDE DEF after, holds
      <3> QED BY <1>4, <3>1, <3>2 DEF ReplayInv, Torn
    <2>4. CASE ReplayWrites
      <3>1. replay.pc = "write" /\ book_report' = replay.report /\ replay' = Idle
        BY <2>4 DEF ReplayWrites
      <3> QED BY <1>4, <3>1 DEF EvidenceInv, ReplayInv, Idle
    <2> QED BY <2>1, <2>2, <2>3, <2>4 DEF ReplayNext
  <1> QED BY <1>1, <1>5, OthersInv DEF EvidenceInv
------------------------------------------------------------------------------

(* The generation of a calibration, and its admission. *)

GeneratorNext ==
    \/ GeneratorStarts \/ GeneratorVerifies \/ GeneratorSamples
    \/ GeneratorReplaces \/ GeneratorHashes \/ GeneratorWrites

\* What is verified is the book that is stored.
LEMMA VerifiedIsStored ==
    ASSUME EvidenceInv, InputsVerified
    PROVE  /\ BookReplays /\ disk[DayBook].contents.sane
           /\ VerifiedInputs.entries[DayBook] = Version(DayBook) /\ Version(DayBook) # 0
  <1>1. /\ book_report.kind = "replay" /\ book_report.passed
        /\ \A p \in TheBook : IsStored(p, book_report.input[p])
    BY DEF InputsVerified, ReplayVerified, IsStored
  <1>2. BookReplays
    BY <1>1 DEF EvidenceInv, ReplayInv, ReplayIsOf
  <1>3. corpus_report.kind = "quality" /\ Verified(DayBook)
    BY Configured DEF InputsVerified
  <1>4. IsStored(DayBook, corpus_report.entries[DayBook])
    BY <1>3 DEF Verified, IsStored
  <1>5. NothingFailedOn(corpus_report.results, DayBook)
    BY <1>3 DEF Verified, ResultsOn, NothingFailedOn
  <1>6. disk[DayBook].contents.sane
    BY <1>3, <1>4, <1>5 DEF EvidenceInv, InventoryInv, QualityIsOf
  <1>7. VerifiedInputs.entries[DayBook] = corpus_report.entries[DayBook]
    BY Configured DEF VerifiedInputs
  <1> QED BY <1>2, <1>4, <1>6, <1>7 DEF IsStored

LEMMA GeneratorNextInv == EvidenceInv /\ GeneratorNext => EvidenceInv'
  <1> SUFFICES ASSUME EvidenceInv, GeneratorNext PROVE EvidenceInv'
    OBVIOUS
  <1>1. UNCHANGED <<disk, versions, book_report, corpus_report, replay, inventory, loader>>
    BY DEF GeneratorNext, GeneratorStarts, GeneratorVerifies, GeneratorSamples, GeneratorReplaces,
           GeneratorHashes, GeneratorWrites, files
  <1>2. DiskInv' /\ ReplayInv' /\ InventoryInv'
    BY <1>1, OthersInv
  <1>3. \A p, v : Seen(p, v)' <=> Seen(p, v)
    BY <1>1, OthersInv
  <1>4. \A inputs, sampled : SampledAfter(inputs, sampled)' <=> SampledAfter(inputs, sampled)
    BY <1>1, OthersInv
  <1>5. \A v : Seen(DayBook, v) /\ Version(DayBook) # 0 => v \in Nat /\ v <= Version(DayBook)
    BY Configured DEF EvidenceInv, DiskInv, Seen
  <1>6. Seen(DayBook, Version(DayBook))
    BY SeenNow, Configured DEF EvidenceInv
  <1>7. CASE GeneratorStarts
    <2>1. UNCHANGED <<calibration, manifest>> /\ generator'.pc = "verify"
      BY <1>7 DEF GeneratorStarts, files
    <2> QED BY <1>1, <1>2, <1>3, <1>4, <2>1, OthersInv DEF EvidenceInv, GeneratorInv, Precedes
  <1>8. CASE GeneratorVerifies
    <2>1. /\ UNCHANGED <<calibration, manifest>>
          /\ \/ generator'.pc = "sample" /\ generator'.inputs = VerifiedInputs /\ InputsVerified
             \/ generator'.pc = "idle"
      BY <1>8 DEF GeneratorVerifies, files, Idle
    <2>2. generator'.pc = "sample" => Seen(DayBook, generator'.inputs.entries[DayBook])
      BY <1>6, <2>1, VerifiedIsStored
    <2>3. GeneratorInv'
      BY <1>3, <1>4, <2>1, <2>2 DEF EvidenceInv, GeneratorInv, Precedes
    <2> QED BY <1>1, <1>2, <2>1, <2>3, OthersInv DEF EvidenceInv
  <1>9. CASE GeneratorSamples
    <2>1. /\ UNCHANGED <<calibration, manifest>> /\ generator.pc = "sample"
          /\ \/ generator'.pc = "idle"
             \/ /\ generator'.pc = "replace" /\ generator'.inputs = generator.inputs
                /\ generator'.rows.kind = "rows" /\ generator'.rows.book = Version(DayBook)
                /\ Version(DayBook) # 0
      BY <1>9 DEF GeneratorSamples, files, Idle, DayBook
    <2>2. Seen(DayBook, generator.inputs.entries[DayBook])
          /\ (calibration.kind = "rows" => Seen(DayBook, calibration.book))
      BY <2>1 DEF EvidenceInv, GeneratorInv
    <2>3. generator'.pc = "replace" =>
             /\ SampledAfter(generator'.inputs, generator'.rows)
             /\ calibration.kind = "rows" => Precedes(calibration, generator'.rows)
      BY <1>5, <1>6, <2>1, <2>2 DEF SampledAfter, Precedes, Seen
    <2>4. GeneratorInv'
      BY <1>3, <1>4, <2>1, <2>3 DEF EvidenceInv, GeneratorInv, Precedes
    <2> QED BY <1>1, <1>2, <2>1, <2>4, OthersInv DEF EvidenceInv
  <1>10. CASE GeneratorReplaces
    <2>1. /\ UNCHANGED manifest /\ generator.pc = "replace" /\ calibration' = generator.rows
          /\ generator'.pc = "hash" /\ generator'.inputs = generator.inputs
      BY <1>10 DEF GeneratorReplaces
    <2>2. /\ SampledAfter(generator.inputs, calibration')
          /\ calibration.kind = "rows" => Precedes(calibration, calibration')
      BY <2>1 DEF EvidenceInv, GeneratorInv
    <2>3. ASSUME NEW sampled, sampled.book \in Nat, Precedes(sampled, calibration)
          PROVE  Precedes(sampled, calibration')
      BY <2>2, <2>3 DEF Precedes, SampledAfter, Seen
    <2>4. manifest.kind = "manifest" => Precedes(manifest.output, calibration')
      <3>1. manifest.kind = "manifest" =>
               manifest.output.book \in Nat /\ Precedes(manifest.output, calibration)
        BY DEF EvidenceInv, GeneratorInv, SampledAfter, Seen
      <3> QED BY <2>3, <3>1
    <2>5. GeneratorInv'
      BY <1>3, <1>4, <2>1, <2>2, <2>4 DEF EvidenceInv, GeneratorInv, SampledAfter, Precedes
    <2>6. loader.pc \in {"verify", "read", "confirm"} =>
             Precedes(loader.manifest.output, calibration')
      <3>1. loader.pc \in {"verify", "read", "confirm"} =>
               /\ loader.manifest.output.book \in Nat
               /\ Precedes(loader.manifest.output, calibration)
        BY DEF EvidenceInv, LoaderInv, SampledAfter, Seen
      <3> QED BY <2>3, <3>1
    <2>7. loader.pc = "confirm" => Precedes(loader.rows, calibration')
      <3>1. loader.pc = "confirm" =>
               loader.rows.book \in Nat /\ Precedes(loader.rows, calibration)
        BY DEF EvidenceInv, LoaderInv, Precedes
      <3> QED BY <2>3, <3>1
    <2>8. LoaderInv'
      BY <1>1, <1>4, <2>6, <2>7 DEF EvidenceInv, LoaderInv, Precedes
    <2> QED BY <1>2, <2>5, <2>8 DEF EvidenceInv
  <1>11. CASE GeneratorHashes
    <2>1. /\ UNCHANGED calibration /\ generator.pc = "hash" /\ manifest' = Torn
          /\ generator'.pc = "write" /\ generator'.manifest.kind = "manifest"
          /\ generator'.manifest.inputs = generator.inputs
          /\ generator'.manifest.output = calibration
      BY <1>11 DEF GeneratorHashes
    <2>2. GeneratorInv'
      BY <1>3, <1>4, <2>1 DEF EvidenceInv, GeneratorInv, Torn
    <2> QED BY <1>1, <1>2, <2>1, <2>2, OthersInv DEF EvidenceInv
  <1>12. CASE GeneratorWrites
    <2>1. /\ UNCHANGED calibration /\ generator.pc = "write" /\ generator'.pc = "idle"
          /\ manifest' = generator.manifest
      BY <1>12 DEF GeneratorWrites, Idle
    <2>2. SampledAfter(manifest'.inputs, manifest'.output) /\ Precedes(manifest'.output, calibration)
      BY <2>1 DEF EvidenceInv, GeneratorInv, SampledAfter, Precedes, Seen
    <2>3. GeneratorInv'
      BY <1>3, <1>4, <2>1, <2>2 DEF EvidenceInv, GeneratorInv, Precedes
    <2> QED BY <1>1, <1>2, <2>1, <2>3, OthersInv DEF EvidenceInv
  <1> QED BY <1>7, <1>8, <1>9, <1>10, <1>11, <1>12 DEF GeneratorNext

LoaderNext == LoaderStarts \/ LoaderVerifies \/ LoaderReads \/ LoaderConfirms \/ LoaderDone

LEMMA LoaderNextInv == EvidenceInv /\ LoaderNext => EvidenceInv'
  <1> SUFFICES ASSUME EvidenceInv, LoaderNext PROVE EvidenceInv'
    OBVIOUS
  <1>1. UNCHANGED <<disk, versions, book_report, corpus_report, calibration, manifest, replay,
                    inventory, generator>>
    BY DEF LoaderNext, LoaderStarts, LoaderVerifies, LoaderReads, LoaderConfirms, LoaderDone, files
  <1>2. DiskInv' /\ ReplayInv' /\ InventoryInv' /\ GeneratorInv'
    BY <1>1, OthersInv
  <1>3. \A inputs, sampled : SampledAfter(inputs, sampled)' <=> SampledAfter(inputs, sampled)
    BY <1>1, OthersInv
  <1>4. LoaderInv'
    <2>1. CASE LoaderStarts
      <3>1. /\ loader'.pc = "verify" /\ loader'.manifest = manifest
            /\ manifest.kind = "manifest"
        BY <2>1 DEF LoaderStarts
      <3>2. SampledAfter(manifest.inputs, manifest.output) /\ Precedes(manifest.output, calibration)
        BY <3>1 DEF EvidenceInv, GeneratorInv
      <3> QED BY <1>1, <1>3, <3>1, <3>2 DEF LoaderInv, Precedes
    <2>2. CASE LoaderVerifies
      <3> DEFINE stored == disk
                 output == loader.manifest.output
      <3>1. /\ loader.pc = "verify"
            /\ \/ loader' = Idle
               \/ /\ InputsVerified /\ VerifiedInputs = loader.manifest.inputs
                  /\ loader'.pc = "read" /\ loader'.manifest = loader.manifest
                  /\ loader'.stored = stored
        BY <2>2 DEF LoaderVerifies, SameVerifiedInputs
      <3>2. SampledAfter(loader.manifest.inputs, output) /\ Precedes(output, calibration)
        BY <3>1 DEF EvidenceInv, LoaderInv
      <3>3. CASE loader' = Idle
        BY <3>3 DEF LoaderInv, Idle
      <3>4. CASE loader' # Idle
        <4>1. /\ BookReplays /\ disk[DayBook].contents.sane
              /\ loader.manifest.inputs.entries[DayBook] = Version(DayBook) /\ Version(DayBook) # 0
          BY <3>1, <3>4, VerifiedIsStored
        <4>2. output.book \in Nat /\ Version(DayBook) \in Nat
          BY <3>2, Configured DEF EvidenceInv, DiskInv, SampledAfter, Seen
        <4>3. Version(DayBook) <= output.book /\ output.book <= Version(DayBook)
          BY <3>2, <4>1, <4>2 DEF SampledAfter, Seen
        <4>4. stored[DayBook].version = output.book
          BY <4>2, <4>3 DEF Version
        <4>5. Replays(stored[DayBook].contents, stored[DaySnapshots].contents)
          BY <4>1 DEF BookReplays
        <4> HIDE DEF stored, output
        <4>6. loader'.pc = "read" /\ loader'.manifest.output = output /\ loader'.stored = stored
          BY <3>1, <3>4 DEF output
        <4>7. stored[DayBook].contents.sane
          BY <4>1 DEF stored
        <4> QED BY <1>1, <1>3, <3>1, <3>2, <3>4, <4>4, <4>5, <4>6, <4>7
                   DEF LoaderInv, Precedes, Replays
      <3> QED BY <3>3, <3>4
    <2>3. CASE LoaderReads
      <3>1. /\ loader.pc = "read"
            /\ loader' = [pc |-> "confirm", manifest |-> loader.manifest, stored |-> loader.stored,
                          rows |-> calibration]
        BY <2>3 DEF LoaderReads
      <3>2. /\ loader'.pc = "confirm" /\ loader'.manifest = loader.manifest
            /\ loader'.stored = loader.stored /\ loader'.rows = calibration
        BY <3>1
      <3>3. Precedes(loader.manifest.output, calibration) /\ Precedes(calibration, calibration)
        BY <3>1 DEF EvidenceInv, LoaderInv, Precedes
      <3> QED BY <1>1, <1>3, <3>1, <3>2, <3>3 DEF EvidenceInv, LoaderInv, Precedes
    <2>4. CASE LoaderConfirms
      <3>1. /\ loader.pc = "confirm"
            /\ \/ loader' = Idle
               \/ /\ calibration = loader.manifest.output
                  /\ loader' = [loader EXCEPT !.pc = "admitted"]
        BY <2>4 DEF LoaderConfirms
      <3>2. loader = [pc |-> "confirm", manifest |-> loader.manifest, stored |-> loader.stored,
                      rows |-> loader.rows]
        BY <3>1 DEF EvidenceInv, LoaderInv
      <3>3. CASE loader' = Idle
        BY <3>3 DEF LoaderInv, Idle
      <3>4. CASE loader' # Idle
        <4>1. /\ loader'.pc = "admitted" /\ loader'.stored = loader.stored
              /\ loader'.rows = loader.rows
          BY <3>1, <3>2, <3>4
        <4>2. /\ Precedes(loader.manifest.output, loader.rows) /\ Precedes(loader.rows, calibration)
              /\ calibration = loader.manifest.output
          BY <3>1, <3>4 DEF EvidenceInv, LoaderInv
        <4>3. loader.rows.book = loader.manifest.output.book
          BY <4>2 DEF Precedes
        <4> QED BY <3>1, <4>1, <4>3 DEF EvidenceInv, LoaderInv, Replays
      <3> QED BY <3>3, <3>4
    <2>5. CASE LoaderDone
      BY <2>5 DEF LoaderDone, LoaderInv, Idle
    <2> QED BY <2>1, <2>2, <2>3, <2>4, <2>5 DEF LoaderNext
  <1> QED BY <1>2, <1>4 DEF EvidenceInv

LEMMA KilledInv == EvidenceInv /\ Killed => EvidenceInv'
  <1> SUFFICES ASSUME EvidenceInv, Killed PROVE EvidenceInv'
    OBVIOUS
  <1>1. UNCHANGED <<disk, versions, book_report, corpus_report, calibration, manifest>>
    BY DEF Killed, files
  <1>2. /\ replay' = replay \/ replay' = Idle
        /\ inventory' = inventory \/ inventory' = Idle
        /\ generator' = generator \/ generator' = Idle
        /\ loader' = loader
    BY DEF Killed
  <1>3. /\ \A input, passed : ReplayIsOf(input, passed)' <=> ReplayIsOf(input, passed)
        /\ \A entries, results : QualityIsOf(entries, results)' <=> QualityIsOf(entries, results)
        /\ \A inputs, sampled : SampledAfter(inputs, sampled)' <=> SampledAfter(inputs, sampled)
        /\ \A p, v : Seen(p, v)' <=> Seen(p, v)
    BY <1>1, OthersInv
  <1>4. ReplayInv'
    <2>1. CASE replay' = Idle
      BY <1>1, <1>3, <2>1 DEF EvidenceInv, ReplayInv, Idle
    <2> QED BY <1>1, <1>2, <2>1, OthersInv
  <1>5. InventoryInv'
    <2>1. CASE inventory' = Idle
      BY <1>1, <1>3, <2>1 DEF EvidenceInv, InventoryInv, Idle
    <2> QED BY <1>1, <1>2, <2>1, OthersInv
  <1>6. GeneratorInv'
    <2>1. CASE generator' = Idle
      BY <1>1, <1>3, <2>1 DEF EvidenceInv, GeneratorInv, Idle, Precedes
    <2> QED BY <1>1, <1>2, <2>1, OthersInv
  <1> QED BY <1>1, <1>2, <1>4, <1>5, <1>6, OthersInv DEF EvidenceInv
------------------------------------------------------------------------------

(* The inventory. *)

InventoryNext ==
    InventoryStarts \/ InventoryHashes \/ InventoryReads \/ InventoryChecks \/ InventoryWrites

\* A book that was read has a result that says whether its rows are sane.
LEMMA SanityIsChecked ==
    ASSUME inventory.read[DayBook].present, ~inventory.trades_only
    PROVE  \E r \in Results :
              /\ r.dataset = "book" /\ r.day = Day /\ ~IsVolume(r)
              /\ r.passed = inventory.read[DayBook].sane /\ r.skipped = FALSE
  <1> DEFINE corpus == inventory.read
             result == Result("finite_positive", "book", Day, corpus[DayBook].sane)
  <1>1. Day \in Dates(corpus, "book")
    BY EvidenceAssumption, CorpusAssumption DEF Dates, DayBook
  <1>2. result \in CheckFinitePositive(corpus)
    <2>1. "book" \in Datasets
      BY DEF Datasets
    <2> QED BY <1>1, <2>1 DEF CheckFinitePositive, Each, DayBook
  <1>3. result \in Results
    BY <1>2 DEF Results, Validate
  <1>4. /\ result.dataset = "book" /\ result.day = Day /\ result.check = "finite_positive"
        /\ result.passed = corpus[DayBook].sane /\ result.skipped = FALSE
    BY DEF Result
  <1> HIDE DEF result
  <1> QED BY <1>3, <1>4 DEF IsVolume

LEMMA AdvanceInv ==
    ASSUME EvidenceInv, inventory.pc \in {"hash", "read"}, NEW phase, NEW then
    PROVE  LET step == Advance(phase, then)
           IN  /\ step.next \in Nat \ {0} /\ Visited(step.next)
               /\ \/ step.pc = phase /\ step.next = inventory.next + 1
                  \/ /\ step.pc = then /\ step.next = 1
                     /\ \A i \in Nat \ {0} : Visited(i) => i <= inventory.next
  <1> DEFINE n == inventory.next
             len == Len(Order(inventory.trades_only))
  <1>1. n \in Nat \ {0} /\ \A j \in 1 .. n - 1 : j < len
    BY DEF EvidenceInv, InventoryInv, Scan, Visited
  <1>2. \A i : Visited(i) <=> \A j \in 1 .. i - 1 : j < len
    BY DEF Visited
  <1>3. Advance(phase, then) = IF n < len THEN [next |-> n + 1, pc |-> phase]
                                       ELSE [next |-> 1, pc |-> then]
    BY DEF Advance
  <1> HIDE DEF n, len
  <1>4. CASE n < len
    <2>1. \A j \in 1 .. (n + 1) - 1 : j = n \/ j \in 1 .. n - 1
      BY <1>1
    <2>2. Visited(n + 1)
      BY <1>1, <1>2, <1>4, <2>1
    <2> QED BY <1>1, <1>3, <1>4, <2>2 DEF n
  <1>5. CASE ~(n < len)
    <2>1. Visited(1)
      BY <1>2
    <2>2. ASSUME NEW i \in Nat \ {0}, Visited(i), ~(i <= n) PROVE FALSE
      <3>1. n \in 1 .. i - 1
        BY <1>1, <2>2
      <3> QED BY <1>2, <1>5, <2>2, <3>1
    <2> QED BY <1>3, <1>5, <2>1, <2>2 DEF n
  <1> QED BY <1>4, <1>5

LEMMA InventoryHashesInv ==
    ASSUME EvidenceInv, InventoryHashes
    PROVE  InventoryInv'
  <1> DEFINE turns == Order(inventory.trades_only)
             p == turns[inventory.next]
             step == Advance("hash", "read")
             n == step.next
             phase == step.pc
             entries == [inventory.entries EXCEPT ![p] = Version(p)]
  <1>1. /\ inventory.pc = "hash"
        /\ inventory' = [inventory EXCEPT !.entries[p] = Version(p), !.next = n, !.pc = phase]
        /\ UNCHANGED <<disk, versions, corpus_report>>
    BY DEF InventoryHashes, files
  <1>2. /\ inventory \in Scan /\ inventory.next \in Nat \ {0}
        /\ \A q \in Partitions : Seen(q, inventory.entries[q])
        /\ \A q \in Partitions : inventory.entries[q] # 0 =>
              \E i \in Nat \ {0} : q = turns[i] /\ Visited(i) /\ i < inventory.next
        /\ Visited(inventory.next)
    BY <1>1 DEF EvidenceInv, InventoryInv, Scan
  <1>3. /\ n \in Nat \ {0} /\ Visited(n)
        /\ \/ phase = "hash" /\ n = inventory.next + 1
           \/ phase = "read" /\ n = 1 /\ \A i \in Nat \ {0} : Visited(i) => i <= inventory.next
    BY <1>1, AdvanceInv
  <1> HIDE DEF step, n, phase
  <1>4. /\ DOMAIN entries = Partitions
        /\ \A q \in Partitions : entries[q] = IF q = p THEN Version(q) ELSE inventory.entries[q]
    BY <1>2 DEF Scan
  <1>5. \A q \in Partitions : Version(q) \in Nat /\ Seen(q, Version(q))
    BY SeenNow DEF EvidenceInv, DiskInv
  <1>6. \A q \in Partitions : Seen(q, entries[q]) /\ entries[q] \in Nat
    BY <1>2, <1>4, <1>5 DEF Seen
  <1>7. ASSUME NEW q \in Partitions, entries[q] # 0
        PROVE  \E i \in Nat \ {0} : q = turns[i] /\ Visited(i) /\ i <= inventory.next
    <2>1. CASE q = p
      BY <1>2, <2>1
    <2>2. CASE q # p
      <3>1. PICK i \in Nat \ {0} : q = turns[i] /\ Visited(i) /\ i < inventory.next
        BY <1>2, <1>4, <1>7, <2>2
      <3> QED BY <1>2, <3>1
    <2> QED BY <2>1, <2>2
  <1>8. entries \in [Partitions -> Nat]
    <2>1. entries = [q \in DOMAIN inventory.entries |->
                        IF q = p THEN Version(p) ELSE inventory.entries[q]]
      OBVIOUS
    <2>2. DOMAIN inventory.entries = Partitions
      BY <1>2 DEF Scan
    <2> QED BY <1>4, <1>6, <2>1, <2>2
  <1> HIDE DEF entries
  <1>9. /\ inventory'.pc = phase /\ inventory'.next = n /\ inventory'.entries = entries
        /\ inventory'.read = inventory.read /\ inventory'.trades_only = inventory.trades_only
        /\ inventory' \in Scan'
    BY <1>1, <1>2, <1>3, <1>8 DEF Scan, entries
  <1>10. \A q \in Partitions : Seen(q, inventory.entries[q])'
    BY <1>1, <1>6, <1>9, OthersInv
  <1>11. \A i : Visited(i)' <=> Visited(i)
    BY <1>9 DEF Visited
  <1>12. \A q \in Partitions : entries[q] # 0 =>
            \E i \in Nat \ {0} : q = turns[i] /\ Visited(i) /\ (phase = "hash" => i < n)
    <2>1. \A i \in Nat \ {0} : i <= inventory.next => (phase = "hash" => i < n)
      BY <1>2, <1>3
    <2> QED BY <1>7, <2>1
  <1>13. \A a, r : QualityIsOf(a, r)' <=> QualityIsOf(a, r)
    BY <1>1, OthersInv
  <1>14. turns' = turns /\ (phase = "read" => n = 1)
    BY <1>3, <1>9
  <1> HIDE DEF turns, p
  <1>15. turns = Order(inventory.trades_only)
    BY DEF turns
  <1>16. inventory'.pc = "read" => inventory'.next = 1
    BY <1>9, <1>14
  <1>17. inventory'.pc = "read" => 1 .. inventory'.next - 1 = {}
    BY <1>16
  <1>18. /\ Visited(inventory.next)'
        /\ \A q \in Partitions : inventory'.entries[q] # 0 =>
              \E i \in Nat \ {0} : /\ q = Order(inventory.trades_only)'[i] /\ Visited(i)'
                                   /\ inventory'.pc = "hash" => i < inventory'.next
    BY <1>3, <1>9, <1>11, <1>12, <1>14, <1>15
  <1>19. inventory'.pc \in {"hash", "read"}
    BY <1>3, <1>9
  <1>20. corpus_report'.kind = "quality" =>
            QualityIsOf(corpus_report.entries, corpus_report.results)'
    BY <1>1, <1>13 DEF EvidenceInv, InventoryInv
  <1> QED BY <1>9, <1>10, <1>17, <1>18, <1>19, <1>20 DEF InventoryInv

LEMMA InventoryReadsInv ==
    ASSUME EvidenceInv, InventoryReads
    PROVE  InventoryInv'
  <1> DEFINE turns == Order(inventory.trades_only)
             p == turns[inventory.next]
             step == Advance("read", "check")
             n == step.next
             phase == step.pc
             read == [inventory.read EXCEPT ![p] = disk[p].contents]
  <1>1. /\ inventory.pc = "read"
        /\ inventory' = [inventory EXCEPT !.read[p] = disk[p].contents, !.next = n, !.pc = phase]
        /\ UNCHANGED <<disk, versions, corpus_report>>
    BY DEF InventoryReads, files
  <1>2. /\ inventory \in Scan /\ inventory.next \in Nat \ {0}
        /\ \A q \in Partitions : Seen(q, inventory.entries[q])
        /\ \A q \in Partitions : inventory.entries[q] # 0 =>
              \E i \in Nat \ {0} : q = turns[i] /\ Visited(i)
        /\ \A i \in 1 .. inventory.next - 1 : IsRead(turns[i])
    BY <1>1 DEF EvidenceInv, InventoryInv, Scan
  <1>3. /\ n \in Nat \ {0} /\ Visited(n)
        /\ \/ phase = "read" /\ n = inventory.next + 1
           \/ phase = "check" /\ n = 1 /\ \A i \in Nat \ {0} : Visited(i) => i <= inventory.next
    BY <1>1, AdvanceInv
  <1> HIDE DEF step, n, phase
  <1>4. /\ DOMAIN read = Partitions
        /\ \A q \in Partitions : read[q] = IF q = p THEN disk[q].contents ELSE inventory.read[q]
    BY <1>2 DEF Scan
  <1>5. inventory' = [inventory EXCEPT !.read = read, !.next = n, !.pc = phase]
    BY <1>1, <1>2 DEF Scan
  <1> HIDE DEF read
  <1>6. /\ inventory'.pc = phase /\ inventory'.next = n /\ inventory'.read = read
        /\ inventory'.entries = inventory.entries /\ inventory'.trades_only = inventory.trades_only
        /\ inventory' \in Scan'
    BY <1>2, <1>3, <1>4, <1>5 DEF Scan
  <1>7. ASSUME NEW q, q = p \/ IsRead(q) PROVE IsRead(q)'
    BY <1>1, <1>4, <1>6, <1>7 DEF IsRead, IsStored, Version
  <1>8. \A i : Visited(i)' <=> Visited(i)
    BY <1>6 DEF Visited
  <1>9. turns' = turns
    BY <1>6
  <1> HIDE DEF turns
  <1>10. ASSUME NEW i \in 1 .. inventory.next PROVE IsRead(turns[i])'
    <2>1. i = inventory.next \/ i \in 1 .. inventory.next - 1
      BY <1>2
    <2>2. turns[i] = p \/ IsRead(turns[i])
      BY <1>2, <2>1
    <2> HIDE DEF p
    <2> QED BY <1>7, <1>9, <2>2
  <1>11. phase = "check" => \A q \in Partitions : IsRead(q)'
    <2> SUFFICES ASSUME phase = "check", NEW q \in Partitions PROVE IsRead(q)'
      OBVIOUS
    <2>1. CASE inventory.entries[q] # 0
      <3>1. PICK i \in Nat \ {0} : q = turns[i] /\ Visited(i)
        BY <1>2, <2>1
      <3>2. i \in 1 .. inventory.next
        BY <1>2, <1>3, <3>1
      <3> QED BY <1>9, <1>10, <3>1, <3>2
    <2>2. CASE inventory.entries[q] = 0
      BY <1>6, <2>2 DEF IsRead, IsStored
    <2> QED BY <2>1, <2>2
  <1>12. phase = "read" => \A i \in 1 .. n - 1 : IsRead(turns[i])'
    <2>1. phase = "read" => 1 .. n - 1 = 1 .. inventory.next
      BY <1>2, <1>3
    <2> QED BY <1>10, <2>1
  <1>13. \A q \in Partitions : Seen(q, inventory.entries[q])'
    BY <1>1, <1>2, <1>6, OthersInv
  <1>14. corpus_report'.kind = "quality" =>
            QualityIsOf(corpus_report.entries, corpus_report.results)'
    BY <1>1, OthersInv DEF EvidenceInv, InventoryInv
  <1>15. turns = Order(inventory.trades_only)
    BY DEF turns
  <1>16. inventory'.pc = "read" =>
            /\ Visited(inventory.next)'
            /\ \A q \in Partitions : inventory'.entries[q] # 0 =>
                  \E i \in Nat \ {0} : q = Order(inventory.trades_only)'[i] /\ Visited(i)'
            /\ \A i \in 1 .. inventory'.next - 1 : IsRead(Order(inventory.trades_only)[i])'
    BY <1>2, <1>3, <1>6, <1>8, <1>9, <1>12, <1>15
  <1>17. inventory'.pc \in {"read", "check"}
    BY <1>3, <1>6
  <1> QED BY <1>6, <1>11, <1>13, <1>14, <1>16, <1>17 DEF InventoryInv

LEMMA InventoryChecksInv ==
    ASSUME EvidenceInv, InventoryChecks
    PROVE  InventoryInv'
  <1> DEFINE results == IF inventory.volume = Nothing THEN Results
                        ELSE {r \in Results : ~IsVolume(r)}
                             \cup {r \in inventory.volume.results : IsVolume(r)}
  <1>1. /\ inventory.pc = "check" /\ UNCHANGED <<disk, versions>>
        /\ \/ inventory' = Idle /\ corpus_report' = corpus_report
           \/ /\ inventory' = [pc |-> "write", trades_only |-> inventory.trades_only,
                               report |-> [kind |-> "quality", entries |-> inventory.entries,
                                           results |-> results]]
              /\ corpus_report' \in {corpus_report, Torn}
    BY DEF InventoryChecks
  <1>2. \A a, r : QualityIsOf(a, r)' <=> QualityIsOf(a, r)
    BY <1>1, OthersInv
  <1>3. corpus_report'.kind = "quality" =>
           QualityIsOf(corpus_report.entries, corpus_report.results)'
    BY <1>1, <1>2 DEF EvidenceInv, InventoryInv, Torn
  <1>4. CASE inventory' = Idle
    BY <1>3, <1>4 DEF InventoryInv, Idle
  <1>5. CASE inventory' # Idle
    <2>1. Seen(DayBook, inventory.entries[DayBook]) /\ IsRead(DayBook)
      BY <1>1, Configured DEF EvidenceInv, InventoryInv
    <2>2. ASSUME ~inventory.trades_only, IsStored(DayBook, inventory.entries[DayBook]),
                 NothingFailedOn(results, DayBook)
          PROVE  disk[DayBook].contents.sane
      <3>1. inventory.read[DayBook] = disk[DayBook].contents
        BY <2>1, <2>2, Configured DEF IsRead
      <3>2. disk[DayBook].contents.present
        BY <2>2, Configured DEF EvidenceInv, DiskInv, IsStored
      <3>3. PICK r \in Results : /\ r.dataset = "book" /\ r.day = Day /\ ~IsVolume(r)
                                /\ r.passed = inventory.read[DayBook].sane /\ r.skipped = FALSE
        BY <2>2, <3>1, <3>2, SanityIsChecked
      <3>4. r.passed = disk[DayBook].contents.sane
        BY <3>1, <3>3
      <3>5. r \in results
        BY <3>3
      <3> HIDE DEF results
      <3>6. r.passed \/ r.skipped
        BY <2>2, <3>3, <3>5 DEF NothingFailedOn, DayBook
      <3> QED BY <3>3, <3>4, <3>6
    <2>3. ~inventory.trades_only => QualityIsOf(inventory.entries, results)
      BY <2>1, <2>2 DEF QualityIsOf
    <2> HIDE DEF results
    <2>4. /\ inventory'.pc = "write" /\ inventory'.trades_only = inventory.trades_only
          /\ inventory'.report.kind = "quality" /\ inventory'.report.entries = inventory.entries
          /\ inventory'.report.results = results
      BY <1>1, <1>5
    <2>5. inventory'.pc = "write" /\ ~inventory'.trades_only =>
             /\ inventory'.report.kind = "quality"
             /\ QualityIsOf(inventory.report.entries, inventory.report.results)'
      BY <1>2, <2>3, <2>4
    <2> QED BY <1>3, <2>4, <2>5 DEF InventoryInv
  <1> QED BY <1>4, <1>5

LEMMA InventoryNextInv == EvidenceInv /\ InventoryNext => EvidenceInv'
  <1> SUFFICES ASSUME EvidenceInv, InventoryNext PROVE EvidenceInv'
    OBVIOUS
  <1>1. UNCHANGED <<disk, versions, book_report, calibration, manifest, replay, generator, loader>>
    BY DEF InventoryNext, InventoryStarts, InventoryHashes, InventoryReads, InventoryChecks,
           InventoryWrites, files
  <1>2. ASSUME InventoryStarts PROVE InventoryInv'
    <2>1. PICK reconcile, trades_only, volume :
             inventory' = [pc |-> "hash", reconcile |-> reconcile, trades_only |-> trades_only,
                           volume |-> volume, next |-> 1, entries |-> [p \in Partitions |-> 0],
                           read |-> [p \in Partitions |-> Absent]]
      BY <1>2 DEF InventoryStarts
    <2>2. /\ inventory' \in Scan' /\ inventory'.pc = "hash" /\ inventory'.next = 1
          /\ \A p \in Partitions : inventory'.entries[p] = 0
      BY <2>1 DEF Scan
    <2>3. Visited(inventory.next)'
      BY <2>2 DEF Visited
    <2>4. \A p \in Partitions : Seen(p, inventory.entries[p])'
      BY <2>2 DEF Seen
    <2>5. corpus_report'.kind = "quality" =>
             QualityIsOf(corpus_report.entries, corpus_report.results)'
      <3>1. corpus_report' = corpus_report
        BY <1>2 DEF InventoryStarts, files
      <3> QED BY <1>1, <3>1, OthersInv DEF EvidenceInv, InventoryInv
    <2> QED BY <2>2, <2>3, <2>4, <2>5 DEF InventoryInv
  <1>3. ASSUME InventoryWrites PROVE InventoryInv'
    <2>1. /\ inventory.pc = "write" /\ inventory' = Idle
          /\ corpus_report' = IF inventory.trades_only THEN corpus_report ELSE inventory.report
      BY <1>3 DEF InventoryWrites
    <2>2. corpus_report'.kind = "quality" =>
             QualityIsOf(corpus_report.entries, corpus_report.results)'
      BY <1>1, <2>1, OthersInv DEF EvidenceInv, InventoryInv
    <2> QED BY <2>1, <2>2 DEF InventoryInv, Idle
  <1>4. InventoryInv'
    BY <1>2, <1>3, InventoryHashesInv, InventoryReadsInv, InventoryChecksInv DEF InventoryNext
  <1> QED BY <1>1, <1>4, OthersInv DEF EvidenceInv
------------------------------------------------------------------------------

(* The theorems. *)

LEMMA InitInv == EvidenceInit => EvidenceInv
  <1> SUFFICES ASSUME EvidenceInit PROVE EvidenceInv
    OBVIOUS
  <1>1. /\ versions = 1 /\ book_report = Nothing /\ corpus_report = Nothing
        /\ calibration = Nothing /\ manifest = Nothing
        /\ replay = Idle /\ inventory = Idle /\ generator = Idle /\ loader = Idle
    BY DEF EvidenceInit
  <1>2. PICK corpus \in Initial :
           disk = [p \in Partitions |->
                     [version |-> IF corpus[p].present THEN 1 ELSE 0, contents |-> corpus[p]]]
    BY DEF EvidenceInit
  <1>3. DiskInv
    BY <1>1, <1>2 DEF DiskInv, Version
  <1>4. ReplayInv /\ InventoryInv /\ GeneratorInv /\ LoaderInv
    BY <1>1 DEF ReplayInv, InventoryInv, GeneratorInv, LoaderInv, Nothing, Idle
  <1> QED BY <1>3, <1>4 DEF EvidenceInv

(* The tools that share the files stay within their invariant: a report    *)
(* holds as long as what it is of is stored, and the rows are never        *)
(* replaced by rows that were sampled earlier.                             *)
THEOREM EvidenceInvariant == EvidenceSpec => []EvidenceInv
  <1>1. EvidenceInit => EvidenceInv
    BY InitInv
  <1>2. EvidenceInv /\ [EvidenceNext]_evidenceVars => EvidenceInv'
    <2>1. EvidenceInv /\ UNCHANGED evidenceVars => EvidenceInv'
      BY OthersInv DEF EvidenceInv, evidenceVars, files
    <2> QED BY <2>1, IngestionInv, ReplayNextInv, InventoryNextInv, GeneratorNextInv,
               LoaderNextInv, KilledInv
               DEF EvidenceNext, ReplayNext, InventoryNext, GeneratorNext, LoaderNext
  <1> QED BY <1>1, <1>2, PTL DEF EvidenceSpec

(* Rows that are admitted to a fit were sampled from the very book that    *)
(* was stored, replayed and checked when their inputs were verified, and   *)
(* from no earlier or later one (generate, verified_inputs,                *)
(* load_calibration).                                                      *)
THEOREM AdmittedRowsAreAlwaysOfTheVerifiedBook ==
    EvidenceSpec => []AdmittedRowsAreOfTheVerifiedBook
  <1>1. EvidenceInv => AdmittedRowsAreOfTheVerifiedBook
    BY DEF EvidenceInv, LoaderInv, AdmittedRowsAreOfTheVerifiedBook, Admitted, DayBook, DaySnapshots
  <1> QED BY <1>1, EvidenceInvariant, PTL

(***************************************************************************)
(* The grid of a day's samples.                                            *)
(***************************************************************************)

\* The rows after s up to e are those of one millisecond.
IsGroup(group, s, e) ==
    /\ e \in GroupEnds /\ s < e /\ group = SubSeq(file, s + 1, e)
    /\ file[s + 1].timestamp = file[e].timestamp
    /\ \A n \in s + 1 .. e - 1 : n \notin GroupEnds

\* What was read ahead are the groups that come next.
PendingInv ==
    \E ends \in [0 .. Len(pending) -> {0} \cup GroupEnds] :
        /\ ends[0] = applied /\ ends[Len(pending)] = position
        /\ \A k \in 1 .. Len(pending) : IsGroup(pending[k], ends[k - 1], ends[k])

SpansGridPoint(n) == n \in GroupEnds /\ \E k \in Before(n) + 1 .. n : k % SampleEvery = 0

SampledTo(n) == Cardinality(PositionsTo(GridPoints, n)) * Len(Quantities)

AtSample == pc \in {"look_ahead", "quote", "slicing"}

ClockInv ==
    /\ pc \in {"loop", "replay", "look_ahead", "quote", "slicing", "returned", "raised"}
    /\ pc \in {"loop", "look_ahead", "quote", "slicing"} => threshold = NextThreshold
    /\ pc = "replay" => SpansGridPoint(applied)
    /\ AtSample => applied \in GridPoints /\ size \in 1 .. Len(Quantities)
    /\ pc = "look_ahead" => size = 1
    /\ applied # 0 => instant = file[applied].timestamp

CountInv ==
    /\ pc = "loop" => Len(rows) = SampledTo(applied)
    /\ pc = "replay" => Len(rows) = SampledTo(applied - 1)
    /\ AtSample => Len(rows) = SampledTo(applied - 1) + size - 1
    /\ pc = "returned" => Len(rows) = Cardinality(GridPoints) * Len(Quantities)

\* The rows are in the order of the grid, and none is of a point to come.
RowsInv ==
    /\ rows \in Seq(Range(rows))
    /\ \A i \in 1 .. Len(rows) :
          /\ rows[i].event_count \in GridPoints /\ rows[i].event_count <= applied
          /\ rows[i].timestamp = file[rows[i].event_count].timestamp
          /\ rows[i].size = ((i - 1) % Len(Quantities)) + 1
          /\ i > 1 => IF rows[i].size = 1 THEN rows[i].event_count > rows[i - 1].event_count
                      ELSE rows[i].event_count = rows[i - 1].event_count
    /\ rows # <<>> /\ (pc = "replay" \/ AtSample) =>
          IF AtSample /\ size > 1 THEN rows[Len(rows)].event_count = applied
          ELSE rows[Len(rows)].event_count < applied
    /\ AtSample /\ size > 1 => rows # <<>>

GridInv ==
    /\ file \in Seq(BookUpdate)
    /\ config.duration \in Nat
    /\ applied \in {0} \cup GroupEnds /\ position \in {0} \cup GroupEnds
    /\ pending \in Seq(Seq(BookUpdate))
    /\ PendingInv /\ ClockInv /\ CountInv /\ RowsInv

(***************************************************************************)
(* Milliseconds of a day, and what lies between their ends.                *)
(***************************************************************************)

LEMMA GroupEndsType ==
    ASSUME file \in Seq(BookUpdate)
    PROVE  /\ Len(file) \in Nat
           /\ GroupEnds \subseteq 1 .. Len(file) /\ GridPoints \subseteq GroupEnds
           /\ Len(file) # 0 => Len(file) \in GroupEnds
           /\ \A i \in 1 .. Len(file) : file[i] \in BookUpdate /\ file[i].timestamp \in Int
  <1>1. Len(file) \in Nat /\ \A i \in 1 .. Len(file) : file[i] \in BookUpdate
    OBVIOUS
  <1>2. \A row \in BookUpdate : row.timestamp \in Int
    BY DEF BookUpdate
  <1> QED BY <1>1, <1>2 DEF GroupEnds, GridPoints

\* A group is read up to the next end of a millisecond.
LEMMA NextGroup ==
    ASSUME file \in Seq(BookUpdate), NEW s \in {0} \cup GroupEnds, s < Len(file)
    PROVE  \E e \in GroupEnds : IsGroup(Group(s + 1), s, e) /\ Group(s + 1) \in Seq(BookUpdate)
  <1>1. /\ Len(file) \in Nat /\ GroupEnds \subseteq 1 .. Len(file) /\ Len(file) \in GroupEnds
        /\ s \in Nat
    BY GroupEndsType
  <1> DEFINE T == {n \in GroupEnds : n > s}
  <1>2. PICK e \in T : \A k \in T : e <= k
    <2>1. \A n \in GroupEnds : n \in Nat
      BY <1>1
    <2>2. T \in SUBSET Nat
      BY <2>1
    <2>3. Len(file) \in T
      BY <1>1
    <2> HIDE DEF T
    <2> QED BY <2>2, <2>3, LeastElement
  <1>3. e \in GroupEnds /\ e \in Nat /\ s < e /\ e <= Len(file) /\ \A n \in s + 1 .. e - 1 : n \notin GroupEnds
    BY <1>1, <1>2
  <1> HIDE DEF T
  <1> DEFINE t == file[s + 1].timestamp
             U == {m \in 0 .. e - s - 1 : file[s + 1 + m].timestamp = t}
             same == {n \in s + 1 .. Len(file) :
                        \A i \in s + 1 .. n : file[i].timestamp = file[s + 1].timestamp}
  <1>4. \A n \in s + 1 .. e : file[n].timestamp = t
    <2>1. 0 \in U
      BY <1>1, <1>3
    <2>2. ASSUME NEW m \in 0 .. e - s - 1 - 1, m \in U PROVE m + 1 \in U
      <3>1. s + 1 + m \in s + 1 .. e - 1 /\ s + 1 + m \in 1 .. Len(file) /\ s + 1 + m # Len(file)
            /\ s + 1 + m + 1 = s + 1 + (m + 1)
        BY <1>1, <1>3, <2>2
      <3>2. file[s + 1 + m + 1].timestamp = file[s + 1 + m].timestamp
        BY <3>1, <1>3 DEF GroupEnds
      <3> QED BY <1>1, <1>3, <2>2, <3>1, <3>2
    <2>3. e - s - 1 \in Nat
      BY <1>1, <1>3
    <2> HIDE DEF U
    <2>4. \A m \in 0 .. e - s - 1 : m \in U
      BY <2>1, <2>2, <2>3, StepByStep
    <2>5. ASSUME NEW n \in s + 1 .. e PROVE file[n].timestamp = t
      <3>1. n - s - 1 \in 0 .. e - s - 1 /\ s + 1 + (n - s - 1) = n
        BY <1>1, <1>3
      <3> QED BY <2>4, <3>1 DEF U
    <2> QED BY <2>5
  <1>5. \A n \in same : n <= e
    <2>1. SUFFICES ASSUME NEW n \in same, e < n PROVE FALSE
      BY <1>1, <1>3
    <2>2. e + 1 \in s + 1 .. n /\ e \in s + 1 .. n /\ e # Len(file) /\ e \in 1 .. Len(file)
      BY <1>1, <1>3, <2>1
    <2>3. file[e + 1].timestamp = file[e].timestamp
      BY <2>1, <2>2
    <2> QED BY <1>3, <2>2, <2>3 DEF GroupEnds
  <1>6. e \in same /\ same \in SUBSET Int
    BY <1>1, <1>3, <1>4
  <1>7. Max(same) = e
    <2> HIDE DEF same
    <2> QED BY <1>5, <1>6, MaxIs
  <1>8. Group(s + 1) = SubSeq(file, s + 1, e)
    BY <1>7 DEF Group
  <1>9. SubSeq(file, s + 1, e) \in Seq(BookUpdate)
    BY <1>1, <1>3
  <1>10. file[s + 1].timestamp = file[e].timestamp
    BY <1>1, <1>3, <1>4
  <1> QED BY <1>3, <1>8, <1>9, <1>10 DEF IsGroup

\* What is known of a group that comes next.
LEMMA GroupFacts ==
    ASSUME file \in Seq(BookUpdate), NEW s \in {0} \cup GroupEnds, NEW e, NEW group,
           IsGroup(group, s, e)
    PROVE  /\ s \in Nat /\ e \in Nat /\ s < e /\ e <= Len(file)
           /\ Len(group) = e - s /\ TimeOf(group) = file[e].timestamp
           /\ Before(e) = s
           /\ \A n \in s + 1 .. e - 1 : n \notin GridPoints
  <1>1. /\ Len(file) \in Nat /\ GroupEnds \subseteq 1 .. Len(file) /\ GridPoints \subseteq GroupEnds
    BY GroupEndsType
  <1>2. /\ e \in GroupEnds /\ s < e /\ group = SubSeq(file, s + 1, e)
        /\ file[s + 1].timestamp = file[e].timestamp
        /\ \A n \in s + 1 .. e - 1 : n \notin GroupEnds
    BY DEF IsGroup
  <1>3. s \in Nat /\ e \in Nat /\ e <= Len(file)
    BY <1>1, <1>2
  <1>4. Len(group) = e - s /\ group[1] = file[s + 1]
    BY <1>1, <1>2, <1>3
  <1>5. Before(e) = s
    <2> DEFINE T == {0} \cup {m \in GroupEnds : m < e}
    <2>1. s \in T
      BY <1>2
    <2>4. T \in SUBSET Int
      <3>1. \A n \in GroupEnds : n \in Int
        BY <1>1
      <3> QED BY <3>1
    <2>2. \A m \in T : m <= s
      BY <1>1, <1>2, <1>3
    <2> HIDE DEF T
    <2>3. Max(T) = s
      BY <2>1, <2>2, <2>4, MaxIs
    <2> QED BY <2>3 DEF T, Before
  <1> QED BY <1>1, <1>2, <1>3, <1>4, <1>5 DEF TimeOf

\* No grid point is counted between two ends of milliseconds.
LEMMA SampledBetween ==
    ASSUME file \in Seq(BookUpdate), NEW s \in Nat, NEW e \in Nat, s < e,
           \A n \in s + 1 .. e - 1 : n \notin GridPoints
    PROVE  SampledTo(e - 1) = SampledTo(s)
  <1>1. GridPoints \subseteq 1 .. Len(file)
    BY GroupEndsType
  <1>2. PositionsTo(GridPoints, e - 1) = PositionsTo(GridPoints, s)
    <2>1. ASSUME NEW j \in GridPoints PROVE j <= e - 1 <=> j <= s
      <3>1. j \in Int /\ j \notin s + 1 .. e - 1
        BY <1>1
      <3> QED BY <3>1
    <2> QED BY <2>1 DEF PositionsTo
  <1> QED BY <1>2 DEF SampledTo

\* A grid point adds a sample of every size.
LEMMA SampledAt ==
    ASSUME file \in Seq(BookUpdate), NEW n \in Nat
    PROVE  /\ SampledTo(n) \in Nat /\ SampledTo(n - 1) \in Nat
           /\ \E c \in Nat : SampledTo(n - 1) = Len(Quantities) * c
           /\ n \in GridPoints => SampledTo(n) = SampledTo(n - 1) + Len(Quantities)
           /\ n \notin GridPoints => SampledTo(n) = SampledTo(n - 1)
  <1>1. GridPoints \in SUBSET (1 .. Len(file)) /\ Len(file) \in Nat
    BY GroupEndsType
  <1>2. Len(Quantities) \in Nat
    BY CalibrationAssumption
  <1> DEFINE C(m) == Cardinality(PositionsTo(GridPoints, m))
  <1>3. C(n) \in Nat /\ C(n - 1) \in Nat
    BY <1>1, PositionsToType
  <1>4. /\ n \in GridPoints => C(n) = C(n - 1) + 1
        /\ n \notin GridPoints => C(n) = C(n - 1)
    <2>1. n \in Int
      OBVIOUS
    <2> QED BY <1>1, <2>1, PositionsToNext, Zenon
  <1>5. SampledTo(n) = C(n) * Len(Quantities) /\ SampledTo(n - 1) = C(n - 1) * Len(Quantities)
    BY DEF SampledTo
  <1> HIDE DEF C
  <1>6. \A a \in Nat, q \in Nat : a * q \in Nat /\ (a + 1) * q = a * q + q /\ a * q = q * a
    OBVIOUS
  <1>7. SampledTo(n) \in Nat /\ SampledTo(n - 1) \in Nat /\ SampledTo(n - 1) = Len(Quantities) * C(n - 1)
    BY <1>2, <1>3, <1>5, <1>6
  <1>8. (C(n - 1) + 1) * Len(Quantities) = C(n - 1) * Len(Quantities) + Len(Quantities)
    BY <1>2, <1>3, <1>6
  <1>9. n \in GridPoints => SampledTo(n) = SampledTo(n - 1) + Len(Quantities)
    BY <1>4, <1>5, <1>8
  <1>10. n \notin GridPoints => SampledTo(n) = SampledTo(n - 1)
    BY <1>4, <1>5
  <1> QED BY <1>3, <1>7, <1>9, <1>10

LEMMA SameDay ==
    ASSUME Unchanged
    PROVE  /\ GroupEnds' = GroupEnds /\ GridPoints' = GridPoints
           /\ \A n : SampledTo(n)' = SampledTo(n)
           /\ \A n : SpansGridPoint(n)' <=> SpansGridPoint(n)
           /\ \A group, s, e : IsGroup(group, s, e)' <=> IsGroup(group, s, e)
  <1>1. GroupEnds' = GroupEnds
    BY DEF Unchanged, GroupEnds
  <1>2. \A n : Before(n)' = Before(n)
    BY <1>1 DEF Before
  <1>3. GridPoints' = GridPoints
    BY <1>1, <1>2 DEF Unchanged, GridPoints
  <1>4. \A n : SampledTo(n)' = SampledTo(n)
    BY <1>3 DEF SampledTo
  <1>5. \A n : SpansGridPoint(n)' <=> SpansGridPoint(n)
    BY <1>1, <1>2 DEF SpansGridPoint
  <1>6. \A group, s, e : IsGroup(group, s, e)' <=> IsGroup(group, s, e)
    BY <1>1 DEF Unchanged, IsGroup
  <1> QED BY <1>1, <1>3, <1>4, <1>5, <1>6

LEMMA SamePending ==
    ASSUME PendingInv, Unchanged, pending' = pending, applied' = applied, position' = position
    PROVE  PendingInv'
  <1>1. GroupEnds' = GroupEnds /\ \A group, s, e : IsGroup(group, s, e)' <=> IsGroup(group, s, e)
    BY SameDay
  <1> QED BY <1>1 DEF PendingInv

LEMMA SameRows ==
    ASSUME GridInv, Unchanged, rows' = rows
    PROVE  /\ rows' \in Seq(Range(rows'))
           /\ \A i \in 1 .. Len(rows') :
                 /\ rows'[i].event_count \in GridPoints' /\ rows'[i].event_count <= applied
                 /\ rows'[i].timestamp = file'[rows'[i].event_count].timestamp
                 /\ rows'[i].size = ((i - 1) % Len(Quantities)) + 1
                 /\ i > 1 => IF rows'[i].size = 1
                             THEN rows'[i].event_count > rows'[i - 1].event_count
                             ELSE rows'[i].event_count = rows'[i - 1].event_count
  <1>1. GridPoints' = GridPoints /\ file' = file
    BY SameDay DEF Unchanged
  <1> QED BY <1>1 DEF GridInv, RowsInv

LEMMA GridHoldsAtStart == CalibrationInit => GridInv
  <1> SUFFICES ASSUME CalibrationInit PROVE GridInv
    OBVIOUS
  <1> USE DEF CalibrationInit
  <1>1. file \in Seq(BookUpdate)
    BY CalibrationAssumption
  <1>2. config.duration \in Nat
    BY CalibrationAssumption
  <1>3. PendingInv
    <2>1. PICK ends : ends = [k \in 0 .. 0 |-> 0]
      OBVIOUS
    <2>2. Len(pending) = 0 /\ ends \in [0 .. Len(pending) -> {0} \cup GroupEnds]
      BY <2>1
    <2>3. ends[0] = applied /\ ends[Len(pending)] = position
      BY <2>1, <2>2
    <2> QED BY <2>2, <2>3 DEF PendingInv
  <1>4. NextThreshold = SampleEvery
    <2>1. 0 \div SampleEvery = 0
      BY CalibrationAssumption, DivModIs, 0 = SampleEvery * 0 + 0
    <2> QED BY <2>1, CalibrationAssumption DEF NextThreshold
  <1>5. ClockInv
    BY <1>4 DEF ClockInv, AtSample
  <1>6. SampledTo(0) = 0
    <2>1. GridPoints \subseteq 1 .. Len(file)
      BY <1>1, GroupEndsType
    <2>2. PositionsTo(GridPoints, 0) = {}
      <3>1. \A n \in GridPoints : n \in Int /\ ~ (n <= 0)
        BY <1>1, <2>1, GroupEndsType
      <3> QED BY <3>1 DEF PositionsTo
    <2>3. Cardinality({}) = 0
      BY FS_EmptySet
    <2>4. Len(Quantities) \in Nat
      BY CalibrationAssumption
    <2>5. SampledTo(0) = 0 * Len(Quantities)
      BY <2>2, <2>3 DEF SampledTo
    <2> QED BY <2>4, <2>5
  <1>7. CountInv
    BY <1>6 DEF CountInv, AtSample
  <1>8. RowsInv
    BY DEF RowsInv, AtSample
  <1> QED BY <1>1, <1>2, <1>3, <1>5, <1>7, <1>8 DEF GridInv

\* The group taken is the one that comes next.
LEMMA TakenGroup ==
    ASSUME GridInv, TakeGroup
    PROVE  /\ applied' \in GroupEnds /\ applied < applied' /\ applied' <= Len(file)
           /\ instant' = file[applied'].timestamp
           /\ Before(applied') = applied
           /\ \A n \in applied + 1 .. applied' - 1 : n \notin GridPoints
           /\ position' \in {0} \cup GroupEnds
           /\ pending' \in Seq(Seq(BookUpdate))
           /\ PendingInv'
  <1>0. /\ file \in Seq(BookUpdate) /\ Unchanged /\ pending \in Seq(Seq(BookUpdate))
        /\ applied \in {0} \cup GroupEnds /\ position \in {0} \cup GroupEnds
    BY DEF GridInv, TakeGroup
  <1>1. PICK ends \in [0 .. Len(pending) -> {0} \cup GroupEnds] :
           /\ ends[0] = applied /\ ends[Len(pending)] = position
           /\ \A k \in 1 .. Len(pending) : IsGroup(pending[k], ends[k - 1], ends[k])
    BY DEF GridInv, PendingInv
  <1>2. GroupEnds' = GroupEnds /\ \A group, s, e : IsGroup(group, s, e)' <=> IsGroup(group, s, e)
    BY <1>0, SameDay
  <1>3. CASE pending # <<>>
    <2>1. /\ pending' = Tail(pending) /\ position' = position
          /\ applied' = applied + Len(Head(pending)) /\ instant' = TimeOf(Head(pending))
      BY <1>3 DEF TakeGroup
    <2>2. Len(pending) \in Nat \ {0} /\ Head(pending) = pending[1] /\ 1 \in 1 .. Len(pending)
      BY <1>0, <1>3
    <2>3. IsGroup(Head(pending), applied, ends[1])
      BY <1>1, <2>2
    <2>4. /\ applied \in Nat /\ ends[1] \in Nat /\ applied < ends[1] /\ ends[1] <= Len(file)
          /\ Len(Head(pending)) = ends[1] - applied /\ TimeOf(Head(pending)) = file[ends[1]].timestamp
          /\ Before(ends[1]) = applied
          /\ \A n \in applied + 1 .. ends[1] - 1 : n \notin GridPoints
      <3>1. PICK e, group : e = ends[1] /\ group = Head(pending)
        OBVIOUS
      <3>2. IsGroup(group, applied, e)
        BY <2>3, <3>1
      <3>3. /\ applied \in Nat /\ e \in Nat /\ applied < e /\ e <= Len(file)
            /\ Len(group) = e - applied /\ TimeOf(group) = file[e].timestamp
            /\ Before(e) = applied
            /\ \A n \in applied + 1 .. e - 1 : n \notin GridPoints
        <4>1. file \in Seq(BookUpdate) /\ applied \in {0} \cup GroupEnds
          BY <1>0
        <4> QED BY <3>2, <4>1, GroupFacts, Zenon
      <3> QED BY <3>1, <3>3
    <2>5. applied' = ends[1] /\ ends[1] \in GroupEnds
      BY <2>1, <2>3, <2>4 DEF IsGroup
    <2>6. /\ pending' \in Seq(Seq(BookUpdate)) /\ Len(pending') = Len(pending) - 1
          /\ \A k \in 1 .. Len(pending') : pending'[k] = pending[k + 1]
      BY <1>0, <1>3, <2>1, <2>2
    <2>7. PendingInv'
      <3>0. PICK after : after = [k \in 0 .. Len(pending') |-> ends[k + 1]]
        OBVIOUS
      <3>1. \A k \in 0 .. Len(pending') : k + 1 \in 0 .. Len(pending)
        BY <2>2, <2>6
      <3>2. after \in [0 .. Len(pending') -> {0} \cup GroupEnds']
        BY <1>1, <1>2, <3>0, <3>1
      <3>3. after[0] = applied' /\ after[Len(pending')] = position'
        BY <1>1, <2>1, <2>2, <2>5, <2>6, <3>0
      <3>4. ASSUME NEW k \in 1 .. Len(pending') PROVE IsGroup(pending[k], after[k - 1], after[k])'
        <4>1. k + 1 \in 1 .. Len(pending) /\ k - 1 \in 0 .. Len(pending') /\ k \in 0 .. Len(pending')
              /\ k - 1 + 1 = k /\ k + 1 - 1 = k
          BY <2>2, <2>6
        <4>2. IsGroup(pending[k + 1], ends[k], ends[k + 1])
          BY <1>1, <4>1
        <4>3. pending'[k] = pending[k + 1] /\ after[k - 1] = ends[k] /\ after[k] = ends[k + 1]
          BY <2>6, <3>0, <4>1
        <4>4. IsGroup(pending'[k], after[k - 1], after[k])
          BY <4>2, <4>3
        <4>5. GroupEnds' = GroupEnds /\ file' = file
          BY <1>0, <1>2 DEF Unchanged
        <4> QED BY <4>4, <4>5 DEF IsGroup
      <3> QED BY <3>2, <3>3, <3>4 DEF PendingInv
    <2> QED BY <1>0, <2>1, <2>4, <2>5, <2>6, <2>7
  <1>4. CASE pending = <<>>
    <2>1. /\ pending' = pending /\ position' = position + Len(ReadGroup) /\ MoreGroups
          /\ applied' = applied + Len(ReadGroup) /\ instant' = TimeOf(ReadGroup)
      BY <1>4 DEF TakeGroup
    <2>2. Len(pending) = 0 /\ position = applied
      BY <1>1, <1>4
    <2>3. PICK e \in GroupEnds : IsGroup(ReadGroup, position, e)
      BY <1>0, <2>1, NextGroup DEF ReadGroup, MoreGroups
    <2>4. /\ applied \in Nat /\ e \in Nat /\ applied < e /\ e <= Len(file)
          /\ Len(ReadGroup) = e - applied /\ TimeOf(ReadGroup) = file[e].timestamp
          /\ Before(e) = applied
          /\ \A n \in applied + 1 .. e - 1 : n \notin GridPoints
      BY <1>0, <2>2, <2>3, GroupFacts
    <2>5. applied' = e /\ position' = e
      BY <2>1, <2>2, <2>4
    <2>6. PendingInv'
      <3>0. PICK after : after = [k \in 0 .. 0 |-> e]
        OBVIOUS
      <3>1. after \in [0 .. Len(pending') -> {0} \cup GroupEnds'] /\ Len(pending') = 0
        BY <1>2, <2>1, <2>2, <3>0
      <3>2. after[0] = applied' /\ after[Len(pending')] = position'
        BY <2>5, <3>0, <3>1
      <3>3. \A k \in 1 .. Len(pending') : IsGroup(pending[k], after[k - 1], after[k])'
        BY <3>1
      <3> QED BY <3>1, <3>2, <3>3 DEF PendingInv
    <2> QED BY <1>0, <2>1, <2>4, <2>5, <2>6
  <1> QED BY <1>3, <1>4

LEMMA TakeGroupKeepsGrid ==
    ASSUME GridInv, TakeGroup
    PROVE  GridInv'
  <1>0. /\ file \in Seq(BookUpdate) /\ Unchanged /\ config.duration \in Nat /\ file' = file
        /\ applied \in {0} \cup GroupEnds /\ pc = "loop" /\ applied \in Nat
        /\ rows' = rows /\ threshold' = threshold
    BY GroupEndsType DEF GridInv, TakeGroup, Unchanged
  <1>1. /\ applied' \in GroupEnds /\ applied < applied' /\ applied' <= Len(file)
        /\ instant' = file[applied'].timestamp
        /\ Before(applied') = applied
        /\ \A n \in applied + 1 .. applied' - 1 : n \notin GridPoints
        /\ position' \in {0} \cup GroupEnds
        /\ pending' \in Seq(Seq(BookUpdate))
        /\ PendingInv'
    BY TakenGroup
  <1>2. applied' \in Nat /\ GroupEnds' = GroupEnds
    BY <1>0, <1>1, GroupEndsType, SameDay
  <1>3. threshold = (applied \div SampleEvery + 1) * SampleEvery /\ Len(rows) = SampledTo(applied)
    BY <1>0 DEF GridInv, ClockInv, CountInv, NextThreshold
  <1>4. /\ applied' < threshold => applied' \div SampleEvery = applied \div SampleEvery
        /\ applied' < threshold <=> ~ \E k \in applied + 1 .. applied' : k % SampleEvery = 0
    BY <1>0, <1>1, <1>2, <1>3, NextMultiple, CalibrationAssumption
  <1>5. SampledTo(applied' - 1) = SampledTo(applied)
    BY <1>0, <1>1, <1>2, SampledBetween
  <1>6. applied' # 0 /\ ~ (applied' <= applied)
    BY <1>0, <1>1, <1>2
  <1>7. /\ rows' \in Seq(Range(rows'))
        /\ \A i \in 1 .. Len(rows') :
              /\ rows'[i].event_count \in GridPoints' /\ rows'[i].event_count <= applied
              /\ rows'[i].timestamp = file'[rows'[i].event_count].timestamp
              /\ rows'[i].size = ((i - 1) % Len(Quantities)) + 1
              /\ i > 1 => IF rows'[i].size = 1
                          THEN rows'[i].event_count > rows'[i - 1].event_count
                          ELSE rows'[i].event_count = rows'[i - 1].event_count
    BY <1>0, SameRows
  <1>8. \A i \in 1 .. Len(rows') : rows'[i].event_count < applied'
    <2>1. \A n \in GridPoints' : n \in Nat
      BY <1>0, GroupEndsType, SameDay
    <2>2. \A n \in Nat : n <= applied => n < applied'
      BY <1>0, <1>1, <1>2
    <2> QED BY <1>7, <2>1, <2>2
  <1>9. \A i \in 1 .. Len(rows') : rows'[i].event_count <= applied'
    <2>1. \A n \in GridPoints' : n \in Nat
      BY <1>0, GroupEndsType, SameDay
    <2>2. \A n \in Nat : n < applied' => n <= applied'
      BY <1>2
    <2> QED BY <1>7, <1>8, <2>1, <2>2
  <1>10. rows' # <<>> => rows'[Len(rows')].event_count < applied'
    <2>1. rows' # <<>> => Len(rows') \in 1 .. Len(rows')
      BY <1>7
    <2> QED BY <1>8, <2>1
  <1>11. CASE applied' < threshold
    <2>1. pc' = "loop"
      BY <1>11 DEF TakeGroup
    <2>2. applied' \notin GridPoints
      BY <1>1, <1>4, <1>11 DEF GridPoints
    <2>3. SampledTo(applied') = SampledTo(applied)
      BY <1>0, <1>2, <1>5, <2>2, SampledAt
    <2>4. ClockInv'
      BY <1>0, <1>1, <1>3, <1>4, <1>11, <2>1 DEF ClockInv, AtSample, NextThreshold
    <2>5. CountInv'
      <3>2. Len(rows') = SampledTo(applied')
        BY <1>0, <1>3, <2>3
      <3>3. GridPoints' = GridPoints
        BY <1>0, SameDay
      <3> QED BY <2>1, <3>2, <3>3 DEF CountInv, AtSample, SampledTo
    <2>6. RowsInv'
      BY <1>7, <1>9, <2>1 DEF RowsInv, AtSample
    <2> QED BY <1>0, <1>1, <1>2, <2>4, <2>5, <2>6 DEF GridInv, Unchanged
  <1>12. CASE ~ (applied' < threshold)
    <2>1. pc' = "replay"
      BY <1>12 DEF TakeGroup
    <2>2. SpansGridPoint(applied')
      BY <1>1, <1>4, <1>12 DEF SpansGridPoint
    <2>3. SpansGridPoint(applied)'
      <3>1. \A n : Before(n)' = Before(n)
        BY <1>2 DEF Before
      <3> QED BY <1>2, <2>2, <3>1 DEF SpansGridPoint, Before
    <2>4. ClockInv'
      BY <1>0, <1>1, <2>1, <2>3 DEF ClockInv, AtSample
    <2>5. CountInv'
      <3>2. Len(rows') = SampledTo(applied' - 1)
        BY <1>0, <1>3, <1>5
      <3>3. GridPoints' = GridPoints
        BY <1>0, SameDay
      <3> QED BY <2>1, <3>2, <3>3 DEF CountInv, AtSample, SampledTo
    <2>6. RowsInv'
      BY <1>7, <1>9, <1>10, <2>1 DEF RowsInv, AtSample
    <2> QED BY <1>0, <1>1, <1>2, <2>4, <2>5, <2>6 DEF GridInv, Unchanged
  <1> QED BY <1>11, <1>12

\* A millisecond that spans a grid point is one unless it is too late.
LEMMA PointOrTooLate ==
    ASSUME GridInv, pc = "replay"
    PROVE  /\ applied \in GroupEnds /\ applied \in Nat
           /\ applied \in GridPoints <=> ~ (LastSlice >= DayEnd)
  <1>1. SpansGridPoint(applied) /\ file \in Seq(BookUpdate) /\ config.duration \in Nat
    BY DEF GridInv, ClockInv
  <1>2. applied \in GroupEnds /\ applied \in Nat /\ applied # 0 /\ applied \in 1 .. Len(file)
    BY <1>1, GroupEndsType DEF SpansGridPoint
  <1>3. instant = file[applied].timestamp /\ instant \in Int
    BY <1>1, <1>2, GroupEndsType DEF GridInv, ClockInv
  <1>4. PICK late \in Int : late = (config.duration * (Slices - 1)) \div Slices
    <2>1. config.duration * (Slices - 1) \in Int /\ Slices \in Nat \ {0}
      BY <1>1, CalibrationAssumption
    <2> QED BY <2>1, DivMod
  <1>5. LastSlice = instant + late /\ DayEnd \in Int
    BY <1>4, CalibrationAssumption DEF LastSlice
  <1>6. applied \in GridPoints <=> instant + late < DayEnd
    BY <1>1, <1>2, <1>3, <1>4 DEF GridPoints, SpansGridPoint
  <1> QED BY <1>2, <1>3, <1>4, <1>5, <1>6

LEMMA ReplayKeepsGrid ==
    ASSUME GridInv, Replay
    PROVE  GridInv'
  <1>0. /\ file \in Seq(BookUpdate) /\ Unchanged /\ config.duration \in Nat /\ file' = file
        /\ applied \in {0} \cup GroupEnds /\ pc = "replay" /\ applied' = applied /\ instant' = instant
        /\ position \in {0} \cup GroupEnds /\ pending \in Seq(Seq(BookUpdate))
        /\ position' = position /\ pending' = pending /\ rows' = rows /\ size' = 1
    BY DEF GridInv, Replay, Unchanged
  <1>1. applied \in GroupEnds /\ applied \in Nat /\ (applied \in GridPoints <=> ~ (LastSlice >= DayEnd))
    BY <1>0, PointOrTooLate
  <1>2. PendingInv'
    BY <1>0, SamePending DEF GridInv
  <1>3. GroupEnds' = GroupEnds /\ GridPoints' = GridPoints /\ NextThreshold' = NextThreshold
    BY <1>0, SameDay DEF NextThreshold
  <1>4. applied # 0 => instant = file[applied].timestamp
    BY DEF GridInv, ClockInv
  <1>5. /\ rows' \in Seq(Range(rows'))
        /\ \A i \in 1 .. Len(rows') :
              /\ rows'[i].event_count \in GridPoints' /\ rows'[i].event_count <= applied
              /\ rows'[i].timestamp = file'[rows'[i].event_count].timestamp
              /\ rows'[i].size = ((i - 1) % Len(Quantities)) + 1
              /\ i > 1 => IF rows'[i].size = 1
                          THEN rows'[i].event_count > rows'[i - 1].event_count
                          ELSE rows'[i].event_count = rows'[i - 1].event_count
    BY <1>0, SameRows
  <1>6. Len(rows) = SampledTo(applied - 1)
    BY <1>0 DEF GridInv, CountInv
  <1>7. rows # <<>> => rows[Len(rows)].event_count < applied
    BY <1>0 DEF GridInv, RowsInv, AtSample
  <1>8. Len(Quantities) \in Nat \ {0}
    BY CalibrationAssumption
  <1>9. CASE pc' = "raised"
    <2>1. ClockInv' /\ CountInv' /\ RowsInv'
      BY <1>0, <1>4, <1>5, <1>9 DEF ClockInv, CountInv, RowsInv, AtSample
    <2> QED BY <1>0, <1>2, <1>3, <2>1 DEF GridInv, Unchanged
  <1>10. CASE pc' = "loop"
    <2>1. threshold' = NextThreshold /\ LastSlice >= DayEnd
      BY <1>10 DEF Replay
    <2>2. Len(rows) = SampledTo(applied)
      BY <1>0, <1>1, <1>6, <2>1, SampledAt
    <2>3. ClockInv'
      BY <1>0, <1>3, <1>4, <1>10, <2>1 DEF ClockInv, AtSample
    <2>4. CountInv'
      BY <1>0, <1>3, <1>10, <2>2 DEF CountInv, AtSample, SampledTo
    <2>5. RowsInv'
      BY <1>0, <1>5, <1>10 DEF RowsInv, AtSample
    <2> QED BY <1>0, <1>2, <1>3, <2>3, <2>4, <2>5 DEF GridInv, Unchanged
  <1>11. CASE pc' = "look_ahead"
    <2>1. threshold' = NextThreshold /\ ~ (LastSlice >= DayEnd)
      BY <1>11 DEF Replay
    <2>2. ClockInv'
      BY <1>0, <1>1, <1>3, <1>4, <1>8, <1>11, <2>1 DEF ClockInv, AtSample
    <2>3. Len(rows) = SampledTo(applied - 1) + 1 - 1
      BY <1>0, <1>1, <1>6, SampledAt
    <2>4. CountInv'
      BY <1>0, <1>3, <1>11, <2>3 DEF CountInv, AtSample, SampledTo
    <2>5. RowsInv'
      BY <1>0, <1>5, <1>7, <1>11 DEF RowsInv, AtSample
    <2> QED BY <1>0, <1>2, <1>3, <2>2, <2>4, <2>5 DEF GridInv, Unchanged
  <1> QED BY <1>9, <1>10, <1>11 DEF Replay

\* A group is read ahead of what was applied.
LEMMA PendingGrows ==
    ASSUME GridInv, LookAhead
    PROVE  /\ position' \in GroupEnds /\ pending' \in Seq(Seq(BookUpdate)) /\ PendingInv'
  <1>0. /\ file \in Seq(BookUpdate) /\ Unchanged /\ file' = file /\ pending \in Seq(Seq(BookUpdate))
        /\ position \in {0} \cup GroupEnds /\ MoreGroups /\ applied' = applied
        /\ pending' = Append(pending, ReadGroup) /\ position' = position + Len(ReadGroup)
    BY DEF GridInv, LookAhead, Unchanged
  <1>1. PICK e \in GroupEnds : IsGroup(ReadGroup, position, e) /\ ReadGroup \in Seq(BookUpdate)
    BY <1>0, NextGroup DEF ReadGroup, MoreGroups
  <1>2. position' = e
    BY <1>0, <1>1, GroupFacts
  <1>3. PICK ends \in [0 .. Len(pending) -> {0} \cup GroupEnds] :
           /\ ends[0] = applied /\ ends[Len(pending)] = position
           /\ \A k \in 1 .. Len(pending) : IsGroup(pending[k], ends[k - 1], ends[k])
    BY DEF GridInv, PendingInv
  <1>4. PICK l : l = Len(pending) /\ l \in Nat
    BY <1>0
  <1>5. PICK group : group = ReadGroup
    OBVIOUS
  <1>6. /\ pending' \in Seq(Seq(BookUpdate)) /\ Len(pending') = l + 1 /\ pending'[l + 1] = group
        /\ \A k \in 1 .. l : pending'[k] = pending[k]
    BY <1>0, <1>1, <1>4, <1>5
  <1>7. GroupEnds' = GroupEnds
    BY <1>0, SameDay
  <1>8. PICK after : after = [k \in 0 .. l + 1 |-> IF k <= l THEN ends[k] ELSE e]
    OBVIOUS
  <1>9. \A k \in 0 .. l : after[k] = ends[k]
    BY <1>4, <1>8
  <1>10. after[l + 1] = e
    BY <1>4, <1>8
  <1>11. after \in [0 .. Len(pending') -> {0} \cup GroupEnds']
    BY <1>1, <1>3, <1>4, <1>6, <1>7, <1>8
  <1>12. after[0] = applied' /\ after[Len(pending')] = position'
    BY <1>0, <1>2, <1>3, <1>4, <1>6, <1>9, <1>10
  <1>13. ASSUME NEW k \in 1 .. Len(pending') PROVE IsGroup(pending[k], after[k - 1], after[k])'
    <2>1. CASE k <= l
      <3>1. k \in 1 .. l /\ k - 1 \in 0 .. l /\ k \in 0 .. l
        BY <1>4, <1>6, <2>1
      <3>2. IsGroup(pending'[k], after[k - 1], after[k])
        BY <1>3, <1>4, <1>6, <1>9, <3>1
      <3> QED BY <1>0, <1>7, <3>2 DEF IsGroup
    <2>2. CASE k = l + 1
      <3>1. k - 1 = l /\ l \in 0 .. l
        BY <1>4, <2>2
      <3>2. IsGroup(pending'[k], after[k - 1], after[k])
        BY <1>1, <1>3, <1>4, <1>5, <1>6, <1>9, <1>10, <2>2, <3>1
      <3> QED BY <1>0, <1>7, <3>2 DEF IsGroup
    <2> QED BY <1>4, <1>6, <2>1, <2>2
  <1>14. PendingInv'
    BY <1>11, <1>12, <1>13 DEF PendingInv
  <1> QED BY <1>1, <1>2, <1>6, <1>14

\* Between the start of a sample and a quote of it nothing that counts changes.
LEMMA SamplingKeepsGrid ==
    ASSUME GridInv, AtSample, Unchanged,
           UNCHANGED <<applied, threshold, instant, size, rows>>,
           position' \in {0} \cup GroupEnds, pending' \in Seq(Seq(BookUpdate)), PendingInv',
           \/ pc' = pc
           \/ pc' \in {"quote", "slicing", "raised"}
    PROVE  GridInv'
  <1>0. /\ file \in Seq(BookUpdate) /\ config.duration \in Nat /\ file' = file /\ config' = config
        /\ applied \in {0} \cup GroupEnds
        /\ applied' = applied /\ threshold' = threshold /\ instant' = instant /\ size' = size
        /\ rows' = rows
    BY DEF GridInv, Unchanged
  <1>1. GroupEnds' = GroupEnds /\ GridPoints' = GridPoints /\ NextThreshold' = NextThreshold
    BY <1>0, SameDay DEF NextThreshold
  <1>2. /\ rows' \in Seq(Range(rows'))
        /\ \A i \in 1 .. Len(rows') :
              /\ rows'[i].event_count \in GridPoints' /\ rows'[i].event_count <= applied
              /\ rows'[i].timestamp = file'[rows'[i].event_count].timestamp
              /\ rows'[i].size = ((i - 1) % Len(Quantities)) + 1
              /\ i > 1 => IF rows'[i].size = 1
                          THEN rows'[i].event_count > rows'[i - 1].event_count
                          ELSE rows'[i].event_count = rows'[i - 1].event_count
    BY <1>0, SameRows
  <1>3. Len(rows) = SampledTo(applied - 1) + size - 1
    BY DEF GridInv, CountInv
  <1>4. /\ threshold = NextThreshold /\ applied \in GridPoints /\ size \in 1 .. Len(Quantities)
        /\ pc = "look_ahead" => size = 1
        /\ applied # 0 => instant = file[applied].timestamp
    BY DEF GridInv, ClockInv, AtSample
  <1>5. /\ rows # <<>> => IF size > 1 THEN rows[Len(rows)].event_count = applied
                          ELSE rows[Len(rows)].event_count < applied
        /\ size > 1 => rows # <<>>
    BY DEF GridInv, RowsInv, AtSample
  <1>6. \/ pc' = "look_ahead" /\ pc = "look_ahead"
        \/ pc' \in {"quote", "slicing", "raised"}
    BY DEF AtSample
  <1>7. ClockInv'
    BY <1>0, <1>1, <1>4, <1>6 DEF ClockInv, AtSample
  <1>8. CountInv'
    BY <1>0, <1>1, <1>3, <1>6 DEF CountInv, AtSample, SampledTo
  <1>9. RowsInv'
    BY <1>0, <1>2, <1>5, <1>6 DEF RowsInv, AtSample
  <1> QED BY <1>0, <1>1, <1>7, <1>8, <1>9 DEF GridInv

\* A sample of one more size.
LEMMA RecordKeepsGrid ==
    ASSUME GridInv, Record
    PROVE  GridInv'
  <1> DEFINE row == [event_count |-> applied, timestamp |-> instant, size |-> size,
                     static |-> static, sliced |-> parent, slices |-> children]
  <1>0. /\ file \in Seq(BookUpdate) /\ Unchanged /\ config.duration \in Nat /\ file' = file
        /\ applied \in {0} \cup GroupEnds /\ pc = "slicing" /\ applied' = applied /\ instant' = instant
        /\ position \in {0} \cup GroupEnds /\ pending \in Seq(Seq(BookUpdate))
        /\ position' = position /\ pending' = pending /\ threshold' = threshold
        /\ rows' = Append(rows, row) /\ size' = size + 1
        /\ pc' = IF size < Len(Quantities) THEN "quote" ELSE "loop"
    BY DEF GridInv, Record, Unchanged
  <1>1. PendingInv'
    BY <1>0, SamePending DEF GridInv
  <1>2. GroupEnds' = GroupEnds /\ GridPoints' = GridPoints /\ NextThreshold' = NextThreshold
    BY <1>0, SameDay DEF NextThreshold
  <1>3. /\ threshold = NextThreshold /\ applied \in GridPoints /\ size \in 1 .. Len(Quantities)
        /\ applied # 0 => instant = file[applied].timestamp
        /\ Len(rows) = SampledTo(applied - 1) + size - 1
    BY <1>0 DEF GridInv, ClockInv, CountInv, AtSample
  <1>4. /\ rows \in Seq(Range(rows))
        /\ \A i \in 1 .. Len(rows) :
              /\ rows[i].event_count \in GridPoints /\ rows[i].event_count <= applied
              /\ rows[i].timestamp = file[rows[i].event_count].timestamp
              /\ rows[i].size = ((i - 1) % Len(Quantities)) + 1
              /\ i > 1 => IF rows[i].size = 1
                          THEN rows[i].event_count > rows[i - 1].event_count
                          ELSE rows[i].event_count = rows[i - 1].event_count
    BY DEF GridInv, RowsInv
  <1>5. /\ rows # <<>> => IF size > 1 THEN rows[Len(rows)].event_count = applied
                          ELSE rows[Len(rows)].event_count < applied
        /\ size > 1 => rows # <<>>
    BY <1>0 DEF GridInv, RowsInv, AtSample
  <1>6. applied \in Nat /\ applied # 0 /\ Len(Quantities) \in Nat \ {0}
    BY <1>0, <1>3, GroupEndsType, CalibrationAssumption
  <1>7. /\ row.event_count = applied /\ row.timestamp = instant /\ row.size = size
    OBVIOUS
  <1> HIDE DEF row
  <1>8. PICK l : l = Len(rows) /\ l \in Nat
    BY <1>4
  <1>9. /\ rows' \in Seq(Range(rows')) /\ Len(rows') = l + 1 /\ rows'[l + 1] = row
        /\ \A i \in 1 .. l : rows'[i] = rows[i]
    <2>1. Range(rows) \subseteq Range(rows) \cup {row} /\ row \in Range(rows) \cup {row}
      OBVIOUS
    <2>2. rows \in Seq(Range(rows) \cup {row})
      BY <1>4, <2>1
    <2>3. rows' \in Seq(Range(rows) \cup {row}) /\ Len(rows') = l + 1 /\ rows'[l + 1] = row
          /\ \A i \in 1 .. l : rows'[i] = rows[i]
      BY <1>0, <1>8, <2>2
    <2>4. DOMAIN rows' = 1 .. Len(rows') /\ \A i \in 1 .. Len(rows') : rows'[i] \in Range(rows')
      BY <2>3 DEF Range
    <2>5. rows' \in Seq(Range(rows'))
      <3>1. rows' = [i \in 1 .. Len(rows') |-> rows'[i]] /\ Len(rows') \in Nat
        BY <1>8, <2>3
      <3> QED BY <2>4, <3>1
    <2> QED BY <2>3, <2>5
  <1>10. l % Len(Quantities) = size - 1
    <2>1. PICK c \in Nat : SampledTo(applied - 1) = Len(Quantities) * c
      BY <1>0, <1>6, SampledAt
    <2>2. Len(Quantities) * c \in Int
      BY <1>6
    <2>3. l = Len(Quantities) * c + (size - 1) /\ size - 1 \in 0 .. Len(Quantities) - 1
      BY <1>3, <1>6, <1>8, <2>1, <2>2
    <2>4. c \in Int /\ l \in Int
      BY <1>8
    <2>5. PICK q \in Nat \ {0}, r \in Int : q = Len(Quantities) /\ r = size - 1
      BY <1>3, <1>6
    <2>6. l = q * c + r /\ r \in 0 .. q - 1
      BY <2>3, <2>5
    <2>7. l % q = r
      BY <2>4, <2>6, DivModIs
    <2> QED BY <2>5, <2>7
  <1>11. ASSUME NEW i \in 1 .. Len(rows')
         PROVE  /\ rows'[i].event_count \in GridPoints' /\ rows'[i].event_count <= applied'
                /\ rows'[i].timestamp = file'[rows'[i].event_count].timestamp
                /\ rows'[i].size = ((i - 1) % Len(Quantities)) + 1
                /\ i > 1 => IF rows'[i].size = 1
                            THEN rows'[i].event_count > rows'[i - 1].event_count
                            ELSE rows'[i].event_count = rows'[i - 1].event_count
    <2>1. CASE i \in 1 .. l
      <3>1. i > 1 => i - 1 \in 1 .. l
        BY <1>8, <2>1
      <3>2. rows'[i] = rows[i] /\ (i > 1 => rows'[i - 1] = rows[i - 1])
        BY <1>9, <2>1, <3>1
      <3> QED BY <1>0, <1>2, <1>4, <1>8, <2>1, <3>2
    <2>2. CASE i = l + 1
      <3>1. /\ rows'[i].event_count = applied /\ rows'[i].timestamp = instant /\ rows'[i].size = size
        BY <1>7, <1>9, <2>2
      <3>2. rows'[i].size = ((i - 1) % Len(Quantities)) + 1
        <4>1. i - 1 = l /\ size = (size - 1) + 1
          BY <1>3, <1>6, <1>8, <2>2
        <4> QED BY <1>10, <3>1, <4>1
      <3>3. i > 1 => i - 1 = l /\ rows # <<>> /\ rows'[i - 1] = rows[Len(rows)]
        BY <1>4, <1>8, <1>9, <2>2
      <3>4. rows # <<>> => rows[Len(rows)].event_count \in GridPoints
        BY <1>4, <1>8
      <3>5. \A n \in GridPoints : n \in Nat
        BY <1>0, GroupEndsType
      <3>6. i > 1 => IF rows'[i].size = 1
                     THEN rows'[i].event_count > rows'[i - 1].event_count
                     ELSE rows'[i].event_count = rows'[i - 1].event_count
        <4> SUFFICES ASSUME i > 1
                     PROVE  IF rows'[i].size = 1
                            THEN rows'[i].event_count > rows'[i - 1].event_count
                            ELSE rows'[i].event_count = rows'[i - 1].event_count
          OBVIOUS
        <4>1. PICK e \in Nat : e = rows[Len(rows)].event_count /\ rows'[i - 1].event_count = e
          BY <3>3, <3>4, <3>5
        <4>2. IF size > 1 THEN e = applied ELSE e < applied
          BY <1>5, <3>3, <4>1
        <4>3. size \in 1 .. Len(Quantities)
          BY <1>3
        <4>4. size # 1 <=> size > 1
          BY <1>6, <4>3
        <4>5. CASE size > 1
          BY <3>1, <4>1, <4>2, <4>4, <4>5
        <4>6. CASE size = 1
          <5>1. rows'[i].size = 1 /\ rows'[i].event_count = applied /\ rows'[i - 1].event_count = e
            BY <3>1, <4>1, <4>6
          <5>2. applied > e
            BY <1>6, <4>2, <4>6
          <5> QED BY <5>1, <5>2
        <4> QED BY <4>4, <4>5, <4>6, <1>6, <4>3
      <3> QED BY <1>0, <1>2, <1>3, <1>6, <3>1, <3>2, <3>6
    <2> QED BY <1>8, <1>9, <2>1, <2>2
  <1>12. rows' # <<>> /\ rows'[Len(rows')].event_count = applied
    BY <1>7, <1>8, <1>9
  <1>13. CASE size < Len(Quantities)
    <2>1. pc' = "quote" /\ size' \in 1 .. Len(Quantities) /\ size' > 1
      BY <1>0, <1>3, <1>6, <1>13
    <2>2. ClockInv'
      BY <1>0, <1>2, <1>3, <2>1 DEF ClockInv, AtSample
    <2>3. Len(rows') = SampledTo(applied - 1) + size' - 1
      <3>1. SampledTo(applied - 1) \in Nat
        BY <1>0, <1>6, SampledAt
      <3> QED BY <1>0, <1>3, <1>6, <1>8, <1>9, <3>1
    <2>4. CountInv'
      BY <1>0, <1>2, <2>1, <2>3 DEF CountInv, AtSample, SampledTo
    <2>5. RowsInv'
      BY <1>0, <1>9, <1>11, <1>12, <2>1 DEF RowsInv, AtSample
    <2> QED BY <1>0, <1>1, <1>2, <2>2, <2>4, <2>5 DEF GridInv, Unchanged
  <1>14. CASE ~ (size < Len(Quantities))
    <2>1. pc' = "loop" /\ size = Len(Quantities)
      BY <1>0, <1>3, <1>6, <1>14
    <2>2. ClockInv'
      BY <1>0, <1>2, <1>3, <2>1 DEF ClockInv, AtSample
    <2>3. Len(rows') = SampledTo(applied)
      <3>1. SampledTo(applied - 1) \in Nat /\ SampledTo(applied) = SampledTo(applied - 1) + Len(Quantities)
        BY <1>0, <1>3, <1>6, SampledAt
      <3> QED BY <1>3, <1>6, <1>8, <1>9, <2>1, <3>1
    <2>4. CountInv'
      BY <1>0, <1>2, <2>1, <2>3 DEF CountInv, AtSample, SampledTo
    <2>5. RowsInv'
      BY <1>0, <1>9, <1>11, <2>1 DEF RowsInv, AtSample
    <2> QED BY <1>0, <1>1, <1>2, <2>2, <2>4, <2>5 DEF GridInv, Unchanged
  <1> QED BY <1>13, <1>14

\* At the end of the file everything was sampled.
LEMMA FinishKeepsGrid ==
    ASSUME GridInv, Finish
    PROVE  GridInv'
  <1>0. /\ file \in Seq(BookUpdate) /\ Unchanged /\ config.duration \in Nat /\ file' = file
        /\ applied \in {0} \cup GroupEnds /\ pc = "loop" /\ applied' = applied /\ instant' = instant
        /\ position \in {0} \cup GroupEnds /\ pending \in Seq(Seq(BookUpdate))
        /\ position' = position /\ pending' = pending /\ threshold' = threshold /\ rows' = rows
        /\ pending = <<>> /\ ~ MoreGroups /\ pc' \in {"raised", "returned"}
    BY DEF GridInv, Finish, Unchanged
  <1>1. PendingInv'
    BY <1>0, SamePending DEF GridInv
  <1>2. GroupEnds' = GroupEnds /\ GridPoints' = GridPoints
    BY <1>0, SameDay
  <1>3. /\ rows' \in Seq(Range(rows'))
        /\ \A i \in 1 .. Len(rows') :
              /\ rows'[i].event_count \in GridPoints' /\ rows'[i].event_count <= applied
              /\ rows'[i].timestamp = file'[rows'[i].event_count].timestamp
              /\ rows'[i].size = ((i - 1) % Len(Quantities)) + 1
              /\ i > 1 => IF rows'[i].size = 1
                          THEN rows'[i].event_count > rows'[i - 1].event_count
                          ELSE rows'[i].event_count = rows'[i - 1].event_count
    BY <1>0, SameRows
  <1>4. Len(rows) = SampledTo(applied) /\ (applied # 0 => instant = file[applied].timestamp)
    BY <1>0 DEF GridInv, ClockInv, CountInv
  <1>5. applied = Len(file)
    <2>1. Len(pending) = 0
      BY <1>0
    <2>2. applied = position
      BY <2>1 DEF GridInv, PendingInv
    <2> QED BY <1>0, <2>2, GroupEndsType DEF MoreGroups
  <1>6. PositionsTo(GridPoints, Len(file)) = GridPoints
    <2>1. \A n \in GridPoints : n <= Len(file)
      BY <1>0, GroupEndsType
    <2> QED BY <2>1 DEF PositionsTo
  <1>7. Len(rows) = Cardinality(GridPoints) * Len(Quantities)
    BY <1>4, <1>5, <1>6 DEF SampledTo
  <1>8. ClockInv' /\ CountInv' /\ RowsInv'
    BY <1>0, <1>2, <1>3, <1>4, <1>7 DEF ClockInv, CountInv, RowsInv, AtSample
  <1> QED BY <1>0, <1>1, <1>2, <1>8 DEF GridInv, Unchanged

(* The samples follow the grid: what was read ahead are the groups that    *)
(* come next, the threshold is the multiple after what was applied, and    *)
(* the rows so far are those of the grid points passed (sample_rows).      *)
THEOREM GridInvariant == CalibrationSpec => []GridInv
  <1>1. CalibrationInit => GridInv
    BY GridHoldsAtStart
  <1>2. ASSUME GridInv, [CalibrationNext]_calibrationVars PROVE GridInv'
    <2>1. CASE TakeGroup
      BY <1>2, <2>1, TakeGroupKeepsGrid
    <2>2. CASE Replay
      BY <1>2, <2>2, ReplayKeepsGrid
    <2>3. CASE LookAhead
      <3>1. position' \in GroupEnds /\ pending' \in Seq(Seq(BookUpdate)) /\ PendingInv'
        BY <1>2, <2>3, PendingGrows
      <3>2. AtSample /\ Unchanged /\ UNCHANGED <<applied, threshold, instant, size, rows, pc>>
        BY <2>3 DEF LookAhead, AtSample
      <3> QED BY <1>2, <3>1, <3>2, SamplingKeepsGrid
    <2>4. CASE LookedAhead \/ Quote \/ SlicedThrows \/ (pc = "slicing" /\ UNCHANGED
              <<file, config, position, pending, applied, threshold, instant, size, rows, pc>>)
      <3>1. /\ AtSample /\ Unchanged /\ UNCHANGED <<applied, threshold, instant, size, rows>>
            /\ position' = position /\ pending' = pending
            /\ pc' = pc \/ pc' \in {"quote", "slicing", "raised"}
        BY <2>4 DEF LookedAhead, Quote, SlicedThrows, AtSample, Unchanged
      <3>2. PendingInv'
        BY <1>2, <3>1, SamePending DEF GridInv
      <3>3. position' \in {0} \cup GroupEnds /\ pending' \in Seq(Seq(BookUpdate))
        BY <1>2, <3>1 DEF GridInv
      <3> QED BY <1>2, <3>1, <3>2, <3>3, SamplingKeepsGrid
    <2>5. CASE Record
      BY <1>2, <2>5, RecordKeepsGrid
    <2>6. CASE Finish
      BY <1>2, <2>6, FinishKeepsGrid
    <2>7. CASE UNCHANGED calibrationVars
      <3>1. /\ Unchanged /\ file' = file /\ config' = config /\ position' = position
            /\ pending' = pending /\ applied' = applied /\ threshold' = threshold
            /\ instant' = instant /\ size' = size /\ rows' = rows /\ pc' = pc
        BY <2>7 DEF calibrationVars, Unchanged
      <3>2. GroupEnds' = GroupEnds /\ GridPoints' = GridPoints /\ NextThreshold' = NextThreshold
        BY <3>1, SameDay DEF NextThreshold
      <3>3. PendingInv'
        BY <1>2, <3>1, SamePending DEF GridInv
      <3>4. SpansGridPoint(applied)' <=> SpansGridPoint(applied)
        <4>1. \A n : Before(n)' = Before(n)
          BY <3>2 DEF Before
        <4> QED BY <3>1, <3>2, <4>1 DEF SpansGridPoint, Before
      <3>5. ClockInv'
        BY <1>2, <3>1, <3>2, <3>4 DEF GridInv, ClockInv, AtSample
      <3>6. CountInv'
        BY <1>2, <3>1, <3>2 DEF GridInv, CountInv, AtSample, SampledTo
      <3>7. RowsInv'
        BY <1>2, <3>1, <3>2 DEF GridInv, RowsInv, AtSample
      <3> QED BY <1>2, <3>1, <3>2, <3>3, <3>5, <3>6, <3>7 DEF GridInv
    <2> QED BY <1>2, <2>1, <2>2, <2>3, <2>4, <2>5, <2>6, <2>7 DEF CalibrationNext
  <1> QED BY <1>1, <1>2, PTL DEF CalibrationSpec

(* Every grid point of the day is sampled once, with every size, in order, *)
(* and no other instant is, whatever the day's events, the sizes and the   *)
(* slices, and however far the schedule reads ahead (sample_rows).         *)
THEOREM GridIsAlwaysSampled == CalibrationSpec => []GridIsSampled
  <1>1. GridInv => GridIsSampled
    BY DEF GridInv, RowsInv, CountInv, GridIsSampled
  <1> QED BY <1>1, GridInvariant, PTL

(***************************************************************************)
(* Folds: sums, books and replays, from the left, one element at a time.   *)
(***************************************************************************)

\* What each of the three does with one more element.
Folded(kind, x, y) ==
    CASE kind = "sum"    -> x + y
      [] kind = "replay" -> IF x.error # NoError THEN x
                            ELSE [replayer |-> AfterApply(x.replayer, y), error |-> ErrorOf(x.replayer, y)]
      [] OTHER           -> AppliedBook(x, kind, y.price, y.quantity)

\* The equation a fold over sets of positions is to satisfy.
IsFoldOf(kind, g, base, elements, n) ==
    g = [T \in SUBSET (1 .. n) |->
           IF T = {} THEN base ELSE Folded(kind, g[T \ {Max(T)}], elements[Max(T)])]

LEMMA FoldOfExists ==
    ASSUME NEW kind, NEW base, NEW elements, NEW n \in Nat
    PROVE  \E g : IsFoldOf(kind, g, base, elements, n)
  <1> DEFINE S == {m \in 0 .. n : \E g : IsFoldOf(kind, g, base, elements, m)}
  <1>1. 0 \in S
    <2> DEFINE g == [R \in SUBSET (1 .. 0) |-> base]
    <2>1. \A R \in SUBSET (1 .. 0) : R = {}
      OBVIOUS
    <2>2. IsFoldOf(kind, g, base, elements, 0)
      BY <2>1 DEF IsFoldOf
    <2> QED BY <2>2
  <1>2. ASSUME NEW m \in 0 .. n - 1, m \in S PROVE m + 1 \in S
    <2>0. PICK g : IsFoldOf(kind, g, base, elements, m)
      BY <1>2
    <2> DEFINE h == [R \in SUBSET (1 .. m + 1) |->
                       IF m + 1 \in R THEN Folded(kind, g[R \ {m + 1}], elements[m + 1]) ELSE g[R]]
    <2>1. \A R \in SUBSET (1 .. m) :
             g[R] = IF R = {} THEN base ELSE Folded(kind, g[R \ {Max(R)}], elements[Max(R)])
      BY <2>0, Zenon DEF IsFoldOf
    <2>2. \A R \in SUBSET (1 .. m) : R \in SUBSET (1 .. m + 1) /\ m + 1 \notin R
      OBVIOUS
    <2>3. \A R \in SUBSET (1 .. m) : h[R] = g[R]
      BY <2>2
    <2>4. ASSUME NEW R \in SUBSET (1 .. m + 1)
          PROVE  h[R] = IF R = {} THEN base
                        ELSE Folded(kind, h[R \ {Max(R)}], elements[Max(R)])
      <3>1. CASE m + 1 \in R
        <4>1. R \ {m + 1} \in SUBSET (1 .. m)
          OBVIOUS
        <4>2. Max(R) = m + 1
          <5>1. R \in SUBSET Int /\ \A k \in R : k <= m + 1
            OBVIOUS
          <5> QED BY <3>1, <5>1, MaxIs
        <4>3. h[R] = Folded(kind, g[R \ {m + 1}], elements[m + 1])
          BY <3>1
        <4>4. h[R \ {m + 1}] = g[R \ {m + 1}]
          BY <2>3, <4>1
        <4> HIDE DEF h
        <4> QED BY <3>1, <4>2, <4>3, <4>4
      <3>2. CASE m + 1 \notin R
        <4>1. R \in SUBSET (1 .. m)
          BY <3>2
        <4>2. h[R] = g[R]
          BY <2>3, <4>1
        <4>3. R \ {Max(R)} \in SUBSET (1 .. m)
          BY <4>1
        <4>4. h[R \ {Max(R)}] = g[R \ {Max(R)}]
          BY <2>3, <4>3
        <4> HIDE DEF h
        <4> QED BY <2>1, <4>1, <4>2, <4>4
      <3> QED BY <3>1, <3>2
    <2>5. DOMAIN h = SUBSET (1 .. m + 1) /\ h = [R \in DOMAIN h |-> h[R]]
      OBVIOUS
    <2> HIDE DEF h
    <2>6. IsFoldOf(kind, h, base, elements, m + 1)
      BY <2>4, <2>5 DEF IsFoldOf
    <2>7. m + 1 \in 0 .. n
      OBVIOUS
    <2> QED BY <2>6, <2>7
  <1>3. \A m \in 0 .. n : m \in S
    <2> HIDE DEF S
    <2> QED BY <1>1, <1>2, StepByStep
  <1>4. n \in S
    BY <1>3
  <1> QED BY <1>4

LEMMA FoldOfStep ==
    ASSUME NEW kind, NEW g, NEW base, NEW elements, NEW n \in Nat,
           IsFoldOf(kind, g, base, elements, n)
    PROVE  /\ g[1 .. 0] = base
           /\ \A k \in 0 .. n - 1 : g[1 .. k + 1] = Folded(kind, g[1 .. k], elements[k + 1])
  <1>1. \A T \in SUBSET (1 .. n) :
           g[T] = IF T = {} THEN base ELSE Folded(kind, g[T \ {Max(T)}], elements[Max(T)])
    BY Zenon DEF IsFoldOf
  <1>2. g[1 .. 0] = base
    <2>1. 1 .. 0 = {} /\ {} \in SUBSET (1 .. n)
      OBVIOUS
    <2> QED BY <1>1, <2>1, Zenon
  <1>3. ASSUME NEW k \in 0 .. n - 1
        PROVE  g[1 .. k + 1] = Folded(kind, g[1 .. k], elements[k + 1])
    <2>1. 1 .. k + 1 \in SUBSET (1 .. n) /\ 1 .. k + 1 # {} /\ (1 .. k + 1) \ {k + 1} = 1 .. k
      <3>1. 1 .. k + 1 \in SUBSET (1 .. n)
        OBVIOUS
      <3>2. k + 1 \in 1 .. k + 1
        OBVIOUS
      <3>3. \A i : i \in (1 .. k + 1) \ {k + 1} <=> i \in 1 .. k
        OBVIOUS
      <3> QED BY <3>1, <3>2, <3>3, Zenon
    <2>2. Max(1 .. k + 1) = k + 1
      <3>1. 1 .. k + 1 \in SUBSET Int /\ k + 1 \in 1 .. k + 1 /\ \A i \in 1 .. k + 1 : i <= k + 1
        OBVIOUS
      <3> QED BY <3>1, MaxIs
    <2> QED BY <1>1, <2>1, <2>2, Zenon
  <1> QED BY <1>2, <1>3

LEMMA TotalIs ==
    ASSUME NEW n \in Nat, NEW quantities, DOMAIN quantities = 1 .. n
    PROVE  \E g : IsFoldOf("sum", g, 0, quantities, n) /\ Total(quantities) = g[1 .. n]
  <1> DEFINE G == CHOOSE g : g = [T \in SUBSET (1 .. n) |->
                    IF T = {} THEN 0 ELSE g[T \ {Max(T)}] + quantities[Max(T)]]
  <1>1. Total(quantities) = G[1 .. n]
    BY Zenon DEF Total, FoldLeft, MapThenFoldSet
  <1>2. \A x, y : Folded("sum", x, y) = x + y
    BY DEF Folded
  <1>3. IsFoldOf("sum", G, 0, quantities, n)
    <2>1. PICK g : IsFoldOf("sum", g, 0, quantities, n)
      BY FoldOfExists, Zenon
    <2>2. g = [T \in SUBSET (1 .. n) |-> IF T = {} THEN 0 ELSE g[T \ {Max(T)}] + quantities[Max(T)]]
      BY <1>2, <2>1 DEF IsFoldOf
    <2>3. G = [T \in SUBSET (1 .. n) |-> IF T = {} THEN 0 ELSE G[T \ {Max(T)}] + quantities[Max(T)]]
      BY <2>2, Zenon
    <2> HIDE DEF G
    <2> QED BY <1>2, <2>3 DEF IsFoldOf
  <1> HIDE DEF G
  <1> QED BY <1>1, <1>3

LEMMA ReplayedIs ==
    ASSUME NEW n \in Nat, NEW batch, DOMAIN batch = 1 .. n
    PROVE  \E g : /\ IsFoldOf("replay", g, [replayer |-> replayer, error |-> NoError], batch, n)
                  /\ Replayed(batch) = g[1 .. n]
  <1> DEFINE base == [replayer |-> replayer, error |-> NoError]
             Next(x, y) == IF x.error # NoError THEN x
                           ELSE [replayer |-> AfterApply(x.replayer, y), error |-> ErrorOf(x.replayer, y)]
             G == CHOOSE g : g = [T \in SUBSET (1 .. n) |->
                    IF T = {} THEN base ELSE Next(g[T \ {Max(T)}], batch[Max(T)])]
  <1>1. Replayed(batch) = G[1 .. n]
    BY Zenon DEF Replayed, FoldLeft, MapThenFoldSet
  <1>2. \A x, y : Folded("replay", x, y) = Next(x, y)
    BY DEF Folded
  <1> HIDE DEF Next, base
  <1>3. IsFoldOf("replay", G, base, batch, n)
    <2>1. PICK g : IsFoldOf("replay", g, base, batch, n)
      BY FoldOfExists, Zenon
    <2>2. g = [T \in SUBSET (1 .. n) |-> IF T = {} THEN base ELSE Next(g[T \ {Max(T)}], batch[Max(T)])]
      BY <1>2, <2>1 DEF IsFoldOf
    <2>3. G = [T \in SUBSET (1 .. n) |-> IF T = {} THEN base ELSE Next(G[T \ {Max(T)}], batch[Max(T)])]
      BY <2>2, Zenon
    <2> HIDE DEF G
    <2> QED BY <1>2, <2>3 DEF IsFoldOf
  <1> HIDE DEF G
  <1> QED BY <1>1, <1>3 DEF base

\* What is left of the levels a fill touched.
LeftOf(book, side, fill) ==
    [i \in DOMAIN fill.takes |-> Level(fill.takes[i].price,
                                       book[side][i].quantity - fill.takes[i].quantity)]

LEMMA DepletedIs ==
    ASSUME NEW book, NEW order_side, NEW fill, NEW n \in Nat, DOMAIN fill.takes = 1 .. n,
           NEW side \in Side, side = ConsumedSide(order_side)
    PROVE  \E g : /\ IsFoldOf(side, g, book, LeftOf(book, side, fill), n)
                  /\ Depleted(book, order_side, fill) = g[1 .. n]
  <1> DEFINE left == LeftOf(book, side, fill)
             G == CHOOSE g : g = [T \in SUBSET (1 .. n) |->
                    IF T = {} THEN book
                    ELSE AppliedBook(g[T \ {Max(T)}], side, left[Max(T)].price, left[Max(T)].quantity)]
  <1>1. DOMAIN left = 1 .. n
    BY DEF LeftOf
  <1>2. Depleted(book, order_side, fill)
           = FoldLeft(LAMBDA b, level : AppliedBook(b, side, level.price, level.quantity), book, left)
    BY DEF Depleted, LeftOf
  <1> HIDE DEF left
  <1>3. FoldLeft(LAMBDA b, level : AppliedBook(b, side, level.price, level.quantity), book, left) = G[1 .. n]
    BY <1>1, Zenon DEF FoldLeft, MapThenFoldSet
  <1>4. \A x, y : Folded(side, x, y) = AppliedBook(x, side, y.price, y.quantity)
    BY DEF Folded, Side
  <1>5. IsFoldOf(side, G, book, left, n)
    <2>1. PICK g : IsFoldOf(side, g, book, left, n)
      BY FoldOfExists, Zenon
    <2>2. g = [T \in SUBSET (1 .. n) |->
                 IF T = {} THEN book
                 ELSE AppliedBook(g[T \ {Max(T)}], side, left[Max(T)].price, left[Max(T)].quantity)]
      BY <1>4, <2>1 DEF IsFoldOf
    <2>3. G = [T \in SUBSET (1 .. n) |->
                 IF T = {} THEN book
                 ELSE AppliedBook(G[T \ {Max(T)}], side, left[Max(T)].price, left[Max(T)].quantity)]
      BY <2>2, Zenon
    <2> HIDE DEF G
    <2>4. \A T \in SUBSET (1 .. n) :
             (IF T = {} THEN book
              ELSE AppliedBook(G[T \ {Max(T)}], side, left[Max(T)].price, left[Max(T)].quantity))
                = (IF T = {} THEN book ELSE Folded(side, G[T \ {Max(T)}], left[Max(T)]))
      BY <1>4, Zenon
    <2> QED BY <2>3, <2>4, Zenon DEF IsFoldOf
  <1> HIDE DEF G
  <1> QED BY <1>2, <1>3, <1>5 DEF left

\* The sums of the first 0, 1, ... quantities.
AreSums(sums, quantities, n) ==
    /\ sums \in [0 .. n -> Int] /\ sums[0] = 0
    /\ \A k \in 0 .. n - 1 : sums[k + 1] = sums[k] + quantities[k + 1]

LEMMA SumsExist ==
    ASSUME NEW n \in Nat, NEW quantities, DOMAIN quantities = 1 .. n,
           \A i \in 1 .. n : quantities[i] \in Int
    PROVE  \E sums : AreSums(sums, quantities, n) /\ Total(quantities) = sums[n]
  <1>1. PICK g : IsFoldOf("sum", g, 0, quantities, n) /\ Total(quantities) = g[1 .. n]
    BY TotalIs
  <1>2. g[1 .. 0] = 0 /\ \A k \in 0 .. n - 1 : g[1 .. k + 1] = g[1 .. k] + quantities[k + 1]
    <2>1. \A x, y : Folded("sum", x, y) = x + y
      BY DEF Folded
    <2>2. g[1 .. 0] = 0 /\ \A k \in 0 .. n - 1 : g[1 .. k + 1] = Folded("sum", g[1 .. k], quantities[k + 1])
      BY <1>1, FoldOfStep
    <2> QED BY <2>1, <2>2, Zenon
  <1> DEFINE sums == [k \in 0 .. n |-> g[1 .. k]]
             S == {k \in 0 .. n : sums[k] \in Int}
  <1>3. \A k \in 0 .. n : sums[k] = g[1 .. k]
    OBVIOUS
  <1>4. sums[0] = 0 /\ \A k \in 0 .. n - 1 : sums[k + 1] = sums[k] + quantities[k + 1]
    <2>1. \A k \in 0 .. n - 1 : k \in 0 .. n /\ k + 1 \in 0 .. n
      OBVIOUS
    <2>2. 0 \in 0 .. n
      OBVIOUS
    <2> HIDE DEF sums
    <2> QED BY <1>2, <1>3, <2>1, <2>2, Zenon
  <1>5. DOMAIN sums = 0 .. n /\ sums = [k \in 0 .. n |-> sums[k]]
    OBVIOUS
  <1>6. Total(quantities) = sums[n]
    BY <1>1
  <1> HIDE DEF sums
  <1>7. \A k \in 0 .. n : k \in S
    <2>1. 0 \in S
      BY <1>4
    <2>2. \A k \in 0 .. n - 1 : k \in S => k + 1 \in S
      BY <1>4
    <2> HIDE DEF S
    <2> QED BY <2>1, <2>2, StepByStep
  <1>8. AreSums(sums, quantities, n)
    BY <1>4, <1>5, <1>7 DEF AreSums
  <1> QED BY <1>6, <1>8

LEMMA SumsAgree ==
    ASSUME NEW n \in Nat, NEW a, NEW s, AreSums(s, a, n),
           NEW m \in Nat, NEW b, NEW t, AreSums(t, b, m),
           NEW k \in Nat, k <= n, k <= m, \A i \in 1 .. k : a[i] = b[i]
    PROVE  s[k] = t[k]
  <1> DEFINE S == {i \in 0 .. k : s[i] = t[i]}
  <1>1. 0 \in S
    BY DEF AreSums
  <1>2. ASSUME NEW i \in 0 .. k - 1, i \in S PROVE i + 1 \in S
    <2>1. i \in 0 .. n - 1 /\ i \in 0 .. m - 1 /\ i + 1 \in 1 .. k /\ i + 1 \in 0 .. k
      OBVIOUS
    <2>2. s[i + 1] = s[i] + a[i + 1] /\ t[i + 1] = t[i] + b[i + 1] /\ a[i + 1] = b[i + 1]
      BY <2>1 DEF AreSums
    <2> QED BY <1>2, <2>1, <2>2
  <1>3. \A i \in 0 .. k : i \in S
    <2> HIDE DEF S
    <2> QED BY <1>1, <1>2, StepByStep
  <1>4. k \in 0 .. k
    OBVIOUS
  <1> QED BY <1>3, <1>4

\* A sum is 0 to begin with and grows by what is added.
LEMMA TotalFacts ==
    ASSUME NEW n \in Nat, NEW quantities, DOMAIN quantities = 1 .. n,
           \A i \in 1 .. n : quantities[i] \in Int
    PROVE  /\ Total(quantities) \in Int
           /\ n = 0 => Total(quantities) = 0
  <1>1. PICK s : AreSums(s, quantities, n) /\ Total(quantities) = s[n]
    BY SumsExist
  <1>2. n \in 0 .. n
    OBVIOUS
  <1> QED BY <1>1, <1>2 DEF AreSums

LEMMA TotalOfOneMore ==
    ASSUME NEW n \in Nat, NEW a, DOMAIN a = 1 .. n, \A i \in 1 .. n : a[i] \in Int,
           NEW b, DOMAIN b = 1 .. n + 1, \A i \in 1 .. n : b[i] = a[i], b[n + 1] \in Int
    PROVE  Total(b) = Total(a) + b[n + 1]
  <1>1. PICK s : AreSums(s, a, n) /\ Total(a) = s[n]
    BY SumsExist
  <1>2. \A i \in 1 .. n + 1 : b[i] \in Int
    <2>1. \A i \in 1 .. n + 1 : i \in 1 .. n \/ i = n + 1
      OBVIOUS
    <2> QED BY <2>1
  <1>3. PICK t : AreSums(t, b, n + 1) /\ Total(b) = t[n + 1]
    BY <1>2, SumsExist, n + 1 \in Nat
  <1>4. s[n] = t[n]
    BY <1>1, <1>3, SumsAgree, n + 1 \in Nat, n <= n, n <= n + 1
  <1>5. t[n + 1] = t[n] + b[n + 1]
    BY <1>3, n \in 0 .. n + 1 - 1 DEF AreSums
  <1> QED BY <1>1, <1>3, <1>4, <1>5

\* Equal quantities have equal sums.
LEMMA TotalIsOf ==
    ASSUME NEW n \in Nat, NEW a, DOMAIN a = 1 .. n, \A i \in 1 .. n : a[i] \in Int,
           NEW b, DOMAIN b = 1 .. n, \A i \in 1 .. n : b[i] = a[i]
    PROVE  Total(b) = Total(a)
  <1>1. PICK s : AreSums(s, a, n) /\ Total(a) = s[n]
    BY SumsExist
  <1>2. PICK t : AreSums(t, b, n) /\ Total(b) = t[n]
    BY SumsExist
  <1> QED BY <1>1, <1>2, SumsAgree, n <= n

(***************************************************************************)
(* Walks over a book.                                                      *)
(***************************************************************************)

\* Levels best first, none empty, none free.
SoundBook(book) ==
    /\ book \in Books
    /\ \A side \in Side : /\ Sorted(book[side], side)
                          /\ \A i \in 1 .. Len(book[side]) : book[side][i].price > 0

SoundReplayer(r) == r \in Replayers /\ SoundBook(r.book)

LEMMA SoundLevels ==
    ASSUME NEW book, SoundBook(book), NEW side \in Side
    PROVE  /\ book[side] \in Seq(Levels) /\ Sorted(book[side], side) /\ Len(book[side]) \in Nat
           /\ \A i \in 1 .. Len(book[side]) :
                 /\ book[side][i].price \in Int /\ book[side][i].price > 0
                 /\ book[side][i].quantity \in Int /\ book[side][i].quantity > 0
  <1>1. book[side] \in Seq(Levels) /\ Sorted(book[side], side)
    BY DEF SoundBook, Books
  <1>2. Len(book[side]) \in Nat /\ \A i \in 1 .. Len(book[side]) : book[side][i] \in Levels
    BY <1>1
  <1>3. \A l \in Levels : l.price \in Int /\ l.quantity \in Int
    BY DEF Levels
  <1> QED BY <1>1, <1>2, <1>3 DEF SoundBook, Sorted

LEMMA SoundAfterApplied ==
    ASSUME NEW book, SoundBook(book), NEW side \in Side, NEW price \in Int, price > 0, NEW quantity \in Nat
    PROVE  SoundBook(AppliedBook(book, side, price, quantity))
  <1> DEFINE new == AppliedLevels(book[side], side, price, quantity)
             after == AppliedBook(book, side, price, quantity)
  <1>1. book[side] \in Seq(Levels) /\ Sorted(book[side], side)
    BY SoundLevels
  <1>2. /\ new \in Seq(Levels) /\ Sorted(new, side)
        /\ \A p, q : Holds(new, p, q) <=>
              IF p = price THEN q = quantity /\ quantity # 0 ELSE Holds(book[side], p, q)
    BY <1>1, AppliedLevelsFacts
  <1>3. after = [book EXCEPT ![side] = new]
    BY DEF AppliedBook
  <1> HIDE DEF new, after
  <1>4. after \in Books /\ after[side] = new /\ \A s \in Side : s # side => after[s] = book[s]
    BY <1>2, <1>3 DEF SoundBook, Books
  <1>5. ASSUME NEW i \in 1 .. Len(new) PROVE new[i].price > 0
    <2>1. Holds(new, new[i].price, new[i].quantity)
      BY DEF Holds
    <2>2. CASE new[i].price = price
      BY <2>2
    <2>3. CASE new[i].price # price
      <3>1. Holds(book[side], new[i].price, new[i].quantity)
        BY <1>2, <2>1, <2>3, Zenon
      <3>2. PICK j \in 1 .. Len(book[side]) : book[side][j].price = new[i].price
        BY <3>1 DEF Holds
      <3>3. book[side][j].price > 0
        BY SoundLevels
      <3> QED BY <3>2, <3>3
    <2> QED BY <2>2, <2>3
  <1>6. ASSUME NEW s \in Side
        PROVE  /\ Sorted(after[s], s)
               /\ \A i \in 1 .. Len(after[s]) : after[s][i].price > 0
    <2>1. CASE s = side
      BY <1>2, <1>4, <1>5, <2>1
    <2>2. CASE s # side
      BY <1>4, <2>2 DEF SoundBook
    <2> QED BY <2>1, <2>2
  <1> QED BY <1>4, <1>6 DEF SoundBook, after

LEMMA SoundAfterApply ==
    ASSUME NEW r, SoundReplayer(r), NEW row \in BookUpdate
    PROVE  SoundReplayer(AfterApply(r, row))
  <1>1. r \in Replayers /\ SoundBook(r.book) /\ \A side \in Side : Sorted(r.book[side], side)
    BY DEF SoundReplayer, SoundBook
  <1>2. \A side \in Side : \A i \in 1 .. Len(r.book[side]) : r.book[side][i].price > 0
    BY <1>1 DEF SoundBook
  <1>3. ASSUME NEW new, new \in Replayers, \A side \in Side : Sorted(new.book[side], side),
               \A side \in Side : \A p, q :
                  Holds(new.book[side], p, q) => Holds(r.book[side], p, q) \/ p > 0
        PROVE  SoundReplayer(new)
    <2>1. ASSUME NEW side \in Side, NEW i \in 1 .. Len(new.book[side])
          PROVE  new.book[side][i].price > 0
      <3>1. Holds(new.book[side], new.book[side][i].price, new.book[side][i].quantity)
        BY DEF Holds
      <3>2. CASE Holds(r.book[side], new.book[side][i].price, new.book[side][i].quantity)
        <4>1. PICK j \in 1 .. Len(r.book[side]) : r.book[side][j].price = new.book[side][i].price
          BY <3>2 DEF Holds
        <4> QED BY <1>2, <4>1
      <3> QED BY <1>3, <3>1, <3>2
    <2>2. new.book \in Books
      BY <1>3 DEF Replayers
    <2> QED BY <1>3, <2>1, <2>2 DEF SoundReplayer, SoundBook
  <1>4. CASE ErrorOf(r, row) = NoError
    <2>1. /\ Applied(r, row) \in Replayers
          /\ \A side \in Side : Sorted(Applied(r, row).book[side], side)
          /\ \A side \in Side : \A p, q :
                Holds(Applied(r, row).book[side], p, q)
                   <=> IF row.side = side /\ row.price = p
                       THEN q # 0 /\ row.quantity = q
                       ELSE ~ Resyncs(r, row) /\ Holds(r.book[side], p, q)
      BY <1>1, <1>4, AppliedFacts
    <2>2. row.price > 0
      BY <1>4 DEF ErrorOf, NoError, ValidLevel
    <2>3. \A side \in Side : \A p, q :
             Holds(Applied(r, row).book[side], p, q) => Holds(r.book[side], p, q) \/ p > 0
      BY <2>1, <2>2
    <2>4. SoundReplayer(Applied(r, row))
      BY <1>3, <2>1, <2>3
    <2> QED BY <1>4, <2>4 DEF AfterApply
  <1>5. CASE ErrorOf(r, row) # NoError
    <2>1. /\ Resynced(r, row) \in Replayers
          /\ \A side \in Side : Sorted(Resynced(r, row).book[side], side)
          /\ \A side \in Side : \A p, q :
                Holds(Resynced(r, row).book[side], p, q) <=> ~ Resyncs(r, row) /\ Holds(r.book[side], p, q)
      BY <1>1, ResyncedFacts
    <2>2. SoundReplayer(Resynced(r, row))
      BY <1>3, <2>1
    <2> QED BY <1>5, <2>2 DEF AfterApply, AfterError
  <1> QED BY <1>4, <1>5

LEMMA SoundNew == SoundReplayer(NewReplayer)
  <1>1. EmptyBook \in Books /\ \A side \in Side : EmptyBook[side] = <<>>
    BY DEF EmptyBook, Books
  <1>2. NewReplayer \in Replayers /\ NewReplayer.book = EmptyBook
    BY <1>1 DEF NewReplayer, Replayers
  <1>3. SoundBook(EmptyBook)
    BY <1>1 DEF SoundBook, Sorted
  <1> QED BY <1>2, <1>3 DEF SoundReplayer

\* A batch is replayed row by row.
LEMMA SoundAfterBatch ==
    ASSUME SoundReplayer(replayer), NEW batch \in Seq(BookUpdate)
    PROVE  SoundReplayer(Replayed(batch).replayer)
  <1>1. PICK n \in Nat : n = Len(batch) /\ DOMAIN batch = 1 .. n /\ \A i \in 1 .. n : batch[i] \in BookUpdate
    OBVIOUS
  <1>2. PICK g : /\ IsFoldOf("replay", g, [replayer |-> replayer, error |-> NoError], batch, n)
                 /\ Replayed(batch) = g[1 .. n]
    BY <1>1, ReplayedIs
  <1>3. /\ g[1 .. 0] = [replayer |-> replayer, error |-> NoError]
        /\ \A k \in 0 .. n - 1 : g[1 .. k + 1] = Folded("replay", g[1 .. k], batch[k + 1])
    BY <1>2, FoldOfStep
  <1> DEFINE S == {k \in 0 .. n : SoundReplayer(g[1 .. k].replayer)}
  <1>4. 0 \in S
    BY <1>3
  <1>5. ASSUME NEW k \in 0 .. n - 1, k \in S PROVE k + 1 \in S
    <2>1. batch[k + 1] \in BookUpdate /\ k + 1 \in 0 .. n
      BY <1>1
    <2>2. PICK x : x = g[1 .. k]
      OBVIOUS
    <2>3. SoundReplayer(AfterApply(x.replayer, batch[k + 1]))
      BY <1>5, <2>1, <2>2, SoundAfterApply
    <2>4. g[1 .. k + 1] = IF x.error # NoError THEN x
                          ELSE [replayer |-> AfterApply(x.replayer, batch[k + 1]),
                                error |-> ErrorOf(x.replayer, batch[k + 1])]
      BY <1>3, <2>2 DEF Folded
    <2>5. SoundReplayer(g[1 .. k + 1].replayer)
      BY <1>5, <2>2, <2>3, <2>4
    <2> QED BY <2>1, <2>5
  <1>6. \A k \in 0 .. n : k \in S
    <2> HIDE DEF S
    <2> QED BY <1>4, <1>5, StepByStep
  <1>7. n \in 0 .. n
    OBVIOUS
  <1> QED BY <1>2, <1>6, <1>7

\* Sums of quantities that are not negative grow.
LEMMA SumsGrow ==
    ASSUME NEW n \in Nat, NEW a, NEW s, AreSums(s, a, n),
           \A i \in 1 .. n : a[i] \in Nat
    PROVE  \A i, j \in 0 .. n : i <= j => s[i] <= s[j]
  <1> SUFFICES ASSUME NEW i \in 0 .. n, NEW j \in 0 .. n, i <= j PROVE s[i] <= s[j]
    OBVIOUS
  <1> DEFINE S == {k \in 0 .. j - i : s[i] <= s[i + k]}
  <1>1. \A k \in 0 .. n : s[k] \in Int
    BY DEF AreSums
  <1>2. 0 \in S
    BY <1>1
  <1>3. ASSUME NEW k \in 0 .. (j - i) - 1, k \in S PROVE k + 1 \in S
    <2>1. i + k \in 0 .. n - 1 /\ (i + k) + 1 = i + (k + 1) /\ (i + k) + 1 \in 1 .. n
      OBVIOUS
    <2>2. s[(i + k) + 1] = s[i + k] + a[(i + k) + 1] /\ a[(i + k) + 1] \in Nat
      BY <2>1 DEF AreSums
    <2>3. s[i + k] \in Int /\ s[i] \in Int /\ s[i] <= s[i + k]
      BY <1>1, <1>3, <2>1
    <2>4. s[i] <= s[i + (k + 1)]
      BY <2>1, <2>2, <2>3
    <2> QED BY <2>4
  <1>4. \A k \in 0 .. j - i : k \in S
    <2>1. j - i \in Nat
      OBVIOUS
    <2> HIDE DEF S
    <2> QED BY <1>2, <1>3, <2>1, StepByStep
  <1>5. j - i \in 0 .. j - i /\ i + (j - i) = j
    OBVIOUS
  <1> QED BY <1>4, <1>5

\* A set of positions with no gap is a front of them.
LEMMA FrontOfPositions ==
    ASSUME NEW n \in Nat, NEW S \in SUBSET (1 .. n), \A m \in S : m = 1 \/ m - 1 \in S
    PROVE  Cardinality(S) \in 0 .. n /\ S = 1 .. Cardinality(S)
  <1> DEFINE T == {m \in 1 .. n + 1 : m \notin S}
  <1>1. PICK u \in T : \A m \in T : u <= m
    <2>1. T \in SUBSET Nat /\ n + 1 \in T
      OBVIOUS
    <2> HIDE DEF T
    <2> QED BY <2>1, LeastElement
  <1>2. u \in 1 .. n + 1 /\ u \notin S /\ \A m \in 1 .. u - 1 : m \in S
    BY <1>1
  <1>3. PICK t \in Nat : t = u - 1 /\ t <= n
    BY <1>2
  <1> HIDE DEF T
  <1> DEFINE R == {k \in 0 .. n - t : t + 1 + k \notin S}
  <1>4. 0 \in R
    BY <1>2, <1>3
  <1>5. ASSUME NEW k \in 0 .. (n - t) - 1, k \in R PROVE k + 1 \in R
    <2>1. k \in Nat /\ t + 1 + k \notin S /\ k + 1 \in 0 .. n - t
      BY <1>5
    <2>2. t + 1 + (k + 1) # 1 /\ (t + 1 + (k + 1)) - 1 = t + 1 + k
      BY <2>1
    <2>3. t + 1 + (k + 1) \notin S
      BY <2>1, <2>2, Zenon
    <2> QED BY <2>1, <2>3
  <1>6. \A k \in 0 .. n - t : k \in R
    <2>1. n - t \in Nat
      BY <1>3
    <2> HIDE DEF R
    <2> QED BY <1>4, <1>5, <2>1, StepByStep
  <1>7. \A m \in S : m <= t
    <2> SUFFICES ASSUME NEW m \in S, m > t PROVE FALSE
      OBVIOUS
    <2>1. m \in 1 .. n
      OBVIOUS
    <2>2. m - (t + 1) \in 0 .. n - t /\ t + 1 + (m - (t + 1)) = m
      BY <2>1
    <2> QED BY <1>6, <2>2
  <1>8. S = 1 .. t
    <2>1. \A m \in S : m \in 1 .. t
      BY <1>7
    <2>2. \A m \in 1 .. t : m \in S
      BY <1>2, <1>3
    <2> QED BY <2>1, <2>2
  <1>9. Cardinality(1 .. t) = t
    BY FS_Interval
  <1> QED BY <1>3, <1>8, <1>9

\* How deep the levels of one side are.
LEMMA DepthFacts ==
    ASSUME NEW levels, NEW n \in Nat, DOMAIN levels = 1 .. n,
           \A i \in 1 .. n : levels[i].quantity \in Int,
           NEW q, DOMAIN q = 1 .. n, \A i \in 1 .. n : q[i] = levels[i].quantity
    PROVE  \E D : AreSums(D, q, n) /\ \A k \in 0 .. n : Depth(levels, k) = D[k]
  <1>2. DOMAIN q = 1 .. n /\ \A i \in 1 .. n : q[i] \in Int /\ q[i] = levels[i].quantity
    OBVIOUS
  <1>3. PICK D : AreSums(D, q, n)
    BY <1>2, SumsExist
  <1>4. ASSUME NEW k \in 0 .. n PROVE Depth(levels, k) = D[k]
    <2>1. PICK p : p = [i \in 1 .. k |-> levels[i].quantity]
      OBVIOUS
    <2>2. k \in Nat /\ k <= n /\ DOMAIN p = 1 .. k /\ \A i \in 1 .. k : p[i] \in Int /\ p[i] = q[i]
      BY <1>2, <2>1
    <2>3. PICK s : AreSums(s, p, k) /\ Total(p) = s[k]
      BY <2>2, SumsExist
    <2>4. s[k] = D[k]
      BY <1>3, <2>2, <2>3, SumsAgree, k <= k
    <2> QED BY <2>1, <2>3, <2>4 DEF Depth
  <1> QED BY <1>3, <1>4

FillRecords ==
    [requested : Int, takes : Seq(Levels), bid_at_entry : Int, ask_at_entry : Int,
     crossed_at_entry : BOOLEAN, exhausted_book : BOOLEAN, beyond_validated_depth : BOOLEAN]

\* A fill of what there was, the best price first.
SoundFill(fill, side) ==
    /\ fill \in FillRecords
    /\ fill.requested > 0 /\ Filled(fill) \in 0 .. fill.requested
    /\ fill.exhausted_book <=> Filled(fill) # fill.requested
    /\ Notional(fill) \in Int
    /\ WorstPrice(fill) \in Nat /\ (WorstPrice(fill) = NoPrice <=> Filled(fill) = 0)
    /\ \A k \in DOMAIN fill.takes :
          /\ fill.takes[k].price > 0
          /\ ~ IsBetter(side, WorstPrice(fill), fill.takes[k].price)

\* How many levels an order touches.
LEMMA TouchedFacts ==
    ASSUME NEW levels, NEW n \in Nat, Len(levels) = n, NEW D, NEW q, AreSums(D, q, n),
           \A k \in 0 .. n : Depth(levels, k) = D[k],
           \A i \in 1 .. n : q[i] \in Nat,
           NEW quantity \in Nat \ {0}
    PROVE  LET t == Touched(levels, quantity)
           IN  /\ t \in 0 .. n /\ (t = 0 <=> n = 0)
               /\ \A i \in 1 .. t : D[i - 1] < quantity
               /\ t < n => D[t] >= quantity
  <1> DEFINE S == {m \in 1 .. n : Depth(levels, m - 1) < quantity}
  <1>1. \A k \in 0 .. n : D[k] \in Int
    BY DEF AreSums
  <1>2. \A m \in 1 .. n : m \in S <=> D[m - 1] < quantity
    <2>1. \A m \in 1 .. n : m - 1 \in 0 .. n
      OBVIOUS
    <2> QED BY <2>1
  <1>3. Touched(levels, quantity) = Cardinality(S)
    BY DEF Touched
  <1>4. S \in SUBSET (1 .. n)
    OBVIOUS
  <1> HIDE DEF S
  <1>5. \A m \in S : m = 1 \/ m - 1 \in S
    <2> SUFFICES ASSUME NEW m \in S, m # 1 PROVE m - 1 \in S
      OBVIOUS
    <2>1. m \in 2 .. n /\ m - 1 \in 1 .. n /\ m - 1 \in 0 .. n /\ (m - 1) - 1 \in 0 .. n
      BY <1>4
    <2>2. D[m - 1] < quantity
      BY <1>2, <1>4
    <2>3. D[(m - 1) - 1] <= D[m - 1]
      BY <2>1, SumsGrow
    <2>4. D[(m - 1) - 1] < quantity
      BY <1>1, <2>1, <2>2, <2>3
    <2> QED BY <1>2, <2>1, <2>4
  <1>6. Cardinality(S) \in 0 .. n /\ S = 1 .. Cardinality(S)
    BY <1>4, <1>5, FrontOfPositions
  <1>7. PICK t \in 0 .. n : t = Cardinality(S) /\ S = 1 .. t
    BY <1>6
  <1>7a. t \in Nat /\ t <= n
    OBVIOUS
  <1>7b. \A i : i \in S <=> i \in 1 .. t
    BY <1>7, Zenon
  <1>8. \A i \in 1 .. t : D[i - 1] < quantity
    <2>1. \A i \in 1 .. t : i \in 1 .. n /\ i \in S
      BY <1>7a, <1>7b
    <2> QED BY <1>2, <2>1
  <1>9. ASSUME t < n PROVE D[t] >= quantity
    <2>1. t + 1 \in 1 .. n /\ t + 1 \notin S /\ (t + 1) - 1 = t /\ t \in 0 .. n
      BY <1>7a, <1>7b, <1>9
    <2>2. ~ (D[t] < quantity)
      BY <1>2, <2>1
    <2> QED BY <1>1, <2>1, <2>2
  <1>10. t = 0 <=> n = 0
    <2>1. ASSUME n # 0 PROVE 1 \in S
      <3>1. 1 \in 1 .. n /\ D[0] = 0
        BY <2>1 DEF AreSums
      <3> QED BY <1>2, <3>1
    <2>2. ASSUME t = 0 PROVE n = 0
      <3>1. 1 \notin S
        BY <1>7b, <2>2
      <3> QED BY <2>1, <3>1
    <2> QED BY <1>7a, <2>2
  <1> QED BY <1>3, <1>7, <1>8, <1>9, <1>10

\* What a walk takes from the levels it touches.
LEMMA TakenFacts ==
    ASSUME NEW levels, NEW n \in Nat, Len(levels) = n, NEW D, NEW q, AreSums(D, q, n),
           \A k \in 0 .. n : Depth(levels, k) = D[k],
           \A i \in 1 .. n : q[i] \in Nat \ {0} /\ q[i] = levels[i].quantity,
           NEW quantity \in Nat \ {0}, NEW t \in 1 .. n,
           \A i \in 1 .. t : D[i - 1] < quantity,
           NEW taken, DOMAIN taken = 1 .. t,
           \A i \in 1 .. t : taken[i] = Taken(levels, quantity, i)
    PROVE  /\ \A i \in 1 .. t : taken[i] \in 1 .. levels[i].quantity
           /\ Total(taken) = IF D[t] <= quantity THEN D[t] ELSE quantity
  <1>1. \A k \in 0 .. n : D[k] \in Int
    BY DEF AreSums
  <1>2. \A i \in 1 .. t : /\ i \in 1 .. n /\ i - 1 \in 0 .. n - 1 /\ i - 1 \in 0 .. n
                          /\ i \in 0 .. n /\ (i - 1) + 1 = i
    OBVIOUS
  <1>3. ASSUME NEW i \in 1 .. t
        PROVE  /\ D[i] = D[i - 1] + q[i] /\ q[i] \in Nat \ {0} /\ q[i] = levels[i].quantity
               /\ D[i - 1] \in Int /\ D[i - 1] < quantity
               /\ taken[i] = IF quantity - D[i - 1] < q[i] THEN quantity - D[i - 1] ELSE q[i]
    <2>1. D[(i - 1) + 1] = D[i - 1] + q[(i - 1) + 1]
      BY <1>2 DEF AreSums
    <2>2. D[i] = D[i - 1] + q[i]
      BY <1>2, <2>1
    <2>3. Depth(levels, i - 1) = D[i - 1] /\ q[i] = levels[i].quantity /\ q[i] \in Nat \ {0}
      BY <1>2
    <2>4. taken[i] = Taken(levels, quantity, i)
      OBVIOUS
    <2>5. taken[i] = IF quantity - D[i - 1] < q[i] THEN quantity - D[i - 1] ELSE q[i]
      BY <2>3, <2>4 DEF Taken
    <2> QED BY <1>1, <1>2, <2>2, <2>3, <2>5
  <1>4. \A i \in 1 .. t : taken[i] \in Int /\ taken[i] \in 1 .. q[i] /\ taken[i] \in 1 .. levels[i].quantity
    <2> SUFFICES ASSUME NEW i \in 1 .. t
                 PROVE  taken[i] \in Int /\ taken[i] \in 1 .. q[i] /\ taken[i] \in 1 .. levels[i].quantity
      OBVIOUS
    <2>1. PICK a \in Int, b \in Nat \ {0} : a = D[i - 1] /\ b = q[i] /\ b = levels[i].quantity
      BY <1>3
    <2>2. taken[i] = (IF quantity - a < b THEN quantity - a ELSE b) /\ a < quantity
      BY <1>3, <2>1
    <2>3. taken[i] \in 1 .. b /\ taken[i] \in Int
      BY <2>2
    <2> QED BY <2>1, <2>3
  <1>5. DOMAIN taken = 1 .. t /\ t \in Nat
    OBVIOUS
  <1>6. PICK s : AreSums(s, taken, t) /\ Total(taken) = s[t]
    BY <1>4, <1>5, SumsExist
  <1> DEFINE Least(i) == IF D[i] <= quantity THEN D[i] ELSE quantity
             S == {k \in 0 .. t : s[k] = Least(k)}
  <1>7. 0 \in S
    BY <1>6 DEF AreSums
  <1>8. ASSUME NEW k \in 0 .. t - 1, k \in S PROVE k + 1 \in S
    <2>1. k + 1 \in 1 .. t /\ (k + 1) - 1 = k /\ k \in 0 .. n
      OBVIOUS
    <2>2. s[k + 1] = s[k] + taken[k + 1]
      BY <1>6 DEF AreSums
    <2>3. /\ D[k + 1] = D[k] + q[k + 1] /\ q[k + 1] \in Nat \ {0} /\ D[k] \in Int /\ D[k] < quantity
          /\ taken[k + 1] = IF quantity - D[k] < q[k + 1] THEN quantity - D[k] ELSE q[k + 1]
      BY <1>3, <2>1
    <2>4. s[k] = D[k]
      BY <1>8, <2>3
    <2>5. s[k + 1] = Least(k + 1)
      BY <2>2, <2>3, <2>4
    <2> HIDE DEF Least
    <2> QED BY <2>1, <2>5
  <1>9. \A k \in 0 .. t : k \in S
    <2> HIDE DEF S
    <2> QED BY <1>5, <1>7, <1>8, StepByStep
  <1>10. t \in 0 .. t
    OBVIOUS
  <1>11. s[t] = Least(t)
    <2> HIDE DEF Least
    <2> QED BY <1>9, <1>10
  <1> QED BY <1>4, <1>6, <1>11

\* A walk is a sound fill of the levels it touches.
LEMMA WalkFacts ==
    ASSUME NEW book, SoundBook(book), NEW order_side, NEW side \in Side,
           side = ConsumedSide(order_side), NEW quantity \in Nat \ {0},
           NEW fill, fill = Walk(book, order_side, quantity)
    PROVE  /\ SoundFill(fill, side) /\ fill.requested = quantity
           /\ Len(fill.takes) <= Len(book[side])
           /\ \A i \in 1 .. Len(fill.takes) :
                 /\ fill.takes[i].price = book[side][i].price
                 /\ fill.takes[i].quantity <= book[side][i].quantity
  <1>0. PICK levels : levels = book[side]
    OBVIOUS
  <1>1. PICK n \in Nat : n = Len(levels)
    BY <1>0, SoundLevels
  <1>2. /\ levels \in Seq(Levels) /\ DOMAIN levels = 1 .. n
        /\ \A i \in 1 .. n : /\ levels[i].price \in Int /\ levels[i].price > 0
                             /\ levels[i].quantity \in Nat \ {0}
    BY <1>0, <1>1, SoundLevels
  <1>3. \A i, j \in 1 .. n : i < j => IsBetter(side, levels[i].price, levels[j].price)
    BY <1>0, <1>1, SoundLevels DEF Sorted
  <1>4. \A s \in Side : BestPrice(book[s]) \in Int
    <2> SUFFICES ASSUME NEW s \in Side PROVE BestPrice(book[s]) \in Int
      OBVIOUS
    <2>1. book[s] \in Seq(Levels) /\ \A i \in 1 .. Len(book[s]) : book[s][i].price \in Int
      BY SoundLevels
    <2>2. CASE book[s] = <<>>
      BY <2>2 DEF BestPrice, NoPrice
    <2>3. CASE book[s] # <<>>
      <3>1. 1 \in 1 .. Len(book[s])
        BY <2>1, <2>3
      <3> QED BY <2>1, <2>3, <3>1 DEF BestPrice
    <2> QED BY <2>2, <2>3
  <1>5. IsCrossed(book) \in BOOLEAN
    BY DEF IsCrossed
  <1>6. PICK q : q = [i \in 1 .. n |-> levels[i].quantity]
    OBVIOUS
  <1>7. \A i \in 1 .. n : q[i] \in Nat \ {0} /\ q[i] = levels[i].quantity
    BY <1>2, <1>6
  <1>8. PICK D : AreSums(D, q, n) /\ \A k \in 0 .. n : Depth(levels, k) = D[k]
    <2>1. /\ DOMAIN q = 1 .. n /\ DOMAIN levels = 1 .. n
          /\ \A i \in 1 .. n : levels[i].quantity \in Int /\ q[i] = levels[i].quantity
      BY <1>2, <1>6
    <2> QED BY <2>1, DepthFacts
  <1>9. PICK t : t = Touched(levels, quantity)
    OBVIOUS
  <1>10. /\ t \in 0 .. n /\ (t = 0 <=> n = 0)
         /\ \A i \in 1 .. t : D[i - 1] < quantity
         /\ t < n => D[t] >= quantity
    <2>1. \A i \in 1 .. n : q[i] \in Nat
      BY <1>7
    <2> QED BY <1>1, <1>8, <1>9, <2>1, TouchedFacts
  <1>11. PICK taken : taken = [i \in 1 .. t |-> Taken(levels, quantity, i)]
    OBVIOUS
  <1>11a. DOMAIN taken = 1 .. t /\ \A i \in 1 .. t : taken[i] = Taken(levels, quantity, i)
    BY <1>11
  <1>12. fill = [requested |-> quantity,
                 takes |-> [i \in 1 .. t |-> Level(levels[i].price, taken[i])],
                 bid_at_entry |-> BestPrice(book["bid"]), ask_at_entry |-> BestPrice(book["ask"]),
                 crossed_at_entry |-> IsCrossed(book),
                 exhausted_book |-> Depth(levels, n) < quantity,
                 beyond_validated_depth |-> t > ValidatedDepth]
    <2>1. [i \in 1 .. t |-> Level(levels[i].price, taken[i])]
            = [i \in 1 .. t |-> Level(levels[i].price, Taken(levels, quantity, i))]
      BY <1>11
    <2> QED BY <1>0, <1>1, <1>9, <2>1, Zenon DEF Walk
  <1>13a. PICK bid \in Int : bid = BestPrice(book["bid"])
    BY <1>4 DEF Side
  <1>13b. PICK ask \in Int : ask = BestPrice(book["ask"])
    BY <1>4 DEF Side
  <1>13c. PICK crossed \in BOOLEAN : crossed = IsCrossed(book)
    BY <1>5
  <1>13d. PICK beyond \in BOOLEAN : beyond = (t > ValidatedDepth)
    <2>1. (t > ValidatedDepth) \in BOOLEAN
      OBVIOUS
    <2> QED BY <2>1, Zenon
  <1>13e. PICK exhausted \in BOOLEAN : exhausted = (D[n] < quantity)
    <2>1. (D[n] < quantity) \in BOOLEAN
      OBVIOUS
    <2> QED BY <2>1, Zenon
  <1>13f. exhausted = (Depth(levels, n) < quantity)
    <2>1. n \in 0 .. n
      OBVIOUS
    <2> QED BY <1>8, <1>13e, <2>1
  <1>13. fill = [requested |-> quantity,
                 takes |-> [i \in 1 .. t |-> Level(levels[i].price, taken[i])],
                 bid_at_entry |-> bid, ask_at_entry |-> ask, crossed_at_entry |-> crossed,
                 exhausted_book |-> exhausted, beyond_validated_depth |-> beyond]
    BY <1>12, <1>13a, <1>13b, <1>13c, <1>13d, <1>13f, Zenon
  <1>14. \A i \in 1 .. t : taken[i] \in Int /\ taken[i] > 0 /\ taken[i] <= levels[i].quantity
    <2>1. CASE t = 0
      BY <2>1
    <2>2. CASE t # 0
      <3>1. t \in 1 .. n
        BY <1>10, <2>2
      <3>2. \A i \in 1 .. t : taken[i] \in 1 .. levels[i].quantity /\ i \in 1 .. n
        <4>1. /\ \A i \in 1 .. t : taken[i] \in 1 .. levels[i].quantity
              /\ Total(taken) = IF D[t] <= quantity THEN D[t] ELSE quantity
          BY <1>1, <1>7, <1>8, <1>10, <1>11a, <3>1, TakenFacts
        <4> QED BY <3>1, <4>1
      <3> QED BY <1>2, <3>2
    <2> QED BY <2>1, <2>2
  <1>15. PICK takes : takes = [i \in 1 .. t |-> Level(levels[i].price, taken[i])]
    OBVIOUS
  <1>16. /\ takes \in Seq(Levels) /\ Len(takes) = t /\ DOMAIN takes = 1 .. t
         /\ \A i \in 1 .. t : takes[i].price = levels[i].price /\ takes[i].quantity = taken[i]
    <2>1. \A i \in 1 .. t : Level(levels[i].price, taken[i]) \in Levels
      <3>1. \A i \in 1 .. t : i \in 1 .. n
        BY <1>10
      <3> QED BY <1>2, <1>14, <3>1 DEF Level, Levels
    <2>2. t \in Nat
      BY <1>10
    <2> QED BY <1>15, <2>1, <2>2 DEF Level
  <1>17. /\ fill \in FillRecords /\ fill.takes = takes /\ fill.requested = quantity
         /\ fill.exhausted_book <=> D[n] < quantity
    <2>1. fill = [requested |-> quantity, takes |-> takes, bid_at_entry |-> bid, ask_at_entry |-> ask,
                  crossed_at_entry |-> crossed, exhausted_book |-> exhausted,
                  beyond_validated_depth |-> beyond]
      BY <1>13, <1>15, Zenon
    <2>2. takes \in Seq(Levels) /\ quantity \in Int
      BY <1>16
    <2>3. fill \in FillRecords
      BY <2>1, <2>2 DEF FillRecords
    <2>4. fill.takes = takes /\ fill.requested = quantity /\ fill.exhausted_book = exhausted
      BY <2>1
    <2> QED BY <1>13e, <2>3, <2>4, Zenon
  <1>18. DOMAIN D = 0 .. n /\ D[0] = 0 /\ \A k \in 0 .. n : D[k] \in Int
    BY <1>8 DEF AreSums
  <1>19. Filled(fill) = IF t = 0 THEN 0 ELSE IF D[t] <= quantity THEN D[t] ELSE quantity
    <2>1. Filled(fill) = Total(taken)
      <3>1. Filled(fill) = Total([i \in 1 .. t |-> takes[i].quantity])
        BY <1>16, <1>17, Zenon DEF Filled
      <3>2. [i \in 1 .. t |-> takes[i].quantity] = taken
        BY <1>11, <1>16
      <3> QED BY <3>1, <3>2
    <2>2. CASE t = 0
      <3>1. DOMAIN taken = 1 .. t /\ t \in Nat /\ \A i \in 1 .. t : taken[i] \in Int
        BY <1>10, <1>11, <1>14
      <3> QED BY <2>1, <2>2, <3>1, TotalFacts
    <2>3. CASE t # 0
      <3>1. t \in 1 .. n
        BY <1>10, <2>3
      <3>2. Total(taken) = IF D[t] <= quantity THEN D[t] ELSE quantity
        <4> QED BY <1>1, <1>7, <1>8, <1>10, <1>11a, <3>1, TakenFacts
      <3> QED BY <2>1, <2>3, <3>2
    <2> QED BY <2>2, <2>3
  <1>20. /\ Filled(fill) \in 0 .. quantity /\ (Filled(fill) = 0 <=> t = 0)
         /\ D[n] < quantity <=> Filled(fill) # quantity
    <2>1. CASE t = 0
      BY <1>10, <1>18, <1>19, <2>1
    <2>2. CASE t # 0
      <3>1. D[t] > 0 /\ D[t] \in Int
        <4>1. t \in 1 .. n /\ 1 \in 1 .. n /\ 1 \in 0 .. n /\ t \in 0 .. n /\ 0 \in 0 .. n - 1 /\ 1 <= t
          BY <1>10, <2>2
        <4>2. D[0 + 1] = D[0] + q[0 + 1]
          BY <1>8, <4>1 DEF AreSums
        <4>3. D[1] > 0 /\ D[1] \in Int
          BY <1>7, <1>18, <4>1, <4>2
        <4>4. D[1] <= D[t]
          <5>1. \A i \in 1 .. n : q[i] \in Nat
            BY <1>7
          <5> QED BY <1>8, <4>1, <5>1, SumsGrow
        <4> QED BY <1>18, <4>1, <4>3, <4>4
      <3>2. D[t] <= D[n] /\ D[n] \in Int
        <4>1. t \in 0 .. n /\ n \in 0 .. n /\ t <= n
          BY <1>10
        <4>2. \A i \in 1 .. n : q[i] \in Nat
          BY <1>7
        <4> QED BY <1>8, <1>18, <4>1, <4>2, SumsGrow
      <3>3. t = n \/ D[t] >= quantity
        BY <1>10
      <3> QED BY <1>19, <2>2, <3>1, <3>2, <3>3
    <2> QED BY <2>1, <2>2
  <1>21. Notional(fill) \in Int
    <2>1. PICK v : v = [i \in 1 .. t |-> takes[i].price * takes[i].quantity]
      OBVIOUS
    <2>2. Notional(fill) = Total(v)
      BY <1>16, <1>17, <2>1, Zenon DEF Notional
    <2>3. t \in Nat /\ \A i \in 1 .. t : takes[i].price \in Int /\ takes[i].quantity \in Int
      <3>1. \A i \in 1 .. t : i \in 1 .. n
        BY <1>10
      <3> QED BY <1>2, <1>10, <1>14, <1>16, <3>1
    <2>4. \A i \in 1 .. t : v[i] \in Int
      <3>1. \A x, y \in Int : x * y \in Int
        OBVIOUS
      <3> QED BY <2>1, <2>3, <3>1
    <2>5. DOMAIN v = 1 .. t
      BY <2>1
    <2> QED BY <2>2, <2>3, <2>4, <2>5, TotalFacts
  <1>22. WorstPrice(fill) = IF t = 0 THEN 0 ELSE levels[t].price
    <2>1. CASE t = 0
      BY <1>16, <1>17, <2>1 DEF WorstPrice, NoPrice
    <2>2. CASE t # 0
      <3>1. takes # <<>> /\ t \in 1 .. t
        BY <1>10, <1>16, <2>2
      <3>2. Last(takes) = takes[t]
        BY <1>16 DEF Last
      <3> QED BY <1>16, <1>17, <2>2, <3>1, <3>2 DEF WorstPrice
    <2> QED BY <2>1, <2>2
  <1>23. WorstPrice(fill) \in Nat /\ (WorstPrice(fill) = NoPrice <=> Filled(fill) = 0)
    <2>1. t = 0 \/ t \in 1 .. n
      BY <1>10
    <2> QED BY <1>2, <1>20, <1>22, <2>1 DEF NoPrice
  <1>24. \A k \in 1 .. t : /\ takes[k].price > 0
                           /\ ~ IsBetter(side, WorstPrice(fill), takes[k].price)
    <2> SUFFICES ASSUME NEW k \in 1 .. t
                 PROVE  takes[k].price > 0 /\ ~ IsBetter(side, WorstPrice(fill), takes[k].price)
      OBVIOUS
    <2>1. k \in 1 .. n /\ t \in 1 .. n /\ t # 0 /\ k <= t
      BY <1>10
    <2>2. PICK a \in Int, b \in Int : a = levels[k].price /\ b = levels[t].price /\ a > 0
      BY <1>2, <2>1
    <2>3. k < t => IsBetter(side, a, b)
      BY <1>3, <2>1, <2>2
    <2>4. k = t => a = b
      BY <2>2
    <2>5. ~ IsBetter(side, b, a)
      <3> QED BY <2>1, <2>3, <2>4 DEF IsBetter
    <2> QED BY <1>16, <1>22, <2>1, <2>2, <2>5
  <1>25. SoundFill(fill, side)
    BY <1>16, <1>17, <1>20, <1>21, <1>23, <1>24 DEF SoundFill
  <1>26. \A i \in 1 .. t : takes[i].price = levels[i].price /\ takes[i].quantity <= levels[i].quantity
    BY <1>14, <1>16
  <1> QED BY <1>0, <1>1, <1>10, <1>16, <1>17, <1>25, <1>26

\* What is left of the book after a fill.
LEMMA SoundAfterDepleted ==
    ASSUME NEW book, SoundBook(book), NEW order_side, NEW side \in Side,
           side = ConsumedSide(order_side), NEW quantity \in Nat \ {0},
           NEW fill, fill = Walk(book, order_side, quantity)
    PROVE  SoundBook(Depleted(book, order_side, fill))
  <1>1. /\ SoundFill(fill, side) /\ Len(fill.takes) <= Len(book[side])
        /\ \A i \in 1 .. Len(fill.takes) : fill.takes[i].quantity <= book[side][i].quantity
    BY WalkFacts
  <1>2. fill.takes \in Seq(Levels)
    BY <1>1 DEF SoundFill, FillRecords
  <1>3. PICK t \in Nat : t = Len(fill.takes) /\ DOMAIN fill.takes = 1 .. t
    BY <1>2
  <1>4. PICK left : left = LeftOf(book, side, fill)
    OBVIOUS
  <1>5. \A i \in 1 .. t : left[i].price \in Int /\ left[i].price > 0 /\ left[i].quantity \in Nat
    <2> SUFFICES ASSUME NEW i \in 1 .. t
                 PROVE  left[i].price \in Int /\ left[i].price > 0 /\ left[i].quantity \in Nat
      OBVIOUS
    <2>1. left[i] = Level(fill.takes[i].price, book[side][i].quantity - fill.takes[i].quantity)
      BY <1>3, <1>4 DEF LeftOf
    <2>2. left[i].price = fill.takes[i].price
          /\ left[i].quantity = book[side][i].quantity - fill.takes[i].quantity
      BY <2>1 DEF Level
    <2>3. fill.takes[i] \in Levels /\ fill.takes[i].price > 0
      BY <1>1, <1>2, <1>3 DEF SoundFill
    <2>4. fill.takes[i].price \in Int /\ fill.takes[i].quantity \in Int
      BY <2>3 DEF Levels
    <2>5. book[side][i].quantity \in Int
      <3>1. Len(book[side]) \in Nat /\ \A j \in 1 .. Len(book[side]) : book[side][j].quantity \in Int
        BY SoundLevels
      <3>2. i \in 1 .. Len(book[side])
        BY <1>1, <1>3, <3>1
      <3> QED BY <3>1, <3>2
    <2>6. fill.takes[i].quantity <= book[side][i].quantity
      BY <1>1, <1>3
    <2> QED BY <2>2, <2>3, <2>4, <2>5, <2>6
  <1>6. PICK g : IsFoldOf(side, g, book, left, t) /\ Depleted(book, order_side, fill) = g[1 .. t]
    BY <1>3, <1>4, DepletedIs
  <1>7. /\ g[1 .. 0] = book
        /\ \A k \in 0 .. t - 1 : g[1 .. k + 1] = Folded(side, g[1 .. k], left[k + 1])
    BY <1>6, FoldOfStep
  <1> DEFINE S == {k \in 0 .. t : SoundBook(g[1 .. k])}
  <1>8. 0 \in S
    BY <1>7
  <1>9. ASSUME NEW k \in 0 .. t - 1, k \in S PROVE k + 1 \in S
    <2>1. PICK x : x = g[1 .. k] /\ SoundBook(x)
      BY <1>9
    <2>2. PICK level : level = left[k + 1]
      OBVIOUS
    <2>3. k + 1 \in 1 .. t /\ k + 1 \in 0 .. t
      OBVIOUS
    <2>4. level.price \in Int /\ level.price > 0 /\ level.quantity \in Nat
      BY <1>5, <2>2, <2>3
    <2>5. g[1 .. k + 1] = AppliedBook(x, side, level.price, level.quantity)
      BY <1>7, <2>1, <2>2 DEF Folded, Side
    <2>6. SoundBook(AppliedBook(x, side, level.price, level.quantity))
      BY <2>1, <2>4, SoundAfterApplied
    <2> QED BY <2>3, <2>5, <2>6
  <1>10. \A k \in 0 .. t : k \in S
    <2> HIDE DEF S
    <2> QED BY <1>8, <1>9, StepByStep
  <1>11. t \in 0 .. t
    OBVIOUS
  <1> QED BY <1>6, <1>10, <1>11

\* The weights of a schedule that is not refused.
GoodWeights(weights, n) ==
    /\ n \in Nat \ {0} /\ weights \in Seq(Int)
    /\ weights # <<>> =>
          /\ Len(weights) = n /\ Total(weights) > 0
          /\ \A i \in DOMAIN weights : weights[i] >= 0

LEMMA WeightsFacts ==
    ASSUME NEW schedule, NEW n, n = schedule.slices, GoodWeights(schedule.weights, n)
    PROVE  /\ DOMAIN Weights(schedule) = 1 .. n
           /\ \A i \in 1 .. n : Weights(schedule)[i] \in Nat
           /\ Total(Weights(schedule)) \in Nat \ {0}
  <1> DEFINE w == Weights(schedule)
  <1>0. n \in Nat \ {0}
    BY DEF GoodWeights
  <1>1. DOMAIN w = 1 .. n /\ \A i \in 1 .. n : w[i] \in Nat
    <2>1. CASE schedule.weights = <<>>
      BY <1>0, <2>1 DEF Weights
    <2>2. CASE schedule.weights # <<>>
      <3>1. w = schedule.weights /\ w \in Seq(Int) /\ Len(w) = n /\ \A i \in DOMAIN w : w[i] >= 0
        BY <2>2 DEF Weights, GoodWeights
      <3> HIDE DEF w
      <3> QED BY <3>1
    <2> QED BY <2>1, <2>2
  <1>2. PICK s : AreSums(s, w, n) /\ Total(w) = s[n]
    <2>1. \A i \in 1 .. n : w[i] \in Int
      BY <1>1
    <2> HIDE DEF w
    <2> QED BY <1>0, <1>1, <2>1, SumsExist
  <1>3. s[n] \in Int
    BY <1>0, <1>2 DEF AreSums
  <1>4. s[n] > 0
    <2>1. CASE schedule.weights # <<>>
      <3>1. w = schedule.weights
        BY <2>1 DEF Weights
      <3> HIDE DEF w
      <3> QED BY <1>2, <2>1, <3>1 DEF GoodWeights
    <2>2. CASE schedule.weights = <<>>
      <3>1. \A i \in 1 .. n : w[i] = 1
        BY <2>2 DEF Weights
      <3>2. 0 \in 0 .. n - 1 /\ 1 \in 1 .. n /\ 1 \in 0 .. n /\ n \in 0 .. n /\ 1 <= n
        BY <1>0
      <3> HIDE DEF w
      <3>3. s[0] = 0 /\ s[0 + 1] = s[0] + w[0 + 1]
        BY <1>2, <3>2 DEF AreSums
      <3>4. s[1] = 1
        BY <3>1, <3>2, <3>3
      <3>5. s[1] <= s[n]
        BY <1>0, <1>1, <1>2, <3>2, SumsGrow
      <3> QED BY <1>3, <3>4, <3>5
    <2> QED BY <2>1, <2>2
  <1> QED BY <1>1, <1>2, <1>3, <1>4

LEMMA ShareFits ==
    ASSUME NEW a \in Nat, NEW T \in Nat \ {0}
    PROVE  a \div T \in Nat /\ (a \div T) * T <= a
  BY DivMod

LEMMA SumOfProducts ==
    ASSUME NEW p \in Int, NEW share \in Int, NEW T \in Int, NEW total \in Int, NEW v \in Int, NEW w \in Int,
           p * T <= total * v, share * T <= total * w
    PROVE  (p + share) * T <= total * (v + w)
  <1>1. (p + share) * T = p * T + share * T /\ total * (v + w) = total * v + total * w
    OBVIOUS
  <1>2. p * T \in Int /\ share * T \in Int /\ total * v \in Int /\ total * w \in Int
    OBVIOUS
  <1> QED BY <1>1, <1>2

LEMMA ProductsOrdered ==
    ASSUME NEW p \in Int, NEW T \in Nat \ {0}, NEW total \in Nat, NEW v \in Int, v <= T, p * T <= total * v
    PROVE  p <= total
  <1>1. total * v <= total * T
    OBVIOUS
  <1>2. p * T <= total * T
    BY <1>1
  <1> SUFFICES ASSUME p >= total + 1 PROVE FALSE
    OBVIOUS
  <1>3. p * T >= (total + 1) * T
    OBVIOUS
  <1>4. (total + 1) * T = total * T + T
    OBVIOUS
  <1> QED BY <1>2, <1>3, <1>4

\* The slices of a schedule ask for the whole order, and none for less than nothing.
LEMMA SliceQuantitiesFacts ==
    ASSUME NEW schedule, NEW n, n = schedule.slices, GoodWeights(schedule.weights, n),
           NEW total \in Nat \ {0}, NEW asked, asked = SliceQuantities(total, schedule)
    PROVE  /\ DOMAIN asked = 1 .. n /\ \A i \in 1 .. n : asked[i] \in Nat
           /\ Total(asked) = total
  <1>0. PICK m \in Nat : n = m + 1
    <2>1. n \in Nat \ {0}
      BY DEF GoodWeights
    <2> QED BY <2>1, n - 1 \in Nat, n = (n - 1) + 1
  <1>1. PICK w : w = Weights(schedule)
    OBVIOUS
  <1>2. PICK T \in Nat \ {0} : T = Total(w)
    BY <1>1, WeightsFacts
  <1>3. DOMAIN w = 1 .. m + 1 /\ \A i \in 1 .. m + 1 : w[i] \in Nat
    BY <1>0, <1>1, WeightsFacts
  <1>4. PICK V : AreSums(V, w, m + 1) /\ V[m + 1] = T
    <2>1. m + 1 \in Nat /\ \A i \in 1 .. m + 1 : w[i] \in Int
      BY <1>3
    <2> QED BY <1>2, <1>3, <2>1, SumsExist
  <1>5. PICK p : p = [i \in 1 .. m |-> Share(total, schedule, i)]
    OBVIOUS
  <1>6. \A i \in 1 .. m : p[i] \in Nat /\ p[i] * T <= total * w[i] /\ p[i] = Share(total, schedule, i)
    <2> SUFFICES ASSUME NEW i \in 1 .. m
                 PROVE  p[i] \in Nat /\ p[i] * T <= total * w[i] /\ p[i] = Share(total, schedule, i)
      OBVIOUS
    <2>1. p[i] = Share(total, schedule, i)
      BY <1>5
    <2>2. w[i] \in Nat
      BY <1>3
    <2>3. PICK a \in Nat : a = total * w[i]
      <3>1. \A x, y \in Nat : x * y \in Nat
        OBVIOUS
      <3> QED BY <2>2, <3>1
    <2>4. p[i] = a \div T
      BY <1>1, <1>2, <2>1, <2>3 DEF Share
    <2> QED BY <2>1, <2>3, <2>4, ShareFits
  <1>7. DOMAIN p = 1 .. m /\ \A i \in 1 .. m : p[i] \in Int
    BY <1>5, <1>6
  <1>8. PICK P : AreSums(P, p, m) /\ Total(p) = P[m]
    BY <1>7, SumsExist
  <1> DEFINE S == {k \in 0 .. m : P[k] * T <= total * V[k]}
  <1>9. 0 \in S
    <2>1. P[0] = 0 /\ V[0] = 0
      BY <1>4, <1>8 DEF AreSums
    <2> QED BY <2>1
  <1>10. ASSUME NEW k \in 0 .. m - 1, k \in S PROVE k + 1 \in S
    <2>1. k + 1 \in 1 .. m /\ k \in 0 .. (m + 1) - 1 /\ k + 1 \in 0 .. m /\ k + 1 \in 1 .. m + 1
            /\ k \in 0 .. m /\ k \in 0 .. m + 1
      OBVIOUS
    <2>2. P[k + 1] = P[k] + p[k + 1] /\ V[k + 1] = V[k] + w[k + 1] /\ P[k] \in Int /\ V[k] \in Int
      BY <1>4, <1>8, <2>1 DEF AreSums
    <2>3. p[k + 1] \in Int /\ w[k + 1] \in Int /\ p[k + 1] * T <= total * w[k + 1]
      BY <1>3, <1>6, <2>1
    <2>4. (P[k] + p[k + 1]) * T <= total * (V[k] + w[k + 1])
      BY <1>10, <2>2, <2>3, SumOfProducts
    <2>5. P[k + 1] * T <= total * V[k + 1]
      BY <2>2, <2>4
    <2> QED BY <2>1, <2>5
  <1>11. \A k \in 0 .. m : k \in S
    <2> HIDE DEF S
    <2> QED BY <1>9, <1>10, StepByStep
  <1>12. P[m] \in Int /\ P[m] <= total
    <2>1. m \in 0 .. m /\ m \in 0 .. m + 1 /\ m + 1 \in 0 .. m + 1 /\ m <= m + 1
      OBVIOUS
    <2>2. P[m] * T <= total * V[m] /\ P[m] \in Int /\ V[m] \in Int
      BY <1>4, <1>8, <1>11, <2>1 DEF AreSums
    <2>3. V[m] <= V[m + 1]
      BY <1>3, <1>4, <2>1, SumsGrow, m + 1 \in Nat
    <2>4. V[m] <= T
      BY <1>4, <2>3
    <2> QED BY <2>2, <2>4, ProductsOrdered
  <1>13. asked = [i \in 1 .. m + 1 |-> IF i < m + 1 THEN Share(total, schedule, i) ELSE total - Total(p)]
    <2>1. (m + 1) - 1 = m
      OBVIOUS
    <2>2. asked = [i \in 1 .. m + 1 |-> IF i < m + 1 THEN Share(total, schedule, i)
                     ELSE total - Total([j \in 1 .. (m + 1) - 1 |-> Share(total, schedule, j)])]
      BY <1>0 DEF SliceQuantities
    <2> QED BY <1>5, <2>1, <2>2
  <1>14. /\ DOMAIN asked = 1 .. m + 1 /\ \A i \in 1 .. m : asked[i] = p[i]
         /\ asked[m + 1] = total - P[m]
    <2>1. \A i \in 1 .. m : i \in 1 .. m + 1 /\ i < m + 1
      OBVIOUS
    <2>2. m + 1 \in 1 .. m + 1 /\ ~ (m + 1 < m + 1)
      OBVIOUS
    <2> QED BY <1>6, <1>8, <1>13, <2>1, <2>2
  <1>15. \A i \in 1 .. m + 1 : asked[i] \in Nat
    <2>1. \A i \in 1 .. m + 1 : i \in 1 .. m \/ i = m + 1
      OBVIOUS
    <2>2. total - P[m] \in Nat
      BY <1>12
    <2> QED BY <1>6, <1>14, <2>1, <2>2
  <1>16. Total(asked) = Total(p) + asked[m + 1]
    <2>1. asked[m + 1] \in Int
      BY <1>12, <1>14
    <2> QED BY <1>7, <1>14, <2>1, TotalOfOneMore
  <1>17. Total(asked) = total
    BY <1>8, <1>12, <1>14, <1>16
  <1> QED BY <1>0, <1>14, <1>15, <1>17

\* What the first slices ask for.
AskedTo(total, schedule, n) == Total([i \in 1 .. n |-> SliceQuantities(total, schedule)[i]])

LEMMA AskedFacts ==
    ASSUME NEW schedule, NEW n, n = schedule.slices, GoodWeights(schedule.weights, n),
           NEW total \in Nat \ {0}
    PROVE  /\ AskedTo(total, schedule, 0) = 0 /\ AskedTo(total, schedule, n) = total
           /\ \A k \in 1 .. n :
                 /\ SliceQuantities(total, schedule)[k] \in Nat
                 /\ AskedTo(total, schedule, k)
                      = AskedTo(total, schedule, k - 1) + SliceQuantities(total, schedule)[k]
  <1>0. n \in Nat \ {0}
    BY DEF GoodWeights
  <1>1. PICK asked : asked = SliceQuantities(total, schedule)
    OBVIOUS
  <1>2. /\ DOMAIN asked = 1 .. n /\ \A i \in 1 .. n : asked[i] \in Nat
        /\ Total(asked) = total
    BY <1>1, SliceQuantitiesFacts
  <1> DEFINE front(k) == [i \in 1 .. k |-> asked[i]]
  <1>3. \A k : AskedTo(total, schedule, k) = Total(front(k))
    BY <1>1 DEF AskedTo
  <1>4. \A k \in 0 .. n : /\ k \in Nat /\ DOMAIN front(k) = 1 .. k
                          /\ \A i \in 1 .. k : front(k)[i] = asked[i] /\ front(k)[i] \in Int
    BY <1>0, <1>2
  <1> HIDE DEF front
  <1>5. Total(front(n)) = Total(asked)
    <2>1. n \in 0 .. n
      BY <1>0
    <2>2. PICK b : b = front(n)
      OBVIOUS
    <2>3. DOMAIN b = 1 .. n /\ \A i \in 1 .. n : b[i] = asked[i]
      BY <1>4, <2>1, <2>2
    <2>4. \A i \in 1 .. n : asked[i] \in Int
      BY <1>2
    <2> QED BY <1>0, <1>2, <2>2, <2>3, <2>4, TotalIsOf
  <1>6. AskedTo(total, schedule, 0) = 0
    BY <1>0, <1>3, <1>4, TotalFacts
  <1>7. AskedTo(total, schedule, n) = total
    BY <1>2, <1>3, <1>5
  <1>8. ASSUME NEW k \in 1 .. n PROVE AskedTo(total, schedule, k) = AskedTo(total, schedule, k - 1) + asked[k]
    <2>1. PICK m \in Nat : k = m + 1 /\ k - 1 = m /\ m \in 0 .. n /\ m + 1 \in 0 .. n
      BY <1>0, k - 1 \in Nat
    <2>2. \A i \in 1 .. m : i \in 1 .. m + 1
      OBVIOUS
    <2>3. m + 1 \in 1 .. m + 1
      OBVIOUS
    <2>4. PICK a, b : a = front(m) /\ b = front(m + 1)
      OBVIOUS
    <2>5. DOMAIN a = 1 .. m /\ DOMAIN b = 1 .. m + 1 /\ b[m + 1] \in Int /\ b[m + 1] = asked[m + 1]
      BY <1>4, <2>1, <2>3, <2>4
    <2>6. \A i \in 1 .. m : a[i] \in Int /\ b[i] = a[i]
      BY <1>4, <2>1, <2>2, <2>4
    <2>7. Total(b) = Total(a) + b[m + 1]
      BY <2>5, <2>6, TotalOfOneMore
    <2> QED BY <1>3, <2>1, <2>4, <2>5, <2>7
  <1> QED BY <1>1, <1>2, <1>6, <1>7, <1>8

SlicedRecords == [at : Int, fill : FillRecords]

Parents ==
    [requested : Int, filled : Int, notional : Int, levels_consumed : Int,
     bid_at_entry : Int, ask_at_entry : Int, crossed_at_entry : BOOLEAN, worst_price : Int,
     slices_exhausted : Int, slices_beyond_validated_depth : Int, slices_crossed : Int]

AskedBy(slices) == Total([j \in DOMAIN slices |-> slices[j].fill.requested])

FilledBy(slices) == Total([j \in DOMAIN slices |-> Filled(slices[j].fill)])

PaidBy(slices) == Total([j \in DOMAIN slices |-> Notional(slices[j].fill)])

\* The price is the worst that any slice paid, and none if nothing was bought.
IsWorstOf(price, slices, side) ==
    IF price = NoPrice THEN \A j \in DOMAIN slices : WorstPrice(slices[j].fill) = NoPrice
    ELSE /\ \E j \in DOMAIN slices : WorstPrice(slices[j].fill) = price
         /\ \A j \in DOMAIN slices :
               \/ WorstPrice(slices[j].fill) = NoPrice
               \/ ~ IsBetter(side, price, WorstPrice(slices[j].fill))

SumsUp(whole, slices, side) ==
    /\ whole \in Parents /\ slices \in Seq(SlicedRecords)
    /\ \A j \in DOMAIN slices : SoundFill(slices[j].fill, side)
    /\ whole.filled = FilledBy(slices) /\ whole.notional = PaidBy(slices)
    /\ whole.filled <= AskedBy(slices)
    /\ whole.slices_exhausted >= 0
    /\ whole.slices_exhausted = 0 <=> whole.filled = AskedBy(slices)
    /\ whole.worst_price >= 0 /\ IsWorstOf(whole.worst_price, slices, side)
    /\ whole.worst_price = NoPrice => whole.filled = 0

LEMMA SumsOfNone == AskedBy(<<>>) = 0 /\ FilledBy(<<>>) = 0 /\ PaidBy(<<>>) = 0
  <1>1. DOMAIN <<>> = 1 .. 0
    OBVIOUS
  <1>2. ASSUME NEW v, DOMAIN v = 1 .. 0 PROVE Total(v) = 0
    BY <1>2, TotalFacts
  <1> QED BY <1>1, <1>2 DEF AskedBy, FilledBy, PaidBy

LEMMA SumsOfOneMore ==
    ASSUME NEW slices \in Seq(SlicedRecords), NEW slice \in SlicedRecords, NEW side,
           \A j \in DOMAIN slices : SoundFill(slices[j].fill, side), SoundFill(slice.fill, side)
    PROVE  /\ AskedBy(Append(slices, slice)) = AskedBy(slices) + slice.fill.requested
           /\ FilledBy(Append(slices, slice)) = FilledBy(slices) + Filled(slice.fill)
           /\ PaidBy(Append(slices, slice)) = PaidBy(slices) + Notional(slice.fill)
           /\ AskedBy(slices) \in Int /\ FilledBy(slices) \in Int /\ PaidBy(slices) \in Int
  <1>1. PICK n \in Nat : n = Len(slices) /\ DOMAIN slices = 1 .. n
    OBVIOUS
  <1>2. PICK more : more = Append(slices, slice)
    OBVIOUS
  <1>3. DOMAIN more = 1 .. n + 1 /\ more[n + 1] = slice /\ \A j \in 1 .. n : more[j] = slices[j]
    BY <1>1, <1>2
  <1>4. \A fill : SoundFill(fill, side) =>
           fill.requested \in Int /\ Filled(fill) \in Int /\ Notional(fill) \in Int
    BY DEF SoundFill, FillRecords
  <1>5. \A j \in 1 .. n : j \in 1 .. n + 1
    BY <1>1
  <1>6. n + 1 \in 1 .. n + 1
    BY <1>1
  <1>7. AskedBy(more) = AskedBy(slices) + slice.fill.requested /\ AskedBy(slices) \in Int
    <2>1. PICK a, b : /\ a = [j \in DOMAIN slices |-> slices[j].fill.requested]
                      /\ b = [j \in DOMAIN more |-> more[j].fill.requested]
      OBVIOUS
    <2>2. DOMAIN a = 1 .. n /\ \A j \in 1 .. n : a[j] \in Int
      BY <1>1, <1>4, <2>1
    <2>3. /\ DOMAIN b = 1 .. n + 1 /\ \A j \in 1 .. n : b[j] = a[j]
          /\ b[n + 1] \in Int /\ b[n + 1] = slice.fill.requested
      BY <1>1, <1>3, <1>4, <1>5, <1>6, <2>1
    <2>4. Total(b) = Total(a) + b[n + 1] /\ Total(a) \in Int
      BY <2>2, <2>3, TotalOfOneMore, TotalFacts
    <2> QED BY <2>1, <2>3, <2>4 DEF AskedBy
  <1>8. FilledBy(more) = FilledBy(slices) + Filled(slice.fill) /\ FilledBy(slices) \in Int
    <2>1. PICK a, b : /\ a = [j \in DOMAIN slices |-> Filled(slices[j].fill)]
                      /\ b = [j \in DOMAIN more |-> Filled(more[j].fill)]
      OBVIOUS
    <2>2. DOMAIN a = 1 .. n /\ \A j \in 1 .. n : a[j] \in Int
      BY <1>1, <1>4, <2>1
    <2>3. /\ DOMAIN b = 1 .. n + 1 /\ \A j \in 1 .. n : b[j] = a[j]
          /\ b[n + 1] \in Int /\ b[n + 1] = Filled(slice.fill)
      BY <1>1, <1>3, <1>4, <1>5, <1>6, <2>1
    <2>4. Total(b) = Total(a) + b[n + 1] /\ Total(a) \in Int
      BY <2>2, <2>3, TotalOfOneMore, TotalFacts
    <2> QED BY <2>1, <2>3, <2>4 DEF FilledBy
  <1>9. PaidBy(more) = PaidBy(slices) + Notional(slice.fill) /\ PaidBy(slices) \in Int
    <2>1. PICK a, b : /\ a = [j \in DOMAIN slices |-> Notional(slices[j].fill)]
                      /\ b = [j \in DOMAIN more |-> Notional(more[j].fill)]
      OBVIOUS
    <2>2. DOMAIN a = 1 .. n /\ \A j \in 1 .. n : a[j] \in Int
      BY <1>1, <1>4, <2>1
    <2>3. /\ DOMAIN b = 1 .. n + 1 /\ \A j \in 1 .. n : b[j] = a[j]
          /\ b[n + 1] \in Int /\ b[n + 1] = Notional(slice.fill)
      BY <1>1, <1>3, <1>4, <1>5, <1>6, <2>1
    <2>4. Total(b) = Total(a) + b[n + 1] /\ Total(a) \in Int
      BY <2>2, <2>3, TotalOfOneMore, TotalFacts
    <2> QED BY <2>1, <2>3, <2>4 DEF PaidBy
  <1> QED BY <1>2, <1>7, <1>8, <1>9

\* The worst price after one more fill.
LEMMA WorstOfOneMore ==
    ASSUME NEW order_side, NEW side \in Side, side = ConsumedSide(order_side),
           NEW slices \in Seq(SlicedRecords), NEW slice \in SlicedRecords,
           \A j \in DOMAIN slices : WorstPrice(slices[j].fill) \in Nat,
           NEW price \in Nat, NEW other \in Nat, other = WorstPrice(slice.fill),
           IsWorstOf(price, slices, side)
    PROVE  /\ WorseOf(order_side, price, other) \in Nat
           /\ IsWorstOf(WorseOf(order_side, price, other), Append(slices, slice), side)
           /\ WorseOf(order_side, price, other) = NoPrice => price = NoPrice /\ other = NoPrice
  <1>1. PICK n \in Nat : n = Len(slices) /\ DOMAIN slices = 1 .. n
    OBVIOUS
  <1>2. PICK w : w = [j \in 1 .. n + 1 |-> IF j = n + 1 THEN other ELSE WorstPrice(slices[j].fill)]
    OBVIOUS
  <1>3. PICK more : more = Append(slices, slice)
    OBVIOUS
  <1>4. DOMAIN more = 1 .. n + 1 /\ more[n + 1] = slice /\ \A j \in 1 .. n : more[j] = slices[j]
    BY <1>1, <1>3
  <1>5. \A j \in 1 .. n + 1 : WorstPrice(more[j].fill) = w[j] /\ w[j] \in Nat
    <2> SUFFICES ASSUME NEW j \in 1 .. n + 1 PROVE WorstPrice(more[j].fill) = w[j] /\ w[j] \in Nat
      OBVIOUS
    <2>1. CASE j = n + 1
      BY <1>2, <1>4, <2>1
    <2>2. CASE j \in 1 .. n
      <3>1. j # n + 1
        BY <2>2
      <3> QED BY <1>1, <1>2, <1>4, <2>2, <3>1
    <2> QED BY <1>1, <2>1, <2>2
  <1>6. \A j \in 1 .. n : WorstPrice(slices[j].fill) = w[j]
    <2>1. \A j \in 1 .. n : j \in 1 .. n + 1 /\ j # n + 1
      BY <1>1
    <2> QED BY <1>2, <2>1
  <1>7. IF price = 0 THEN \A j \in 1 .. n : w[j] = 0
        ELSE /\ \E j \in 1 .. n : w[j] = price
             /\ \A j \in 1 .. n : w[j] = 0 \/ ~ IsBetter(side, price, w[j])
    BY <1>1, <1>6 DEF IsWorstOf, NoPrice
  <1>8. PICK new : new = WorseOf(order_side, price, other)
    OBVIOUS
  <1>9. new = IF other = 0 THEN price ELSE IF price = 0 \/ IsBetter(side, price, other) THEN other ELSE price
    BY <1>8 DEF WorseOf, NoPrice
  <1>10. w[n + 1] = other /\ n + 1 \in 1 .. n + 1 /\ \A j \in 1 .. n + 1 : j \in 1 .. n \/ j = n + 1
    BY <1>1, <1>2
  <1>10a. \A j \in 1 .. n : j \in 1 .. n + 1
    BY <1>1
  <1>11. \A x, y, z \in Nat :
            /\ ~ IsBetter(side, x, x)
            /\ IsBetter(side, x, y) => ~ IsBetter(side, y, x)
            /\ ~ IsBetter(side, x, y) /\ IsBetter(side, x, z) => ~ IsBetter(side, z, y)
    BY DEF IsBetter
  <1>12. IF new = 0 THEN \A j \in 1 .. n + 1 : w[j] = 0
         ELSE /\ \E j \in 1 .. n + 1 : w[j] = new
              /\ \A j \in 1 .. n + 1 : w[j] = 0 \/ ~ IsBetter(side, new, w[j])
    <2>1. CASE other = 0
      BY <1>7, <1>9, <1>10, <1>10a, <2>1
    <2>2. CASE other # 0 /\ price = 0
      BY <1>7, <1>9, <1>10, <1>10a, <1>11, <2>2
    <2>3. CASE other # 0 /\ price # 0 /\ IsBetter(side, price, other)
      <3>1. new = other
        BY <1>9, <2>3
      <3>2. ASSUME NEW j \in 1 .. n PROVE w[j] = 0 \/ ~ IsBetter(side, other, w[j])
        <4>1. w[j] \in Nat /\ (w[j] = 0 \/ ~ IsBetter(side, price, w[j]))
          BY <1>5, <1>7, <1>10a, <2>3
        <4> QED BY <1>11, <2>3, <4>1
      <3> QED BY <1>10, <1>11, <2>3, <3>1, <3>2
    <2>4. CASE other # 0 /\ price # 0 /\ ~ IsBetter(side, price, other)
      BY <1>7, <1>9, <1>10, <1>10a, <2>4
    <2> QED BY <2>1, <2>2, <2>3, <2>4
  <1>13. IsWorstOf(new, more, side)
    BY <1>4, <1>5, <1>12 DEF IsWorstOf, NoPrice
  <1>14. new \in Nat
    BY <1>9
  <1>15. new = NoPrice => price = NoPrice /\ other = NoPrice
    BY <1>9 DEF NoPrice
  <1> QED BY <1>3, <1>8, <1>13, <1>14, <1>15

LEMMA SumsUpOneMore ==
    ASSUME NEW whole, NEW slices, NEW side \in Side, side = ConsumedSide(order.side),
           SumsUp(whole, slices, side), NEW fill, SoundFill(fill, side), NEW at \in Int,
           NEW first \in BOOLEAN, NEW slice, slice = [at |-> at, fill |-> fill]
    PROVE  /\ SumsUp(WithChild(whole, fill, first), Append(slices, slice), side)
           /\ AskedBy(Append(slices, slice)) = AskedBy(slices) + fill.requested
  <1>1. /\ whole \in Parents /\ slices \in Seq(SlicedRecords)
        /\ \A j \in DOMAIN slices : SoundFill(slices[j].fill, side)
        /\ whole.filled = FilledBy(slices) /\ whole.notional = PaidBy(slices)
        /\ whole.filled <= AskedBy(slices)
        /\ whole.slices_exhausted >= 0
        /\ (whole.slices_exhausted = 0 <=> whole.filled = AskedBy(slices))
        /\ whole.worst_price >= 0 /\ IsWorstOf(whole.worst_price, slices, side)
        /\ (whole.worst_price = NoPrice => whole.filled = 0)
    BY DEF SumsUp
  <1>2. /\ fill \in FillRecords /\ fill.requested \in Int /\ fill.requested > 0
        /\ Filled(fill) \in Int /\ Filled(fill) <= fill.requested /\ Filled(fill) >= 0
        /\ (fill.exhausted_book <=> Filled(fill) # fill.requested)
        /\ Notional(fill) \in Int /\ WorstPrice(fill) \in Nat /\ Len(fill.takes) \in Nat
        /\ (WorstPrice(fill) = NoPrice <=> Filled(fill) = 0)
        /\ fill.exhausted_book \in BOOLEAN /\ fill.beyond_validated_depth \in BOOLEAN
        /\ fill.crossed_at_entry \in BOOLEAN
        /\ fill.bid_at_entry \in Int /\ fill.ask_at_entry \in Int
    BY DEF SoundFill, FillRecords
  <1>3. slice \in SlicedRecords /\ slice.fill = fill
    BY <1>2 DEF SlicedRecords
  <1>4. PICK more : more = Append(slices, slice)
    OBVIOUS
  <1>5. /\ AskedBy(more) = AskedBy(slices) + fill.requested
        /\ FilledBy(more) = FilledBy(slices) + Filled(fill)
        /\ PaidBy(more) = PaidBy(slices) + Notional(fill)
        /\ AskedBy(slices) \in Int /\ FilledBy(slices) \in Int /\ PaidBy(slices) \in Int
    BY <1>1, <1>3, <1>4, SumsOfOneMore
  <1>6. PICK worst : worst = WorseOf(order.side, whole.worst_price, WorstPrice(fill))
    OBVIOUS
  <1>7. /\ worst \in Nat /\ IsWorstOf(worst, more, side)
        /\ worst = NoPrice => whole.worst_price = NoPrice /\ WorstPrice(fill) = NoPrice
    <2>1. whole.worst_price \in Nat
      BY <1>1 DEF Parents
    <2>2. \A j \in DOMAIN slices : WorstPrice(slices[j].fill) \in Nat
      BY <1>1 DEF SoundFill
    <2>3. PICK price \in Nat, other \in Nat : price = whole.worst_price /\ other = WorstPrice(fill)
      BY <1>2, <2>1
    <2>4. PICK order_side : order_side = order.side
      OBVIOUS
    <2> QED BY <1>1, <1>3, <1>4, <1>6, <2>2, <2>3, <2>4, WorstOfOneMore
  <1>8. \A c \in BOOLEAN : Count(c) = (IF c THEN 1 ELSE 0)
    BY DEF Count
  <1>9. PICK new : new = WithChild(whole, fill, first)
    OBVIOUS
  <1>10. PICK takes \in Nat, exhausted \in {0, 1}, beyond \in {0, 1}, crossed \in {0, 1} :
            /\ takes = Len(fill.takes) /\ exhausted = Count(fill.exhausted_book)
            /\ beyond = Count(fill.beyond_validated_depth) /\ crossed = Count(fill.crossed_at_entry)
    BY <1>2, <1>8
  <1>11. new = [whole EXCEPT
                  !.filled = @ + Filled(fill), !.notional = @ + Notional(fill),
                  !.levels_consumed = @ + takes,
                  !.slices_exhausted = @ + exhausted,
                  !.slices_beyond_validated_depth = @ + beyond,
                  !.slices_crossed = @ + crossed,
                  !.bid_at_entry = IF first THEN fill.bid_at_entry ELSE @,
                  !.ask_at_entry = IF first THEN fill.ask_at_entry ELSE @,
                  !.crossed_at_entry = IF first THEN fill.crossed_at_entry ELSE @,
                  !.worst_price = worst]
    BY <1>6, <1>9, <1>10 DEF WithChild
  <1>12. PICK got \in Int, paid \in Int, bid \in Int, ask \in Int, was \in BOOLEAN :
            /\ got = Filled(fill) /\ paid = Notional(fill)
            /\ bid = (IF first THEN fill.bid_at_entry ELSE whole.bid_at_entry)
            /\ ask = (IF first THEN fill.ask_at_entry ELSE whole.ask_at_entry)
            /\ was = (IF first THEN fill.crossed_at_entry ELSE whole.crossed_at_entry)
    <2>1. whole.bid_at_entry \in Int /\ whole.ask_at_entry \in Int /\ whole.crossed_at_entry \in BOOLEAN
      BY <1>1 DEF Parents
    <2> QED BY <1>2, <2>1
  <1>13. /\ new \in Parents /\ new.filled = whole.filled + got /\ new.notional = whole.notional + paid
         /\ new.slices_exhausted = whole.slices_exhausted + exhausted
         /\ new.worst_price = worst
    <2>1. new = [whole EXCEPT
                   !.filled = @ + got, !.notional = @ + paid, !.levels_consumed = @ + takes,
                   !.slices_exhausted = @ + exhausted, !.slices_beyond_validated_depth = @ + beyond,
                   !.slices_crossed = @ + crossed, !.bid_at_entry = bid, !.ask_at_entry = ask,
                   !.crossed_at_entry = was, !.worst_price = worst]
      BY <1>11, <1>12
    <2>2. worst \in Int /\ exhausted \in Int /\ beyond \in Int /\ crossed \in Int
      BY <1>7
    <2>3. whole \in Parents
      BY <1>1
    <2>4. PICK a \in Int, b \in Int, c \in Int, d \in Int, e \in Int, g \in Int :
             /\ a = whole.filled + got /\ b = whole.notional + paid /\ c = whole.levels_consumed + takes
             /\ d = whole.slices_exhausted + exhausted
             /\ e = whole.slices_beyond_validated_depth + beyond /\ g = whole.slices_crossed + crossed
      <3>1. /\ whole.filled \in Int /\ whole.notional \in Int /\ whole.levels_consumed \in Int
            /\ whole.slices_exhausted \in Int /\ whole.slices_beyond_validated_depth \in Int
            /\ whole.slices_crossed \in Int
        BY <2>3 DEF Parents
      <3>2. /\ whole.filled + got \in Int /\ whole.notional + paid \in Int
            /\ whole.levels_consumed + takes \in Int /\ whole.slices_exhausted + exhausted \in Int
            /\ whole.slices_beyond_validated_depth + beyond \in Int
            /\ whole.slices_crossed + crossed \in Int
        BY <2>2, <3>1
      <3> QED BY <3>2, Zenon
    <2>5. new = [whole EXCEPT
                   !.filled = a, !.notional = b, !.levels_consumed = c, !.slices_exhausted = d,
                   !.slices_beyond_validated_depth = e, !.slices_crossed = g, !.bid_at_entry = bid,
                   !.ask_at_entry = ask, !.crossed_at_entry = was, !.worst_price = worst]
      BY <2>1, <2>4
    <2>6. new \in Parents
      BY <2>2, <2>3, <2>5 DEF Parents
    <2>7. new.filled = a /\ new.notional = b /\ new.slices_exhausted = d /\ new.worst_price = worst
      BY <2>3, <2>5 DEF Parents
    <2> QED BY <2>4, <2>6, <2>7
  <1>14. /\ more \in Seq(SlicedRecords) /\ \A j \in DOMAIN more : SoundFill(more[j].fill, side)
    BY <1>1, <1>3, <1>4
  <1>15. /\ new.filled = FilledBy(more) /\ new.notional = PaidBy(more)
         /\ new.filled <= AskedBy(more) /\ new.slices_exhausted >= 0
         /\ (new.slices_exhausted = 0 <=> new.filled = AskedBy(more))
    <2>1. whole.filled \in Int /\ whole.notional \in Int /\ whole.slices_exhausted \in Int
      BY <1>1 DEF Parents
    <2>2. exhausted = 0 <=> got = fill.requested
      BY <1>2, <1>8, <1>10, <1>12
    <2>3. PICK a \in Int, f \in Int, e \in Int, r \in Int :
             /\ a = AskedBy(slices) /\ f = whole.filled /\ e = whole.slices_exhausted
             /\ r = fill.requested /\ f <= a /\ e >= 0 /\ (e = 0 <=> f = a) /\ got <= r
      BY <1>1, <1>2, <1>5, <1>12, <2>1
    <2>4. f + got <= a + r /\ e + exhausted >= 0 /\ (e + exhausted = 0 <=> f + got = a + r)
      BY <2>2, <2>3
    <2> QED BY <1>1, <1>5, <1>12, <1>13, <2>3, <2>4
  <1>15a. new.worst_price = NoPrice => new.filled = 0
    BY <1>1, <1>2, <1>7, <1>12, <1>13
  <1>16. SumsUp(new, more, side)
    BY <1>7, <1>13, <1>14, <1>15, <1>15a DEF SumsUp
  <1> QED BY <1>4, <1>5, <1>9, <1>16

\* What is read ahead is given to the simulator row by row.
LEMMA FutureType ==
    ASSUME pending \in Seq(Seq(BookUpdate))
    PROVE  Future \in Seq(BookUpdate)
  <1>1. PICK S : S = {k \in 1 .. Len(pending) : TimeOf(pending[k]) <= LastSlice}
    OBVIOUS
  <1>2. S \in SUBSET (1 .. Len(pending))
    BY <1>1
  <1>3. PICK groups \in Seq(Seq(BookUpdate)) : groups = RowsAt(pending, S)
    BY <1>2, RowsAtFacts
  <1>4. Future = FlattenSeq(groups)
    BY <1>1, <1>3 DEF Future
  <1>5. PICK n \in Nat : n = Len(groups) /\ \A i \in 1 .. n : groups[i] \in Seq(BookUpdate)
    OBVIOUS
  <1>6. PICK f : /\ FlattenSeq(groups) = IF n = 0 THEN <<>> ELSE f[n]
                 /\ \A i \in 1 .. n : f[i] = IF i = 1 THEN groups[i] ELSE f[i - 1] \o groups[i]
    BY <1>5, FlattenIs
  <1> DEFINE T == {m \in 0 .. n : m = 0 \/ f[m] \in Seq(BookUpdate)}
  <1>7. 0 \in T
    OBVIOUS
  <1>8. ASSUME NEW m \in 0 .. n - 1, m \in T PROVE m + 1 \in T
    <2>1. m + 1 \in 1 .. n /\ (m + 1) - 1 = m /\ m + 1 \in 0 .. n /\ (m + 1 = 1 <=> m = 0)
      OBVIOUS
    <2>2. f[m + 1] = (IF m = 0 THEN groups[m + 1] ELSE f[m] \o groups[m + 1])
          /\ groups[m + 1] \in Seq(BookUpdate)
      BY <1>5, <1>6, <2>1
    <2>3. \A a, b \in Seq(BookUpdate) : a \o b \in Seq(BookUpdate)
      OBVIOUS
    <2>4. f[m + 1] \in Seq(BookUpdate)
      BY <1>8, <2>2, <2>3
    <2> QED BY <2>1, <2>4
  <1>9. \A m \in 0 .. n : m \in T
    <2> HIDE DEF T
    <2> QED BY <1>7, <1>8, StepByStep
  <1>10. n \in 0 .. n
    OBVIOUS
  <1> QED BY <1>4, <1>6, <1>9, <1>10

\* The order in hand: what it asks for, and what its slices did so far.
OrderInv ==
    /\ order.side = config.side /\ order.total = Quantities[size]
    /\ order.schedule.start \in Int /\ order.schedule.duration \in Nat
    /\ order.schedule.slices = Slices /\ GoodWeights(order.schedule.weights, Slices)
    /\ order.updates \in Seq(BookUpdate) /\ cursor \in Nat
    /\ slot \in 1 .. Slices + 1 /\ (sim_phase = "returned" => slot = Slices + 1)
    /\ SoundReplayer(sim)
    /\ SumsUp(parent, children, ConsumedSide(config.side))
    /\ AskedBy(children) = AskedTo(order.total, order.schedule, slot - 1)

\* A row that was sampled.
IsWhole(row) ==
    /\ SumsUp(row.sliced, row.slices, ConsumedSide(config.side))
    /\ AskedBy(row.slices) = Quantities[row.size]

ParentInv ==
    /\ config.side \in {"buy", "sell"} /\ config.weights \in Seq(Int)
    /\ SoundReplayer(replayer) /\ replay_batch \in Seq(BookUpdate)
    /\ pc = "slicing" => sim_phase \in {"running", "returned", "threw"}
    /\ pc = "slicing" /\ sim_phase \in {"running", "returned"} => OrderInv
    /\ \A i \in 1 .. Len(rows) : IsWhole(rows[i])

LEMMA ConsumedIsASide ==
    ASSUME NEW order_side
    PROVE  ConsumedSide(order_side) \in Side
  BY DEF ConsumedSide, Side

LEMMA ParentHoldsAtStart == CalibrationInit => ParentInv
  <1> SUFFICES ASSUME CalibrationInit PROVE ParentInv
    OBVIOUS
  <1>1. config.side \in {"buy", "sell"} /\ config.weights \in Seq(Int)
    BY CalibrationAssumption DEF CalibrationInit
  <1>2. SoundReplayer(replayer) /\ replay_batch \in Seq(BookUpdate)
    BY SoundNew DEF CalibrationInit
  <1>3. pc = "loop" /\ Len(rows) = 0
    BY DEF CalibrationInit
  <1> QED BY <1>1, <1>2, <1>3 DEF ParentInv

\* Rows that were sampled stay as they were.
LEMMA SameSampled ==
    ASSUME ParentInv, config' = config, rows' = rows
    PROVE  \A i \in 1 .. Len(rows') : IsWhole(rows[i])'
  BY DEF ParentInv, IsWhole

\* A step between orders.
LEMMA BetweenOrders ==
    ASSUME ParentInv, config' = config, rows' = rows, pc' # "slicing",
           SoundReplayer(replayer'), replay_batch' \in Seq(BookUpdate)
    PROVE  ParentInv'
  <1>1. (\A i \in 1 .. Len(rows) : IsWhole(rows[i]))'
    BY SameSampled DEF ParentInv, IsWhole
  <1> QED BY <1>1 DEF ParentInv

LEMMA TakeGroupKeepsParent ==
    ASSUME GridInv, ParentInv, TakeGroup
    PROVE  ParentInv'
  <1>1. /\ config' = config /\ rows' = rows /\ replayer' = replayer /\ pc' # "slicing"
        /\ replay_batch' = replay_batch \o (IF pending # <<>> THEN Head(pending) ELSE ReadGroup)
        /\ pending # <<>> \/ MoreGroups
    BY DEF TakeGroup, Unchanged
  <1>2. (IF pending # <<>> THEN Head(pending) ELSE ReadGroup) \in Seq(BookUpdate)
    <2>1. CASE pending # <<>>
      <3>1. pending \in Seq(Seq(BookUpdate))
        BY DEF GridInv
      <3>2. Head(pending) \in Seq(BookUpdate)
        BY <2>1, <3>1
      <3> QED BY <2>1, <3>2
    <2>2. CASE pending = <<>>
      <3>1. /\ file \in Seq(BookUpdate) /\ position \in {0} \cup GroupEnds /\ MoreGroups
        BY <1>1, <2>2 DEF GridInv
      <3>2. ReadGroup \in Seq(BookUpdate)
        BY <3>1, NextGroup DEF ReadGroup, MoreGroups
      <3> QED BY <2>2, <3>2
    <2> QED BY <2>1, <2>2
  <1>3. replay_batch' \in Seq(BookUpdate)
    <2>1. replay_batch \in Seq(BookUpdate)
      BY DEF ParentInv
    <2>2. \A a, b \in Seq(BookUpdate) : a \o b \in Seq(BookUpdate)
      OBVIOUS
    <2> QED BY <1>1, <1>2, <2>1, <2>2
  <1>4. SoundReplayer(replayer')
    BY <1>1 DEF ParentInv
  <1> QED BY <1>1, <1>3, <1>4, BetweenOrders

LEMMA ReplayKeepsParent ==
    ASSUME ParentInv, Replay \/ Finish
    PROVE  ParentInv'
  <1>1. SoundReplayer(replayer) /\ replay_batch \in Seq(BookUpdate)
    BY DEF ParentInv
  <1>2. SoundReplayer(Replayed(replay_batch).replayer)
    BY <1>1, SoundAfterBatch
  <1>3. CASE Replay
    <2>1. /\ config' = config /\ rows' = rows /\ pc' # "slicing"
          /\ replayer' = Replayed(replay_batch).replayer
          /\ replay_batch' = replay_batch \/ replay_batch' = <<>>
      BY <1>3 DEF Replay, Unchanged
    <2>2. replay_batch' \in Seq(BookUpdate)
      <3>1. <<>> \in Seq(BookUpdate)
        OBVIOUS
      <3> QED BY <1>1, <2>1, <3>1, Zenon
    <2> QED BY <1>2, <2>1, <2>2, BetweenOrders
  <1>4. CASE Finish
    <2>1. /\ config' = config /\ rows' = rows /\ pc' # "slicing"
          /\ replayer' = replayer \/ replayer' = Replayed(replay_batch).replayer
          /\ replay_batch' = replay_batch
      BY <1>4 DEF Finish, Unchanged
    <2>2. SoundReplayer(replayer') /\ replay_batch' \in Seq(BookUpdate)
      BY <1>1, <1>2, <2>1
    <2> QED BY <2>1, <2>2, BetweenOrders
  <1> QED BY <1>3, <1>4

LEMMA LookingKeepsParent ==
    ASSUME ParentInv, LookAhead \/ LookedAhead \/ SlicedThrows
    PROVE  ParentInv'
  <1>1. /\ config' = config /\ rows' = rows /\ pc' # "slicing"
        /\ replayer' = replayer /\ replay_batch' = replay_batch
    BY DEF LookAhead, LookedAhead, SlicedThrows, Unchanged
  <1>2. SoundReplayer(replayer') /\ replay_batch' \in Seq(BookUpdate)
    BY <1>1 DEF ParentInv
  <1> QED BY <1>1, <1>2, BetweenOrders

\* What is asked is never nothing, and it is asked at an instant.
LEMMA AskedAtSample ==
    ASSUME GridInv, AtSample
    PROVE  Quantities[size] \in Nat \ {0} /\ instant \in Int /\ config.duration \in Nat
  <1>1. Quantities \in Seq(Nat \ {0}) /\ size \in 1 .. Len(Quantities)
    BY CalibrationAssumption DEF GridInv, ClockInv
  <1>2. Quantities[size] \in Nat \ {0}
    BY <1>1
  <1>3. file \in Seq(BookUpdate) /\ applied \in GridPoints /\ (applied # 0 => instant = file[applied].timestamp)
    BY DEF GridInv, ClockInv
  <1>4. applied \in 1 .. Len(file)
    BY <1>3, GroupEndsType
  <1>5. file[applied] \in BookUpdate /\ applied # 0
    BY <1>3, <1>4
  <1> QED BY <1>2, <1>3, <1>5 DEF GridInv, BookUpdate

LEMMA GoodWeightsOf ==
    ASSUME NEW weights \in Seq(Int), NEW initial, NEW total, NEW schedule,
           schedule.weights = weights, schedule.slices = Slices, ~ Refused(initial, total, schedule)
    PROVE  GoodWeights(weights, Slices)
  <1>1. Slices \in Nat \ {0}
    BY CalibrationAssumption
  <1>2. ASSUME weights # <<>>
        PROVE  /\ Len(weights) = Slices /\ Total(weights) > 0
               /\ \A i \in DOMAIN weights : weights[i] >= 0
    <2>1. /\ Len(weights) = Slices /\ ~ (Total(weights) <= 0)
          /\ ~ \E i \in DOMAIN weights : weights[i] < 0
      BY <1>2 DEF Refused
    <2>2. Total(weights) \in Int
      <3>1. DOMAIN weights = 1 .. Len(weights) /\ Len(weights) \in Nat
              /\ \A i \in 1 .. Len(weights) : weights[i] \in Int
        OBVIOUS
      <3> QED BY <3>1, TotalFacts
    <2> QED BY <2>1, <2>2
  <1> QED BY <1>1, <1>2 DEF GoodWeights

LEMMA QuoteKeepsParent ==
    ASSUME GridInv, ParentInv, Quote
    PROVE  ParentInv'
  <1>1. /\ config' = config /\ rows' = rows /\ replayer' = replayer /\ replay_batch' = replay_batch
        /\ size' = size /\ pc' = "slicing" /\ pc = "quote"
        /\ CallSliced(replayer, Future, config.side, Quantities[size], Schedule)
    BY DEF Quote, Unchanged
  <1>2. Quantities[size] \in Nat \ {0} /\ instant \in Int /\ config.duration \in Nat
    BY <1>1, AskedAtSample DEF AtSample
  <1>3. Future \in Seq(BookUpdate)
    BY FutureType DEF GridInv
  <1>4. SoundReplayer(replayer) /\ replay_batch \in Seq(BookUpdate)
        /\ config.side \in {"buy", "sell"} /\ config.weights \in Seq(Int)
    BY DEF ParentInv
  <1>5. PICK schedule : schedule = Schedule
    OBVIOUS
  <1>6. /\ schedule.start = instant /\ schedule.duration = config.duration
        /\ schedule.slices = Slices /\ schedule.weights = config.weights
    BY <1>5 DEF Schedule
  <1>7. /\ order' = [updates |-> Future, side |-> config.side, total |-> Quantities[size], schedule |-> schedule]
        /\ sim_phase' = IF Refused(replayer, Quantities[size], schedule) THEN "threw" ELSE "running"
        /\ sim' = replayer /\ cursor' = 0 /\ slot' = 1 /\ children' = <<>>
        /\ parent' = [requested |-> Quantities[size], filled |-> 0, notional |-> 0, levels_consumed |-> 0,
                      bid_at_entry |-> NoPrice, ask_at_entry |-> NoPrice,
                      crossed_at_entry |-> FALSE, worst_price |-> NoPrice,
                      slices_exhausted |-> 0, slices_beyond_validated_depth |-> 0,
                      slices_crossed |-> 0]
    BY <1>1, <1>5, Zenon DEF CallSliced
  <1>8. ASSUME ~ Refused(replayer, Quantities[size], schedule)
        PROVE  OrderInv'
    <2>1. GoodWeights(schedule.weights, Slices)
      BY <1>4, <1>6, <1>8, GoodWeightsOf
    <2>2. Slices \in Nat \ {0}
      BY CalibrationAssumption
    <2>3. AskedTo(Quantities[size], schedule, 0) = 0
      BY <1>2, <1>6, <2>1, AskedFacts
    <2>4. AskedBy(<<>>) = 0 /\ FilledBy(<<>>) = 0 /\ PaidBy(<<>>) = 0
      BY SumsOfNone
    <2>5. parent' \in Parents
      BY <1>2, <1>7 DEF Parents, NoPrice
    <2>6. /\ parent'.filled = 0 /\ parent'.notional = 0 /\ parent'.slices_exhausted = 0
          /\ parent'.worst_price = NoPrice
      BY <1>7
    <2>7. ASSUME NEW side PROVE SumsUp(parent', children', side)
      <3>1. children' = <<>> /\ children' \in Seq(SlicedRecords) /\ DOMAIN children' = {}
        BY <1>7
      <3>2. IsWorstOf(NoPrice, children', side)
        BY <3>1 DEF IsWorstOf
      <3> QED BY <2>4, <2>5, <2>6, <3>1, <3>2 DEF SumsUp, NoPrice
    <2>8. /\ order'.side = config'.side /\ order'.total = Quantities[size'] /\ order'.schedule = schedule
          /\ order'.updates \in Seq(BookUpdate)
      BY <1>1, <1>3, <1>7
    <2>9. /\ order'.schedule.start \in Int /\ order'.schedule.duration \in Nat
          /\ order'.schedule.slices = Slices /\ GoodWeights(order'.schedule.weights, Slices)
      BY <1>2, <1>6, <2>1, <2>8
    <2>10. AskedBy(children') = AskedTo(order'.total, order'.schedule, slot' - 1)
      <3>1. slot' - 1 = 0 /\ order'.total = Quantities[size] /\ order'.schedule = schedule /\ children' = <<>>
        BY <1>7
      <3> QED BY <2>3, <2>4, <3>1
    <2>11. /\ cursor' \in Nat /\ slot' \in 1 .. Slices + 1 /\ sim_phase' # "returned"
           /\ SoundReplayer(sim')
      BY <1>4, <1>7, <1>8, <2>2
    <2> QED BY <2>7, <2>8, <2>9, <2>10, <2>11 DEF OrderInv
  <1>9. (\A i \in 1 .. Len(rows) : IsWhole(rows[i]))'
    BY <1>1, SameSampled DEF ParentInv, IsWhole
  <1>10. sim_phase' \in {"running", "threw"} /\ (sim_phase' = "running" => OrderInv')
    BY <1>7, <1>8
  <1> QED BY <1>1, <1>4, <1>9, <1>10 DEF ParentInv

\* The simulator's steps leave the sampling as it is.
LEMMA SimStepKeeps ==
    ASSUME ParentInv, pc = "slicing", config' = config, rows' = rows, replayer' = replayer,
           replay_batch' = replay_batch, pc' = pc,
           sim_phase' \in {"running", "returned", "threw"},
           sim_phase' \in {"running", "returned"} => OrderInv'
    PROVE  ParentInv'
  <1>1. (\A i \in 1 .. Len(rows) : IsWhole(rows[i]))'
    BY SameSampled DEF ParentInv, IsWhole
  <1> QED BY <1>1 DEF ParentInv

LEMMA ApplyDueKeepsOrder ==
    ASSUME OrderInv, sim_phase = "running", ApplyDue, config' = config, size' = size,
           sim_phase' # "threw"
    PROVE  OrderInv'
  <1>1. cursor \in Nat /\ order.updates \in Seq(BookUpdate) /\ SoundReplayer(sim)
    BY DEF OrderInv
  <1>2. PICK row : row = order.updates[cursor + 1]
    OBVIOUS
  <1>3. row \in BookUpdate
    <2>1. cursor + 1 \in 1 .. Len(order.updates)
      BY <1>1 DEF ApplyDue, HasDue
    <2> QED BY <1>1, <1>2, <2>1
  <1>4. /\ sim' = AfterApply(sim, row) /\ cursor' = cursor + 1 /\ sim_phase' = "running"
        /\ order' = order /\ slot' = slot /\ children' = children /\ parent' = parent
    BY <1>2 DEF ApplyDue
  <1>5. SoundReplayer(sim')
    BY <1>1, <1>3, <1>4, SoundAfterApply
  <1>6. cursor' \in Nat
    BY <1>1, <1>4
  <1> QED BY <1>4, <1>5, <1>6 DEF OrderInv

LEMMA SlotFacts ==
    ASSUME OrderInv, InSlot, order.total \in Nat \ {0}
    PROVE  /\ slot \in 1 .. Slices /\ slot + 1 \in 1 .. Slices + 1 /\ (slot + 1) - 1 = slot
           /\ SlotSize \in Nat
           /\ AskedTo(order.total, order.schedule, slot)
                = AskedTo(order.total, order.schedule, slot - 1) + SlotSize
  <1>1. /\ slot \in 1 .. Slices + 1 /\ order.schedule.slices = Slices /\ slot <= order.schedule.slices
        /\ GoodWeights(order.schedule.weights, Slices)
    BY DEF OrderInv, InSlot
  <1>2. Slices \in Nat \ {0}
    BY CalibrationAssumption
  <1>3. slot \in 1 .. Slices /\ slot + 1 \in 1 .. Slices + 1 /\ (slot + 1) - 1 = slot
    BY <1>1, <1>2
  <1>4a. PICK total \in Nat \ {0} : total = order.total
    OBVIOUS
  <1>4. PICK schedule : schedule = order.schedule /\ total = order.total
    BY <1>4a
  <1>5. \A k \in 1 .. Slices :
           /\ SliceQuantities(total, schedule)[k] \in Nat
           /\ AskedTo(total, schedule, k)
                = AskedTo(total, schedule, k - 1) + SliceQuantities(total, schedule)[k]
    BY <1>1, <1>4, AskedFacts
  <1> QED BY <1>3, <1>4, <1>5 DEF SlotSize

LEMMA SkipSlotKeepsOrder ==
    ASSUME OrderInv, order.total \in Nat \ {0}, SkipSlot, config' = config, size' = size
    PROVE  OrderInv'
  <1>1. /\ slot' = slot + 1 /\ order' = order /\ sim_phase' = sim_phase /\ sim' = sim /\ cursor' = cursor
        /\ children' = children /\ parent' = parent /\ InSlot /\ SlotSize <= 0
    BY DEF SkipSlot
  <1>2. /\ slot + 1 \in 1 .. Slices + 1 /\ (slot + 1) - 1 = slot /\ SlotSize = 0
        /\ AskedTo(order.total, order.schedule, slot)
             = AskedTo(order.total, order.schedule, slot - 1) + SlotSize
    BY <1>1, SlotFacts
  <1>3. AskedBy(children) \in Int
    <2>1. /\ children \in Seq(SlicedRecords) /\ DOMAIN children = 1 .. Len(children) /\ Len(children) \in Nat
          /\ \A j \in DOMAIN children : SoundFill(children[j].fill, ConsumedSide(config.side))
      BY DEF OrderInv, SumsUp
    <2>2. PICK a : a = [j \in DOMAIN children |-> children[j].fill.requested]
      OBVIOUS
    <2>3. DOMAIN a = 1 .. Len(children) /\ \A j \in 1 .. Len(children) : a[j] \in Int
      BY <2>1, <2>2 DEF SoundFill, FillRecords
    <2> QED BY <2>1, <2>2, <2>3, TotalFacts DEF AskedBy
  <1>4. AskedBy(children) = AskedTo(order.total, order.schedule, slot)
    <2>1. AskedBy(children) = AskedTo(order.total, order.schedule, slot - 1)
      BY DEF OrderInv
    <2> QED BY <1>2, <1>3, <2>1
  <1>5. sim_phase' # "returned"
    BY <1>1 DEF InSlot
  <1>6. AskedBy(children') = AskedTo(order'.total, order'.schedule, slot' - 1)
    BY <1>1, <1>2, <1>4
  <1> QED BY <1>1, <1>2, <1>5, <1>6 DEF OrderInv

LEMMA ExecuteSlotKeepsOrder ==
    ASSUME OrderInv, order.total \in Nat \ {0}, ExecuteSlot, config' = config, size' = size
    PROVE  OrderInv'
  <1>1. /\ InSlot /\ SlotSize > 0 /\ slot' = slot + 1
        /\ order' = order /\ sim_phase' = sim_phase /\ cursor' = cursor
    BY DEF ExecuteSlot
  <1>2. PICK side \in Side : side = ConsumedSide(order.side) /\ side = ConsumedSide(config.side)
    BY ConsumedIsASide DEF OrderInv
  <1>3. /\ slot \in 1 .. Slices /\ slot + 1 \in 1 .. Slices + 1 /\ (slot + 1) - 1 = slot
        /\ SlotSize \in Nat \ {0}
        /\ AskedTo(order.total, order.schedule, slot)
             = AskedTo(order.total, order.schedule, slot - 1) + SlotSize
    BY <1>1, SlotFacts
  <1>4. PICK quantity \in Nat \ {0} : quantity = SlotSize
    BY <1>3
  <1>5. PICK fill : fill = Walk(sim.book, order.side, quantity)
    OBVIOUS
  <1>6. PICK book : book = Depleted(sim.book, order.side, fill)
    OBVIOUS
  <1>7. PICK at : at = SliceTime(order.schedule, slot)
    OBVIOUS
  <1>8. PICK slice : slice = [at |-> at, fill |-> fill]
    OBVIOUS
  <1>9. /\ sim' = [sim EXCEPT !.book = book]
        /\ children' = Append(children, slice)
        /\ parent' = WithChild(parent, fill, children = <<>>)
    BY <1>4, <1>5, <1>6, <1>7, <1>8 DEF ExecuteSlot
  <1>10. SoundReplayer(sim) /\ SoundBook(sim.book)
    BY DEF OrderInv, SoundReplayer
  <1>11. SoundFill(fill, side) /\ fill.requested = quantity
    <2>1. PICK old : old = sim.book
      OBVIOUS
    <2>2. PICK order_side : order_side = order.side
      OBVIOUS
    <2>3. SoundBook(old) /\ side = ConsumedSide(order_side) /\ fill = Walk(old, order_side, quantity)
      BY <1>2, <1>5, <1>10, <2>1, <2>2
    <2> QED BY <2>3, WalkFacts
  <1>12. SoundBook(book)
    BY <1>2, <1>5, <1>6, <1>10, SoundAfterDepleted
  <1>13. SoundReplayer(sim')
    <2>1. book \in Books /\ sim \in Replayers
      BY <1>10, <1>12 DEF SoundBook, SoundReplayer
    <2>2. sim' \in Replayers /\ sim'.book = book
      BY <1>9, <2>1 DEF Replayers
    <2> QED BY <1>12, <2>2 DEF SoundReplayer
  <1>14. at \in Int
    <2>1. /\ order.schedule.start \in Int /\ order.schedule.duration \in Nat
          /\ order.schedule.slices = Slices
      BY DEF OrderInv
    <2>2. PICK s \in Int, d \in Nat, n \in Nat \ {0}, k \in Nat :
             /\ s = order.schedule.start /\ d = order.schedule.duration /\ n = order.schedule.slices
             /\ k = slot - 1
      BY <1>3, <2>1, CalibrationAssumption
    <2>3. at = s + (d * k) \div n
      BY <1>7, <2>2 DEF SliceTime
    <2>4. PICK x \in Int : x = d * k
      OBVIOUS
    <2>5. x \div n \in Int
      BY DivMod
    <2> QED BY <2>3, <2>4, <2>5
  <1>15. (children = <<>>) \in BOOLEAN
    OBVIOUS
  <1>16. PICK first \in BOOLEAN : first = (children = <<>>)
    BY <1>15
  <1>17. SumsUp(parent, children, side) /\ AskedBy(children) = AskedTo(order.total, order.schedule, slot - 1)
    BY <1>2 DEF OrderInv
  <1>18. /\ SumsUp(WithChild(parent, fill, first), Append(children, slice), side)
         /\ AskedBy(Append(children, slice)) = AskedBy(children) + fill.requested
    BY <1>2, <1>8, <1>11, <1>14, <1>17, SumsUpOneMore
  <1>19. SumsUp(parent', children', side)
    BY <1>9, <1>16, <1>18
  <1>20. AskedBy(children') = AskedTo(order'.total, order'.schedule, slot' - 1)
    <2>1. AskedBy(children') = AskedBy(children) + quantity
      BY <1>9, <1>11, <1>18
    <2>2. AskedTo(order'.total, order'.schedule, slot' - 1) = AskedTo(order.total, order.schedule, slot)
      BY <1>1, <1>3
    <2> QED BY <1>3, <1>4, <1>17, <2>1, <2>2
  <1>21. sim_phase' # "returned"
    BY <1>1 DEF InSlot
  <1>22. slot' \in 1 .. Slices + 1
    BY <1>1, <1>3
  <1>23. SumsUp(parent', children', ConsumedSide(config'.side))
    BY <1>2, <1>19
  <1> QED BY <1>1, <1>13, <1>20, <1>21, <1>22, <1>23 DEF OrderInv

LEMMA EndOrderKeepsOrder ==
    ASSUME OrderInv, EndOrder, config' = config, size' = size
    PROVE  OrderInv'
  <1>1. /\ order' = order /\ sim' = sim /\ cursor' = cursor /\ slot' = slot
        /\ children' = children /\ parent' = parent /\ slot > order.schedule.slices
    BY DEF EndOrder
  <1>2. slot' = Slices + 1
    <2>1. slot \in 1 .. Slices + 1 /\ order.schedule.slices = Slices
      BY DEF OrderInv
    <2> QED BY <1>1, <2>1, CalibrationAssumption
  <1> QED BY <1>1, <1>2 DEF OrderInv

LEMMA SimNextKeepsParent ==
    ASSUME GridInv, ParentInv, pc = "slicing", SimNext,
           UNCHANGED <<file, config, position, pending, replay_batch, replayer, applied, threshold,
                       instant, size, static, rows, pc>>
    PROVE  ParentInv'
  <1>1. /\ config' = config /\ rows' = rows /\ replayer' = replayer /\ replay_batch' = replay_batch
        /\ pc' = pc /\ size' = size
    OBVIOUS
  <1>2. sim_phase = "running"
    BY DEF SimNext, ApplyDue, SkipSlot, ExecuteSlot, EndOrder, InSlot
  <1>3. OrderInv
    BY <1>2 DEF ParentInv
  <1>4. order.total \in Nat \ {0}
    BY <1>3, AskedAtSample DEF AtSample, OrderInv
  <1>5. CASE ApplyDue
    <2>1. sim_phase' \in {"running", "threw"}
      BY <1>5 DEF ApplyDue
    <2>2. sim_phase' # "threw" => OrderInv'
      BY <1>1, <1>2, <1>3, <1>5, ApplyDueKeepsOrder
    <2> QED BY <1>1, <2>1, <2>2, SimStepKeeps
  <1>6. CASE SkipSlot
    <2>1. sim_phase' = "running"
      BY <1>2, <1>6 DEF SkipSlot
    <2>2. OrderInv'
      BY <1>1, <1>3, <1>4, <1>6, SkipSlotKeepsOrder
    <2> QED BY <1>1, <2>1, <2>2, SimStepKeeps
  <1>7. CASE ExecuteSlot
    <2>1. sim_phase' = "running"
      BY <1>2, <1>7 DEF ExecuteSlot
    <2>2. OrderInv'
      BY <1>1, <1>3, <1>4, <1>7, ExecuteSlotKeepsOrder
    <2> QED BY <1>1, <2>1, <2>2, SimStepKeeps
  <1>8. CASE EndOrder
    <2>1. sim_phase' = "returned"
      BY <1>8 DEF EndOrder
    <2>2. OrderInv'
      BY <1>1, <1>3, <1>8, EndOrderKeepsOrder
    <2> QED BY <1>1, <2>1, <2>2, SimStepKeeps
  <1> QED BY <1>5, <1>6, <1>7, <1>8 DEF SimNext

LEMMA RecordKeepsParent ==
    ASSUME GridInv, ParentInv, Record
    PROVE  ParentInv'
  <1>1. PICK row : row = [event_count |-> applied, timestamp |-> instant, size |-> size,
                          static |-> static, sliced |-> parent, slices |-> children]
    OBVIOUS
  <1>2. /\ pc = "slicing" /\ sim_phase = "returned" /\ pc' # "slicing" /\ rows' = Append(rows, row)
        /\ config' = config /\ replayer' = replayer /\ replay_batch' = replay_batch
    BY <1>1 DEF Record, Unchanged
  <1>3. OrderInv
    BY <1>2 DEF ParentInv
  <1>4. order.total \in Nat \ {0} /\ order.total = Quantities[size]
    BY <1>2, <1>3, AskedAtSample DEF AtSample, OrderInv
  <1>5. /\ slot = Slices + 1 /\ SumsUp(parent, children, ConsumedSide(config.side))
        /\ AskedBy(children) = AskedTo(order.total, order.schedule, slot - 1)
        /\ order.schedule.slices = Slices /\ GoodWeights(order.schedule.weights, Slices)
    BY <1>2, <1>3 DEF OrderInv
  <1>6. AskedTo(order.total, order.schedule, Slices) = order.total
    <2>1. PICK total \in Nat \ {0} : total = order.total
      BY <1>4
    <2>2. PICK schedule : schedule = order.schedule
      OBVIOUS
    <2> QED BY <1>5, <2>1, <2>2, AskedFacts
  <1>7. slot - 1 = Slices
    BY <1>5, CalibrationAssumption
  <1>8. row.sliced = parent /\ row.slices = children /\ row.size = size
    BY <1>1
  <1>9. IsWhole(row)
    BY <1>4, <1>5, <1>6, <1>7, <1>8 DEF IsWhole
  <1>10. PICK n \in Nat : n = Len(rows)
    BY DEF GridInv, RowsInv
  <1>11. Len(rows') = n + 1 /\ rows'[n + 1] = row /\ \A i \in 1 .. n : rows'[i] = rows[i]
    <2>1. rows \in Seq(Range(rows))
      BY DEF GridInv, RowsInv
    <2> QED BY <1>2, <1>10, <2>1
  <1>12. \A i \in 1 .. Len(rows') : IsWhole(rows'[i])
    <2>1. \A i \in 1 .. n : IsWhole(rows[i])
      BY <1>10 DEF ParentInv
    <2>2. \A i \in 1 .. n + 1 : i \in 1 .. n \/ i = n + 1
      BY <1>10
    <2> QED BY <1>9, <1>11, <2>1, <2>2
  <1>13. (\A i \in 1 .. Len(rows) : IsWhole(rows[i]))'
    BY <1>2, <1>12 DEF IsWhole
  <1> QED BY <1>2, <1>13 DEF ParentInv

(* Between any two steps of the sampling, an order in hand has asked for   *)
(* what its schedule gives the slices so far, its total is the sum of what *)
(* they took, and the same holds of every row of samples                   *)
(* (slice_quantities, simulate_sliced_execution_from_state).               *)
THEOREM ParentInvariant == CalibrationSpec => []ParentInv
  <1>1. CalibrationInit => ParentInv
    BY ParentHoldsAtStart
  <1>2. GridInv /\ ParentInv /\ [CalibrationNext]_calibrationVars => ParentInv'
    <2> SUFFICES ASSUME GridInv, ParentInv, [CalibrationNext]_calibrationVars
                 PROVE  ParentInv'
      OBVIOUS
    <2>1. CASE TakeGroup
      BY <2>1, TakeGroupKeepsParent
    <2>2. CASE Replay \/ Finish
      BY <2>2, ReplayKeepsParent
    <2>3. CASE LookAhead \/ LookedAhead \/ SlicedThrows
      BY <2>3, LookingKeepsParent
    <2>4. CASE Quote
      BY <2>4, QuoteKeepsParent
    <2>5. CASE Record
      BY <2>5, RecordKeepsParent
    <2>6. CASE /\ pc = "slicing" /\ SimNext
               /\ UNCHANGED <<file, config, position, pending, replay_batch, replayer, applied, threshold,
                              instant, size, static, rows, pc>>
      BY <2>6, SimNextKeepsParent
    <2>7. CASE UNCHANGED calibrationVars
      <3>1. /\ config' = config /\ rows' = rows /\ replayer' = replayer /\ replay_batch' = replay_batch
            /\ pc' = pc /\ size' = size /\ order' = order /\ sim_phase' = sim_phase /\ sim' = sim
            /\ cursor' = cursor /\ slot' = slot /\ children' = children /\ parent' = parent
        BY <2>7 DEF calibrationVars, simVars
      <3>2. (\A i \in 1 .. Len(rows) : IsWhole(rows[i]))'
        BY <3>1, SameSampled DEF ParentInv, IsWhole
      <3>3. OrderInv => OrderInv'
        BY <3>1 DEF OrderInv
      <3> QED BY <3>1, <3>2, <3>3 DEF ParentInv
    <2> QED BY <2>1, <2>2, <2>3, <2>4, <2>5, <2>6, <2>7 DEF CalibrationNext
  <1> QED BY <1>1, <1>2, GridInvariant, PTL DEF CalibrationSpec

\* What is whole is what the property asks of a row.
LEMMA WholeRow ==
    ASSUME NEW row, IsWhole(row)
    PROVE  LET children_of(Op(_)) == Total([j \in DOMAIN row.slices |-> Op(row.slices[j].fill)])
           IN  /\ children_of(LAMBDA f : f.requested) = Quantities[row.size]
               /\ children_of(Filled) = row.sliced.filled
               /\ children_of(Notional) = row.sliced.notional
               /\ Completed(row.sliced) <=> row.sliced.filled = Quantities[row.size]
               /\ \A f \in Fills(row) : \A k \in DOMAIN f.takes :
                     ~ IsBetter(ConsumedSide(config.side), row.sliced.worst_price, f.takes[k].price)
               /\ row.sliced.filled > 0 =>
                     \E f \in Fills(row) : WorstPrice(f) = row.sliced.worst_price
  <1>1. PICK side \in Side : side = ConsumedSide(config.side)
    BY ConsumedIsASide
  <1>2. PICK whole, slices : whole = row.sliced /\ slices = row.slices
    OBVIOUS
  <1>3. SumsUp(whole, slices, side) /\ AskedBy(slices) = Quantities[row.size]
    BY <1>1, <1>2 DEF IsWhole
  <1>4. /\ whole \in Parents /\ \A j \in DOMAIN slices : SoundFill(slices[j].fill, side)
        /\ whole.filled = FilledBy(slices) /\ whole.notional = PaidBy(slices)
        /\ (whole.slices_exhausted = 0 <=> whole.filled = AskedBy(slices))
        /\ IsWorstOf(whole.worst_price, slices, side)
        /\ whole.worst_price \in Int
        /\ (whole.worst_price = NoPrice => whole.filled = 0)
    BY <1>3 DEF SumsUp, Parents
  <1>5. ASSUME NEW f \in Fills(row), NEW k \in DOMAIN f.takes
        PROVE  ~ IsBetter(side, whole.worst_price, f.takes[k].price)
    <2>1. PICK j \in DOMAIN slices : f = slices[j].fill
      BY <1>2 DEF Fills
    <2>2. SoundFill(f, side)
      BY <1>4, <2>1
    <2>3. /\ f.takes \in Seq(Levels) /\ WorstPrice(f) \in Nat /\ f.takes[k].price > 0
          /\ ~ IsBetter(side, WorstPrice(f), f.takes[k].price)
      BY <2>2 DEF SoundFill, FillRecords
    <2>4. /\ f.takes # <<>> /\ k \in 1 .. Len(f.takes) /\ Len(f.takes) \in DOMAIN f.takes
          /\ f.takes[k] \in Levels
      BY <2>3
    <2>5. WorstPrice(f) = f.takes[Len(f.takes)].price
      BY <2>4 DEF WorstPrice, Last
    <2>6. WorstPrice(f) > 0
      BY <2>2, <2>4, <2>5 DEF SoundFill
    <2>7. f.takes[k].price \in Int
      BY <2>4 DEF Levels
    <2>8. whole.worst_price # NoPrice /\ ~ IsBetter(side, whole.worst_price, WorstPrice(f))
      <3>1. WorstPrice(f) # NoPrice
        BY <2>6 DEF NoPrice
      <3> QED BY <1>4, <2>1, <3>1, Zenon DEF IsWorstOf
    <2>9. PICK a \in Int, b \in Int, c \in Int :
             a = whole.worst_price /\ b = WorstPrice(f) /\ c = f.takes[k].price
      BY <1>4, <2>3, <2>7
    <2>10. ~ IsBetter(side, a, b) /\ ~ IsBetter(side, b, c)
      BY <2>3, <2>8, <2>9
    <2>11. ~ IsBetter(side, a, c)
      BY <2>10 DEF IsBetter
    <2> QED BY <2>9, <2>11
  <1>6. ASSUME whole.filled > 0
        PROVE  \E f \in Fills(row) : WorstPrice(f) = whole.worst_price
    <2>1. whole.worst_price # NoPrice
      BY <1>4, <1>6
    <2>2. PICK j \in DOMAIN slices : WorstPrice(slices[j].fill) = whole.worst_price
      BY <1>4, <2>1, Zenon DEF IsWorstOf
    <2> QED BY <1>2, <2>2 DEF Fills
  <1>7. /\ Total([j \in DOMAIN slices |-> slices[j].fill.requested]) = Quantities[row.size]
        /\ Total([j \in DOMAIN slices |-> Filled(slices[j].fill)]) = whole.filled
        /\ Total([j \in DOMAIN slices |-> Notional(slices[j].fill)]) = whole.notional
    BY <1>3, <1>4 DEF AskedBy, FilledBy, PaidBy
  <1>8. Completed(whole) <=> whole.filled = Quantities[row.size]
    BY <1>3, <1>4 DEF Completed
  <1> QED BY <1>1, <1>2, <1>5, <1>6, <1>7, <1>8

(* Whatever the day, the sizes, the weights and the books: the slices of   *)
(* an order ask for all of it, get what it got, and it is complete exactly *)
(* when it got everything (slice_quantities,                               *)
(* simulate_sliced_execution_from_state).                                  *)
THEOREM ParentIsAlwaysTheSum == CalibrationSpec => []ParentIsTheSumOfItsSlices
  <1>1. ParentInv => ParentIsTheSumOfItsSlices
    <2> SUFFICES ASSUME ParentInv PROVE ParentIsTheSumOfItsSlices
      OBVIOUS
    <2>1. \A i \in 1 .. Len(rows) : IsWhole(rows[i])
      BY DEF ParentInv
    <2> QED BY <2>1, WholeRow, Zenon DEF ParentIsTheSumOfItsSlices
  <1> QED BY <1>1, ParentInvariant, PTL

(***************************************************************************)
(* Orders cut in two.                                                      *)
(***************************************************************************)

\* The levels of a side without the first k.
IsRest(rest, levels, k) ==
    /\ rest \in Seq(Levels) /\ Len(rest) = Len(levels) - k
    /\ \A i \in 1 .. Len(levels) - k : rest[i] = levels[k + i]

\* A row on the best price takes its level out or restates it.
LEMMA BestLevelApplied ==
    ASSUME NEW side \in Side, NEW levels \in Seq(Levels), Sorted(levels, side), NEW n \in Nat,
           Len(levels) = n, n > 0, NEW price, price = levels[1].price, NEW quantity \in Nat,
           NEW new, new = AppliedLevels(levels, side, price, quantity)
    PROVE  /\ quantity = 0 => IsRest(new, levels, 1)
           /\ quantity # 0 => /\ new \in Seq(Levels) /\ Len(new) = n
                              /\ new[1].price = price /\ new[1].quantity = quantity
                              /\ \A i \in 2 .. n : new[i] = levels[i]
  <1>1. \A i \in 1 .. n : levels[i] \in Levels /\ levels[i].price \in Int /\ levels[i].quantity \in Int
    <2>1. \A i \in 1 .. n : levels[i] \in Levels
      OBVIOUS
    <2> QED BY <2>1 DEF Levels
  <1>2. price \in Int /\ 1 \in 1 .. n
    BY <1>1
  <1>3. PICK pos : pos = LowerBound(levels, side, price)
    OBVIOUS
  <1>4. pos = 1
    <2>1. /\ pos \in 1 .. n + 1
          /\ \A i \in 1 .. pos - 1 : IsBetter(side, levels[i].price, price)
      BY <1>2, <1>3, SearchFacts
    <2>2. ~ IsBetter(side, price, price)
      BY <1>2 DEF IsBetter
    <2>3. pos > 1 => 1 \in 1 .. pos - 1
      BY <2>1
    <2> QED BY <2>1, <2>2, <2>3
  <1>5. pos <= Len(levels) /\ levels[pos].price = price
    BY <1>4
  <1>6. CASE quantity = 0
    <2>1. new = RemoveAt(levels, 1)
      BY <1>3, <1>4, <1>5, <1>6 DEF AppliedLevels
    <2>2. /\ new \in Seq(Levels) /\ Len(new) = Len(levels) - 1
          /\ \A i \in 1 .. Len(levels) - 1 : new[i] = levels[i + 1]
      BY <1>2, <2>1, RemovedFacts
    <2>3. \A i \in 1 .. n - 1 : i + 1 = 1 + i
      OBVIOUS
    <2> QED BY <1>6, <2>2, <2>3 DEF IsRest
  <1>7. CASE quantity # 0
    <2>1. new = [levels EXCEPT ![1].quantity = quantity]
      BY <1>3, <1>4, <1>5, <1>7 DEF AppliedLevels
    <2>2. PICK l : l = [levels[1] EXCEPT !.quantity = quantity]
      OBVIOUS
    <2>3. l \in Levels /\ l.price = price /\ l.quantity = quantity
      BY <1>1, <1>2, <2>2 DEF Levels
    <2>4. new = [levels EXCEPT ![1] = l]
      BY <2>1, <2>2
    <2>5. new \in Seq(Levels) /\ Len(new) = n /\ new[1] = l /\ \A i \in 2 .. n : new[i] = levels[i]
      BY <2>3, <2>4
    <2> QED BY <1>7, <2>3, <2>5
  <1> QED BY <1>6, <1>7

\* How deep a side is after each of its levels.
AreDepths(D, levels, n) ==
    /\ D \in [0 .. n -> Nat] /\ D[0] = 0
    /\ \A k \in 1 .. n : D[k] = D[k - 1] + levels[k].quantity /\ D[k - 1] < D[k]
    /\ \A i, j \in 0 .. n : i <= j => D[i] <= D[j]
    /\ \A k \in 0 .. n : Depth(levels, k) = D[k]

LEMMA DepthsOf ==
    ASSUME NEW book, SoundBook(book), NEW side \in Side, NEW levels, levels = book[side],
           NEW n, n = Len(levels)
    PROVE  /\ n \in Nat /\ levels \in Seq(Levels) /\ Sorted(levels, side)
           /\ \A i \in 1 .. n : /\ levels[i].price \in Int /\ levels[i].price > 0
                                /\ levels[i].quantity \in Nat \ {0}
           /\ \E D : AreDepths(D, levels, n)
  <1>1. /\ n \in Nat /\ levels \in Seq(Levels) /\ Sorted(levels, side) /\ DOMAIN levels = 1 .. n
        /\ \A i \in 1 .. n : /\ levels[i].price \in Int /\ levels[i].price > 0
                             /\ levels[i].quantity \in Nat \ {0}
    BY SoundLevels
  <1>2. PICK q : q = [i \in 1 .. n |-> levels[i].quantity]
    OBVIOUS
  <1>3. DOMAIN q = 1 .. n /\ \A i \in 1 .. n : q[i] = levels[i].quantity /\ q[i] \in Nat \ {0}
    BY <1>1, <1>2
  <1>4. PICK D : AreSums(D, q, n) /\ \A k \in 0 .. n : Depth(levels, k) = D[k]
    <2>0. PICK m \in Nat : m = n
      BY <1>1
    <2>1. PICK l : l = levels /\ m = n
      BY <2>0
    <2>2. DOMAIN l = 1 .. m
      BY <1>1, <2>1
    <2>3. DOMAIN q = 1 .. m
      BY <1>3, <2>1
    <2>4. \A i \in 1 .. m : l[i].quantity \in Int
      BY <1>1, <2>1
    <2>5. \A i \in 1 .. m : q[i] = l[i].quantity
      BY <1>3, <2>1
    <2>6. \E D : AreSums(D, q, m) /\ \A k \in 0 .. m : Depth(l, k) = D[k]
      BY <2>2, <2>3, <2>4, <2>5, DepthFacts
    <2> QED BY <2>1, <2>6
  <1>5. D \in [0 .. n -> Int] /\ D[0] = 0
    BY <1>4 DEF AreSums
  <1>6. \A i, j \in 0 .. n : i <= j => D[i] <= D[j]
    BY <1>1, <1>3, <1>4, SumsGrow
  <1>7. \A k \in 0 .. n : D[k] \in Nat
    <2>1. \A k \in 0 .. n : D[k] \in Int /\ 0 \in 0 .. n /\ 0 <= k
      BY <1>5
    <2> QED BY <1>5, <1>6, <2>1
  <1>8. ASSUME NEW k \in 1 .. n PROVE D[k] = D[k - 1] + levels[k].quantity /\ D[k - 1] < D[k]
    <2>1. k - 1 \in 0 .. n - 1 /\ k - 1 \in 0 .. n /\ (k - 1) + 1 = k
      OBVIOUS
    <2>2. D[(k - 1) + 1] = D[k - 1] + q[(k - 1) + 1]
      BY <1>4, <2>1 DEF AreSums
    <2>3. D[k] = D[k - 1] + q[k] /\ q[k] = levels[k].quantity /\ q[k] \in Nat \ {0}
      BY <1>3, <2>1, <2>2
    <2>4. D[k - 1] \in Nat
      BY <1>7, <2>1
    <2> QED BY <2>3, <2>4
  <1>9. AreDepths(D, levels, n)
    BY <1>4, <1>5, <1>6, <1>7, <1>8 DEF AreDepths
  <1> QED BY <1>1, <1>9

Least(a, b) == IF a <= b THEN a ELSE b

\* The levels a walk touches, and what it takes from each.
TakesOf(fill, levels, n, D, quantity, t) ==
    /\ t \in 0 .. n /\ (t = 0 <=> n = 0)
    /\ \A i \in 1 .. t : D[i - 1] < quantity
    /\ t < n => D[t] >= quantity
    /\ DOMAIN fill.takes = 1 .. t
    /\ \A i \in 1 .. t : /\ fill.takes[i].price = levels[i].price
                         /\ fill.takes[i].quantity = Least(D[i], quantity) - D[i - 1]

LEMMA WalkTakes ==
    ASSUME NEW book, NEW order_side, NEW side, side = ConsumedSide(order_side),
           NEW levels, levels = book[side], NEW n \in Nat, n = Len(levels),
           \A i \in 1 .. n : levels[i].quantity \in Nat \ {0},
           NEW D, AreDepths(D, levels, n), NEW quantity \in Nat \ {0},
           NEW fill, fill = Walk(book, order_side, quantity)
    PROVE  \E t : TakesOf(fill, levels, n, D, quantity, t)
  <1>1. PICK q : q = [i \in 1 .. n |-> levels[i].quantity]
    OBVIOUS
  <1>2. \A i \in 1 .. n : q[i] = levels[i].quantity /\ q[i] \in Nat
    BY <1>1
  <1>3. AreSums(D, q, n)
    <2>1. D \in [0 .. n -> Int] /\ D[0] = 0
      BY DEF AreDepths
    <2>2. ASSUME NEW k \in 0 .. n - 1 PROVE D[k + 1] = D[k] + q[k + 1]
      <3>1. k + 1 \in 1 .. n /\ (k + 1) - 1 = k
        OBVIOUS
      <3>2. D[k + 1] = D[(k + 1) - 1] + levels[k + 1].quantity
        BY <3>1 DEF AreDepths
      <3> QED BY <1>2, <3>1, <3>2
    <2> QED BY <2>1, <2>2 DEF AreSums
  <1>4. \A k \in 0 .. n : Depth(levels, k) = D[k] /\ D[k] \in Nat
    BY DEF AreDepths
  <1>5. PICK t : t = Touched(levels, quantity)
    OBVIOUS
  <1>6. /\ t \in 0 .. n /\ (t = 0 <=> n = 0)
        /\ \A i \in 1 .. t : D[i - 1] < quantity
        /\ t < n => D[t] >= quantity
    BY <1>2, <1>3, <1>4, <1>5, TouchedFacts
  <1>7. PICK takes : takes = [i \in 1 .. t |-> Level(levels[i].price, Taken(levels, quantity, i))]
    OBVIOUS
  <1>8. fill.takes = takes
    BY <1>5, <1>7 DEF Walk
  <1>9. ASSUME NEW i \in 1 .. t
        PROVE  /\ takes[i].price = levels[i].price
               /\ takes[i].quantity = Least(D[i], quantity) - D[i - 1]
    <2>1. takes[i].price = levels[i].price /\ takes[i].quantity = Taken(levels, quantity, i)
      BY <1>7 DEF Level
    <2>2. i \in 1 .. n /\ i - 1 \in 0 .. n /\ i \in 0 .. n
      BY <1>6
    <2>3. PICK a \in Nat, b \in Nat, c \in Nat :
             a = D[i - 1] /\ b = D[i] /\ c = levels[i].quantity
      BY <1>4, <2>2
    <2>4. b = a + c /\ a < quantity
      BY <1>6, <2>2, <2>3 DEF AreDepths
    <2>5. Taken(levels, quantity, i) = IF quantity - a < c THEN quantity - a ELSE c
      BY <1>4, <2>2, <2>3 DEF Taken
    <2>6. Taken(levels, quantity, i) = Least(b, quantity) - a
      BY <2>4, <2>5 DEF Least
    <2> QED BY <2>1, <2>3, <2>6
  <1>10. DOMAIN fill.takes = 1 .. t
    BY <1>7, <1>8
  <1> QED BY <1>6, <1>8, <1>9, <1>10 DEF TakesOf

\* What a walk of x leaves: s levels are gone, and the next one holds what the walk left of it.
IsLeft(new, levels, n, D, x, s) ==
    /\ s \in 0 .. n /\ D[s] <= x /\ (s < n => x < D[s + 1])
    /\ new \in Seq(Levels) /\ Len(new) = n - s
    /\ \A i \in 1 .. n - s :
          /\ new[i].price = levels[s + i].price
          /\ new[i].quantity = IF i = 1 THEN D[s + 1] - x ELSE levels[s + i].quantity

LEMMA DepletedLevels ==
    ASSUME NEW book, SoundBook(book), NEW order_side, NEW side \in Side, side = ConsumedSide(order_side),
           NEW levels, levels = book[side], NEW n, n = Len(levels),
           NEW D, AreDepths(D, levels, n), NEW quantity \in Nat \ {0},
           NEW fill, fill = Walk(book, order_side, quantity)
    PROVE  \E s : IsLeft(Depleted(book, order_side, fill)[side], levels, n, D, quantity, s)
  <1>1. /\ n \in Nat /\ levels \in Seq(Levels) /\ Sorted(levels, side)
        /\ \A i \in 1 .. n : /\ levels[i].price \in Int /\ levels[i].price > 0
                             /\ levels[i].quantity \in Nat \ {0}
    BY DepthsOf
  <1>2. PICK t : TakesOf(fill, levels, n, D, quantity, t)
    BY <1>1, WalkTakes
  <1>3. /\ t \in 0 .. n /\ t \in Nat /\ (t = 0 <=> n = 0) /\ (t < n => D[t] >= quantity)
        /\ DOMAIN fill.takes = 1 .. t
        /\ \A i \in 1 .. t : D[i - 1] < quantity
    BY <1>1, <1>2 DEF TakesOf
  <1>4. PICK left : left = LeftOf(book, side, fill)
    OBVIOUS
  <1>5. \A i \in 1 .. t : /\ left[i].price = levels[i].price
                          /\ left[i].quantity = IF D[i] <= quantity THEN 0 ELSE D[i] - quantity
                          /\ i \in 1 .. n /\ D[i] \in Nat
    <2> SUFFICES ASSUME NEW i \in 1 .. t
                 PROVE  /\ left[i].price = levels[i].price
                        /\ left[i].quantity = IF D[i] <= quantity THEN 0 ELSE D[i] - quantity
                        /\ i \in 1 .. n /\ D[i] \in Nat
      OBVIOUS
    <2>1. left[i] = Level(fill.takes[i].price, levels[i].quantity - fill.takes[i].quantity)
      BY <1>3, <1>4 DEF LeftOf
    <2>2. left[i].price = fill.takes[i].price
          /\ left[i].quantity = levels[i].quantity - fill.takes[i].quantity
      BY <2>1 DEF Level
    <2>3. i \in 1 .. n /\ i \in 0 .. n /\ i - 1 \in 0 .. n
      BY <1>1, <1>3
    <2>4. PICK a \in Nat, b \in Nat, c \in Nat :
             a = D[i - 1] /\ b = D[i] /\ c = levels[i].quantity
      BY <1>1, <2>3 DEF AreDepths
    <2>5. b = a + c
      BY <2>3, <2>4 DEF AreDepths
    <2>6. fill.takes[i].price = levels[i].price /\ fill.takes[i].quantity = Least(b, quantity) - a
      BY <1>2, <2>4 DEF TakesOf
    <2>7. c - (Least(b, quantity) - a) = IF b <= quantity THEN 0 ELSE b - quantity
      BY <2>5 DEF Least
    <2> QED BY <2>2, <2>3, <2>4, <2>6, <2>7
  <1>6. PICK g : IsFoldOf(side, g, book, left, t) /\ Depleted(book, order_side, fill) = g[1 .. t]
    <2>1. t \in Nat /\ DOMAIN fill.takes = 1 .. t
      BY <1>3
    <2> QED BY <1>4, <2>1, DepletedIs
  <1>7. /\ g[1 .. 0] = book
        /\ \A k \in 0 .. t - 1 : g[1 .. k + 1] = Folded(side, g[1 .. k], left[k + 1])
    BY <1>3, <1>6, FoldOfStep
  <1>8. \A k \in 0 .. t - 1 : g[1 .. k + 1] = AppliedBook(g[1 .. k], side, left[k + 1].price, left[k + 1].quantity)
    BY <1>7 DEF Folded, Side
  <1>9. \A k \in 1 .. t - 1 : D[k] < quantity
    <2> SUFFICES ASSUME NEW k \in 1 .. t - 1 PROVE D[k] < quantity
      OBVIOUS
    <2>1. k + 1 \in 1 .. t /\ (k + 1) - 1 = k
      BY <1>3
    <2> QED BY <1>3, <2>1
  <1>11. ASSUME NEW k \in 0 .. t - 1, g[1 .. k] \in Books, Sorted(g[1 .. k][side], side),
                IsRest(g[1 .. k][side], levels, k)
         PROVE  /\ g[1 .. k + 1] \in Books /\ Sorted(g[1 .. k + 1][side], side)
                /\ left[k + 1].quantity = 0 => IsRest(g[1 .. k + 1][side], levels, k + 1)
                /\ left[k + 1].quantity # 0 =>
                      /\ g[1 .. k + 1][side] \in Seq(Levels) /\ Len(g[1 .. k + 1][side]) = n - k
                      /\ g[1 .. k + 1][side][1].price = levels[k + 1].price
                      /\ g[1 .. k + 1][side][1].quantity = left[k + 1].quantity
                      /\ \A i \in 2 .. n - k : g[1 .. k + 1][side][i] = levels[k + i]
    <2>0. /\ k + 1 \in 1 .. t /\ k + 1 \in 1 .. n /\ k < t /\ k \in Nat /\ n - k \in Nat /\ n - k > 0
          /\ 1 \in 1 .. n - k
      BY <1>1, <1>3
    <2>1. PICK old : old = g[1 .. k]
      OBVIOUS
    <2>2. PICK rest : rest = old[side] /\ IsRest(rest, levels, k)
      BY <1>11, <2>1
    <2>3. PICK p, r : p = left[k + 1].price /\ r = left[k + 1].quantity
      OBVIOUS
    <2>4. p = levels[k + 1].price /\ p \in Int /\ r \in Nat
      BY <1>1, <1>5, <2>0, <2>3
    <2>5. rest \in Seq(Levels) /\ Len(rest) = n - k /\ \A i \in 1 .. n - k : rest[i] = levels[k + i]
      BY <1>1, <2>2 DEF IsRest
    <2>6. p = rest[1].price
      BY <2>0, <2>4, <2>5
    <2>7. PICK new : new = AppliedLevels(rest, side, p, r)
      OBVIOUS
    <2>8. Sorted(rest, side)
      BY <1>11, <2>1, <2>2
    <2>9. /\ r = 0 => IsRest(new, rest, 1)
          /\ r # 0 => /\ new \in Seq(Levels) /\ Len(new) = n - k
                      /\ new[1].price = p /\ new[1].quantity = r
                      /\ \A i \in 2 .. n - k : new[i] = rest[i]
      <3>1. PICK m \in Nat : m = n - k /\ m > 0
        BY <2>0
      <3>2. rest \in Seq(Levels) /\ Len(rest) = m
        BY <2>5, <3>1
      <3>3. /\ r = 0 => IsRest(new, rest, 1)
            /\ r # 0 => /\ new \in Seq(Levels) /\ Len(new) = m
                        /\ new[1].price = p /\ new[1].quantity = r
                        /\ \A i \in 2 .. m : new[i] = rest[i]
        BY <2>4, <2>6, <2>7, <2>8, <3>1, <3>2, BestLevelApplied
      <3> QED BY <3>1, <3>3
    <2>10. new \in Seq(Levels) /\ Sorted(new, side)
      BY <2>4, <2>5, <2>7, <2>8, AppliedLevelsFacts
    <2>11. g[1 .. k + 1] = [old EXCEPT ![side] = new]
      BY <1>8, <2>1, <2>2, <2>3, <2>7 DEF AppliedBook
    <2>12. old \in Books
      BY <1>11, <2>1
    <2>13. g[1 .. k + 1] \in Books /\ g[1 .. k + 1][side] = new
      BY <2>10, <2>11, <2>12 DEF Books
    <2>14. r = 0 => IsRest(new, levels, k + 1)
      <3> SUFFICES ASSUME r = 0 PROVE IsRest(new, levels, k + 1)
        OBVIOUS
      <3>1. new \in Seq(Levels) /\ Len(new) = (n - k) - 1 /\ \A i \in 1 .. (n - k) - 1 : new[i] = rest[1 + i]
        BY <2>5, <2>9 DEF IsRest
      <3>2. (n - k) - 1 = n - (k + 1)
        <4>1. PICK a \in Nat, b \in Nat : a = n /\ b = k
          BY <1>1, <2>0
        <4>2. (a - b) - 1 = a - (b + 1)
          OBVIOUS
        <4> QED BY <4>1, <4>2, Zenon
      <3>3. ASSUME NEW i \in 1 .. n - (k + 1) PROVE new[i] = levels[(k + 1) + i]
        <4>1. i \in 1 .. (n - k) - 1 /\ 1 + i \in 1 .. n - k /\ k + (1 + i) = (k + 1) + i
          BY <1>1, <2>0
        <4> QED BY <2>5, <3>1, <4>1
      <3> QED BY <1>1, <3>1, <3>2, <3>3 DEF IsRest
    <2>15. \A i \in 2 .. n - k : i \in 1 .. n - k
      OBVIOUS
    <2> QED BY <2>3, <2>4, <2>5, <2>9, <2>10, <2>13, <2>14, <2>15
  <1> DEFINE S == {k \in 0 .. t : /\ g[1 .. k] \in Books /\ Sorted(g[1 .. k][side], side)
                                  /\ k < t => IsRest(g[1 .. k][side], levels, k)}
  <1>10. 0 \in S
    <2>1. book \in Books /\ Sorted(book[side], side)
      BY DEF SoundBook
    <2>2. IsRest(levels, levels, 0)
      BY <1>1 DEF IsRest
    <2> QED BY <1>3, <1>7, <2>1, <2>2
  <1>12. ASSUME NEW k \in 0 .. t - 1, k \in S PROVE k + 1 \in S
    <2>1. k < t /\ k + 1 \in 0 .. t /\ k + 1 \in 1 .. t
      BY <1>3
    <2>2. /\ g[1 .. k + 1] \in Books /\ Sorted(g[1 .. k + 1][side], side)
          /\ left[k + 1].quantity = 0 => IsRest(g[1 .. k + 1][side], levels, k + 1)
      BY <1>11, <1>12, <2>1
    <2>3. k + 1 < t => left[k + 1].quantity = 0
      <3> SUFFICES ASSUME k + 1 < t PROVE left[k + 1].quantity = 0
        OBVIOUS
      <3>1. k + 1 \in 1 .. t - 1
        BY <1>3
      <3>2. D[k + 1] < quantity
        BY <1>9, <3>1
      <3> QED BY <1>5, <2>1, <3>2
    <2> QED BY <2>1, <2>2, <2>3
  <1>13. \A k \in 0 .. t : k \in S
    <2> HIDE DEF S
    <2> QED BY <1>3, <1>10, <1>12, StepByStep
  <1>14. PICK new : new = Depleted(book, order_side, fill)[side]
    OBVIOUS
  <1>15. CASE t = 0
    <2>1. new = levels /\ n = 0 /\ D[0] = 0
      BY <1>3, <1>6, <1>7, <1>14, <1>15 DEF AreDepths
    <2>2. IsLeft(new, levels, n, D, quantity, 0)
      BY <1>1, <2>1 DEF IsLeft
    <2> QED BY <1>14, <2>2
  <1>16. CASE t # 0
    <2>1. PICK k \in 0 .. t - 1 : k + 1 = t
      <3>1. t - 1 \in 0 .. t - 1 /\ (t - 1) + 1 = t
        BY <1>3, <1>16
      <3> QED BY <3>1
    <2>2. k < t /\ k \in 0 .. t /\ t \in 1 .. t /\ t \in 1 .. n /\ k \in 0 .. n /\ t - 1 = k /\ k = t - 1
          /\ t \in 0 .. n
      BY <1>1, <1>3, <2>1
    <2>3. g[1 .. k] \in Books /\ Sorted(g[1 .. k][side], side) /\ IsRest(g[1 .. k][side], levels, k)
      BY <1>13, <2>2
    <2>4. /\ left[t].quantity = 0 => IsRest(new, levels, t)
          /\ left[t].quantity # 0 =>
                /\ new \in Seq(Levels) /\ Len(new) = n - k
                /\ new[1].price = levels[t].price
                /\ new[1].quantity = left[t].quantity
                /\ \A i \in 2 .. n - k : new[i] = levels[k + i]
      <3>1. /\ left[k + 1].quantity = 0 => IsRest(g[1 .. k + 1][side], levels, k + 1)
            /\ left[k + 1].quantity # 0 =>
                  /\ g[1 .. k + 1][side] \in Seq(Levels) /\ Len(g[1 .. k + 1][side]) = n - k
                  /\ g[1 .. k + 1][side][1].price = levels[k + 1].price
                  /\ g[1 .. k + 1][side][1].quantity = left[k + 1].quantity
                  /\ \A i \in 2 .. n - k : g[1 .. k + 1][side][i] = levels[k + i]
        BY <1>11, <2>3
      <3>2. g[1 .. k + 1][side] = new
        BY <1>6, <1>14, <2>1
      <3> QED BY <2>1, <3>1, <3>2, Zenon
    <2>5. left[t].quantity = IF D[t] <= quantity THEN 0 ELSE D[t] - quantity
      BY <1>5, <2>2
    <2>6. D[t] \in Nat /\ D[k] \in Nat /\ D[k] < quantity
      BY <1>3, <1>5, <2>2 DEF AreDepths
    <2>7. CASE D[t] <= quantity
      <3>1. IsRest(new, levels, t)
        BY <2>4, <2>5, <2>7
      <3>2. new \in Seq(Levels) /\ Len(new) = n - t /\ \A i \in 1 .. n - t : new[i] = levels[t + i]
        BY <1>1, <3>1 DEF IsRest
      <3>3. t < n => D[t] = quantity
        BY <1>3, <2>6, <2>7
      <3>4. ASSUME t < n PROVE D[t + 1] - quantity = levels[t + 1].quantity /\ quantity < D[t + 1]
        <4>1. t + 1 \in 1 .. n /\ (t + 1) - 1 = t /\ t + 1 \in 0 .. n
          BY <1>1, <2>2, <3>4
        <4>2. D[t + 1] = D[t] + levels[t + 1].quantity /\ D[t + 1] \in Nat /\ levels[t + 1].quantity \in Nat \ {0}
          BY <1>1, <4>1 DEF AreDepths
        <4> QED BY <2>6, <3>3, <3>4, <4>2
      <3>5. \A i \in 1 .. n - t : i = 1 => t < n
        BY <1>1, <2>2
      <3>6. IsLeft(new, levels, n, D, quantity, t)
        BY <2>2, <2>7, <3>2, <3>4, <3>5 DEF IsLeft
      <3> QED BY <1>14, <3>6
    <2>8. CASE D[t] > quantity
      <3>1. left[t].quantity = D[t] - quantity /\ left[t].quantity # 0
        BY <2>5, <2>6, <2>8
      <3>2. /\ new \in Seq(Levels) /\ Len(new) = n - k
            /\ new[1].price = levels[k + 1].price /\ new[1].quantity = D[k + 1] - quantity
            /\ \A i \in 2 .. n - k : new[i] = levels[k + i]
        BY <2>1, <2>4, <3>1
      <3>3. \A i \in 1 .. n - k : i = 1 \/ i \in 2 .. n - k
        OBVIOUS
      <3>4. D[k] <= quantity /\ quantity < D[k + 1]
        BY <2>1, <2>6, <2>8
      <3>5. \A i \in 1 .. n - k : /\ new[i].price = levels[k + i].price
               /\ new[i].quantity = IF i = 1 THEN D[k + 1] - quantity ELSE levels[k + i].quantity
        BY <3>2, <3>3
      <3>6. IsLeft(new, levels, n, D, quantity, k)
        BY <2>2, <3>2, <3>4, <3>5 DEF IsLeft
      <3> QED BY <1>14, <3>6
    <2> QED BY <2>6, <2>7, <2>8
  <1> QED BY <1>15, <1>16

\* What a walk of x is worth level by level, w being the worth of one unit at each.
AreCosts(P, w, D, x, n) ==
    /\ P \in [0 .. n -> Int] /\ P[0] = 0
    /\ \A k \in 0 .. n - 1 : P[k + 1] = P[k] + w[k + 1] * (Least(D[k + 1], x) - Least(D[k], x))

\* v is what a fill takes at each level, weighed.
Weighs(v, w, fill, t) ==
    DOMAIN v = 1 .. t /\ \A i \in 1 .. t : v[i] = w[i] * fill.takes[i].quantity

\* Weights are integers; those of what is left are those of the whole, moved up.
AreWeights(w, n) == \A i \in 1 .. n : w[i] \in Int

Shifted(u, w, s, m) == \A i \in 1 .. m : u[i] = w[s + i]

\* E is how deep the rest is after each of its levels, with x taken from it.
LeavesDepths(E, D, x, s, n) ==
    /\ s \in 0 .. n /\ D[s] <= x /\ (s < n => x < D[s + 1])
    /\ E[0] = 0 /\ \A j \in 1 .. n - s : E[j] = D[s + j] - x

\* A fill, with what it takes.
IsWalk(fill, levels, n, D, x, t) ==
    n \in Nat /\ AreDepths(D, levels, n) /\ x \in Nat \ {0} /\ TakesOf(fill, levels, n, D, x, t)

LEMMA WalkCosts ==
    ASSUME NEW fill, NEW levels, NEW n, NEW D, NEW x, NEW t, IsWalk(fill, levels, n, D, x, t),
           NEW w, AreWeights(w, n),
           NEW v, Weighs(v, w, fill, t)
    PROVE  \E P : AreCosts(P, w, D, x, n) /\ Total(v) = P[n]
  <1> USE DEF AreWeights
  <1>0. n \in Nat /\ AreDepths(D, levels, n) /\ x \in Nat \ {0} /\ TakesOf(fill, levels, n, D, x, t)
    BY DEF IsWalk
  <1> USE <1>0
  <1>1. /\ t \in 0 .. n /\ t \in Nat
        /\ \A i \in 1 .. t : D[i - 1] < x
        /\ t < n => D[t] >= x
        /\ \A i \in 1 .. t : fill.takes[i].quantity = Least(D[i], x) - D[i - 1]
    BY DEF TakesOf
  <1>1w. DOMAIN v = 1 .. t /\ \A i \in 1 .. t : v[i] = w[i] * fill.takes[i].quantity
    BY DEF Weighs
  <1>2. /\ \A k \in 0 .. n : D[k] \in Nat
        /\ \A i, j \in 0 .. n : i <= j => D[i] <= D[j]
    BY DEF AreDepths
  <1>3. \A k \in 0 .. n : Least(D[k], x) \in Nat
    BY <1>2 DEF Least
  <1>4. PICK c : c = [k \in 1 .. n |-> w[k] * (Least(D[k], x) - Least(D[k - 1], x))]
    OBVIOUS
  <1>5. ASSUME NEW k \in 1 .. n
        PROVE  c[k] = w[k] * (Least(D[k], x) - Least(D[k - 1], x)) /\ c[k] \in Int
    <2>1. k \in 0 .. n /\ k - 1 \in 0 .. n
      OBVIOUS
    <2>2. PICK a \in Int, b \in Int : a = w[k] /\ b = Least(D[k], x) - Least(D[k - 1], x)
      BY <1>3, <2>1
    <2>3. a * b \in Int
      OBVIOUS
    <2> QED BY <1>4, <2>2, <2>3
  <1>6. DOMAIN c = 1 .. n
    BY <1>4
  <1>7. PICK P : AreSums(P, c, n)
    BY <1>5, <1>6, SumsExist
  <1>8. AreCosts(P, w, D, x, n)
    <2>1. P \in [0 .. n -> Int] /\ P[0] = 0 /\ \A k \in 0 .. n - 1 : P[k + 1] = P[k] + c[k + 1]
      BY <1>7 DEF AreSums
    <2>2. \A k \in 0 .. n - 1 : c[k + 1] = w[k + 1] * (Least(D[k + 1], x) - Least(D[k], x))
      <3>1. \A k \in 0 .. n - 1 : k + 1 \in 1 .. n /\ (k + 1) - 1 = k
        OBVIOUS
      <3> QED BY <1>5, <3>1
    <2> QED BY <2>1, <2>2 DEF AreCosts
  <1>9. ASSUME NEW i \in 1 .. t PROVE v[i] = c[i] /\ v[i] \in Int
    <2>1. i \in 1 .. n /\ i - 1 \in 0 .. n
      BY <1>1
    <2>2. Least(D[i - 1], x) = D[i - 1]
      BY <1>1, <1>2, <2>1 DEF Least
    <2>3. v[i] = w[i] * (Least(D[i], x) - Least(D[i - 1], x))
      BY <1>1, <1>1w, <2>2
    <2> QED BY <1>5, <2>1, <2>3
  <1>10. PICK s : AreSums(s, v, t) /\ Total(v) = s[t]
    BY <1>1, <1>1w, <1>9, SumsExist
  <1>11. s[t] = P[t]
    <2>1. t <= t /\ t <= n
      BY <1>1
    <2> QED BY <1>1, <1>7, <1>9, <1>10, <2>1, SumsAgree
  <1> DEFINE S == {k \in 0 .. n - t : P[t + k] = P[t]}
  <1>12. 0 \in S
    BY <1>1
  <1>13. ASSUME NEW k \in 0 .. (n - t) - 1, k \in S PROVE k + 1 \in S
    <2>1. /\ t < n /\ k \in Nat /\ k + 1 \in 0 .. n - t /\ t + k \in 0 .. n - 1 /\ t + k \in 0 .. n
          /\ (t + k) + 1 = t + (k + 1) /\ (t + k) + 1 \in 1 .. n /\ (t + k) + 1 \in 0 .. n
          /\ t <= t + k /\ t <= (t + k) + 1 /\ t \in 0 .. n
      BY <1>1
    <2>2. x <= D[t + k] /\ x <= D[(t + k) + 1]
      BY <1>1, <1>2, <2>1
    <2>3. Least(D[t + k], x) = x /\ Least(D[(t + k) + 1], x) = x
      BY <1>2, <2>1, <2>2 DEF Least
    <2>4. P[(t + k) + 1] = P[t + k] + w[(t + k) + 1] * (x - x)
      BY <1>8, <2>1, <2>3 DEF AreCosts
    <2>5. w[(t + k) + 1] * (x - x) = 0
      <3>1. PICK a \in Int : a = w[(t + k) + 1]
        BY <2>1
      <3>2. a * (x - x) = 0
        <4>1. x - x = 0
          OBVIOUS
        <4>2. a * 0 = 0
          OBVIOUS
        <4> QED BY <4>1, <4>2, Zenon
      <3> QED BY <3>1, <3>2
    <2>6. P[t + k] = P[t] /\ P[t + k] \in Int
      BY <1>13, <1>8, <2>1 DEF AreCosts
    <2> QED BY <2>1, <2>4, <2>5, <2>6
  <1>14. P[n] = P[t]
    <2>1. n - t \in Nat /\ n - t \in 0 .. n - t /\ t + (n - t) = n
      BY <1>1
    <2>2. \A k \in 0 .. n - t : k \in S
      <3> HIDE DEF S
      <3> QED BY <1>12, <1>13, <2>1, StepByStep
    <2>3. P[t + (n - t)] = P[t]
      BY <2>1, <2>2
    <2> QED BY <2>1, <2>3
  <1> QED BY <1>8, <1>10, <1>11, <1>14

\* A walk of x, and then one of y through what it left, are worth a walk of both.
LEMMA LeastSplits ==
    ASSUME NEW a \in Nat, NEW b \in Nat, NEW x \in Nat, NEW y \in Nat, a <= b, x < b,
           NEW p \in Nat, IF a <= x THEN p = 0 ELSE p = a - x, NEW q \in Nat, q = b - x
    PROVE  Least(b, x + y) - Least(a, x + y)
              = (Least(b, x) - Least(a, x)) + (Least(q, y) - Least(p, y))
  BY DEF Least

\* A walk of a side cut in two.
InTwo(one, t1, two, t2, both, t3, levels, n, D, left, m, E, x, y, s) ==
    /\ IsWalk(one, levels, n, D, x, t1) /\ IsWalk(two, left, m, E, y, t2)
    /\ IsWalk(both, levels, n, D, x + y, t3)
    /\ m = n - s /\ LeavesDepths(E, D, x, s, n)

\* What is taken from a side in two goes adds up to what is taken in one,
\* however its levels are weighed.
LEMMA WeighsAddUp ==
    ASSUME NEW one, NEW t1, NEW two, NEW t2, NEW both, NEW t3, NEW levels, NEW n, NEW D,
           NEW left, NEW m, NEW E, NEW x, NEW y, NEW s,
           InTwo(one, t1, two, t2, both, t3, levels, n, D, left, m, E, x, y, s),
           NEW w, AreWeights(w, n), NEW u, AreWeights(u, m), Shifted(u, w, s, m),
           NEW v1, Weighs(v1, w, one, t1), NEW v2, Weighs(v2, u, two, t2), NEW v3, Weighs(v3, w, both, t3)
    PROVE  Total(v3) = Total(v1) + Total(v2)
  <1>e. /\ IsWalk(one, levels, n, D, x, t1) /\ IsWalk(two, left, m, E, y, t2)
        /\ IsWalk(both, levels, n, D, x + y, t3)
        /\ m = n - s /\ LeavesDepths(E, D, x, s, n)
    BY DEF InTwo
  <1>f. n \in Nat /\ m \in Nat /\ x \in Nat /\ y \in Nat /\ AreDepths(D, levels, n)
    BY <1>e DEF IsWalk
  <1>g. PICK P : AreCosts(P, w, D, x, n) /\ Total(v1) = P[n]
    BY <1>e, WalkCosts
  <1>h. PICK Q : AreCosts(Q, u, E, y, m) /\ Total(v2) = Q[m]
    BY <1>e, WalkCosts
  <1>i. PICK R : AreCosts(R, w, D, x + y, n) /\ Total(v3) = R[n]
    BY <1>e, WalkCosts
  <1>a. /\ \A k \in 0 .. n : D[k] \in Nat
        /\ \A i, j \in 0 .. n : i <= j => D[i] <= D[j]
    BY <1>f DEF AreDepths
  <1>b. /\ s \in 0 .. n /\ D[s] <= x /\ (s < n => x < D[s + 1])
        /\ E[0] = 0 /\ \A j \in 1 .. n - s : E[j] = D[s + j] - x
    BY <1>e DEF LeavesDepths
  <1>c. /\ \A i \in 1 .. n : w[i] \in Int
        /\ \A i \in 1 .. n - s : u[i] = w[s + i]
    BY <1>e DEF AreWeights, Shifted
  <1>d. AreCosts(P, w, D, x, n) /\ AreCosts(Q, u, E, y, n - s) /\ AreCosts(R, w, D, x + y, n)
    BY <1>e, <1>g, <1>h, <1>i
  <1> USE <1>f, <1>a, <1>b, <1>c, <1>d
  <1>1. /\ \A k \in 0 .. n : P[k] \in Int /\ R[k] \in Int
        /\ \A k \in 0 .. n - s : Q[k] \in Int
        /\ P[0] = 0 /\ Q[0] = 0 /\ R[0] = 0
        /\ s \in Nat /\ n - s \in Nat /\ x + y \in Nat
    BY DEF AreCosts
  <1> DEFINE S == {k \in 0 .. s : R[k] = P[k]}
  <1>2. 0 \in S
    BY <1>1
  <1>3. ASSUME NEW k \in 0 .. s - 1, k \in S PROVE k + 1 \in S
    <2>1. k \in 0 .. n - 1 /\ k \in 0 .. n /\ k + 1 \in 0 .. n /\ k + 1 <= s /\ k <= s /\ k + 1 \in 0 .. s
      BY <1>1
    <2>2. D[k] <= D[s] /\ D[k + 1] <= D[s] /\ D[k] \in Nat /\ D[k + 1] \in Nat /\ D[s] \in Nat
      BY <2>1
    <2>3. /\ Least(D[k], x) = D[k] /\ Least(D[k], x + y) = D[k]
          /\ Least(D[k + 1], x) = D[k + 1] /\ Least(D[k + 1], x + y) = D[k + 1]
      BY <2>2 DEF Least
    <2>4. /\ P[k + 1] = P[k] + w[k + 1] * (D[k + 1] - D[k])
          /\ R[k + 1] = R[k] + w[k + 1] * (D[k + 1] - D[k])
      BY <2>1, <2>3 DEF AreCosts
    <2> QED BY <1>3, <2>1, <2>4
  <1>4. R[s] = P[s]
    <2>1. \A k \in 0 .. s : k \in S
      <3> HIDE DEF S
      <3> QED BY <1>1, <1>2, <1>3, StepByStep
    <2>2. s \in 0 .. s
      BY <1>1
    <2> QED BY <2>1, <2>2
  <1> DEFINE T == {k \in 0 .. n - s : R[s + k] = P[s + k] + Q[k]}
  <1>5. 0 \in T
    BY <1>1, <1>4
  <1>6. ASSUME NEW k \in 0 .. (n - s) - 1, k \in T PROVE k + 1 \in T
    <2>1. /\ k \in Nat /\ s + k \in 0 .. n - 1 /\ s + k \in 0 .. n /\ (s + k) + 1 \in 0 .. n /\ s < n
          /\ (s + k) + 1 = s + (k + 1) /\ k + 1 \in 1 .. n - s /\ k \in 0 .. n - s /\ k + 1 \in 0 .. n - s
          /\ (s + k) + 1 \in 1 .. n /\ s + 1 \in 0 .. n /\ s + 1 <= (s + k) + 1
          /\ k # 0 => k \in 1 .. n - s /\ s + 1 <= s + k
      BY <1>1
    <2>2. PICK a \in Nat, b \in Nat : a = D[s + k] /\ b = D[(s + k) + 1]
      BY <2>1
    <2>3. PICK v \in Int : v = w[(s + k) + 1] /\ v = u[k + 1]
      BY <2>1
    <2>4. x < b /\ E[k + 1] = b - x
      BY <2>1, <2>2
    <2>5. IF k = 0 THEN a <= x /\ E[k] = 0 ELSE x < a /\ E[k] = a - x
      <3>1. CASE k = 0
        BY <1>1, <2>2, <3>1
      <3>2. CASE k # 0
        <4>1. D[s + 1] <= D[s + k] /\ D[s + 1] \in Nat
          BY <2>1, <3>2
        <4>2. E[k] = D[s + k] - x
          BY <2>1, <3>2
        <4> QED BY <2>1, <2>2, <3>2, <4>1, <4>2
      <3> QED BY <3>1, <3>2
    <2>6. PICK f \in Int, g \in Int, h \in Int :
             /\ f = Least(b, x) - Least(a, x) /\ g = Least(E[k + 1], y) - Least(E[k], y)
             /\ h = Least(b, x + y) - Least(a, x + y)
      <3>1. PICK p \in Nat, q \in Nat : p = E[k] /\ q = E[k + 1]
        BY <2>4, <2>5
      <3>2. \A c, d \in Nat : Least(c, d) \in Nat
        BY DEF Least
      <3>3. PICK f \in Int : f = Least(b, x) - Least(a, x)
        BY <3>2
      <3>4. PICK g \in Int : g = Least(q, y) - Least(p, y)
        BY <3>2
      <3>5. PICK h \in Int : h = Least(b, x + y) - Least(a, x + y)
        BY <1>1, <3>2
      <3> QED BY <3>1, <3>3, <3>4, <3>5
    <2>7. h = f + g
      <3>1. PICK p \in Nat, q \in Nat : p = E[k] /\ q = E[k + 1]
        BY <2>4, <2>5
      <3>2. a <= b /\ x < b /\ q = b - x /\ IF a <= x THEN p = 0 ELSE p = a - x
        <4>1. D[s + k] <= D[(s + k) + 1]
          BY <2>1
        <4> QED BY <2>2, <2>4, <2>5, <3>1, <4>1
      <3> HIDE <1>a, <1>b, <1>c, <1>d
      <3>3. Least(b, x + y) - Least(a, x + y)
               = (Least(b, x) - Least(a, x)) + (Least(q, y) - Least(p, y))
        BY <3>2, LeastSplits
      <3> QED BY <2>6, <3>1, <3>3
    <2>8. P[(s + k) + 1] = P[s + k] + v * f
      BY <2>1, <2>2, <2>3, <2>6 DEF AreCosts
    <2>9. Q[k + 1] = Q[k] + v * g
      BY <2>1, <2>3, <2>6 DEF AreCosts
    <2>10. R[(s + k) + 1] = R[s + k] + v * h
      BY <2>1, <2>2, <2>3, <2>6 DEF AreCosts
    <2>11. v * h = v * f + v * g /\ v * f \in Int /\ v * g \in Int
      BY <2>7
    <2>12. P[s + k] \in Int /\ Q[k] \in Int /\ R[s + k] = P[s + k] + Q[k]
      BY <1>1, <1>6, <2>1
    <2>13. R[(s + k) + 1] = P[(s + k) + 1] + Q[k + 1]
      <3> HIDE <1>a, <1>b, <1>c, <1>d
      <3>1. PICK c \in Int, d \in Int : c = v * f /\ d = v * g
        BY <2>11
      <3>2. PICK e \in Int, i \in Int : e = P[s + k] /\ i = Q[k]
        BY <2>12
      <3>3. P[(s + k) + 1] = e + c /\ Q[k + 1] = i + d /\ R[(s + k) + 1] = (e + i) + (c + d)
        BY <2>8, <2>9, <2>10, <2>11, <2>12, <3>1, <3>2
      <3> QED BY <3>3
    <2> QED BY <2>1, <2>13
  <1>7. \A k \in 0 .. n - s : k \in T
    <2> HIDE DEF T
    <2> QED BY <1>1, <1>5, <1>6, StepByStep
  <1>8. n - s \in 0 .. n - s /\ s + (n - s) = n
    BY <1>1
  <1>9. R[s + (n - s)] = P[s + (n - s)] + Q[n - s]
    BY <1>7, <1>8
  <1>10. R[n] = P[n] + Q[m]
    BY <1>e, <1>8, <1>9
  <1> QED BY <1>g, <1>h, <1>i, <1>10

\* A side that a walk of x was taken from serves a walk of y as the whole
\* side serves what x leaves of a walk of both.
LEMMA WalkInTwo ==
    ASSUME NEW book, SoundBook(book), NEW order_side, NEW side \in Side, side = ConsumedSide(order_side),
           NEW x \in Nat \ {0}, NEW y \in Nat \ {0},
           NEW after, after = Depleted(book, order_side, Walk(book, order_side, x))
    PROVE  /\ Filled(Walk(book, order_side, x + y))
                = Filled(Walk(book, order_side, x)) + Filled(Walk(after, order_side, y))
           /\ Notional(Walk(book, order_side, x + y))
                = Notional(Walk(book, order_side, x)) + Notional(Walk(after, order_side, y))
  <1>1. PICK levels, n : levels = book[side] /\ n = Len(levels)
    OBVIOUS
  <1>2. /\ n \in Nat
        /\ \A i \in 1 .. n : levels[i].price \in Int /\ levels[i].quantity \in Nat \ {0}
        /\ \E D : AreDepths(D, levels, n)
    BY <1>1, DepthsOf
  <1>3. PICK D : AreDepths(D, levels, n)
    BY <1>2
  <1>4. PICK both, one, two : /\ both = Walk(book, order_side, x + y) /\ one = Walk(book, order_side, x)
                              /\ two = Walk(after, order_side, y)
    OBVIOUS
  <1>5. x + y \in Nat \ {0}
    OBVIOUS
  <1>6. SoundBook(after)
    BY SoundAfterDepleted
  <1>7. PICK left, m : left = after[side] /\ m = Len(left)
    OBVIOUS
  <1>8. /\ m \in Nat
        /\ \A i \in 1 .. m : left[i].price \in Int /\ left[i].quantity \in Nat \ {0}
        /\ \E E : AreDepths(E, left, m)
    BY <1>6, <1>7, DepthsOf
  <1>9. PICK E : AreDepths(E, left, m)
    BY <1>8
  <1>10. PICK s : IsLeft(left, levels, n, D, x, s)
    BY <1>1, <1>3, <1>4, <1>7, DepletedLevels
  <1>11. /\ s \in 0 .. n /\ s \in Nat /\ n - s \in Nat /\ D[s] <= x /\ (s < n => x < D[s + 1]) /\ m = n - s
         /\ \A i \in 1 .. n - s : left[i].price = levels[s + i].price
         /\ \A i \in 2 .. n - s : left[i].quantity = levels[s + i].quantity
         /\ n - s >= 1 => left[1].quantity = D[s + 1] - x
    <2>1. \A i \in 2 .. n - s : i \in 1 .. n - s /\ i # 1
      OBVIOUS
    <2>2. n - s >= 1 => 1 \in 1 .. n - s
      BY <1>2, <1>10 DEF IsLeft
    <2> QED BY <1>2, <1>7, <1>10, <2>1, <2>2 DEF IsLeft
  <1>12. \A k \in 0 .. n : D[k] \in Nat
    BY <1>3 DEF AreDepths
  <1>13. \A j \in 1 .. n - s : E[j] = D[s + j] - x
    <2> DEFINE S == {j \in 0 .. n - s : j = 0 \/ E[j] = D[s + j] - x}
    <2>1. 0 \in S
      BY <1>11
    <2>2. ASSUME NEW j \in 0 .. (n - s) - 1, j \in S PROVE j + 1 \in S
      <3>1. /\ j \in Nat /\ j + 1 \in 1 .. n - s /\ j + 1 \in 1 .. m /\ (j + 1) - 1 = j /\ j + 1 \in 0 .. n - s
            /\ s + (j + 1) \in 1 .. n /\ (s + (j + 1)) - 1 = s + j /\ s + j \in 0 .. n /\ s + (j + 1) \in 0 .. n
        BY <1>2, <1>11
      <3>2. E[j + 1] = E[j] + left[j + 1].quantity
        BY <1>9, <3>1 DEF AreDepths
      <3>3. D[s + (j + 1)] = D[s + j] + levels[s + (j + 1)].quantity
        BY <1>3, <3>1 DEF AreDepths
      <3>4. CASE j = 0
        <4>1. E[0] = 0 /\ left[1].quantity = D[s + 1] - x
          BY <1>9, <1>11, <3>1, <3>4 DEF AreDepths
        <4>2. D[s + 1] \in Nat
          BY <1>12, <3>1, <3>4
        <4> QED BY <3>1, <3>2, <3>4, <4>1, <4>2
      <3>5. CASE j # 0
        <4>1. left[j + 1].quantity = levels[s + (j + 1)].quantity
          BY <1>11, <3>1, <3>5
        <4>2. D[s + j] \in Nat /\ levels[s + (j + 1)].quantity \in Nat
          BY <1>2, <1>12, <3>1
        <4>3. E[j] = D[s + j] - x
          BY <2>2, <3>5
        <4>4. E[j + 1] = D[s + (j + 1)] - x
          BY <3>2, <3>3, <4>1, <4>2, <4>3
        <4> QED BY <3>1, <4>4
      <3> QED BY <3>4, <3>5
    <2>3. \A j \in 0 .. n - s : j \in S
      <3>1. n - s \in Nat
        BY <1>11
      <3> HIDE DEF S
      <3> QED BY <2>1, <2>2, <3>1, StepByStep
    <2> QED BY <2>3
  <1>14. E[0] = 0
    BY <1>9 DEF AreDepths
  <1>15. PICK t1 : TakesOf(one, levels, n, D, x, t1)
    BY <1>1, <1>2, <1>3, <1>4, WalkTakes
  <1>16. PICK t2 : TakesOf(two, left, m, E, y, t2)
    BY <1>4, <1>7, <1>8, <1>9, WalkTakes
  <1>17. PICK t3 : TakesOf(both, levels, n, D, x + y, t3)
    BY <1>1, <1>2, <1>3, <1>4, <1>5, WalkTakes
  <1>18. InTwo(one, t1, two, t2, both, t3, levels, n, D, left, m, E, x, y, s)
    <2>1. LeavesDepths(E, D, x, s, n) /\ m = n - s
      BY <1>11, <1>13, <1>14 DEF LeavesDepths
    <2>2. /\ IsWalk(one, levels, n, D, x, t1) /\ IsWalk(two, left, m, E, y, t2)
          /\ IsWalk(both, levels, n, D, x + y, t3)
      BY <1>2, <1>3, <1>5, <1>8, <1>9, <1>15, <1>16, <1>17, Zenon DEF IsWalk
    <2> QED BY <2>1, <2>2, Zenon DEF InTwo
  <1>19. /\ DOMAIN one.takes = 1 .. t1 /\ t1 \in 0 .. n /\ DOMAIN two.takes = 1 .. t2 /\ t2 \in 0 .. m
         /\ DOMAIN both.takes = 1 .. t3 /\ t3 \in 0 .. n
         /\ \A i \in 1 .. t1 : one.takes[i].price = levels[i].price
         /\ \A i \in 1 .. t2 : two.takes[i].price = left[i].price
         /\ \A i \in 1 .. t3 : both.takes[i].price = levels[i].price
    BY <1>15, <1>16, <1>17 DEF TakesOf
  <1>20. /\ \A i \in 1 .. t1 : one.takes[i].quantity \in Int
         /\ \A i \in 1 .. t2 : two.takes[i].quantity \in Int
         /\ \A i \in 1 .. t3 : both.takes[i].quantity \in Int
    <2>1. /\ SoundFill(one, side) /\ SoundFill(both, side)
      BY <1>4, <1>5, WalkFacts
    <2>2. SoundFill(two, side)
      BY <1>4, <1>6, WalkFacts
    <2>3. one.takes \in Seq(Levels) /\ two.takes \in Seq(Levels) /\ both.takes \in Seq(Levels)
      BY <2>1, <2>2 DEF SoundFill, FillRecords
    <2>4. /\ \A i \in DOMAIN one.takes : one.takes[i] \in Levels
          /\ \A i \in DOMAIN two.takes : two.takes[i] \in Levels
          /\ \A i \in DOMAIN both.takes : both.takes[i] \in Levels
      BY <2>3
    <2> QED BY <1>19, <2>4 DEF Levels
  <1>21. Filled(both) = Filled(one) + Filled(two)
    <2>1. PICK w, u : w = [i \in 1 .. n |-> 1] /\ u = [i \in 1 .. m |-> 1]
      OBVIOUS
    <2>2. PICK v1, v2, v3 : /\ v1 = [i \in 1 .. t1 |-> one.takes[i].quantity]
                            /\ v2 = [i \in 1 .. t2 |-> two.takes[i].quantity]
                            /\ v3 = [i \in 1 .. t3 |-> both.takes[i].quantity]
      OBVIOUS
    <2>3. \A a \in Int : 1 * a = a
      OBVIOUS
    <2>4. Weighs(v1, w, one, t1) /\ Weighs(v2, u, two, t2) /\ Weighs(v3, w, both, t3)
      <3>1. /\ \A i \in 1 .. t1 : i \in 1 .. n
            /\ \A i \in 1 .. t2 : i \in 1 .. m
            /\ \A i \in 1 .. t3 : i \in 1 .. n
        BY <1>2, <1>8, <1>19
      <3> QED BY <1>20, <2>1, <2>2, <2>3, <3>1 DEF Weighs
    <2>5. AreWeights(w, n) /\ AreWeights(u, m) /\ Shifted(u, w, s, m)
      <3>1. \A i \in 1 .. m : s + i \in 1 .. n
        BY <1>2, <1>11
      <3> QED BY <2>1, <3>1 DEF AreWeights, Shifted
    <2>6. Total(v3) = Total(v1) + Total(v2)
      BY <1>18, <2>4, <2>5, WeighsAddUp
    <2>7. Filled(one) = Total(v1) /\ Filled(two) = Total(v2) /\ Filled(both) = Total(v3)
      BY <1>19, <2>2, Zenon DEF Filled
    <2> QED BY <2>6, <2>7
  <1>22. Notional(both) = Notional(one) + Notional(two)
    <2>1. PICK w, u : w = [i \in 1 .. n |-> levels[i].price] /\ u = [i \in 1 .. m |-> left[i].price]
      OBVIOUS
    <2>2. PICK v1, v2, v3 : /\ v1 = [i \in 1 .. t1 |-> one.takes[i].price * one.takes[i].quantity]
                            /\ v2 = [i \in 1 .. t2 |-> two.takes[i].price * two.takes[i].quantity]
                            /\ v3 = [i \in 1 .. t3 |-> both.takes[i].price * both.takes[i].quantity]
      OBVIOUS
    <2>4. Weighs(v1, w, one, t1) /\ Weighs(v2, u, two, t2) /\ Weighs(v3, w, both, t3)
      <3>1. /\ \A i \in 1 .. t1 : i \in 1 .. n
            /\ \A i \in 1 .. t2 : i \in 1 .. m
            /\ \A i \in 1 .. t3 : i \in 1 .. n
        BY <1>2, <1>8, <1>19
      <3> QED BY <1>19, <2>1, <2>2, <3>1 DEF Weighs
    <2>5. AreWeights(w, n) /\ AreWeights(u, m) /\ Shifted(u, w, s, m)
      <3>1. \A i \in 1 .. m : s + i \in 1 .. n /\ i \in 1 .. n - s
        BY <1>2, <1>11
      <3> QED BY <1>2, <1>8, <1>11, <2>1, <3>1 DEF AreWeights, Shifted
    <2>6. Total(v3) = Total(v1) + Total(v2)
      BY <1>18, <2>4, <2>5, WeighsAddUp
    <2>7. Notional(one) = Total(v1) /\ Notional(two) = Total(v2) /\ Notional(both) = Total(v3)
      BY <1>19, <2>2, Zenon DEF Notional
    <2> QED BY <2>6, <2>7
  <1> QED BY <1>4, <1>21, <1>22

\* The first n rows are in the order of time.
Forward(n) == \A i, j \in 1 .. n : i <= j => file[i].timestamp <= file[j].timestamp

\* A replayer that was given the first n rows, and took them.
CaughtUp(r, n) ==
    /\ n \in 0 .. Len(file) /\ r.applied = n
    /\ n > 0 => r.started /\ r.last_timestamp = file[n].timestamp
    /\ Forward(n)

LEMMA OneRowFurther ==
    ASSUME file \in Seq(BookUpdate), NEW r, SoundReplayer(r), NEW n \in Nat, n < Len(file), CaughtUp(r, n),
           ErrorOf(r, file[n + 1]) = NoError
    PROVE  CaughtUp(AfterApply(r, file[n + 1]), n + 1)
  <1>1. PICK row \in BookUpdate : row = file[n + 1]
    OBVIOUS
  <1>2. /\ AfterApply(r, row) = Applied(r, row) /\ r \in Replayers
    BY <1>1 DEF AfterApply, SoundReplayer
  <1>3. PICK new : new = Applied(r, row)
    OBVIOUS
  <1>4. new.applied = r.applied + 1 /\ new.started = TRUE /\ new.last_timestamp = row.timestamp
    BY <1>2, <1>3 DEF Applied, Resynced, Replayers
  <1>5. /\ r.applied = n /\ (n > 0 => r.started /\ r.last_timestamp = file[n].timestamp)
        /\ Forward(n) /\ Len(file) \in Nat
    BY DEF CaughtUp
  <1>6. \A i \in 1 .. Len(file) : file[i].timestamp \in Int
    <2>1. \A i \in 1 .. Len(file) : file[i] \in BookUpdate
      OBVIOUS
    <2> QED BY <2>1 DEF BookUpdate
  <1>7. n > 0 => file[n].timestamp <= row.timestamp
    <2>1. ~ (r.started /\ row.timestamp < r.last_timestamp)
      BY <1>1 DEF ErrorOf, NoError
    <2>2. row.timestamp \in Int /\ (n > 0 => n \in 1 .. Len(file))
      BY <1>1, <1>5, <1>6
    <2> QED BY <1>5, <1>6, <2>1, <2>2
  <1>8. ASSUME NEW i \in 1 .. n + 1, NEW j \in 1 .. n + 1, i <= j
        PROVE  file[i].timestamp <= file[j].timestamp
    <2>1. CASE j = n + 1
      <3>1. CASE i = n + 1
        <4>1. i = j /\ i \in 1 .. Len(file)
          BY <1>5, <2>1, <3>1
        <4> QED BY <1>6, <4>1
      <3>2. CASE i # n + 1
        <4>1. i \in 1 .. n /\ n \in 1 .. n /\ i <= n /\ n > 0
          BY <3>2
        <4>2. file[i].timestamp <= file[n].timestamp /\ file[n].timestamp <= file[j].timestamp
          BY <1>1, <1>5, <1>7, <2>1, <4>1 DEF Forward
        <4>3. i \in 1 .. Len(file) /\ n \in 1 .. Len(file) /\ j \in 1 .. Len(file)
          BY <1>5, <2>1, <4>1
        <4> QED BY <1>6, <4>2, <4>3
      <3> QED BY <3>1, <3>2
    <2>2. CASE j # n + 1
      <3>1. i \in 1 .. n /\ j \in 1 .. n
        BY <1>8, <2>2
      <3> QED BY <1>5, <1>8, <3>1 DEF Forward
    <2> QED BY <2>1, <2>2
  <1>9. Forward(n + 1)
    BY <1>8 DEF Forward
  <1>10. CaughtUp(new, n + 1)
    BY <1>1, <1>4, <1>5, <1>9 DEF CaughtUp
  <1> QED BY <1>1, <1>2, <1>3, <1>10

\* A batch that was replayed without an error carries the replayer on.
LEMMA BatchCaughtUp ==
    ASSUME file \in Seq(BookUpdate), SoundReplayer(replayer), NEW n \in Nat, CaughtUp(replayer, n),
           NEW e \in n .. Len(file), NEW batch, batch = SubSeq(file, n + 1, e), Replayed(batch).error = NoError
    PROVE  CaughtUp(Replayed(batch).replayer, e)
  <1>1. PICK m \in Nat : m = e - n /\ n + m = e /\ e <= Len(file) /\ Len(file) \in Nat
    BY e - n \in Nat
  <1>2. /\ DOMAIN batch = 1 .. m /\ \A i \in 1 .. m : batch[i] = file[n + i] /\ batch[i] \in BookUpdate
    BY <1>1
  <1>3. PICK g : /\ IsFoldOf("replay", g, [replayer |-> replayer, error |-> NoError], batch, m)
                 /\ Replayed(batch) = g[1 .. m]
    BY <1>2, ReplayedIs
  <1>4. /\ g[1 .. 0] = [replayer |-> replayer, error |-> NoError]
        /\ \A k \in 0 .. m - 1 : g[1 .. k + 1] = Folded("replay", g[1 .. k], batch[k + 1])
    <2>0. PICK l \in Nat : l = m
      OBVIOUS
    <2>1. PICK b, base : base = [replayer |-> replayer, error |-> NoError] /\ b = batch /\ l = m
      BY <2>0
    <2>2. IsFoldOf("replay", g, base, b, l)
      BY <1>3, <2>1
    <2>3. /\ g[1 .. 0] = base
          /\ \A k \in 0 .. l - 1 : g[1 .. k + 1] = Folded("replay", g[1 .. k], b[k + 1])
      BY <2>2, FoldOfStep
    <2> QED BY <2>1, <2>3
  <1> DEFINE S == {k \in 0 .. m : g[1 .. k].error = NoError =>
                        SoundReplayer(g[1 .. k].replayer) /\ CaughtUp(g[1 .. k].replayer, n + k)}
  <1>5. 0 \in S
    BY <1>4, n + 0 = n
  <1>6. ASSUME NEW k \in 0 .. m - 1, k \in S PROVE k + 1 \in S
    <2>1. /\ k + 1 \in 1 .. m /\ k + 1 \in 0 .. m /\ n + k \in Nat /\ n + k < Len(file)
          /\ n + (k + 1) = (n + k) + 1
      BY <1>1
    <2>2. PICK x, row : x = g[1 .. k] /\ row = batch[k + 1]
      OBVIOUS
    <2>3. row = file[(n + k) + 1] /\ row \in BookUpdate
      BY <1>2, <2>1, <2>2
    <2>4. g[1 .. k + 1] = IF x.error # NoError THEN x
                          ELSE [replayer |-> AfterApply(x.replayer, row), error |-> ErrorOf(x.replayer, row)]
      BY <1>4, <2>2 DEF Folded
    <2>5. ASSUME g[1 .. k + 1].error = NoError
          PROVE  SoundReplayer(g[1 .. k + 1].replayer) /\ CaughtUp(g[1 .. k + 1].replayer, n + (k + 1))
      <3>1. x.error = NoError /\ ErrorOf(x.replayer, row) = NoError
        BY <2>4, <2>5
      <3>2. g[1 .. k + 1].replayer = AfterApply(x.replayer, row)
        BY <2>4, <3>1
      <3>3. SoundReplayer(x.replayer) /\ CaughtUp(x.replayer, n + k)
        BY <1>6, <2>2, <3>1
      <3>4. SoundReplayer(AfterApply(x.replayer, row))
        BY <2>3, <3>3, SoundAfterApply
      <3>5. CaughtUp(AfterApply(x.replayer, row), (n + k) + 1)
        <4>1. PICK l \in Nat : l = n + k
          BY <2>1
        <4>2. PICK r : r = x.replayer
          OBVIOUS
        <4>3. /\ l < Len(file) /\ CaughtUp(r, l) /\ SoundReplayer(r) /\ row = file[l + 1]
              /\ ErrorOf(r, file[l + 1]) = NoError
          BY <2>1, <2>3, <3>1, <3>3, <4>1, <4>2
        <4>4. CaughtUp(AfterApply(r, file[l + 1]), l + 1)
          BY <4>3, OneRowFurther
        <4> QED BY <4>1, <4>2, <4>3, <4>4
      <3> QED BY <2>1, <3>2, <3>4, <3>5
    <2> QED BY <2>1, <2>5
  <1>7. \A k \in 0 .. m : k \in S
    <2> HIDE DEF S
    <2> QED BY <1>5, <1>6, StepByStep
  <1>8. m \in 0 .. m
    OBVIOUS
  <1> QED BY <1>1, <1>3, <1>7, <1>8

\* The group that was taken is that of the rows which were passed.
LEMMA TakenIsPassed ==
    ASSUME GridInv, TakeGroup
    PROVE  \E group : IsGroup(group, applied, applied') /\ replay_batch' = replay_batch \o group
  <1>1. /\ file \in Seq(BookUpdate) /\ pending \in Seq(Seq(BookUpdate))
        /\ applied \in {0} \cup GroupEnds /\ position \in {0} \cup GroupEnds
    BY DEF GridInv
  <1>2. PICK ends \in [0 .. Len(pending) -> {0} \cup GroupEnds] :
           /\ ends[0] = applied /\ ends[Len(pending)] = position
           /\ \A k \in 1 .. Len(pending) : IsGroup(pending[k], ends[k - 1], ends[k])
    BY DEF GridInv, PendingInv
  <1>3. PICK group : group = IF pending # <<>> THEN Head(pending) ELSE ReadGroup
    OBVIOUS
  <1>4. replay_batch' = replay_batch \o group /\ applied' = applied + Len(group)
    BY <1>3 DEF TakeGroup
  <1>5. \E e \in GroupEnds : IsGroup(group, applied, e)
    <2>1. CASE pending # <<>>
      <3>1. Head(pending) = pending[1] /\ 1 \in 1 .. Len(pending)
        BY <1>1, <2>1
      <3>2. IsGroup(group, applied, ends[1])
        BY <1>2, <1>3, <2>1, <3>1
      <3> QED BY <3>2 DEF IsGroup
    <2>2. CASE pending = <<>>
      <3>1. position = applied /\ MoreGroups
        BY <1>2, <2>2 DEF TakeGroup
      <3>2. \E e \in GroupEnds : IsGroup(ReadGroup, position, e)
        BY <1>1, <3>1, NextGroup DEF ReadGroup, MoreGroups
      <3> QED BY <1>3, <2>2, <3>1, <3>2
    <2> QED BY <2>1, <2>2
  <1>6. PICK e \in GroupEnds : IsGroup(group, applied, e)
    BY <1>5
  <1>7. applied \in Nat /\ e \in Nat /\ Len(group) = e - applied
    BY <1>1, <1>6, GroupFacts, Zenon
  <1>8. applied' = e
    BY <1>4, <1>7
  <1> QED BY <1>4, <1>6, <1>8

\* An instant and the last slice of an order that is placed then.
LastSliceOf(time) == time + (config.duration * (Slices - 1)) \div Slices

LEMMA LastIsNoEarlier ==
    ASSUME config.duration \in Nat, NEW time \in Int
    PROVE  LastSliceOf(time) \in Int /\ time <= LastSliceOf(time)
  <1>1. PICK a \in Nat : a = config.duration * (Slices - 1)
    <2>1. PICK d \in Nat, s \in Nat : d = config.duration /\ s = Slices - 1
      BY CalibrationAssumption
    <2> QED BY <2>1
  <1>2. PICK s \in Nat \ {0} : s = Slices
    BY CalibrationAssumption
  <1>3. PICK q \in Nat : q = a \div s
    BY ShareFits
  <1> QED BY <1>1, <1>2, <1>3 DEF LastSliceOf

\* If nothing happens until the last slice, no group that was read ahead is
\* given to the simulator.
LEMMA NothingAhead ==
    ASSUME GridInv, AtSample, Forward(Len(file)), KnownAt(instant) = KnownAt(LastSlice)
    PROVE  Future = <<>>
  <1>1. /\ file \in Seq(BookUpdate) /\ pending \in Seq(Seq(BookUpdate)) /\ Len(file) \in Nat
        /\ applied \in GroupEnds /\ applied \in 1 .. Len(file) /\ instant = file[applied].timestamp
        /\ \A i \in 1 .. Len(file) : file[i].timestamp \in Int
    <2>1. file \in Seq(BookUpdate) /\ pending \in Seq(Seq(BookUpdate)) /\ applied \in GridPoints
      BY DEF GridInv, ClockInv
    <2>2. /\ Len(file) \in Nat /\ applied \in GroupEnds /\ applied \in 1 .. Len(file)
          /\ \A i \in 1 .. Len(file) : file[i].timestamp \in Int
      BY <2>1, GroupEndsType
    <2>3. instant = file[applied].timestamp
      BY <2>2 DEF GridInv, ClockInv
    <2> QED BY <2>1, <2>2, <2>3
  <1>2. PICK last \in Int : last = LastSlice /\ instant <= last /\ instant \in Int
    <2>1. instant \in Int /\ config.duration \in Nat
      BY <1>1 DEF GridInv
    <2>2. LastSlice = LastSliceOf(instant)
      BY DEF LastSlice, LastSliceOf
    <2> QED BY <2>1, <2>2, LastIsNoEarlier
  <1>3. \A i \in 1 .. Len(file) : file[i].timestamp <= last => file[i].timestamp <= instant
    <2>1. PICK S, T : /\ S = {i \in 1 .. Len(file) : file[i].timestamp <= last}
                      /\ T = {i \in 1 .. Len(file) : file[i].timestamp <= instant}
      OBVIOUS
    <2>2. Cardinality(S) = Cardinality(T)
      BY <1>2, <2>1 DEF KnownAt
    <2>3. T \in SUBSET S
      BY <1>1, <1>2, <2>1
    <2>4. IsFiniteSet(S)
      <3>1. IsFiniteSet(1 .. Len(file))
        BY <1>1, FS_Interval
      <3> QED BY <2>1, <3>1, FS_Subset
    <2>5. S = T
      BY <2>2, <2>3, <2>4, FS_Subset
    <2> QED BY <2>1, <2>5
  <1>4. ASSUME NEW j \in 1 .. Len(file), applied < j
        PROVE  ~ (file[j].timestamp <= last)
    <2>1. applied + 1 \in 1 .. Len(file) /\ applied <= applied + 1 /\ applied + 1 <= j /\ applied # Len(file)
      BY <1>1, <1>4
    <2>2. file[applied + 1].timestamp # instant
      BY <1>1, <2>1 DEF GroupEnds
    <2>3. instant <= file[applied + 1].timestamp /\ file[applied + 1].timestamp <= file[j].timestamp
      BY <1>1, <2>1 DEF Forward
    <2>4. ~ (file[j].timestamp <= instant)
      <3>1. PICK a \in Int, b \in Int : a = file[applied + 1].timestamp /\ b = file[j].timestamp
        BY <1>1, <2>1
      <3> QED BY <1>2, <2>2, <2>3, <3>1
    <2> QED BY <1>3, <2>4
  <1>5. PICK ends \in [0 .. Len(pending) -> {0} \cup GroupEnds] :
           /\ ends[0] = applied /\ ends[Len(pending)] = position
           /\ \A k \in 1 .. Len(pending) : IsGroup(pending[k], ends[k - 1], ends[k])
    BY DEF GridInv, PendingInv
  <1>6. PICK l \in Nat : l = Len(pending)
    BY <1>1
  <1> DEFINE S == {k \in 0 .. l : applied <= ends[k]}
  <1>7. 0 \in S
    BY <1>1, <1>5
  <1>8. ASSUME NEW k \in 0 .. l - 1, k \in S PROVE k + 1 \in S /\ applied < ends[k + 1]
    <2>1. k \in 0 .. l /\ k + 1 \in 0 .. l /\ k + 1 \in 1 .. l /\ (k + 1) - 1 = k
      BY <1>6
    <2>2. IsGroup(pending[k + 1], ends[k], ends[k + 1])
      BY <1>5, <1>6, <2>1
    <2>3. ends[k] < ends[k + 1] /\ ends[k] \in Nat /\ ends[k + 1] \in Nat /\ applied <= ends[k]
      <3>1. ends[k] \in {0} \cup GroupEnds /\ ends[k + 1] \in {0} \cup GroupEnds
        BY <1>5, <1>6, <2>1
      <3>2. \A n \in {0} \cup GroupEnds : n \in Nat
        BY <1>1, GroupEndsType
      <3> QED BY <1>8, <2>2, <3>1, <3>2 DEF IsGroup
    <2> QED BY <1>1, <2>1, <2>3
  <1>9. \A k \in 0 .. l : k \in S
    <2> HIDE DEF S
    <2> QED BY <1>7, <1>8, StepByStep
  <1>10. ASSUME NEW k \in 1 .. l PROVE ~ (TimeOf(pending[k]) <= last)
    <2>1. PICK m \in Nat : k = m + 1 /\ m \in 0 .. l - 1 /\ k - 1 = m /\ m \in 0 .. l
      BY k - 1 \in Nat
    <2>2. applied < ends[k]
      BY <1>8, <1>9, <2>1
    <2>3. PICK group, s, e : group = pending[k] /\ s = ends[k - 1] /\ e = ends[k]
      OBVIOUS
    <2>4. IsGroup(group, s, e) /\ s \in {0} \cup GroupEnds
      BY <1>5, <1>6, <2>1, <2>3
    <2>5. e \in Nat /\ e <= Len(file) /\ TimeOf(group) = file[e].timestamp
      BY <1>1, <2>4, GroupFacts, Zenon
    <2>6. e \in 1 .. Len(file) /\ applied < e
      BY <1>1, <2>2, <2>3, <2>5
    <2> QED BY <1>4, <2>3, <2>5, <2>6
  <1>11. {k \in 1 .. Len(pending) : TimeOf(pending[k]) <= LastSlice} = {}
    BY <1>2, <1>6, <1>10
  <1>12. RowsAt(pending, {}) = <<>>
    <2>1. Cardinality({}) = 0
      BY FS_EmptySet
    <2>2. {} \in SUBSET (1 .. Len(pending))
      OBVIOUS
    <2>3. RowsAt(pending, {}) \in Seq(Seq(BookUpdate)) /\ Len(RowsAt(pending, {})) = 0
      BY <1>1, <2>1, <2>2, RowsAtFacts
    <2> QED BY <2>3
  <1>13. FlattenSeq(<<>>) = <<>>
    <2>1. PICK none : none = <<>>
      OBVIOUS
    <2>2. none \in Seq(Seq(BookUpdate)) /\ Len(none) = 0
      BY <2>1
    <2>3. FlattenSeq(none) = <<>>
      BY <2>2, FlattenIs
    <2> QED BY <2>1, <2>3
  <1> QED BY <1>11, <1>12, <1>13 DEF Future

\* What an order of so much gets and pays on a book, in whatever pieces, is
\* what it gets and pays there at once.
Bought(filled, paid, now, book, order_side, asked) ==
    /\ asked > 0 => /\ filled = Filled(Walk(book, order_side, asked))
                    /\ paid = Notional(Walk(book, order_side, asked))
    /\ \A more \in Nat \ {0} :
          /\ Filled(Walk(book, order_side, asked + more)) = filled + Filled(Walk(now, order_side, more))
          /\ Notional(Walk(book, order_side, asked + more)) = paid + Notional(Walk(now, order_side, more))

LEMMA WalkSums ==
    ASSUME NEW book, SoundBook(book), NEW order_side, NEW quantity \in Nat \ {0}
    PROVE  /\ Filled(Walk(book, order_side, quantity)) \in Int
           /\ Notional(Walk(book, order_side, quantity)) \in Int
  <1>1. PICK side \in Side : side = ConsumedSide(order_side)
    BY ConsumedIsASide
  <1>2. PICK fill : fill = Walk(book, order_side, quantity)
    OBVIOUS
  <1>3. SoundFill(fill, side)
    BY <1>1, <1>2, WalkFacts
  <1> QED BY <1>2, <1>3 DEF SoundFill, FillRecords

LEMMA NothingBought ==
    ASSUME NEW book, SoundBook(book), NEW order_side
    PROVE  Bought(0, 0, book, book, order_side, 0)
  <1>1. ASSUME NEW more \in Nat \ {0}
        PROVE  /\ Filled(Walk(book, order_side, 0 + more)) = 0 + Filled(Walk(book, order_side, more))
               /\ Notional(Walk(book, order_side, 0 + more)) = 0 + Notional(Walk(book, order_side, more))
    <2>1. 0 + more = more
      OBVIOUS
    <2>2. \A a \in Int : 0 + a = a
      OBVIOUS
    <2> QED BY <2>1, <2>2, WalkSums
  <1> QED BY <1>1 DEF Bought

LEMMA BoughtMore ==
    ASSUME NEW book, NEW now, SoundBook(now), NEW order_side, NEW asked \in Nat,
           NEW filled \in Int, NEW paid \in Int, Bought(filled, paid, now, book, order_side, asked),
           NEW x \in Nat \ {0}, NEW fill, fill = Walk(now, order_side, x),
           NEW after, after = Depleted(now, order_side, fill)
    PROVE  Bought(filled + Filled(fill), paid + Notional(fill), after, book, order_side, asked + x)
  <1>1. SoundBook(after)
    <2>1. PICK side \in Side : side = ConsumedSide(order_side)
      BY ConsumedIsASide
    <2> QED BY <2>1, SoundAfterDepleted
  <1>2. /\ Filled(Walk(book, order_side, asked + x)) = filled + Filled(fill)
        /\ Notional(Walk(book, order_side, asked + x)) = paid + Notional(fill)
    BY DEF Bought
  <1>3. ASSUME NEW y \in Nat \ {0}
        PROVE  /\ Filled(Walk(book, order_side, (asked + x) + y))
                    = (filled + Filled(fill)) + Filled(Walk(after, order_side, y))
               /\ Notional(Walk(book, order_side, (asked + x) + y))
                    = (paid + Notional(fill)) + Notional(Walk(after, order_side, y))
    <2>1. PICK z \in Nat \ {0} : z = x + y
      OBVIOUS
    <2>2. (asked + x) + y = asked + z
      BY <2>1
    <2>3. /\ Filled(Walk(book, order_side, asked + z)) = filled + Filled(Walk(now, order_side, z))
          /\ Notional(Walk(book, order_side, asked + z)) = paid + Notional(Walk(now, order_side, z))
      BY DEF Bought
    <2>4. /\ Filled(Walk(now, order_side, z)) = Filled(fill) + Filled(Walk(after, order_side, y))
          /\ Notional(Walk(now, order_side, z)) = Notional(fill) + Notional(Walk(after, order_side, y))
      <3>1. PICK side \in Side : side = ConsumedSide(order_side)
        BY ConsumedIsASide
      <3> QED BY <2>1, <3>1, WalkInTwo
    <2>5. PICK f \in Int, g \in Int, p \in Int, q \in Int :
             /\ f = Filled(fill) /\ g = Filled(Walk(after, order_side, y))
             /\ p = Notional(fill) /\ q = Notional(Walk(after, order_side, y))
      BY <1>1, WalkSums
    <2>6. filled + (f + g) = (filled + f) + g /\ paid + (p + q) = (paid + p) + q
      OBVIOUS
    <2> QED BY <2>2, <2>3, <2>4, <2>5, <2>6
  <1>4. asked + x > 0
    OBVIOUS
  <1> QED BY <1>2, <1>3, <1>4 DEF Bought

IsAtOnce(row) ==
    KnownAt(row.timestamp) = KnownAt(LastSliceOf(row.timestamp)) =>
        row.sliced.filled = Filled(row.static) /\ row.sliced.notional = Notional(row.static)

\* While the pipeline runs it took what it was given, and what is left is in hand.
ReplayedInv ==
    /\ pc \notin {"returned", "raised"} =>
          /\ replay_batch = SubSeq(file, replayer.applied + 1, applied)
          /\ replayer.applied <= applied /\ CaughtUp(replayer, replayer.applied)
    /\ pc = "returned" => Forward(Len(file))

\* The order in hand, when there is nothing to come.
StillInv ==
    /\ order.updates = Future /\ static = Walk(replayer.book, config.side, Quantities[size])
    /\ Future = <<>> =>
          Bought(parent.filled, parent.notional, sim.book, replayer.book, config.side, AskedBy(children))

SplitInv ==
    /\ ReplayedInv
    /\ pc = "slicing" /\ sim_phase \in {"running", "returned"} => StillInv
    /\ \A i \in 1 .. Len(rows) : Forward(Len(file)) => IsAtOnce(rows[i])

LEMMA SplitHoldsAtStart == CalibrationInit => SplitInv
  <1> SUFFICES ASSUME CalibrationInit PROVE SplitInv
    OBVIOUS
  <1>1. /\ file \in Seq(BookUpdate) /\ replayer = NewReplayer /\ applied = 0 /\ replay_batch = <<>>
        /\ pc = "loop" /\ Len(rows) = 0
    BY CalibrationAssumption DEF CalibrationInit
  <1>2. replayer.applied = 0
    BY <1>1 DEF NewReplayer
  <1>3. SubSeq(file, 1, 0) = <<>>
    BY <1>1
  <1>4. Forward(0)
    BY DEF Forward
  <1>5. CaughtUp(replayer, 0)
    BY <1>1, <1>2, <1>4 DEF CaughtUp
  <1>6. ReplayedInv
    BY <1>1, <1>2, <1>3, <1>5 DEF ReplayedInv
  <1> QED BY <1>1, <1>6 DEF SplitInv

\* What is said of the day and of the rows sampled holds while both stay.
LEMMA SameSplit ==
    ASSUME Unchanged
    PROVE  /\ \A n : Forward(n)' <=> Forward(n)
           /\ \A row : IsAtOnce(row)' <=> IsAtOnce(row)
  <1>1. file' = file /\ config' = config
    BY DEF Unchanged
  <1>2. \A n : Forward(n)' <=> Forward(n)
    BY <1>1 DEF Forward
  <1>4. \A time : KnownAt(time)' = KnownAt(time) /\ LastSliceOf(time)' = LastSliceOf(time)
    BY <1>1 DEF KnownAt, LastSliceOf
  <1>5. \A row : IsAtOnce(row)' <=> IsAtOnce(row)
    BY <1>4 DEF IsAtOnce
  <1> QED BY <1>2, <1>5

\* A step that samples nothing.
LEMMA WithoutSample ==
    ASSUME SplitInv, Unchanged, rows' = rows, ReplayedInv',
           pc' = "slicing" /\ sim_phase' \in {"running", "returned"} => StillInv'
    PROVE  SplitInv'
  <1>1. file' = file
    BY DEF Unchanged
  <1>2. (\A i \in 1 .. Len(rows) : Forward(Len(file)) => IsAtOnce(rows[i]))'
    <2>1. Forward(Len(file))' <=> Forward(Len(file))
      BY <1>1 DEF Forward
    <2>2. \A row : IsAtOnce(row)' <=> IsAtOnce(row)
      BY SameSplit
    <2>3. \A i \in 1 .. Len(rows) : Forward(Len(file)) => IsAtOnce(rows[i])
      BY DEF SplitInv
    <2> QED BY <2>1, <2>2, <2>3 DEF IsAtOnce
  <1> QED BY <1>2 DEF SplitInv

\* A step that replays nothing leaves the pipeline where it is.
LEMMA SameReplayed ==
    ASSUME ReplayedInv, Unchanged, replayer' = replayer, replay_batch' = replay_batch, applied' = applied,
           pc \notin {"returned", "raised"}, pc' # "returned"
    PROVE  ReplayedInv'
  <1>1. file' = file
    BY DEF Unchanged
  <1>3. /\ replay_batch = SubSeq(file, replayer.applied + 1, applied)
        /\ replayer.applied <= applied /\ CaughtUp(replayer, replayer.applied)
    BY DEF ReplayedInv
  <1>4. CaughtUp(replayer, replayer.applied)'
    BY <1>1, <1>3 DEF CaughtUp, Forward
  <1> QED BY <1>1, <1>3, <1>4 DEF ReplayedInv

LEMMA TakeGroupKeepsSplit ==
    ASSUME GridInv, SplitInv, TakeGroup
    PROVE  SplitInv'
  <1>1. /\ Unchanged /\ rows' = rows /\ replayer' = replayer /\ pc = "loop" /\ pc' \in {"loop", "replay"}
        /\ file' = file
    BY DEF TakeGroup, Unchanged
  <1>2. /\ replay_batch = SubSeq(file, replayer.applied + 1, applied)
        /\ replayer.applied <= applied /\ CaughtUp(replayer, replayer.applied)
    BY <1>1 DEF SplitInv, ReplayedInv
  <1>3. PICK group : IsGroup(group, applied, applied') /\ replay_batch' = replay_batch \o group
    BY TakenIsPassed
  <1>4. /\ file \in Seq(BookUpdate) /\ applied \in Nat /\ applied' \in Nat
        /\ applied < applied' /\ applied' <= Len(file) /\ group = SubSeq(file, applied + 1, applied')
    <2>1. /\ file \in Seq(BookUpdate) /\ applied \in {0} \cup GroupEnds
          /\ applied' \in GroupEnds /\ applied < applied' /\ applied' <= Len(file)
      BY TakenGroup DEF GridInv
    <2>2. applied \in Nat /\ applied' \in Nat
      BY <2>1, GroupEndsType
    <2> QED BY <1>3, <2>1, <2>2 DEF IsGroup
  <1>5. replay_batch' = SubSeq(file, replayer.applied + 1, applied')
    <2>1. PICK a \in Nat : a = replayer.applied /\ a <= applied
      BY <1>2 DEF CaughtUp
    <2>2. PICK b \in Nat, c \in Nat, f \in Seq(BookUpdate) :
             b = applied /\ c = applied' /\ f = file /\ a <= b /\ b < c /\ c <= Len(f)
      BY <1>4, <2>1
    <2>2a. b <= c
      BY <2>2
    <2>3. SubSeq(f, a + 1, b) \o SubSeq(f, b + 1, c) = SubSeq(f, a + 1, c)
      BY <2>2, <2>2a, RowsJoined, Zenon
    <2> QED BY <1>2, <1>3, <1>4, <2>1, <2>2, <2>3
  <1>6. CaughtUp(replayer, replayer.applied)'
    BY <1>1, <1>2 DEF CaughtUp, Forward
  <1>7. replayer.applied <= applied'
    <2>1. replayer.applied \in Nat
      BY <1>2 DEF CaughtUp
    <2> QED BY <1>2, <1>4, <2>1
  <1>8. ReplayedInv'
    BY <1>1, <1>5, <1>6, <1>7 DEF ReplayedInv
  <1> QED BY <1>1, <1>8, WithoutSample

\* What is in hand, replayed without an error, brings the pipeline up to date.
LEMMA UpToDate ==
    ASSUME GridInv, ParentInv, ReplayedInv, pc \notin {"returned", "raised"},
           Replayed(replay_batch).error = NoError
    PROVE  CaughtUp(Replayed(replay_batch).replayer, applied) /\ applied \in Nat
  <1>1. /\ file \in Seq(BookUpdate) /\ SoundReplayer(replayer) /\ applied \in 0 .. Len(file) /\ applied \in Nat
    <2>1. file \in Seq(BookUpdate) /\ applied \in {0} \cup GroupEnds /\ SoundReplayer(replayer)
      BY DEF GridInv, ParentInv
    <2> QED BY <2>1, GroupEndsType
  <1>2. /\ replay_batch = SubSeq(file, replayer.applied + 1, applied)
        /\ replayer.applied <= applied /\ CaughtUp(replayer, replayer.applied)
    BY DEF ReplayedInv
  <1>3. PICK n \in Nat : n = replayer.applied /\ CaughtUp(replayer, n) /\ n <= applied
    BY <1>2 DEF CaughtUp
  <1>4. PICK e : e = applied /\ e \in n .. Len(file)
    BY <1>1, <1>3
  <1>5. PICK batch : batch = replay_batch
    OBVIOUS
  <1>6. batch = SubSeq(file, n + 1, e) /\ Replayed(batch).error = NoError
    BY <1>2, <1>3, <1>4, <1>5
  <1>7. CaughtUp(Replayed(batch).replayer, e)
    BY <1>1, <1>3, <1>4, <1>6, BatchCaughtUp
  <1> QED BY <1>1, <1>4, <1>5, <1>7

LEMMA ReplayKeepsSplit ==
    ASSUME GridInv, ParentInv, SplitInv, Replay
    PROVE  SplitInv'
  <1>1. /\ Unchanged /\ rows' = rows /\ applied' = applied /\ pc = "replay"
        /\ pc' \in {"raised", "loop", "look_ahead"} /\ file' = file
        /\ replayer' = Replayed(replay_batch).replayer
        /\ pc' # "raised" => Replayed(replay_batch).error = NoError /\ replay_batch' = <<>>
    BY DEF Replay, Unchanged
  <1>2. ASSUME pc' # "raised"
        PROVE  /\ replay_batch' = SubSeq(file, replayer'.applied + 1, applied)
               /\ replayer'.applied <= applied /\ CaughtUp(replayer', replayer'.applied)
    <2>1. CaughtUp(replayer', applied) /\ applied \in Nat
      BY <1>1, <1>2, UpToDate DEF SplitInv
    <2>2. replayer'.applied = applied
      BY <2>1 DEF CaughtUp
    <2>3. SubSeq(file, applied + 1, applied) = <<>>
      <3>1. file \in Seq(BookUpdate)
        BY DEF GridInv
      <3> QED BY <2>1, <3>1
    <2> QED BY <1>1, <1>2, <2>1, <2>2, <2>3
  <1>4. pc' # "raised" => CaughtUp(replayer, replayer.applied)'
    BY <1>1, <1>2 DEF CaughtUp, Forward
  <1>5. ReplayedInv'
    BY <1>1, <1>2, <1>4 DEF ReplayedInv
  <1> QED BY <1>1, <1>5, WithoutSample

LEMMA FinishKeepsSplit ==
    ASSUME GridInv, ParentInv, SplitInv, Finish
    PROVE  SplitInv'
  <1>1. /\ Unchanged /\ rows' = rows /\ applied' = applied /\ pc = "loop"
        /\ pc' \in {"raised", "returned"} /\ file' = file /\ pending = <<>> /\ ~ MoreGroups
        /\ pc' # "raised" => Replayed(replay_batch).error = NoError
    BY DEF Finish, Unchanged
  <1>2. ASSUME pc' # "raised" PROVE Forward(Len(file))
    <2>1. CaughtUp(Replayed(replay_batch).replayer, applied) /\ applied \in Nat
      BY <1>1, <1>2, UpToDate DEF SplitInv
    <2>2. PICK ends \in [0 .. Len(pending) -> {0} \cup GroupEnds] :
             ends[0] = applied /\ ends[Len(pending)] = position
      BY DEF GridInv, PendingInv
    <2>3. position = applied
      BY <1>1, <2>2
    <2>4. Len(file) \in Nat /\ applied <= Len(file)
      BY <2>1, GroupEndsType DEF GridInv, CaughtUp
    <2>5. applied = Len(file)
      BY <1>1, <2>1, <2>3, <2>4 DEF MoreGroups
    <2> QED BY <2>1, <2>5 DEF CaughtUp
  <1>3. pc' # "raised" => Forward(Len(file))'
    <2>1. \A n : Forward(n)' <=> Forward(n)
      BY <1>1, SameSplit
    <2> QED BY <1>1, <1>2, <2>1 DEF Forward
  <1>4. ReplayedInv'
    BY <1>1, <1>3 DEF ReplayedInv
  <1> QED BY <1>1, <1>4, WithoutSample

LEMMA LookingKeepsSplit ==
    ASSUME SplitInv, LookAhead \/ LookedAhead \/ SlicedThrows
    PROVE  SplitInv'
  <1>1. /\ Unchanged /\ rows' = rows /\ replayer' = replayer /\ replay_batch' = replay_batch
        /\ applied' = applied /\ pc \in {"look_ahead", "slicing"}
        /\ pc' \in {"look_ahead", "quote", "raised"}
    BY DEF LookAhead, LookedAhead, SlicedThrows
  <1>2. ReplayedInv'
    BY <1>1, SameReplayed DEF SplitInv
  <1> QED BY <1>1, <1>2, WithoutSample

LEMMA AskedIsNat ==
    ASSUME NEW slices \in Seq(SlicedRecords), NEW side,
           \A j \in DOMAIN slices : SoundFill(slices[j].fill, side)
    PROVE  AskedBy(slices) \in Nat
  <1>1. PICK n \in Nat : n = Len(slices) /\ DOMAIN slices = 1 .. n
    OBVIOUS
  <1>2. PICK a : a = [j \in DOMAIN slices |-> slices[j].fill.requested]
    OBVIOUS
  <1>3. DOMAIN a = 1 .. n /\ \A j \in 1 .. n : a[j] \in Nat
    BY <1>1, <1>2 DEF SoundFill, FillRecords
  <1>4. \A j \in 1 .. n : a[j] \in Int
    BY <1>3
  <1>5. PICK s : AreSums(s, a, n) /\ Total(a) = s[n]
    BY <1>3, <1>4, SumsExist
  <1>6. s[0] <= s[n]
    BY <1>3, <1>5, SumsGrow, 0 \in 0 .. n, n \in 0 .. n, 0 <= n
  <1>7. s[0] = 0 /\ s[n] \in Int
    BY <1>5, n \in 0 .. n DEF AreSums
  <1> QED BY <1>2, <1>5, <1>6, <1>7 DEF AskedBy

LEMMA QuoteKeepsSplit ==
    ASSUME ParentInv, SplitInv, Quote
    PROVE  SplitInv'
  <1>1. /\ Unchanged /\ rows' = rows /\ replayer' = replayer /\ replay_batch' = replay_batch
        /\ applied' = applied /\ pc = "quote" /\ pc' = "slicing" /\ size' = size
        /\ pending' = pending /\ instant' = instant /\ config' = config
        /\ static' = Walk(replayer.book, config.side, Quantities[size])
        /\ CallSliced(replayer, Future, config.side, Quantities[size], Schedule)
    BY DEF Quote, Unchanged
  <1>2. ReplayedInv'
    BY <1>1, SameReplayed DEF SplitInv
  <1>3. /\ order'.updates = Future /\ sim' = replayer /\ children' = <<>>
        /\ parent'.filled = 0 /\ parent'.notional = 0
    BY <1>1 DEF CallSliced
  <1>4. Future' = Future
    BY <1>1 DEF Future, LastSlice
  <1>5. SoundBook(replayer.book)
    BY DEF ParentInv, SoundReplayer
  <1>6. Bought(0, 0, replayer.book, replayer.book, config.side, 0)
    BY <1>5, NothingBought
  <1>7. Bought(parent.filled, parent.notional, sim.book, replayer.book, config.side, AskedBy(children))'
    <2>1. AskedBy(children)' = 0
      BY <1>3, SumsOfNone DEF AskedBy
    <2> QED BY <1>1, <1>3, <1>6, <2>1 DEF Bought
  <1>8. StillInv'
    BY <1>1, <1>3, <1>4, <1>7 DEF StillInv
  <1> QED BY <1>1, <1>2, <1>8, WithoutSample

\* A slice of an order that is alone on the book.
LEMMA ExecuteSlotIsStill ==
    ASSUME OrderInv, StillInv, Future = <<>>, order.total \in Nat \ {0}, ExecuteSlot,
           config' = config, size' = size, replayer' = replayer
    PROVE  Bought(parent.filled, parent.notional, sim.book, replayer.book, config.side, AskedBy(children))'
  <1>1. /\ InSlot /\ SlotSize > 0 /\ slot' = slot + 1 /\ order' = order
    BY DEF ExecuteSlot
  <1>2. /\ slot \in 1 .. Slices /\ (slot + 1) - 1 = slot /\ SlotSize \in Nat \ {0}
        /\ AskedTo(order.total, order.schedule, slot)
             = AskedTo(order.total, order.schedule, slot - 1) + SlotSize
    BY <1>1, SlotFacts
  <1>3. PICK x \in Nat \ {0} : x = SlotSize
    BY <1>2
  <1>4. PICK fill, now, order_side : /\ now = sim.book /\ order_side = config.side
                                     /\ fill = Walk(now, order_side, x) /\ order_side = order.side
    BY DEF OrderInv
  <1>5. PICK after : after = Depleted(now, order_side, fill)
    OBVIOUS
  <1>6. /\ sim' = [sim EXCEPT !.book = after]
        /\ parent' = WithChild(parent, fill, children = <<>>)
    BY <1>3, <1>4, <1>5 DEF ExecuteSlot
  <1>7. SoundBook(now) /\ sim \in Replayers
    BY <1>4 DEF OrderInv, SoundReplayer
  <1>8. SumsUp(parent, children, ConsumedSide(config.side))
    BY DEF OrderInv
  <1>9. parent \in Parents /\ AskedBy(children) \in Nat
    BY <1>8, AskedIsNat DEF SumsUp
  <1>10. PICK asked \in Nat, filled \in Int, paid \in Int :
            asked = AskedBy(children) /\ filled = parent.filled /\ paid = parent.notional
    BY <1>9 DEF Parents
  <1>11. PICK book : book = replayer.book
    OBVIOUS
  <1>12. Bought(filled, paid, now, book, order_side, asked)
    BY <1>4, <1>10, <1>11 DEF StillInv
  <1>13. Bought(filled + Filled(fill), paid + Notional(fill), after, book, order_side, asked + x)
    BY <1>4, <1>5, <1>7, <1>12, BoughtMore
  <1>14. sim'.book = after
    BY <1>6, <1>7 DEF Replayers
  <1>15. parent'.filled = filled + Filled(fill) /\ parent'.notional = paid + Notional(fill)
    BY <1>6, <1>9, <1>10 DEF WithChild, Parents
  <1>16. AskedBy(children)' = asked + x
    <2>1. OrderInv'
      BY ExecuteSlotKeepsOrder
    <2>2. AskedBy(children)' = AskedTo(order.total, order.schedule, slot)
      <3>1. AskedBy(children') = AskedTo(order'.total, order'.schedule, slot' - 1)
        BY <2>1 DEF OrderInv, AskedBy
      <3> QED BY <1>1, <1>2, <3>1 DEF AskedBy
    <2>3. AskedBy(children) = AskedTo(order.total, order.schedule, slot - 1)
      BY DEF OrderInv
    <2> QED BY <1>2, <1>3, <1>10, <2>2, <2>3
  <1> QED BY <1>4, <1>11, <1>13, <1>14, <1>15, <1>16 DEF Bought

LEMMA SimNextKeepsSplit ==
    ASSUME GridInv, ParentInv, SplitInv, pc = "slicing", SimNext,
           UNCHANGED <<file, config, position, pending, replay_batch, replayer, applied, threshold,
                       instant, size, static, rows, pc>>
    PROVE  SplitInv'
  <1>1. /\ Unchanged /\ config' = config /\ rows' = rows /\ replayer' = replayer /\ pc' = pc
        /\ replay_batch' = replay_batch /\ applied' = applied /\ size' = size /\ static' = static
        /\ pending' = pending /\ instant' = instant
    BY DEF Unchanged
  <1>2. sim_phase = "running"
    BY DEF SimNext, ApplyDue, SkipSlot, ExecuteSlot, EndOrder, InSlot
  <1>3. OrderInv /\ StillInv
    BY <1>2 DEF ParentInv, SplitInv
  <1>4. order.total \in Nat \ {0}
    BY <1>3, AskedAtSample DEF AtSample, OrderInv
  <1>5. ReplayedInv'
    BY <1>1, SameReplayed DEF SplitInv
  <1>6. Future' = Future
    BY <1>1 DEF Future, LastSlice
  <1>7. order' = order
    BY DEF SimNext, ApplyDue, SkipSlot, ExecuteSlot, EndOrder
  <1>8. ASSUME Future = <<>>
        PROVE  Bought(parent.filled, parent.notional, sim.book, replayer.book, config.side,
                      AskedBy(children))'
    <2>1. Bought(parent.filled, parent.notional, sim.book, replayer.book, config.side, AskedBy(children))
      BY <1>3, <1>8 DEF StillInv
    <2>2. CASE ApplyDue
      <3>1. cursor < Len(order.updates) /\ cursor \in Nat /\ order.updates = <<>>
        BY <1>3, <1>8, <2>2 DEF ApplyDue, HasDue, OrderInv, StillInv
      <3> QED BY <3>1
    <2>3. CASE SkipSlot \/ EndOrder
      <3>1. sim' = sim /\ parent' = parent /\ children' = children
        BY <2>3 DEF SkipSlot, EndOrder
      <3> QED BY <1>1, <2>1, <3>1 DEF Bought, AskedBy
    <2>4. CASE ExecuteSlot
      BY <1>1, <1>3, <1>4, <1>8, <2>4, ExecuteSlotIsStill
    <2> QED BY <2>2, <2>3, <2>4 DEF SimNext
  <1>9. StillInv'
    BY <1>1, <1>3, <1>6, <1>7, <1>8 DEF StillInv
  <1> QED BY <1>1, <1>5, <1>9, WithoutSample

LEMMA RecordKeepsSplit ==
    ASSUME GridInv, ParentInv, SplitInv, Record
    PROVE  SplitInv'
  <1>1. PICK row : row = [event_count |-> applied, timestamp |-> instant, size |-> size,
                          static |-> static, sliced |-> parent, slices |-> children]
    OBVIOUS
  <1>2. /\ pc = "slicing" /\ sim_phase = "returned" /\ pc' \in {"quote", "loop"}
        /\ rows' = Append(rows, row) /\ Unchanged /\ file' = file
        /\ replayer' = replayer /\ replay_batch' = replay_batch /\ applied' = applied
    BY <1>1 DEF Record, Unchanged
  <1>3. OrderInv /\ StillInv
    BY <1>2 DEF ParentInv, SplitInv
  <1>4. ReplayedInv'
    BY <1>2, SameReplayed DEF SplitInv
  <1>5. PICK total \in Nat \ {0} : total = order.total /\ total = Quantities[size]
    BY <1>2, <1>3, AskedAtSample DEF AtSample, OrderInv
  <1>6. AskedBy(children) = total
    <2>1. /\ slot = Slices + 1 /\ AskedBy(children) = AskedTo(order.total, order.schedule, slot - 1)
          /\ order.schedule.slices = Slices /\ GoodWeights(order.schedule.weights, Slices)
      BY <1>2, <1>3 DEF OrderInv
    <2>2. PICK schedule : schedule = order.schedule
      OBVIOUS
    <2>3. AskedTo(total, schedule, Slices) = total
      <3>1. GoodWeights(schedule.weights, Slices) /\ Slices = schedule.slices
        BY <2>1, <2>2
      <3> QED BY <3>1, AskedFacts
    <2>4. slot - 1 = Slices
      BY <2>1, CalibrationAssumption
    <2> QED BY <1>5, <2>1, <2>2, <2>3, <2>4
  <1>7. ASSUME Forward(Len(file)) PROVE IsAtOnce(row)
    <2>1. row.timestamp = instant /\ row.sliced = parent /\ row.static = static
      BY <1>1
    <2>2. LastSliceOf(instant) = LastSlice
      BY DEF LastSliceOf, LastSlice
    <2>3. ASSUME KnownAt(instant) = KnownAt(LastSlice)
          PROVE  parent.filled = Filled(static) /\ parent.notional = Notional(static)
      <3>1. Future = <<>>
        BY <1>2, <1>7, <2>3, NothingAhead DEF AtSample
      <3>2. Bought(parent.filled, parent.notional, sim.book, replayer.book, config.side, total)
        BY <1>3, <1>6, <3>1 DEF StillInv
      <3>3. static = Walk(replayer.book, config.side, total)
        BY <1>3, <1>5 DEF StillInv
      <3> QED BY <1>5, <3>2, <3>3 DEF Bought
    <2> QED BY <2>1, <2>2, <2>3 DEF IsAtOnce
  <1>8. PICK n \in Nat : n = Len(rows)
    BY DEF GridInv, RowsInv
  <1>9. Len(rows') = n + 1 /\ rows'[n + 1] = row /\ \A i \in 1 .. n : rows'[i] = rows[i]
    <2>1. rows \in Seq(Range(rows))
      BY DEF GridInv, RowsInv
    <2> QED BY <1>2, <1>8, <2>1
  <1>10. Forward(Len(file)) => \A i \in 1 .. Len(rows') : IsAtOnce(rows'[i])
    <2>1. Forward(Len(file)) => \A i \in 1 .. n : IsAtOnce(rows[i])
      BY <1>8 DEF SplitInv
    <2>2. \A i \in 1 .. n + 1 : i \in 1 .. n \/ i = n + 1
      BY <1>8
    <2> QED BY <1>7, <1>9, <2>1, <2>2
  <1>11. (\A i \in 1 .. Len(rows) : Forward(Len(file)) => IsAtOnce(rows[i]))'
    <2>1. Forward(Len(file))' <=> Forward(Len(file))
      BY <1>2 DEF Forward
    <2>2. config' = config
      BY <1>2 DEF Unchanged
    <2> QED BY <1>2, <1>10, <2>1, <2>2 DEF IsAtOnce, KnownAt, LastSliceOf
  <1>12. pc' # "slicing"
    BY <1>2
  <1> QED BY <1>4, <1>11, <1>12 DEF SplitInv

(* What the pipeline has not been given yet is in hand, the rows it took   *)
(* are in the order of time, and an order that nothing happens to has, in  *)
(* all its slices so far, what it would have at once, and leaves a book    *)
(* that gives whatever is still asked as the rest of one walk              *)
(* (sample_rows, execute_market_order,                                     *)
(* simulate_sliced_execution_from_state).                                  *)
THEOREM SplitInvariant == CalibrationSpec => []SplitInv
  <1>1. CalibrationInit => SplitInv
    BY SplitHoldsAtStart
  <1>2. GridInv /\ ParentInv /\ SplitInv /\ [CalibrationNext]_calibrationVars => SplitInv'
    <2> SUFFICES ASSUME GridInv, ParentInv, SplitInv, [CalibrationNext]_calibrationVars
                 PROVE  SplitInv'
      OBVIOUS
    <2>1. CASE TakeGroup
      BY <2>1, TakeGroupKeepsSplit
    <2>2. CASE Replay
      BY <2>2, ReplayKeepsSplit
    <2>3. CASE Finish
      BY <2>3, FinishKeepsSplit
    <2>4. CASE LookAhead \/ LookedAhead \/ SlicedThrows
      BY <2>4, LookingKeepsSplit
    <2>5. CASE Quote
      BY <2>5, QuoteKeepsSplit
    <2>6. CASE Record
      BY <2>6, RecordKeepsSplit
    <2>7. CASE /\ pc = "slicing" /\ SimNext
               /\ UNCHANGED <<file, config, position, pending, replay_batch, replayer, applied, threshold,
                              instant, size, static, rows, pc>>
      BY <2>7, SimNextKeepsSplit
    <2>8. CASE UNCHANGED calibrationVars
      <3>1. /\ Unchanged /\ file' = file /\ config' = config /\ rows' = rows /\ replayer' = replayer
            /\ replay_batch' = replay_batch /\ pc' = pc /\ size' = size /\ order' = order
            /\ sim_phase' = sim_phase /\ sim' = sim /\ children' = children /\ parent' = parent
            /\ applied' = applied /\ static' = static /\ pending' = pending /\ instant' = instant
        BY <2>8 DEF calibrationVars, simVars, Unchanged
      <3>2. ReplayedInv'
        BY <3>1 DEF SplitInv, ReplayedInv, CaughtUp, Forward
      <3>3. Future' = Future
        BY <3>1 DEF Future, LastSlice
      <3>4. StillInv => StillInv'
        BY <3>1, <3>3 DEF StillInv, Bought, AskedBy
      <3> QED BY <3>1, <3>2, <3>4, WithoutSample DEF SplitInv
    <2> QED BY <2>1, <2>2, <2>3, <2>4, <2>5, <2>6, <2>7, <2>8 DEF CalibrationNext
  <1> QED BY <1>1, <1>2, GridInvariant, ParentInvariant, PTL DEF CalibrationSpec

(* Whatever the day, the books, the sizes and the schedule: "splitting an  *)
(* order at one instant does not make it cheaper"                          *)
(* (test_impact_simulator.cpp:550).                                        *)
THEOREM SplittingIsNeverCheaper == CalibrationSpec => []SplittingIsNotCheaper
  <1>1. SplitInv => SplittingIsNotCheaper
    <2> SUFFICES ASSUME SplitInv, pc = "returned", NEW i \in 1 .. Len(rows),
                        KnownAt(rows[i].timestamp) = KnownAt(LastSliceOf(rows[i].timestamp))
                 PROVE  /\ rows[i].sliced.filled = Filled(rows[i].static)
                        /\ rows[i].sliced.notional = Notional(rows[i].static)
      BY DEF SplittingIsNotCheaper, LastSliceOf
    <2>1. Forward(Len(file))
      BY DEF SplitInv, ReplayedInv
    <2>2. IsAtOnce(rows[i])
      BY <2>1 DEF SplitInv
    <2> QED BY <2>2 DEF IsAtOnce
  <1> QED BY <1>1, SplitInvariant, PTL

(***************************************************************************)
(* Fills and the market.                                                   *)
(***************************************************************************)

\* What the first m slices took at a price since a word on it.
TakenSince(slices, m, side, price, word) ==
    Total([i \in 1 .. m |->
              IF side = ConsumedSide(config.side) /\ KnownAt(slices[i].at) >= word
              THEN TakenAt(slices[i].fill, price) ELSE 0])

\* What n rows and the first m slices leave at a price.
Remains(slices, m, side, price, n) ==
    LET word == LastWord(side, price, n)
    IN  IF word = 0 THEN 0 ELSE file[word].quantity - TakenSince(slices, m, side, price, word)

IsBookAt(book, slices, m, n) ==
    \A side \in Side : \A price, quantity \in Int :
        Holds(book[side], price, quantity)
           <=> quantity # 0 /\ quantity = Remains(slices, m, side, price, n)

\* What a slice walked is what the rows known at its instant and the slices
\* before it left.
IsOnMarket(slices, j) ==
    \E book, quantity :
        /\ quantity \in Nat \ {0} /\ SoundBook(book)
        /\ IsBookAt(book, slices, j - 1, KnownAt(slices[j].at))
        /\ slices[j].fill = Walk(book, config.side, quantity)

\* The replayer that took the first n rows, and of whose book the slices took.
IsMarket(r, slices, m, n) ==
    /\ n \in 0 .. Len(file)
    /\ \A i \in 1 .. n : file[i].price > 0
    /\ r.previous_was_snapshot <=> (n = 0 \/ file[n].is_snapshot)
    /\ IsBookAt(r.book, slices, m, n)

(***************************************************************************)
(* The last word on a price.                                               *)
(***************************************************************************)

LEMMA TotalOfZeros ==
    ASSUME NEW n \in Nat, NEW a, DOMAIN a = 1 .. n, \A i \in 1 .. n : a[i] = 0
    PROVE  Total(a) = 0
  <1>1. PICK s : AreSums(s, a, n) /\ Total(a) = s[n]
    <2>1. \A i \in 1 .. n : a[i] \in Int
      OBVIOUS
    <2> QED BY <2>1, SumsExist
  <1> DEFINE S == {k \in 0 .. n : s[k] = 0}
  <1>2. 0 \in S
    BY <1>1 DEF AreSums
  <1>3. ASSUME NEW k \in 0 .. n - 1, k \in S PROVE k + 1 \in S
    <2>1. k + 1 \in 1 .. n /\ k + 1 \in 0 .. n
      OBVIOUS
    <2>2. s[k + 1] = s[k] + a[k + 1]
      BY <1>1 DEF AreSums
    <2> QED BY <1>3, <2>1, <2>2
  <1>4. \A k \in 0 .. n : k \in S
    <2> HIDE DEF S
    <2> QED BY <1>2, <1>3, StepByStep
  <1>5. n \in 0 .. n
    OBVIOUS
  <1> QED BY <1>1, <1>4, <1>5

\* Quantities that are the same but for one.
DifferAt(a, b, n, k) ==
    /\ DOMAIN a = 1 .. n /\ DOMAIN b = 1 .. n /\ k \in 1 .. n
    /\ \A i \in 1 .. n : a[i] \in Int /\ b[i] \in Int /\ (i # k => a[i] = b[i])

\* A sum grows by what one of the quantities grows by.
LEMMA TotalOfOneChanged ==
    ASSUME NEW n \in Nat, NEW a, NEW b, NEW k, DifferAt(a, b, n, k)
    PROVE  Total(b) = Total(a) + (b[k] - a[k])
  <1>0. /\ DOMAIN a = 1 .. n /\ DOMAIN b = 1 .. n /\ k \in 1 .. n
        /\ \A i \in 1 .. n : a[i] \in Int /\ b[i] \in Int /\ (i # k => a[i] = b[i])
    BY DEF DifferAt
  <1>1. PICK s : AreSums(s, a, n) /\ Total(a) = s[n]
    BY <1>0, SumsExist
  <1>2. PICK t : AreSums(t, b, n) /\ Total(b) = t[n]
    BY <1>0, SumsExist
  <1> DEFINE S == {i \in 0 .. n : t[i] = IF i < k THEN s[i] ELSE s[i] + (b[k] - a[k])}
  <1>3. 0 \in S
    BY <1>0, <1>1, <1>2 DEF AreSums
  <1>4. ASSUME NEW i \in 0 .. n - 1, i \in S PROVE i + 1 \in S
    <2>1. /\ i + 1 \in 1 .. n /\ i + 1 \in 0 .. n /\ i \in 0 .. n /\ a[k] \in Int /\ b[k] \in Int
          /\ a[i + 1] \in Int /\ b[i + 1] \in Int
      BY <1>0
    <2>2. /\ s[i + 1] = s[i] + a[i + 1] /\ t[i + 1] = t[i] + b[i + 1]
          /\ s[i] \in Int /\ t[i] \in Int
      BY <1>1, <1>2, <2>1 DEF AreSums
    <2>3. PICK x \in Int, y \in Int, u \in Int, v \in Int :
             x = s[i] /\ y = t[i] /\ u = a[i + 1] /\ v = b[i + 1]
      BY <2>1, <2>2
    <2>4. PICK g \in Int : g = b[k] - a[k]
      BY <2>1
    <2>5. y = IF i < k THEN x ELSE x + g
      BY <1>4, <2>3, <2>4
    <2>6. i + 1 # k => u = v
      BY <1>0, <2>1, <2>3
    <2>7. i + 1 = k => v = u + g
      BY <2>1, <2>3, <2>4
    <2>8a. i \in Int /\ k \in Int
      BY <1>0
    <2>8. y + v = IF i + 1 < k THEN x + u ELSE (x + u) + g
      BY <2>5, <2>6, <2>7, <2>8a
    <2>9. t[i + 1] = IF i + 1 < k THEN s[i + 1] ELSE s[i + 1] + (b[k] - a[k])
      BY <2>2, <2>3, <2>4, <2>8
    <2> QED BY <2>1, <2>9
  <1>5. \A i \in 0 .. n : i \in S
    <2> HIDE DEF S
    <2> QED BY <1>3, <1>4, StepByStep
  <1>6. n \in 0 .. n /\ ~ (n < k)
    BY <1>0
  <1> QED BY <1>1, <1>2, <1>5, <1>6

LEMMA BookStartType ==
    ASSUME file \in Seq(BookUpdate), NEW n \in Nat
    PROVE  BookStart(n) \in 1 .. n + 1
  <1> DEFINE S == {1} \cup {i \in 2 .. n : file[i].is_snapshot /\ ~ file[i - 1].is_snapshot}
  <1>1. S \in SUBSET (0 .. n + 1) /\ S # {} /\ \A i \in S : i \in 1 .. n + 1
    OBVIOUS
  <1>2. BookStart(n) = Max(S)
    BY DEF BookStart
  <1> HIDE DEF S
  <1>3. Max(S) \in S
    BY <1>1, MaxIsGreatest, n + 1 \in Nat
  <1> QED BY <1>1, <1>2, <1>3

\* A block goes on, or a new one opens.
LEMMA BookStartOfOneMore ==
    ASSUME file \in Seq(BookUpdate), NEW n \in Nat
    PROVE  BookStart(n + 1) = IF n > 0 /\ file[n + 1].is_snapshot /\ ~ file[n].is_snapshot
                              THEN n + 1 ELSE BookStart(n)
  <1> DEFINE S(k) == {1} \cup {i \in 2 .. k : file[i].is_snapshot /\ ~ file[i - 1].is_snapshot}
             opens == n > 0 /\ file[n + 1].is_snapshot /\ ~ file[n].is_snapshot
  <1>1. \A k : BookStart(k) = Max(S(k))
    BY DEF BookStart
  <1>2. CASE opens
    <2>1. n + 1 \in S(n + 1)
      <3>1. n + 1 \in 2 .. n + 1 /\ (n + 1) - 1 = n
        BY <1>2
      <3> QED BY <1>2, <3>1
    <2>2. S(n + 1) \in SUBSET Int /\ \A i \in S(n + 1) : i <= n + 1
      OBVIOUS
    <2> HIDE DEF S
    <2>3. Max(S(n + 1)) = n + 1
      BY <2>1, <2>2, MaxIs
    <2> QED BY <1>1, <1>2, <2>3
  <1>3. CASE ~ opens
    <2>1. \A i : i \in S(n + 1) => i \in S(n)
      <3> SUFFICES ASSUME NEW i \in S(n + 1), i # 1 PROVE i \in S(n)
        OBVIOUS
      <3>1. i \in 2 .. n + 1 /\ file[i].is_snapshot /\ ~ file[i - 1].is_snapshot
        OBVIOUS
      <3>2. CASE i = n + 1
        <4>1. n > 0 /\ i - 1 = n
          BY <3>1, <3>2
        <4> QED BY <1>3, <3>1, <3>2, <4>1
      <3>3. CASE i # n + 1
        <4>1. i \in 2 .. n
          BY <3>1, <3>3
        <4> QED BY <3>1, <4>1
      <3> QED BY <3>2, <3>3
    <2>2. \A i : i \in S(n) => i \in S(n + 1)
      OBVIOUS
    <2>3. S(n + 1) = S(n)
      BY <2>1, <2>2
    <2> QED BY <1>1, <1>3, <2>3
  <1> QED BY <1>2, <1>3

LEMMA LastWordType ==
    ASSUME file \in Seq(BookUpdate), NEW n \in Nat, NEW side, NEW price
    PROVE  /\ LastWord(side, price, n) \in 0 .. n
           /\ LastWord(side, price, n) # 0 => file[LastWord(side, price, n)].price = price
  <1> DEFINE S == {0} \cup {i \in BookStart(n) .. n : file[i].side = side /\ file[i].price = price}
  <1>1. LastWord(side, price, n) = Max(S)
    BY DEF LastWord
  <1>2. S \in SUBSET (0 .. n) /\ S # {} /\ \A i \in S : i # 0 => file[i].price = price
    <2>1. BookStart(n) \in 1 .. n + 1
      BY BookStartType
    <2> QED BY <2>1
  <1> HIDE DEF S
  <1>3. Max(S) \in S
    BY <1>2, MaxIsGreatest
  <1> QED BY <1>1, <1>2, <1>3

\* One more row has the last word on its own price, and takes it from all
\* others if it opens a block.
LEMMA LastWordOfOneMore ==
    ASSUME file \in Seq(BookUpdate), NEW n \in Nat, NEW side, NEW price
    PROVE  LastWord(side, price, n + 1) =
              IF file[n + 1].side = side /\ file[n + 1].price = price THEN n + 1
              ELSE IF n > 0 /\ file[n + 1].is_snapshot /\ ~ file[n].is_snapshot THEN 0
              ELSE LastWord(side, price, n)
  <1> DEFINE S(k) == {0} \cup {i \in BookStart(k) .. k : file[i].side = side /\ file[i].price = price}
             opens == n > 0 /\ file[n + 1].is_snapshot /\ ~ file[n].is_snapshot
             own == file[n + 1].side = side /\ file[n + 1].price = price
  <1>1. \A k : LastWord(side, price, k) = Max(S(k))
    BY DEF LastWord
  <1>2. /\ BookStart(n + 1) = IF opens THEN n + 1 ELSE BookStart(n)
        /\ BookStart(n) \in 1 .. n + 1
    BY BookStartOfOneMore, BookStartType
  <1>3. PICK b \in 1 .. n + 1 : b = BookStart(n)
    BY <1>2
  <1>4. PICK c \in 1 .. n + 1 : c = BookStart(n + 1) /\ c = IF opens THEN n + 1 ELSE b
    BY <1>2, <1>3
  <1>5. S(n + 1) = {0} \cup {i \in c .. n + 1 : file[i].side = side /\ file[i].price = price}
    BY <1>4
  <1>6. S(n) = {0} \cup {i \in b .. n : file[i].side = side /\ file[i].price = price}
    BY <1>3
  <1>7. CASE own
    <2>1. n + 1 \in S(n + 1) /\ S(n + 1) \in SUBSET Int /\ \A i \in S(n + 1) : i <= n + 1
      BY <1>5, <1>7
    <2> HIDE DEF S
    <2>2. Max(S(n + 1)) = n + 1
      BY <2>1, MaxIs
    <2> QED BY <1>1, <1>7, <2>2
  <1>8. CASE ~ own /\ opens
    <2>1. S(n + 1) = {0}
      BY <1>4, <1>5, <1>8
    <2>2. Max({0}) = 0
      <3>1. {0} \in SUBSET Int /\ 0 \in {0} /\ \A k \in {0} : k <= 0
        OBVIOUS
      <3> QED BY <3>1, MaxIs
    <2> QED BY <1>1, <1>8, <2>1, <2>2
  <1>9. CASE ~ own /\ ~ opens
    <2>1. \A i : i \in c .. n + 1 /\ file[i].side = side /\ file[i].price = price
                  <=> i \in b .. n /\ file[i].side = side /\ file[i].price = price
      <3>1. c = b
        BY <1>4, <1>9
      <3>2. \A i : i \in c .. n + 1 <=> i \in b .. n \/ i = n + 1
        BY <3>1
      <3>3. n + 1 \notin b .. n
        OBVIOUS
      <3> QED BY <1>9, <3>2, <3>3
    <2>2. S(n + 1) = S(n)
      BY <1>5, <1>6, <2>1
    <2> QED BY <1>1, <1>9, <2>2
  <1> QED BY <1>7, <1>8, <1>9

(***************************************************************************)
(* What the market leaves.                                                 *)
(***************************************************************************)

LEMMA KnownAtType ==
    ASSUME file \in Seq(BookUpdate), NEW time
    PROVE  KnownAt(time) \in 0 .. Len(file)
  <1>1. PICK S : S = {i \in 1 .. Len(file) : file[i].timestamp <= time}
    OBVIOUS
  <1>2. Len(file) \in Nat /\ IsFiniteSet(1 .. Len(file)) /\ Cardinality(1 .. Len(file)) = Len(file)
    <2>1. PICK n \in Nat : n = Len(file)
      OBVIOUS
    <2>2. IsFiniteSet(1 .. n) /\ Cardinality(1 .. n) = n
      BY FS_Interval
    <2> QED BY <2>1, <2>2
  <1>3. S \in SUBSET (1 .. Len(file))
    BY <1>1
  <1>4. IsFiniteSet(S) /\ Cardinality(S) <= Len(file)
    BY <1>2, <1>3, FS_Subset
  <1>5. Cardinality(S) \in Nat
    BY <1>4, FS_CardinalityType
  <1> QED BY <1>1, <1>2, <1>4, <1>5 DEF KnownAt

\* The first m slices are fills whose quantities add up.
AreFills(slices, m) ==
    \A i \in 1 .. m : \A price \in Int : TakenAt(slices[i].fill, price) \in Int

LEMMA TakenSinceType ==
    ASSUME file \in Seq(BookUpdate), NEW slices, NEW m \in Nat, AreFills(slices, m),
           NEW side, NEW price \in Int, NEW word
    PROVE  TakenSince(slices, m, side, price, word) \in Int
  <1>1. PICK a : a = [i \in 1 .. m |->
                        IF side = ConsumedSide(config.side) /\ KnownAt(slices[i].at) >= word
                        THEN TakenAt(slices[i].fill, price) ELSE 0]
    OBVIOUS
  <1>2. DOMAIN a = 1 .. m /\ \A i \in 1 .. m : a[i] \in Int
    BY <1>1 DEF AreFills
  <1>3. Total(a) \in Int
    BY <1>2, TotalFacts
  <1> QED BY <1>1, <1>3 DEF TakenSince

LEMMA RemainsType ==
    ASSUME file \in Seq(BookUpdate), NEW slices, NEW m \in Nat, AreFills(slices, m),
           NEW side, NEW price \in Int, NEW n \in 0 .. Len(file)
    PROVE  Remains(slices, m, side, price, n) \in Int
  <1>1. n \in Nat /\ n <= Len(file)
    OBVIOUS
  <1>2. PICK word \in 0 .. n : word = LastWord(side, price, n)
    BY <1>1, LastWordType
  <1>3. word # 0 => file[word].quantity \in Int
    <2>1. word # 0 => word \in 1 .. Len(file)
      BY <1>1
    <2>2. word # 0 => file[word] \in BookUpdate
      BY <2>1
    <2> QED BY <2>2 DEF BookUpdate
  <1>4. TakenSince(slices, m, side, price, word) \in Int
    BY TakenSinceType
  <1> QED BY <1>2, <1>3, <1>4 DEF Remains

\* It is left to the slices that come later whatever these are.
LEMMA RemainsSame ==
    ASSUME NEW a, NEW b, NEW m \in Nat, \A i \in 1 .. m : a[i] = b[i],
           NEW side, NEW price, NEW n
    PROVE  Remains(a, m, side, price, n) = Remains(b, m, side, price, n)
  <1>1. \A word : TakenSince(a, m, side, price, word) = TakenSince(b, m, side, price, word)
    <2> SUFFICES ASSUME NEW word
                 PROVE  TakenSince(a, m, side, price, word) = TakenSince(b, m, side, price, word)
      OBVIOUS
    <2> DEFINE t(slices) == [i \in 1 .. m |->
                    IF side = ConsumedSide(config.side) /\ KnownAt(slices[i].at) >= word
                    THEN TakenAt(slices[i].fill, price) ELSE 0]
    <2>1. t(a) = t(b)
      OBVIOUS
    <2> QED BY <2>1, Zenon DEF TakenSince
  <1> QED BY <1>1 DEF Remains

LEMMA SameBook ==
    ASSUME NEW book, NEW a, NEW b, NEW m \in Nat, \A i \in 1 .. m : a[i] = b[i], NEW n,
           IsBookAt(book, a, m, n)
    PROVE  IsBookAt(book, b, m, n)
  <1>1. \A side, price : Remains(a, m, side, price, n) = Remains(b, m, side, price, n)
    BY RemainsSame
  <1> QED BY <1>1 DEF IsBookAt

\* A new word on a price is not taken from yet.
LEMMA NothingTakenSince ==
    ASSUME file \in Seq(BookUpdate), NEW slices, NEW m \in Nat, NEW side, NEW price, NEW word \in Nat,
           \A i \in 1 .. m : KnownAt(slices[i].at) < word
    PROVE  TakenSince(slices, m, side, price, word) = 0
  <1>1. PICK a : a = [i \in 1 .. m |->
                        IF side = ConsumedSide(config.side) /\ KnownAt(slices[i].at) >= word
                        THEN TakenAt(slices[i].fill, price) ELSE 0]
    OBVIOUS
  <1>2. ASSUME NEW i \in 1 .. m PROVE a[i] = 0
    <2>1. KnownAt(slices[i].at) \in Int /\ KnownAt(slices[i].at) < word
      BY KnownAtType
    <2> QED BY <1>1, <2>1
  <1>3. DOMAIN a = 1 .. m
    BY <1>1
  <1>4. Total(a) = 0
    BY <1>2, <1>3, TotalOfZeros
  <1> QED BY <1>1, <1>4 DEF TakenSince

\* A row that is accepted is the market's next word.
LEMMA MarketAfterApply ==
    ASSUME file \in Seq(BookUpdate), NEW r, SoundReplayer(r), NEW slices, NEW m \in Nat,
           NEW n \in Nat, n < Len(file), IsMarket(r, slices, m, n),
           \A i \in 1 .. m : KnownAt(slices[i].at) <= n,
           ErrorOf(r, file[n + 1]) = NoError
    PROVE  IsMarket(AfterApply(r, file[n + 1]), slices, m, n + 1)
  <1>1. PICK row \in BookUpdate : row = file[n + 1]
    OBVIOUS
  <1>2. /\ AfterApply(r, row) = Applied(r, row) /\ r \in Replayers /\ ErrorOf(r, row) = NoError
        /\ \A side \in Side : Sorted(r.book[side], side)
    BY <1>1 DEF AfterApply, SoundReplayer, SoundBook
  <1>3. PICK new : new = Applied(r, row)
    OBVIOUS
  <1>4. /\ new.previous_was_snapshot <=> row.is_snapshot
        /\ \A side \in Side : \A p, q :
              Holds(new.book[side], p, q)
                 <=> IF row.side = side /\ row.price = p THEN q # 0 /\ row.quantity = q
                     ELSE ~ Resyncs(r, row) /\ Holds(r.book[side], p, q)
    BY <1>2, <1>3, AppliedFacts
  <1>5. row.price > 0
    BY <1>1 DEF ErrorOf, NoError, ValidLevel
  <1>6. /\ \A i \in 1 .. n : file[i].price > 0
        /\ r.previous_was_snapshot <=> (n = 0 \/ file[n].is_snapshot)
        /\ IsBookAt(r.book, slices, m, n)
    BY DEF IsMarket
  <1>7. \A i \in 1 .. n + 1 : file[i].price > 0
    BY <1>1, <1>5, <1>6
  <1>8. Resyncs(r, row) <=> n > 0 /\ row.is_snapshot /\ ~ file[n].is_snapshot
    BY <1>6 DEF Resyncs
  <1>9. ASSUME NEW side \in Side, NEW price \in Int, NEW quantity \in Int
        PROVE  Holds(new.book[side], price, quantity)
                  <=> quantity # 0 /\ quantity = Remains(slices, m, side, price, n + 1)
    <2>1. LastWord(side, price, n + 1) =
             IF row.side = side /\ row.price = price THEN n + 1
             ELSE IF Resyncs(r, row) THEN 0 ELSE LastWord(side, price, n)
      BY <1>1, <1>8, LastWordOfOneMore
    <2>2. CASE row.side = side /\ row.price = price
      <3>1. TakenSince(slices, m, side, price, n + 1) = 0
        <4>1. \A i \in 1 .. m : KnownAt(slices[i].at) < n + 1
          <5>1. \A i \in 1 .. m : KnownAt(slices[i].at) \in Int
            BY KnownAtType
          <5> QED BY <5>1
        <4> QED BY <4>1, NothingTakenSince, n + 1 \in Nat
      <3>2. row.quantity \in Int
        BY DEF BookUpdate
      <3>3. LastWord(side, price, n + 1) = n + 1 /\ n + 1 # 0
        BY <2>1, <2>2
      <3>4. Remains(slices, m, side, price, n + 1) = row.quantity
        BY <1>1, <3>1, <3>2, <3>3 DEF Remains
      <3> QED BY <1>4, <2>2, <3>4
    <2>3. CASE ~ (row.side = side /\ row.price = price) /\ Resyncs(r, row)
      <3>1. Remains(slices, m, side, price, n + 1) = 0
        BY <2>1, <2>3 DEF Remains
      <3> QED BY <1>4, <2>3, <3>1
    <2>4. CASE ~ (row.side = side /\ row.price = price) /\ ~ Resyncs(r, row)
      <3>1. LastWord(side, price, n + 1) = LastWord(side, price, n)
        BY <2>1, <2>4
      <3>2. Remains(slices, m, side, price, n + 1) = Remains(slices, m, side, price, n)
        BY <3>1 DEF Remains
      <3>3. Holds(new.book[side], price, quantity) <=> Holds(r.book[side], price, quantity)
        BY <1>4, <2>4
      <3> QED BY <1>6, <3>2, <3>3 DEF IsBookAt
    <2> QED BY <2>2, <2>3, <2>4
  <1>10. IsBookAt(new.book, slices, m, n + 1)
    BY <1>9 DEF IsBookAt
  <1>11. n + 1 \in 0 .. Len(file) /\ n + 1 # 0
    OBVIOUS
  <1>12. IsMarket(new, slices, m, n + 1)
    BY <1>1, <1>4, <1>7, <1>10, <1>11 DEF IsMarket
  <1> QED BY <1>1, <1>2, <1>3, <1>12

LEMMA MarketAtFirst ==
    ASSUME file \in Seq(BookUpdate)
    PROVE  IsMarket(NewReplayer, <<>>, 0, 0)
  <1>1. \A side \in Side : NewReplayer.book[side] = <<>>
    BY DEF NewReplayer, EmptyBook
  <1>2. \A side, price : Remains(<<>>, 0, side, price, 0) = 0
    <2> SUFFICES ASSUME NEW side, NEW price PROVE Remains(<<>>, 0, side, price, 0) = 0
      OBVIOUS
    <2>1. LastWord(side, price, 0) = 0
      BY LastWordType, 0 \in Nat
    <2> QED BY <2>1 DEF Remains
  <1>3. IsBookAt(NewReplayer.book, <<>>, 0, 0)
    BY <1>1, <1>2 DEF IsBookAt, Holds
  <1>4. NewReplayer.previous_was_snapshot = TRUE
    BY DEF NewReplayer
  <1> QED BY <1>3, <1>4 DEF IsMarket

\* So does a batch of them.
LEMMA BatchIsMarket ==
    ASSUME file \in Seq(BookUpdate), SoundReplayer(replayer), NEW n \in Nat,
           IsMarket(replayer, <<>>, 0, n),
           NEW e \in n .. Len(file), NEW batch, batch = SubSeq(file, n + 1, e), Replayed(batch).error = NoError
    PROVE  IsMarket(Replayed(batch).replayer, <<>>, 0, e)
  <1>1. PICK m \in Nat : m = e - n /\ n + m = e /\ e <= Len(file) /\ Len(file) \in Nat
    BY e - n \in Nat
  <1>2. /\ DOMAIN batch = 1 .. m /\ \A i \in 1 .. m : batch[i] = file[n + i] /\ batch[i] \in BookUpdate
    BY <1>1
  <1>3. PICK g : /\ IsFoldOf("replay", g, [replayer |-> replayer, error |-> NoError], batch, m)
                 /\ Replayed(batch) = g[1 .. m]
    BY <1>2, ReplayedIs
  <1>4. /\ g[1 .. 0] = [replayer |-> replayer, error |-> NoError]
        /\ \A k \in 0 .. m - 1 : g[1 .. k + 1] = Folded("replay", g[1 .. k], batch[k + 1])
    <2>0. PICK l \in Nat : l = m
      OBVIOUS
    <2>1. PICK b, base : base = [replayer |-> replayer, error |-> NoError] /\ b = batch /\ l = m
      BY <2>0
    <2>2. IsFoldOf("replay", g, base, b, l)
      BY <1>3, <2>1
    <2>3. /\ g[1 .. 0] = base
          /\ \A k \in 0 .. l - 1 : g[1 .. k + 1] = Folded("replay", g[1 .. k], b[k + 1])
      BY <2>2, FoldOfStep
    <2> QED BY <2>1, <2>3
  <1> DEFINE S == {k \in 0 .. m : g[1 .. k].error = NoError =>
                        SoundReplayer(g[1 .. k].replayer) /\ IsMarket(g[1 .. k].replayer, <<>>, 0, n + k)}
  <1>5. 0 \in S
    BY <1>4, n + 0 = n
  <1>6. ASSUME NEW k \in 0 .. m - 1, k \in S PROVE k + 1 \in S
    <2>1. /\ k + 1 \in 1 .. m /\ k + 1 \in 0 .. m /\ n + k \in Nat /\ n + k < Len(file)
          /\ n + (k + 1) = (n + k) + 1
      BY <1>1
    <2>2. PICK x, row : x = g[1 .. k] /\ row = batch[k + 1]
      OBVIOUS
    <2>3. row = file[(n + k) + 1] /\ row \in BookUpdate
      BY <1>2, <2>1, <2>2
    <2>4. g[1 .. k + 1] = IF x.error # NoError THEN x
                          ELSE [replayer |-> AfterApply(x.replayer, row), error |-> ErrorOf(x.replayer, row)]
      BY <1>4, <2>2 DEF Folded
    <2>5. ASSUME g[1 .. k + 1].error = NoError
          PROVE  /\ SoundReplayer(g[1 .. k + 1].replayer)
                 /\ IsMarket(g[1 .. k + 1].replayer, <<>>, 0, n + (k + 1))
      <3>1. x.error = NoError /\ ErrorOf(x.replayer, row) = NoError
        BY <2>4, <2>5
      <3>2. g[1 .. k + 1].replayer = AfterApply(x.replayer, row)
        BY <2>4, <3>1
      <3>3a. PICK l \in Nat : l = n + k
        BY <2>1
      <3>3. PICK r : r = x.replayer /\ l = n + k
        BY <3>3a
      <3>4. SoundReplayer(r) /\ IsMarket(r, <<>>, 0, l)
        BY <1>6, <2>2, <3>1, <3>3
      <3>5. SoundReplayer(AfterApply(r, row))
        BY <2>3, <3>4, SoundAfterApply
      <3>6. l < Len(file) /\ row = file[l + 1] /\ ErrorOf(r, file[l + 1]) = NoError
        BY <2>1, <2>3, <3>1, <3>3
      <3>7. PICK none, zero : none = <<>> /\ zero = 0
        OBVIOUS
      <3>8. zero \in Nat /\ \A i \in 1 .. zero : KnownAt(none[i].at) <= l
        BY <3>7
      <3>9. IsMarket(AfterApply(r, file[l + 1]), none, zero, l + 1)
        BY <3>4, <3>6, <3>7, <3>8, MarketAfterApply
      <3> QED BY <2>1, <3>2, <3>3, <3>5, <3>6, <3>7, <3>9
    <2> QED BY <2>1, <2>5
  <1>7. \A k \in 0 .. m : k \in S
    <2> HIDE DEF S
    <2> QED BY <1>5, <1>6, StepByStep
  <1>8. m \in 0 .. m
    OBVIOUS
  <1> QED BY <1>1, <1>3, <1>7, <1>8

(***************************************************************************)
(* What a walk takes at a price.                                           *)
(***************************************************************************)

\* A book's prices differ.
LEMMA PricesDiffer ==
    ASSUME NEW levels, NEW side, NEW n \in Nat, n = Len(levels), Sorted(levels, side),
           \A i \in 1 .. n : levels[i].price \in Int
    PROVE  \A i, j \in 1 .. n : i # j => levels[i].price # levels[j].price
  <1>1. ASSUME NEW i \in 1 .. n, NEW j \in 1 .. n, i < j PROVE levels[i].price # levels[j].price
    <2>1. IsBetter(side, levels[i].price, levels[j].price)
      BY <1>1 DEF Sorted
    <2>2. levels[i].price \in Int
      OBVIOUS
    <2> QED BY <2>1, <2>2 DEF IsBetter
  <1>2. \A i, j \in 1 .. n : i # j => i < j \/ j < i
    OBVIOUS
  <1> QED BY <1>1, <1>2

\* All of a sum is in the one quantity that is not zero.
LEMMA TotalOfOne ==
    ASSUME NEW n \in Nat, NEW b, DOMAIN b = 1 .. n, NEW k \in 1 .. n, b[k] \in Int,
           \A i \in 1 .. n : i # k => b[i] = 0
    PROVE  Total(b) = b[k]
  <1>1. PICK zeros : zeros = [j \in 1 .. n |-> 0]
    OBVIOUS
  <1>2. DOMAIN zeros = 1 .. n /\ \A j \in 1 .. n : zeros[j] = 0 /\ zeros[j] \in Int
    BY <1>1
  <1>3. Total(zeros) = 0
    BY <1>2, TotalOfZeros
  <1>4. DifferAt(zeros, b, n, k)
    BY <1>2 DEF DifferAt
  <1>5. Total(b) = Total(zeros) + (b[k] - zeros[k])
    BY <1>4, TotalOfOneChanged
  <1> QED BY <1>2, <1>3, <1>5

\* What a walk of a sound book does, in one place.
WalkOf(fill, book, side, levels, n, D, x, t) ==
    /\ levels = book[side] /\ n \in Nat /\ n = Len(levels)
    /\ Sorted(levels, side) /\ \A i \in 1 .. n : levels[i].price \in Int /\ levels[i].quantity \in Nat \ {0}
    /\ AreDepths(D, levels, n) /\ TakesOf(fill, levels, n, D, x, t) /\ x \in Nat \ {0}

LEMMA TakenAtPrice ==
    ASSUME NEW fill, NEW book, NEW side, NEW levels, NEW n, NEW D, NEW x, NEW t,
           WalkOf(fill, book, side, levels, n, D, x, t)
    PROVE  /\ \A i \in 1 .. n : TakenAt(fill, levels[i].price)
                                   = IF D[i - 1] < x THEN Least(D[i], x) - D[i - 1] ELSE 0
           /\ \A p : (\A i \in 1 .. n : levels[i].price # p) => TakenAt(fill, p) = 0
  <1>0. /\ n \in Nat /\ n = Len(levels) /\ Sorted(levels, side) /\ AreDepths(D, levels, n)
        /\ TakesOf(fill, levels, n, D, x, t) /\ \A i \in 1 .. n : levels[i].price \in Int
        /\ x \in Nat \ {0}
    BY DEF WalkOf
  <1>1. /\ t \in 0 .. n /\ DOMAIN fill.takes = 1 .. t
        /\ \A i \in 1 .. t : /\ D[i - 1] < x /\ fill.takes[i].price = levels[i].price
                             /\ fill.takes[i].quantity = Least(D[i], x) - D[i - 1]
        /\ t < n => D[t] >= x
    BY <1>0 DEF TakesOf
  <1>1a. t \in Nat /\ \A i \in 1 .. t : i \in 1 .. n
    BY <1>0, <1>1
  <1>2. \A k \in 0 .. n : D[k] \in Nat
    BY <1>0 DEF AreDepths
  <1>3. \A i, j \in 1 .. n : i # j => levels[i].price # levels[j].price
    BY <1>0, PricesDiffer
  <1> DEFINE a(p) == [i \in 1 .. t |-> IF fill.takes[i].price = p THEN fill.takes[i].quantity ELSE 0]
  <1>4. \A p : TakenAt(fill, p) = Total(a(p))
    BY <1>1 DEF TakenAt
  <1>5. ASSUME NEW p, \A i \in 1 .. t : levels[i].price # p PROVE TakenAt(fill, p) = 0
    <2>1. PICK q : q = a(p)
      OBVIOUS
    <2>2. DOMAIN q = 1 .. t /\ \A i \in 1 .. t : q[i] = 0
      BY <1>1, <1>5, <2>1
    <2>3. Total(q) = 0
      BY <1>1a, <2>2, TotalOfZeros
    <2> QED BY <1>4, <2>1, <2>3
  <1>6. ASSUME NEW i \in 1 .. n
        PROVE  TakenAt(fill, levels[i].price) = IF D[i - 1] < x THEN Least(D[i], x) - D[i - 1] ELSE 0
    <2>1. CASE i \in 1 .. t
      <3>1. PICK q : q = a(levels[i].price)
        OBVIOUS
      <3>2. DOMAIN q = 1 .. t /\ \A j \in 1 .. t : j # i => q[j] = 0
        BY <1>1, <1>1a, <1>3, <3>1
      <3>3. q[i] = Least(D[i], x) - D[i - 1] /\ q[i] \in Int
        <4>1. q[i] = Least(D[i], x) - D[i - 1]
          BY <1>1, <2>1, <3>1
        <4>2. D[i] \in Int /\ D[i - 1] \in Int
          BY <1>0, <1>2, i \in 0 .. n, i - 1 \in 0 .. n
        <4> QED BY <1>0, <4>1, <4>2 DEF Least
      <3>4. Total(q) = q[i]
        BY <1>1a, <2>1, <3>2, <3>3, TotalOfOne
      <3> QED BY <1>1, <1>4, <2>1, <3>1, <3>3, <3>4
    <2>2. CASE i \notin 1 .. t
      <3>1. t < i /\ t < n /\ t <= i - 1 /\ i - 1 \in 0 .. n
        BY <1>0, <1>1a, <2>2
      <3>2. D[t] <= D[i - 1]
        BY <1>0, <1>1, <3>1 DEF AreDepths
      <3>3. ~ (D[i - 1] < x)
        BY <1>0, <1>1, <1>2, <3>1, <3>2
      <3>4. TakenAt(fill, levels[i].price) = 0
        <4>1. \A j \in 1 .. t : levels[j].price # levels[i].price
          BY <1>1a, <1>3, <2>2
        <4> QED BY <1>5, <4>1
      <3> QED BY <3>3, <3>4
    <2> QED BY <2>1, <2>2
  <1> QED BY <1>1a, <1>5, <1>6

LEMMA WalkOfBook ==
    ASSUME NEW book, SoundBook(book), NEW order_side, NEW side, side = ConsumedSide(order_side),
           NEW x \in Nat \ {0}, NEW fill, fill = Walk(book, order_side, x)
    PROVE  \E levels, n, D, t : WalkOf(fill, book, side, levels, n, D, x, t)
  <1>1. PICK levels, n : levels = book[side] /\ n = Len(levels)
    OBVIOUS
  <1>2. side \in Side
    BY ConsumedIsASide
  <1>3. /\ n \in Nat /\ levels \in Seq(Levels) /\ Sorted(levels, side)
        /\ \A i \in 1 .. n : /\ levels[i].price \in Int /\ levels[i].price > 0
                             /\ levels[i].quantity \in Nat \ {0}
        /\ \E D : AreDepths(D, levels, n)
    BY <1>1, <1>2, DepthsOf
  <1>4. PICK D : AreDepths(D, levels, n)
    BY <1>3
  <1>5. PICK t : TakesOf(fill, levels, n, D, x, t)
    BY <1>1, <1>3, <1>4, WalkTakes
  <1> QED BY <1>1, <1>3, <1>4, <1>5 DEF WalkOf

LEMMA TakenAtType ==
    ASSUME NEW book, SoundBook(book), NEW order_side, NEW x \in Nat \ {0},
           NEW fill, fill = Walk(book, order_side, x), NEW price \in Int
    PROVE  TakenAt(fill, price) \in Int
  <1>1. PICK side : side = ConsumedSide(order_side)
    OBVIOUS
  <1>2. PICK levels, n, D, t : WalkOf(fill, book, side, levels, n, D, x, t)
    BY <1>1, WalkOfBook
  <1>3. /\ n \in Nat /\ n = Len(levels) /\ Sorted(levels, side) /\ AreDepths(D, levels, n)
        /\ TakesOf(fill, levels, n, D, x, t) /\ \A i \in 1 .. n : levels[i].price \in Int
    BY <1>2 DEF WalkOf
  <1>4. /\ \A i \in 1 .. n : TakenAt(fill, levels[i].price)
                                = IF D[i - 1] < x THEN Least(D[i], x) - D[i - 1] ELSE 0
        /\ (\A i \in 1 .. n : levels[i].price # price) => TakenAt(fill, price) = 0
    BY <1>2, TakenAtPrice
  <1>5. \A i \in 1 .. n : D[i] \in Int /\ D[i - 1] \in Int
    <2>1. \A k \in 0 .. n : D[k] \in Int
      BY <1>3 DEF AreDepths
    <2>2. \A i \in 1 .. n : i \in 0 .. n /\ i - 1 \in 0 .. n
      BY <1>3
    <2> QED BY <2>1, <2>2
  <1>6. CASE \E i \in 1 .. n : levels[i].price = price
    BY <1>4, <1>5, <1>6 DEF Least
  <1> QED BY <1>4, <1>6

(***************************************************************************)
(* What better prices could not give.                                      *)
(***************************************************************************)

\* The sum over some prices, of what an order finds at each.
AvailableAt(slices, j, side, S) == MapThenSumSet(LAMBDA q : Available(slices, j, side, q), S)

SomeOf(T) == CHOOSE x \in T : TRUE

IsOver(M, S) == M = [T \in SUBSET S |-> M[T]]

\* A quantity that is zero for no price, and follows what is found at each.
Follows(M, slices, j, side, S) ==
    /\ IsOver(M, S) /\ M[{}] = 0
    /\ \A T \in SUBSET S : \A x \in T : M[T] = Available(slices, j, side, x) + M[T \ {x}]

\* There is no other than the sum.
LEMMA AvailableSum ==
    ASSUME NEW slices, NEW j, NEW side, NEW S, IsFiniteSet(S), NEW M, Follows(M, slices, j, side, S)
    PROVE  AvailableAt(slices, j, side, S) = M[S]
  <1> DEFINE G == CHOOSE g : g = [T \in SUBSET S |->
                    IF T = {} THEN 0
                    ELSE Available(slices, j, side, SomeOf(T)) + g[T \ {SomeOf(T)}]]
             Folds(g) == g = [T \in SUBSET S |->
                    IF T = {} THEN 0
                    ELSE Available(slices, j, side, SomeOf(T)) + g[T \ {SomeOf(T)}]]
  <1>1. AvailableAt(slices, j, side, S) = G[S]
    BY Zenon DEF AvailableAt, MapThenSumSet, MapThenFoldSet, SomeOf
  <1>2. \A T : T # {} => SomeOf(T) \in T
    BY DEF SomeOf
  <1>3. ASSUME NEW T \in SUBSET S
        PROVE  M[T] = IF T = {} THEN 0 ELSE Available(slices, j, side, SomeOf(T)) + M[T \ {SomeOf(T)}]
    BY <1>2 DEF Follows
  <1>4. Folds(M)
    <2> DEFINE N == [T \in SUBSET S |->
                      IF T = {} THEN 0
                      ELSE Available(slices, j, side, SomeOf(T)) + M[T \ {SomeOf(T)}]]
    <2>1. DOMAIN N = SUBSET S /\ \A T \in SUBSET S : N[T] = M[T]
      BY <1>3
    <2>2. N = [T \in SUBSET S |-> N[T]]
      OBVIOUS
    <2>3. M = N
      <3> HIDE DEF N
      <3> QED BY <2>1, <2>2 DEF Follows, IsOver
    <2> QED BY <2>3
  <1>5. Folds(G)
    BY <1>4, Zenon
  <1>6. \A T \in SUBSET S :
           G[T] = IF T = {} THEN 0 ELSE Available(slices, j, side, SomeOf(T)) + G[T \ {SomeOf(T)}]
    <2> HIDE DEF G
    <2> QED BY <1>5
  <1> HIDE DEF G
  <1> DEFINE K == {k \in 0 .. Cardinality(S) : \A T \in SUBSET S : Cardinality(T) = k => G[T] = M[T]}
  <1>7. Cardinality(S) \in Nat
    BY FS_CardinalityType
  <1>8. \A T \in SUBSET S : IsFiniteSet(T)
    BY FS_Subset
  <1>9. 0 \in K
    <2>1. \A T \in SUBSET S : Cardinality(T) = 0 => T = {}
      BY <1>8, FS_EmptySet
    <2>2. ASSUME NEW T \in SUBSET S, Cardinality(T) = 0 PROVE G[T] = M[T]
      BY <1>3, <1>6, <2>1, <2>2
    <2>3. 0 \in 0 .. Cardinality(S)
      BY <1>7
    <2> QED BY <2>2, <2>3
  <1>10. ASSUME NEW k \in 0 .. Cardinality(S) - 1, k \in K PROVE k + 1 \in K
    <2>1. ASSUME NEW T \in SUBSET S, Cardinality(T) = k + 1 PROVE G[T] = M[T]
      <3>1. T # {} /\ IsFiniteSet(T)
        <4>1. k + 1 # 0
          BY <1>7
        <4> QED BY <1>8, <2>1, <4>1, FS_EmptySet
      <3>2. PICK x : x = SomeOf(T)
        OBVIOUS
      <3>3. x \in T /\ T \ {x} \in SUBSET S
        BY <1>2, <3>1, <3>2
      <3>4. Cardinality(T \ {x}) = k
        <4>1. Cardinality(T \ {x}) = Cardinality(T) - 1
          BY <3>1, <3>3, FS_RemoveElement
        <4> QED BY <2>1, <4>1
      <3>5. G[T \ {x}] = M[T \ {x}]
        BY <1>10, <3>3, <3>4
      <3> QED BY <1>3, <1>6, <3>1, <3>2, <3>5
    <2>2. k + 1 \in 0 .. Cardinality(S)
      BY <1>7
    <2> QED BY <2>1, <2>2
  <1>11. \A k \in 0 .. Cardinality(S) : k \in K
    <2> HIDE DEF K
    <2> QED BY <1>7, <1>9, <1>10, StepByStep
  <1>12. Cardinality(S) \in 0 .. Cardinality(S) /\ S \in SUBSET S
    BY <1>7
  <1>13. G[S] = M[S]
    BY <1>11, <1>12
  <1> QED BY <1>1, <1>13 DEF G

\* The first k quantities of n, and zeros after them.
IsFrontOf(b, a, k, n) ==
    /\ n \in Nat /\ DOMAIN a = 1 .. n /\ \A i \in 1 .. n : a[i] \in Int
    /\ k \in 0 .. n /\ DOMAIN b = 1 .. k /\ \A i \in 1 .. k : b[i] = a[i]
    /\ \A i \in k + 1 .. n : a[i] = 0

\* Zeros at the end do not count.
LEMMA TotalOfFront ==
    ASSUME NEW a, NEW b, NEW k, NEW n, IsFrontOf(b, a, k, n)
    PROVE  Total(a) = Total(b)
  <1>0. /\ n \in Nat /\ DOMAIN a = 1 .. n /\ \A i \in 1 .. n : a[i] \in Int
        /\ k \in 0 .. n /\ DOMAIN b = 1 .. k /\ \A i \in 1 .. k : b[i] = a[i]
        /\ \A i \in k + 1 .. n : a[i] = 0
    BY DEF IsFrontOf
  <1>1. PICK s : AreSums(s, a, n) /\ Total(a) = s[n]
    BY <1>0, SumsExist
  <1>2. k \in Nat /\ k <= n /\ k <= k /\ \A i \in 1 .. k : b[i] \in Int /\ i \in 1 .. n
    BY <1>0
  <1>3. PICK t : AreSums(t, b, k) /\ Total(b) = t[k]
    <2>1. DOMAIN b = 1 .. k /\ \A i \in 1 .. k : b[i] \in Int
      BY <1>0, <1>2
    <2> QED BY <1>2, <2>1, SumsExist
  <1>4. s[k] = t[k]
    BY <1>0, <1>1, <1>2, <1>3, SumsAgree
  <1>5. PICK m \in Nat : m = n - k /\ k + m = n
    <2>1. n - k \in Nat /\ k + (n - k) = n
      BY <1>0
    <2> QED BY <2>1
  <1> DEFINE S == {i \in 0 .. m : s[k + i] = s[k]}
  <1>6. 0 \in S
    BY <1>2, <1>5, k + 0 = k
  <1>7. ASSUME NEW i \in 0 .. m - 1, i \in S PROVE i + 1 \in S
    <2>1. k + i \in 0 .. n - 1 /\ (k + i) + 1 = k + (i + 1) /\ (k + i) + 1 \in k + 1 .. n /\ i + 1 \in 0 .. m
      BY <1>2, <1>5
    <2>2. s[(k + i) + 1] = s[k + i] + a[(k + i) + 1]
      BY <1>0, <1>1, <2>1 DEF AreSums
    <2>3. a[(k + i) + 1] = 0
      BY <1>0, <2>1
    <2>4. s[k + i] \in Int /\ s[k + i] = s[k]
      <3>1. k + i \in 0 .. n
        BY <1>0, <2>1
      <3> QED BY <1>1, <1>7, <3>1 DEF AreSums
    <2> QED BY <2>1, <2>2, <2>3, <2>4
  <1>8. \A i \in 0 .. m : i \in S
    <2> HIDE DEF S
    <2> QED BY <1>6, <1>7, StepByStep
  <1>9. m \in 0 .. m
    OBVIOUS
  <1>10. s[k + m] = s[k]
    BY <1>8, <1>9
  <1> QED BY <1>1, <1>3, <1>4, <1>5, <1>10

\* A book that holds what a slice finds.
Offers(slices, j, side, levels, n) ==
    /\ \A i \in 1 .. n : /\ Available(slices, j, side, levels[i].price) = levels[i].quantity
                         /\ levels[i].price \in FilePrices
    /\ \A p \in Int : (\A i \in 1 .. n : levels[i].price # p) => Available(slices, j, side, p) = 0

LEMMA BookOffers ==
    ASSUME file \in Seq(BookUpdate), NEW slices, NEW j \in Nat \ {0}, AreFills(slices, j - 1),
           NEW book, IsBookAt(book, slices, j - 1, KnownAt(slices[j].at)),
           NEW side \in Side, NEW levels, levels = book[side], NEW n, n = Len(levels),
           \A i \in 1 .. n : levels[i].price \in Int /\ levels[i].quantity \in Nat \ {0}
    PROVE  Offers(slices, j, side, levels, n)
  <1>1. PICK known \in 0 .. Len(file) : known = KnownAt(slices[j].at)
    BY KnownAtType
  <1>2. PICK m \in Nat : m = j - 1
    OBVIOUS
  <1>3. \A price : Available(slices, j, side, price) = Remains(slices, m, side, price, known)
    BY <1>1, <1>2 DEF Available, Remains, TakenSince
  <1>4. \A price, quantity \in Int :
           Holds(levels, price, quantity)
              <=> quantity # 0 /\ quantity = Remains(slices, m, side, price, known)
    BY <1>1, <1>2 DEF IsBookAt
  <1>5. AreFills(slices, m)
    BY <1>2
  <1>6. ASSUME NEW i \in 1 .. n
        PROVE  /\ Available(slices, j, side, levels[i].price) = levels[i].quantity
               /\ levels[i].price \in FilePrices
    <2>1. Holds(levels, levels[i].price, levels[i].quantity)
      BY DEF Holds
    <2>2. levels[i].price \in Int /\ levels[i].quantity \in Int /\ levels[i].quantity # 0
      OBVIOUS
    <2>3. levels[i].quantity = Remains(slices, m, side, levels[i].price, known)
      BY <1>4, <2>1, <2>2
    <2>4. levels[i].price \in FilePrices
      <3>1. PICK price, word : price = levels[i].price /\ word = LastWord(side, price, known)
        OBVIOUS
      <3>2. word # 0
        BY <2>2, <2>3, <3>1 DEF Remains
      <3>3. word \in 0 .. known /\ file[word].price = price
        BY <1>1, <3>1, <3>2, LastWordType, known \in Nat
      <3>4. word \in 1 .. Len(file)
        BY <1>1, <3>2, <3>3
      <3> QED BY <3>1, <3>3, <3>4 DEF FilePrices
    <2> QED BY <1>3, <2>3, <2>4
  <1>7. ASSUME NEW p \in Int, \A i \in 1 .. n : levels[i].price # p
        PROVE  Available(slices, j, side, p) = 0
    <2>1. PICK q \in Int : q = Remains(slices, m, side, p, known)
      BY <1>5, RemainsType
    <2>2. ~ Holds(levels, p, q)
      BY <1>7 DEF Holds
    <2>3. q = 0
      BY <1>4, <2>1, <2>2
    <2> QED BY <1>3, <2>1, <2>3
  <1> QED BY <1>6, <1>7 DEF Offers

\* What prices offer of what is in the book.
Held(levels, n, T) == [i \in 1 .. n |-> IF levels[i].price \in T THEN levels[i].quantity ELSE 0]

LEMMA HeldIsOffered ==
    ASSUME NEW slices, NEW j, NEW side, NEW levels, NEW n \in Nat, Offers(slices, j, side, levels, n),
           \A i \in 1 .. n : levels[i].price \in Int /\ levels[i].quantity \in Int,
           \A i, k \in 1 .. n : i # k => levels[i].price # levels[k].price,
           NEW S \in SUBSET Int, IsFiniteSet(S)
    PROVE  AvailableAt(slices, j, side, S) = Total(Held(levels, n, S))
  <1> DEFINE M == [T \in SUBSET S |-> Total(Held(levels, n, T))]
  <1>1. \A T : /\ DOMAIN Held(levels, n, T) = 1 .. n
               /\ \A i \in 1 .. n : /\ Held(levels, n, T)[i] \in Int
                                    /\ levels[i].price \in T => Held(levels, n, T)[i] = levels[i].quantity
                                    /\ levels[i].price \notin T => Held(levels, n, T)[i] = 0
    BY DEF Held
  <1>2. M[{}] = 0
    <2>1. PICK a : a = Held(levels, n, {})
      OBVIOUS
    <2>2. DOMAIN a = 1 .. n /\ \A i \in 1 .. n : a[i] = 0
      BY <1>1, <2>1
    <2>3. Total(a) = 0
      BY <2>2, TotalOfZeros
    <2> QED BY <2>1, <2>3
  <1>3. ASSUME NEW T \in SUBSET S, NEW x \in T
        PROVE  M[T] = Available(slices, j, side, x) + M[T \ {x}]
    <2>1. PICK a, b : a = Held(levels, n, T \ {x}) /\ b = Held(levels, n, T)
      OBVIOUS
    <2>2. /\ DOMAIN a = 1 .. n /\ DOMAIN b = 1 .. n /\ \A i \in 1 .. n : a[i] \in Int /\ b[i] \in Int
          /\ \A i \in 1 .. n : levels[i].price # x => a[i] = b[i]
          /\ \A i \in 1 .. n : levels[i].price = x => a[i] = 0 /\ b[i] = levels[i].quantity
      <3>1. a = [i \in 1 .. n |-> IF levels[i].price \in T \ {x} THEN levels[i].quantity ELSE 0]
        BY <2>1 DEF Held
      <3>2. b = [i \in 1 .. n |-> IF levels[i].price \in T THEN levels[i].quantity ELSE 0]
        BY <2>1 DEF Held
      <3>3. \A i \in 1 .. n : levels[i].quantity \in Int
        OBVIOUS
      <3> QED BY <3>1, <3>2, <3>3
    <2>3. M[T] = Total(b) /\ M[T \ {x}] = Total(a)
      BY <2>1
    <2> HIDE DEF M
    <2>4. Total(a) \in Int
      BY <2>2, TotalFacts
    <2>5. CASE \E k \in 1 .. n : levels[k].price = x
      <3>1. PICK k \in 1 .. n : levels[k].price = x
        BY <2>5
      <3>2. DifferAt(a, b, n, k)
        BY <2>2, <3>1 DEF DifferAt
      <3>3. Total(b) = Total(a) + (b[k] - a[k])
        BY <3>2, TotalOfOneChanged
      <3>4. a[k] = 0 /\ b[k] = levels[k].quantity /\ b[k] \in Int
        BY <2>2, <3>1
      <3>5. Available(slices, j, side, x) = levels[k].quantity
        BY <3>1 DEF Offers
      <3> QED BY <2>3, <2>4, <3>3, <3>4, <3>5
    <2>6. CASE ~ \E k \in 1 .. n : levels[k].price = x
      <3>1. \A i \in 1 .. n : b[i] = a[i]
        BY <2>2, <2>6
      <3>2. Total(b) = Total(a)
        BY <2>2, <3>1, TotalIsOf
      <3>3. Available(slices, j, side, x) = 0
        <4>1. x \in Int
          OBVIOUS
        <4> QED BY <2>6, <4>1 DEF Offers
      <3> QED BY <2>3, <2>4, <3>2, <3>3
    <2> QED BY <2>5, <2>6
  <1>4. IsOver(M, S)
    BY DEF IsOver
  <1>5. M[S] = Total(Held(levels, n, S))
    OBVIOUS
  <1> HIDE DEF M
  <1>6. Follows(M, slices, j, side, S)
    BY <1>2, <1>3, <1>4 DEF Follows
  <1>7. AvailableAt(slices, j, side, S) = M[S]
    BY <1>6, AvailableSum
  <1> QED BY <1>5, <1>7

(***************************************************************************)
(* A walk of the market is the best execution.                             *)
(***************************************************************************)

LEMMA FilePricesType ==
    ASSUME file \in Seq(BookUpdate)
    PROVE  IsFiniteSet(FilePrices) /\ FilePrices \in SUBSET Int
  <1>1. PICK n \in Nat : n = Len(file)
    OBVIOUS
  <1>2. \A i \in 1 .. n : file[i] \in BookUpdate
    BY <1>1
  <1>3. \A i \in 1 .. n : file[i].price \in Int
    BY <1>2 DEF BookUpdate
  <1>4. PICK f : f = [i \in 1 .. n |-> file[i].price]
    OBVIOUS
  <1>5. \A p : p \in FilePrices <=> \E i \in 1 .. n : f[i] = p
    BY <1>1, <1>4 DEF FilePrices
  <1>6. f \in Surjection(1 .. n, FilePrices)
    BY <1>4, <1>5 DEF Surjection
  <1>7. IsFiniteSet(1 .. n)
    BY FS_Interval
  <1>8. IsFiniteSet(FilePrices)
    BY <1>6, <1>7, FS_Surjection
  <1> QED BY <1>3, <1>4, <1>5, <1>8

LEMMA BetterType ==
    ASSUME file \in Seq(BookUpdate), NEW side, NEW price
    PROVE  IsFiniteSet(Better(side, price)) /\ Better(side, price) \in SUBSET Int
  <1>1. Better(side, price) \in SUBSET FilePrices
    BY DEF Better
  <1> QED BY <1>1, FilePricesType, FS_Subset

\* What there is before a level of the book is how deep it lies.
LEMMA DepthOfBetter ==
    ASSUME file \in Seq(BookUpdate), NEW slices, NEW j, NEW fill, NEW book, NEW side, NEW levels, NEW n,
           NEW D, NEW x, NEW t, WalkOf(fill, book, side, levels, n, D, x, t),
           Offers(slices, j, side, levels, n), NEW k \in 1 .. n
    PROVE  AvailableAt(slices, j, side, Better(side, levels[k].price)) = D[k - 1]
  <1>1. /\ n \in Nat /\ n = Len(levels) /\ Sorted(levels, side) /\ AreDepths(D, levels, n)
        /\ \A i \in 1 .. n : levels[i].price \in Int /\ levels[i].quantity \in Int
    BY DEF WalkOf
  <1>2. \A i, l \in 1 .. n : i # l => levels[i].price # levels[l].price
    BY <1>1, PricesDiffer
  <1>3. PICK S : S = Better(side, levels[k].price)
    OBVIOUS
  <1>4. IsFiniteSet(S) /\ S \in SUBSET Int
    BY <1>3, BetterType
  <1>5. AvailableAt(slices, j, side, S) = Total(Held(levels, n, S))
    BY <1>1, <1>2, <1>4, HeldIsOffered
  <1>6. ASSUME NEW i \in 1 .. n PROVE levels[i].price \in S <=> i < k
    <2>1. levels[i].price \in FilePrices
      BY DEF Offers
    <2>2. PICK a \in Int, b \in Int : a = levels[i].price /\ b = levels[k].price
      BY <1>1
    <2>3. levels[i].price \in S <=> IsBetter(side, a, b)
      BY <1>3, <2>1, <2>2 DEF Better
    <2>4. CASE i < k
      BY <1>1, <2>2, <2>3, <2>4 DEF Sorted
    <2>5. CASE i = k
      BY <2>2, <2>3, <2>5 DEF IsBetter
    <2>6. CASE i > k
      <3>1. IsBetter(side, b, a)
        BY <1>1, <2>2, <2>6 DEF Sorted
      <3> QED BY <2>2, <2>3, <2>6, <3>1 DEF IsBetter
    <2> QED BY <1>1, <2>4, <2>5, <2>6
  <1>7. PICK a, b : a = Held(levels, n, S) /\ b = [i \in 1 .. k - 1 |-> levels[i].quantity]
    OBVIOUS
  <1>8. /\ DOMAIN a = 1 .. n /\ \A i \in 1 .. n : a[i] \in Int
        /\ k - 1 \in 0 .. n /\ DOMAIN b = 1 .. k - 1 /\ \A i \in 1 .. k - 1 : b[i] = a[i]
        /\ \A i \in (k - 1) + 1 .. n : a[i] = 0
    <2>1. a = [i \in 1 .. n |-> IF levels[i].price \in S THEN levels[i].quantity ELSE 0]
      BY <1>7 DEF Held
    <2>2. \A i \in 1 .. k - 1 : i \in 1 .. n /\ i < k
      BY <1>1
    <2>3. \A i \in (k - 1) + 1 .. n : i \in 1 .. n /\ ~ (i < k)
      BY <1>1
    <2>4. DOMAIN a = 1 .. n /\ \A i \in 1 .. n : a[i] \in Int
      BY <1>1, <2>1
    <2>5. \A i \in 1 .. k - 1 : b[i] = a[i]
      BY <1>6, <1>7, <2>1, <2>2
    <2>6. \A i \in (k - 1) + 1 .. n : a[i] = 0
      BY <1>6, <2>1, <2>3
    <2> QED BY <1>1, <1>7, <2>4, <2>5, <2>6
  <1>9. Total(a) = Total(b)
    <2>1. IsFrontOf(b, a, k - 1, n)
      BY <1>1, <1>8 DEF IsFrontOf
    <2> QED BY <2>1, TotalOfFront
  <1>10. Total(b) = D[k - 1]
    <2>1. Depth(levels, k - 1) = D[k - 1]
      BY <1>1, <1>8 DEF AreDepths
    <2> QED BY <1>7, <2>1 DEF Depth
  <1> QED BY <1>3, <1>5, <1>7, <1>9, <1>10

\* Greedy: at each price what better ones could not give.
IsGreedyAt(slices, j, side, fill, x, p) ==
    TakenAt(fill, p) = Max({0, Min({x - AvailableAt(slices, j, side, Better(side, p)),
                                    Available(slices, j, side, p)})})

LEMMA TakenIsGreedy ==
    ASSUME file \in Seq(BookUpdate), NEW slices, NEW j, NEW fill, NEW book, NEW side, NEW levels, NEW n,
           NEW D, NEW x, NEW t, WalkOf(fill, book, side, levels, n, D, x, t),
           Offers(slices, j, side, levels, n), NEW p \in FilePrices
    PROVE  IsGreedyAt(slices, j, side, fill, x, p)
  <1>1. /\ n \in Nat /\ n = Len(levels) /\ Sorted(levels, side) /\ AreDepths(D, levels, n) /\ x \in Nat
        /\ \A i \in 1 .. n : levels[i].price \in Int /\ levels[i].quantity \in Int /\ levels[i].quantity > 0
    BY DEF WalkOf
  <1>2. p \in Int
    BY FilePricesType
  <1>3. /\ \A i \in 1 .. n : TakenAt(fill, levels[i].price)
                                = IF D[i - 1] < x THEN Least(D[i], x) - D[i - 1] ELSE 0
        /\ (\A i \in 1 .. n : levels[i].price # p) => TakenAt(fill, p) = 0
    BY TakenAtPrice
  <1>4. CASE \E i \in 1 .. n : levels[i].price = p
    <2>1. PICK k \in 1 .. n : levels[k].price = p
      BY <1>4
    <2>2. AvailableAt(slices, j, side, Better(side, p)) = D[k - 1]
      BY <2>1, DepthOfBetter
    <2>3. Available(slices, j, side, p) = levels[k].quantity
      BY <2>1 DEF Offers
    <2>4. TakenAt(fill, p) = IF D[k - 1] < x THEN Least(D[k], x) - D[k - 1] ELSE 0
      BY <1>3, <2>1
    <2>5. D[k - 1] \in Int /\ D[k] = D[k - 1] + levels[k].quantity
      <3>1. k - 1 \in 0 .. n - 1 /\ k - 1 \in 0 .. n /\ (k - 1) + 1 = k
        BY <1>1
      <3>2. \A i \in 0 .. n : D[i] \in Int
        <4>1. D \in [0 .. n -> Nat]
          BY <1>1 DEF AreDepths
        <4> QED BY <4>1
      <3>3. \A i \in 1 .. n : D[i] = D[i - 1] + levels[i].quantity
        BY <1>1 DEF AreDepths
      <3> QED BY <3>1, <3>2, <3>3
    <2>6. PICK d \in Int, q \in Int : d = D[k - 1] /\ q = levels[k].quantity /\ q > 0
      BY <1>1, <2>5
    <2>7. Min({x - d, q}) = IF x - d <= q THEN x - d ELSE q
      BY <1>1, MinOfTwo, x - d \in Int
    <2>8. PICK m \in Int : m = Min({x - d, q})
      BY <1>1, <2>7
    <2>9. Max({0, m}) = IF m >= 0 THEN m ELSE 0
      BY MaxOfTwo
    <2>10. TakenAt(fill, p) = IF d < x THEN (IF d + q <= x THEN d + q ELSE x) - d ELSE 0
      BY <2>4, <2>5, <2>6 DEF Least
    <2>11. TakenAt(fill, p) = Max({0, m})
      BY <1>1, <2>6, <2>7, <2>8, <2>9, <2>10
    <2> QED BY <2>2, <2>3, <2>6, <2>8, <2>11 DEF IsGreedyAt
  <1>5. CASE ~ \E i \in 1 .. n : levels[i].price = p
    <2>1. Available(slices, j, side, p) = 0 /\ TakenAt(fill, p) = 0
      BY <1>2, <1>3, <1>5 DEF Offers
    <2>2. PICK d : d = AvailableAt(slices, j, side, Better(side, p))
      OBVIOUS
    <2>3. d \in Int
      <3>1. PICK S : S = Better(side, p)
        OBVIOUS
      <3>2. IsFiniteSet(S) /\ S \in SUBSET Int
        BY <3>1, BetterType
      <3>3. \A i, l \in 1 .. n : i # l => levels[i].price # levels[l].price
        BY <1>1, PricesDiffer
      <3>4. AvailableAt(slices, j, side, S) = Total(Held(levels, n, S))
        BY <1>1, <3>2, <3>3, HeldIsOffered
      <3>5. PICK a : a = Held(levels, n, S)
        OBVIOUS
      <3>6. a = [i \in 1 .. n |-> IF levels[i].price \in S THEN levels[i].quantity ELSE 0]
        BY <3>5 DEF Held
      <3>7. DOMAIN a = 1 .. n /\ \A i \in 1 .. n : a[i] \in Int
        BY <1>1, <3>6
      <3>8. Total(a) \in Int
        BY <1>1, <3>7, TotalFacts
      <3> QED BY <2>2, <3>1, <3>4, <3>5, <3>8
    <2>4. Min({x - d, 0}) = IF x - d <= 0 THEN x - d ELSE 0
      BY <1>1, <2>3, MinOfTwo, x - d \in Int
    <2>5. PICK m \in Int : m = Min({x - d, 0}) /\ m <= 0
      BY <1>1, <2>3, <2>4
    <2>6. Max({0, m}) = 0
      <3>1. Max({0, m}) = IF m >= 0 THEN m ELSE 0
        BY MaxOfTwo
      <3> QED BY <2>5, <3>1
    <2> QED BY <2>1, <2>2, <2>5, <2>6 DEF IsGreedyAt
  <1> QED BY <1>4, <1>5

LEMMA NoLevels ==
    ASSUME NEW levels \in Seq(Levels), Len(levels) = 0
    PROVE  levels = <<>>
  OBVIOUS

\* What IsBestExecution asks of a price at the entry, and of the file.
IsEntry(slices, j, s, entry, p) ==
    entry = p
       <=> Available(slices, j, s, p) > 0 /\ \A q \in Better(s, p) : Available(slices, j, s, q) = 0

ArePriced == \A i \in 1 .. Len(file) : file[i].price > 0

\* The best price of the book is the best that is offered.
LEMMA EntryIsBest ==
    ASSUME file \in Seq(BookUpdate), ArePriced,
           NEW slices, NEW j, NEW book, SoundBook(book), NEW s \in Side,
           Offers(slices, j, s, book[s], Len(book[s])), NEW p \in FilePrices
    PROVE  IsEntry(slices, j, s, BestPrice(book[s]), p)
  <1>0. \A i \in 1 .. Len(file) : file[i].price > 0
    BY DEF ArePriced
  <1>1. PICK levels, n : levels = book[s] /\ n = Len(levels)
    OBVIOUS
  <1>2. /\ n \in Nat /\ Sorted(levels, s)
        /\ \A i \in 1 .. n : /\ levels[i].price \in Int /\ levels[i].price > 0
                             /\ levels[i].quantity \in Int /\ levels[i].quantity > 0
        /\ Offers(slices, j, s, levels, n) /\ levels \in Seq(Levels)
    BY <1>1, SoundLevels
  <1>3. p \in Int /\ p > 0
    <2>1. PICK i \in 1 .. Len(file) : file[i].price = p
      BY DEF FilePrices
    <2> QED BY <1>0, <2>1, FilePricesType
  <1>4. \A i \in 1 .. n : Available(slices, j, s, levels[i].price) = levels[i].quantity
                          /\ levels[i].price \in FilePrices
    BY <1>2 DEF Offers
  <1>5. (\A i \in 1 .. n : levels[i].price # p) => Available(slices, j, s, p) = 0
    BY <1>2, <1>3 DEF Offers
  <1>6. CASE n = 0
    <2>1. BestPrice(levels) = 0
      <3>1. levels = <<>>
        BY <1>1, <1>2, <1>6, NoLevels
      <3> QED BY <3>1 DEF BestPrice, NoPrice
    <2>2. Available(slices, j, s, p) = 0
      BY <1>5, <1>6
    <2> QED BY <1>1, <1>3, <2>1, <2>2 DEF IsEntry
  <1>7. CASE n # 0
    <2>1. BestPrice(levels) = levels[1].price /\ 1 \in 1 .. n
      BY <1>1, <1>2, <1>7 DEF BestPrice
    <2>2. ASSUME levels[1].price = p
          PROVE  Available(slices, j, s, p) > 0 /\ \A q \in Better(s, p) : Available(slices, j, s, q) = 0
      <3>1. Available(slices, j, s, p) > 0
        BY <1>2, <1>4, <2>1, <2>2
      <3>2. ASSUME NEW q \in Better(s, p) PROVE Available(slices, j, s, q) = 0
        <4>1. q \in Int /\ IsBetter(s, q, p)
          BY FilePricesType DEF Better
        <4>2. \A i \in 1 .. n : levels[i].price # q
          <5>1. ASSUME NEW i \in 1 .. n, levels[i].price = q PROVE FALSE
            <6>1. i # 1
              BY <1>3, <2>2, <4>1, <5>1 DEF IsBetter
            <6>2. IsBetter(s, p, q)
              BY <1>1, <1>2, <2>1, <2>2, <5>1, <6>1 DEF Sorted
            <6> QED BY <1>3, <4>1, <6>2 DEF IsBetter
          <5> QED BY <5>1
        <4> QED BY <1>2, <4>1, <4>2 DEF Offers
      <3> QED BY <3>1, <3>2
    <2>3. ASSUME Available(slices, j, s, p) > 0, \A q \in Better(s, p) : Available(slices, j, s, q) = 0
          PROVE  levels[1].price = p
      <3>1. PICK i \in 1 .. n : levels[i].price = p
        BY <1>5, <2>3
      <3>2. SUFFICES ASSUME i # 1 PROVE FALSE
        BY <3>1
      <3>3. IsBetter(s, levels[1].price, p)
        BY <1>1, <1>2, <2>1, <3>1, <3>2 DEF Sorted
      <3>4. levels[1].price \in Better(s, p)
        BY <1>4, <2>1, <3>3 DEF Better
      <3>5. Available(slices, j, s, levels[1].price) > 0
        BY <1>2, <1>4, <2>1
      <3> QED BY <2>3, <3>4, <3>5
    <2> QED BY <1>1, <2>1, <2>2, <2>3 DEF IsEntry
  <1> QED BY <1>6, <1>7 DEF IsEntry

\* A slice on the market is the best execution, after slices that were.
LEMMA OnMarketIsBest ==
    ASSUME file \in Seq(BookUpdate), ArePriced,
           NEW slices, NEW j \in Nat \ {0}, \A i \in 1 .. j : IsOnMarket(slices, i)
    PROVE  IsBestExecution(slices, j)
  <1>1. AreFills(slices, j - 1)
    <2> SUFFICES ASSUME NEW i \in 1 .. j - 1, NEW price \in Int
                 PROVE  TakenAt(slices[i].fill, price) \in Int
      BY DEF AreFills
    <2>1. PICK book, quantity :
             quantity \in Nat \ {0} /\ SoundBook(book) /\ slices[i].fill = Walk(book, config.side, quantity)
      <3>1. i \in 1 .. j
        OBVIOUS
      <3> QED BY <3>1 DEF IsOnMarket
    <2> QED BY <2>1, TakenAtType
  <1>2. PICK book, x : /\ x \in Nat \ {0} /\ SoundBook(book)
                       /\ IsBookAt(book, slices, j - 1, KnownAt(slices[j].at))
                       /\ slices[j].fill = Walk(book, config.side, x)
    <2>1. j \in 1 .. j
      OBVIOUS
    <2> QED BY <2>1 DEF IsOnMarket
  <1>3. PICK fill : fill = slices[j].fill
    OBVIOUS
  <1>4. \A s \in Side : Offers(slices, j, s, book[s], Len(book[s]))
    <2> SUFFICES ASSUME NEW s \in Side PROVE Offers(slices, j, s, book[s], Len(book[s]))
      OBVIOUS
    <2>1. \A i \in 1 .. Len(book[s]) : book[s][i].price \in Int /\ book[s][i].quantity \in Nat \ {0}
      <3>1. \A i \in 1 .. Len(book[s]) :
               book[s][i].price \in Int /\ book[s][i].quantity \in Int /\ book[s][i].quantity > 0
        BY <1>2, SoundLevels
      <3> QED BY <3>1
    <2> QED BY <1>1, <1>2, <2>1, BookOffers
  <1>5. ConsumedSide(config.side) \in Side
    BY ConsumedIsASide
  <1>6. PICK levels, n, D, t : WalkOf(fill, book, ConsumedSide(config.side), levels, n, D, x, t)
    BY <1>2, <1>3, WalkOfBook
  <1>7. levels = book[ConsumedSide(config.side)] /\ n = Len(levels)
    BY <1>6 DEF WalkOf
  <1>8. Offers(slices, j, ConsumedSide(config.side), levels, n)
    BY <1>4, <1>5, <1>7
  <1>9. /\ fill.requested = x /\ fill.bid_at_entry = BestPrice(book["bid"])
        /\ fill.ask_at_entry = BestPrice(book["ask"])
    BY <1>2, <1>3 DEF Walk
  <1>10. ASSUME NEW p \in FilePrices
         PROVE  TakenAt(fill, p)
                   = Max({0, Min({fill.requested - AvailableAt(slices, j, ConsumedSide(config.side),
                                                              Better(ConsumedSide(config.side), p)),
                                  Available(slices, j, ConsumedSide(config.side), p)})})
    <2>1. PICK side : side = ConsumedSide(config.side)
      OBVIOUS
    <2>2. WalkOf(fill, book, side, levels, n, D, x, t) /\ Offers(slices, j, side, levels, n)
      BY <1>6, <1>8, <2>1
    <2>3. IsGreedyAt(slices, j, side, fill, x, p)
      BY <2>2, TakenIsGreedy
    <2> QED BY <1>9, <2>1, <2>3 DEF IsGreedyAt
  <1>11. "bid" \in Side /\ "ask" \in Side
    BY DEF Side
  <1>12. ASSUME NEW p \in FilePrices, NEW s \in Side
         PROVE  IsEntry(slices, j, s, BestPrice(book[s]), p)
    <2>1. SoundBook(book) /\ Offers(slices, j, s, book[s], Len(book[s]))
      BY <1>2, <1>4
    <2> QED BY <2>1, EntryIsBest
  <1>13. \A p \in FilePrices :
            fill.bid_at_entry = p
               <=> /\ Available(slices, j, "bid", p) > 0
                   /\ \A q \in Better("bid", p) : Available(slices, j, "bid", q) = 0
    BY <1>9, <1>11, <1>12 DEF IsEntry
  <1>14. \A p \in FilePrices :
            fill.ask_at_entry = p
               <=> /\ Available(slices, j, "ask", p) > 0
                   /\ \A q \in Better("ask", p) : Available(slices, j, "ask", q) = 0
    BY <1>9, <1>11, <1>12 DEF IsEntry
  <1> QED BY <1>3, <1>10, <1>13, <1>14, Zenon DEF IsBestExecution, AvailableAt

(***************************************************************************)
(* What a slice leaves to the next one.                                    *)
(***************************************************************************)

LEMMA OtherSideStands ==
    ASSUME NEW book, SoundBook(book), NEW order_side, NEW x \in Nat \ {0},
           NEW fill, fill = Walk(book, order_side, x), NEW other \in Side, other # ConsumedSide(order_side)
    PROVE  Depleted(book, order_side, fill)[other] = book[other]
  <1>1. PICK side \in Side : side = ConsumedSide(order_side)
    BY ConsumedIsASide
  <1>2. PICK levels, n, D, t : WalkOf(fill, book, side, levels, n, D, x, t)
    BY <1>1, WalkOfBook
  <1>3. t \in Nat /\ DOMAIN fill.takes = 1 .. t
    BY <1>2 DEF WalkOf, TakesOf
  <1>4. PICK left : left = LeftOf(book, side, fill)
    OBVIOUS
  <1>5. PICK g : IsFoldOf(side, g, book, left, t) /\ Depleted(book, order_side, fill) = g[1 .. t]
    BY <1>1, <1>3, <1>4, DepletedIs
  <1>6. g[1 .. 0] = book /\ \A k \in 0 .. t - 1 : g[1 .. k + 1] = Folded(side, g[1 .. k], left[k + 1])
    BY <1>3, <1>5, FoldOfStep
  <1> DEFINE S == {k \in 0 .. t : DOMAIN g[1 .. k] = Side /\ g[1 .. k][other] = book[other]}
  <1>7. 0 \in S
    <2>1. DOMAIN book = Side
      BY DEF SoundBook, Books
    <2> QED BY <1>3, <1>6, <2>1
  <1>8. ASSUME NEW k \in 0 .. t - 1, k \in S PROVE k + 1 \in S
    <2>1. PICK b, level : b = g[1 .. k] /\ level = left[k + 1]
      OBVIOUS
    <2>2. g[1 .. k + 1] = [b EXCEPT ![side] = AppliedLevels(@, side, level.price, level.quantity)]
      BY <1>6, <2>1 DEF Folded, Side, AppliedBook
    <2>3. DOMAIN b = Side /\ b[other] = book[other]
      BY <1>8, <2>1
    <2>4. DOMAIN g[1 .. k + 1] = Side /\ g[1 .. k + 1][other] = b[other]
      BY <1>1, <2>2, <2>3
    <2>5. k + 1 \in 0 .. t
      BY <1>3
    <2> QED BY <2>3, <2>4, <2>5
  <1>9. \A k \in 0 .. t : k \in S
    <2> HIDE DEF S
    <2> QED BY <1>3, <1>7, <1>8, StepByStep
  <1>10. t \in 0 .. t
    BY <1>3
  <1> QED BY <1>5, <1>9, <1>10

\* A further slice takes from what those before it left.
LEMMA RemainsAfterOneMore ==
    ASSUME file \in Seq(BookUpdate), NEW slices, NEW m \in Nat, AreFills(slices, m),
           NEW n \in 0 .. Len(file), NEW more, \A i \in 1 .. m : more[i] = slices[i],
           KnownAt(more[m + 1].at) = n, NEW side, NEW p \in Int, TakenAt(more[m + 1].fill, p) \in Int
    PROVE  Remains(more, m + 1, side, p, n)
              = Remains(slices, m, side, p, n)
                  - IF side # ConsumedSide(config.side) \/ LastWord(side, p, n) = 0 THEN 0
                    ELSE TakenAt(more[m + 1].fill, p)
  <1>1. PICK word \in 0 .. n : word = LastWord(side, p, n)
    BY LastWordType, n \in Nat
  <1>2. CASE word = 0
    BY <1>1, <1>2 DEF Remains
  <1>3. CASE word # 0
    <2>1. PICK a, b :
             /\ a = [i \in 1 .. m |->
                        IF side = ConsumedSide(config.side) /\ KnownAt(slices[i].at) >= word
                        THEN TakenAt(slices[i].fill, p) ELSE 0]
             /\ b = [i \in 1 .. m + 1 |->
                        IF side = ConsumedSide(config.side) /\ KnownAt(more[i].at) >= word
                        THEN TakenAt(more[i].fill, p) ELSE 0]
      OBVIOUS
    <2>2. DOMAIN a = 1 .. m /\ DOMAIN b = 1 .. m + 1 /\ \A i \in 1 .. m : b[i] = a[i] /\ a[i] \in Int
      <3>1. \A i \in 1 .. m : i \in 1 .. m + 1
        OBVIOUS
      <3>2. \A i \in 1 .. m : TakenAt(slices[i].fill, p) \in Int
        BY DEF AreFills
      <3> QED BY <2>1, <3>1, <3>2
    <2>3. b[m + 1] = IF side # ConsumedSide(config.side) THEN 0 ELSE TakenAt(more[m + 1].fill, p)
      <3>1. m + 1 \in 1 .. m + 1 /\ n >= word
        BY <1>1
      <3> QED BY <2>1, <3>1
    <2>4. b[m + 1] \in Int
      BY <2>3
    <2>5. Total(b) = Total(a) + b[m + 1]
      BY <2>2, <2>4, TotalOfOneMore
    <2>6. Total(a) = TakenSince(slices, m, side, p, word) /\ Total(b) = TakenSince(more, m + 1, side, p, word)
      BY <2>1 DEF TakenSince
    <2>7. Total(a) \in Int
      BY <2>2, TotalFacts
    <2>8. file[word].quantity \in Int
      <3>1. word \in 1 .. Len(file)
        BY <1>1, <1>3
      <3>2. file[word] \in BookUpdate
        BY <3>1
      <3> QED BY <3>2 DEF BookUpdate
    <2>9. Remains(slices, m, side, p, n) = file[word].quantity - Total(a)
      BY <1>1, <1>3, <2>6 DEF Remains
    <2>10. Remains(more, m + 1, side, p, n) = file[word].quantity - Total(b)
      BY <1>1, <1>3, <2>6 DEF Remains
    <2> QED BY <1>1, <1>3, <2>3, <2>4, <2>5, <2>7, <2>8, <2>9, <2>10
  <1> QED BY <1>2, <1>3

\* What a walk leaves of a level.
LeavesOf(levels, D, x, k) ==
    levels[k].quantity - IF D[k - 1] < x THEN Least(D[k], x) - D[k - 1] ELSE 0

AreLevels(levels, side, n, D) ==
    /\ n \in Nat /\ n = Len(levels) /\ Sorted(levels, side) /\ AreDepths(D, levels, n)
    /\ \A i \in 1 .. n : levels[i].price \in Int /\ levels[i].quantity \in Nat \ {0}

LEMMA HoldsWhatIsLeft ==
    ASSUME NEW side, NEW levels, NEW n, NEW D, AreLevels(levels, side, n, D),
           NEW x \in Nat \ {0}, NEW new, NEW s, IsLeft(new, levels, n, D, x, s)
    PROVE  /\ \A k \in 1 .. n : \A q \in Int :
                 Holds(new, levels[k].price, q) <=> q # 0 /\ q = LeavesOf(levels, D, x, k)
           /\ \A p, q : (\A i \in 1 .. n : levels[i].price # p) => ~ Holds(new, p, q)
  <1>0. /\ n \in Nat /\ n = Len(levels) /\ Sorted(levels, side) /\ AreDepths(D, levels, n)
        /\ \A i \in 1 .. n : levels[i].price \in Int /\ levels[i].quantity \in Nat \ {0}
    BY DEF AreLevels
  <1>1. /\ s \in 0 .. n /\ s \in Nat /\ D[s] <= x /\ (s < n => x < D[s + 1]) /\ Len(new) = n - s
        /\ \A i \in 1 .. n - s : /\ new[i].price = levels[s + i].price
                                 /\ new[i].quantity = IF i = 1 THEN D[s + 1] - x ELSE levels[s + i].quantity
    BY <1>0 DEF IsLeft
  <1>2. PICK m \in Nat : m = n - s /\ s + m = n
    BY <1>0, <1>1
  <1>3. \A i, j \in 1 .. n : i # j => levels[i].price # levels[j].price
    BY <1>0, PricesDiffer
  <1>4. \A i \in 1 .. m : s + i \in 1 .. n
    BY <1>0, <1>1, <1>2
  <1>5. /\ \A k \in 0 .. n : D[k] \in Nat
        /\ \A k \in 1 .. n : D[k] = D[k - 1] + levels[k].quantity
        /\ \A i, j \in 0 .. n : i <= j => D[i] <= D[j]
    <2>1. D \in [0 .. n -> Nat]
      BY <1>0 DEF AreDepths
    <2>2. \A k \in 0 .. n : D[k] \in Nat
      BY <2>1
    <2> QED BY <1>0, <2>2 DEF AreDepths
  <1>6. \A p, q : Holds(new, p, q) <=> \E i \in 1 .. m : levels[s + i].price = p /\ new[i].quantity = q
    BY <1>1, <1>2 DEF Holds
  <1>7. ASSUME NEW k \in 1 .. n, NEW q \in Int
        PROVE  Holds(new, levels[k].price, q) <=> q # 0 /\ q = LeavesOf(levels, D, x, k)
    <2>1. PICK a \in Nat, b \in Nat, c \in Nat : a = D[k - 1] /\ b = D[k] /\ c = levels[k].quantity
      <3>1. k \in 0 .. n /\ k - 1 \in 0 .. n /\ levels[k].quantity \in Nat
        BY <1>0
      <3> QED BY <1>5, <3>1
    <2>2. b = a + c /\ c > 0
      BY <1>0, <1>5, <2>1
    <2>3. LeavesOf(levels, D, x, k) = c - IF a < x THEN (IF b <= x THEN b ELSE x) - a ELSE 0
      BY <2>1 DEF LeavesOf, Least
    <2>4. CASE k <= s
      <3>1. b <= x
        <4>1. k \in 0 .. n /\ s \in 0 .. n
          BY <1>0, <1>1
        <4>2. D[k] <= D[s] /\ D[s] \in Nat
          BY <1>5, <2>4, <4>1
        <4> QED BY <1>1, <2>1, <4>2
      <3>2. LeavesOf(levels, D, x, k) = 0
        BY <2>2, <2>3, <3>1
      <3>3. \A i \in 1 .. m : s + i # k
        BY <1>1, <2>4
      <3>4. ~ Holds(new, levels[k].price, q)
        BY <1>3, <1>4, <1>6, <3>3
      <3> QED BY <3>2, <3>4
    <2>5. CASE k > s
      <3>1. PICK l \in 1 .. m : s + l = k
        <4>1. k - s \in 1 .. m /\ s + (k - s) = k
          BY <1>0, <1>1, <1>2, <2>5
        <4> QED BY <4>1
      <3>2. \A i \in 1 .. m : i # l => s + i # k
        BY <1>1, <3>1
      <3>3. Holds(new, levels[k].price, q) <=> new[l].quantity = q
        BY <1>3, <1>4, <1>6, <3>1, <3>2
      <3>4. new[l].quantity = LeavesOf(levels, D, x, k) /\ LeavesOf(levels, D, x, k) > 0
        <4>1. CASE l = 1
          <5>1. new[l].quantity = b - x /\ x < b
            BY <1>1, <1>2, <2>1, <3>1, <4>1
          <5>2. a <= x
            <6>1. k - 1 = s
              BY <1>1, <3>1, <4>1
            <6> QED BY <1>1, <2>1, <6>1
          <5> QED BY <2>2, <2>3, <5>1, <5>2
        <4>2. CASE l # 1
          <5>1. new[l].quantity = c
            BY <1>1, <1>2, <2>1, <3>1, <4>2
          <5>2. ~ (a < x)
            <6>1. s + 1 \in 0 .. n /\ k - 1 \in 0 .. n /\ s + 1 <= k - 1 /\ s < n
              BY <1>0, <1>1, <1>2, <3>1, <4>2
            <6>2. D[s + 1] <= D[k - 1] /\ D[s + 1] \in Nat
              BY <1>5, <6>1
            <6> QED BY <1>1, <2>1, <6>1, <6>2
          <5> QED BY <2>2, <2>3, <5>1, <5>2
        <4> QED BY <4>1, <4>2
      <3> QED BY <3>3, <3>4
    <2> QED BY <1>0, <1>1, <2>4, <2>5
  <1>8. ASSUME NEW p, NEW q, \A i \in 1 .. n : levels[i].price # p PROVE ~ Holds(new, p, q)
    BY <1>4, <1>6, <1>8
  <1> QED BY <1>7, <1>8

\* A book at the market is at the market, less the slice, after it.
LEMMA MarketAfterDepleted ==
    ASSUME file \in Seq(BookUpdate), NEW book, SoundBook(book), NEW slices, NEW m \in Nat, AreFills(slices, m),
           NEW n \in 0 .. Len(file), IsBookAt(book, slices, m, n), NEW x \in Nat \ {0},
           NEW fill, fill = Walk(book, config.side, x), NEW more, \A i \in 1 .. m : more[i] = slices[i],
           more[m + 1].fill = fill, KnownAt(more[m + 1].at) = n
    PROVE  IsBookAt(Depleted(book, config.side, fill), more, m + 1, n)
  <1>1. PICK side \in Side : side = ConsumedSide(config.side)
    BY ConsumedIsASide
  <1>2. PICK after : after = Depleted(book, config.side, fill)
    OBVIOUS
  <1>3. \A p \in Int : TakenAt(fill, p) \in Int
    BY TakenAtType
  <1>4. \A s : \A p \in Int :
           Remains(more, m + 1, s, p, n)
              = Remains(slices, m, s, p, n) - IF s # side \/ LastWord(s, p, n) = 0 THEN 0 ELSE TakenAt(fill, p)
    <2> SUFFICES ASSUME NEW s, NEW p \in Int
                 PROVE  Remains(more, m + 1, s, p, n)
                           = Remains(slices, m, s, p, n)
                                - IF s # side \/ LastWord(s, p, n) = 0 THEN 0 ELSE TakenAt(fill, p)
      OBVIOUS
    <2>1. TakenAt(more[m + 1].fill, p) \in Int
      BY <1>3
    <2> QED BY <1>1, <2>1, RemainsAfterOneMore
  <1>5. \A s : \A p \in Int : Remains(slices, m, s, p, n) \in Int
    BY RemainsType
  <1>6. ASSUME NEW s \in Side, s # side, NEW p \in Int, NEW q \in Int
        PROVE  Holds(after[s], p, q) <=> q # 0 /\ q = Remains(more, m + 1, s, p, n)
    <2>1. after[s] = book[s]
      BY <1>1, <1>2, <1>6, OtherSideStands
    <2>2. Remains(more, m + 1, s, p, n) = Remains(slices, m, s, p, n)
      BY <1>4, <1>5, <1>6
    <2> QED BY <2>1, <2>2 DEF IsBookAt
  <1>7. PICK levels, k, D, t : WalkOf(fill, book, side, levels, k, D, x, t)
    BY <1>1, WalkOfBook
  <1>8. /\ levels = book[side] /\ k \in Nat /\ k = Len(levels) /\ Sorted(levels, side) /\ AreDepths(D, levels, k)
        /\ \A i \in 1 .. k : levels[i].price \in Int /\ levels[i].quantity \in Nat \ {0}
    BY <1>7 DEF WalkOf
  <1>9. PICK c : IsLeft(after[side], levels, k, D, x, c)
    BY <1>1, <1>2, <1>8, DepletedLevels
  <1>10. /\ \A i \in 1 .. k : \A q \in Int :
               Holds(after[side], levels[i].price, q) <=> q # 0 /\ q = LeavesOf(levels, D, x, i)
         /\ \A p, q : (\A i \in 1 .. k : levels[i].price # p) => ~ Holds(after[side], p, q)
    <2>1. AreLevels(levels, side, k, D)
      BY <1>8 DEF AreLevels
    <2> QED BY <1>9, <2>1, HoldsWhatIsLeft
  <1>11. /\ \A i \in 1 .. k : TakenAt(fill, levels[i].price)
                                 = IF D[i - 1] < x THEN Least(D[i], x) - D[i - 1] ELSE 0
         /\ \A p : (\A i \in 1 .. k : levels[i].price # p) => TakenAt(fill, p) = 0
    BY <1>7, TakenAtPrice
  <1>12. \A p, q \in Int : Holds(levels, p, q) <=> q # 0 /\ q = Remains(slices, m, side, p, n)
    BY <1>8 DEF IsBookAt
  <1>13. ASSUME NEW p \in Int, NEW q \in Int
         PROVE  Holds(after[side], p, q) <=> q # 0 /\ q = Remains(more, m + 1, side, p, n)
    <2>1. CASE \E i \in 1 .. k : levels[i].price = p
      <3>1. PICK i \in 1 .. k : levels[i].price = p
        BY <2>1
      <3>2. PICK held \in Nat : held = levels[i].quantity /\ held # 0
        BY <1>8
      <3>3. Holds(levels, p, held)
        BY <1>8, <3>1, <3>2 DEF Holds
      <3>4. Remains(slices, m, side, p, n) = held
        BY <1>12, <3>2, <3>3
      <3>5. LastWord(side, p, n) # 0
        BY <3>2, <3>4 DEF Remains
      <3>6. Remains(more, m + 1, side, p, n) = held - TakenAt(fill, p)
        BY <1>4, <3>4, <3>5
      <3>7. LeavesOf(levels, D, x, i) = held - TakenAt(fill, p)
        BY <1>11, <3>1, <3>2 DEF LeavesOf
      <3> QED BY <1>10, <3>1, <3>6, <3>7
    <2>2. CASE ~ \E i \in 1 .. k : levels[i].price = p
      <3>1. TakenAt(fill, p) = 0 /\ ~ Holds(after[side], p, q)
        BY <1>10, <1>11, <2>2
      <3>2. PICK held \in Int : held = Remains(slices, m, side, p, n)
        BY <1>5
      <3>3. ~ Holds(levels, p, held)
        BY <1>8, <2>2 DEF Holds
      <3>4. held = 0
        BY <1>12, <3>2, <3>3
      <3>5. Remains(more, m + 1, side, p, n) = 0
        <4>1. Remains(more, m + 1, side, p, n) = held - IF LastWord(side, p, n) = 0 THEN 0 ELSE TakenAt(fill, p)
          BY <1>4, <3>2
        <4> QED BY <3>1, <3>4, <4>1
      <3> QED BY <3>1, <3>5
    <2> QED BY <2>1, <2>2
  <1>14. IsBookAt(after, more, m + 1, n)
    BY <1>6, <1>13 DEF IsBookAt
  <1> QED BY <1>2, <1>14

(***************************************************************************)
(* What was read ahead is what comes.                                      *)
(***************************************************************************)

\* In a day that goes forward what is known at a time are its first rows.
LEMMA KnownIs ==
    ASSUME file \in Seq(BookUpdate), Forward(Len(file)), NEW n \in 0 .. Len(file), NEW time \in Int,
           n > 0 => file[n].timestamp <= time, n < Len(file) => time < file[n + 1].timestamp
    PROVE  KnownAt(time) = n
  <1>1. PICK l \in Nat : l = Len(file) /\ n \in 0 .. l /\ \A i \in 1 .. l : file[i].timestamp \in Int
    <2>1. \A i \in 1 .. Len(file) : file[i] \in BookUpdate
      OBVIOUS
    <2>2. \A i \in 1 .. Len(file) : file[i].timestamp \in Int
      BY <2>1 DEF BookUpdate
    <2> QED BY <2>2
  <1>2. \A i, j \in 1 .. l : i <= j => file[i].timestamp <= file[j].timestamp
    BY <1>1 DEF Forward
  <1>3. ASSUME NEW i \in 1 .. l PROVE file[i].timestamp <= time <=> i \in 1 .. n
    <2>1. CASE i <= n
      <3>1. n \in 1 .. l /\ n > 0
        BY <1>1, <2>1
      <3>2. file[i].timestamp <= file[n].timestamp /\ file[n].timestamp <= time
        BY <1>2, <2>1, <3>1
      <3> QED BY <1>1, <2>1, <3>1, <3>2
    <2>2. CASE i > n
      <3>1. n + 1 \in 1 .. l /\ n + 1 <= i /\ n < l
        BY <1>1, <2>2
      <3>2. file[n + 1].timestamp <= file[i].timestamp /\ time < file[n + 1].timestamp
        BY <1>1, <1>2, <3>1
      <3> QED BY <1>1, <2>2, <3>1, <3>2
    <2> QED BY <1>1, <2>1, <2>2
  <1>4. {i \in 1 .. Len(file) : file[i].timestamp <= time} = 1 .. n
    <2>1. \A i \in 1 .. n : i \in 1 .. l
      BY <1>1
    <2> QED BY <1>1, <1>3, <2>1
  <1>5. Cardinality(1 .. n) = n
    <2>1. n \in Nat
      BY <1>1
    <2> QED BY <2>1, FS_Interval
  <1> QED BY <1>4, <1>5 DEF KnownAt

\* Groups that follow each other, put together.
AreParts(groups, ends, n) ==
    /\ groups \in Seq(Seq(BookUpdate)) /\ n = Len(groups) /\ Ascend(ends, n) /\ ends[n] <= Len(file)
    /\ \A k \in 1 .. n : groups[k] = SubSeq(file, ends[k - 1] + 1, ends[k])

LEMMA PartsJoined ==
    ASSUME file \in Seq(BookUpdate), NEW groups, NEW ends, NEW n, AreParts(groups, ends, n)
    PROVE  FlattenSeq(groups) = SubSeq(file, ends[0] + 1, ends[n])
  <1>1. /\ groups \in Seq(Seq(BookUpdate)) /\ n = Len(groups) /\ n \in Nat /\ Ascend(ends, n)
        /\ ends[n] <= Len(file) /\ \A k \in 0 .. n : ends[k] \in Nat
        /\ \A k \in 1 .. n : groups[k] = SubSeq(file, ends[k - 1] + 1, ends[k])
    BY DEF AreParts, Ascend
  <1>2. PICK f : /\ FlattenSeq(groups) = IF n = 0 THEN <<>> ELSE f[n]
                 /\ \A i \in 1 .. n : f[i] = IF i = 1 THEN groups[i] ELSE f[i - 1] \o groups[i]
    BY <1>1, FlattenIs
  <1> DEFINE S == {k \in 0 .. n : k = 0 \/ f[k] = SubSeq(file, ends[0] + 1, ends[k])}
  <1>3. 0 \in S
    BY <1>1
  <1>4. ASSUME NEW k \in 0 .. n - 1, k \in S PROVE k + 1 \in S
    <2>1. k \in Nat /\ k \in 0 .. n /\ k + 1 \in 1 .. n /\ k + 1 \in 0 .. n /\ (k + 1) - 1 = k /\ 0 \in 0 .. n
          /\ n \in 0 .. n /\ (k + 1 = 1 <=> k = 0) /\ k <= k + 1 /\ 0 <= k /\ k + 1 <= n
      BY <1>1
    <2>2. groups[k + 1] = SubSeq(file, ends[k] + 1, ends[k + 1])
      BY <1>1, <2>1
    <2>3. f[k + 1] = IF k = 0 THEN groups[k + 1] ELSE f[k] \o groups[k + 1]
      BY <1>2, <2>1
    <2>4. CASE k = 0
      BY <2>1, <2>2, <2>3, <2>4
    <2>5. CASE k # 0
      <3>1. f[k] = SubSeq(file, ends[0] + 1, ends[k])
        BY <1>4, <2>5
      <3>2. PICK a \in Nat, b \in Nat, c \in Nat, d \in Nat :
               a = ends[0] /\ b = ends[k] /\ c = ends[k + 1] /\ d = ends[n]
        BY <1>1, <2>1
      <3>3. a <= b
        BY <1>1, <2>1, <3>2, Ascending
      <3>4. b <= c
        BY <1>1, <2>1, <3>2, Ascending
      <3>5. c <= d
        BY <1>1, <2>1, <3>2, Ascending
      <3>6. PICK day \in Seq(BookUpdate) : day = file /\ c <= Len(day)
        <4>1. Len(file) \in Nat /\ d <= Len(file)
          BY <1>1, <3>2
        <4> QED BY <3>5, <4>1
      <3>7. SubSeq(day, a + 1, b) \o SubSeq(day, b + 1, c) = SubSeq(day, a + 1, c)
        BY <3>3, <3>4, <3>6, RowsJoined, Zenon
      <3> QED BY <2>1, <2>2, <2>3, <2>5, <3>1, <3>2, <3>6, <3>7
    <2> QED BY <2>4, <2>5
  <1>5. \A k \in 0 .. n : k \in S
    <2> HIDE DEF S
    <2> QED BY <1>1, <1>3, <1>4, StepByStep
  <1>6. CASE n = 0
    <2>1. ends[0] \in Nat
      BY <1>1, <1>6
    <2>2. SubSeq(file, ends[0] + 1, ends[0]) = <<>>
      BY <2>1
    <2> QED BY <1>2, <1>6, <2>2
  <1>7. CASE n # 0
    <2>1. n \in 0 .. n
      BY <1>1
    <2> QED BY <1>2, <1>5, <1>7, <2>1
  <1> QED BY <1>6, <1>7

\* The rows after the first n up to a time, in a day that goes forward.
ComesNext(updates, n, last) ==
    \E e \in n .. Len(file) :
        /\ updates = SubSeq(file, n + 1, e)
        /\ \A i \in e + 1 .. Len(file) : last < file[i].timestamp

LEMMA FutureIsNext ==
    ASSUME GridInv, AtSample, Forward(Len(file)), ReadBeyond \/ ~ MoreGroups
    PROVE  ComesNext(Future, applied, LastSlice)
  <1>1. /\ file \in Seq(BookUpdate) /\ pending \in Seq(Seq(BookUpdate)) /\ Len(file) \in Nat
        /\ applied \in 1 .. Len(file) /\ instant = file[applied].timestamp
        /\ \A i \in 1 .. Len(file) : file[i].timestamp \in Int
    <2>1. file \in Seq(BookUpdate) /\ pending \in Seq(Seq(BookUpdate)) /\ applied \in GridPoints
      BY DEF GridInv, ClockInv
    <2>2. /\ Len(file) \in Nat /\ applied \in 1 .. Len(file)
          /\ \A i \in 1 .. Len(file) : file[i].timestamp \in Int
      BY <2>1, GroupEndsType
    <2>3. instant = file[applied].timestamp
      BY <2>2 DEF GridInv, ClockInv
    <2> QED BY <2>1, <2>2, <2>3
  <1>2. PICK last \in Int : last = LastSlice
    <2>1. instant \in Int /\ config.duration \in Nat
      BY <1>1 DEF GridInv
    <2>2. LastSlice = LastSliceOf(instant)
      BY DEF LastSlice, LastSliceOf
    <2> QED BY <2>1, <2>2, LastIsNoEarlier
  <1>3. PICK ends \in [0 .. Len(pending) -> {0} \cup GroupEnds] :
           /\ ends[0] = applied /\ ends[Len(pending)] = position
           /\ \A k \in 1 .. Len(pending) : IsGroup(pending[k], ends[k - 1], ends[k])
    BY DEF GridInv, PendingInv
  <1>4. PICK l \in Nat : l = Len(pending)
    BY <1>1
  <1>5. \A k \in 0 .. l : ends[k] \in Nat /\ ends[k] <= Len(file) /\ ends[k] \in {0} \cup GroupEnds
    <2>1. \A n \in {0} \cup GroupEnds : n \in Nat /\ n <= Len(file)
      BY <1>1, GroupEndsType
    <2> QED BY <1>3, <1>4, <2>1
  <1>6. ASSUME NEW k \in 1 .. l
        PROVE  /\ ends[k - 1] < ends[k] /\ pending[k] = SubSeq(file, ends[k - 1] + 1, ends[k])
               /\ TimeOf(pending[k]) = file[ends[k]].timestamp
               /\ file[ends[k - 1] + 1].timestamp = file[ends[k]].timestamp
               /\ ends[k] \in 1 .. Len(file) /\ ends[k - 1] + 1 \in 1 .. Len(file)
    <2>1. PICK group, s, e : group = pending[k] /\ s = ends[k - 1] /\ e = ends[k]
      OBVIOUS
    <2>2. k - 1 \in 0 .. l /\ k \in 0 .. l
      BY <1>4
    <2>3. IsGroup(group, s, e) /\ s \in {0} \cup GroupEnds
      BY <1>3, <1>4, <1>5, <2>1, <2>2
    <2>4. s \in Nat /\ e \in Nat /\ e <= Len(file) /\ s < e /\ TimeOf(group) = file[e].timestamp
      BY <1>1, <2>3, GroupFacts, Zenon
    <2>5. group = SubSeq(file, s + 1, e) /\ file[s + 1].timestamp = file[e].timestamp
      BY <2>3 DEF IsGroup
    <2>6. e \in 1 .. Len(file) /\ s + 1 \in 1 .. Len(file)
      BY <1>1, <2>4
    <2> QED BY <2>1, <2>4, <2>5, <2>6
  <1>7. Ascend(ends, l)
    <2>1. ASSUME NEW k \in 0 .. l - 1 PROVE ends[k] <= ends[k + 1]
      <3>1. k + 1 \in 1 .. l /\ (k + 1) - 1 = k /\ k \in 0 .. l /\ k + 1 \in 0 .. l
        BY <1>4
      <3>2. ends[k] < ends[k + 1]
        BY <1>6, <3>1
      <3> QED BY <1>5, <3>1, <3>2
    <2> QED BY <1>4, <1>5, <2>1 DEF Ascend
  <1>8. \A i, j \in 1 .. Len(file) : i <= j => file[i].timestamp <= file[j].timestamp
    BY DEF Forward
  <1> DEFINE S == {k \in 0 .. l : k < l => ~ (TimeOf(pending[k + 1]) <= last)}
  <1>9. PICK c \in S : \A k \in S : c <= k
    <2>1. l \in S /\ S \in SUBSET Nat
      OBVIOUS
    <2> HIDE DEF S
    <2> QED BY <2>1, LeastElement
  <1>10. /\ c \in 0 .. l /\ (c < l => ~ (TimeOf(pending[c + 1]) <= last))
         /\ \A k \in 0 .. c - 1 : TimeOf(pending[k + 1]) <= last
    <2>1. ASSUME NEW k \in 0 .. c - 1 PROVE TimeOf(pending[k + 1]) <= last
      <3>1. k \in 0 .. l /\ ~ (c <= k)
        BY <1>9
      <3>2. k \notin S
        BY <1>9, <3>1
      <3> QED BY <3>1, <3>2
    <2> QED BY <1>9, <2>1
  <1> HIDE DEF S
  <1>11. PICK e \in Nat : e = ends[c] /\ e \in applied .. Len(file)
    <2>1. 0 \in 0 .. l /\ 0 <= c
      BY <1>10
    <2>2. ends[0] <= ends[c]
      BY <1>7, <1>10, <2>1, Ascending
    <2> QED BY <1>1, <1>3, <1>5, <1>10, <2>2
  <1>12. ASSUME NEW k \in 1 .. l PROVE TimeOf(pending[k]) <= last <=> k \in 1 .. c
    <2>1. CASE k <= c
      <3>1. PICK m \in 0 .. c - 1 : m + 1 = k
        BY <1>10, <2>1, k - 1 \in 0 .. c - 1
      <3>2. TimeOf(pending[k]) <= last
        BY <1>10, <3>1
      <3> QED BY <1>10, <2>1, <3>2
    <2>2. CASE k > c
      <3>1. c < l /\ c + 1 \in 1 .. l /\ c + 1 \in 0 .. l /\ k \in 0 .. l /\ c + 1 <= k
        BY <1>4, <1>10, <2>2
      <3>2. ends[c + 1] <= ends[k]
        BY <1>7, <3>1, Ascending
      <3>3. file[ends[c + 1]].timestamp <= file[ends[k]].timestamp
        BY <1>6, <1>8, <3>1, <3>2
      <3>4. PICK a \in Int, b \in Int : a = TimeOf(pending[c + 1]) /\ b = TimeOf(pending[k]) /\ a <= b
        BY <1>1, <1>6, <3>1, <3>3
      <3>5. ~ (a <= last)
        BY <1>10, <3>1, <3>4
      <3> QED BY <1>10, <2>2, <3>4, <3>5
    <2> QED BY <1>4, <1>10, <2>1, <2>2
  <1>13. {k \in 1 .. Len(pending) : TimeOf(pending[k]) <= LastSlice} = 1 .. c
    <2>1. \A k \in 1 .. c : k \in 1 .. l
      BY <1>4, <1>10
    <2> QED BY <1>2, <1>4, <1>12, <2>1
  <1>14. Future = SubSeq(file, applied + 1, e)
    <2>1. PICK groups : groups = SubSeq(pending, 1, c)
      OBVIOUS
    <2>2. RowsAt(pending, 1 .. c) = groups
      BY <1>1, <1>4, <1>10, <2>1, RowsAtFront
    <2>3. groups \in Seq(Seq(BookUpdate)) /\ Len(groups) = c /\ \A k \in 1 .. c : groups[k] = pending[k]
      <3>1. PICK Y, f : Y = Seq(BookUpdate) /\ f = pending
        OBVIOUS
      <3>2. f \in Seq(Y) /\ c \in Nat /\ c <= Len(f)
        BY <1>1, <1>4, <1>10, <3>1
      <3>3. SubSeq(f, 1, c) \in Seq(Y) /\ Len(SubSeq(f, 1, c)) = c
            /\ \A k \in 1 .. c : SubSeq(f, 1, c)[k] = f[k]
        BY <3>2
      <3> QED BY <2>1, <3>1, <3>3
    <2>4. Ascend(ends, c)
      <3>1. \A k \in 0 .. c : k \in 0 .. l
        BY <1>4, <1>10
      <3>2. \A k \in 0 .. c - 1 : k \in 0 .. l - 1
        BY <1>4, <1>10
      <3>3. c \in Nat
        BY <1>10
      <3> QED BY <1>7, <3>1, <3>2, <3>3 DEF Ascend
    <2>5. AreParts(groups, ends, c)
      <3>1. \A k \in 1 .. c : k \in 1 .. l
        BY <1>4, <1>10
      <3>2. \A k \in 1 .. c : groups[k] = SubSeq(file, ends[k - 1] + 1, ends[k])
        BY <1>6, <2>3, <3>1
      <3>3. ends[c] <= Len(file)
        BY <1>5, <1>10
      <3> QED BY <2>3, <2>4, <3>2, <3>3 DEF AreParts
    <2>6. FlattenSeq(groups) = SubSeq(file, ends[0] + 1, ends[c])
      BY <1>1, <2>5, PartsJoined
    <2> QED BY <1>3, <1>11, <1>13, <2>2, <2>6 DEF Future
  <1>15. ASSUME NEW i \in e + 1 .. Len(file) PROVE last < file[i].timestamp
    <2>1. i \in 1 .. Len(file)
      BY <1>1, <1>11
    <2>2. c < l
      <3>1. SUFFICES ASSUME c = l PROVE FALSE
        BY <1>4, <1>10
      <3>2. CASE ReadBeyond
        <4>1. Last(pending) = pending[l] /\ l \in 1 .. l
          BY <1>1, <1>4, <3>2 DEF ReadBeyond, Last
        <4>2. TimeOf(pending[l]) > last /\ TimeOf(pending[l]) \in Int
          BY <1>1, <1>2, <1>6, <3>2, <4>1 DEF ReadBeyond
        <4>3. TimeOf(pending[l]) <= last
          BY <1>12, <3>1, <4>1
        <4> QED BY <4>2, <4>3
      <3>3. CASE ~ MoreGroups
        <4>1. e = position
          BY <1>3, <1>4, <1>11, <3>1
        <4> QED BY <1>1, <1>11, <3>3, <4>1 DEF MoreGroups
      <3> QED BY <3>2, <3>3
    <2>3. c + 1 \in 1 .. l /\ (c + 1) - 1 = c
      BY <1>4, <1>10, <2>2
    <2>4. /\ TimeOf(pending[c + 1]) = file[e + 1].timestamp /\ e + 1 \in 1 .. Len(file)
      BY <1>6, <1>11, <2>3
    <2>5. file[e + 1].timestamp <= file[i].timestamp
      BY <1>1, <1>8, <1>11, <2>1, <2>4
    <2>6. PICK a \in Int, b \in Int : a = file[e + 1].timestamp /\ b = file[i].timestamp
      BY <1>1, <2>1, <2>4
    <2> QED BY <1>10, <2>2, <2>4, <2>5, <2>6
  <1> QED BY <1>2, <1>11, <1>14, <1>15 DEF ComesNext

(***************************************************************************)
(* Fills are those of the market, step by step.                            *)
(***************************************************************************)

\* What is said of the market holds while the day and the arguments stay.
LEMMA SameMarket ==
    ASSUME Unchanged
    PROVE  /\ \A time : KnownAt(time)' = KnownAt(time)
           /\ \A r, slices, m, n : IsMarket(r, slices, m, n)' <=> IsMarket(r, slices, m, n)
           /\ \A slices, j : IsOnMarket(slices, j)' <=> IsOnMarket(slices, j)
           /\ ArePriced' <=> ArePriced
           /\ \A n : Forward(n)' <=> Forward(n)
  <1>1. file' = file /\ config' = config
    BY DEF Unchanged
  <1>2. \A time : KnownAt(time)' = KnownAt(time)
    BY <1>1 DEF KnownAt
  <1>3. \A n : BookStart(n)' = BookStart(n)
    BY <1>1 DEF BookStart
  <1>4. \A side, price, n : LastWord(side, price, n)' = LastWord(side, price, n)
    BY <1>1, <1>3 DEF LastWord
  <1>5. \A slices, m, side, price, word :
           TakenSince(slices, m, side, price, word)' = TakenSince(slices, m, side, price, word)
    BY <1>1, <1>2 DEF TakenSince
  <1>6. \A slices, m, side, price, n :
           Remains(slices, m, side, price, n)' = Remains(slices, m, side, price, n)
    BY <1>1, <1>4, <1>5 DEF Remains
  <1>7. \A book, slices, m, n : IsBookAt(book, slices, m, n)' <=> IsBookAt(book, slices, m, n)
    BY <1>6 DEF IsBookAt
  <1>8. \A r, slices, m, n : IsMarket(r, slices, m, n)' <=> IsMarket(r, slices, m, n)
    BY <1>1, <1>7 DEF IsMarket
  <1>9. \A slices, j : IsOnMarket(slices, j)' <=> IsOnMarket(slices, j)
    BY <1>1, <1>2, <1>7 DEF IsOnMarket
  <1>10. ArePriced' <=> ArePriced
    BY <1>1 DEF ArePriced
  <1>11. \A n : Forward(n)' <=> Forward(n)
    BY <1>1 DEF Forward
  <1> QED BY <1>2, <1>8, <1>9, <1>10, <1>11

\* The instants of an order's slices.
LEMMA SliceTimes ==
    ASSUME NEW schedule, schedule.start \in Int, schedule.duration \in Nat,
           schedule.slices \in Nat \ {0}, NEW i \in 1 .. schedule.slices
    PROVE  /\ SliceTime(schedule, i) \in Int /\ schedule.start <= SliceTime(schedule, i)
           /\ SliceTime(schedule, i) <= SliceTime(schedule, schedule.slices)
           /\ i < schedule.slices => SliceTime(schedule, i) <= SliceTime(schedule, i + 1)
  <1>1. PICK start \in Int, d \in Nat, m \in Nat \ {0} :
           start = schedule.start /\ d = schedule.duration /\ m = schedule.slices
    OBVIOUS
  <1>2. ASSUME NEW j \in Nat, NEW k \in Nat, j <= k
        PROVE  /\ (d * j) \div m \in Int /\ (d * k) \div m \in Int
               /\ 0 <= (d * j) \div m /\ (d * j) \div m <= (d * k) \div m
    <2>1. d * j \in Nat /\ d * k \in Nat
      OBVIOUS
    <2>2. d * j <= d * k
      <3>1. CASE d = 0
        BY <3>1
      <3>2. CASE d # 0
        BY <1>2, <3>2, MultiplesOrder
      <3> QED BY <3>1, <3>2
    <2>3. 0 \div m = 0
      OBVIOUS
    <2>4. PICK a \in Nat, b \in Nat : a = d * j /\ b = d * k
      BY <2>1
    <2>5. a \div m <= b \div m /\ a \div m \in Int /\ b \div m \in Int /\ 0 \div m <= a \div m
      BY <2>2, <2>4, DivisionOrder
    <2> QED BY <2>3, <2>4, <2>5
  <1>3. i - 1 \in Nat /\ m - 1 \in Nat /\ i - 1 <= m - 1 /\ i \in Nat /\ (i + 1) - 1 = i /\ i - 1 <= i
    BY <1>1
  <1>4. PICK x \in Int, y \in Int, z \in Int :
           /\ x = (d * (i - 1)) \div m /\ y = (d * (m - 1)) \div m /\ z = (d * i) \div m
           /\ 0 <= x /\ x <= y /\ x <= z
    BY <1>2, <1>3
  <1>5. /\ SliceTime(schedule, i) = start + x /\ SliceTime(schedule, schedule.slices) = start + y
        /\ SliceTime(schedule, i + 1) = start + z
    BY <1>1, <1>3, <1>4 DEF SliceTime
  <1> QED BY <1>1, <1>4, <1>5

\* At a sample the rows known are those that were applied.
LEMMA KnownAtSample ==
    ASSUME GridInv, AtSample, Forward(Len(file))
    PROVE  KnownAt(instant) = applied /\ instant \in Int /\ applied \in 1 .. Len(file)
  <1>1. /\ file \in Seq(BookUpdate) /\ applied \in GroupEnds /\ applied \in 1 .. Len(file)
        /\ instant = file[applied].timestamp /\ Len(file) \in Nat
        /\ \A i \in 1 .. Len(file) : file[i].timestamp \in Int
    <2>1. file \in Seq(BookUpdate) /\ applied \in GridPoints
      BY DEF GridInv, ClockInv
    <2>2. /\ Len(file) \in Nat /\ applied \in 1 .. Len(file) /\ applied \in GroupEnds
          /\ \A i \in 1 .. Len(file) : file[i].timestamp \in Int
      BY <2>1, GroupEndsType
    <2>3. instant = file[applied].timestamp
      BY <2>2 DEF GridInv, ClockInv
    <2> QED BY <2>1, <2>2, <2>3
  <1>2. PICK n \in 0 .. Len(file), time \in Int : n = applied /\ time = instant /\ n \in 1 .. Len(file)
    BY <1>1
  <1>3. n < Len(file) => time < file[n + 1].timestamp
    <2>1. SUFFICES ASSUME n < Len(file) PROVE time < file[n + 1].timestamp
      OBVIOUS
    <2>2. n + 1 \in 1 .. Len(file) /\ n <= n + 1
      BY <1>1, <2>1
    <2>3. file[n].timestamp <= file[n + 1].timestamp
      BY <1>2, <2>2 DEF Forward
    <2>4. file[n + 1].timestamp # file[n].timestamp
      BY <1>1, <1>2, <2>1 DEF GroupEnds
    <2> QED BY <1>1, <1>2, <2>2, <2>3, <2>4
  <1>4. file[n].timestamp <= time
    BY <1>1, <1>2
  <1>5. KnownAt(time) = n
    BY <1>1, <1>3, <1>4, KnownIs
  <1> QED BY <1>1, <1>2, <1>5

\* At a slice they are those applied and those the simulator was given.
LEMMA KnownAtSlice ==
    ASSUME GridInv, AtSample, Forward(Len(file)), NEW updates, NEW last \in Int, ComesNext(updates, applied, last),
           NEW c \in 0 .. Len(updates), NEW time \in Int, instant <= time, time <= last,
           c > 0 => updates[c].timestamp <= time,
           c < Len(updates) => ~ (updates[c + 1].timestamp <= time)
    PROVE  KnownAt(time) = applied + c /\ applied + c \in 0 .. Len(file)
  <1>1. /\ file \in Seq(BookUpdate) /\ applied \in 1 .. Len(file) /\ Len(file) \in Nat
        /\ instant = file[applied].timestamp
        /\ \A i \in 1 .. Len(file) : file[i].timestamp \in Int
    <2>1. file \in Seq(BookUpdate) /\ applied \in 1 .. Len(file)
      BY KnownAtSample DEF GridInv
    <2>2. instant = file[applied].timestamp
      BY <2>1 DEF GridInv, ClockInv
    <2> QED BY <2>1, <2>2, GroupEndsType
  <1>2. PICK e \in applied .. Len(file) :
           /\ updates = SubSeq(file, applied + 1, e)
           /\ \A i \in e + 1 .. Len(file) : last < file[i].timestamp
    BY DEF ComesNext
  <1>3. PICK a \in Nat, b \in Nat, f \in Seq(BookUpdate) :
           a = applied /\ b = e /\ f = file /\ a <= b /\ b <= Len(f) /\ a > 0
    BY <1>1, <1>2
  <1>4. Len(updates) = b - a /\ \A i \in 1 .. b - a : updates[i] = file[a + i]
    <2>1. Len(SubSeq(f, a + 1, b)) = b - a /\ \A i \in 1 .. b - a : SubSeq(f, a + 1, b)[i] = f[a + i]
      BY <1>3, RowsBetween
    <2> QED BY <1>2, <1>3, <2>1
  <1>5. PICK n \in Nat : n = a + c /\ n \in 0 .. Len(file) /\ n \in a .. b /\ n > 0
    BY <1>1, <1>3, <1>4
  <1>6. file[n].timestamp <= time
    <2>1. CASE c = 0
      BY <1>1, <1>3, <1>5, <2>1
    <2>2. CASE c # 0
      <3>1. c \in 1 .. b - a /\ c > 0
        BY <1>3, <1>4, <2>2
      <3> QED BY <1>4, <1>5, <3>1
    <2> QED BY <2>1, <2>2
  <1>7. ASSUME n < Len(file) PROVE time < file[n + 1].timestamp
    <2>1. n + 1 \in 1 .. Len(file) /\ file[n + 1].timestamp \in Int
      BY <1>1, <1>5, <1>7
    <2>2. CASE n < b
      <3>1. c + 1 \in 1 .. b - a /\ c < Len(updates) /\ a + (c + 1) = n + 1
        BY <1>3, <1>4, <1>5, <2>2
      <3>2. updates[c + 1] = file[n + 1] /\ ~ (updates[c + 1].timestamp <= time)
        BY <1>4, <3>1
      <3> QED BY <2>1, <3>2
    <2>3. CASE n = b
      <3>1. n + 1 \in e + 1 .. Len(file)
        BY <1>3, <2>1, <2>3
      <3>2. last < file[n + 1].timestamp
        BY <1>2, <3>1
      <3> QED BY <2>1, <3>2
    <2> QED BY <1>3, <1>5, <2>2, <2>3
  <1>8. KnownAt(time) = n
    BY <1>1, <1>5, <1>6, <1>7, KnownIs
  <1> QED BY <1>3, <1>5, <1>8

\* The rows of the day are what the pipeline accepts.
GoodDay == Forward(Len(file)) /\ ArePriced

\* What the pipeline was given is the market so far, and all of the day in the end.
MarketInv ==
    /\ pc \notin {"returned", "raised"} => IsMarket(replayer, <<>>, 0, replayer.applied)
    /\ AtSample => replayer.applied = applied
    /\ pc \in {"quote", "slicing"} => ReadBeyond \/ ~ MoreGroups
    /\ pc = "returned" => GoodDay

AllOnMarket(slices) == \A j \in 1 .. Len(slices) : IsOnMarket(slices, j)

\* The order in hand has seen the rows up to the instant it is at, and no other.
SlicedInv ==
    /\ order.schedule.start = instant /\ order.schedule.duration = config.duration
    /\ cursor \in 0 .. Len(order.updates)
    /\ cursor > 0 /\ slot <= Slices =>
          order.updates[cursor].timestamp <= SliceTime(order.schedule, slot)
    /\ IsMarket(sim, children, Len(children), applied + cursor)
    /\ \A i \in 1 .. Len(children) : KnownAt(children[i].at) <= applied + cursor
    /\ AllOnMarket(children) /\ AllOnMarket(<<[at |-> instant, fill |-> static]>>)

AreOnMarket(row) == AllOnMarket(Alone(row)) /\ AllOnMarket(row.slices)

FillsInv ==
    /\ MarketInv
    /\ pc = "slicing" /\ sim_phase \in {"running", "returned"} /\ GoodDay => SlicedInv
    /\ GoodDay => \A i \in 1 .. Len(rows) : AreOnMarket(rows[i])

LEMMA SameGoodDay ==
    ASSUME Unchanged
    PROVE  GoodDay' <=> GoodDay
  <1>1. file' = file
    BY DEF Unchanged
  <1> QED BY <1>1, SameMarket DEF GoodDay

LEMMA SameOnMarket ==
    ASSUME Unchanged
    PROVE  \A slices : AllOnMarket(slices)' <=> AllOnMarket(slices)
  BY SameMarket DEF AllOnMarket

LEMMA SameRow ==
    ASSUME Unchanged
    PROVE  \A row : AreOnMarket(row)' <=> AreOnMarket(row)
  <1>1. \A slices : AllOnMarket(slices)' <=> AllOnMarket(slices)
    BY SameOnMarket
  <1>2. \A row : Alone(row)' = Alone(row)
    BY DEF Alone
  <1> QED BY <1>1, <1>2 DEF AreOnMarket

\* A step that samples nothing.
LEMMA SampledAsBefore ==
    ASSUME FillsInv, Unchanged, rows' = rows, MarketInv',
           pc' = "slicing" /\ sim_phase' \in {"running", "returned"} /\ GoodDay => SlicedInv'
    PROVE  FillsInv'
  <1>1. GoodDay' <=> GoodDay
    BY SameGoodDay
  <1>2. \A row : AreOnMarket(row)' <=> AreOnMarket(row)
    BY SameRow
  <1>3. GoodDay => \A i \in 1 .. Len(rows) : AreOnMarket(rows[i])
    BY DEF FillsInv
  <1>4. (GoodDay => \A i \in 1 .. Len(rows) : AreOnMarket(rows[i]))'
    BY <1>1, <1>2, <1>3
  <1> QED BY <1>1, <1>4 DEF FillsInv

\* A step that replays nothing.
LEMMA MarketAsBefore ==
    ASSUME MarketInv, Unchanged, replayer' = replayer, pc \notin {"returned", "raised"}, pc' # "returned",
           AtSample' => applied' = applied /\ AtSample,
           pc' \in {"quote", "slicing"} => (ReadBeyond \/ ~ MoreGroups)'
    PROVE  MarketInv'
  <1>1. IsMarket(replayer, <<>>, 0, replayer.applied)
    BY DEF MarketInv
  <1>2. PICK r, none, m, n : r = replayer /\ none = <<>> /\ m = 0 /\ n = replayer.applied
    OBVIOUS
  <1>3. IsMarket(r, none, m, n) /\ (IsMarket(r, none, m, n)' <=> IsMarket(r, none, m, n))
    BY <1>1, <1>2, SameMarket
  <1>4. IsMarket(replayer, <<>>, 0, replayer.applied)'
    BY <1>2, <1>3
  <1>5. AtSample => replayer.applied = applied
    BY DEF MarketInv
  <1>6. (AtSample => replayer.applied = applied)'
    BY <1>5
  <1> QED BY <1>4, <1>6 DEF MarketInv

LEMMA FillsHoldAtStart == CalibrationInit => FillsInv
  <1> SUFFICES ASSUME CalibrationInit PROVE FillsInv
    OBVIOUS
  <1>1. /\ file \in Seq(BookUpdate) /\ replayer = NewReplayer /\ pc = "loop" /\ Len(rows) = 0
    BY CalibrationAssumption DEF CalibrationInit
  <1>2. replayer.applied = 0
    BY <1>1 DEF NewReplayer
  <1>3. IsMarket(NewReplayer, <<>>, 0, 0)
    BY <1>1, MarketAtFirst
  <1>4. MarketInv
    BY <1>1, <1>2, <1>3 DEF MarketInv, AtSample
  <1> QED BY <1>1, <1>4 DEF FillsInv

LEMMA TakeGroupKeepsFills ==
    ASSUME FillsInv, TakeGroup
    PROVE  FillsInv'
  <1>1. /\ Unchanged /\ rows' = rows /\ replayer' = replayer /\ pc = "loop" /\ pc' \in {"loop", "replay"}
    BY DEF TakeGroup
  <1>2. MarketInv'
    BY <1>1, MarketAsBefore DEF FillsInv, AtSample
  <1> QED BY <1>1, <1>2, SampledAsBefore

LEMMA LookingKeepsFills ==
    ASSUME FillsInv, LookAhead \/ LookedAhead \/ SlicedThrows
    PROVE  FillsInv'
  <1>1. /\ Unchanged /\ rows' = rows /\ replayer' = replayer /\ applied' = applied
        /\ pc \in {"look_ahead", "slicing"} /\ pc' \in {"look_ahead", "quote", "raised"}
    BY DEF LookAhead, LookedAhead, SlicedThrows
  <1>2. pc' \in {"quote", "slicing"} => (ReadBeyond \/ ~ MoreGroups)'
    <2>1. SUFFICES ASSUME LookedAhead PROVE (ReadBeyond \/ ~ MoreGroups)'
      BY DEF LookAhead, SlicedThrows
    <2>2. /\ ReadBeyond \/ ~ MoreGroups
          /\ pending' = pending /\ position' = position /\ instant' = instant /\ file' = file /\ config' = config
      BY <2>1 DEF LookedAhead, Unchanged
    <2> QED BY <2>2 DEF ReadBeyond, MoreGroups, LastSlice
  <1>3. MarketInv'
    BY <1>1, <1>2, MarketAsBefore DEF FillsInv, AtSample
  <1> QED BY <1>1, <1>3, SampledAsBefore

\* The pipeline that took what it was given is the market of the rows taken.
LEMMA MarketUpToDate ==
    ASSUME GridInv, ParentInv, ReplayedInv, MarketInv, pc \notin {"returned", "raised"},
           Replayed(replay_batch).error = NoError
    PROVE  IsMarket(Replayed(replay_batch).replayer, <<>>, 0, applied)
  <1>1. /\ file \in Seq(BookUpdate) /\ SoundReplayer(replayer) /\ applied \in 0 .. Len(file) /\ applied \in Nat
    <2>1. file \in Seq(BookUpdate) /\ applied \in {0} \cup GroupEnds /\ SoundReplayer(replayer)
      BY DEF GridInv, ParentInv
    <2> QED BY <2>1, GroupEndsType
  <1>2. /\ replay_batch = SubSeq(file, replayer.applied + 1, applied)
        /\ replayer.applied <= applied /\ CaughtUp(replayer, replayer.applied)
    BY DEF ReplayedInv
  <1>3. PICK n \in Nat : n = replayer.applied /\ n <= applied /\ IsMarket(replayer, <<>>, 0, n)
    BY <1>2 DEF CaughtUp, MarketInv
  <1>4. PICK e : e = applied /\ e \in n .. Len(file)
    BY <1>1, <1>3
  <1>5. PICK batch : batch = replay_batch
    OBVIOUS
  <1>6. batch = SubSeq(file, n + 1, e) /\ Replayed(batch).error = NoError
    BY <1>2, <1>3, <1>4, <1>5
  <1>7. IsMarket(Replayed(batch).replayer, <<>>, 0, e)
    BY <1>1, <1>3, <1>4, <1>6, BatchIsMarket
  <1> QED BY <1>4, <1>5, <1>7

LEMMA ReplayKeepsFills ==
    ASSUME GridInv, ParentInv, SplitInv, FillsInv, Replay
    PROVE  FillsInv'
  <1>1. /\ Unchanged /\ rows' = rows /\ applied' = applied /\ pc = "replay"
        /\ pc' \in {"raised", "loop", "look_ahead"}
        /\ replayer' = Replayed(replay_batch).replayer
        /\ pc' # "raised" => Replayed(replay_batch).error = NoError
    BY DEF Replay
  <1>2. ASSUME pc' # "raised"
        PROVE  replayer'.applied = applied /\ IsMarket(replayer', <<>>, 0, applied)
    <2>1. CaughtUp(replayer', applied)
      BY <1>1, <1>2, UpToDate DEF SplitInv
    <2>2. IsMarket(replayer', <<>>, 0, applied)
      BY <1>1, <1>2, MarketUpToDate DEF SplitInv, FillsInv
    <2> QED BY <2>1, <2>2 DEF CaughtUp
  <1>3. pc' # "raised" => IsMarket(replayer, <<>>, 0, replayer.applied)'
    <2>1. PICK r, none, m, n : r = replayer' /\ none = <<>> /\ m = 0 /\ n = applied
      OBVIOUS
    <2>2. IsMarket(r, none, m, n)' <=> IsMarket(r, none, m, n)
      BY <1>1, SameMarket
    <2> QED BY <1>2, <2>1, <2>2
  <1>4. MarketInv'
    BY <1>1, <1>2, <1>3 DEF MarketInv, AtSample
  <1> QED BY <1>1, <1>4, SampledAsBefore

LEMMA FinishKeepsFills ==
    ASSUME GridInv, ParentInv, SplitInv, FillsInv, Finish
    PROVE  FillsInv'
  <1>1. /\ Unchanged /\ rows' = rows /\ pc = "loop" /\ pc' \in {"raised", "returned"}
        /\ pending = <<>> /\ ~ MoreGroups
        /\ pc' # "raised" => Replayed(replay_batch).error = NoError
    BY DEF Finish
  <1>2. ASSUME pc' # "raised" PROVE GoodDay'
    <2>1. CaughtUp(Replayed(replay_batch).replayer, applied) /\ applied \in Nat
      BY <1>1, <1>2, UpToDate DEF SplitInv
    <2>2. PICK ends \in [0 .. Len(pending) -> {0} \cup GroupEnds] :
             ends[0] = applied /\ ends[Len(pending)] = position
      BY DEF GridInv, PendingInv
    <2>3. position = applied
      BY <1>1, <2>2
    <2>4. Len(file) \in Nat /\ applied <= Len(file)
      BY <2>1, GroupEndsType DEF GridInv, CaughtUp
    <2>5. applied = Len(file)
      BY <1>1, <2>1, <2>3, <2>4 DEF MoreGroups
    <2>6. IsMarket(Replayed(replay_batch).replayer, <<>>, 0, applied)
      BY <1>1, <1>2, MarketUpToDate DEF SplitInv, FillsInv
    <2>7. GoodDay
      BY <2>1, <2>5, <2>6 DEF IsMarket, GoodDay, ArePriced, CaughtUp
    <2> QED BY <1>1, <2>7, SameGoodDay
  <1>3. MarketInv'
    BY <1>1, <1>2 DEF MarketInv, AtSample
  <1> QED BY <1>1, <1>3, SampledAsBefore

LEMMA OnMarketSame ==
    ASSUME NEW a, NEW b, NEW j \in Nat \ {0}, \A i \in 1 .. j : a[i] = b[i], IsOnMarket(a, j)
    PROVE  IsOnMarket(b, j)
  <1>1. PICK book, x : /\ x \in Nat \ {0} /\ SoundBook(book)
                       /\ IsBookAt(book, a, j - 1, KnownAt(a[j].at)) /\ a[j].fill = Walk(book, config.side, x)
    BY DEF IsOnMarket
  <1>2. PICK m \in Nat : m = j - 1
    BY j - 1 \in Nat
  <1>3. /\ j \in 1 .. j /\ \A i \in 1 .. m : i \in 1 .. j
    BY <1>2
  <1>4. a[j] = b[j] /\ \A i \in 1 .. m : a[i] = b[i]
    BY <1>3
  <1>5. PICK n : n = KnownAt(a[j].at)
    OBVIOUS
  <1>6. IsBookAt(book, a, m, n)
    BY <1>1, <1>2, <1>5
  <1>7. IsBookAt(book, b, m, n)
    BY <1>4, <1>6, SameBook
  <1> QED BY <1>1, <1>2, <1>4, <1>5, <1>7 DEF IsOnMarket

\* A walk over what the rows and the slices so far left.
LEMMA OneOnMarket ==
    ASSUME NEW book, SoundBook(book), NEW slices, NEW m \in Nat, NEW n, IsBookAt(book, slices, m, n),
           NEW x \in Nat \ {0}, NEW more, \A i \in 1 .. m : more[i] = slices[i],
           KnownAt(more[m + 1].at) = n, more[m + 1].fill = Walk(book, config.side, x)
    PROVE  IsOnMarket(more, m + 1)
  <1>1. \A i \in 1 .. m : slices[i] = more[i]
    OBVIOUS
  <1>2. IsBookAt(book, more, m, n)
    BY <1>1, SameBook
  <1>3. PICK j : j = m + 1 /\ j - 1 = m
    OBVIOUS
  <1> QED BY <1>2, <1>3 DEF IsOnMarket

LEMMA OnMarketAreFills ==
    ASSUME NEW slices, AllOnMarket(slices)
    PROVE  AreFills(slices, Len(slices))
  <1> SUFFICES ASSUME NEW i \in 1 .. Len(slices), NEW price \in Int
               PROVE  TakenAt(slices[i].fill, price) \in Int
    BY DEF AreFills
  <1>1. PICK book, x : x \in Nat \ {0} /\ SoundBook(book) /\ slices[i].fill = Walk(book, config.side, x)
    BY DEF AllOnMarket, IsOnMarket
  <1> QED BY <1>1, TakenAtType

\* What is quoted at a sample walks the book of the pipeline.
LEMMA QuotedOnMarket ==
    ASSUME GridInv, ParentInv, MarketInv, AtSample, Forward(Len(file)), NEW fill,
           fill = Walk(replayer.book, config.side, Quantities[size])
    PROVE  AllOnMarket(<<[at |-> instant, fill |-> fill]>>)
  <1>1. KnownAt(instant) = applied
    BY KnownAtSample
  <1>2. PICK x \in Nat \ {0} : x = Quantities[size]
    BY AskedAtSample
  <1>3. IsMarket(replayer, <<>>, 0, applied)
    BY DEF MarketInv, AtSample
  <1>4. PICK book, none, m, n : book = replayer.book /\ none = <<>> /\ m = 0 /\ n = applied
    OBVIOUS
  <1>5. PICK more : more = <<[at |-> instant, fill |-> fill]>>
    OBVIOUS
  <1>6. IsBookAt(book, none, m, n) /\ SoundBook(book)
    BY <1>3, <1>4 DEF IsMarket, ParentInv, SoundReplayer
  <1>7. /\ m \in Nat /\ \A i \in 1 .. m : more[i] = none[i]
        /\ KnownAt(more[m + 1].at) = n /\ more[m + 1].fill = Walk(book, config.side, x)
    BY <1>1, <1>2, <1>4, <1>5
  <1>8. IsOnMarket(more, m + 1)
    BY <1>6, <1>7, OneOnMarket
  <1>9. Len(more) = 1 /\ m + 1 = 1
    BY <1>4, <1>5
  <1>10. \A j \in 1 .. Len(more) : j = m + 1
    BY <1>9
  <1> QED BY <1>5, <1>8, <1>10 DEF AllOnMarket

LEMMA QuoteKeepsFills ==
    ASSUME GridInv, ParentInv, ParentInv', FillsInv, Quote
    PROVE  FillsInv'
  <1>1. /\ Unchanged /\ rows' = rows /\ replayer' = replayer /\ applied' = applied
        /\ pc = "quote" /\ pc' = "slicing" /\ position' = position /\ pending' = pending
        /\ instant' = instant /\ config' = config /\ file' = file
        /\ static' = Walk(replayer.book, config.side, Quantities[size])
        /\ CallSliced(replayer, Future, config.side, Quantities[size], Schedule)
    BY DEF Quote, Unchanged
  <1>2. AtSample /\ MarketInv
    BY <1>1 DEF AtSample, FillsInv
  <1>3. (ReadBeyond \/ ~ MoreGroups)'
    BY <1>1, <1>2 DEF MarketInv, ReadBeyond, MoreGroups, LastSlice
  <1>4. MarketInv'
    BY <1>1, <1>2, <1>3, MarketAsBefore
  <1>5. ASSUME sim_phase' \in {"running", "returned"}, GoodDay PROVE SlicedInv'
    <2>1. /\ order'.schedule = Schedule /\ sim' = replayer /\ children' = <<>> /\ cursor' = 0
      BY <1>1 DEF CallSliced
    <2>2. order'.updates \in Seq(BookUpdate)
      BY <1>1, <1>5 DEF ParentInv, OrderInv
    <2>3. cursor' \in 0 .. Len(order'.updates)
      BY <2>1, <2>2
    <2>4. order'.schedule.start = instant' /\ order'.schedule.duration = config'.duration
      BY <1>1, <2>1 DEF Schedule
    <2>5. IsMarket(sim, children, Len(children), applied + cursor)'
      <3>1. IsMarket(replayer, <<>>, 0, applied)
        BY <1>1, <1>2 DEF MarketInv, AtSample
      <3>2. PICK r, none, m, n : r = replayer /\ none = <<>> /\ m = 0 /\ n = applied
        OBVIOUS
      <3>3. IsMarket(r, none, m, n) /\ (IsMarket(r, none, m, n)' <=> IsMarket(r, none, m, n))
        BY <1>1, <3>1, <3>2, SameMarket
      <3>4. applied \in Nat
        BY GroupEndsType DEF GridInv
      <3>5. r = sim' /\ none = children' /\ m = Len(children)' /\ n = (applied + cursor)'
        BY <1>1, <2>1, <3>2, <3>4
      <3> QED BY <3>3, <3>5
    <2>6. AllOnMarket(<<[at |-> instant, fill |-> static]>>)'
      <3>1. PICK fill : fill = static'
        OBVIOUS
      <3>2. Forward(Len(file))
        BY <1>5 DEF GoodDay
      <3>3. PICK quoted : quoted = <<[at |-> instant, fill |-> fill]>>
        OBVIOUS
      <3>4. AllOnMarket(quoted)
        BY <1>1, <1>2, <3>1, <3>2, <3>3, QuotedOnMarket
      <3>5. AllOnMarket(quoted)'
        BY <1>1, <3>4, SameOnMarket
      <3> QED BY <1>1, <3>1, <3>3, <3>5
    <2>7. Len(children') = 0
      BY <2>1
    <2>8. AllOnMarket(children)' /\ (\A i \in 1 .. Len(children) : KnownAt(children[i].at) <= applied + cursor)'
      BY <2>7 DEF AllOnMarket
    <2> QED BY <2>1, <2>3, <2>4, <2>5, <2>6, <2>8 DEF SlicedInv
  <1> QED BY <1>1, <1>4, <1>5, SampledAsBefore

\* An order in hand at a sample of a day that was accepted.
OrderInHand ==
    /\ GridInv /\ ParentInv /\ MarketInv /\ OrderInv /\ StillInv /\ SlicedInv /\ GoodDay
    /\ pc = "slicing" /\ sim_phase = "running"

\* The arguments of a call and what it is made on.
SameCall ==
    /\ Unchanged /\ config' = config /\ file' = file /\ applied' = applied /\ instant' = instant
    /\ static' = static /\ order' = order

LEMMA InHandFacts ==
    ASSUME OrderInHand
    PROVE  /\ file \in Seq(BookUpdate) /\ Len(file) \in Nat /\ applied \in 1 .. Len(file)
           /\ instant \in Int /\ Forward(Len(file)) /\ order.total \in Nat \ {0}
           /\ ComesNext(order.updates, applied, LastSlice) /\ LastSlice \in Int
           /\ order.updates \in Seq(BookUpdate)
           /\ children \in Seq(SlicedRecords) /\ AreFills(children, Len(children))
           /\ SoundReplayer(sim) /\ Slices \in Nat \ {0} /\ slot \in 1 .. Slices + 1
  <1>1. /\ GridInv /\ ParentInv /\ MarketInv /\ OrderInv /\ StillInv /\ SlicedInv
        /\ Forward(Len(file)) /\ AtSample /\ pc = "slicing"
    BY DEF OrderInHand, GoodDay, AtSample
  <1>2. file \in Seq(BookUpdate) /\ applied \in 1 .. Len(file) /\ instant \in Int /\ Len(file) \in Nat
    BY <1>1, KnownAtSample, GroupEndsType DEF GridInv
  <1>3. ComesNext(order.updates, applied, LastSlice)
    BY <1>1, FutureIsNext DEF MarketInv, StillInv
  <1>4. LastSlice \in Int
    <2>1. config.duration \in Nat
      BY <1>1 DEF GridInv
    <2>2. LastSlice = LastSliceOf(instant)
      BY DEF LastSlice, LastSliceOf
    <2> QED BY <1>2, <2>1, <2>2, LastIsNoEarlier
  <1>5. order.total \in Nat \ {0}
    BY <1>1, AskedAtSample DEF OrderInv
  <1>6. children \in Seq(SlicedRecords)
    BY <1>1 DEF OrderInv, SumsUp
  <1>7. AreFills(children, Len(children))
    BY <1>1, OnMarketAreFills DEF SlicedInv
  <1>8. Slices \in Nat \ {0}
    BY CalibrationAssumption
  <1>9. /\ order.updates \in Seq(BookUpdate) /\ SoundReplayer(sim) /\ slot \in 1 .. Slices + 1
    BY <1>1 DEF OrderInv
  <1> QED BY <1>1, <1>2, <1>3, <1>4, <1>5, <1>6, <1>7, <1>8, <1>9

\* The instant of a slice lies between those of the sample and of the last slice.
LEMMA SlotTime ==
    ASSUME OrderInHand, slot <= Slices
    PROVE  /\ SliceTime(order.schedule, slot) \in Int
           /\ instant <= SliceTime(order.schedule, slot) /\ SliceTime(order.schedule, slot) <= LastSlice
           /\ slot < Slices => SliceTime(order.schedule, slot) <= SliceTime(order.schedule, slot + 1)
  <1>1. /\ order.schedule.start = instant /\ order.schedule.duration = config.duration
        /\ order.schedule.slices = Slices /\ config.duration \in Nat
    BY DEF OrderInHand, SlicedInv, OrderInv, GridInv
  <1>2. instant \in Int /\ Slices \in Nat \ {0} /\ slot \in 1 .. Slices
    BY InHandFacts
  <1>3. PICK schedule, s : schedule = order.schedule /\ s = slot
    OBVIOUS
  <1>4. /\ schedule.start \in Int /\ schedule.duration \in Nat /\ schedule.slices \in Nat \ {0}
        /\ s \in 1 .. schedule.slices /\ schedule.slices = Slices /\ schedule.start = instant
    BY <1>1, <1>2, <1>3
  <1>5. /\ SliceTime(schedule, s) \in Int /\ schedule.start <= SliceTime(schedule, s)
        /\ SliceTime(schedule, s) <= SliceTime(schedule, schedule.slices)
        /\ s < schedule.slices => SliceTime(schedule, s) <= SliceTime(schedule, s + 1)
    BY <1>4, SliceTimes
  <1>6. SliceTime(schedule, schedule.slices) = LastSlice
    BY <1>1, <1>3, <1>4 DEF SliceTime, LastSlice
  <1> QED BY <1>3, <1>4, <1>5, <1>6

\* What the simulator was given comes no later than the slices still to come.
LEMMA PassedStays ==
    ASSUME OrderInHand, cursor > 0, NEW s \in {slot, slot + 1}, s <= Slices
    PROVE  order.updates[cursor].timestamp <= SliceTime(order.schedule, s)
  <1>1. slot \in 1 .. Slices + 1 /\ Slices \in Nat \ {0} /\ order.updates \in Seq(BookUpdate)
    BY InHandFacts
  <1>2. slot <= Slices
    BY <1>1
  <1>3. /\ order.updates[cursor].timestamp <= SliceTime(order.schedule, slot)
        /\ cursor \in 1 .. Len(order.updates)
    BY <1>1, <1>2 DEF OrderInHand, SlicedInv
  <1>4. CASE s = slot
    BY <1>3, <1>4
  <1>5. CASE s = slot + 1
    <2>1. slot < Slices /\ slot + 1 \in 1 .. Slices
      BY <1>1, <1>5
    <2>2. /\ SliceTime(order.schedule, slot) \in Int
          /\ SliceTime(order.schedule, slot) <= SliceTime(order.schedule, slot + 1)
      BY <1>2, <2>1, SlotTime
    <2>3. order.updates[cursor] \in BookUpdate
      BY <1>1, <1>3
    <2>4. SliceTime(order.schedule, slot + 1) \in Int
      <3>1. order.schedule.slices = Slices /\ order.schedule.start \in Int /\ order.schedule.duration \in Nat
        BY DEF OrderInHand, OrderInv
      <3> QED BY <1>1, <2>1, <3>1, SliceTimes
    <2>5. PICK t \in Int, u \in Int, v \in Int :
             /\ t = order.updates[cursor].timestamp /\ u = SliceTime(order.schedule, slot)
             /\ v = SliceTime(order.schedule, slot + 1)
      BY <2>2, <2>3, <2>4 DEF BookUpdate
    <2> QED BY <1>3, <1>5, <2>2, <2>5
  <1> QED BY <1>4, <1>5

LEMMA ApplyDueIsMarket ==
    ASSUME OrderInHand, SameCall, ApplyDue, sim_phase' = "running"
    PROVE  SlicedInv'
  <1>1. /\ SlicedInv /\ HasDue /\ slot' = slot /\ children' = children /\ cursor' = cursor + 1
        /\ sim' = AfterApply(sim, order.updates[cursor + 1])
        /\ ErrorOf(sim, order.updates[cursor + 1]) = NoError
    BY DEF OrderInHand, ApplyDue
  <1>2. /\ Unchanged /\ order' = order /\ applied' = applied /\ instant' = instant
        /\ config' = config /\ static' = static
    BY DEF SameCall
  <1>3. PICK a \in Nat, c \in Nat, m \in Nat : a = applied /\ c = cursor /\ m = Len(children)
    BY <1>1, InHandFacts DEF SlicedInv
  <1>4. PICK e \in a .. Len(file) : order.updates = SubSeq(file, a + 1, e)
    BY <1>3, InHandFacts DEF ComesNext
  <1>5. c < Len(order.updates) /\ order.updates[c + 1].timestamp <= SliceTime(order.schedule, slot)
    BY <1>1, <1>3 DEF HasDue, Due
  <1>6. PICK n \in Nat : n = a + c /\ n < Len(file) /\ order.updates[c + 1] = file[n + 1]
    <2>1. PICK b \in Nat, f \in Seq(BookUpdate) : b = e /\ f = file /\ a <= b /\ b <= Len(f)
      BY <1>3, <1>4, InHandFacts
    <2>2. /\ Len(SubSeq(f, a + 1, b)) = b - a
          /\ \A i \in 1 .. b - a : SubSeq(f, a + 1, b)[i] = f[a + i]
      BY <2>1, RowsBetween
    <2>3. c < b - a /\ c + 1 \in 1 .. b - a /\ a + (c + 1) = (a + c) + 1
      BY <1>4, <1>5, <2>1, <2>2
    <2>4. order.updates[c + 1] = file[a + (c + 1)]
      BY <1>4, <2>1, <2>2, <2>3
    <2> QED BY <2>1, <2>3, <2>4
  <1>7. PICK r, slices : r = sim /\ slices = children
    OBVIOUS
  <1>8. /\ IsMarket(r, slices, m, n) /\ SoundReplayer(r)
        /\ \A i \in 1 .. m : KnownAt(slices[i].at) <= n
    BY <1>1, <1>3, <1>6, <1>7, InHandFacts DEF SlicedInv
  <1>9. IsMarket(AfterApply(r, file[n + 1]), slices, m, n + 1)
    BY <1>1, <1>3, <1>6, <1>7, <1>8, InHandFacts, MarketAfterApply
  <1>10. IsMarket(sim, children, Len(children), applied + cursor)'
    <2>1. PICK new, k : new = AfterApply(r, file[n + 1]) /\ k = n + 1
      OBVIOUS
    <2>2. IsMarket(new, slices, m, k) /\ (IsMarket(new, slices, m, k)' <=> IsMarket(new, slices, m, k))
      BY <1>2, <1>9, <2>1, SameMarket
    <2>3. new = sim' /\ slices = children' /\ m = Len(children)' /\ k = (applied + cursor)'
      BY <1>1, <1>2, <1>3, <1>6, <1>7, <2>1
    <2> QED BY <2>2, <2>3
  <1>11. (\A i \in 1 .. Len(children) : KnownAt(children[i].at) <= applied + cursor)'
    <2>1. \A time : KnownAt(time)' = KnownAt(time) /\ KnownAt(time) \in Int
      <3>1. \A time : KnownAt(time)' = KnownAt(time)
        BY <1>2, SameMarket
      <3>2. file \in Seq(BookUpdate) /\ Len(file) \in Nat
        BY InHandFacts
      <3>3. \A time : KnownAt(time) \in 0 .. Len(file)
        BY <3>2, KnownAtType
      <3> QED BY <3>1, <3>2, <3>3
    <2>2. \A i \in 1 .. m : KnownAt(slices[i].at) <= n + 1
      BY <1>8, <2>1
    <2>3. \A i \in 1 .. m : KnownAt(slices[i].at)' <= n + 1
      BY <2>1, <2>2
    <2>4. children' = slices /\ Len(children') = m /\ applied' + cursor' = n + 1
      BY <1>1, <1>2, <1>3, <1>6, <1>7
    <2> QED BY <2>3, <2>4
  <1>12. AllOnMarket(children)' /\ AllOnMarket(<<[at |-> instant, fill |-> static]>>)'
    <2>1. PICK quoted : quoted = <<[at |-> instant, fill |-> static]>>
      OBVIOUS
    <2>2. AllOnMarket(slices) /\ AllOnMarket(quoted)
      BY <1>1, <1>7, <2>1 DEF SlicedInv
    <2>3. AllOnMarket(slices)' /\ AllOnMarket(quoted)'
      BY <1>2, <2>2, SameOnMarket
    <2> QED BY <1>1, <1>2, <1>7, <2>1, <2>3
  <1>13. /\ order'.schedule.start = instant' /\ order'.schedule.duration = config'.duration
         /\ cursor' \in 0 .. Len(order'.updates)
         /\ order'.updates[cursor'].timestamp <= SliceTime(order'.schedule, slot')
    BY <1>1, <1>2, <1>3, <1>5, InHandFacts DEF SlicedInv
  <1> QED BY <1>10, <1>11, <1>12, <1>13 DEF SlicedInv

LEMMA PassingIsMarket ==
    ASSUME OrderInHand, SameCall, SkipSlot \/ EndOrder
    PROVE  SlicedInv'
  <1>1. /\ SlicedInv /\ children' = children /\ cursor' = cursor /\ sim' = sim
        /\ slot' \in {slot, slot + 1} /\ (slot' # slot => slot <= order.schedule.slices)
    BY DEF OrderInHand, SkipSlot, EndOrder, InSlot
  <1>2. /\ Unchanged /\ order' = order /\ applied' = applied /\ instant' = instant
        /\ config' = config /\ static' = static
    BY DEF SameCall
  <1>3. IsMarket(sim, children, Len(children), applied + cursor)'
    <2>1. PICK r, slices, m, n : r = sim /\ slices = children /\ m = Len(children) /\ n = applied + cursor
      OBVIOUS
    <2>2. IsMarket(r, slices, m, n) /\ (IsMarket(r, slices, m, n)' <=> IsMarket(r, slices, m, n))
      BY <1>1, <1>2, <2>1, SameMarket DEF SlicedInv
    <2>3. r = sim' /\ slices = children' /\ m = Len(children)' /\ n = (applied + cursor)'
      BY <1>1, <1>2, <2>1
    <2> QED BY <2>2, <2>3
  <1>4. (\A i \in 1 .. Len(children) : KnownAt(children[i].at) <= applied + cursor)'
    <2>1. \A time : KnownAt(time)' = KnownAt(time)
      BY <1>2, SameMarket
    <2>2. \A i \in 1 .. Len(children) : KnownAt(children[i].at) <= applied + cursor
      BY <1>1 DEF SlicedInv
    <2> QED BY <1>1, <1>2, <2>1, <2>2
  <1>5. AllOnMarket(children)' /\ AllOnMarket(<<[at |-> instant, fill |-> static]>>)'
    <2>1. PICK quoted, slices : quoted = <<[at |-> instant, fill |-> static]>> /\ slices = children
      OBVIOUS
    <2>2. AllOnMarket(slices) /\ AllOnMarket(quoted)
      BY <1>1, <2>1 DEF SlicedInv
    <2>3. AllOnMarket(slices)' /\ AllOnMarket(quoted)'
      BY <1>2, <2>2, SameOnMarket
    <2> QED BY <1>1, <1>2, <2>1, <2>3
  <1>6. cursor' > 0 /\ slot' <= Slices => order'.updates[cursor'].timestamp <= SliceTime(order'.schedule, slot')
    BY <1>1, <1>2, PassedStays
  <1>7. /\ order'.schedule.start = instant' /\ order'.schedule.duration = config'.duration
        /\ cursor' \in 0 .. Len(order'.updates)
    BY <1>1, <1>2 DEF SlicedInv
  <1> QED BY <1>3, <1>4, <1>5, <1>6, <1>7 DEF SlicedInv

\* A slice takes what the rows up to its instant and the slices before it left.
LEMMA ExecuteSlotIsMarket ==
    ASSUME OrderInHand, SameCall, ExecuteSlot
    PROVE  SlicedInv'
  <1>1. /\ SlicedInv /\ OrderInv /\ InSlot /\ ~ HasDue /\ SlotSize > 0 /\ cursor' = cursor /\ slot' = slot + 1
    BY DEF OrderInHand, ExecuteSlot
  <1>2. /\ Unchanged /\ order' = order /\ applied' = applied /\ instant' = instant
        /\ config' = config /\ static' = static /\ file' = file
    BY DEF SameCall
  <1>3. slot <= Slices /\ slot + 1 \in 1 .. Slices + 1
    BY <1>1, InHandFacts DEF InSlot, OrderInv
  <1>4. PICK x \in Nat \ {0} : x = SlotSize
    BY <1>1, SlotFacts, InHandFacts
  <1>5. PICK time \in Int : time = SliceTime(order.schedule, slot) /\ instant <= time /\ time <= LastSlice
    BY <1>3, SlotTime
  <1>6. PICK book, fill, child :
           /\ book = sim.book /\ fill = Walk(book, config.side, x) /\ child = [at |-> time, fill |-> fill]
    OBVIOUS
  <1>7a. children \in Seq(SlicedRecords) /\ file \in Seq(BookUpdate) /\ LastSlice \in Int
    BY InHandFacts
  <1>7b. PICK m \in Nat : m = Len(children)
    BY <1>7a
  <1>7c. PICK slices \in Seq(SlicedRecords) : slices = children
    BY <1>7a
  <1>7. PICK more : more = Append(slices, child) /\ m = Len(slices) /\ slices = children
    BY <1>7b, <1>7c
  <1>8. /\ sim' = [sim EXCEPT !.book = Depleted(book, config.side, fill)] /\ children' = more
    <2>1. order.side = config.side
      BY <1>1 DEF OrderInv
    <2> QED BY <1>4, <1>5, <1>6, <1>7, <2>1 DEF ExecuteSlot
  <1>9. /\ Len(more) = m + 1 /\ more[m + 1] = child /\ \A i \in 1 .. m : more[i] = slices[i]
    BY <1>7
  <1>10. PICK n : n = applied + cursor /\ KnownAt(time) = n /\ n \in 0 .. Len(file)
    <2>0. PICK last \in Int : last = LastSlice
      BY <1>7a
    <2>1. PICK updates, c : updates = order.updates /\ c = cursor /\ last = LastSlice
      BY <2>0
    <2>2. /\ c \in 0 .. Len(updates) /\ (c > 0 => updates[c].timestamp <= time)
          /\ (c < Len(updates) => ~ (updates[c + 1].timestamp <= time))
      BY <1>1, <1>3, <1>5, <2>1 DEF SlicedInv, HasDue, Due
    <2>3. GridInv /\ AtSample
      BY DEF OrderInHand, AtSample
    <2>4. ComesNext(updates, applied, last) /\ Forward(Len(file)) /\ instant <= time /\ time <= last
      BY <1>5, <2>1, InHandFacts
    <2>5. KnownAt(time) = applied + c /\ applied + c \in 0 .. Len(file)
      BY <2>2, <2>3, <2>4, KnownAtSlice
    <2> QED BY <2>1, <2>5
  <1>11. /\ IsMarket(sim, slices, m, n) /\ AllOnMarket(slices) /\ AreFills(slices, m) /\ SoundBook(book)
         /\ \A i \in 1 .. m : KnownAt(slices[i].at) <= n
    BY <1>1, <1>6, <1>7, <1>10, InHandFacts DEF SlicedInv, SoundReplayer
  <1>12. IsBookAt(book, slices, m, n)
    BY <1>6, <1>11 DEF IsMarket
  <1>13. KnownAt(more[m + 1].at) = n /\ more[m + 1].fill = fill
    BY <1>6, <1>9, <1>10
  <1>14. IsBookAt(Depleted(book, config.side, fill), more, m + 1, n)
    BY <1>6, <1>7a, <1>9, <1>10, <1>11, <1>12, <1>13, MarketAfterDepleted
  <1>15. IsMarket(sim, children, Len(children), applied + cursor)'
    <2>1. PICK new, k, after : /\ after = Depleted(book, config.side, fill)
                               /\ new = [sim EXCEPT !.book = after] /\ k = m + 1
      OBVIOUS
    <2>2. sim \in Replayers
      BY InHandFacts DEF SoundReplayer
    <2>3. new.book = after /\ new.previous_was_snapshot = sim.previous_was_snapshot
      BY <2>1, <2>2 DEF Replayers
    <2>4. IsBookAt(new.book, more, k, n)
      BY <1>14, <2>1, <2>3
    <2>5. IsMarket(new, more, k, n)
      BY <1>11, <2>3, <2>4 DEF IsMarket
    <2>6. IsMarket(new, more, k, n)' <=> IsMarket(new, more, k, n)
      BY <1>2, SameMarket
    <2>7. new = sim' /\ more = children' /\ k = Len(children)' /\ n = (applied + cursor)'
      BY <1>1, <1>2, <1>8, <1>9, <1>10, <2>1
    <2> QED BY <2>5, <2>6, <2>7
  <1>16. (\A i \in 1 .. Len(children) : KnownAt(children[i].at) <= applied + cursor)'
    <2>1. \A t : KnownAt(t)' = KnownAt(t)
      BY <1>2, SameMarket
    <2>2. ASSUME NEW i \in 1 .. m + 1 PROVE KnownAt(more[i].at) <= n
      <3>1. CASE i = m + 1
        BY <1>10, <1>13, <3>1
      <3>2. CASE i # m + 1
        <4>1. i \in 1 .. m
          BY <3>2
        <4> QED BY <1>9, <1>11, <4>1
      <3> QED BY <3>1, <3>2
    <2>3. \A i \in 1 .. m + 1 : KnownAt(more[i].at)' <= n
      BY <2>1, <2>2
    <2>4. children' = more /\ Len(children') = m + 1 /\ applied' + cursor' = n
      BY <1>1, <1>2, <1>8, <1>9, <1>10
    <2> QED BY <2>3, <2>4
  <1>17. AllOnMarket(more)
    <2>1. IsOnMarket(more, m + 1)
      BY <1>6, <1>9, <1>11, <1>12, <1>13, OneOnMarket
    <2>2. ASSUME NEW j \in 1 .. m PROVE IsOnMarket(more, j)
      <3>1. IsOnMarket(slices, j)
        BY <1>7, <1>11 DEF AllOnMarket
      <3>2. j \in Nat \ {0} /\ \A i \in 1 .. j : i \in 1 .. m
        OBVIOUS
      <3>3. \A i \in 1 .. j : slices[i] = more[i]
        BY <1>9, <3>2
      <3> QED BY <3>1, <3>2, <3>3, OnMarketSame
    <2>3. \A j \in 1 .. m + 1 : j \in 1 .. m \/ j = m + 1
      OBVIOUS
    <2> QED BY <1>9, <2>1, <2>2, <2>3 DEF AllOnMarket
  <1>18. AllOnMarket(children)' /\ AllOnMarket(<<[at |-> instant, fill |-> static]>>)'
    <2>1. PICK quoted : quoted = <<[at |-> instant, fill |-> static]>>
      OBVIOUS
    <2>2. AllOnMarket(more) /\ AllOnMarket(quoted)
      BY <1>1, <1>17, <2>1 DEF SlicedInv
    <2>3. AllOnMarket(more)' /\ AllOnMarket(quoted)'
      BY <1>2, <2>2, SameOnMarket
    <2> QED BY <1>2, <1>8, <2>1, <2>3
  <1>19. cursor' > 0 /\ slot' <= Slices => order'.updates[cursor'].timestamp <= SliceTime(order'.schedule, slot')
    BY <1>1, <1>2, PassedStays
  <1>20. /\ order'.schedule.start = instant' /\ order'.schedule.duration = config'.duration
         /\ cursor' \in 0 .. Len(order'.updates)
    BY <1>1, <1>2 DEF SlicedInv
  <1> QED BY <1>15, <1>16, <1>18, <1>19, <1>20 DEF SlicedInv

LEMMA SimNextKeepsFills ==
    ASSUME GridInv, ParentInv, SplitInv, FillsInv, pc = "slicing", SimNext,
           UNCHANGED <<file, config, position, pending, replay_batch, replayer, applied, threshold,
                       instant, size, static, rows, pc>>
    PROVE  FillsInv'
  <1>1. /\ Unchanged /\ config' = config /\ rows' = rows /\ replayer' = replayer /\ pc' = pc
        /\ applied' = applied /\ static' = static /\ position' = position /\ file' = file
        /\ pending' = pending /\ instant' = instant /\ order' = order
    BY DEF Unchanged, SimNext, ApplyDue, SkipSlot, ExecuteSlot, EndOrder
  <1>2. sim_phase = "running" /\ AtSample
    BY DEF SimNext, ApplyDue, SkipSlot, ExecuteSlot, EndOrder, InSlot, AtSample
  <1>3. MarketInv'
    <2>1. (ReadBeyond \/ ~ MoreGroups)'
      BY <1>1 DEF FillsInv, MarketInv, ReadBeyond, MoreGroups, LastSlice
    <2> QED BY <1>1, <1>2, <2>1, MarketAsBefore DEF FillsInv
  <1>4. ASSUME sim_phase' \in {"running", "returned"}, GoodDay PROVE SlicedInv'
    <2>1. OrderInHand
      BY <1>2, <1>4 DEF OrderInHand, ParentInv, SplitInv, FillsInv
    <2>2. SameCall
      BY <1>1 DEF SameCall
    <2>3. CASE ApplyDue
      <3>1. sim_phase' = "running"
        BY <1>4, <2>3 DEF ApplyDue
      <3> QED BY <2>1, <2>2, <2>3, <3>1, ApplyDueIsMarket
    <2>4. CASE SkipSlot \/ EndOrder
      BY <2>1, <2>2, <2>4, PassingIsMarket
    <2>5. CASE ExecuteSlot
      BY <2>1, <2>2, <2>5, ExecuteSlotIsMarket
    <2> QED BY <2>3, <2>4, <2>5 DEF SimNext
  <1> QED BY <1>1, <1>3, <1>4, SampledAsBefore

LEMMA RecordKeepsFills ==
    ASSUME GridInv, FillsInv, Record
    PROVE  FillsInv'
  <1>1. PICK row : row = [event_count |-> applied, timestamp |-> instant, size |-> size,
                          static |-> static, sliced |-> parent, slices |-> children]
    OBVIOUS
  <1>2. /\ pc = "slicing" /\ sim_phase = "returned" /\ pc' \in {"quote", "loop"}
        /\ rows' = Append(rows, row) /\ Unchanged /\ file' = file /\ config' = config
        /\ replayer' = replayer /\ applied' = applied /\ pending' = pending
        /\ position' = position /\ instant' = instant
    BY <1>1 DEF Record, Unchanged
  <1>3. MarketInv'
    <2>1. (ReadBeyond \/ ~ MoreGroups)'
      BY <1>2 DEF FillsInv, MarketInv, ReadBeyond, MoreGroups, LastSlice
    <2> QED BY <1>2, <2>1, MarketAsBefore DEF FillsInv, AtSample
  <1>4. GoodDay => AreOnMarket(row)
    <2>1. Alone(row) = <<[at |-> instant, fill |-> static]>> /\ row.slices = children
      BY <1>1 DEF Alone
    <2>2. GoodDay => AllOnMarket(children) /\ AllOnMarket(<<[at |-> instant, fill |-> static]>>)
      BY <1>2 DEF FillsInv, SlicedInv
    <2> QED BY <2>1, <2>2 DEF AreOnMarket
  <1>5. PICK n \in Nat : n = Len(rows)
    BY DEF GridInv, RowsInv
  <1>6. Len(rows') = n + 1 /\ rows'[n + 1] = row /\ \A i \in 1 .. n : rows'[i] = rows[i]
    <2>1. rows \in Seq(Range(rows))
      BY DEF GridInv, RowsInv
    <2> QED BY <1>2, <1>5, <2>1
  <1>7. GoodDay => \A i \in 1 .. n + 1 : AreOnMarket(rows'[i])
    <2>1. GoodDay => \A i \in 1 .. n : AreOnMarket(rows[i])
      BY <1>5 DEF FillsInv
    <2>2. \A i \in 1 .. n + 1 : i \in 1 .. n \/ i = n + 1
      BY <1>5
    <2> QED BY <1>4, <1>6, <2>1, <2>2
  <1>8. (GoodDay => \A i \in 1 .. Len(rows) : AreOnMarket(rows[i]))'
    <2>1. PICK sampled : sampled = rows'
      OBVIOUS
    <2>2. GoodDay => \A i \in 1 .. Len(sampled) : AreOnMarket(sampled[i])
      BY <1>6, <1>7, <2>1
    <2>3. GoodDay' => \A i \in 1 .. Len(sampled) : AreOnMarket(sampled[i])'
      BY <1>2, <2>2, SameGoodDay, SameRow
    <2> QED BY <2>1, <2>3
  <1>9. pc' # "slicing"
    BY <1>2
  <1> QED BY <1>3, <1>8, <1>9 DEF FillsInv

LEMMA StayingKeepsFills ==
    ASSUME FillsInv, UNCHANGED calibrationVars
    PROVE  FillsInv'
  <1>1. /\ file' = file /\ config' = config /\ rows' = rows /\ replayer' = replayer
        /\ pc' = pc /\ order' = order /\ sim_phase' = sim_phase /\ sim' = sim /\ cursor' = cursor
        /\ slot' = slot /\ children' = children /\ applied' = applied /\ static' = static
        /\ pending' = pending /\ position' = position /\ instant' = instant
    BY DEF calibrationVars, simVars
  <1>2. Unchanged
    BY <1>1 DEF Unchanged
  <1>3. MarketInv'
    <2>1. CASE pc \in {"returned", "raised"}
      <3>1. GoodDay' <=> GoodDay
        BY <1>2, SameGoodDay
      <3> QED BY <1>1, <2>1, <3>1 DEF FillsInv, MarketInv, AtSample
    <2>2. CASE pc \notin {"returned", "raised"}
      <3>1. pc' \in {"quote", "slicing"} => (ReadBeyond \/ ~ MoreGroups)'
        BY <1>1 DEF FillsInv, MarketInv, ReadBeyond, MoreGroups, LastSlice
      <3>2. AtSample' => applied' = applied /\ AtSample
        BY <1>1 DEF AtSample
      <3> QED BY <1>1, <1>2, <2>2, <3>1, <3>2, MarketAsBefore DEF FillsInv
    <2> QED BY <2>1, <2>2
  <1>4. ASSUME SlicedInv PROVE SlicedInv'
    <2>1. IsMarket(sim, children, Len(children), applied + cursor)'
      <3>1. PICK r, slices, m, n : r = sim /\ slices = children /\ m = Len(children) /\ n = applied + cursor
        OBVIOUS
      <3>2. IsMarket(r, slices, m, n) /\ (IsMarket(r, slices, m, n)' <=> IsMarket(r, slices, m, n))
        BY <1>2, <1>4, <3>1, SameMarket DEF SlicedInv
      <3>3. r = sim' /\ slices = children' /\ m = Len(children)' /\ n = (applied + cursor)'
        BY <1>1, <3>1
      <3> QED BY <3>2, <3>3
    <2>2. (\A i \in 1 .. Len(children) : KnownAt(children[i].at) <= applied + cursor)'
      <3>1. \A time : KnownAt(time)' = KnownAt(time)
        BY <1>2, SameMarket
      <3> QED BY <1>1, <1>4, <3>1 DEF SlicedInv
    <2>3. AllOnMarket(children)' /\ AllOnMarket(<<[at |-> instant, fill |-> static]>>)'
      <3>1. PICK quoted, slices : quoted = <<[at |-> instant, fill |-> static]>> /\ slices = children
        OBVIOUS
      <3>2. AllOnMarket(slices)' /\ AllOnMarket(quoted)'
        BY <1>2, <1>4, <3>1, SameOnMarket DEF SlicedInv
      <3> QED BY <1>1, <3>1, <3>2
    <2> QED BY <1>1, <1>4, <2>1, <2>2, <2>3 DEF SlicedInv
  <1>5. pc' = "slicing" /\ sim_phase' \in {"running", "returned"} /\ GoodDay => SlicedInv'
    BY <1>1, <1>4 DEF FillsInv
  <1> QED BY <1>1, <1>2, <1>3, <1>5, SampledAsBefore

(* What the pipeline replayed is the market of the rows it was given; an   *)
(* order in hand has been given the rows up to the slice it is at and none *)
(* later, and its book is what these and its own slices leave; each fill   *)
(* walked such a book (sample_rows, simulate_sliced_execution_from_state,  *)
(* execute_market_order).                                                  *)
THEOREM FillsInvariant == CalibrationSpec => []FillsInv
  <1>1. CalibrationInit => FillsInv
    BY FillsHoldAtStart
  <1>2. GridInv /\ ParentInv /\ ParentInv' /\ SplitInv /\ FillsInv /\ [CalibrationNext]_calibrationVars
          => FillsInv'
    <2> SUFFICES ASSUME GridInv, ParentInv, ParentInv', SplitInv, FillsInv,
                        [CalibrationNext]_calibrationVars
                 PROVE  FillsInv'
      OBVIOUS
    <2>1. CASE TakeGroup
      BY <2>1, TakeGroupKeepsFills
    <2>2. CASE Replay
      BY <2>2, ReplayKeepsFills
    <2>3. CASE Finish
      BY <2>3, FinishKeepsFills
    <2>4. CASE LookAhead \/ LookedAhead \/ SlicedThrows
      BY <2>4, LookingKeepsFills
    <2>5. CASE Quote
      BY <2>5, QuoteKeepsFills
    <2>6. CASE Record
      BY <2>6, RecordKeepsFills
    <2>7. CASE /\ pc = "slicing" /\ SimNext
               /\ UNCHANGED <<file, config, position, pending, replay_batch, replayer, applied, threshold,
                              instant, size, static, rows, pc>>
      BY <2>7, SimNextKeepsFills
    <2>8. CASE UNCHANGED calibrationVars
      BY <2>8, StayingKeepsFills
    <2> QED BY <2>1, <2>2, <2>3, <2>4, <2>5, <2>6, <2>7, <2>8 DEF CalibrationNext
  <1> QED BY <1>1, <1>2, GridInvariant, ParentInvariant, SplitInvariant, PTL DEF CalibrationSpec

(* Whatever the day and the orders, every fill, at once or in a slice, is  *)
(* the best execution on what the day's events say up to its own instant,  *)
(* and takes nothing an earlier slice of the order took and the market has *)
(* not restated since ("No look-ahead", D-023).                            *)
THEOREM FillsAreAlwaysThoseOfTheMarket == CalibrationSpec => []FillsAreThoseOfTheMarket
  <1>1. GridInv /\ FillsInv => FillsAreThoseOfTheMarket
    <2> SUFFICES ASSUME GridInv, FillsInv, pc = "returned", NEW i \in 1 .. Len(rows)
                 PROVE  /\ IsBestExecution(Alone(rows[i]), 1)
                        /\ \A j \in 1 .. Len(rows[i].slices) : IsBestExecution(rows[i].slices, j)
      BY DEF FillsAreThoseOfTheMarket
    <2>1. GoodDay /\ file \in Seq(BookUpdate)
      BY DEF FillsInv, MarketInv, GridInv
    <2>2. AllOnMarket(Alone(rows[i])) /\ AllOnMarket(rows[i].slices) /\ ArePriced
      BY <2>1 DEF FillsInv, AreOnMarket, GoodDay
    <2>3. ASSUME NEW slices, AllOnMarket(slices), NEW j \in 1 .. Len(slices)
          PROVE  IsBestExecution(slices, j)
      <3>1. \A k \in 1 .. j : k \in 1 .. Len(slices)
        OBVIOUS
      <3>2. j \in Nat \ {0} /\ \A k \in 1 .. j : IsOnMarket(slices, k)
        BY <2>3, <3>1 DEF AllOnMarket
      <3> QED BY <2>1, <2>2, <3>2, OnMarketIsBest
    <2>4. 1 \in 1 .. Len(Alone(rows[i]))
      BY DEF Alone
    <2> QED BY <2>2, <2>3, <2>4
  <1> QED BY <1>1, GridInvariant, FillsInvariant, PTL
==============================================================================
