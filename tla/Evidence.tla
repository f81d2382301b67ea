------------------------------ MODULE Evidence ------------------------------
(***************************************************************************)
(* What ties a calibration to the data it was made from: the replay report *)
(* of a book (python/perpcarry/tools/validate_book.py), the inventory of   *)
(* the corpus (tools/corpus_inventory.py), the generation of a day's       *)
(* calibration (models/calibration_dataset.py) and its admission to a fit  *)
(* (load_calibration in models/impact_model.py).  Each is a program of its *)
(* own that may be killed or run again at any time, while the ingestion    *)
(* replaces partitions; they share nothing but files and no lock.          *)
(*                                                                         *)
(* A version stands for the fingerprint of a partition.  The fragments of  *)
(* trades have random names, a book is one file of a fixed name: storing   *)
(* the same bytes of a book again is no change here, and contents that     *)
(* change and later change back are left out.                              *)
(***************************************************************************)
EXTENDS CorpusChecks

CONSTANTS Day,           \* the day that is calibrated
          AdvDays,       \* Config.adv_days
          VenueTrades,   \* what was traded on each day
          Contents,      \* what the ingestion may store in a partition
          Initial,       \* what may be stored at the beginning
          MaxVersions,   \* bound: partitions replaced after the beginning
          MaxInventories, \* bound: runs of the inventory
          InventoryOptions, \* bound: the options it is run with
          Overlaps       \* bound: the sets of tools that may run at the same time

ASSUME EvidenceAssumption ==
    /\ Day \in FirstsOfMonth /\ AdvDays \in Nat \ {0} /\ Day - AdvDays .. Day \subseteq Days
    /\ {MaxVersions, MaxInventories} \subseteq Nat
    /\ DOMAIN Contents \subseteq Partitions
    /\ \A p \in DOMAIN Contents : \A contents \in Contents[p] : contents.present

VARIABLES disk,          \* each partition: its version, 0 when it is not there, and contents
          versions,      \* the last version there is
          book_report,   \* reports/book-SYMBOL-DAY.json
          volume_report, \* reports/volume.json
          corpus_report, \* reports/corpus.json
          calibration,   \* part-0.parquet of the day: what its rows were sampled from
          manifest,      \* and manifest.json
          replay,        \* validate_book: its state
          inventory, inventories, \* corpus_inventory: its state, and its runs so far
          generator,     \* generate: its state
          loader         \* load_calibration: its state

files == <<book_report, volume_report, corpus_report, calibration, manifest>>
evidenceVars == <<disk, versions, files, replay, inventory, inventories, generator, loader>>

Nothing == [kind |-> "nothing"]
\* a file that is being written, or whose writer was killed
Torn == [kind |-> "torn"]
Idle == [pc |-> "idle"]

EvidenceInit ==
    /\ disk \in {[p \in Partitions |->
                     [version |-> IF corpus[p].present THEN 1 ELSE 0, contents |-> corpus[p]]]
                    : corpus \in Initial}
    /\ versions = 1
    /\ book_report = Nothing /\ volume_report = Nothing /\ corpus_report = Nothing
    /\ calibration = Nothing /\ manifest = Nothing
    /\ replay = Idle /\ inventory = Idle /\ inventories = 0 /\ generator = Idle /\ loader = Idle

Version(p) == disk[p].version
TheBook == {<<"book", Day>>, <<"book_snapshot", Day>>}
TradesNeeded == {<<"trades", d>> : d \in Day - AdvDays .. Day}
AdvWindow == {p \in TradesNeeded : p[2] < Day}
Required == TradesNeeded \cup {<<"book", Day>>}

Running ==
    {t \in {"replay"} : replay # Idle} \cup {t \in {"inventory"} : inventory # Idle}
    \cup {t \in {"generator"} : generator # Idle} \cup {t \in {"loader"} : loader # Idle}

MayStart(tool) == tool \notin Running /\ Running \cup {tool} \in Overlaps
------------------------------------------------------------------------------
\* write_parquet and the ingestion of a book delete what is stored and write
\* anew; they may be killed in between
Clear ==
    /\ versions <= MaxVersions
    /\ \E p \in DOMAIN Contents :
          disk' = [disk EXCEPT ![p] = [version |-> 0, contents |-> Absent]]
    /\ versions' = versions + 1
    /\ UNCHANGED <<files, replay, inventory, inventories, generator, loader>>

Store ==
    /\ \E p \in DOMAIN Contents : \E contents \in Contents[p] :
          /\ Version(p) = 0
          /\ disk' = [disk EXCEPT ![p] = [version |-> versions, contents |-> contents]]
    /\ UNCHANGED <<versions, files, replay, inventory, inventories, generator, loader>>
------------------------------------------------------------------------------
\* the C++ validator on what was exported
Replays(book, snapshots) == book.image = snapshots.image

\* validate_book: a fingerprint before the export and one after the replay
ReplayStarts ==
    /\ MayStart("replay")
    /\ replay' = [pc |-> "export", before |-> [p \in TheBook |-> Version(p)]]
    /\ UNCHANGED <<disk, versions, files, inventory, inventories, generator, loader>>

\* a partition that is not there ends it
ReplayExports ==
    /\ replay.pc = "export"
    /\ replay' = IF \E p \in TheBook : Version(p) = 0 THEN Idle
                 ELSE [pc |-> "report", before |-> replay.before,
                       passed |-> Replays(disk[<<"book", Day>>].contents,
                                          disk[<<"book_snapshot", Day>>].contents)]
    /\ UNCHANGED <<disk, versions, files, inventory, inventories, generator, loader>>

ReplayHolds(after) == replay.passed /\ replay.before = after

ReplayReports ==
    /\ replay.pc = "report"
    /\ LET after == [p \in TheBook |-> Version(p)]
       IN  replay' = [pc |-> "write", report |-> [kind |-> "replay", input |-> after,
                                                  passed |-> ReplayHolds(after)]]
    /\ book_report' = Torn
    /\ UNCHANGED <<disk, versions, volume_report, corpus_report, calibration, manifest, inventory,
                   inventories, generator, loader>>

ReplayWrites ==
    /\ replay.pc = "write"
    /\ book_report' = replay.report /\ replay' = Idle
    /\ UNCHANGED <<disk, versions, volume_report, corpus_report, calibration, manifest, inventory,
                   inventories, generator, loader>>
------------------------------------------------------------------------------
\* trades_only writes volume.json, which a later run may be given to reuse
InventoryStarts ==
    /\ MayStart("inventory") /\ inventories < MaxInventories
    /\ \E options \in InventoryOptions :
          /\ options.reuse => ~options.reconcile /\ ~options.trades_only
                              /\ volume_report \notin {Nothing, Torn}
          /\ inventory' = [pc |-> "hash", reconcile |-> options.reconcile,
                           trades_only |-> options.trades_only,
                           volume |-> IF options.reuse THEN volume_report ELSE Nothing,
                           next |-> 1, entries |-> [p \in Partitions |-> 0],
                           read |-> [p \in Partitions |-> Absent]]
    /\ inventories' = inventories + 1
    /\ UNCHANGED <<disk, versions, files, replay, generator, loader>>

\* the partitions there may be, in the order of datasets and days
Order(trades_only) ==
    LET days(s) == SelectSeq([i \in 1 .. Cardinality(Days) |-> <<s, Min(Days) + i - 1>>],
                             LAMBDA p : p \in DOMAIN Contents)
    IN  IF trades_only THEN days("trades")
        ELSE days("trades") \o days("book") \o days("book_snapshot")

\* one partition after the other
Advance(pc, then) ==
    IF inventory.next < Len(Order(inventory.trades_only))
    THEN [next |-> inventory.next + 1, pc |-> pc] ELSE [next |-> 1, pc |-> then]

InventoryHashes ==
    /\ inventory.pc = "hash"
    /\ LET p == Order(inventory.trades_only)[inventory.next]
       IN  inventory' = [inventory EXCEPT !.entries[p] = Version(p),
                                          !.next = Advance("hash", "read").next,
                                          !.pc = Advance("hash", "read").pc]
    /\ UNCHANGED <<disk, versions, files, replay, inventories, generator, loader>>

\* the checks read the partitions again, later
InventoryReads ==
    /\ inventory.pc = "read"
    /\ LET p == Order(inventory.trades_only)[inventory.next]
       IN  inventory' = [inventory EXCEPT !.read[p] = disk[p].contents,
                                          !.next = Advance("read", "check").next,
                                          !.pc = Advance("read", "check").pc]
    /\ UNCHANGED <<disk, versions, files, replay, inventories, generator, loader>>

IsVolume(result) == result.check = "volume_reconciliation"

Results == Validate(inventory.read, inventory.reconcile, inventory.trades_only)

\* the volume report is of the same trades, all of them
VolumeIsReusable ==
    /\ \A d \in Days : inventory.entries[<<"trades", d>>] = inventory.volume.entries[<<"trades", d>>]
    /\ {d \in Days : inventory.entries[<<"trades", d>>] # 0}
           = {r.day : r \in {s \in inventory.volume.results : IsVolume(s) /\ ~s.skipped}}

InventoryChecks ==
    /\ inventory.pc = "check"
    /\ IF inventory.volume # Nothing /\ ~VolumeIsReusable
       THEN inventory' = Idle /\ UNCHANGED <<volume_report, corpus_report>>
       ELSE /\ inventory' =
                  [pc |-> "write", trades_only |-> inventory.trades_only,
                   report |-> [kind |-> "quality", entries |-> inventory.entries,
                               results |-> IF inventory.volume = Nothing THEN Results
                                           ELSE {r \in Results : ~IsVolume(r)}
                                                \cup {r \in inventory.volume.results : IsVolume(r)}]]
            /\ IF inventory.trades_only THEN volume_report' = Torn /\ UNCHANGED corpus_report
               ELSE corpus_report' = Torn /\ UNCHANGED volume_report
    /\ UNCHANGED <<disk, versions, book_report, calibration, manifest, replay, inventories, generator,
                   loader>>

InventoryWrites ==
    /\ inventory.pc = "write"
    /\ IF inventory.trades_only THEN volume_report' = inventory.report /\ UNCHANGED corpus_report
       ELSE corpus_report' = inventory.report /\ UNCHANGED volume_report
    /\ inventory' = Idle
    /\ UNCHANGED <<disk, versions, book_report, calibration, manifest, replay, inventories, generator,
                   loader>>
------------------------------------------------------------------------------
\* verified_inputs: the replay passed and is of the book as it is stored
ReplayVerified ==
    /\ book_report.kind = "replay" /\ book_report.passed
    /\ \A p \in TheBook : Version(p) # 0 /\ Version(p) = book_report.input[p]

ResultsOn(p) ==
    {r \in corpus_report.results : r.dataset = p[1] /\ r.day \in {0, p[2]}}

\* the inventory is of the partition as it is stored, and nothing failed on it
Verified(p) ==
    /\ corpus_report.entries[p] # 0 /\ Version(p) = corpus_report.entries[p]
    /\ \A r \in ResultsOn(p) : r.passed \/ r.skipped
    /\ p[1] = "trades" => \E r \in ResultsOn(p) :
                             IsVolume(r) /\ r.day = p[2] /\ r.passed /\ ~r.skipped

InputsVerified ==
    /\ ReplayVerified
    /\ corpus_report.kind = "quality"
    /\ \A p \in Required : Verified(p)

VerifiedInputs == [entries |-> [p \in Required |-> corpus_report.entries[p]], replay |-> book_report]

\* generate begins with the ADV, before anything is verified
GeneratorStarts ==
    /\ MayStart("generator")
    /\ Version(<<"book", Day>>) # 0 /\ \A p \in AdvWindow : Version(p) # 0
    /\ generator' = [pc |-> "verify", adv |-> [p \in AdvWindow |-> Version(p)]]
    /\ UNCHANGED <<disk, versions, files, replay, inventory, inventories, loader>>

GeneratorVerifies ==
    /\ generator.pc = "verify"
    /\ generator' = IF InputsVerified
                    THEN [pc |-> "sample", adv |-> generator.adv, inputs |-> VerifiedInputs]
                    ELSE Idle
    /\ UNCHANGED <<disk, versions, files, replay, inventory, inventories, loader>>

\* sample_rows reads the book
GeneratorSamples ==
    /\ generator.pc = "sample"
    /\ generator' = IF Version(<<"book", Day>>) = 0 THEN Idle
                    ELSE [pc |-> "replace", inputs |-> generator.inputs,
                          rows |-> [kind |-> "rows", book |-> Version(<<"book", Day>>),
                                    adv |-> generator.adv]]
    /\ UNCHANGED <<disk, versions, files, replay, inventory, inventories, loader>>

\* the rows are replaced at once, the manifest later and not at once
GeneratorReplaces ==
    /\ generator.pc = "replace"
    /\ calibration' = generator.rows
    /\ generator' = [pc |-> "hash", inputs |-> generator.inputs]
    /\ UNCHANGED <<disk, versions, book_report, volume_report, corpus_report, manifest, replay,
                   inventory, inventories, loader>>

GeneratorHashes ==
    /\ generator.pc = "hash"
    /\ generator' = [pc |-> "write", manifest |-> [kind |-> "manifest", inputs |-> generator.inputs,
                                                   output |-> calibration]]
    /\ manifest' = Torn
    /\ UNCHANGED <<disk, versions, book_report, volume_report, corpus_report, calibration, replay,
                   inventory, inventories, loader>>

GeneratorWrites ==
    /\ generator.pc = "write"
    /\ manifest' = generator.manifest /\ generator' = Idle
    /\ UNCHANGED <<disk, versions, book_report, volume_report, corpus_report, calibration, replay,
                   inventory, inventories, loader>>
------------------------------------------------------------------------------
\* load_calibration: the manifest is intact and of these rows
LoaderStarts ==
    /\ MayStart("loader")
    /\ manifest.kind = "manifest"
    /\ calibration = manifest.output
    /\ loader' = [pc |-> "verify", manifest |-> manifest]
    /\ UNCHANGED <<disk, versions, files, replay, inventory, inventories, generator>>

\* fault: that the inputs verify is enough, whichever they are
AnyVerifiedInputs == InputsVerified

\* the inputs still verify, and are those of the manifest; what is stored
\* then is kept for the properties
SameVerifiedInputs == InputsVerified /\ VerifiedInputs = loader.manifest.inputs

LoaderVerifies ==
    /\ loader.pc = "verify"
    /\ loader' = IF SameVerifiedInputs
                 THEN [pc |-> "read", manifest |-> loader.manifest, stored |-> disk] ELSE Idle
    /\ UNCHANGED <<disk, versions, files, replay, inventory, inventories, generator>>

LoaderReads ==
    /\ loader.pc = "read"
    /\ loader' = [pc |-> "confirm", manifest |-> loader.manifest, stored |-> loader.stored,
                  rows |-> calibration]
    /\ UNCHANGED <<disk, versions, files, replay, inventory, inventories, generator>>

LoaderConfirms ==
    /\ loader.pc = "confirm"
    /\ loader' = IF calibration = loader.manifest.output /\ manifest = loader.manifest
                 THEN [loader EXCEPT !.pc = "admitted"] ELSE Idle
    /\ UNCHANGED <<disk, versions, files, replay, inventory, inventories, generator>>

LoaderDone ==
    /\ loader.pc = "admitted"
    /\ loader' = Idle
    /\ UNCHANGED <<disk, versions, files, replay, inventory, inventories, generator>>

\* a tool is killed, wherever it is
Killed ==
    /\ \/ replay # Idle /\ replay' = Idle /\ UNCHANGED <<inventory, generator, loader>>
       \/ inventory # Idle /\ inventory' = Idle /\ UNCHANGED <<replay, generator, loader>>
       \/ generator # Idle /\ generator' = Idle /\ UNCHANGED <<replay, inventory, loader>>
    /\ UNCHANGED <<disk, versions, files, inventories>>

EvidenceNext ==
    \/ Clear \/ Store
    \/ ReplayStarts \/ ReplayExports \/ ReplayReports \/ ReplayWrites
    \/ InventoryStarts \/ InventoryHashes \/ InventoryReads \/ InventoryChecks \/ InventoryWrites
    \/ GeneratorStarts \/ GeneratorVerifies \/ GeneratorSamples \/ GeneratorReplaces
    \/ GeneratorHashes \/ GeneratorWrites
    \/ LoaderStarts \/ LoaderVerifies \/ LoaderReads \/ LoaderConfirms \/ LoaderDone
    \/ Killed

EvidenceSpec == EvidenceInit /\ [][EvidenceNext]_evidenceVars
------------------------------------------------------------------------------
Admitted == loader.pc = "admitted"

(* Rows that are admitted to a fit were sampled from the very book that    *)
(* was stored, replayed and checked when their inputs were verified: no    *)
(* kill between the rows and their manifest, no partition replaced under a *)
(* running tool and no report of an earlier book lets others in            *)
(* (generate, verified_inputs, load_calibration).                          *)
AdmittedRowsAreOfTheVerifiedBook ==
    Admitted =>
        /\ loader.rows.book = loader.stored[<<"book", Day>>].version
        /\ Replays(loader.stored[<<"book", Day>>].contents,
                   loader.stored[<<"book_snapshot", Day>>].contents)
        /\ loader.stored[<<"book", Day>>].contents.sane

(* The trades an admitted day rests on, its own and those of its ADV, are  *)
(* the venue's: every one of them, once.  No single check sees that; rows  *)
(* lost and rows doubled may balance, and a volume may have been           *)
(* reconciled in an earlier run (validate_data, corpus_inventory).         *)
AdmittedTradesAreThoseOfTheVenue ==
    Admitted =>
        \A p \in TradesNeeded :
            LET rows == loader.stored[p].contents.rows
            IN  /\ Range(rows) = Range(VenueTrades[p[2]])
                /\ Len(rows) = Len(VenueTrades[p[2]])
=============================================================================
