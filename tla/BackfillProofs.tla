--------------------------- MODULE BackfillProofs ----------------------------
(***************************************************************************)
(* What a backfill promises for every vendor, number of chunks, attempts,  *)
(* periods, datasets, starts and kills: a file of the cache is one body, a *)
(* partition that can be read is whole, and every period is accounted for. *)
(***************************************************************************)
EXTENDS Backfill, TLAPS

\* An archive that is cut short after n chunks.
Body(n) == SubSeq(Whole, 1, n)

Bodies == {Body(n) : n \in 0 .. Size}

Steps == {"idle", "checksum", "look", "request", "stream", "verify", "fetched", "download_error",
          "unauthorized", "raised", "ingest", "discard", "store", "returned", "killed"}

\* A part file that is being streamed is what came so far.
FetchInv ==
    /\ cached \in [Urls -> Bodies \cup {NoFile}]
    /\ part \in [Urls -> Bodies \cup {NoFile}]
    /\ url \in Urls /\ pc \in Steps /\ expected \in BOOLEAN
    /\ streamed \in 0 .. Size
    /\ pc = "stream" => part[url] = Body(streamed)
    /\ pc = "verify" => cached[url] # NoFile
    /\ pc = "fetched" => cached[url] # NoFile /\ (expected => cached[url] = Whole)

PartitionType == [rows : Seq(1 .. Size), closed : BOOLEAN]

\* A partition that is being ingested is what was ingested so far.
DiskInv ==
    /\ kind \in {"book", "trades"}
    /\ partition \in [Urls -> PartitionType \cup {NoFile}]
    /\ ingested \in 0 .. Size
    /\ pc = "ingest" =>
          /\ kind = "book" /\ cached[url] # NoFile
          /\ partition[url] = IF ingested = 0 THEN NoFile
                                              ELSE [rows |-> Body(ingested), closed |-> FALSE]
    /\ pc = "store" => kind = "trades" /\ cached[url] = Whole
    /\ NoThinDays

AfterASkip == url[1] = 1 \/ url[1] - 1 \in skipped

\* What was reported, and what was skipped, is what lies before the archive being fetched.
AccountInv ==
    /\ remote \in [Urls -> {"missing", "good", "bad", "empty", "gapped"}]
    /\ skipped \subseteq 1 .. Periods /\ reports \subseteq Urls /\ joins \in BOOLEAN
    /\ allow_missing \in BOOLEAN
    /\ BackfillAccountsForEveryPeriod
    /\ pc \notin Ended =>
          /\ url[2] <= DatasetsOf
          /\ \A p \in skipped : p < url[1]
          /\ \A u \in reports : u[1] < url[1]
          /\ fetched_day = {<<url[1], d>> : d \in 1 .. url[2] - 1}
          /\ \A u \in fetched_day : IsWhole(u)
          /\ \A p \in 1 .. url[1] - 1 :
                p \in skipped \/ \A d \in 1 .. DatasetsOf : <<p, d>> \in reports
          /\ kind = "trades" /\ pc # "store" /\ ~joins => AfterASkip
          /\ pc = "store" => joins /\ (remote[url] = "gapped" => AfterASkip)

BackfillInv == FetchInv /\ DiskInv /\ AccountInv
------------------------------------------------------------------------------
(* Bodies. *)

LEMMA BodyIsCut ==
    ASSUME NEW n \in 0 .. Size
    PROVE  /\ Body(n) = [i \in 1 .. n |-> i]
           /\ Body(n) \in Seq(1 .. Size) /\ Body(n) \in Bodies
           /\ Len(Body(n)) = n
           /\ \A i \in 1 .. n : Body(n)[i] = i
  <1>1. Size \in Nat \ {0} /\ n \in Nat /\ n <= Size
    BY DownloadAssumption
  <1>2. Whole \in Seq(1 .. Size) /\ Len(Whole) = Size
    BY <1>1 DEF Whole
  <1>3. Body(n) = [i \in 1 .. n |-> i]
    <2>1. SubSeq(Whole, 1, n) = [i \in 1 .. n |-> Whole[i]]
      BY <1>1, <1>2
    <2>2. \A i \in 1 .. n : Whole[i] = i
      BY <1>1 DEF Whole
    <2>3. [i \in 1 .. n |-> Whole[i]] = [i \in 1 .. n |-> i]
      BY <2>2
    <2> QED BY <2>1, <2>3 DEF Body
  <1>4. Body(n) \in Seq(1 .. Size) /\ Len(Body(n)) = n
    BY <1>1, <1>3
  <1> QED BY <1>3, <1>4 DEF Bodies

LEMMA BodyEnds ==
    /\ Size \in Nat \ {0}
    /\ Body(0) = <<>> /\ Body(Size) = Whole /\ Whole \in Bodies
    /\ \A n \in 0 .. Size : n < Size => Append(Body(n), n + 1) = Body(n + 1)
    /\ NoFile \notin Bodies
  <1>1. Size \in Nat \ {0}
    BY DownloadAssumption
  <1>2. Body(0) = <<>>
    <2>1. Body(0) \in Seq(1 .. Size) /\ Len(Body(0)) = 0
      BY <1>1, BodyIsCut
    <2> QED BY <2>1
  <1>3. Body(Size) = Whole
    BY <1>1, BodyIsCut DEF Whole
  <1>4. ASSUME NEW n \in 0 .. Size, n < Size
        PROVE  Append(Body(n), n + 1) = Body(n + 1)
    <2> DEFINE s == Body(n)
               t == Body(n + 1)
    <2>1. n + 1 \in 0 .. Size /\ n + 1 \in 1 .. Size /\ n \in Nat
      BY <1>1, <1>4
    <2>2. s \in Seq(1 .. Size) /\ Len(s) = n /\ \A i \in 1 .. n : s[i] = i
      BY BodyIsCut
    <2>3. t = [i \in 1 .. n + 1 |-> i] /\ t \in Seq(1 .. Size) /\ Len(t) = n + 1
      BY <2>1, BodyIsCut
    <2> HIDE DEF s, t
    <2>4. Append(s, n + 1) \in Seq(1 .. Size) /\ Len(Append(s, n + 1)) = n + 1
      BY <2>1, <2>2
    <2>5. \A i \in 1 .. n + 1 : Append(s, n + 1)[i] = i
      BY <2>1, <2>2
    <2>6. \A i \in 1 .. n + 1 : t[i] = i
      BY <2>3
    <2>7. Append(s, n + 1) = t
      BY <2>1, <2>3, <2>4, <2>5, <2>6
    <2> QED BY <2>7 DEF s, t
  <1>5. NoFile \notin Bodies
    BY BodyIsCut, DownloadAssumption DEF Bodies
  <1>6. Whole \in Bodies
    BY <1>1, <1>3, BodyIsCut
  <1> QED BY <1>1, <1>2, <1>3, <1>4, <1>5, <1>6

LEMMA BodyIsOfItsLength ==
    ASSUME NEW b \in Bodies
    PROVE  /\ Len(b) \in 0 .. Size /\ b = Body(Len(b)) /\ b # NoFile
           /\ \A i \in 1 .. Len(b) : b[i] = i
           /\ Len(b) = Size <=> b = Whole
  <1>1. PICK n \in 0 .. Size : b = Body(n)
    BY DEF Bodies
  <1>2. Len(b) = n /\ \A i \in 1 .. n : b[i] = i
    BY <1>1, BodyIsCut
  <1>3. Len(Whole) = Size
    BY BodyEnds DEF Whole
  <1>4. n = Size => b = Whole
    BY <1>1, BodyEnds
  <1> QED BY <1>1, <1>2, <1>3, <1>4, BodyEnds
------------------------------------------------------------------------------
(* Downloads. *)

FetchSteps == {"checksum", "look", "request", "stream", "verify"}

\* A step of a download stays with its archive.
LEMMA DownloadInv ==
    ASSUME FetchInv, DownloadNext
    PROVE  /\ FetchInv'
           /\ pc \in FetchSteps
           /\ pc' \in FetchSteps \cup Refused \cup {"fetched", "raised"}
           /\ url' = url /\ remote' = remote
  <1>1. /\ cached \in [Urls -> Bodies \cup {NoFile}] /\ part \in [Urls -> Bodies \cup {NoFile}]
        /\ url \in Urls /\ expected \in BOOLEAN /\ streamed \in 0 .. Size /\ pc \in Steps
    BY DEF FetchInv
  <1>2. ASSUME AttemptFails, pc \in {"request", "stream"}
        PROVE  /\ FetchInv' /\ pc' \in {"request", "download_error"}
               /\ url' = url /\ remote' = remote
    <2>1. /\ part' = [part EXCEPT ![url] = NoFile] /\ pc' \in {"request", "download_error"}
          /\ UNCHANGED <<remote, cached, url, expected, streamed>>
      BY <1>2 DEF AttemptFails
    <2>2. part' \in [Urls -> Bodies \cup {NoFile}]
      BY <1>1, <2>1
    <2> QED BY <1>1, <2>1, <2>2 DEF FetchInv, Steps
  <1>3. CASE FetchChecksum
    BY <1>1, <1>3 DEF FetchChecksum, FetchInv, Steps, FetchSteps, Refused
  <1>4. CASE LookInCache
    <2>1. cached' \in [Urls -> Bodies \cup {NoFile}]
      BY <1>1, <1>4 DEF LookInCache
    <2>2. Trusted => cached[url] # NoFile /\ (expected => cached[url] = Whole)
      BY DEF Trusted
    <2> QED BY <1>1, <1>4, <2>1, <2>2 DEF LookInCache, FetchInv, Steps, FetchSteps
  <1>5. CASE RequestFails
    BY <1>2, <1>5 DEF RequestFails, FetchSteps, Refused
  <1>6. CASE RequestRefused
    <2>1. /\ part' = [part EXCEPT ![url] = NoFile] /\ pc' \in Refused /\ pc = "request"
          /\ UNCHANGED <<remote, cached, url, expected, streamed>>
      BY <1>6 DEF RequestRefused
    <2>2. part' \in [Urls -> Bodies \cup {NoFile}]
      BY <1>1, <2>1
    <2> QED BY <1>1, <2>1, <2>2 DEF FetchInv, Steps, FetchSteps, Refused
  <1>7. CASE StreamOpens
    <2>1. /\ part' = [part EXCEPT ![url] = <<>>] /\ pc' = "stream" /\ pc = "request"
          /\ streamed' = 0 /\ UNCHANGED <<remote, cached, url, expected>>
      BY <1>7 DEF StreamOpens
    <2>2. <<>> = Body(0) /\ 0 \in 0 .. Size /\ <<>> \in Bodies
      BY BodyEnds, BodyIsCut
    <2>3. part' \in [Urls -> Bodies \cup {NoFile}] /\ part'[url] = Body(0)
      BY <1>1, <2>1, <2>2
    <2> QED BY <1>1, <2>1, <2>2, <2>3 DEF FetchInv, Steps, FetchSteps
  <1>8. CASE StreamChunk
    <2>1. /\ part' = [part EXCEPT ![url] = Append(part[url], streamed + 1)]
          /\ pc = "stream" /\ pc' = pc /\ streamed < Size
          /\ streamed' = streamed + 1 /\ UNCHANGED <<remote, cached, url, expected>>
      BY <1>8 DEF StreamChunk
    <2>2. part[url] = Body(streamed)
      BY <2>1 DEF FetchInv
    <2>3. streamed + 1 \in 0 .. Size
      BY <1>1, <2>1, BodyEnds
    <2>4. Append(part[url], streamed + 1) = Body(streamed + 1) /\ Body(streamed + 1) \in Bodies
      BY <1>1, <2>1, <2>2, <2>3, BodyEnds, BodyIsCut
    <2>5. part' \in [Urls -> Bodies \cup {NoFile}] /\ part'[url] = Body(streamed + 1)
      BY <1>1, <2>1, <2>4
    <2> QED BY <1>1, <2>1, <2>3, <2>5 DEF FetchInv, FetchSteps
  <1>9. CASE StreamBreaks
    BY <1>2, <1>9 DEF StreamBreaks, FetchSteps, Refused
  <1>10. CASE StreamInterrupted
    <2>1. /\ part' = [part EXCEPT ![url] = NoFile] /\ pc' = "raised" /\ pc = "stream"
          /\ UNCHANGED <<remote, cached, url, expected, streamed>>
      BY <1>10 DEF StreamInterrupted
    <2>2. part' \in [Urls -> Bodies \cup {NoFile}]
      BY <1>1, <2>1
    <2> QED BY <1>1, <2>1, <2>2 DEF FetchInv, Steps, FetchSteps
  <1>11. CASE StreamEnds
    <2>1. /\ part' = [part EXCEPT ![url] = NoFile] /\ pc = "stream"
          /\ cached' = [cached EXCEPT ![url] = part[url]]
          /\ pc' = IF expected THEN "verify" ELSE "fetched"
          /\ UNCHANGED <<remote, url, expected, streamed>>
      BY <1>11 DEF StreamEnds
    <2>2. part[url] \in Bodies
      BY <1>1, <2>1, BodyIsCut DEF FetchInv
    <2>3. /\ part' \in [Urls -> Bodies \cup {NoFile}]
          /\ cached' \in [Urls -> Bodies \cup {NoFile}] /\ cached'[url] # NoFile
      BY <1>1, <2>1, <2>2, BodyEnds
    <2> QED BY <1>1, <2>1, <2>3 DEF FetchInv, Steps, FetchSteps
  <1>12. CASE Verify
    <2>1. /\ pc = "verify" /\ UNCHANGED <<remote, part, url, expected, streamed>>
          /\ \/ cached[url] = Whole /\ pc' = "fetched" /\ cached' = cached
             \/ pc' = "download_error" /\ cached' = [cached EXCEPT ![url] = NoFile]
      BY <1>12 DEF Verify
    <2>2. cached' \in [Urls -> Bodies \cup {NoFile}]
      BY <1>1, <2>1
    <2>3. Whole # NoFile
      BY BodyEnds
    <2> QED BY <1>1, <2>1, <2>2, <2>3 DEF FetchInv, Steps, FetchSteps, Refused
  <1> QED BY <1>3, <1>4, <1>5, <1>6, <1>7, <1>8, <1>9, <1>10, <1>11, <1>12 DEF DownloadNext
------------------------------------------------------------------------------
(* Where the backfill is. *)

LEMMA Configured ==
    /\ Periods \in Nat \ {0} /\ Datasets \in Nat \ {0}
    /\ Urls = (1 .. Periods) \X (1 .. Datasets)
    /\ DatasetsOf \in 1 .. Datasets
    /\ Fetching \in {"look", "checksum"}
    /\ kind = "trades" => DatasetsOf = 1
    /\ <<1, 1>> \in Urls
  <1>1. /\ Periods \in Nat \ {0} /\ Datasets \in Nat \ {0}
        /\ Urls = (1 .. Periods) \X (1 .. Datasets)
    BY BackfillAssumption
  <1>2. DatasetsOf \in 1 .. Datasets
    BY <1>1 DEF DatasetsOf
  <1>3. Fetching \in {"look", "checksum"} /\ (kind = "trades" => DatasetsOf = 1)
    BY DEF Fetching, DatasetsOf
  <1>4. 1 \in 1 .. Periods /\ 1 \in 1 .. Datasets
    BY <1>1
  <1>5. <<1, 1>> \in (1 .. Periods) \X (1 .. Datasets)
    BY <1>4
  <1> QED BY <1>1, <1>2, <1>3, <1>5

LEMMA UrlIsAPair ==
    ASSUME NEW u \in Urls
    PROVE  u[1] \in 1 .. Periods /\ u[2] \in 1 .. Datasets /\ u = <<u[1], u[2]>>
  BY Configured

\* What the disk promises depends on nothing that a step of a download, or Skip, changes.
LEMMA SameDisk ==
    ASSUME DiskInv, pc # "discard", pc' \notin {"ingest", "store", "discard"},
           partition' = partition, ingested' = ingested, abandoned' = abandoned, kind' = kind
    PROVE  DiskInv'
  <1>1. NoThinDays'
    BY DEF DiskInv, NoThinDays, IsWhole, Whole
  <1>2. PartitionType' = PartitionType
    BY DEF PartitionType
  <1> QED BY <1>1, <1>2 DEF DiskInv

\* The accounts of a backfill that stays with its archive, or ends without returning.
LEMMA SameAccount ==
    ASSUME AccountInv, url \in Urls, pc \notin Ended, pc' # "returned",
           url' = url, kind' = kind, remote' = remote, allow_missing' = allow_missing,
           skipped' = skipped, reports' = reports, fetched_day' = fetched_day,
           joins' \in BOOLEAN,
           pc' \notin Ended =>
              /\ kind = "trades" /\ pc' # "store" /\ ~joins' => AfterASkip
              /\ pc' = "store" => joins' /\ (remote[url] = "gapped" => AfterASkip),
           \A u \in Urls : u # url => partition'[u] = partition[u]
    PROVE  AccountInv'
  <1>1. ASSUME NEW u \in reports
        PROVE  u \in Urls /\ IsWhole(u)'
    <2>1. u \in Urls /\ u # url /\ IsWhole(u)
      <3>1. u \in Urls /\ IsWhole(u) /\ u[1] < url[1]
        BY <1>1 DEF AccountInv, BackfillAccountsForEveryPeriod
      <3>2. u[1] \in 1 .. Periods
        BY <3>1, UrlIsAPair
      <3> QED BY <3>1, <3>2
    <2>2. partition'[u] = partition[u]
      BY <2>1
    <2> QED BY <2>1, <2>2 DEF IsWhole, Whole
  <1>2. DatasetsOf' = DatasetsOf
    BY DEF DatasetsOf
  <1>3. BackfillAccountsForEveryPeriod'
    BY <1>1, <1>2 DEF AccountInv, BackfillAccountsForEveryPeriod
  <1>4. ASSUME NEW u \in fetched_day, pc' \notin Ended
        PROVE  IsWhole(u)'
    <2>1. IsWhole(u) /\ fetched_day = {<<url[1], d>> : d \in 1 .. url[2] - 1}
      BY <1>4 DEF AccountInv
    <2>2. PICK d \in 1 .. url[2] - 1 : u = <<url[1], d>>
      BY <2>1
    <2>3. url[2] \in 1 .. Datasets /\ url[1] \in 1 .. Periods /\ Datasets \in Nat
      BY <1>4, UrlIsAPair, Configured
    <2>4. d \in 1 .. Datasets /\ d # url[2]
      BY <2>3
    <2>5. u[2] = d
      BY <2>2
    <2>6. u \in Urls /\ u # url
      <3>1. <<url[1], d>> \in (1 .. Periods) \X (1 .. Datasets)
        BY <2>3, <2>4
      <3>2. <<url[1], d>> # url
        BY <2>2, <2>4, <2>5
      <3> QED BY <2>2, <3>1, <3>2, Configured
    <2>7. partition'[u] = partition[u]
      BY <2>6
    <2> QED BY <2>1, <2>7 DEF IsWhole, Whole
  <1>5. AfterASkip' = AfterASkip
    BY DEF AfterASkip
  <1> QED BY <1>2, <1>3, <1>4, <1>5 DEF AccountInv, Ended

LEMMA SameFetch ==
    ASSUME FetchInv, cached' = cached, part' = part, streamed' = streamed,
           url' \in Urls, expected' \in BOOLEAN, pc' \in Steps \ {"stream", "verify", "fetched"}
    PROVE  FetchInv'
  BY DEF FetchInv, Steps

LEMMA NextPeriodIsOne ==
    ASSUME url \in Urls, NextPeriod(url[1])
    PROVE  /\ url' \in Urls /\ expected' = FALSE /\ pc' \in {"look", "checksum", "returned"}
           /\ pc' = "returned" => url[1] = Periods
           /\ pc' # "returned" => url' = <<url[1] + 1, 1>>
  <1>1. url[1] \in 1 .. Periods /\ Periods \in Nat \ {0} /\ Datasets \in Nat \ {0}
    BY UrlIsAPair, Configured
  <1>2. CASE url[1] < Periods
    <2>1. url' = <<url[1] + 1, 1>> /\ pc' = Fetching /\ expected' = FALSE
      BY <1>2 DEF NextPeriod
    <2>2. url[1] + 1 \in 1 .. Periods /\ 1 \in 1 .. Datasets
      BY <1>1, <1>2
    <2>3. <<url[1] + 1, 1>> \in Urls
      BY <2>2, Configured
    <2> QED BY <2>1, <2>3, Configured
  <1>3. CASE ~(url[1] < Periods)
    BY <1>1, <1>3 DEF NextPeriod
  <1> QED BY <1>2, <1>3

\* A period is over, reported whole or skipped: the accounts are those of the next one.
LEMMA PeriodIsAccounted ==
    ASSUME AccountInv, url \in Urls, pc \notin Ended, NextPeriod(url[1]),
           kind' = kind, remote' = remote, allow_missing' = allow_missing,
           fetched_day' = {}, joins' \in BOOLEAN,
           skipped' \subseteq 1 .. url[1], reports' \subseteq Urls,
           skipped' # {} => allow_missing,
           \A u \in reports' : u[1] <= url[1] /\ IsWhole(u)' /\ u[1] \notin skipped',
           \A p \in 1 .. url[1] :
              p \in skipped' \/ \A d \in 1 .. DatasetsOf : <<p, d>> \in reports',
           kind = "trades" =>
              \A u \in reports' : remote[u] = "gapped" => u[1] = 1 \/ u[1] - 1 \in skipped',
           kind = "trades" /\ ~joins' => url[1] \in skipped'
    PROVE  AccountInv'
  <1>1. /\ url[1] \in 1 .. Periods /\ Periods \in Nat \ {0}
        /\ DatasetsOf \in 1 .. Datasets /\ Datasets \in Nat \ {0}
    BY UrlIsAPair, Configured
  <1>2. DatasetsOf' = DatasetsOf
    BY DEF DatasetsOf
  <1>3. \A u \in reports' : u[1] \in 1 .. Periods
    BY UrlIsAPair
  <1>4. BackfillAccountsForEveryPeriod'
    BY <1>1, <1>2, NextPeriodIsOne DEF BackfillAccountsForEveryPeriod
  <1>5. skipped' \subseteq 1 .. Periods
    BY <1>1
  <1>6. CASE pc' = "returned"
    BY <1>4, <1>5, <1>6 DEF AccountInv, Ended
  <1>7. CASE pc' # "returned"
    <2> DEFINE n == url[1] + 1
    <2>1. url' = <<n, 1>> /\ pc' \in {"look", "checksum"}
      BY <1>7, NextPeriodIsOne
    <2>2. url'[1] = n /\ url'[2] = 1
      BY <2>1
    <2>3. url'[2] <= DatasetsOf'
      BY <1>1, <1>2, <2>2
    <2>4. (\A p \in skipped' : p < n) /\ (\A u \in reports' : u[1] < n)
      <3>1. ASSUME NEW p \in skipped' PROVE p < n
        <4>1. p \in 1 .. url[1]
          OBVIOUS
        <4> QED BY <1>1, <4>1
      <3>2. ASSUME NEW u \in reports' PROVE u[1] < n
        <4>1. u[1] \in 1 .. Periods /\ u[1] <= url[1]
          BY <1>3
        <4> QED BY <1>1, <4>1
      <3> QED BY <3>1, <3>2
    <2>5. fetched_day' = {<<url[1], d>> : d \in 1 .. url[2] - 1}'
      BY <2>2
    <2>6. \A p \in 1 .. n - 1 :
              p \in skipped' \/ \A d \in 1 .. DatasetsOf' : <<p, d>> \in reports'
      BY <1>1, <1>2
    <2>7. kind' = "trades" /\ pc' # "store" /\ ~joins' => AfterASkip'
      BY <1>1, <2>2 DEF AfterASkip
    <2> HIDE DEF n
    <2> QED BY <1>4, <1>5, <2>1, <2>2, <2>3, <2>4, <2>5, <2>6, <2>7 DEF AccountInv
  <1> QED BY <1>6, <1>7

\* A partition is closed whole, and the backfill moves on.
LEMMA StoredInv ==
    ASSUME BackfillInv, pc \in {"ingest", "store"}, Stored,
           partition' = [partition EXCEPT ![url] = [rows |-> Whole, closed |-> TRUE]],
           pc = "ingest" => kind = "book",
           UNCHANGED <<ingested, abandoned, skipped, joins, remote, cached, part, attempt,
                       streamed, runVars>>
    PROVE  BackfillInv'
  <1>1. /\ url \in Urls /\ pc \notin Ended
        /\ kind' = kind /\ remote' = remote /\ allow_missing' = allow_missing
    BY DEF BackfillInv, FetchInv, Ended, runVars
  <1>2. /\ url[1] \in 1 .. Periods /\ url[2] \in 1 .. Datasets /\ url = <<url[1], url[2]>>
        /\ Periods \in Nat \ {0} /\ Datasets \in Nat \ {0}
        /\ DatasetsOf \in 1 .. Datasets /\ url[2] <= DatasetsOf
    BY <1>1, UrlIsAPair, Configured DEF BackfillInv, AccountInv
  <1>3. DatasetsOf' = DatasetsOf /\ Whole' = Whole
    BY <1>1 DEF DatasetsOf, Whole
  <1>4. [rows |-> Whole, closed |-> TRUE] \in PartitionType
    BY BodyEnds, BodyIsCut DEF PartitionType
  <1>5. /\ partition' \in [Urls -> PartitionType \cup {NoFile}]
        /\ partition'[url] = [rows |-> Whole, closed |-> TRUE]
        /\ \A u \in Urls : u # url => partition'[u] = partition[u]
    BY <1>1, <1>4 DEF BackfillInv, DiskInv
  <1>6. \A u \in Urls : IsWhole(u) \/ u = url => IsWhole(u)'
    BY <1>5, <1>3 DEF IsWhole
  <1>7. NoThinDays'
    <2>1. ASSUME NEW u \in Urls, (partition[u] # NoFile)', partition'[u].closed
          PROVE  IsWhole(u)' \/ u \in abandoned'
      <3>1. CASE u = url
        BY <1>6, <3>1
      <3>2. CASE u # url
        <4>1. partition[u] # NoFile /\ partition[u].closed /\ pc # "discard"
          BY <1>5, <2>1, <3>2
        <4>2. IsWhole(u) \/ u \in abandoned
          BY <4>1 DEF BackfillInv, DiskInv, NoThinDays
        <4> QED BY <1>6, <4>2
      <3> QED BY <3>1, <3>2
    <2> QED BY <2>1 DEF NoThinDays
  <1>8. url' \in Urls /\ pc' \in {"look", "checksum", "returned"} /\ expected' = FALSE
    <2>1. CASE url[2] < DatasetsOf
      <3>1. url' = [url EXCEPT ![2] = url[2] + 1] /\ pc' = Fetching /\ expected' = FALSE
        BY <2>1 DEF Stored
      <3>2. url' = <<url[1], url[2] + 1>>
        BY <1>2, <3>1
      <3>3. url[2] + 1 \in 1 .. Datasets
        BY <1>2, <2>1
      <3> QED BY <1>2, <3>1, <3>2, <3>3, Configured
    <2>2. CASE ~(url[2] < DatasetsOf)
      BY <1>1, <2>2, NextPeriodIsOne DEF Stored
    <2> QED BY <2>1, <2>2
  <1>9. FetchInv'
    BY <1>8, SameFetch DEF BackfillInv, Steps
  <1>10. DiskInv'
    <2>1. PartitionType' = PartitionType
      BY DEF PartitionType
    <2> QED BY <1>1, <1>5, <1>7, <1>8, <2>1 DEF BackfillInv, DiskInv
  <1>11. \A u \in fetched_day : u \in Urls /\ u[1] = url[1] /\ IsWhole(u)'
    <2>1. ASSUME NEW u \in fetched_day
          PROVE  u \in Urls /\ u[1] = url[1] /\ IsWhole(u)'
      <3>1. IsWhole(u) /\ fetched_day = {<<url[1], d>> : d \in 1 .. url[2] - 1}
        BY <1>1, <2>1 DEF BackfillInv, AccountInv
      <3>2. PICK d \in 1 .. url[2] - 1 : u = <<url[1], d>>
        BY <3>1
      <3>3. d \in 1 .. Datasets
        BY <1>2
      <3>4. u \in Urls
        BY <1>2, <3>2, <3>3, Configured
      <3> QED BY <1>6, <3>1, <3>2, <3>4
    <2> QED BY <2>1
  <1>12. AccountInv'
    <2>1. CASE url[2] < DatasetsOf
      <3> DEFINE n == url[2] + 1
      <3>1. /\ url' = <<url[1], n>> /\ pc' \in {"look", "checksum"}
            /\ fetched_day' = fetched_day \cup {url} /\ reports' = reports
        <4>1. /\ url' = [url EXCEPT ![2] = n] /\ pc' = Fetching
              /\ fetched_day' = fetched_day \cup {url} /\ reports' = reports
          BY <2>1 DEF Stored
        <4>2. [url EXCEPT ![2] = n] = <<url[1], n>>
          BY <1>2
        <4> QED BY <4>1, <4>2, Configured
      <3>2. url'[1] = url[1] /\ url'[2] = n /\ n \in 2 .. DatasetsOf
        BY <1>2, <2>1, <3>1
      <3>3. kind = "book"
        BY <2>1, <1>2, Configured DEF BackfillInv, DiskInv
      <3>4. \A u \in reports : u \in Urls /\ IsWhole(u)'
        BY <1>6 DEF BackfillInv, AccountInv, BackfillAccountsForEveryPeriod
      <3>5. BackfillAccountsForEveryPeriod'
        BY <1>1, <1>3, <3>1, <3>3, <3>4
           DEF BackfillInv, AccountInv, BackfillAccountsForEveryPeriod
      <3>6. fetched_day' = {<<url[1], d>> : d \in 1 .. n - 1}
        <4>1. fetched_day = {<<url[1], d>> : d \in 1 .. url[2] - 1}
          BY <1>1 DEF BackfillInv, AccountInv
        <4>2. 1 .. n - 1 = (1 .. url[2] - 1) \cup {url[2]}
          BY <1>2
        <4> QED BY <1>2, <3>1, <4>1, <4>2
      <3>7. \A u \in fetched_day' : IsWhole(u)'
        BY <1>1, <1>6, <1>11, <3>1
      <3> HIDE DEF n
      <3> QED BY <1>1, <1>3, <3>1, <3>2, <3>3, <3>5, <3>6, <3>7 DEF BackfillInv, AccountInv
    <2>2. CASE ~(url[2] < DatasetsOf)
      <3>1. /\ NextPeriod(url[1]) /\ fetched_day' = {}
            /\ reports' = reports \cup (fetched_day \cup {url})
        BY <2>2 DEF Stored
      <3>2. url[2] = DatasetsOf
        BY <1>2, <2>2
      <3>3. skipped' \subseteq 1 .. url[1] /\ \A p \in skipped' : p < url[1]
        BY <1>1, <1>2 DEF BackfillInv, AccountInv
      <3>4. reports' \subseteq Urls
        BY <1>1, <1>11, <3>1 DEF BackfillInv, AccountInv
      <3>5. \A u \in reports' : u[1] <= url[1] /\ IsWhole(u)' /\ u[1] \notin skipped'
        <4>1. ASSUME NEW u \in reports
              PROVE  u[1] <= url[1] /\ IsWhole(u)' /\ u[1] \notin skipped'
          <5>1. u \in Urls /\ u[1] < url[1] /\ IsWhole(u) /\ u[1] \notin skipped
            BY <1>1, <4>1 DEF BackfillInv, AccountInv, BackfillAccountsForEveryPeriod
          <5> QED BY <1>2, <1>6, <5>1, UrlIsAPair
        <4>2. ASSUME NEW u \in fetched_day \cup {url}
              PROVE  u[1] <= url[1] /\ IsWhole(u)' /\ u[1] \notin skipped'
          BY <1>1, <1>2, <1>6, <1>11, <3>3
        <4> QED BY <3>1, <4>1, <4>2
      <3>6. ASSUME NEW p \in 1 .. url[1]
            PROVE  p \in skipped' \/ \A d \in 1 .. DatasetsOf : <<p, d>> \in reports'
        <4>1. CASE p = url[1]
          <5>1. fetched_day = {<<url[1], d>> : d \in 1 .. url[2] - 1}
            BY <1>1 DEF BackfillInv, AccountInv
          <5>2. ASSUME NEW d \in 1 .. DatasetsOf PROVE <<p, d>> \in reports'
            <6>1. CASE d = url[2]
              BY <1>2, <3>1, <4>1, <6>1
            <6>2. CASE d # url[2]
              <7>1. d \in 1 .. url[2] - 1
                BY <1>2, <3>2, <6>2
              <7> QED BY <3>1, <4>1, <5>1, <7>1
            <6> QED BY <6>1, <6>2
          <5> QED BY <5>2
        <4>2. CASE p # url[1]
          <5>1. p \in 1 .. url[1] - 1
            BY <1>2, <4>2
          <5> QED BY <1>1, <3>1, <5>1 DEF BackfillInv, AccountInv
        <4> QED BY <4>1, <4>2
      <3>7. kind = "trades" => /\ pc = "store" /\ joins
                               /\ remote[url] = "gapped" => AfterASkip
        BY <1>1 DEF BackfillInv, AccountInv
      <3>8. ASSUME kind = "trades", NEW u \in reports', remote[u] = "gapped"
            PROVE  u[1] = 1 \/ u[1] - 1 \in skipped'
        <4>1. CASE u \in reports
          BY <3>8, <4>1 DEF BackfillInv, AccountInv, BackfillAccountsForEveryPeriod
        <4>2. CASE u = url
          BY <3>7, <3>8, <4>2 DEF AfterASkip
        <4>3. fetched_day = {}
          <5>1. fetched_day = {<<url[1], d>> : d \in 1 .. url[2] - 1} /\ url[2] = 1
            BY <1>1, <3>2, <3>8, Configured DEF BackfillInv, AccountInv
          <5> QED BY <5>1
        <4> QED BY <3>1, <4>1, <4>2, <4>3
      <3>9. joins' \in BOOLEAN /\ (skipped' # {} => allow_missing)
        BY DEF BackfillInv, AccountInv, BackfillAccountsForEveryPeriod
      <3> QED BY <1>1, <3>1, <3>3, <3>4, <3>5, <3>6, <3>7, <3>8, <3>9, PeriodIsAccounted
                 DEF BackfillInv
    <2> QED BY <2>1, <2>2
  <1> QED BY <1>9, <1>10, <1>12 DEF BackfillInv
------------------------------------------------------------------------------
(* Starts, skips and ends. *)

LEMMA InitInv == BackfillInit => BackfillInv
  <1> SUFFICES ASSUME BackfillInit PROVE BackfillInv
    OBVIOUS
  <1>1. FetchInv
    <2>1. /\ cached \in [Urls -> Bodies \cup {NoFile}] /\ part \in [Urls -> Bodies \cup {NoFile}]
          /\ expected = FALSE /\ streamed = 0 /\ pc = "idle"
      BY DEF BackfillInit, DownloadInit
    <2>2. url \in Urls
      BY Configured DEF BackfillInit
    <2>3. 0 \in 0 .. Size
      BY BodyEnds
    <2> QED BY <2>1, <2>2, <2>3 DEF FetchInv, Steps
  <1>2. DiskInv
    <2>1. NoThinDays
      BY DEF BackfillInit, NoThinDays
    <2> QED BY <2>1, BodyEnds, BackfillAssumption DEF BackfillInit, DiskInv
  <1>3. AccountInv
    BY BackfillAssumption DEF BackfillInit, AccountInv, BackfillAccountsForEveryPeriod, Ended
  <1> QED BY <1>1, <1>2, <1>3 DEF BackfillInv

LEMMA StartInv == BackfillInv /\ Start => BackfillInv'
  <1> SUFFICES ASSUME BackfillInv, Start PROVE BackfillInv'
    OBVIOUS
  <1>1. /\ url' = <<1, 1>> /\ pc' \in {"look", "checksum"} /\ pc \in Ended
        /\ expected' = FALSE /\ fetched_day' = {} /\ reports' = {} /\ skipped' = {}
        /\ joins' = FALSE /\ allow_missing' \in BOOLEAN
        /\ UNCHANGED <<remote, cached, part, streamed, kind, partition, ingested, abandoned>>
    BY Configured DEF Start, diskVars
  <1>2. FetchInv'
    BY <1>1, Configured, SameFetch DEF BackfillInv, Steps
  <1>3. DiskInv'
    BY <1>1, SameDisk DEF BackfillInv, Ended
  <1>4. url'[1] = 1 /\ url'[2] = 1 /\ DatasetsOf' = DatasetsOf
    BY <1>1 DEF DatasetsOf
  <1>5. BackfillAccountsForEveryPeriod'
    BY <1>1 DEF BackfillAccountsForEveryPeriod
  <1>6. AccountInv'
    <2>1. fetched_day' = {<<url[1], d>> : d \in 1 .. url[2] - 1}'
      BY <1>1, <1>4
    <2>2. url'[2] <= DatasetsOf' /\ 1 .. url'[1] - 1 = {}
      BY <1>4, Configured
    <2>3. AfterASkip'
      BY <1>4 DEF AfterASkip
    <2>4. remote' \in [Urls -> {"missing", "good", "bad", "empty", "gapped"}]
      BY <1>1 DEF BackfillInv, AccountInv
    <2> QED BY <1>1, <1>5, <2>1, <2>2, <2>3, <2>4 DEF AccountInv
  <1> QED BY <1>2, <1>3, <1>6 DEF BackfillInv

LEMMA SkipInv == BackfillInv /\ Skip => BackfillInv'
  <1> SUFFICES ASSUME BackfillInv, Skip PROVE BackfillInv'
    OBVIOUS
  <1>1. /\ pc \in Refused /\ allow_missing /\ NextPeriod(url[1])
        /\ skipped' = skipped \cup {url[1]} /\ fetched_day' = {} /\ joins' = FALSE
        /\ UNCHANGED <<remote, cached, part, streamed, kind, allow_missing, reports, partition,
                       ingested, abandoned>>
    BY DEF Skip, Skippable, runVars, diskVars
  <1>2. /\ url \in Urls /\ pc \notin Ended /\ pc # "discard"
        /\ url' \in Urls /\ expected' = FALSE /\ pc' \in {"look", "checksum", "returned"}
    BY <1>1, NextPeriodIsOne DEF BackfillInv, FetchInv, Refused, Ended
  <1>3. FetchInv'
    BY <1>1, <1>2, SameFetch DEF BackfillInv, Steps
  <1>4. DiskInv'
    BY <1>1, <1>2, SameDisk DEF BackfillInv
  <1>5. url[1] \in 1 .. Periods /\ Periods \in Nat
    BY <1>2, UrlIsAPair, Configured
  <1>6. skipped' \subseteq 1 .. url[1]
    <2>1. skipped \subseteq 1 .. Periods /\ \A p \in skipped : p < url[1]
      BY <1>2 DEF BackfillInv, AccountInv
    <2>2. ASSUME NEW p \in skipped' PROVE p \in 1 .. url[1]
      <3>1. p = url[1] \/ (p \in 1 .. Periods /\ p < url[1])
        BY <1>1, <2>1, <2>2
      <3> QED BY <1>5, <3>1
    <2> QED BY <2>2
  <1>7. ASSUME NEW u \in reports'
        PROVE  u[1] <= url[1] /\ IsWhole(u)' /\ u[1] \notin skipped'
    <2>1. u \in Urls /\ u[1] < url[1] /\ IsWhole(u) /\ u[1] \notin skipped
      BY <1>1, <1>2, <1>7 DEF BackfillInv, AccountInv, BackfillAccountsForEveryPeriod
    <2>2. IsWhole(u)'
      BY <1>1, <2>1 DEF IsWhole, Whole
    <2> QED BY <1>1, <1>5, <2>1, <2>2, UrlIsAPair
  <1>8. \A p \in 1 .. url[1] :
           p \in skipped' \/ \A d \in 1 .. DatasetsOf : <<p, d>> \in reports'
    <2>1. \A p \in 1 .. url[1] : p = url[1] \/ p \in 1 .. url[1] - 1
      BY <1>5
    <2> QED BY <1>1, <1>2, <2>1 DEF BackfillInv, AccountInv
  <1>9. kind = "trades" =>
           \A u \in reports' : remote[u] = "gapped" => u[1] = 1 \/ u[1] - 1 \in skipped'
    BY <1>1 DEF BackfillInv, AccountInv, BackfillAccountsForEveryPeriod
  <1>10. reports' \subseteq Urls /\ joins' \in BOOLEAN
    BY <1>1 DEF BackfillInv, AccountInv
  <1>11. AccountInv'
    BY <1>1, <1>2, <1>6, <1>7, <1>8, <1>9, <1>10, PeriodIsAccounted DEF BackfillInv
  <1> QED BY <1>3, <1>4, <1>11 DEF BackfillInv

LEMMA RaiseInv == BackfillInv /\ Raise => BackfillInv'
  <1> SUFFICES ASSUME BackfillInv, Raise PROVE BackfillInv'
    OBVIOUS
  <1>1. /\ pc \in Refused /\ pc' = "raised"
        /\ UNCHANGED <<remote, cached, part, url, expected, streamed, runVars, diskVars,
                       resultVars>>
    BY DEF Raise
  <1>2. url \in Urls /\ expected \in BOOLEAN
    BY DEF BackfillInv, FetchInv
  <1>3. FetchInv'
    BY <1>1, <1>2, SameFetch DEF BackfillInv, Steps
  <1>4. DiskInv'
    BY <1>1, SameDisk DEF BackfillInv, Refused, runVars, diskVars
  <1>5. joins' \in BOOLEAN
    BY <1>1 DEF BackfillInv, AccountInv, resultVars
  <1>6. AccountInv'
    BY <1>1, <1>2, <1>5, SameAccount
       DEF BackfillInv, Refused, Ended, runVars, diskVars, resultVars
  <1> QED BY <1>3, <1>4, <1>6 DEF BackfillInv

LEMMA KillInv == BackfillInv /\ Kill => BackfillInv'
  <1> SUFFICES ASSUME BackfillInv, Kill PROVE BackfillInv'
    OBVIOUS
  <1>1. /\ pc \notin Ended /\ pc' = "killed"
        /\ abandoned' = IF pc = "discard" THEN abandoned \cup {url} ELSE abandoned
        /\ UNCHANGED <<remote, cached, part, url, expected, streamed, kind, allow_missing,
                       partition, ingested, resultVars>>
    BY DEF Kill
  <1>2. url \in Urls /\ expected \in BOOLEAN
    BY DEF BackfillInv, FetchInv
  <1>3. FetchInv'
    BY <1>1, <1>2, SameFetch DEF BackfillInv, Steps
  <1>4. DiskInv'
    <2>1. NoThinDays'
      BY <1>1 DEF BackfillInv, DiskInv, NoThinDays, IsWhole, Whole
    <2>2. PartitionType' = PartitionType
      BY DEF PartitionType
    <2> QED BY <1>1, <2>1, <2>2 DEF BackfillInv, DiskInv
  <1>5. joins' \in BOOLEAN
    BY <1>1 DEF BackfillInv, AccountInv, resultVars
  <1>6. AccountInv'
    BY <1>1, <1>2, <1>5, SameAccount DEF BackfillInv, Ended, resultVars
  <1> QED BY <1>3, <1>4, <1>6 DEF BackfillInv

LEMMA FetchStepInv ==
    BackfillInv /\ DownloadNext /\ UNCHANGED <<runVars, diskVars, resultVars>> => BackfillInv'
  <1> SUFFICES ASSUME BackfillInv, DownloadNext, UNCHANGED <<runVars, diskVars, resultVars>>
               PROVE  BackfillInv'
    OBVIOUS
  <1>1. /\ FetchInv' /\ pc \in FetchSteps
        /\ pc' \in FetchSteps \cup Refused \cup {"fetched", "raised"}
        /\ url' = url /\ remote' = remote
    BY DownloadInv DEF BackfillInv
  <1>2. DiskInv'
    BY <1>1, SameDisk DEF BackfillInv, FetchSteps, Refused, runVars, diskVars
  <1>3. url \in Urls /\ pc \notin Ended
    BY <1>1 DEF BackfillInv, FetchInv, FetchSteps, Ended
  <1>4. /\ joins' \in BOOLEAN /\ joins' = joins
        /\ kind = "trades" /\ ~joins => AfterASkip
    BY <1>1, <1>3 DEF BackfillInv, AccountInv, FetchSteps, resultVars
  <1>5. AccountInv'
    BY <1>1, <1>3, <1>4, SameAccount
       DEF BackfillInv, FetchSteps, Refused, Ended, runVars, diskVars, resultVars
  <1> QED BY <1>1, <1>2, <1>5 DEF BackfillInv
------------------------------------------------------------------------------
(* Ingests and stores. *)

\* A step that stays with its archive and leaves no partition that can be read but whole.
LEMMA WriteInv ==
    ASSUME BackfillInv, pc \in {"fetched", "ingest", "discard"},
           pc' \in {"raised", "ingest", "discard"},
           UNCHANGED <<remote, cached, part, url, expected, streamed, kind, allow_missing>>,
           UNCHANGED <<fetched_day, reports, skipped, joins>>,
           ingested' \in 0 .. Size,
           pc' = "ingest" => kind = "book" /\ cached[url] # NoFile,
           NEW new \in PartitionType \cup {NoFile},
           partition' = [partition EXCEPT ![url] = new],
           new # NoFile /\ new.closed => pc' = "discard",
           pc' = "ingest" => new = IF ingested' = 0 THEN NoFile
                                   ELSE [rows |-> Body(ingested'), closed |-> FALSE],
           abandoned \ {url} \subseteq abandoned'
    PROVE  BackfillInv'
  <1>1. url \in Urls /\ expected \in BOOLEAN /\ pc \notin Ended
    BY DEF BackfillInv, FetchInv, Ended
  <1>2. FetchInv'
    BY <1>1, SameFetch DEF BackfillInv, Steps
  <1>3. /\ partition' \in [Urls -> PartitionType \cup {NoFile}]
        /\ partition'[url] = new
        /\ \A u \in Urls : u # url => partition'[u] = partition[u]
    BY <1>1 DEF BackfillInv, DiskInv
  <1>4. NoThinDays'
    <2>1. ASSUME NEW u \in Urls, partition'[u] # NoFile, partition'[u].closed
          PROVE  IsWhole(u)' \/ u \in abandoned' \/ (pc' = "discard" /\ url' = u)
      <3>1. CASE u = url
        BY <1>3, <2>1, <3>1
      <3>2. CASE u # url
        <4>1. IsWhole(u) \/ u \in abandoned
          BY <1>3, <2>1, <3>2 DEF BackfillInv, DiskInv, NoThinDays
        <4> QED BY <1>3, <3>2, <4>1 DEF IsWhole, Whole
      <3> QED BY <3>1, <3>2
    <2> QED BY <2>1 DEF NoThinDays
  <1>5. DiskInv'
    <2>1. PartitionType' = PartitionType /\ Body(ingested)' = Body(ingested')
      BY DEF PartitionType, Body, Whole
    <2> QED BY <1>3, <1>4, <2>1 DEF BackfillInv, DiskInv
  <1>6. joins' \in BOOLEAN /\ (kind = "trades" /\ ~joins => AfterASkip)
    BY <1>1 DEF BackfillInv, AccountInv
  <1>7. AccountInv'
    BY <1>1, <1>3, <1>6, SameAccount DEF BackfillInv
  <1> QED BY <1>2, <1>5, <1>7 DEF BackfillInv

LEMMA ReplacePartitionInv == BackfillInv /\ ReplacePartition => BackfillInv'
  <1> SUFFICES ASSUME BackfillInv, ReplacePartition PROVE BackfillInv'
    OBVIOUS
  <1>1. /\ kind = "book" /\ pc = "fetched" /\ pc' = "ingest" /\ ingested' = 0
        /\ partition' = [partition EXCEPT ![url] = NoFile]
        /\ abandoned' = abandoned \ {url}
        /\ UNCHANGED <<remote, cached, part, url, expected, streamed, kind, allow_missing>>
        /\ UNCHANGED <<fetched_day, reports, skipped, joins>>
    BY DEF ReplacePartition, Unchanged, runVars, resultVars
  <1>2. cached[url] # NoFile /\ 0 \in 0 .. Size
    BY <1>1, BodyEnds DEF BackfillInv, FetchInv
  <1> QED BY <1>1, <1>2, WriteInv

LEMMA IngestChunkInv == BackfillInv /\ IngestChunk => BackfillInv'
  <1> SUFFICES ASSUME BackfillInv, IngestChunk PROVE BackfillInv'
    OBVIOUS
  <1> DEFINE n == ingested + 1
             new == [rows |-> Body(n), closed |-> FALSE]
  <1>1. /\ pc = "ingest" /\ ingested < Len(cached[url]) /\ pc' = pc /\ ingested' = n
        /\ partition' = [partition EXCEPT ![url] =
              [rows |-> Append(IF ingested = 0 THEN <<>> ELSE partition[url].rows,
                               cached[url][n]),
               closed |-> FALSE]]
        /\ abandoned' = abandoned
        /\ UNCHANGED <<remote, cached, part, url, expected, streamed, kind, allow_missing>>
        /\ UNCHANGED <<fetched_day, reports, skipped, joins>>
    BY DEF IngestChunk, Unchanged, runVars, resultVars
  <1>2. /\ cached[url] \in Bodies /\ kind = "book" /\ cached[url] # NoFile
        /\ ingested \in 0 .. Size
        /\ ingested # 0 => partition[url] = [rows |-> Body(ingested), closed |-> FALSE]
    BY <1>1 DEF BackfillInv, FetchInv, DiskInv
  <1>3. Len(cached[url]) \in 0 .. Size /\ \A i \in 1 .. Len(cached[url]) : cached[url][i] = i
    BY <1>2, BodyIsOfItsLength
  <1>4. n \in 1 .. Size /\ ingested < Size /\ cached[url][n] = n
    BY <1>1, <1>2, <1>3, BodyEnds
  <1>5. (IF ingested = 0 THEN <<>> ELSE partition[url].rows) = Body(ingested)
    BY <1>2, BodyEnds
  <1>6. Append(Body(ingested), n) = Body(n)
    BY <1>2, <1>4, BodyEnds
  <1>7. n \in 0 .. Size /\ new \in PartitionType \cup {NoFile} /\ new.closed = FALSE
    BY <1>4, BodyIsCut DEF PartitionType
  <1>8. partition' = [partition EXCEPT ![url] = new]
    BY <1>1, <1>4, <1>5, <1>6
  <1>9. n # 0
    BY <1>4
  <1> HIDE DEF n
  <1> QED BY <1>1, <1>2, <1>7, <1>8, <1>9, WriteInv

LEMMA IngestFailsInv == BackfillInv /\ pc = "ingest" /\ IngestFails => BackfillInv'
  <1> SUFFICES ASSUME BackfillInv, pc = "ingest", IngestFails PROVE BackfillInv'
    OBVIOUS
  <1> DEFINE new == IF partition[url] = NoFile THEN NoFile
                    ELSE [partition[url] EXCEPT !.closed = TRUE]
  <1>1. /\ pc' = "discard" /\ partition' = [partition EXCEPT ![url] = new]
        /\ ingested' = ingested /\ abandoned' = abandoned
        /\ UNCHANGED <<remote, cached, part, url, expected, streamed, kind, allow_missing>>
        /\ UNCHANGED <<fetched_day, reports, skipped, joins>>
    BY DEF IngestFails, Unchanged, runVars, resultVars
  <1>2. new \in PartitionType \cup {NoFile} /\ ingested \in 0 .. Size
    BY DEF BackfillInv, FetchInv, DiskInv, PartitionType
  <1> HIDE DEF new
  <1> QED BY <1>1, <1>2, WriteInv

LEMMA RemovalInv == BackfillInv /\ (Discard \/ EmptyRefused) => BackfillInv'
  <1> SUFFICES ASSUME BackfillInv, Discard \/ EmptyRefused PROVE BackfillInv'
    OBVIOUS
  <1>1. /\ pc \in {"ingest", "discard"} /\ pc' = "raised"
        /\ partition' = [partition EXCEPT ![url] = NoFile]
        /\ ingested' = ingested /\ abandoned' = abandoned
        /\ UNCHANGED <<remote, cached, part, url, expected, streamed, kind, allow_missing>>
        /\ UNCHANGED <<fetched_day, reports, skipped, joins>>
    BY DEF Discard, EmptyRefused, Unchanged, runVars, resultVars
  <1>2. ingested \in 0 .. Size
    BY DEF BackfillInv, DiskInv
  <1> QED BY <1>1, <1>2, WriteInv

LEMMA IngestEndsInv == BackfillInv /\ IngestEnds => BackfillInv'
  <1> SUFFICES ASSUME BackfillInv, IngestEnds PROVE BackfillInv'
    OBVIOUS
  <1>1. /\ pc = "ingest" /\ ingested = Size /\ Stored
        /\ partition' = [partition EXCEPT ![url].closed = TRUE]
        /\ UNCHANGED <<ingested, abandoned, skipped, joins, remote, cached, part, attempt,
                       streamed, runVars>>
    BY DEF IngestEnds
  <1>2. kind = "book" /\ partition[url] = [rows |-> Whole, closed |-> FALSE]
    BY <1>1, BodyEnds DEF BackfillInv, DiskInv
  <1>3. [partition[url] EXCEPT !.closed = TRUE] = [rows |-> Whole, closed |-> TRUE]
    <2> DEFINE old == partition[url]
               new == [old EXCEPT !.closed = TRUE]
    <2>1. old \in PartitionType /\ old.rows = Whole
      BY <1>2, BodyEnds, BodyIsCut DEF PartitionType
    <2> HIDE DEF old
    <2>2. new \in PartitionType /\ new.rows = Whole /\ new.closed = TRUE
      BY <2>1 DEF PartitionType
    <2> HIDE DEF new
    <2>3. new = [rows |-> Whole, closed |-> TRUE]
      BY <2>2 DEF PartitionType
    <2> QED BY <2>3 DEF new, old
  <1>4. partition' = [partition EXCEPT ![url] = [partition[url] EXCEPT !.closed = TRUE]]
    BY <1>1
  <1>5. partition' = [partition EXCEPT ![url] = [rows |-> Whole, closed |-> TRUE]]
    BY <1>3, <1>4
  <1> QED BY <1>1, <1>2, <1>5, StoredInv

LEMMA TradesRefusedInv == BackfillInv /\ TradesRefused => BackfillInv'
  <1> SUFFICES ASSUME BackfillInv, TradesRefused PROVE BackfillInv'
    OBVIOUS
  <1>1. /\ pc = "fetched" /\ pc' = "raised"
        /\ UNCHANGED <<remote, cached, part, url, expected, streamed, runVars, diskVars,
                       resultVars>>
    BY DEF TradesRefused, Unchanged
  <1>2. url \in Urls /\ expected \in BOOLEAN /\ joins' \in BOOLEAN
    BY <1>1 DEF BackfillInv, FetchInv, AccountInv, resultVars
  <1>3. FetchInv'
    BY <1>1, <1>2, SameFetch DEF BackfillInv, Steps
  <1>4. DiskInv'
    BY <1>1, SameDisk DEF BackfillInv, runVars, diskVars
  <1>5. AccountInv'
    BY <1>1, <1>2, SameAccount DEF BackfillInv, Ended, runVars, diskVars, resultVars
  <1> QED BY <1>3, <1>4, <1>5 DEF BackfillInv

LEMMA StoreBeginsInv == BackfillInv /\ StoreBegins => BackfillInv'
  <1> SUFFICES ASSUME BackfillInv, StoreBegins PROVE BackfillInv'
    OBVIOUS
  <1>1. /\ kind = "trades" /\ pc = "fetched" /\ pc' = "store" /\ joins' = TRUE
        /\ cached[url] = Whole /\ (joins => remote[url] # "gapped")
        /\ partition' = [partition EXCEPT ![url] = [rows |-> <<>>, closed |-> FALSE]]
        /\ UNCHANGED <<remote, cached, part, url, expected, streamed, kind, allow_missing>>
        /\ UNCHANGED <<ingested, abandoned, fetched_day, reports, skipped>>
    BY DEF StoreBegins, Readable, PeriodAccepted, Unchanged, runVars
  <1>2. url \in Urls /\ expected \in BOOLEAN /\ pc \notin Ended
    BY <1>1 DEF BackfillInv, FetchInv, Ended
  <1>3. FetchInv'
    BY <1>1, <1>2, SameFetch DEF BackfillInv, Steps
  <1>4. /\ partition' \in [Urls -> PartitionType \cup {NoFile}]
        /\ partition'[url].closed = FALSE
        /\ \A u \in Urls : u # url => partition'[u] = partition[u]
    <2>1. [rows |-> <<>>, closed |-> FALSE] \in PartitionType
      BY BodyEnds, BodyIsCut DEF PartitionType
    <2> QED BY <1>1, <1>2, <2>1 DEF BackfillInv, DiskInv
  <1>5. DiskInv'
    <2>1. NoThinDays'
      BY <1>1, <1>4 DEF BackfillInv, DiskInv, NoThinDays, IsWhole, Whole
    <2>2. PartitionType' = PartitionType /\ Whole' = Whole
      BY DEF PartitionType, Whole
    <2> QED BY <1>1, <1>4, <2>1, <2>2 DEF BackfillInv, DiskInv
  <1>6. remote[url] = "gapped" => AfterASkip
    BY <1>1, <1>2 DEF BackfillInv, AccountInv
  <1>7. AccountInv'
    BY <1>1, <1>2, <1>4, <1>6, SameAccount DEF BackfillInv
  <1> QED BY <1>3, <1>5, <1>7 DEF BackfillInv

LEMMA StoreEndsInv == BackfillInv /\ StoreEnds => BackfillInv'
  <1> SUFFICES ASSUME BackfillInv, StoreEnds PROVE BackfillInv'
    OBVIOUS
  <1>1. /\ pc = "store" /\ Stored
        /\ partition' = [partition EXCEPT ![url] = [rows |-> cached[url], closed |-> TRUE]]
        /\ UNCHANGED <<ingested, abandoned, skipped, joins, remote, cached, part, attempt,
                       streamed, runVars>>
    BY DEF StoreEnds
  <1>2. cached[url] = Whole
    BY <1>1 DEF BackfillInv, DiskInv
  <1> QED BY <1>1, <1>2, StoredInv
------------------------------------------------------------------------------
(* The theorems. *)

LEMMA StutterInv == BackfillInv /\ UNCHANGED backfillVars => BackfillInv'
  <1> SUFFICES ASSUME BackfillInv, UNCHANGED backfillVars PROVE BackfillInv'
    OBVIOUS
  <1>1. FetchInv'
    BY DEF BackfillInv, FetchInv, backfillVars, fetchVars, Body, Whole
  <1>2. DiskInv'
    BY DEF BackfillInv, DiskInv, PartitionType, NoThinDays, IsWhole, backfillVars, fetchVars,
           Body, Whole
  <1>3. AccountInv'
    BY DEF BackfillInv, AccountInv, BackfillAccountsForEveryPeriod, AfterASkip, IsWhole,
           DatasetsOf, Ended, backfillVars, fetchVars, Whole
  <1> QED BY <1>1, <1>2, <1>3 DEF BackfillInv

(* A backfill stays within its invariant: the part file being streamed and *)
(* the partition being ingested are what came so far, and the reports and  *)
(* the skipped periods are what lies before the archive being fetched.     *)
THEOREM BackfillInvariant == BackfillSpec => []BackfillInv
  <1>1. BackfillInit => BackfillInv
    BY InitInv
  <1>2. BackfillInv /\ [BackfillNext]_backfillVars => BackfillInv'
    BY StartInv, SkipInv, RaiseInv, KillInv, FetchStepInv, ReplacePartitionInv, IngestChunkInv,
       IngestFailsInv, RemovalInv, IngestEndsInv, TradesRefusedInv, StoreBeginsInv,
       StoreEndsInv, StutterInv
       DEF BackfillNext, ChunkRefused, IngestInterrupted, InflationEnds
  <1> QED BY <1>1, <1>2, PTL DEF BackfillSpec

(* However often it is interrupted, retried, killed and started again, the *)
(* cache holds one body from its start, and what a caller is given under a *)
(* digest is the whole archive (download.fetch, cached_fetch).             *)
THEOREM CacheAlwaysHoldsOneBody == BackfillSpec => []CacheHoldsOneBody
  <1>1. BackfillInv => CacheHoldsOneBody
    <2> SUFFICES ASSUME BackfillInv PROVE CacheHoldsOneBody
      OBVIOUS
    <2>1. ASSUME NEW u \in Urls, cached[u] # NoFile
          PROVE  Len(cached[u]) <= Size /\ cached[u] = SubSeq(Whole, 1, Len(cached[u]))
      <3>1. cached[u] \in Bodies
        BY <2>1 DEF BackfillInv, FetchInv
      <3>2. Len(cached[u]) \in 0 .. Size /\ cached[u] = Body(Len(cached[u]))
        BY <3>1, BodyIsOfItsLength
      <3> QED BY <3>2, BodyEnds DEF Body
    <2>2. pc = "fetched" => cached[url] # NoFile /\ (expected => cached[url] = Whole)
      BY DEF BackfillInv, FetchInv
    <2> QED BY <2>1, <2>2 DEF CacheHoldsOneBody
  <1> QED BY <1>1, BackfillInvariant, PTL

(* A partition that can be read is the whole archive, but for the one that *)
(* a process was killed over between closing its file and removing it      *)
(* (ingest, store).                                                        *)
THEOREM DaysAreNeverThin == BackfillSpec => []NoThinDays
  <1>1. BackfillInv => NoThinDays
    BY DEF BackfillInv, DiskInv
  <1> QED BY <1>1, BackfillInvariant, PTL

(* A backfill that returns has reported every period whole, or skipped it  *)
(* because it was allowed to, and its trades join those of the period      *)
(* before (backfill, fetch_day).                                           *)
THEOREM EveryPeriodIsAccountedFor == BackfillSpec => []BackfillAccountsForEveryPeriod
  <1>1. BackfillInv => BackfillAccountsForEveryPeriod
    BY DEF BackfillInv, AccountInv
  <1> QED BY <1>1, BackfillInvariant, PTL
==============================================================================
