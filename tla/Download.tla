------------------------------ MODULE Download -------------------------------
(***************************************************************************)
(* One process that fetches archives into a cache that outlives it         *)
(* (python/perpcarry/ingestion/download.py): the published checksum, the   *)
(* cached copy, the streamed download with its retries and its part file.  *)
(* Whoever asked for the archive continues from "fetched", or handles the  *)
(* DownloadError.  The server is external.                                 *)
(*                                                                         *)
(* An archive is its chunks, 1 to Size; a file is the chunks it holds.     *)
(***************************************************************************)
EXTENDS Naturals, Sequences

CONSTANTS Urls, NoFile,
          Size,    \* chunks of an archive
          Retries  \* DEFAULT_RETRIES

ASSUME DownloadAssumption ==
    /\ Size \in Nat \ {0} /\ Retries \in Nat \ {0}
    /\ NoFile \notin Seq(1 .. Size)

VARIABLES remote,    \* what the vendor has at each url; "missing" if nothing
          cached,    \* the file at each destination
          part,      \* and the part file next to it
          pc, url,   \* what the process does, and which archive it fetches
          expected,  \* whether it knows the digest (expected_sha256)
          attempt,
          streamed   \* chunks that came in this attempt

fetchVars == <<remote, cached, part, pc, url, expected, attempt, streamed>>

Whole == [i \in 1 .. Size |-> i]

\* how a DownloadError reaches the caller: FreeTierError is made of a 401 only
Refused == {"download_error", "unauthorized"}

DownloadInit ==
    /\ cached = [u \in Urls |-> NoFile]
    /\ part = [u \in Urls |-> NoFile]
    /\ expected = FALSE
    /\ attempt = 1
    /\ streamed = 0
------------------------------------------------------------------------------
\* fetch_checksum: one request, without a retry; no digest for what is not there
FetchChecksum ==
    /\ pc = "checksum"
    /\ \/ expected' = (remote[url] # "missing") /\ pc' = "look"
       \/ pc' \in {"download_error", "raised"} /\ UNCHANGED expected
    /\ UNCHANGED <<remote, cached, part, url, attempt, streamed>>

\* cached_fetch: a copy is trusted when it verifies, or when there is no digest
Trusted == cached[url] # NoFile /\ (expected => cached[url] = Whole)

LookInCache ==
    /\ pc = "look"
    /\ pc' = IF Trusted THEN "fetched" ELSE "request"
    /\ cached' = IF Trusted THEN cached ELSE [cached EXCEPT ![url] = NoFile]
    /\ attempt' = 1
    /\ UNCHANGED <<remote, part, url, expected, streamed>>

\* the except clauses of fetch: the part file goes, and another attempt is made or not
AttemptFails ==
    /\ part' = [part EXCEPT ![url] = NoFile]
    /\ IF attempt < Retries THEN attempt' = attempt + 1 /\ pc' = "request"
                            ELSE UNCHANGED attempt /\ pc' = "download_error"
    /\ UNCHANGED <<remote, cached, url, expected, streamed>>

\* a transport error or a status worth a retry, before any byte
RequestFails == pc = "request" /\ AttemptFails

\* a permanent status
RequestRefused ==
    /\ pc = "request" /\ remote[url] = "missing"
    /\ part' = [part EXCEPT ![url] = NoFile]
    /\ pc' \in Refused
    /\ UNCHANGED <<remote, cached, url, expected, attempt, streamed>>

\* fault: the part file is opened to append
StreamOpensAppending ==
    /\ pc = "request" /\ remote[url] # "missing"
    /\ part' = [part EXCEPT ![url] = IF @ = NoFile THEN <<>> ELSE @]
    /\ streamed' = 0
    /\ pc' = "stream"
    /\ UNCHANGED <<remote, cached, url, expected, attempt>>

StreamOpens ==
    /\ pc = "request" /\ remote[url] # "missing"
    /\ part' = [part EXCEPT ![url] = <<>>]
    /\ streamed' = 0
    /\ pc' = "stream"
    /\ UNCHANGED <<remote, cached, url, expected, attempt>>

StreamChunk ==
    /\ pc = "stream" /\ streamed < Size
    /\ part' = [part EXCEPT ![url] = Append(@, streamed + 1)]
    /\ streamed' = streamed + 1
    /\ UNCHANGED <<remote, cached, pc, url, expected, attempt>>

StreamBreaks == pc = "stream" /\ AttemptFails

\* any other exception while streaming
StreamInterrupted ==
    /\ pc = "stream"
    /\ part' = [part EXCEPT ![url] = NoFile]
    /\ pc' = "raised"
    /\ UNCHANGED <<remote, cached, url, expected, attempt, streamed>>

\* the body ended, perhaps before its time: the part file takes its place
StreamEnds ==
    /\ pc = "stream"
    /\ cached' = [cached EXCEPT ![url] = part[url]]
    /\ part' = [part EXCEPT ![url] = NoFile]
    /\ pc' = IF expected THEN "verify" ELSE "fetched"
    /\ UNCHANGED <<remote, url, expected, attempt, streamed>>

\* cached_fetch again: ChecksumMismatch is a DownloadError
Verify ==
    /\ pc = "verify"
    /\ IF cached[url] = Whole
       THEN pc' = "fetched" /\ UNCHANGED cached
       ELSE pc' = "download_error" /\ cached' = [cached EXCEPT ![url] = NoFile]
    /\ UNCHANGED <<remote, part, url, expected, attempt, streamed>>

DownloadNext ==
    \/ FetchChecksum \/ LookInCache
    \/ RequestFails \/ RequestRefused
    \/ StreamOpens \/ StreamChunk \/ StreamBreaks \/ StreamInterrupted \/ StreamEnds
    \/ Verify
------------------------------------------------------------------------------
(* Whatever was interrupted, retried or killed before it, a file in the    *)
(* cache holds one body from its start, never the bytes of two attempts,   *)
(* and what a caller is given under a digest is the whole archive (fetch,  *)
(* cached_fetch, "no partial files").                                      *)
CacheHoldsOneBody ==
    /\ \A u \in Urls : cached[u] # NoFile =>
          Len(cached[u]) <= Size /\ cached[u] = SubSeq(Whole, 1, Len(cached[u]))
    /\ pc = "fetched" => cached[url] # NoFile /\ (expected => cached[url] = Whole)
==============================================================================
