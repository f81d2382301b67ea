-------------------------- MODULE SequentialReplay ---------------------------
(***************************************************************************)
(* What Pipeline::run promises (cpp/include/perpcarry/pipeline.hpp): the   *)
(* batch is replayed as one thread would replay it, row after row, onto    *)
(* the replayer the previous run left; a row that is refused ends the run  *)
(* with its error; a run that returns has consumed its whole batch.  No    *)
(* queue, no threads, no capacity.                                         *)
(***************************************************************************)
EXTENDS Naturals, Sequences

CONSTANTS Batches,              \* the batches a caller may hand over
          NewReplayer,          \* the replayer as it is constructed
          NoError,
          ErrorOf(_, _),        \* ErrorOf(r, row): what applying row to r throws
          Applied(_, _),        \* the replayer after the row, when it throws nothing
          AfterError(_, _)      \* the replayer it leaves when it throws

VARIABLES replayer,   \* the replayer, kept from run to run
          batch,      \* the batch of the current or the last run
          consumed,   \* how many of its rows have been applied
          status,     \* "idle", "running" or "failed"
          error,      \* what the current or the last run fails with
          outcome     \* how the last run ended

seqVars == <<replayer, batch, consumed, status, error, outcome>>

Returned(n) == [kind |-> "returned", consumed |-> n, error |-> NoError]
Threw(e) == [kind |-> "threw", consumed |-> 0, error |-> e]
ProducerFailure == "producer"

Init ==
    /\ replayer = NewReplayer
    /\ batch = <<>> /\ consumed = 0
    /\ status = "idle" /\ error = NoError
    /\ outcome = Returned(0)

Begin(b) ==
    /\ status = "idle"
    /\ batch' = b /\ consumed' = 0
    /\ status' = "running" /\ error' = NoError
    /\ UNCHANGED <<replayer, outcome>>

NextRow == batch[consumed + 1]

ApplyNext ==
    /\ status = "running" /\ consumed < Len(batch)
    /\ ErrorOf(replayer, NextRow) = NoError
    /\ replayer' = Applied(replayer, NextRow)
    /\ consumed' = consumed + 1
    /\ UNCHANGED <<batch, status, error, outcome>>

RefuseNext ==
    /\ status = "running" /\ consumed < Len(batch)
    /\ ErrorOf(replayer, NextRow) # NoError
    /\ replayer' = AfterError(replayer, NextRow)
    /\ error' = ErrorOf(replayer, NextRow)
    /\ status' = "failed"
    /\ UNCHANGED <<batch, consumed, outcome>>

Return ==
    /\ status = "running" /\ consumed = Len(batch)
    /\ outcome' = Returned(consumed)
    /\ status' = "idle"
    /\ UNCHANGED <<replayer, batch, consumed, error>>

Throw ==
    /\ status = "failed"
    /\ outcome' = Threw(error)
    /\ status' = "idle"
    /\ UNCHANGED <<replayer, batch, consumed, error>>

\* the producer could not deliver the rest of the batch
Interrupted ==
    /\ status = "running" /\ consumed < Len(batch)
    /\ outcome' = Threw(ProducerFailure)
    /\ status' = "idle"
    /\ UNCHANGED <<replayer, batch, consumed, error>>

Next ==
    \/ \E b \in Batches : Begin(b)
    \/ ApplyNext \/ RefuseNext
    \/ Return \/ Throw \/ Interrupted

Spec == Init /\ [][Next]_seqVars
==============================================================================
