------------------------------ MODULE Pipeline -------------------------------
(***************************************************************************)
(* Pipeline::run (cpp/src/pipeline.cpp): a producer thread pushes a batch  *)
(* through the queue, the calling thread pops and replays, and either one  *)
(* that fails tells the other through `aborted`.  A pipeline is used for   *)
(* one batch after another; each run has a queue of its own and all share  *)
(* the replayer.                                                           *)
(*                                                                         *)
(* Every step on the queue is a step of module SPSCQueue.  The stall       *)
(* counters are left out: nothing reads them but a report.                 *)
(***************************************************************************)
EXTENDS SPSCQueue, BookReplayer

CONSTANTS Batches,   \* the batches a caller may hand to run()
          MaxRuns    \* bound: how many times run() is called

ASSUME PipelineAssumption ==
    /\ Batches \subseteq Seq(Values)
    /\ \A b \in Batches : Len(b) <= MaxPushes
    /\ MaxRuns \in Nat

VARIABLES replayer,        \* replayer_, which outlives a run
          runs,            \* how many runs have begun
          batch,           \* the argument of the current or the last run
          phase,           \* where the calling thread is
          producer,        \* where the producer thread is
          aborted,         \* the atomic flag
          producer_error, consumer_error,
          consumed, peak,  \* consumed and peak_queue_occupancy of the result
          outcome          \* what the last run returned or threw

callerVars == <<runs, batch, outcome>>
errorVars == <<producer_error, consumer_error>>
pipelineVars == <<queueVars, replayer, callerVars, phase, producer, aborted,
                  errorVars, consumed, peak>>

Returned(n) == [kind |-> "returned", consumed |-> n, error |-> NoError]
Threw(e) == [kind |-> "threw", consumed |-> 0, error |-> e]
ProducerFailure == "producer"

PipelineInit ==
    /\ QueueInit
    /\ replayer = NewReplayer
    /\ runs = 0 /\ batch = <<>>
    /\ phase = "idle" /\ producer = "returned"
    /\ aborted = FALSE
    /\ producer_error = FALSE /\ consumer_error = NoError
    /\ consumed = 0 /\ peak = 0
    /\ outcome = Returned(0)

\* the loop condition of the consumer, consumed < total
LoopPhase(b, n) == IF n < Len(b) THEN "popping" ELSE "joining"

\* run() is called: a queue, a cleared flag and a thread of its own
BeginRun(b) ==
    /\ phase = "idle" /\ runs < MaxRuns
    /\ runs' = runs + 1
    /\ batch' = b
    /\ slots' = [s \in SlotIndices |-> Raw]
    /\ head' = 0 /\ tail' = 0
    /\ headSeen' = 0 /\ tailSeen' = 0
    /\ pushing' = "idle" /\ popping' = "idle"
    /\ moved' = Raw /\ sent' = <<>> /\ received' = <<>>
    /\ aborted' = FALSE
    /\ producer_error' = FALSE /\ consumer_error' = NoError
    /\ consumed' = 0 /\ peak' = 0
    /\ producer' = "pushing"
    /\ phase' = LoopPhase(b, 0)
    /\ UNCHANGED <<replayer, outcome>>
------------------------------------------------------------------------------
(* the producer thread *)

producerUnchanged ==
    UNCHANGED <<replayer, callerVars, phase, consumer_error, consumed, peak>>

\* one step of try_push(update) that does not end it in a refusal
ProducePush ==
    /\ producer = "pushing"
    /\ \/ tail < Len(batch) /\ PushAdmitted
       \/ tail < Len(batch) /\ PushConstruct(batch[tail + 1])
       \/ PushPublish
    /\ UNCHANGED <<producer, aborted, producer_error>>
    /\ producerUnchanged

ProduceRefused ==
    /\ producer = "pushing" /\ tail < Len(batch)
    /\ PushRefused
    /\ producer' = "checking"
    /\ UNCHANGED <<aborted, producer_error>>
    /\ producerUnchanged

\* aborted read as false, which an old value may still be: stall, yield, retry
ProduceRetry ==
    /\ producer = "checking"
    /\ producer' = "pushing"
    /\ UNCHANGED <<queueVars, aborted, producer_error>>
    /\ producerUnchanged

ProduceStop ==
    /\ producer = "checking" /\ aborted
    /\ producer' = "returned"
    /\ UNCHANGED <<queueVars, aborted, producer_error>>
    /\ producerUnchanged

\* the copy into the slot throws: caught, kept for the caller, the peer told
ProduceThrow ==
    /\ producer = "pushing" /\ pushing = "construct"
    /\ pushing' = "idle"
    /\ producer_error' = TRUE /\ aborted' = TRUE
    /\ producer' = "returned"
    /\ UNCHANGED <<slots, tail, headSeen, sent, consumerVars>>
    /\ producerUnchanged

ProduceDone ==
    /\ producer = "pushing" /\ pushing = "idle" /\ tail = Len(batch)
    /\ producer' = "returned"
    /\ UNCHANGED <<queueVars, aborted, producer_error>>
    /\ producerUnchanged
------------------------------------------------------------------------------
(* the calling thread, which is the consumer *)

consumerUnchanged == UNCHANGED <<callerVars, producer, producer_error>>

ConsumePop ==
    /\ phase = "popping"
    /\ PopAdmitted \/ PopTake \/ PopRelease
    /\ phase' = IF head' # head THEN "sampling" ELSE phase
    /\ UNCHANGED <<replayer, aborted, consumer_error, consumed, peak>>
    /\ consumerUnchanged

ConsumeEmpty ==
    /\ phase = "popping"
    /\ PopEmpty
    /\ phase' = "checking"
    /\ UNCHANGED <<replayer, aborted, consumer_error, consumed, peak>>
    /\ consumerUnchanged

ConsumeRetry ==
    /\ phase = "checking"
    /\ phase' = "popping"
    /\ UNCHANGED <<queueVars, replayer, aborted, consumer_error, consumed, peak>>
    /\ consumerUnchanged

ConsumeStop ==
    /\ phase = "checking" /\ aborted
    /\ phase' = "joining"
    /\ UNCHANGED <<queueVars, replayer, aborted, consumer_error, consumed, peak>>
    /\ consumerUnchanged

\* size_approx(): the consumer's own head, then an acquire load of tail_
ConsumeSample ==
    /\ phase = "sampling"
    /\ \E t \in tailSeen .. tail :
          /\ tailSeen' = t
          /\ peak' = IF Minus(t, head) > peak THEN Minus(t, head) ELSE peak
    /\ phase' = "applying"
    /\ UNCHANGED <<slots, head, popping, moved, received, producerVars,
                   replayer, aborted, consumer_error, consumed>>
    /\ consumerUnchanged

ConsumeApply ==
    /\ phase = "applying"
    /\ ErrorOf(replayer, moved) = NoError
    /\ replayer' = Applied(replayer, moved)
    /\ consumed' = consumed + 1
    /\ phase' = LoopPhase(batch, consumed + 1)
    /\ UNCHANGED <<queueVars, aborted, consumer_error, peak>>
    /\ consumerUnchanged

\* fault: the error is kept and the producer is not told
ConsumeThrowSilently ==
    /\ phase = "applying"
    /\ ErrorOf(replayer, moved) # NoError
    /\ replayer' = AfterError(replayer, moved)
    /\ consumer_error' = ErrorOf(replayer, moved)
    /\ phase' = "joining"
    /\ UNCHANGED <<queueVars, aborted, consumed, peak>>
    /\ consumerUnchanged

\* apply throws: caught, kept for the caller, the producer told
ConsumeThrow ==
    /\ phase = "applying"
    /\ ErrorOf(replayer, moved) # NoError
    /\ replayer' = AfterError(replayer, moved)
    /\ consumer_error' = ErrorOf(replayer, moved)
    /\ aborted' = TRUE
    /\ phase' = "joining"
    /\ UNCHANGED <<queueVars, consumed, peak>>
    /\ consumerUnchanged

\* fault: run() comes back without waiting for its thread
EndRunWithoutJoin ==
    /\ phase = "joining"
    /\ outcome' = IF consumer_error # NoError THEN Threw(consumer_error)
                  ELSE IF producer_error THEN Threw(ProducerFailure)
                  ELSE Returned(consumed)
    /\ phase' = "idle"
    /\ Destroy
    /\ UNCHANGED <<replayer, runs, batch, producer, aborted, errorVars,
                   consumed, peak>>

\* fault: the producer's failure hides the consumer's
EndRunProducerFirst ==
    /\ phase = "joining" /\ producer = "returned"
    /\ outcome' = IF producer_error THEN Threw(ProducerFailure)
                  ELSE IF consumer_error # NoError THEN Threw(consumer_error)
                  ELSE Returned(consumed)
    /\ phase' = "idle"
    /\ Destroy
    /\ UNCHANGED <<replayer, runs, batch, producer, aborted, errorVars,
                   consumed, peak>>

\* producer.join(), the rethrows, consumer first, and the queue's destructor
EndRun ==
    /\ phase = "joining" /\ producer = "returned"
    /\ outcome' = IF consumer_error # NoError THEN Threw(consumer_error)
                  ELSE IF producer_error THEN Threw(ProducerFailure)
                  ELSE Returned(consumed)
    /\ phase' = "idle"
    /\ Destroy
    /\ UNCHANGED <<replayer, runs, batch, producer, aborted, errorVars,
                   consumed, peak>>
------------------------------------------------------------------------------
ProducerThread ==
    ProducePush \/ ProduceRefused \/ ProduceRetry \/ ProduceStop
      \/ ProduceThrow \/ ProduceDone

ConsumerThread ==
    ConsumePop \/ ConsumeEmpty \/ ConsumeRetry \/ ConsumeStop
      \/ ConsumeSample \/ ConsumeApply \/ ConsumeThrow \/ EndRun

PipelineNext == (\E b \in Batches : BeginRun(b)) \/ ProducerThread \/ ConsumerThread

(* Both threads are scheduled again after they yield (weak fairness of     *)
(* their steps), and a store becomes visible to the other thread in finite *)
(* time, so that a load repeated for ever does not return an old value for *)
(* ever (strong fairness of the steps that see the new one).               *)
PipelineFairness ==
    /\ WF_pipelineVars(ProducerThread) /\ WF_pipelineVars(ConsumerThread)
    /\ SF_pipelineVars(ProducePush) /\ SF_pipelineVars(ProduceStop)
    /\ SF_pipelineVars(ConsumePop) /\ SF_pipelineVars(ConsumeStop)

PipelineSpec == PipelineInit /\ [][PipelineNext]_pipelineVars

FairPipelineSpec == PipelineSpec /\ PipelineFairness
------------------------------------------------------------------------------
PipelineTypeOK ==
    /\ QueueTypeOK
    /\ runs \in 0 .. MaxRuns
    /\ batch \in Batches \cup {<<>>}
    /\ phase \in {"idle", "popping", "checking", "sampling", "applying", "joining"}
    /\ producer \in {"pushing", "checking", "returned"}
    /\ aborted \in BOOLEAN /\ producer_error \in BOOLEAN
    /\ consumed \in 0 .. Len(batch)
    /\ peak \in Nat

(* The occupancy a run reports is one the queue can have: the sample can   *)
(* neither underflow nor exceed the capacity (Pipeline::run, size_approx). *)
PeakWithinCapacity == peak <= Capacity

(* When run() has returned or thrown, the producer thread has ended, no    *)
(* row is left alive in the queue, and the run returned exactly when       *)
(* neither side failed and every row was applied (pipeline.hpp, "neither   *)
(* thread can be left running and no failure is swallowed").               *)
NothingLeftBehind ==
    phase = "idle" =>
        /\ producer = "returned"
        /\ \A s \in SlotIndices : slots[s] = Raw
        /\ runs > 0 =>
             (outcome.kind = "returned" <=> ~ aborted /\ consumed = Len(batch))

\* the producer is inside the batch, and what it pushes comes from there
ProducerFollowsBatch ==
    /\ tail <= Len(batch)
    /\ \A i \in 1 .. tail : sent[i] = batch[i]
    /\ pushing \in {"construct", "publish"} => tail < Len(batch) /\ producer = "pushing"
    /\ pushing = "publish" => slots[SlotOf(tail)] = batch[tail + 1]

\* the row in the consumer's hands is the next one of the batch
ConsumerFollowsQueue ==
    /\ phase \in {"popping", "checking"} => consumed = head /\ consumed < Len(batch)
    /\ phase \in {"sampling", "applying"} => consumed + 1 = head /\ moved = batch[head]
    /\ phase \notin {"idle", "popping"} => popping = "idle"
    /\ phase # "idle" => pushing # "destroyed"
    /\ consumed <= head

\* the flag tells of an error, and an error of a run that cannot complete
AbortsExplained ==
    /\ aborted <=> consumer_error # NoError \/ producer_error
    /\ consumer_error # NoError => phase \in {"idle", "joining"}
    /\ producer_error => producer = "returned" /\ tail < Len(batch)
    /\ phase = "joining" => aborted \/ consumed = Len(batch)

(* The inductive form of what follows.                                     *)
PipelineInv ==
    /\ QueueInv /\ PipelineTypeOK
    /\ ProducerFollowsBatch /\ ConsumerFollowsQueue /\ AbortsExplained
    /\ PeakWithinCapacity /\ NothingLeftBehind

Sequential ==
    INSTANCE SequentialReplay
        WITH status <- IF phase = "idle" THEN "idle"
                       ELSE IF consumer_error # NoError THEN "failed"
                       ELSE "running",
             error <- consumer_error

(* Threading changes when a row is applied, never which row, in what       *)
(* order, or how the run ends (pipeline.hpp, the determinism paragraph):   *)
(* every run of the pipeline is a run of the sequential replay.            *)
ImplementsSequentialReplay == Sequential!Spec

(* run() always comes back: neither thread waits for ever on a peer that   *)
(* is done or dead, whichever of them fails, at whatever step.             *)
EveryRunEnds == (phase # "idle") ~> (phase = "idle")
==============================================================================
