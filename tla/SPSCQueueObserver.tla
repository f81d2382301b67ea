-------------------------- MODULE SPSCQueueObserver --------------------------
(***************************************************************************)
(* SPSCQueue from its constructor on, with a third thread that calls       *)
(* size_approx() while the producer and the consumer are at work           *)
(* (cpp/include/perpcarry/spsc_queue.hpp; a test does the same).           *)
(*                                                                         *)
(* An acquire load of head_ that reads position h also makes visible what  *)
(* the consumer knew when it stored it: the tail it had loaded.  tailAt    *)
(* remembers that tail for every release store of head_, and bounds from   *)
(* below what the following load of tail_ may return.                      *)
(***************************************************************************)
EXTENDS SPSCQueue, CapacityRounding

VARIABLES tailAt,     \* tailAt[h]: the tail the consumer knew when it stored h
          observing,  \* where the third thread is in size_approx
          obsHead,    \* the last position of head_ it loaded
          obsTail,    \* the last position of tail_ it loaded
          tailFloor,  \* the oldest tail_ it may still read
          size        \* what size_approx last returned

observerVars == <<observing, obsHead, obsTail, tailFloor, size>>
observedVars == <<queueVars, tailAt, observerVars, roundVars>>

\* fault: the load of head_ is relaxed and orders nothing
LoadHeadRelaxed ==
    /\ observing = "idle"
    /\ obsHead' \in obsHead .. head
    /\ observing' = "head"
    /\ UNCHANGED <<obsTail, tailFloor, size, tailAt, queueVars>>

\* acquire load of head_, in its own statement and first
LoadHead ==
    /\ observing = "idle"
    /\ \E h \in obsHead .. head :
          /\ obsHead' = h
          /\ tailFloor' = IF h > 0 /\ tailAt[h] > tailFloor THEN tailAt[h]
                                                            ELSE tailFloor
    /\ observing' = "head"
    /\ UNCHANGED <<obsTail, size, tailAt, queueVars>>

\* acquire load of tail_, then tail - head
LoadTail ==
    /\ observing = "head"
    /\ \E t \in tailFloor .. tail :
          /\ obsTail' = t
          /\ tailFloor' = t
          /\ size' = Minus(t, obsHead)
    /\ observing' = "idle"
    /\ UNCHANGED <<obsHead, tailAt, queueVars>>

Observer == LoadHead \/ LoadTail

ObservedInit ==
    /\ RoundInit
    /\ QueueInit
    /\ tailAt = <<>>
    /\ observing = "idle"
    /\ obsHead = 0 /\ obsTail = 0 /\ tailFloor = 0 /\ size = 0

\* the constructor has returned, and with this capacity
Constructed == state = "returned" /\ rounded = Capacity

QueueSteps ==
    \/ Producer /\ UNCHANGED <<tailAt, observerVars>>
    \/ /\ Consumer
       /\ tailAt' = IF head' # head THEN Append(tailAt, tailSeen) ELSE tailAt
       /\ UNCHANGED observerVars
    \/ Observer /\ pushing # "destroyed"
    \/ Destroy /\ observing = "idle" /\ UNCHANGED <<tailAt, observerVars>>

ObservedNext ==
    \/ RoundNext /\ UNCHANGED <<queueVars, tailAt, observerVars>>
    \/ Constructed /\ QueueSteps /\ UNCHANGED roundVars

ObservedSpec == ObservedInit /\ [][ObservedNext]_observedVars
------------------------------------------------------------------------------
(* size_approx never underflows, not even for a third thread: the tail it  *)
(* subtracts from is never older than the head it subtracts                *)
(* (spsc_queue.hpp, the comment of size_approx).                           *)
SizeNeverUnderflows == observing = "idle" => obsHead <= obsTail
==============================================================================
