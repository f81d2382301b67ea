------------------------------ MODULE SPSCQueue ------------------------------
(***************************************************************************)
(* The lock-free single-producer single-consumer ring of                   *)
(* cpp/include/perpcarry/spsc_queue.hpp, at the grain of its atomic loads  *)
(* and stores.                                                             *)
(*                                                                         *)
(* head_ and tail_ are atomics written by one thread each.  A variable     *)
(* here holds the POSITION of such an atomic in its modification order     *)
(* (0, 1, 2, ...); the word the program reads is that position modulo      *)
(* 2^width (Word).  A load with memory_order_acquire may return any        *)
(* position from the last one that thread saw up to the current one: the   *)
(* other thread's store may not have reached it yet.                       *)
(*                                                                         *)
(* A slot is raw storage (Raw) or holds one constructed object.            *)
(***************************************************************************)
EXTENDS Integers, Sequences

CONSTANTS Values,      \* the objects that may be pushed
          Raw,         \* the content of a slot in which no object lives
          Capacity,    \* capacity_, what round_up_to_power_of_two returned
          IndexMod,    \* 2^width of std::size_t
          MaxPushes    \* bound: how many pushes a queue sees in its life

ASSUME QueueAssumption ==
    /\ Raw \notin Values
    /\ Capacity \in Nat \ {0}
    /\ IndexMod \in Nat
    \* round_up_to_power_of_two returns at most 2^(width-1) and a power of two
    /\ \E k \in 2 .. IndexMod : IndexMod = k * Capacity
    /\ MaxPushes \in Nat

VARIABLES slots,      \* slots_
          head,       \* position of head_, stored by the consumer
          tail,       \* position of tail_, stored by the producer
          headSeen,   \* the last position of head_ the producer loaded
          tailSeen,   \* the last position of tail_ the consumer loaded
          pushing,    \* where the producer is in try_push
          popping,    \* where the consumer is in try_pop
          moved,      \* the out parameter of try_pop
          sent,       \* history: the values handed to a successful try_push
          received    \* history: the values a successful try_pop returned

producerVars == <<tail, headSeen, pushing, sent>>
consumerVars == <<head, tailSeen, popping, moved, received>>
queueVars == <<slots, head, tail, headSeen, tailSeen, pushing, popping, moved,
               sent, received>>

Word(i) == i % IndexMod

\* `& mask_`, the mask being capacity_ - 1 and capacity_ a power of two
SlotOf(i) == Word(i) % Capacity

\* `a - b` on two std::size_t
Minus(a, b) == (Word(a) - Word(b)) % IndexMod

SlotIndices == 0 .. Capacity - 1

QueueInit ==
    /\ slots = [s \in SlotIndices |-> Raw]
    /\ head = 0 /\ tail = 0
    /\ headSeen = 0 /\ tailSeen = 0
    /\ pushing = "idle" /\ popping = "idle"
    /\ moved = Raw
    /\ sent = <<>> /\ received = <<>>
------------------------------------------------------------------------------
(* try_push, producer thread only *)

\* tail - head_.load(acquire) == capacity_: refuse, and never block
PushRefused ==
    /\ pushing = "idle"
    /\ \E h \in headSeen .. head :
          /\ Minus(tail, h) = Capacity
          /\ headSeen' = h
    /\ UNCHANGED <<slots, tail, pushing, sent, consumerVars>>

\* fault: a full ring takes one item more
PushAdmittedOnFull ==
    /\ pushing = "idle"
    /\ \E h \in headSeen .. head : headSeen' = h /\ Minus(tail, h) <= Capacity
    /\ pushing' = "construct"
    /\ UNCHANGED <<slots, tail, sent, consumerVars>>

\* the same load finds room: the producer goes on to fill the slot
PushAdmitted ==
    /\ pushing = "idle"
    /\ \E h \in headSeen .. head :
          /\ Minus(tail, h) # Capacity
          /\ headSeen' = h
    /\ pushing' = "construct"
    /\ UNCHANGED <<slots, tail, sent, consumerVars>>

\* placement new of v into the slot
PushConstruct(v) ==
    /\ pushing = "construct"
    /\ slots' = [slots EXCEPT ![SlotOf(tail)] = v]
    /\ pushing' = "publish"
    /\ UNCHANGED <<tail, headSeen, sent, consumerVars>>

\* tail_.store(tail + 1, release): the item becomes visible
PushPublish ==
    /\ pushing = "publish"
    /\ sent' = Append(sent, slots[SlotOf(tail)])
    /\ tail' = tail + 1
    /\ pushing' = "idle"
    /\ UNCHANGED <<slots, headSeen, consumerVars>>
------------------------------------------------------------------------------
(* try_pop, consumer thread only *)

\* head == tail_.load(acquire): nothing to take
PopEmpty ==
    /\ popping = "idle"
    /\ \E t \in tailSeen .. tail :
          /\ Word(head) = Word(t)
          /\ tailSeen' = t
    /\ UNCHANGED <<slots, head, popping, moved, received, producerVars>>

\* the same load finds an item: the consumer goes on to the slot
PopAdmitted ==
    /\ popping = "idle"
    /\ \E t \in tailSeen .. tail :
          /\ Word(head) # Word(t)
          /\ tailSeen' = t
    /\ popping' = "take"
    /\ UNCHANGED <<slots, head, moved, received, producerVars>>

\* fault: the moved-from object is left alive in its slot
PopTakeNoDestroy ==
    /\ popping = "take"
    /\ moved' = slots[SlotOf(head)]
    /\ popping' = "release"
    /\ UNCHANGED <<slots, head, tailSeen, received, producerVars>>

\* move the object out and destroy it in place
PopTake ==
    /\ popping = "take"
    /\ moved' = slots[SlotOf(head)]
    /\ slots' = [slots EXCEPT ![SlotOf(head)] = Raw]
    /\ popping' = "release"
    /\ UNCHANGED <<head, tailSeen, received, producerVars>>

\* head_.store(head + 1, release): the slot goes back to the producer
PopRelease ==
    /\ popping = "release"
    /\ received' = Append(received, moved)
    /\ head' = head + 1
    /\ popping' = "idle"
    /\ UNCHANGED <<slots, tailSeen, moved, producerVars>>
------------------------------------------------------------------------------
\* ~SPSCQueue, which runs once both threads are done with the queue
Destroy ==
    /\ pushing = "idle" /\ popping = "idle"
    /\ slots' = [s \in SlotIndices |->
                    IF \E i \in head .. tail - 1 : SlotOf(i) = s
                    THEN Raw ELSE slots[s]]
    /\ pushing' = "destroyed" /\ popping' = "destroyed"
    /\ UNCHANGED <<head, tail, headSeen, tailSeen, moved, sent, received>>
------------------------------------------------------------------------------
Producer ==
    \/ PushRefused
    \/ PushAdmitted /\ tail < MaxPushes
    \/ \E v \in Values : PushConstruct(v)
    \/ PushPublish

Consumer == PopEmpty \/ PopAdmitted \/ PopTake \/ PopRelease

QueueNext == Producer \/ Consumer \/ Destroy

QueueSpec == QueueInit /\ [][QueueNext]_queueVars
------------------------------------------------------------------------------
QueueTypeOK ==
    /\ slots \in [SlotIndices -> Values \cup {Raw}]
    /\ tail \in 0 .. MaxPushes /\ head \in 0 .. tail
    /\ headSeen \in 0 .. head /\ tailSeen \in 0 .. tail
    /\ pushing \in {"idle", "construct", "publish", "destroyed"}
    /\ popping \in {"idle", "take", "release", "destroyed"}
    /\ moved \in Values \cup {Raw}
    /\ sent \in Seq(Values) /\ received \in Seq(Values)

(* Nothing is lost, duplicated, reordered or made up on the way: what the  *)
(* consumer has popped is exactly the first `head` of the `tail` values    *)
(* that were pushed, whatever the two threads' steps and however old the   *)
(* indices they act on.  (try_push and try_pop together.)                  *)
InOrder ==
    /\ Len(sent) = tail
    /\ received = SubSeq(sent, 1, head)

(* The life of an object in a slot (placement new in try_push, ~T in       *)
(* try_pop, the destructor): an object is only ever built in raw storage,  *)
(* only ever moved out of a slot where one lives, the two threads are      *)
(* never inside the same slot, and none outlives the queue.                *)
SlotDiscipline ==
    /\ pushing = "construct" => slots[SlotOf(tail)] = Raw
    /\ popping = "take" => slots[SlotOf(head)] # Raw
    /\ pushing \in {"construct", "publish"} /\ popping = "take"
          => SlotOf(tail) # SlotOf(head)
    /\ popping = "destroyed" => \A s \in SlotIndices : slots[s] = Raw

\* the positions whose slot holds an object a push has published
Live == {i \in head .. tail - 1 : popping = "release" => i # head}

\* an index a thread acts on may be old, but never so old that it misleads
IndicesBound ==
    /\ tail - headSeen <= Capacity /\ head <= tailSeen
    /\ pushing \in {"construct", "publish"}
          => tail - headSeen < Capacity /\ tail < MaxPushes
    /\ popping \in {"take", "release"} => head < tailSeen

HistoriesAgree ==
    /\ Len(sent) = tail /\ Len(received) = head
    /\ \A i \in 1 .. head : received[i] = sent[i]
    /\ popping = "release" => moved = sent[head + 1]

SlotsHoldSent ==
    /\ popping # "destroyed" => \A i \in Live : slots[SlotOf(i)] = sent[i + 1]
    /\ pushing = "publish" => slots[SlotOf(tail)] \in Values

OtherSlotsRaw ==
    \A s \in SlotIndices :
        slots[s] # Raw =>
            \/ popping # "destroyed" /\ \E i \in Live : s = SlotOf(i)
            \/ pushing = "publish" /\ s = SlotOf(tail)

(* The inductive form of the above: which slots hold an object, which one  *)
(* each holds, and how old an index each thread may be acting on.          *)
QueueInv ==
    /\ QueueTypeOK
    /\ pushing = "destroyed" <=> popping = "destroyed"
    /\ IndicesBound
    /\ HistoriesAgree
    /\ SlotsHoldSent
    /\ OtherSlotsRaw

FIFO == INSTANCE BoundedFIFO
            WITH items <- SubSeq(sent, head + 1, tail)

(* The ring implements the bounded FIFO: the store of tail_ is the push,   *)
(* the store of head_ the pop, every other step is invisible; in           *)
(* particular at most capacity_ items are ever queued.                     *)
ImplementsFIFO == FIFO!Spec
==============================================================================
