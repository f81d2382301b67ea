----------------------------- MODULE QueueProofs -----------------------------
(***************************************************************************)
(* The queue, for every capacity, every index width and any number of      *)
(* pushes: types, order, the life of the objects in the slots, and that    *)
(* the ring implements the bounded FIFO; what its constructor grants, and  *)
(* that a third thread never sees size_approx underflow; and the pipeline  *)
(* over it, for every set of batches and any number of runs: that a run is *)
(* the sequential replay of its batch, and leaves neither a thread nor a   *)
(* row behind.                                                             *)
(***************************************************************************)
EXTENDS Pipeline, SPSCQueueObserver, SequenceTheorems, TLAPS

------------------------------------------------------------------------------
(* The ring.                                                               *)

(***************************************************************************)
(* Arithmetic of indices that wrap.                                        *)
(***************************************************************************)

\* Division with remainder, the only fact about \div and % the rest uses.
LEMMA DivMod ==
    ASSUME NEW a \in Int, NEW m \in Nat \ {0}
    PROVE  /\ a \div m \in Int
           /\ a % m \in 0 .. m - 1
           /\ a = m * (a \div m) + (a % m)
  BY SMT

\* The only multiple of m strictly between -m and m is 0.
LEMMA SmallMultiple ==
    ASSUME NEW m \in Nat \ {0}, NEW k \in Int, NEW r \in Int,
           r = m * k, -m < r, r < m
    PROVE  r = 0
  <1>1. CASE k >= 1
    <2>1. m * k >= m
      BY <1>1, SMT
    <2> QED BY <2>1
  <1>2. CASE k <= -1
    <2>1. m * k <= -m
      BY <1>2, SMT
    <2> QED BY <2>1
  <1>3. CASE k = 0
    BY <1>3
  <1> QED BY <1>1, <1>2, <1>3

LEMMA WordHoldsSlots == \E k \in Nat \ {0} : IndexMod = Capacity * k
  BY QueueAssumption, SMT

\* The word of an index has room for twice the capacity.
LEMMA WordIsWider ==
    /\ Capacity \in Nat \ {0}
    /\ IndexMod \in Nat \ {0}
    /\ Capacity < IndexMod
  <1>1. PICK k \in 2 .. IndexMod : IndexMod = k * Capacity
    BY QueueAssumption
  <1>2. k * Capacity >= 2 * Capacity
    BY <1>1, QueueAssumption, SMT
  <1> QED BY <1>1, <1>2, QueueAssumption

\* Masking the wrapped word is masking the position itself.
LEMMA SlotIsMod ==
    ASSUME NEW i \in Nat
    PROVE  SlotOf(i) = i % Capacity
  <1> DEFINE w == i % IndexMod
             q == i \div IndexMod
             s == w % Capacity
             p == w \div Capacity
             x == i \div Capacity
             y == i % Capacity
  <1>1. PICK k \in Nat \ {0} : IndexMod = Capacity * k
    BY WordHoldsSlots
  <1>2. /\ q \in Int /\ w \in Int /\ i = IndexMod * q + w
    BY DivMod, WordIsWider
  <1>3. /\ p \in Int /\ s \in 0 .. Capacity - 1 /\ w = Capacity * p + s
    BY <1>2, DivMod, WordIsWider
  <1>4. /\ x \in Int /\ y \in 0 .. Capacity - 1 /\ i = Capacity * x + y
    BY DivMod, WordIsWider
  <1> HIDE DEF w, q, s, p, x, y
  <1>5. i = Capacity * (k * q) + Capacity * p + s
    BY <1>1, <1>2, <1>3, WordIsWider, SMT
  <1>6. s - y = Capacity * (x - k * q - p)
    BY <1>1, <1>2, <1>3, <1>4, <1>5, WordIsWider, SMT
  <1>7. x - k * q - p \in Int
    BY <1>1, <1>2, <1>3, <1>4
  <1>8. s - y = 0
    BY <1>3, <1>4, <1>6, <1>7, SmallMultiple, WordIsWider
  <1>9. s = y
    BY <1>3, <1>4, <1>8
  <1> QED BY <1>9 DEF SlotOf, Word, s, w, y

LEMMA SlotInRange ==
    ASSUME NEW i \in Nat
    PROVE  SlotOf(i) \in SlotIndices
  BY SlotIsMod, DivMod, WordIsWider DEF SlotIndices

\* Two positions less than a capacity apart never share a slot.
LEMMA SlotsDiffer ==
    ASSUME NEW i \in Nat, NEW j \in Nat, i < j, j - i < Capacity
    PROVE  SlotOf(i) # SlotOf(j)
  <1> SUFFICES ASSUME SlotOf(i) = SlotOf(j) PROVE FALSE
    OBVIOUS
  <1> DEFINE qi == i \div Capacity
             qj == j \div Capacity
             ri == i % Capacity
             rj == j % Capacity
  <1>1. qi \in Int /\ ri \in Int /\ i = Capacity * qi + ri
    BY DivMod, WordIsWider
  <1>2. qj \in Int /\ rj \in Int /\ j = Capacity * qj + rj
    BY DivMod, WordIsWider
  <1>3. ri = rj
    BY SlotIsMod
  <1> HIDE DEF qi, qj, ri, rj
  <1>4. j - i = Capacity * (qj - qi)
    BY <1>1, <1>2, <1>3, WordIsWider, SMT
  <1>5. qj - qi \in Int /\ -Capacity < j - i
    BY <1>1, <1>2, WordIsWider
  <1>6. j - i = 0
    BY <1>4, <1>5, SmallMultiple, WordIsWider
  <1> QED BY <1>6

\* The unsigned difference of two words is the distance of the positions.
LEMMA MinusExact ==
    ASSUME NEW t \in Nat, NEW h \in Nat, h <= t, t - h < IndexMod
    PROVE  Minus(t, h) = t - h
  <1> DEFINE a == t \div IndexMod
             u == t % IndexMod
             b == h \div IndexMod
             v == h % IndexMod
             c == (u - v) \div IndexMod
             d == (u - v) % IndexMod
  <1>1. a \in Int /\ u \in Int /\ t = IndexMod * a + u
    BY DivMod, WordIsWider
  <1>2. b \in Int /\ v \in Int /\ h = IndexMod * b + v
    BY DivMod, WordIsWider
  <1>3. c \in Int /\ d \in 0 .. IndexMod - 1 /\ u - v = IndexMod * c + d
    <2>1. u - v \in Int
      BY <1>1, <1>2
    <2> QED BY <2>1, DivMod, WordIsWider
  <1>4. Minus(t, h) = d
    BY DEF Minus, Word
  <1> HIDE DEF a, u, b, v, c, d
  <1>5. (t - h) - d = IndexMod * (a - b + c)
    BY <1>1, <1>2, <1>3, WordIsWider, SMT
  <1>6. a - b + c \in Int /\ (t - h) - d < IndexMod /\ -IndexMod < (t - h) - d
    BY <1>1, <1>2, <1>3, WordIsWider
  <1>7. (t - h) - d = 0
    BY <1>3, <1>5, <1>6, SmallMultiple, WordIsWider
  <1> QED BY <1>3, <1>4, <1>7

LEMMA WordsDiffer ==
    ASSUME NEW t \in Nat, NEW h \in Nat, h <= t, t - h < IndexMod
    PROVE  Word(h) = Word(t) <=> h = t
  <1>1. Word(h) = Word(t) => Minus(t, h) = 0
    <2>1. Word(t) \in Int
      BY DivMod, WordIsWider DEF Word
    <2>2. 0 % IndexMod = 0
      <3>1. /\ 0 \div IndexMod \in Int
            /\ 0 % IndexMod \in 0 .. IndexMod - 1
            /\ 0 = IndexMod * (0 \div IndexMod) + (0 % IndexMod)
        BY DivMod, WordIsWider
      <3> QED BY <3>1, WordIsWider, SMT
    <2> QED BY <2>1, <2>2 DEF Minus
  <1> QED BY <1>1, MinusExact
(***************************************************************************)
(* The inductive invariant.                                                *)
(***************************************************************************)

\* Two different positions of the queue are in two different slots.
LEMMA QueuedSlotsDiffer ==
    ASSUME NEW lo \in Nat, NEW hi \in Nat, hi - lo <= Capacity,
           NEW i \in lo .. hi - 1, NEW j \in lo .. hi - 1, i # j
    PROVE  SlotOf(i) # SlotOf(j)
  <1>1. i \in Nat /\ j \in Nat
    OBVIOUS
  <1>2. CASE i < j
    BY <1>1, <1>2, SlotsDiffer, WordIsWider
  <1>3. CASE j < i
    BY <1>1, <1>3, SlotsDiffer, WordIsWider
  <1> QED BY <1>1, <1>2, <1>3

\* At most a capacity of positions is ever queued, and less while pushing.
LEMMA OccupancyBound ==
    ASSUME QueueTypeOK, IndicesBound
    PROVE  /\ head \in Nat /\ tail \in Nat /\ headSeen \in Nat /\ tailSeen \in Nat
           /\ tail - head <= Capacity
           /\ pushing \in {"construct", "publish"} => tail - head < Capacity
           /\ popping \in {"take", "release"} => head < tail
  BY WordIsWider, QueueAssumption DEF QueueTypeOK, IndicesBound

LEMMA QueueInitInv == QueueInit => QueueInv
  <1> SUFFICES ASSUME QueueInit PROVE QueueInv
    OBVIOUS
  <1>1. QueueTypeOK
    BY QueueAssumption DEF QueueInit, QueueTypeOK
  <1>2. IndicesBound /\ HistoriesAgree
    BY WordIsWider DEF QueueInit, IndicesBound, HistoriesAgree
  <1>3. SlotsHoldSent /\ OtherSlotsRaw
    BY DEF QueueInit, SlotsHoldSent, OtherSlotsRaw, Live
  <1> QED BY <1>1, <1>2, <1>3 DEF QueueInit, QueueInv

\* The loads that refuse or admit touch no slot: only the index seen moves.
LEMMA PushLoadInv ==
    ASSUME QueueInv, PushRefused \/ (PushAdmitted /\ tail < MaxPushes)
    PROVE  QueueInv'
  <1>1. PICK h \in headSeen .. head :
            /\ headSeen' = h
            /\ Minus(tail, h) # Capacity \/ pushing' = pushing
            /\ pushing = "idle"
            /\ pushing' \in {"idle", "construct"}
            /\ pushing' = "construct" => tail < MaxPushes
            /\ UNCHANGED <<slots, tail, sent, consumerVars>>
    BY DEF PushRefused, PushAdmitted
  <1>2. /\ head \in Nat /\ tail \in Nat /\ h \in Nat
        /\ h <= tail /\ tail - h <= Capacity
    BY <1>1, OccupancyBound, WordIsWider DEF QueueInv, QueueTypeOK, IndicesBound
  <1>3. Minus(tail, h) = tail - h
    BY <1>2, MinusExact, WordIsWider
  <1>4. QueueTypeOK'
    BY <1>1, <1>2 DEF QueueInv, QueueTypeOK, consumerVars
  <1>5. IndicesBound'
    BY <1>1, <1>2, <1>3, WordIsWider DEF QueueInv, IndicesBound, consumerVars
  <1>6. HistoriesAgree'
    BY <1>1 DEF QueueInv, HistoriesAgree, consumerVars
  <1>7. SlotsHoldSent' /\ OtherSlotsRaw'
    BY <1>1 DEF QueueInv, SlotsHoldSent, OtherSlotsRaw, Live, consumerVars
  <1> QED BY <1>1, <1>4, <1>5, <1>6, <1>7 DEF QueueInv, consumerVars

\* The slot at tail is nobody's when an object is built in it.
LEMMA PushConstructInv ==
    ASSUME QueueInv, NEW v \in Values, PushConstruct(v)
    PROVE  QueueInv'
  <1>1. /\ pushing = "construct" /\ pushing' = "publish"
        /\ slots' = [slots EXCEPT ![SlotOf(tail)] = v]
        /\ UNCHANGED <<tail, headSeen, sent, consumerVars>>
    BY DEF PushConstruct
  <1>2. /\ head \in Nat /\ tail \in Nat /\ tail - head < Capacity
        /\ SlotOf(tail) \in SlotIndices
    BY <1>1, OccupancyBound, SlotInRange DEF QueueInv
  <1>3. \A i \in Live : SlotOf(i) # SlotOf(tail)
    <2> TAKE i \in Live
    <2>1. i \in head .. (tail + 1) - 1 /\ i # tail /\ tail \in head .. (tail + 1) - 1
      BY <1>2 DEF Live, QueueInv, QueueTypeOK
    <2>2. tail + 1 \in Nat /\ (tail + 1) - head <= Capacity
      BY <1>2, WordIsWider
    <2> QED BY <1>2, <2>1, <2>2, QueuedSlotsDiffer
  <1>4. QueueTypeOK'
    BY <1>1, <1>2 DEF QueueInv, QueueTypeOK, consumerVars
  <1>5. IndicesBound' /\ HistoriesAgree'
    BY <1>1 DEF QueueInv, IndicesBound, HistoriesAgree, consumerVars
  <1>6. Live' = Live
    BY <1>1 DEF Live, consumerVars
  <1>7. \A i \in Live : SlotOf(i) \in SlotIndices
    BY <1>2, SlotInRange DEF Live
  <1>8. slots \in [SlotIndices -> Values \cup {Raw}]
    BY DEF QueueInv, QueueTypeOK
  <1>9. SlotsHoldSent'
    BY <1>1, <1>2, <1>3, <1>6, <1>7, <1>8
       DEF QueueInv, SlotsHoldSent, consumerVars
  <1>10. OtherSlotsRaw'
    BY <1>1, <1>2, <1>3, <1>6, <1>7, <1>8
       DEF QueueInv, OtherSlotsRaw, consumerVars
  <1> QED BY <1>1, <1>4, <1>5, <1>9, <1>10 DEF QueueInv, consumerVars

\* The store of tail_ makes the object just built the youngest of the queue.
LEMMA PushPublishInv ==
    ASSUME QueueInv, PushPublish
    PROVE  QueueInv'
  <1>1. /\ pushing = "publish" /\ pushing' = "idle"
        /\ sent' = Append(sent, slots[SlotOf(tail)])
        /\ tail' = tail + 1
        /\ UNCHANGED <<slots, headSeen, consumerVars>>
    BY DEF PushPublish
  <1>2. /\ head \in Nat /\ tail \in Nat /\ headSeen \in Nat
        /\ tail - head < Capacity /\ head <= tail
        /\ tail < MaxPushes /\ tail - headSeen < Capacity
    BY <1>1, OccupancyBound DEF QueueInv, QueueTypeOK, IndicesBound
  <1>3. /\ sent \in Seq(Values) /\ Len(sent) = tail
        /\ slots[SlotOf(tail)] \in Values
    BY <1>1 DEF QueueInv, QueueTypeOK, HistoriesAgree, SlotsHoldSent
  <1>4. /\ sent' \in Seq(Values) /\ Len(sent') = tail + 1
        /\ sent'[tail + 1] = slots[SlotOf(tail)]
        /\ \A i \in 1 .. tail : sent'[i] = sent[i]
    BY <1>1, <1>2, <1>3
  <1>5. QueueTypeOK'
    BY <1>1, <1>2, <1>4, QueueAssumption DEF QueueInv, QueueTypeOK, consumerVars
  <1>6. IndicesBound'
    BY <1>1, <1>2, WordIsWider DEF QueueInv, QueueTypeOK, IndicesBound, consumerVars
  <1>7. HistoriesAgree'
    <2>1. popping = "release" => head + 1 \in 1 .. tail
      BY <1>2, OccupancyBound DEF QueueInv
    <2> QED BY <1>1, <1>2, <1>4, <2>1 DEF QueueInv, HistoriesAgree, consumerVars
  <1>8. popping # "destroyed" /\ popping' = popping /\ head' = head
    BY <1>1 DEF QueueInv, consumerVars
  <1>9. Live' = Live \cup {tail}
    BY <1>1, <1>2, <1>8, OccupancyBound DEF Live, QueueInv, consumerVars
  <1>10. SlotsHoldSent'
    <2>1. ASSUME NEW i \in Live
          PROVE  slots[SlotOf(i)] = sent'[i + 1]
      BY <1>2, <1>4, <1>8 DEF Live, QueueInv, SlotsHoldSent
    <2> QED BY <1>1, <1>4, <1>8, <1>9, <2>1 DEF SlotsHoldSent
  <1>11. OtherSlotsRaw'
    BY <1>1, <1>8, <1>9 DEF QueueInv, OtherSlotsRaw
  <1> QED BY <1>1, <1>5, <1>6, <1>7, <1>8, <1>10, <1>11 DEF QueueInv

\* The loads of tail_ touch no slot either.
LEMMA PopLoadInv ==
    ASSUME QueueInv, PopEmpty \/ PopAdmitted
    PROVE  QueueInv'
  <1>1. PICK t \in tailSeen .. tail :
            /\ tailSeen' = t
            /\ Word(head) # Word(t) \/ popping' = popping
            /\ popping = "idle"
            /\ popping' \in {"idle", "take"}
            /\ UNCHANGED <<slots, head, moved, received, producerVars>>
    BY DEF PopEmpty, PopAdmitted
  <1>2. /\ head \in Nat /\ tail \in Nat /\ t \in Nat /\ tailSeen \in Nat
        /\ head <= t /\ t <= tail
    BY <1>1, OccupancyBound DEF QueueInv, QueueTypeOK, IndicesBound
  <1>3. popping' = "take" => head < t
    BY <1>1, <1>2
  <1>4. QueueTypeOK'
    BY <1>1, <1>2 DEF QueueInv, QueueTypeOK, producerVars
  <1>5. IndicesBound'
    BY <1>1, <1>2, <1>3 DEF QueueInv, IndicesBound, producerVars
  <1>6. HistoriesAgree'
    BY <1>1 DEF QueueInv, HistoriesAgree, producerVars
  <1>7. Live' = Live
    BY <1>1 DEF Live, producerVars
  <1>8. SlotsHoldSent' /\ OtherSlotsRaw'
    BY <1>1, <1>7 DEF QueueInv, SlotsHoldSent, OtherSlotsRaw, producerVars
  <1> QED BY <1>1, <1>4, <1>5, <1>6, <1>8 DEF QueueInv, producerVars

\* Moving the oldest object out and destroying it empties its slot only.
LEMMA PopTakeInv ==
    ASSUME QueueInv, PopTake
    PROVE  QueueInv'
  <1>1. /\ popping = "take" /\ popping' = "release"
        /\ moved' = slots[SlotOf(head)]
        /\ slots' = [slots EXCEPT ![SlotOf(head)] = Raw]
        /\ UNCHANGED <<head, tailSeen, received, producerVars>>
    BY DEF PopTake
  <1>2. /\ head \in Nat /\ tail \in Nat /\ head < tail
        /\ tail - head <= Capacity
        /\ pushing \in {"construct", "publish"} => tail - head < Capacity
        /\ SlotOf(head) \in SlotIndices
    BY <1>1, OccupancyBound, SlotInRange DEF QueueInv
  <1>3. Live = head .. tail - 1 /\ Live' = Live \ {head}
    BY <1>1, <1>2 DEF Live, producerVars
  <1>4. \A i \in Live' : SlotOf(i) # SlotOf(head) /\ SlotOf(i) \in SlotIndices
    BY <1>2, <1>3, QueuedSlotsDiffer, SlotInRange
  <1>5. pushing = "publish" => SlotOf(tail) # SlotOf(head)
    BY <1>2, SlotsDiffer
  <1>6. slots \in [SlotIndices -> Values \cup {Raw}]
    BY DEF QueueInv, QueueTypeOK
  <1>7. QueueTypeOK'
    BY <1>1, <1>2, <1>6 DEF QueueInv, QueueTypeOK, producerVars
  <1>8. IndicesBound'
    BY <1>1 DEF QueueInv, IndicesBound, producerVars
  <1>9. moved' = sent[head + 1]
    BY <1>1, <1>2, <1>3 DEF QueueInv, SlotsHoldSent
  <1>10. HistoriesAgree'
    BY <1>1, <1>9 DEF QueueInv, HistoriesAgree, producerVars
  <1>11. SlotsHoldSent'
    <2>1. ASSUME NEW i \in Live'
          PROVE  slots'[SlotOf(i)] = sent[i + 1]
      BY <1>1, <1>3, <1>4, <1>6 DEF QueueInv, SlotsHoldSent
    <2>2. SlotOf(tail) \in SlotIndices
      BY <1>2, SlotInRange
    <2>3. pushing = "publish" => slots'[SlotOf(tail)] \in Values
      BY <1>1, <1>5, <1>6, <2>2 DEF QueueInv, SlotsHoldSent
    <2> QED BY <1>1, <2>1, <2>3 DEF SlotsHoldSent, producerVars
  <1>12. OtherSlotsRaw'
    <2> SUFFICES ASSUME NEW s \in SlotIndices, slots'[s] # Raw
                 PROVE  \/ popping' # "destroyed" /\ \E i \in Live' : s = SlotOf(i)
                        \/ pushing' = "publish" /\ s = SlotOf(tail)'
      BY DEF OtherSlotsRaw
    <2>1. s # SlotOf(head) /\ slots[s] # Raw
      BY <1>1, <1>2, <1>6
    <2>2. CASE \E i \in Live : s = SlotOf(i)
      BY <1>1, <1>3, <2>1, <2>2
    <2>3. CASE pushing = "publish" /\ s = SlotOf(tail)
      BY <1>1, <2>3 DEF producerVars
    <2> QED BY <2>1, <2>2, <2>3 DEF QueueInv, OtherSlotsRaw
  <1> QED BY <1>1, <1>7, <1>8, <1>10, <1>11, <1>12 DEF QueueInv, producerVars

\* The store of head_ gives back a slot that is already empty.
LEMMA PopReleaseInv ==
    ASSUME QueueInv, PopRelease
    PROVE  QueueInv'
  <1>1. /\ popping = "release" /\ popping' = "idle"
        /\ received' = Append(received, moved)
        /\ head' = head + 1
        /\ UNCHANGED <<slots, tailSeen, moved, producerVars>>
    BY DEF PopRelease
  <1>2. /\ head \in Nat /\ tail \in Nat /\ headSeen \in Nat /\ tailSeen \in Nat
        /\ head < tail /\ head < tailSeen /\ headSeen <= head
    BY <1>1, OccupancyBound DEF QueueInv, QueueTypeOK, IndicesBound
  <1>3. /\ received \in Seq(Values) /\ Len(received) = head
        /\ sent \in Seq(Values) /\ Len(sent) = tail
        /\ moved = sent[head + 1] /\ moved \in Values
    BY <1>1, <1>2 DEF QueueInv, QueueTypeOK, HistoriesAgree
  <1>4. /\ received' \in Seq(Values) /\ Len(received') = head + 1
        /\ received'[head + 1] = sent[head + 1]
        /\ \A i \in 1 .. head : received'[i] = received[i]
    BY <1>1, <1>2, <1>3
  <1>5. QueueTypeOK'
    BY <1>1, <1>2, <1>4 DEF QueueInv, QueueTypeOK, producerVars
  <1>6. IndicesBound'
    BY <1>1, <1>2 DEF QueueInv, IndicesBound, producerVars
  <1>7. HistoriesAgree'
    BY <1>1, <1>2, <1>4 DEF QueueInv, HistoriesAgree, producerVars
  <1>8. Live' = Live
    BY <1>1, <1>2 DEF Live, producerVars
  <1>9. SlotsHoldSent' /\ OtherSlotsRaw'
    BY <1>1, <1>8 DEF QueueInv, SlotsHoldSent, OtherSlotsRaw, producerVars
  <1> QED BY <1>1, <1>5, <1>6, <1>7, <1>9 DEF QueueInv, producerVars

\* The destructor empties every slot that still held an object.
LEMMA DestroyInv ==
    ASSUME QueueInv, Destroy
    PROVE  QueueInv' /\ \A s \in SlotIndices : slots'[s] = Raw
  <1>1. /\ pushing = "idle" /\ popping = "idle"
        /\ pushing' = "destroyed" /\ popping' = "destroyed"
        /\ slots' = [s \in SlotIndices |->
                        IF \E i \in head .. tail - 1 : SlotOf(i) = s
                        THEN Raw ELSE slots[s]]
        /\ UNCHANGED <<head, tail, headSeen, tailSeen, moved, sent, received>>
    BY DEF Destroy
  <1>2. Live = head .. tail - 1
    BY <1>1 DEF Live
  <1>3. \A s \in SlotIndices : slots'[s] = Raw
    BY <1>1, <1>2 DEF QueueInv, OtherSlotsRaw
  <1>4. QueueTypeOK'
    BY <1>1, <1>3 DEF QueueInv, QueueTypeOK
  <1>5. IndicesBound' /\ HistoriesAgree'
    BY <1>1 DEF QueueInv, IndicesBound, HistoriesAgree
  <1>6. SlotsHoldSent' /\ OtherSlotsRaw'
    BY <1>1, <1>3 DEF SlotsHoldSent, OtherSlotsRaw
  <1> QED BY <1>1, <1>3, <1>4, <1>5, <1>6 DEF QueueInv

LEMMA QueueNextInv == QueueInv /\ [QueueNext]_queueVars => QueueInv'
  <1> SUFFICES ASSUME QueueInv, [QueueNext]_queueVars PROVE QueueInv'
    OBVIOUS
  <1>1. CASE Producer
    BY <1>1, PushLoadInv, PushConstructInv, PushPublishInv DEF Producer
  <1>2. CASE Consumer
    BY <1>2, PopLoadInv, PopTakeInv, PopReleaseInv DEF Consumer
  <1>3. CASE Destroy
    BY <1>3, DestroyInv
  <1>4. CASE UNCHANGED queueVars
    BY <1>4 DEF queueVars, QueueInv, QueueTypeOK, IndicesBound, HistoriesAgree,
                SlotsHoldSent, OtherSlotsRaw, Live
  <1> QED BY <1>1, <1>2, <1>3, <1>4 DEF QueueNext

(* The inductive invariant holds in every reachable state of the queue.    *)
THEOREM QueueInvariant == QueueSpec => []QueueInv
  <1>1. QueueInit => QueueInv
    BY QueueInitInv
  <1>2. QueueInv /\ [QueueNext]_queueVars => QueueInv'
    BY QueueNextInv
  <1> QED BY <1>1, <1>2, PTL DEF QueueSpec
(***************************************************************************)
(* What follows from it.                                                   *)
(***************************************************************************)

(* Every variable of the queue keeps its type, and head never passes tail. *)
THEOREM QueueTypes == QueueSpec => []QueueTypeOK
  BY QueueInvariant, PTL DEF QueueInv

(* What was popped is a prefix of what was pushed, item for item.          *)
THEOREM QueueInOrder == QueueSpec => []InOrder
  <1>1. QueueInv => InOrder
    <2> SUFFICES ASSUME QueueInv PROVE InOrder
      OBVIOUS
    <2>1. /\ head \in Nat /\ tail \in Nat /\ head <= tail
          /\ sent \in Seq(Values) /\ received \in Seq(Values)
          /\ Len(sent) = tail /\ Len(received) = head
          /\ \A i \in 1 .. head : received[i] = sent[i]
      BY OccupancyBound DEF QueueInv, QueueTypeOK, HistoriesAgree
    <2>2. /\ SubSeq(sent, 1, head) \in Seq(Values)
          /\ Len(SubSeq(sent, 1, head)) = head
          /\ \A i \in 1 .. head : SubSeq(sent, 1, head)[i] = sent[i]
      BY <2>1
    <2>3. received = SubSeq(sent, 1, head)
      BY <2>1, <2>2
    <2> QED BY <2>1, <2>3 DEF InOrder
  <1> QED BY <1>1, QueueInvariant, PTL

(* Objects are built in raw storage only, moved out only where one lives,  *)
(* never by both threads in one slot, and none outlives the queue.         *)
THEOREM QueueSlotDiscipline == QueueSpec => []SlotDiscipline
  <1>1. QueueInv => SlotDiscipline
    <2> SUFFICES ASSUME QueueInv PROVE SlotDiscipline
      OBVIOUS
    <2>1. /\ head \in Nat /\ tail \in Nat /\ head <= tail
          /\ pushing \in {"construct", "publish"} => tail - head < Capacity
          /\ popping \in {"take", "release"} => head < tail
      BY OccupancyBound DEF QueueInv, QueueTypeOK
    <2>2. SlotOf(tail) \in SlotIndices
      BY <2>1, SlotInRange
    <2>3. ASSUME pushing = "construct"
          PROVE  slots[SlotOf(tail)] = Raw
      <3>1. ASSUME NEW i \in Live PROVE SlotOf(i) # SlotOf(tail)
        <4>1. i \in Nat /\ i < tail /\ tail - i < Capacity
          BY <2>1, <2>3, WordIsWider DEF Live
        <4> QED BY <2>1, <4>1, SlotsDiffer
      <3> QED BY <2>2, <2>3, <3>1 DEF QueueInv, OtherSlotsRaw
    <2>4. ASSUME popping = "take"
          PROVE  slots[SlotOf(head)] # Raw
      <3>1. head \in Live /\ head + 1 \in 1 .. tail
        BY <2>1, <2>4 DEF Live
      <3>2. slots[SlotOf(head)] = sent[head + 1] /\ sent[head + 1] \in Values
        BY <2>4, <3>1 DEF QueueInv, QueueTypeOK, HistoriesAgree, SlotsHoldSent
      <3> QED BY <3>2, QueueAssumption
    <2>5. ASSUME pushing \in {"construct", "publish"}, popping = "take"
          PROVE  SlotOf(tail) # SlotOf(head)
      BY <2>1, <2>5, SlotsDiffer
    <2>6. ASSUME popping = "destroyed"
          PROVE  \A s \in SlotIndices : slots[s] = Raw
      BY <2>6 DEF QueueInv, OtherSlotsRaw
    <2> QED BY <2>3, <2>4, <2>5, <2>6 DEF SlotDiscipline
  <1> QED BY <1>1, QueueInvariant, PTL

\* Dropping the first h of s and appending v, in either order.
LEMMA DropThenAppend ==
    ASSUME NEW S, NEW s \in Seq(S), NEW v \in S, NEW h \in 0 .. Len(s)
    PROVE  SubSeq(Append(s, v), h + 1, Len(s) + 1) = Append(SubSeq(s, h + 1, Len(s)), v)
  <1> DEFINE n == Len(s) - h
             l == SubSeq(Append(s, v), h + 1, Len(s) + 1)
             d == SubSeq(s, h + 1, Len(s))
             r == Append(d, v)
  <1>1. Append(s, v) \in Seq(S) /\ Len(Append(s, v)) = Len(s) + 1 /\ n \in Nat
    OBVIOUS
  <1>2. /\ l \in Seq(S) /\ Len(l) = n + 1
        /\ \A i \in 1 .. n + 1 : l[i] = Append(s, v)[h + i]
    BY <1>1
  <1>3. d \in Seq(S) /\ Len(d) = n /\ \A i \in 1 .. n : d[i] = s[h + i]
    BY <1>1
  <1> HIDE DEF d
  <1>4. /\ r \in Seq(S) /\ Len(r) = n + 1
        /\ \A i \in 1 .. n : r[i] = d[i]
        /\ r[n + 1] = v
    BY <1>1, <1>3
  <1>5. \A i \in 1 .. n : Append(s, v)[h + i] = s[h + i]
    OBVIOUS
  <1>6. Append(s, v)[h + (n + 1)] = v
    OBVIOUS
  <1> HIDE DEF l, r, n
  <1>7. \A i \in 1 .. n + 1 : l[i] = r[i]
    <2> SUFFICES ASSUME NEW i \in 1 .. n + 1 PROVE l[i] = r[i]
      OBVIOUS
    <2>1. CASE i = n + 1
      BY <1>2, <1>4, <1>6, <2>1
    <2>2. CASE i \in 1 .. n
      BY <1>2, <1>3, <1>4, <1>5, <2>2
    <2> QED BY <1>1, <2>1, <2>2
  <1>8. l = r
    BY <1>1, <1>2, <1>4, <1>7
  <1> QED BY <1>8 DEF l, r, d

\* Dropping one more is taking the tail.
LEMMA DropOneMore ==
    ASSUME NEW S, NEW s \in Seq(S), NEW h \in 0 .. Len(s) - 1
    PROVE  /\ SubSeq(s, h + 1, Len(s)) # <<>>
           /\ Head(SubSeq(s, h + 1, Len(s))) = s[h + 1]
           /\ SubSeq(s, h + 2, Len(s)) = Tail(SubSeq(s, h + 1, Len(s)))
  <1> DEFINE n == Len(s) - h
             d == SubSeq(s, h + 1, Len(s))
             l == SubSeq(s, h + 2, Len(s))
  <1>1. d \in Seq(S) /\ Len(d) = n /\ \A i \in 1 .. n : d[i] = s[h + i]
    OBVIOUS
  <1>2. l \in Seq(S) /\ Len(l) = n - 1 /\ \A i \in 1 .. n - 1 : l[i] = s[h + 1 + i]
    OBVIOUS
  <1>3. n \in Nat \ {0}
    OBVIOUS
  <1> HIDE DEF d, l
  <1>4. d # <<>> /\ Head(d) = s[h + 1]
    BY <1>1, <1>3
  <1>5. l = Tail(d)
    <2>1. Tail(d) \in Seq(S) /\ Len(Tail(d)) = n - 1
      BY <1>1, <1>3
    <2>2. \A i \in 1 .. n - 1 : Tail(d)[i] = s[h + 1 + i]
      BY <1>1, <1>3
    <2>3. n - 1 \in Nat /\ Len(l) = n - 1 /\ l \in Seq(S)
      BY <1>2, <1>3
    <2> HIDE DEF n
    <2> QED BY <1>2, <2>1, <2>2, <2>3, SeqEqual
  <1> QED BY <1>4, <1>5 DEF d, l

\* Publishing appends to the queued items, releasing takes the first away.
LEMMA PublishIsPush ==
    ASSUME QueueInv, PushPublish
    PROVE  \E v \in Values : FIFO!Push(v)
  <1> DEFINE v == slots[SlotOf(tail)]
  <1>1. /\ head \in 0 .. Len(sent) /\ tail - head < Capacity
        /\ sent \in Seq(Values) /\ Len(sent) = tail /\ v \in Values
    BY OccupancyBound DEF PushPublish, QueueInv, QueueTypeOK, HistoriesAgree, SlotsHoldSent
  <1>2. /\ sent' = Append(sent, v) /\ tail' = tail + 1
        /\ head' = head /\ received' = received
    BY DEF PushPublish, consumerVars
  <1> HIDE DEF v
  <1>3. Len(SubSeq(sent, head + 1, tail)) = tail - head
    BY <1>1
  <1>4. SubSeq(sent, head + 1, tail)' = Append(SubSeq(sent, head + 1, tail), v)
    BY <1>1, <1>2, DropThenAppend
  <1> QED BY <1>1, <1>2, <1>3, <1>4 DEF FIFO!Push

LEMMA ReleaseIsPop ==
    ASSUME QueueInv, PopRelease
    PROVE  FIFO!Pop
  <1>1. /\ head \in 0 .. Len(sent) - 1
        /\ sent \in Seq(Values) /\ Len(sent) = tail
        /\ moved = sent[head + 1]
    BY OccupancyBound DEF PopRelease, QueueInv, QueueTypeOK, HistoriesAgree
  <1>2. /\ head' = head + 1 /\ received' = Append(received, moved)
        /\ sent' = sent /\ tail' = tail
    BY DEF PopRelease, producerVars
  <1>3. head' + 1 = head + 2
    BY <1>1, <1>2
  <1> QED BY <1>1, <1>2, <1>3, DropOneMore DEF FIFO!Pop

(* The ring of slots and indices implements the bounded FIFO.              *)
THEOREM QueueImplementsFIFO == QueueSpec => ImplementsFIFO
  <1>1. QueueInit => FIFO!Init
    BY DEF QueueInit, FIFO!Init
  <1>2. QueueInv /\ [QueueNext]_queueVars => [FIFO!Next]_(FIFO!fifoVars)
    <2> SUFFICES ASSUME QueueInv, [QueueNext]_queueVars
                 PROVE  FIFO!Next \/ UNCHANGED <<sent, head, tail, received>>
      BY DEF FIFO!fifoVars
    <2>1. CASE PushPublish
      BY <2>1, PublishIsPush DEF FIFO!Next
    <2>2. CASE PopRelease
      BY <2>2, ReleaseIsPop DEF FIFO!Next
    <2>3. CASE PushRefused \/ PushAdmitted \/ \E v \in Values : PushConstruct(v)
      BY <2>3 DEF PushRefused, PushAdmitted, PushConstruct, consumerVars
    <2>4. CASE PopEmpty \/ PopAdmitted \/ PopTake
      BY <2>4 DEF PopEmpty, PopAdmitted, PopTake, producerVars
    <2>5. CASE Destroy
      BY <2>5 DEF Destroy
    <2>6. CASE UNCHANGED queueVars
      BY <2>6 DEF queueVars
    <2> QED BY <2>1, <2>2, <2>3, <2>4, <2>5, <2>6 DEF QueueNext, Producer, Consumer
  <1> QED BY <1>1, <1>2, QueueInvariant, PTL DEF QueueSpec, ImplementsFIFO, FIFO!Spec

------------------------------------------------------------------------------
(* The constructor, and a third thread.                                    *)

(* Where the loop of the constructor is: what it has doubled so far still  *)
(* divides the word at least twice, and was too small the turn before.     *)
RoundInv ==
    /\ capacity \in 0 .. Words - 1
    /\ rounded \in Nat \ {0}
    /\ \E k \in 2 .. Words : Words = k * rounded
    /\ rounded > 1 => rounded \div 2 < capacity
    /\ state \in {"looping", "returned", "threw"}
    /\ state = "returned" => capacity <= rounded
    /\ state = "threw" => capacity = 0 \/ capacity > Words \div 2

(* What the third thread knows: a head it has loaded comes with the tail   *)
(* the consumer knew when it stored that head, which is not behind it.     *)
ObserverInv ==
    /\ QueueInv
    /\ tailAt \in Seq(Nat) /\ Len(tailAt) = head
    /\ \A h \in 1 .. head : h <= tailAt[h] /\ tailAt[h] <= tail
    /\ observing \in {"idle", "head"}
    /\ obsHead \in 0 .. head /\ obsTail \in 0 .. tail /\ tailFloor \in 0 .. tail
    /\ obsHead <= tailFloor
    /\ observing = "idle" => tailFloor = obsTail

(***************************************************************************)
(* The constructor.                                                        *)
(***************************************************************************)

\* An even number of equal parts can be put together two by two.
LEMMA HalvesOfWords ==
    ASSUME NEW k \in 2 .. Words, NEW r \in Nat \ {0}, Words = k * r,
           2 * r < Words
    PROVE  \E j \in 2 .. Words : Words = j * (2 * r)
  <1>1. Words % k = 0
    <2>1. /\ Words \div k \in Int /\ Words % k \in 0 .. k - 1
          /\ Words = k * (Words \div k) + (Words % k)
      <3>1. k \in Nat \ {0} /\ Words \in Int
        BY WordsAssumption
      <3> QED BY <3>1, DivMod
    <2>2. Words % k = k * (r - Words \div k)
      BY <2>1, SMT
    <2>3. r - Words \div k \in Int /\ -k < Words % k /\ Words % k < k
      BY <2>1
    <2> QED BY <2>1, <2>2, <2>3, SmallMultiple
  <1>2. k % 2 = 0
    BY <1>1, WordsAssumption
  <1>3. PICK j \in Int : k = 2 * j
    <2>1. k \div 2 \in Int /\ k = 2 * (k \div 2) + (k % 2)
      BY DivMod
    <2> QED BY <1>2, <2>1
  <1>4. Words = j * (2 * r)
    BY <1>3, SMT
  <1>5. j # 1
    BY <1>4
  <1>6. j \in 2 .. Words
    BY <1>3, <1>5
  <1> QED BY <1>4, <1>6

LEMMA RoundInitInv == RoundInit => RoundInv
  <1> SUFFICES ASSUME RoundInit PROVE RoundInv
    OBVIOUS
  <1>1. Words \in 2 .. Words /\ Words = Words * 1
    BY WordsAssumption
  <1> QED BY <1>1, WordsAssumption DEF RoundInit, RoundInv

LEMMA DoubleInv == RoundInv /\ Double => RoundInv'
  <1> SUFFICES ASSUME RoundInv, Double PROVE RoundInv'
    OBVIOUS
  <1>1. /\ rounded \in Nat \ {0} /\ capacity \in 0 .. Words - 1
        /\ rounded < capacity /\ state = "looping"
        /\ capacity' = capacity /\ state' = state
    BY DEF RoundInv, Double
  <1>2. 2 * rounded < Words
    <2>1. rounded <= (Words - 1) \div 2
      BY <1>1, WordsAssumption DEF Double, TooLarge
    <2>2. /\ (Words - 1) \div 2 \in Int /\ (Words - 1) % 2 \in 0 .. 1
          /\ Words - 1 = 2 * ((Words - 1) \div 2) + ((Words - 1) % 2)
      BY DivMod, WordsAssumption
    <2> QED BY <1>1, <2>1, <2>2, WordsAssumption
  <1>3. rounded' = 2 * rounded
    <2>1. rounded' = (2 * rounded) % Words
      BY <1>1 DEF Double
    <2>2. 2 * rounded \in Nat /\ 2 * rounded < Words
      BY <1>1, <1>2
    <2> QED BY <2>1, <2>2, WordsAssumption
  <1>4. \E j \in 2 .. Words : Words = j * rounded'
    BY <1>1, <1>2, <1>3, HalvesOfWords DEF RoundInv
  <1>5. rounded' \in Nat \ {0} /\ rounded' \div 2 < capacity
    BY <1>1, <1>3
  <1> QED BY <1>1, <1>4, <1>5 DEF RoundInv

LEMMA RefuseInv == RoundInv /\ Refuse => RoundInv'
  <1> SUFFICES ASSUME RoundInv, Refuse PROVE RoundInv'
    OBVIOUS
  <1>1. /\ rounded \in Nat \ {0} /\ capacity \in 0 .. Words - 1
        /\ rounded < capacity /\ rounded > (Words - 1) \div 2
        /\ UNCHANGED <<capacity, rounded>> /\ state' = "threw"
    BY DEF RoundInv, Refuse, TooLarge
  <1>2. Words <= 2 * rounded
    BY <1>1, WordsAssumption
  <1>3. Words \div 2 <= rounded
    BY <1>1, <1>2, WordsAssumption
  <1>4. capacity > Words \div 2
    BY <1>1, <1>3, WordsAssumption
  <1> QED BY <1>1, <1>4 DEF RoundInv

LEMMA RoundNextInv == RoundInv /\ [RoundNext]_roundVars => RoundInv'
  <1> SUFFICES ASSUME RoundInv, [RoundNext]_roundVars PROVE RoundInv'
    OBVIOUS
  <1>1. CASE Double
    BY <1>1, DoubleInv
  <1>2. CASE Refuse
    BY <1>2, RefuseInv
  <1>3. CASE Return
    BY <1>3 DEF RoundInv, Return
  <1>4. CASE UNCHANGED roundVars
    BY <1>4 DEF RoundInv, roundVars
  <1> QED BY <1>1, <1>2, <1>3, <1>4 DEF RoundNext

LEMMA RoundIsLeast == RoundInv => RoundedIsLeastPowerOfTwo
  BY DEF RoundInv, RoundedIsLeastPowerOfTwo

(***************************************************************************)
(* The third thread.                                                       *)
(***************************************************************************)

LEMMA ObserverTypes ==
    ASSUME ObserverInv
    PROVE  /\ head \in Nat /\ tail \in Nat /\ head <= tail
           /\ tailSeen \in Nat /\ tailSeen <= tail
           /\ popping = "release" => head < tailSeen
  BY QueueAssumption DEF ObserverInv, QueueInv, QueueTypeOK, IndicesBound

LEMMA ObservedInitInv == ObservedInit => ObserverInv
  <1> SUFFICES ASSUME ObservedInit PROVE ObserverInv
    OBVIOUS
  <1>1. QueueInv
    BY QueueInitInv DEF ObservedInit
  <1> QED BY <1>1 DEF ObservedInit, QueueInit, ObserverInv

LEMMA ProducerKeeps == ObserverInv /\ Producer /\ UNCHANGED <<tailAt, observerVars>>
                         => ObserverInv'
  <1> SUFFICES ASSUME ObserverInv, Producer, UNCHANGED <<tailAt, observerVars>>
               PROVE  ObserverInv'
    OBVIOUS
  <1>1. QueueInv'
    BY QueueNextInv DEF ObserverInv, QueueNext
  <1>2. head' = head /\ tail' \in Nat /\ tail <= tail'
    BY ObserverTypes DEF Producer, PushRefused, PushAdmitted, PushConstruct,
                         PushPublish, consumerVars
  <1> QED BY <1>1, <1>2, ObserverTypes DEF ObserverInv, observerVars

LEMMA ConsumerKeeps ==
    ASSUME ObserverInv, Consumer, UNCHANGED observerVars,
           tailAt' = IF head' # head THEN Append(tailAt, tailSeen) ELSE tailAt
    PROVE  ObserverInv'
  <1>1. QueueInv'
    BY QueueNextInv DEF ObserverInv, QueueNext
  <1>2. tail' = tail
    BY DEF Consumer, PopEmpty, PopAdmitted, PopTake, PopRelease, producerVars
  <1>3. CASE head' = head
    BY <1>1, <1>2, <1>3 DEF ObserverInv, observerVars
  <1>4. CASE head' # head
    <2>1. head' = head + 1 /\ popping = "release"
      BY <1>4 DEF Consumer, PopEmpty, PopAdmitted, PopTake, PopRelease
    <2>2. tailAt' \in Seq(Nat) /\ Len(tailAt') = head'
      BY <1>4, <2>1, ObserverTypes DEF ObserverInv
    <2>3. ASSUME NEW h \in 1 .. head'
          PROVE  h <= tailAt'[h] /\ tailAt'[h] <= tail'
      BY <1>2, <1>4, <2>1, ObserverTypes DEF ObserverInv
    <2> QED BY <1>1, <1>2, <2>1, <2>2, <2>3, ObserverTypes
            DEF ObserverInv, observerVars
  <1> QED BY <1>3, <1>4

LEMMA LoadHeadKeeps == ObserverInv /\ LoadHead => ObserverInv'
  <1> SUFFICES ASSUME ObserverInv, LoadHead PROVE ObserverInv'
    OBVIOUS
  <1>1. QueueInv'
    BY QueueNextInv DEF ObserverInv, LoadHead
  <1>2. PICK h \in obsHead .. head :
          /\ obsHead' = h
          /\ tailFloor' = IF h > 0 /\ tailAt[h] > tailFloor THEN tailAt[h]
                                                            ELSE tailFloor
    BY DEF LoadHead
  <1>3. h > 0 => h \in 1 .. head /\ tailAt[h] \in Nat
                 /\ h <= tailAt[h] /\ tailAt[h] <= tail
    BY <1>2, ObserverTypes DEF ObserverInv
  <1>4. tailFloor' \in 0 .. tail /\ obsHead' <= tailFloor' /\ obsHead' \in 0 .. head
    BY <1>2, <1>3, ObserverTypes DEF ObserverInv
  <1> QED BY <1>1, <1>4 DEF ObserverInv, LoadHead, queueVars

LEMMA LoadTailKeeps == ObserverInv /\ LoadTail => ObserverInv'
  <1> SUFFICES ASSUME ObserverInv, LoadTail PROVE ObserverInv'
    OBVIOUS
  <1>1. QueueInv'
    BY QueueNextInv DEF ObserverInv, LoadTail
  <1>2. /\ obsTail' = tailFloor' /\ tailFloor' \in tailFloor .. tail
        /\ UNCHANGED <<obsHead, tailAt, head, tail>> /\ observing' = "idle"
    BY DEF LoadTail, queueVars
  <1> QED BY <1>1, <1>2, ObserverTypes DEF ObserverInv

LEMMA QueueStepsKeep == ObserverInv /\ QueueSteps => ObserverInv'
  <1> SUFFICES ASSUME ObserverInv, QueueSteps PROVE ObserverInv'
    OBVIOUS
  <1>1. CASE Destroy /\ UNCHANGED <<tailAt, observerVars>>
    <2>1. QueueInv'
      BY <1>1, QueueNextInv DEF ObserverInv, QueueNext
    <2> QED BY <1>1, <2>1 DEF ObserverInv, observerVars, Destroy
  <1> QED BY <1>1, ProducerKeeps, ConsumerKeeps, LoadHeadKeeps, LoadTailKeeps
          DEF QueueSteps, Observer

LEMMA RoundStepsKeep ==
    ObserverInv /\ UNCHANGED <<queueVars, tailAt, observerVars>> => ObserverInv'
  <1> SUFFICES ASSUME ObserverInv, UNCHANGED <<queueVars, tailAt, observerVars>>
               PROVE  ObserverInv'
    OBVIOUS
  <1>1. QueueInv'
    BY QueueNextInv DEF ObserverInv
  <1> QED BY <1>1 DEF ObserverInv, queueVars, observerVars

(* Constructor, producer, consumer, third thread and destructor: every     *)
(* step keeps the queue's invariant and what the third thread knows.       *)
THEOREM ObservedInvariant == ObservedSpec => [](RoundInv /\ ObserverInv)
  <1>1. ObservedInit => RoundInv /\ ObserverInv
    BY RoundInitInv, ObservedInitInv DEF ObservedInit
  <1>2. RoundInv /\ ObserverInv /\ [ObservedNext]_observedVars
          => (RoundInv /\ ObserverInv)'
    <2> SUFFICES ASSUME RoundInv, ObserverInv, [ObservedNext]_observedVars
                 PROVE  RoundInv' /\ ObserverInv'
      OBVIOUS
    <2>1. RoundInv'
      BY RoundNextInv DEF ObservedNext, observedVars
    <2>2. ObserverInv'
      BY QueueStepsKeep, RoundStepsKeep DEF ObservedNext, observedVars
    <2> QED BY <2>1, <2>2
  <1> QED BY <1>1, <1>2, PTL DEF ObservedSpec

(* The capacity granted is the least power of two that holds what was      *)
(* asked for, and only what no such power holds is refused, for every      *)
(* width of the word (round_up_to_power_of_two).                           *)
THEOREM CapacityAlwaysLeastPower == ObservedSpec => []RoundedIsLeastPowerOfTwo
  BY ObservedInvariant, RoundIsLeast, PTL

(* size_approx never subtracts a head from an older tail, whatever the     *)
(* three threads do and however old the values they load.                  *)
THEOREM SizeNeverWraps == ObservedSpec => []SizeNeverUnderflows
  <1>1. ObserverInv => SizeNeverUnderflows
    BY ObserverTypes DEF ObserverInv, SizeNeverUnderflows
  <1> QED BY <1>1, ObservedInvariant, PTL

(* Seen without its observer the queue is the queue the other theorems are *)
(* about: they hold of it.                                                 *)
THEOREM ObservedQueueIsTheQueue == ObservedSpec => QueueSpec
  <1>1. ObservedInit => QueueInit
    BY DEF ObservedInit
  <1>2. [ObservedNext]_observedVars => [QueueNext]_queueVars
    BY DEF ObservedNext, observedVars, QueueSteps, QueueNext, Observer, LoadHead,
           LoadTail
  <1> QED BY <1>1, <1>2, PTL DEF ObservedSpec, QueueSpec

------------------------------------------------------------------------------
(* The pipeline.                                                           *)

\* The types the steps below need of the state they start from.
LEMMA PipelineTypes ==
    ASSUME PipelineInv
    PROVE  /\ head \in Nat /\ tail \in Nat /\ head <= tail
           /\ batch \in Seq(Values) /\ Len(batch) \in Nat /\ Len(batch) <= MaxPushes
           /\ consumed \in Nat
           /\ tail <= Len(batch)
  <1>1. batch \in Seq(Values) /\ Len(batch) <= MaxPushes
    <2>1. CASE batch = <<>>
      <3>1. <<>> \in Seq(Values) /\ Len(<<>>) = 0
        OBVIOUS
      <3> QED BY <2>1, <3>1, QueueAssumption
    <2>2. CASE batch \in Batches
      BY <2>2, PipelineAssumption
    <2> QED BY <2>1, <2>2 DEF PipelineInv, PipelineTypeOK
  <1>2. Len(batch) \in Nat
    BY <1>1
  <1>3. head \in Nat /\ tail \in Nat /\ head <= tail
    BY OccupancyBound DEF PipelineInv, QueueInv, QueueTypeOK
  <1> QED BY <1>1, <1>2, <1>3 DEF PipelineInv, PipelineTypeOK, ProducerFollowsBatch

LEMMA PipelineInitInv == PipelineInit => PipelineInv
  <1> SUFFICES ASSUME PipelineInit PROVE PipelineInv
    OBVIOUS
  <1>1. QueueInv
    BY QueueInitInv DEF PipelineInit
  <1>2. PipelineTypeOK
    <2>1. runs \in 0 .. MaxRuns
      BY PipelineAssumption DEF PipelineInit
    <2>2. consumed \in 0 .. Len(batch)
      BY DEF PipelineInit
    <2> QED BY <1>1, <2>1, <2>2 DEF PipelineInit, PipelineTypeOK, QueueInv
  <1>3. ProducerFollowsBatch /\ ConsumerFollowsQueue /\ AbortsExplained
    BY DEF PipelineInit, QueueInit, ProducerFollowsBatch, ConsumerFollowsQueue,
           AbortsExplained
  <1>4. PeakWithinCapacity /\ NothingLeftBehind
    BY WordIsWider DEF PipelineInit, QueueInit, PeakWithinCapacity, NothingLeftBehind
  <1> QED BY <1>1, <1>2, <1>3, <1>4 DEF PipelineInv

\* A new run starts from a new queue.
LEMMA BeginRunInv ==
    ASSUME PipelineInv, NEW b \in Batches, BeginRun(b)
    PROVE  PipelineInv'
  <1>1. b \in Seq(Values) /\ Len(b) \in Nat
    BY PipelineAssumption
  <1>2. QueueInv'
    <2>1. QueueInit'
      BY DEF BeginRun, QueueInit
    <2>2. QueueInit' => QueueInv'
      BY QueueInitInv, PTL
    <2> QED BY <2>1, <2>2
  <1>3. PipelineTypeOK'
    <2>1. runs' \in 0 .. MaxRuns
      BY PipelineAssumption DEF PipelineInv, PipelineTypeOK, BeginRun
    <2>2. consumed' \in 0 .. Len(batch')
      BY <1>1 DEF BeginRun
    <2>3. phase' \in {"popping", "joining"}
      BY DEF BeginRun, LoopPhase
    <2> QED BY <1>2, <2>1, <2>2, <2>3 DEF PipelineTypeOK, QueueInv, BeginRun
  <1>4. ProducerFollowsBatch'
    BY <1>1 DEF BeginRun, ProducerFollowsBatch
  <1>5. ConsumerFollowsQueue' /\ AbortsExplained'
    BY <1>1 DEF BeginRun, ConsumerFollowsQueue, AbortsExplained, LoopPhase
  <1>6. PeakWithinCapacity' /\ NothingLeftBehind'
    BY WordIsWider DEF BeginRun, PeakWithinCapacity, NothingLeftBehind, LoopPhase
  <1> QED BY <1>2, <1>3, <1>4, <1>5, <1>6 DEF PipelineInv

(***************************************************************************)
(* The producer's steps.                                                   *)
(***************************************************************************)

\* What every step of the producer leaves alone.
LEMMA ProducerFrame ==
    ASSUME PipelineInv, QueueInv', producerUnchanged, UNCHANGED consumerVars,
           producer' \in {"pushing", "checking", "returned"},
           producer = "pushing" \/ producer = "checking",
           aborted' \in BOOLEAN, producer_error' \in BOOLEAN,
           pushing' # "destroyed"
    PROVE  /\ PipelineTypeOK' /\ ConsumerFollowsQueue'
           /\ PeakWithinCapacity' /\ NothingLeftBehind'
  <1>1. phase # "idle"
    BY DEF PipelineInv, NothingLeftBehind
  <1>2. PipelineTypeOK'
    BY DEF PipelineInv, PipelineTypeOK, QueueInv, producerUnchanged, callerVars
  <1>3. ConsumerFollowsQueue'
    BY DEF PipelineInv, ConsumerFollowsQueue, producerUnchanged, callerVars, consumerVars
  <1>4. PeakWithinCapacity' /\ NothingLeftBehind'
    BY <1>1 DEF PipelineInv, PeakWithinCapacity, NothingLeftBehind, producerUnchanged
  <1> QED BY <1>2, <1>3, <1>4

LEMMA ProducePushInv ==
    ASSUME PipelineInv, ProducePush
    PROVE  PipelineInv'
  <1>1. /\ producer = "pushing" /\ producer' = producer
        /\ aborted' = aborted /\ producer_error' = producer_error
        /\ producerUnchanged /\ batch' = batch /\ phase' = phase
        /\ consumer_error' = consumer_error /\ consumed' = consumed
    BY DEF ProducePush, producerUnchanged, callerVars
  <1>2. QueueInv /\ aborted \in BOOLEAN /\ producer_error \in BOOLEAN
    BY DEF PipelineInv, PipelineTypeOK
  <1>3. CASE tail < Len(batch) /\ PushAdmitted
    <2>1. tail < MaxPushes
      BY <1>3, PipelineTypes, QueueAssumption
    <2>2. QueueInv'
      BY <1>2, <1>3, <2>1, PushLoadInv
    <2>3. /\ pushing' = "construct" /\ UNCHANGED <<slots, tail, sent, consumerVars>>
      BY <1>3 DEF PushAdmitted
    <2>4. ProducerFollowsBatch'
      BY <1>1, <1>3, <2>3 DEF PipelineInv, ProducerFollowsBatch
    <2>5. AbortsExplained'
      BY <1>1, <2>3 DEF PipelineInv, AbortsExplained
    <2> QED BY <1>1, <1>2, <2>2, <2>3, <2>4, <2>5, ProducerFrame DEF PipelineInv
  <1>4. CASE tail < Len(batch) /\ PushConstruct(batch[tail + 1])
    <2>1. batch[tail + 1] \in Values /\ tail \in Nat
      BY <1>4, PipelineTypes
    <2>2. QueueInv'
      BY <1>2, <1>4, <2>1, PushConstructInv
    <2>3. /\ pushing' = "publish" /\ UNCHANGED <<tail, headSeen, sent, consumerVars>>
          /\ slots' = [slots EXCEPT ![SlotOf(tail)] = batch[tail + 1]]
      BY <1>4 DEF PushConstruct
    <2>4. slots'[SlotOf(tail)] = batch[tail + 1]
      BY <1>2, <2>1, <2>3, SlotInRange DEF QueueInv, QueueTypeOK
    <2>5. ProducerFollowsBatch'
      BY <1>1, <1>4, <2>3, <2>4 DEF PipelineInv, ProducerFollowsBatch
    <2>6. AbortsExplained'
      BY <1>1, <2>3 DEF PipelineInv, AbortsExplained
    <2> QED BY <1>1, <1>2, <2>2, <2>3, <2>5, <2>6, ProducerFrame DEF PipelineInv
  <1>5. CASE PushPublish
    <2>1. QueueInv'
      BY <1>2, <1>5, PushPublishInv
    <2>2. /\ pushing = "publish" /\ pushing' = "idle"
          /\ sent' = Append(sent, slots[SlotOf(tail)]) /\ tail' = tail + 1
          /\ UNCHANGED <<slots, headSeen, consumerVars>>
      BY <1>5 DEF PushPublish
    <2>3. /\ tail < Len(batch) /\ slots[SlotOf(tail)] = batch[tail + 1]
          /\ slots[SlotOf(tail)] \in Values
          /\ sent \in Seq(Values) /\ Len(sent) = tail
          /\ \A i \in 1 .. tail : sent[i] = batch[i]
      BY <1>2, <2>2 DEF PipelineInv, ProducerFollowsBatch, QueueInv, QueueTypeOK,
                        HistoriesAgree, SlotsHoldSent
    <2>4. \A i \in 1 .. tail + 1 : sent'[i] = batch[i]
      BY <2>2, <2>3, PipelineTypes
    <2>5. ProducerFollowsBatch'
      BY <1>1, <2>2, <2>3, <2>4, PipelineTypes DEF ProducerFollowsBatch
    <2>6. AbortsExplained'
      BY <1>1, <2>2 DEF PipelineInv, AbortsExplained
    <2> QED BY <1>1, <1>2, <2>1, <2>2, <2>5, <2>6, ProducerFrame DEF PipelineInv
  <1> QED BY <1>3, <1>4, <1>5 DEF ProducePush

LEMMA ProduceRefusedInv ==
    ASSUME PipelineInv, ProduceRefused
    PROVE  PipelineInv'
  <1>1. /\ producer = "pushing" /\ producer' = "checking" /\ pushing = "idle"
        /\ aborted' = aborted /\ producer_error' = producer_error
        /\ producerUnchanged /\ batch' = batch /\ phase' = phase
        /\ consumer_error' = consumer_error /\ consumed' = consumed
        /\ UNCHANGED <<slots, tail, pushing, sent, consumerVars>>
    BY DEF ProduceRefused, PushRefused, producerUnchanged, callerVars
  <1>2. QueueInv /\ aborted \in BOOLEAN /\ producer_error \in BOOLEAN
    BY DEF PipelineInv, PipelineTypeOK
  <1>3. QueueInv'
    BY <1>2, PushLoadInv DEF ProduceRefused
  <1>4. ProducerFollowsBatch'
    BY <1>1 DEF PipelineInv, ProducerFollowsBatch
  <1>5. AbortsExplained'
    BY <1>1 DEF PipelineInv, AbortsExplained
  <1> QED BY <1>1, <1>2, <1>3, <1>4, <1>5, ProducerFrame DEF PipelineInv

\* The steps that leave the queue alone: retry, stop, done.
LEMMA ProduceLoopInv ==
    ASSUME PipelineInv, ProduceRetry \/ ProduceStop \/ ProduceDone
    PROVE  PipelineInv'
  <1>1. /\ producer \in {"pushing", "checking"} /\ producer' \in {"pushing", "returned"}
        /\ aborted' = aborted /\ producer_error' = producer_error
        /\ producerUnchanged /\ batch' = batch /\ phase' = phase
        /\ consumer_error' = consumer_error /\ consumed' = consumed
        /\ UNCHANGED queueVars
        /\ producer' = "returned" => pushing \notin {"construct", "publish"}
    BY DEF ProduceRetry, ProduceStop, ProduceDone, producerUnchanged, callerVars,
           PipelineInv, ProducerFollowsBatch
  <1>2. QueueInv /\ aborted \in BOOLEAN /\ producer_error \in BOOLEAN
    BY DEF PipelineInv, PipelineTypeOK
  <1>3. QueueInv' /\ UNCHANGED consumerVars
    BY <1>1, <1>2, QueueNextInv DEF queueVars, consumerVars
  <1>4. pushing' # "destroyed"
    BY <1>1 DEF queueVars, PipelineInv, ConsumerFollowsQueue, NothingLeftBehind
  <1>5. ProducerFollowsBatch'
    BY <1>1 DEF PipelineInv, ProducerFollowsBatch, queueVars
  <1>6. AbortsExplained'
    BY <1>1 DEF PipelineInv, AbortsExplained, queueVars
  <1> QED BY <1>1, <1>2, <1>3, <1>4, <1>5, <1>6, ProducerFrame DEF PipelineInv

\* A throw out of the copy leaves the slot raw and the batch incomplete.
LEMMA ProduceThrowInv ==
    ASSUME PipelineInv, ProduceThrow
    PROVE  PipelineInv'
  <1>1. /\ producer = "pushing" /\ producer' = "returned"
        /\ pushing = "construct" /\ pushing' = "idle"
        /\ aborted' = TRUE /\ producer_error' = TRUE
        /\ producerUnchanged /\ batch' = batch /\ phase' = phase
        /\ consumer_error' = consumer_error /\ consumed' = consumed
        /\ UNCHANGED <<slots, tail, headSeen, sent, consumerVars>>
    BY DEF ProduceThrow, producerUnchanged, callerVars
  <1>2. QueueInv'
    <2>1. QueueInv
      BY DEF PipelineInv
    <2>2. QueueTypeOK' /\ IndicesBound' /\ HistoriesAgree'
      BY <1>1, <2>1 DEF QueueInv, QueueTypeOK, IndicesBound, HistoriesAgree, consumerVars
    <2>3. SlotsHoldSent' /\ OtherSlotsRaw'
      BY <1>1, <2>1 DEF QueueInv, SlotsHoldSent, OtherSlotsRaw, Live, consumerVars
    <2> QED BY <1>1, <2>1, <2>2, <2>3 DEF QueueInv, consumerVars
  <1>3. ProducerFollowsBatch' /\ tail < Len(batch)
    BY <1>1 DEF PipelineInv, ProducerFollowsBatch
  <1>4. AbortsExplained'
    BY <1>1, <1>3 DEF PipelineInv, AbortsExplained
  <1> QED BY <1>1, <1>2, <1>3, <1>4, ProducerFrame DEF PipelineInv
(***************************************************************************)
(* The calling thread's steps.                                             *)
(***************************************************************************)

\* What every step of the consumer inside the loop leaves alone.
LEMMA ConsumerFrame ==
    ASSUME PipelineInv, QueueInv', consumerUnchanged, UNCHANGED producerVars,
           pushing = "publish" => slots'[SlotOf(tail)] = slots[SlotOf(tail)]
    PROVE  ProducerFollowsBatch'
  BY DEF PipelineInv, ProducerFollowsBatch, consumerUnchanged, callerVars, producerVars

LEMMA ConsumerTypes ==
    ASSUME PipelineInv, QueueInv', consumerUnchanged, aborted' \in BOOLEAN,
           phase' \in {"popping", "checking", "sampling", "applying", "joining"},
           consumed' \in 0 .. Len(batch), peak' \in Nat
    PROVE  PipelineTypeOK'
  BY DEF PipelineInv, PipelineTypeOK, QueueInv, consumerUnchanged, callerVars

LEMMA ConsumePopInv ==
    ASSUME PipelineInv, ConsumePop
    PROVE  PipelineInv'
  <1>1. /\ phase = "popping" /\ phase' = IF head' # head THEN "sampling" ELSE phase
        /\ UNCHANGED <<replayer, aborted, consumer_error, consumed, peak>>
        /\ consumerUnchanged /\ batch' = batch /\ producer' = producer
        /\ producer_error' = producer_error
    BY DEF ConsumePop, consumerUnchanged, callerVars
  <1>2. /\ QueueInv /\ PipelineTypeOK /\ ProducerFollowsBatch
        /\ ConsumerFollowsQueue /\ AbortsExplained /\ PeakWithinCapacity
    BY DEF PipelineInv
  <1>3. /\ head \in Nat /\ tail \in Nat /\ consumed = head /\ consumed < Len(batch)
        /\ pushing # "destroyed"
    BY <1>1, <1>2, PipelineTypes DEF ConsumerFollowsQueue
  <1>4. /\ QueueInv' /\ UNCHANGED producerVars
        /\ pushing = "publish" => slots'[SlotOf(tail)] = slots[SlotOf(tail)]
    <2>1. CASE PopAdmitted
      BY <1>2, <2>1, PopLoadInv DEF PopAdmitted
    <2>2. CASE PopTake
      <3>1. pushing = "publish" => SlotOf(tail) # SlotOf(head)
        BY <1>2, <1>3, <2>2, OccupancyBound, SlotsDiffer DEF PopTake, QueueInv
      <3>2. SlotOf(tail) \in SlotIndices
        BY <1>3, SlotInRange
      <3> QED BY <1>2, <2>2, <3>1, <3>2, PopTakeInv DEF PopTake, QueueInv, QueueTypeOK
    <2>3. CASE PopRelease
      BY <1>2, <2>3, PopReleaseInv DEF PopRelease
    <2> QED BY <2>1, <2>2, <2>3 DEF ConsumePop
  <1>5. CASE head' = head
    <2>1. PipelineTypeOK' /\ ProducerFollowsBatch'
      BY <1>1, <1>2, <1>4, <1>5, ConsumerFrame, ConsumerTypes DEF PipelineTypeOK
    <2>2. ConsumerFollowsQueue' /\ AbortsExplained'
      BY <1>1, <1>2, <1>4, <1>5 DEF ConsumerFollowsQueue, AbortsExplained, producerVars
    <2>3. PeakWithinCapacity' /\ NothingLeftBehind'
      BY <1>1, <1>2, <1>5 DEF PeakWithinCapacity, NothingLeftBehind
    <2> QED BY <1>4, <2>1, <2>2, <2>3 DEF PipelineInv
  <1>6. CASE head' # head
    <2>1. /\ popping' = "idle" /\ head' = head + 1 /\ moved' = moved
          /\ popping = "release" /\ phase' = "sampling"
      BY <1>1, <1>6 DEF ConsumePop, PopAdmitted, PopTake, PopRelease
    <2>2. moved = batch[head + 1]
      <3>1. moved = sent[head + 1] /\ head + 1 \in 1 .. tail
        BY <1>2, <1>3, <2>1, OccupancyBound DEF QueueInv, HistoriesAgree
      <3> QED BY <1>2, <3>1 DEF ProducerFollowsBatch
    <2>3. PipelineTypeOK' /\ ProducerFollowsBatch'
      BY <1>1, <1>2, <1>4, <2>1, ConsumerFrame, ConsumerTypes DEF PipelineTypeOK
    <2>4. ConsumerFollowsQueue'
      BY <1>1, <1>3, <1>4, <2>1, <2>2 DEF ConsumerFollowsQueue, producerVars
    <2>5. AbortsExplained'
      BY <1>1, <1>2, <1>4, <2>1 DEF AbortsExplained, producerVars
    <2>6. PeakWithinCapacity' /\ NothingLeftBehind'
      BY <1>1, <1>2, <2>1 DEF PeakWithinCapacity, NothingLeftBehind
    <2> QED BY <1>4, <2>3, <2>4, <2>5, <2>6 DEF PipelineInv
  <1> QED BY <1>5, <1>6

\* The steps that only move the consumer round its loop or out of it.
LEMMA ConsumeLoopInv ==
    ASSUME PipelineInv, ConsumeEmpty \/ ConsumeRetry \/ ConsumeStop
    PROVE  PipelineInv'
  <1>1. /\ UNCHANGED <<replayer, aborted, consumer_error, consumed, peak>>
        /\ UNCHANGED <<slots, head, popping, moved, received, producerVars>>
        /\ consumerUnchanged /\ batch' = batch /\ producer' = producer
        /\ producer_error' = producer_error
        /\ phase \in {"popping", "checking"} /\ popping = "idle"
        /\ phase' \in {"popping", "checking", "joining"}
        /\ phase' = "joining" => aborted
    BY DEF ConsumeEmpty, ConsumeRetry, ConsumeStop, PopEmpty, consumerUnchanged,
           callerVars, queueVars, producerVars, PipelineInv, ConsumerFollowsQueue
  <1>2. /\ QueueInv /\ PipelineTypeOK /\ ProducerFollowsBatch
        /\ ConsumerFollowsQueue /\ AbortsExplained /\ PeakWithinCapacity
    BY DEF PipelineInv
  <1>3. QueueInv'
    BY <1>2, PopLoadInv, QueueNextInv DEF ConsumeEmpty, ConsumeRetry, ConsumeStop
  <1>4. PipelineTypeOK' /\ ProducerFollowsBatch'
    BY <1>1, <1>2, <1>3, ConsumerFrame, ConsumerTypes DEF PipelineTypeOK
  <1>5. ConsumerFollowsQueue' /\ AbortsExplained'
    BY <1>1, <1>2 DEF ConsumerFollowsQueue, AbortsExplained, producerVars
  <1>6. PeakWithinCapacity' /\ NothingLeftBehind'
    BY <1>1, <1>2 DEF PeakWithinCapacity, NothingLeftBehind
  <1> QED BY <1>3, <1>4, <1>5, <1>6 DEF PipelineInv

\* The occupancy sampled is tail - head for a tail not older than head.
LEMMA ConsumeSampleInv ==
    ASSUME PipelineInv, ConsumeSample
    PROVE  PipelineInv'
  <1>1. PICK t \in tailSeen .. tail :
            /\ tailSeen' = t
            /\ peak' = IF Minus(t, head) > peak THEN Minus(t, head) ELSE peak
    BY DEF ConsumeSample
  <1>2. /\ phase = "sampling" /\ phase' = "applying"
        /\ UNCHANGED <<slots, head, popping, moved, received, producerVars>>
        /\ UNCHANGED <<replayer, aborted, consumer_error, consumed>>
        /\ consumerUnchanged /\ batch' = batch /\ producer' = producer
        /\ producer_error' = producer_error
    BY DEF ConsumeSample, consumerUnchanged, callerVars
  <1>3. /\ QueueInv /\ PipelineTypeOK /\ ProducerFollowsBatch
        /\ ConsumerFollowsQueue /\ AbortsExplained /\ PeakWithinCapacity
    BY DEF PipelineInv
  <1>4. /\ head \in Nat /\ tail \in Nat /\ t \in Nat /\ tailSeen \in Nat
        /\ tailSeen <= t /\ head <= t /\ t <= tail /\ t - head <= Capacity
    BY <1>1, <1>3, OccupancyBound, WordIsWider DEF QueueInv, QueueTypeOK, IndicesBound
  <1>5. Minus(t, head) = t - head
    BY <1>4, MinusExact, WordIsWider
  <1>6. QueueInv'
    <2>1. QueueTypeOK' /\ IndicesBound'
      BY <1>1, <1>2, <1>3, <1>4
         DEF QueueInv, QueueTypeOK, IndicesBound, producerVars
    <2>2. HistoriesAgree' /\ SlotsHoldSent' /\ OtherSlotsRaw'
      BY <1>2, <1>3 DEF QueueInv, HistoriesAgree, SlotsHoldSent, OtherSlotsRaw, Live,
                        producerVars
    <2> QED BY <1>2, <1>3, <2>1, <2>2 DEF QueueInv, producerVars
  <1>7. peak' \in Nat /\ PeakWithinCapacity'
    BY <1>1, <1>3, <1>4, <1>5, WordIsWider DEF PeakWithinCapacity, PipelineTypeOK
  <1>8. PipelineTypeOK' /\ ProducerFollowsBatch'
    BY <1>2, <1>3, <1>6, <1>7, ConsumerFrame, ConsumerTypes DEF PipelineTypeOK
  <1>9. ConsumerFollowsQueue' /\ AbortsExplained' /\ NothingLeftBehind'
    BY <1>2, <1>3 DEF ConsumerFollowsQueue, AbortsExplained, NothingLeftBehind, producerVars
  <1> QED BY <1>6, <1>7, <1>8, <1>9 DEF PipelineInv

LEMMA ConsumeApplyInv ==
    ASSUME PipelineInv, ConsumeApply \/ ConsumeThrow
    PROVE  PipelineInv'
  <1>1. /\ phase = "applying"
        /\ UNCHANGED queueVars /\ UNCHANGED <<slots, head, popping, moved, producerVars>>
        /\ peak' = peak
        /\ consumerUnchanged /\ batch' = batch /\ producer' = producer
        /\ producer_error' = producer_error
    BY DEF ConsumeApply, ConsumeThrow, consumerUnchanged, callerVars, queueVars, producerVars
  <1>2. /\ QueueInv /\ PipelineTypeOK /\ ProducerFollowsBatch
        /\ ConsumerFollowsQueue /\ AbortsExplained /\ PeakWithinCapacity
    BY DEF PipelineInv
  <1>3. QueueInv'
    BY <1>1, <1>2, QueueNextInv
  <1>4. /\ consumed \in Nat /\ consumed + 1 = head /\ head <= Len(batch)
        /\ head \in Nat /\ Len(batch) \in Nat /\ consumer_error = NoError
    BY <1>1, <1>2, PipelineTypes DEF ConsumerFollowsQueue, AbortsExplained
  <1>5. CASE ConsumeApply
    <2>1. /\ consumed' = consumed + 1 /\ aborted' = aborted
          /\ consumer_error' = consumer_error
          /\ phase' = IF consumed + 1 < Len(batch) THEN "popping" ELSE "joining"
      BY <1>5 DEF ConsumeApply, LoopPhase
    <2>2. PipelineTypeOK' /\ ProducerFollowsBatch'
      BY <1>1, <1>2, <1>3, <1>4, <2>1, ConsumerFrame, ConsumerTypes DEF PipelineTypeOK
    <2>3. ConsumerFollowsQueue'
      BY <1>1, <1>2, <1>4, <2>1 DEF ConsumerFollowsQueue, producerVars
    <2>4. AbortsExplained'
      BY <1>1, <1>2, <1>4, <2>1 DEF AbortsExplained, producerVars
    <2>5. PeakWithinCapacity' /\ NothingLeftBehind'
      BY <1>1, <1>2, <2>1 DEF PeakWithinCapacity, NothingLeftBehind
    <2> QED BY <1>3, <2>2, <2>3, <2>4, <2>5 DEF PipelineInv
  <1>6. CASE ConsumeThrow
    <2>1. /\ consumed' = consumed /\ aborted' = TRUE
          /\ consumer_error' # NoError /\ phase' = "joining"
      BY <1>6 DEF ConsumeThrow
    <2>2. PipelineTypeOK' /\ ProducerFollowsBatch'
      BY <1>1, <1>2, <1>3, <1>4, <2>1, ConsumerFrame, ConsumerTypes DEF PipelineTypeOK
    <2>3. ConsumerFollowsQueue'
      BY <1>1, <1>2, <1>4, <2>1 DEF ConsumerFollowsQueue, producerVars
    <2>4. AbortsExplained'
      BY <1>1, <1>2, <1>4, <2>1 DEF AbortsExplained, producerVars
    <2>5. PeakWithinCapacity' /\ NothingLeftBehind'
      BY <1>1, <1>2, <2>1 DEF PeakWithinCapacity, NothingLeftBehind
    <2> QED BY <1>3, <2>2, <2>3, <2>4, <2>5 DEF PipelineInv
  <1> QED BY <1>5, <1>6

\* How a run ends is decided by the errors, and a run without one is complete.
LEMMA EndRunInv ==
    ASSUME PipelineInv, EndRun
    PROVE  PipelineInv'
  <1>1. /\ phase = "joining" /\ producer = "returned" /\ phase' = "idle"
        /\ outcome' = IF consumer_error # NoError THEN Threw(consumer_error)
                      ELSE IF producer_error THEN Threw(ProducerFailure)
                      ELSE Returned(consumed)
        /\ Destroy
        /\ UNCHANGED <<replayer, runs, batch, producer, aborted, consumed, peak>>
        /\ consumer_error' = consumer_error /\ producer_error' = producer_error
    BY DEF EndRun, errorVars
  <1>2. /\ QueueInv /\ PipelineTypeOK /\ ProducerFollowsBatch
        /\ ConsumerFollowsQueue /\ AbortsExplained /\ PeakWithinCapacity
    BY DEF PipelineInv
  <1>3. QueueInv' /\ \A s \in SlotIndices : slots'[s] = Raw
    BY <1>1, <1>2, DestroyInv
  <1>4. /\ pushing' = "destroyed" /\ popping' = "destroyed"
        /\ UNCHANGED <<head, tail, moved, sent>>
    BY <1>1 DEF Destroy
  <1>5. PipelineTypeOK'
    BY <1>1, <1>2, <1>3 DEF PipelineTypeOK, QueueInv
  <1>6. ProducerFollowsBatch' /\ ConsumerFollowsQueue'
    BY <1>1, <1>2, <1>4 DEF ProducerFollowsBatch, ConsumerFollowsQueue
  <1>7. AbortsExplained' /\ PeakWithinCapacity'
    BY <1>1, <1>2, <1>4 DEF AbortsExplained, PeakWithinCapacity
  <1>8. outcome'.kind = "returned" <=> ~ aborted /\ consumed = Len(batch)
    BY <1>1, <1>2 DEF AbortsExplained, Returned, Threw
  <1>9. NothingLeftBehind'
    BY <1>1, <1>3, <1>8 DEF NothingLeftBehind
  <1> QED BY <1>3, <1>5, <1>6, <1>7, <1>9 DEF PipelineInv

LEMMA PipelineNextInv == PipelineInv /\ [PipelineNext]_pipelineVars => PipelineInv'
  <1> SUFFICES ASSUME PipelineInv, [PipelineNext]_pipelineVars PROVE PipelineInv'
    OBVIOUS
  <1>1. CASE \E b \in Batches : BeginRun(b)
    BY <1>1, BeginRunInv
  <1>2. CASE ProducerThread
    BY <1>2, ProducePushInv, ProduceRefusedInv, ProduceLoopInv, ProduceThrowInv
       DEF ProducerThread
  <1>3. CASE ConsumerThread
    BY <1>3, ConsumePopInv, ConsumeLoopInv, ConsumeSampleInv, ConsumeApplyInv, EndRunInv
       DEF ConsumerThread
  <1>4. CASE UNCHANGED pipelineVars
    <2>1. QueueInv'
      BY <1>4, QueueNextInv DEF pipelineVars, PipelineInv
    <2> QED BY <1>4, <2>1
            DEF pipelineVars, queueVars, callerVars, errorVars, PipelineInv, QueueInv,
                PipelineTypeOK, ProducerFollowsBatch, ConsumerFollowsQueue,
                AbortsExplained, PeakWithinCapacity, NothingLeftBehind
  <1> QED BY <1>1, <1>2, <1>3, <1>4 DEF PipelineNext

(* The inductive invariant of the pipeline.                                *)
THEOREM PipelineInvariant == PipelineSpec => []PipelineInv
  BY PipelineInitInv, PipelineNextInv, PTL DEF PipelineSpec

(* Every variable of the pipeline keeps its type.                          *)
THEOREM PipelineTypesHold == PipelineSpec => []PipelineTypeOK
  BY PipelineInvariant, PTL DEF PipelineInv

(* The reported peak occupancy is one the queue can have.                  *)
THEOREM PeakBounded == PipelineSpec => []PeakWithinCapacity
  BY PipelineInvariant, PTL DEF PipelineInv

(* A finished run leaves no thread and no row behind, and it returned      *)
(* exactly when nothing failed and the whole batch was applied.            *)
THEOREM RunsLeaveNothingBehind == PipelineSpec => []NothingLeftBehind
  BY PipelineInvariant, PTL DEF PipelineInv
(***************************************************************************)
(* Every run is the sequential replay of its batch.                        *)
(***************************************************************************)

\* What the sequential replay keeps of the pipeline's state.
LEMMA SequentialStutter ==
    ASSUME UNCHANGED <<replayer, batch, consumed, outcome, consumer_error>>,
           phase # "idle", phase' # "idle"
    PROVE  UNCHANGED Sequential!seqVars
  BY DEF Sequential!seqVars

LEMMA BeginRunIsBegin ==
    ASSUME NEW b \in Batches, BeginRun(b)
    PROVE  Sequential!Begin(b)
  <1>1. phase' # "idle"
    BY DEF BeginRun, LoopPhase
  <1> QED BY <1>1 DEF BeginRun, Sequential!Begin

LEMMA ConsumeApplyIsApplyNext ==
    ASSUME PipelineInv, ConsumeApply
    PROVE  Sequential!ApplyNext
  <1>1. /\ phase = "applying" /\ consumer_error = NoError
        /\ moved = batch[consumed + 1] /\ consumed < Len(batch)
    BY PipelineTypes DEF ConsumeApply, PipelineInv, ConsumerFollowsQueue, AbortsExplained
  <1>2. phase' # "idle"
    BY DEF ConsumeApply, LoopPhase
  <1> QED BY <1>1, <1>2
          DEF ConsumeApply, consumerUnchanged, callerVars, Sequential!ApplyNext,
              Sequential!NextRow

LEMMA ConsumeThrowIsRefuseNext ==
    ASSUME PipelineInv, ConsumeThrow
    PROVE  Sequential!RefuseNext
  <1>1. /\ phase = "applying" /\ consumer_error = NoError
        /\ moved = batch[consumed + 1] /\ consumed < Len(batch)
    BY PipelineTypes DEF ConsumeThrow, PipelineInv, ConsumerFollowsQueue, AbortsExplained
  <1> QED BY <1>1
          DEF ConsumeThrow, consumerUnchanged, callerVars, Sequential!RefuseNext,
              Sequential!NextRow

LEMMA EndRunIsEnd ==
    ASSUME PipelineInv, EndRun
    PROVE  Sequential!Return \/ Sequential!Throw \/ Sequential!Interrupted
  <1>1. /\ phase = "joining" /\ phase' = "idle"
        /\ UNCHANGED <<replayer, batch, consumed, consumer_error>>
        /\ outcome' = IF consumer_error # NoError THEN Threw(consumer_error)
                      ELSE IF producer_error THEN Threw(ProducerFailure)
                      ELSE Returned(consumed)
    BY DEF EndRun, errorVars
  <1>2. CASE consumer_error # NoError
    BY <1>1, <1>2 DEF Sequential!Throw, Sequential!Threw, Threw
  <1>3. CASE consumer_error = NoError /\ producer_error
    <2>1. consumed < Len(batch)
      BY <1>3, PipelineTypes DEF PipelineInv, AbortsExplained, ConsumerFollowsQueue
    <2> QED BY <1>1, <1>3, <2>1
            DEF Sequential!Interrupted, Sequential!Threw, Threw,
                Sequential!ProducerFailure, ProducerFailure
  <1>4. CASE consumer_error = NoError /\ ~ producer_error
    <2>1. consumed = Len(batch)
      BY <1>1, <1>4 DEF PipelineInv, AbortsExplained
    <2> QED BY <1>1, <1>4, <2>1 DEF Sequential!Return, Sequential!Returned, Returned
  <1> QED BY <1>2, <1>3, <1>4

LEMMA QuietSteps ==
    ASSUME PipelineInv,
           \/ ProducerThread
           \/ ConsumePop \/ ConsumeEmpty \/ ConsumeRetry \/ ConsumeStop \/ ConsumeSample
    PROVE  UNCHANGED Sequential!seqVars
  <1>1. CASE ProducerThread
    <2>1. producer # "returned" /\ producerUnchanged
      BY <1>1 DEF ProducerThread, ProducePush, ProduceRefused, ProduceRetry, ProduceStop,
                  ProduceThrow, ProduceDone
    <2>2. phase # "idle"
      BY <2>1 DEF PipelineInv, NothingLeftBehind
    <2> QED BY <2>1, <2>2, SequentialStutter DEF producerUnchanged, callerVars
  <1>2. CASE ConsumePop \/ ConsumeEmpty \/ ConsumeRetry \/ ConsumeStop \/ ConsumeSample
    BY <1>2, SequentialStutter
       DEF ConsumePop, ConsumeEmpty, ConsumeRetry, ConsumeStop, ConsumeSample,
           consumerUnchanged, callerVars
  <1> QED BY <1>1, <1>2

(* Threading decides when a row is applied, never which, in what order or  *)
(* how the run ends.                                                       *)
THEOREM PipelineIsSequentialReplay == PipelineSpec => ImplementsSequentialReplay
  <1>1. PipelineInit => Sequential!Init
    BY DEF PipelineInit, Sequential!Init, Sequential!Returned, Returned
  <1>2. PipelineInv /\ [PipelineNext]_pipelineVars
          => [Sequential!Next]_(Sequential!seqVars)
    <2> SUFFICES ASSUME PipelineInv, [PipelineNext]_pipelineVars
                 PROVE  Sequential!Next \/ UNCHANGED Sequential!seqVars
      OBVIOUS
    <2>1. CASE \E b \in Batches : BeginRun(b)
      BY <2>1, BeginRunIsBegin DEF Sequential!Next
    <2>2. CASE ConsumeApply
      BY <2>2, ConsumeApplyIsApplyNext DEF Sequential!Next
    <2>3. CASE ConsumeThrow
      BY <2>3, ConsumeThrowIsRefuseNext DEF Sequential!Next
    <2>4. CASE EndRun
      BY <2>4, EndRunIsEnd DEF Sequential!Next
    <2>5. CASE \/ ProducerThread
               \/ ConsumePop \/ ConsumeEmpty \/ ConsumeRetry \/ ConsumeStop \/ ConsumeSample
      BY <2>5, QuietSteps
    <2>6. CASE UNCHANGED pipelineVars
      BY <2>6 DEF pipelineVars, callerVars, errorVars, Sequential!seqVars
    <2> QED BY <2>1, <2>2, <2>3, <2>4, <2>5, <2>6 DEF PipelineNext, ConsumerThread
  <1> QED BY <1>1, <1>2, PipelineInvariant, PTL
          DEF PipelineSpec, ImplementsSequentialReplay, Sequential!Spec
==============================================================================
