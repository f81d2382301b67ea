----------------------------- MODULE BoundedFIFO -----------------------------
(***************************************************************************)
(* What the queue promises to the two threads that share it, without any   *)
(* index, slot or memory order: a bounded first-in first-out buffer.  A    *)
(* push takes effect at one instant and never when the buffer is full; a   *)
(* pop takes effect at one instant and hands over the oldest item.         *)
(* (cpp/include/perpcarry/spsc_queue.hpp, the contract in its comments.)   *)
(***************************************************************************)
EXTENDS Naturals, Sequences

CONSTANTS Values,    \* what may be pushed
          Capacity   \* how many items the buffer holds

VARIABLES items,     \* the items in the buffer, oldest first
          received   \* everything popped so far, in order

fifoVars == <<items, received>>

Init == items = <<>> /\ received = <<>>

Push(v) ==
    /\ Len(items) < Capacity
    /\ items' = Append(items, v)
    /\ UNCHANGED received

Pop ==
    /\ items # <<>>
    /\ received' = Append(received, Head(items))
    /\ items' = Tail(items)

Next == (\E v \in Values : Push(v)) \/ Pop

Spec == Init /\ [][Next]_fifoVars
==============================================================================
