--------------------------- MODULE CapacityRounding --------------------------
(***************************************************************************)
(* round_up_to_power_of_two, the loop that gives a queue its capacity      *)
(* (cpp/include/perpcarry/spsc_queue.hpp), on words of Words values.  What *)
(* it promises is what SPSCQueue assumes of Capacity and IndexMod.         *)
(***************************************************************************)
EXTENDS Integers

CONSTANT Words   \* 2^width, the number of values of std::size_t

\* a power of two: but for 1 it has no odd divisor
ASSUME WordsAssumption ==
    /\ Words \in Nat /\ Words > 1
    /\ \A d \in 2 .. Words : Words % d = 0 => d % 2 = 0

VARIABLES capacity,  \* the capacity asked for
          rounded,
          state      \* "looping", "returned" or "threw"

roundVars == <<capacity, rounded, state>>

RoundInit ==
    /\ capacity \in 0 .. Words - 1
    /\ rounded = 1
    /\ state = IF capacity = 0 THEN "threw" ELSE "looping"

\* fault: one doubling too few is refused, and the last one wraps to zero
TooLargeOffByOne == rounded > Words \div 2

\* rounded > max >> 1: another doubling would not fit the word
TooLarge == rounded > (Words - 1) \div 2

Double ==
    /\ state = "looping" /\ rounded < capacity /\ ~ TooLarge
    /\ rounded' = (rounded * 2) % Words
    /\ UNCHANGED <<capacity, state>>

Refuse ==
    /\ state = "looping" /\ rounded < capacity /\ TooLarge
    /\ state' = "threw"
    /\ UNCHANGED <<capacity, rounded>>

Return ==
    /\ state = "looping" /\ rounded >= capacity
    /\ state' = "returned"
    /\ UNCHANGED <<capacity, rounded>>

RoundNext == Double \/ Refuse \/ Return
------------------------------------------------------------------------------
(* The capacity a queue gets is the least power of two that holds what was *)
(* asked for, it always leaves a full ring distinguishable from an empty   *)
(* one (the word holds at least two rings), and only capacities no such    *)
(* power exists for are refused: the doubling never wraps to zero, to turn *)
(* for ever.                                                               *)
RoundedIsLeastPowerOfTwo ==
    /\ state = "returned" =>
          /\ \E k \in 2 .. Words : Words = k * rounded
          /\ capacity <= rounded /\ (rounded > 1 => rounded \div 2 < capacity)
    /\ state = "threw" => capacity = 0 \/ capacity > Words \div 2
    /\ state = "looping" => rounded # 0
==============================================================================
