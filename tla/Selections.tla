----------------------------- MODULE Selections ------------------------------
(***************************************************************************)
(* Rows selected from a sequence by their positions: SelectSeq in a form   *)
(* that can be reasoned about, the provers having no definition of it.     *)
(***************************************************************************)
EXTENDS Integers, FiniteSets, Sequences

\* the k-th of some positions
Nth(positions, k) == CHOOSE i \in positions : Cardinality({j \in positions : j <= i}) = k

RowsAt(rows, positions) == [k \in 1 .. Cardinality(positions) |-> rows[Nth(positions, k)]]
==============================================================================
