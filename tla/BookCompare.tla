----------------------------- MODULE BookCompare -----------------------------
(***************************************************************************)
(* compare_top_n (cpp/src/book_compare.cpp): the top of a replayed book    *)
(* against a reference image, rank by rank and without any tolerance.  A   *)
(* book and an image are both functions from a side to levels, best first. *)
(***************************************************************************)
EXTENDS OrderBook, FiniteSets

DiffKind == {"price", "quantity", "missing", "extra"}

Smaller(m, n) == IF m < n THEN m ELSE n

\* compared_rank_count: the deeper of the two decides, up to depth
ComparedRankCount(replayed_levels, reference_levels, depth) ==
    Smaller(depth, IF replayed_levels > reference_levels THEN replayed_levels
                                                         ELSE reference_levels)

\* what is different at a rank both or only one of the two has
KindAt(replayed, reference, rank) ==
    CASE rank > Len(replayed)  -> "missing"
      [] rank > Len(reference) -> "extra"
      [] OTHER -> IF replayed[rank].price # reference[rank].price THEN "price"
                                                                  ELSE "quantity"

SideDiff(replayed, reference, side, depth) ==
    {[side |-> side, rank |-> rank, kind |-> KindAt(replayed, reference, rank)] :
        rank \in {i \in 1 .. ComparedRankCount(Len(replayed), Len(reference), depth) :
                     \/ i > Len(replayed) \/ i > Len(reference)
                     \/ replayed[i] # reference[i]}}

CompareTopN(book, image, depth) ==
    UNION {SideDiff(book[side], image[side], side, depth) : side \in Side}
==============================================================================
