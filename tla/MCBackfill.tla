----------------------------- MODULE MCBackfill ------------------------------
(* Two periods and two datasets; vendors that have all of it, lack one     *)
(* archive, or publish one that is bad, empty or does not join the one     *)
(* before.                                                                 *)
EXTENDS Backfill

MCUrls == {1, 2} \X {1, 2}

AllGood == [u \in MCUrls |-> "good"]

MCRemotes ==
    {AllGood}
      \cup {[AllGood EXCEPT ![u] = "missing"] : u \in {<<1, 1>>, <<1, 2>>, <<2, 1>>}}
      \cup {[AllGood EXCEPT ![<<1, 2>>] = "bad"], [AllGood EXCEPT ![<<2, 1>>] = "bad"],
            [AllGood EXCEPT ![<<2, 2>>] = "empty"], [AllGood EXCEPT ![<<2, 1>>] = "gapped"],
            [AllGood EXCEPT ![<<1, 1>>] = "missing", ![<<2, 1>>] = "gapped"]}
==============================================================================
