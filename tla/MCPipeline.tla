----------------------------- MODULE MCPipeline ------------------------------
(* Runs of one pipeline over batches that are accepted whole and batches   *)
(* that fail first, in the middle or last, for each of the three errors.   *)
(* The longest batches are longer than the queue and wrap its indices.     *)
EXTENDS Pipeline

Row(ts, snap, side, price, quantity) ==
    [timestamp |-> ts, is_snapshot |-> snap, side |-> side,
     price |-> price, quantity |-> quantity]

Open     == Row(1, TRUE, "bid", 1, 1)
OpenAsk  == Row(1, TRUE, "ask", 1, 1)
Diff     == Row(1, FALSE, "bid", 2, 1)
Later    == Row(2, FALSE, "ask", 1, 0)
Resync   == Row(2, TRUE, "ask", 2, 1)
Invalid  == Row(2, TRUE, "bid", 1, -1)

MCRows == {Open, OpenAsk, Diff, Later, Resync, Invalid}

MCBatches ==
    {<<>>,
     <<Open, OpenAsk, Diff, Later, Resync>>,
     <<Diff, Later, Diff, Resync>>,
     <<Resync, Later>>,
     <<Open, Diff, Invalid, Later, Resync>>,
     <<Resync, Later, Later, Open, Diff>>}
==============================================================================
