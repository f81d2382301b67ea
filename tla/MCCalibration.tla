---------------------------- MODULE MCCalibration ----------------------------
(* A day opens with a snapshot of two asks and a bid.  Three rows follow it: *)
(* levels that go, shrink and come back, a better ask, a second snapshot,    *)
(* and in some days a row that is refused.                                   *)
EXTENDS Calibration

MCRow(t, s, side, price, quantity) ==
    [timestamp |-> t, is_snapshot |-> s, side |-> side, price |-> price, quantity |-> quantity]

Opening == <<MCRow(1, TRUE, "ask", 3, 2), MCRow(1, TRUE, "bid", 1, 1), MCRow(1, TRUE, "ask", 4, 2)>>

Updates ==
    {MCRow(0, FALSE, "ask", 3, 0), MCRow(0, FALSE, "ask", 3, 1), MCRow(0, FALSE, "ask", 4, 2),
     MCRow(0, FALSE, "ask", 2, 1), MCRow(0, FALSE, "bid", 1, 2), MCRow(0, TRUE, "ask", 4, 1)}

Timed(updates, times) == [i \in 1 .. 3 |-> [updates[i] EXCEPT !.timestamp = times[i]]]

Times == {<<1, 2, 2>>, <<2, 2, 4>>, <<2, 3, 4>>, <<3, 3, 3>>, <<2, 2, 3>>}

Broken == <<MCRow(2, FALSE, "ask", 3, 1), MCRow(3, FALSE, "ask", 0, 1)>>

MCFiles ==
    {Opening \o Timed(updates, times) : updates \in [1 .. 3 -> Updates], times \in Times}
      \cup {Opening \o Broken, SubSeq(Opening, 1, 1) \o Broken}

MCQuantities == <<1, 3>>
MCWeightings == {<<>>, <<0, 1>>}
==============================================================================
