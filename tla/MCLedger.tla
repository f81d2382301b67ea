------------------------------ MODULE MCLedger -------------------------------
(* Fills that open, add to, reduce and close either leg at two prices,     *)
(* around settlements an hour or two apart, with fees that change at a     *)
(* date and one that may not be charged.  Money is in units of which every *)
(* price is a multiple of four, so that the first averages are whole.      *)
EXTENDS Ledger

Period(market, start, end, taker, kind, known) ==
    [market |-> market, start |-> start, end |-> end, taker |-> taker,
     kind |-> kind, observed_at |-> known]

MCFeePeriods ==
    {Period("spot", 0, 12, 1, "assumption", 0), Period("perp", 0, 6, 1, "verified", 0),
     Period("perp", 6, 12, 2, "verified", 7)}

MCQuantities == {-2, -1, 1, 2}
MCRates == {-1, 1}
==============================================================================
