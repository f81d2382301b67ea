---------------------------- MODULE MCWalkForward ----------------------------
(* One warmup settlement and four scored ones over two folds, so that a    *)
(* position opened at the first decision completes its horizon of two, is  *)
(* closed, and may be opened again; a curve for the first fold and one     *)
(* gathered during it, for the second; perp marks that move against the    *)
(* short leg; a book that fills worse than any curve says.                 *)
EXTENDS BacktestCommand

Period(market, start, end, taker, kind, known) ==
    [market |-> market, start |-> start, end |-> end, taker |-> taker,
     kind |-> kind, observed_at |-> known]

MCFeePeriods ==
    {Period("spot", 0, 24, 1, "verified", 0), Period("perp", 0, 22, 1, "verified", 0)}

Curve(sha, evidence_end, admitted_at) ==
    [sha |-> sha, evidence_end |-> evidence_end, admitted_at |-> admitted_at]

MCCurves == {Curve("a", 8, 8), Curve("b", 12, 13)}

MCRates == {-2, 1}
==============================================================================
