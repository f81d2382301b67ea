----------------------------- MODULE MCDecision -----------------------------
(* From the archives to a size.  A venue settles for 16 hours at one of    *)
(* three plans of intervals, exactly or a little late; its archives lose,  *)
(* double or damage a row each; two backfills run while a window of two or *)
(* three days of them is loaded; the model forecasts what was admitted.    *)
(* Sizes are asked for where a whole series was loaded before: the search  *)
(* looks at the history only, and there it meets every one of its lengths. *)
EXTENDS Sizing

\* three intervals in hours, and the hours up to which the first two hold
Plans == {<<1, 2, 1, 4, 12>>, <<4, 2, 1, 4, 6>>, <<2, 1, 4, 6, 12>>}

IntervalAt(plan, h) == IF h <= plan[4] THEN plan[1] ELSE IF h <= plan[5] THEN plan[2] ELSE plan[3]

Instants(plan) ==
    {h \in 0 .. 15 : (h - (IF h <= plan[4] THEN 0 ELSE IF h <= plan[5] THEN plan[4] ELSE plan[5]))
                        % IntervalAt(plan, h) = 0}

TruthOf(plan, jitter) ==
    LET hours == SelectSeq([i \in 1 .. 16 |-> i - 1], LAMBDA h : h \in Instants(plan))
    IN  [i \in 1 .. Len(hours) |->
            [time |-> hours[i] * 4 + (IF jitter = 0 THEN 0 ELSE (i \div jitter) % 2),
             hours |-> IntervalAt(plan, hours[i]), sane |-> TRUE]]

MCTruths == {TruthOf(plan, jitter) : plan \in Plans, jitter \in {1, 3}}
MCWindows == {<<0, 2>>, <<1, 4>>}
MCStale == [time |-> -4, hours |-> 1, sane |-> TRUE]

\* a market, a curve and an approval that are admitted, and others that limit or are not
M == [symbol |-> "BTC", observed_at |-> 0, valid_until |-> 64, adv_end |-> 16, validated |-> 12,
      max_adv |-> 12, max_notional |-> 12, min_quantity |-> 1, min_notional |-> 0,
      metadata_from |-> 0, metadata_until |-> 64]
MCMarkets == {M, [M EXCEPT !.max_notional = 7, !.min_quantity = 3], [M EXCEPT !.valid_until = 26],
              [M EXCEPT !.max_adv = 3, !.min_notional = 4]}
C == [symbol |-> "BTC", admitted_at |-> 0, evidence_end |-> 16, kind |-> "verified_calibration",
      sell |-> 1, buy |-> 1, size_min |-> 1, size_max |-> 12]
MCCurves == {C, [C EXCEPT !.sell = 2, !.size_min = 2], [C EXCEPT !.sell = 0, !.buy = 0],
             [C EXCEPT !.kind = "synthetic"], [C EXCEPT !.evidence_end = 32]}
MCCharges == {[entry |-> 1, close |-> 1, financing |-> 0], [entry |-> 0, close |-> 2, financing |-> 2]}
A == [symbol |-> "BTC", model |-> "m1", horizons |-> {2, 3}, interval |-> 1, approved |-> TRUE,
      validated_until |-> 16, valid_until |-> 64]
MCApprovals == {A, NoApproval, [A EXCEPT !.interval = 2], [A EXCEPT !.valid_until = 24],
                [A EXCEPT !.model = "m2"]}
MCSampleSets == {<<600, 700, 800>>, <<1200, 200, 900>>, <<-100, 1500, -100>>}

\* all of the venue's settlements were loaded
LoadedInit ==
    /\ truth \in {TruthOf(plan, 1) : plan \in {<<1, 2, 1, 4, 12>>, <<2, 1, 4, 6, 12>>}}
    /\ window = <<0, 4>>
    /\ stored = [d \in Days |-> NoPartition]
    /\ backfills = MaxBackfills /\ month = Months /\ frame = <<>>
    /\ load_pc = "admitted" /\ load_day = window[2]
    /\ before = NoPartition /\ series = truth /\ evidence = <<>>

Init ==
    /\ FundingInit \/ LoadedInit
    /\ RollingInit
    /\ SizingInit
    /\ market = M \/ curve = C
    /\ load_pc # "admitted" => market = M /\ curve = C /\ charges = CHOOSE c \in Charges : TRUE

MCRoot ==
    [q \in 0 .. 12 |-> <<0, 100, 141, 173, 200, 223, 244, 264, 282, 300, 316, 331, 346>>[q + 1]]

Next ==
    \/ size_pc = "observing" /\ FundingNext /\ UNCHANGED <<modelVars, sizingVars>>
    \/ size_pc = "observing" /\ RollingNext /\ UNCHANGED sizingVars
    \/ evidence = <<>> /\ SizingNext /\ UNCHANGED rollingVars
Spec == Init /\ [][Next]_<<rollingVars, sizingVars>>
=============================================================================
