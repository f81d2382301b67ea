-------------------------- MODULE MCReplayValidate ---------------------------
(* Every event file of up to four rows and every reference file of up to   *)
(* three out of a few: milliseconds with no event, with one and with two,  *)
(* files that run backwards, images with a hole, images that match, differ *)
(* in a price or a quantity, lack a level or have one too many, at depth   *)
(* one.  And event files of five rows over three prices, the fewest that   *)
(* put an insert before, between and after existing levels, with an        *)
(* invalid row among them, and no reference.  And days in order of their   *)
(* milliseconds, exported first with every budget, in batches of one row   *)
(* and of two.                                                             *)
EXTENDS ExportBook

Row(ts, snap, side, price, quantity) ==
    [timestamp |-> ts, is_snapshot |-> snap, side |-> side,
     price |-> price, quantity |-> quantity]

ImageRow(ts, side, level, price, quantity) ==
    [timestamp |-> ts, side |-> side, level |-> level,
     price |-> price, quantity |-> quantity]

MCEventRows ==
    {Row(1, TRUE, "bid", 1, 1), Row(1, FALSE, "bid", 2, 1), Row(2, FALSE, "ask", 3, 1),
     Row(3, FALSE, "bid", 1, 2), Row(3, TRUE, "ask", 3, 0)}

MCReferenceRows ==
    {ImageRow(1, "bid", 0, 1, 1), ImageRow(1, "bid", 1, 1, 1), ImageRow(2, "bid", 0, 2, 1),
     ImageRow(2, "ask", 0, 3, 1), ImageRow(3, "bid", 0, 1, 2)}

FilesOf(rows, longest) == UNION {[1 .. n -> rows] : n \in 0 .. longest}

EventFiles == {f \in FilesOf(MCEventRows, 4) : f # <<>> => f[1].is_snapshot}

MCBookRows ==
    {Row(1, FALSE, "bid", p, q) : p \in 1 .. 3, q \in 0 .. 2}
      \cup {Row(1, snap, "ask", p, 1) : snap \in BOOLEAN, p \in {2, 3}}
      \cup {Row(1, TRUE, "bid", 2, 2), Row(1, TRUE, "bid", 2, -1)}
BookFiles == {<<Row(1, TRUE, "bid", 2, 1)>> \o rows : rows \in [1 .. 4 -> MCBookRows]}

MCInputs == (EventFiles \X FilesOf(MCReferenceRows, 3)) \cup (BookFiles \X {<<>>})

MCDays ==
    {files \in EventFiles \X FilesOf(MCReferenceRows, 2) : InOrder(files[1]) /\ InOrder(files[2])}
==============================================================================
