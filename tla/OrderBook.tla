------------------------------ MODULE OrderBook ------------------------------
(***************************************************************************)
(* The L2 price-level book of cpp/src/order_book.cpp: two vectors of       *)
(* levels, best first.  Prices and quantities are integers here; a price   *)
(* that is not positive or a quantity that is negative stands for every    *)
(* value validate() rejects (NaN and the infinities among them).           *)
(***************************************************************************)
EXTENDS Integers, Sequences, SequencesExt

Side == {"bid", "ask"}

Level(price, quantity) == [price |-> price, quantity |-> quantity]

EmptyBook == [side \in Side |-> <<>>]

IsBetter(side, p, q) == IF side = "bid" THEN p > q ELSE p < q

ValidLevel(price, quantity) == price > 0 /\ quantity >= 0

\* fault: std::upper_bound, past a level of the same price
UpperBound(levels, side, price) ==
    LET i == SelectInSeq(levels, LAMBDA l : IsBetter(side, price, l.price))
    IN  IF i = 0 THEN Len(levels) + 1 ELSE i

\* std::lower_bound: the first level not better than price, or one past the end
LowerBound(levels, side, price) ==
    LET i == SelectInSeq(levels, LAMBDA l : ~ IsBetter(side, l.price, price))
    IN  IF i = 0 THEN Len(levels) + 1 ELSE i

\* OrderBook::apply on the levels of one side, past validate()
AppliedLevels(levels, side, price, quantity) ==
    LET pos   == LowerBound(levels, side, price)
        found == pos <= Len(levels) /\ levels[pos].price = price
    IN  CASE quantity = 0 /\ found   -> RemoveAt(levels, pos)
          [] quantity = 0 /\ ~ found -> levels
          [] quantity # 0 /\ found   -> [levels EXCEPT ![pos].quantity = quantity]
          [] OTHER                   -> InsertAt(levels, pos, Level(price, quantity))

AppliedBook(book, side, price, quantity) ==
    [book EXCEPT ![side] = AppliedLevels(@, side, price, quantity)]

IsCrossed(book) ==
    /\ book["bid"] # <<>> /\ book["ask"] # <<>>
    /\ book["bid"][1].price >= book["ask"][1].price

\* best first, no price twice, no empty level: what every reader of levels() assumes
Ordered(levels, side) ==
    /\ \A i \in 1 .. Len(levels) - 1 :
          IsBetter(side, levels[i].price, levels[i + 1].price)
    /\ \A i \in 1 .. Len(levels) : levels[i].quantity > 0
==============================================================================
