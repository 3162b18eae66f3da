------------------------------ MODULE Exchange ------------------------------
(***************************************************************************)
(* What an order matching engine promises, with no log, table, stream or   *)
(* process in sight: orders are numbered in the order they are accepted,   *)
(* one is accepted only when nothing in the book can trade, and a trade is *)
(* between a cheapest ask and a dearest bid, at the price of the order     *)
(* that came first, for all that the smaller of the two has left.          *)
(***************************************************************************)
EXTENDS Integers, Sequences

CONSTANT Requests    \* the prices and quantities an order may have

VARIABLES
    book,   \* book[i]: side, limit price and what is left of the i-th order
    tape    \* the trades, in the order they were made

vars == <<book, tape>>

Open(s) == {i \in DOMAIN book : book[i].side = s /\ book[i].left > 0}

Cheapest == {a \in Open("ask") : \A i \in Open("ask") : book[a].price <= book[i].price}

Dearest == {b \in Open("bid") : \A i \in Open("bid") : book[b].price >= book[i].price}

CanTrade(a, b) == a \in Cheapest /\ b \in Dearest /\ book[a].price <= book[b].price

Quiet == \A a, b \in DOMAIN book : ~CanTrade(a, b)

Init == book = <<>> /\ tape = <<>>

Accept(s, r) ==
    /\ Quiet
    /\ book' = Append(book, [side |-> s, price |-> r.price, left |-> r.qty])
    /\ UNCHANGED tape

Trade(a, b) ==
    LET q     == IF book[a].left <= book[b].left THEN book[a].left ELSE book[b].left
        maker == IF a < b THEN a ELSE b
    IN  /\ CanTrade(a, b)
        /\ book' = [book EXCEPT ![a].left = @ - q, ![b].left = @ - q]
        /\ tape' = Append(tape, [ask |-> a, bid |-> b, price |-> book[maker].price, qty |-> q])

Next ==
    \/ \E s \in {"ask", "bid"}, r \in Requests : Accept(s, r)
    \/ \E a, b \in DOMAIN book : Trade(a, b)

Spec == Init /\ [][Next]_vars
=============================================================================
