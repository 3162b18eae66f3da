----------------------------- MODULE OrderBook -----------------------------
(***************************************************************************)
(* The arithmetic of one match and the order of the two sides of the book *)
(* (pkg/ome/structs.go and the first half of TryMatch, pkg/ome/ome.go).    *)
(* A side of the book is a set of orders; the b-tree is the total order    *)
(* Less on it.  Prices and quantities are the integers the code computes   *)
(* with: decimals multiplied by Exp (10^12 in the code).  Owner, fee rate  *)
(* and time travel with an order but decide nothing here.                  *)
(***************************************************************************)
EXTENDS Integers

CONSTANT Exp    \* fixed-point scale of prices and quantities

ASSUME ExpAssumption == Exp \in Nat \ {0}

Order == [id : Nat, ticket : Nat, price : Nat, qty : Nat]

(* AskOrder.Less and BidOrder.Less are the same relation: price first, then
   the identifier, ascending on both sides.  Mutant: the younger order first. *)
Less_YoungerFirst(a, b) ==
    /\ a.id # b.id
    /\ \/ a.price < b.price
       \/ a.price = b.price /\ a.id > b.id

Less(a, b) ==
    /\ a.id # b.id
    /\ \/ a.price < b.price
       \/ a.price = b.price /\ a.id < b.id

(* Asks.Min(): lowest price, the oldest of equals. *)
IsBestAsk(a, asks) == a \in asks /\ \A b \in asks \ {a} : Less(a, b)

(* Bids.Max(): highest price, and among equals the YOUNGEST order. *)
IsBestBid(a, bids) == a \in bids /\ \A b \in bids \ {a} : Less(b, a)

(* The ask and the bid TryMatch goes on with: it stops when a side is empty or
   the best ask is above the best bid. *)
Crossing(asks, bids) ==
    {m \in asks \X bids :
        IsBestAsk(m[1], asks) /\ IsBestBid(m[2], bids) /\ m[1].price <= m[2].price}

Crossed(asks, bids) == Crossing(asks, bids) # {}

(* The order that was in the book first sets the price.  Mutant: the newcomer. *)
TradePrice_Taker(ask, bid) == IF ask.id < bid.id THEN bid.price ELSE ask.price

TradePrice(ask, bid) == IF ask.id < bid.id THEN ask.price ELSE bid.price

(* All that the smaller one has left.  Mutant: the comparison turned round. *)
TradeQty_Larger(ask, bid) == IF ask.qty < bid.qty THEN bid.qty ELSE ask.qty

TradeQty(ask, bid) == IF ask.qty < bid.qty THEN ask.qty ELSE bid.qty

(* Quote amount of a trade; the division rounds down. *)
TradeAmount(ask, bid) == (TradePrice(ask, bid) * TradeQty(ask, bid)) \div Exp

(* The book once q of order o has traded: deleted at zero, replaced otherwise. *)
Fill(book, o, q) ==
    IF o.qty = q THEN book \ {o}
                 ELSE (book \ {o}) \cup {[o EXCEPT !.qty = o.qty - q]}
=============================================================================
