------------------------------ MODULE CcomsInv ------------------------------
(***************************************************************************)
(* Why the composition is right: the inductive invariant behind the safety *)
(* properties of Ccoms.  The engine's orders and trades are those of the   *)
(* requests; what the orders of a user have frozen covers what they may    *)
(* still cost; and what a bank has frozen is that and what is not settled. *)
(***************************************************************************)
EXTENDS Ccoms

(* The stream of a bank has only requests it takes. *)
RoutedInv == \A c \in Coin : \A n \in DOMAIN sent[c] : CoinOf(sent[c][n].side) = c

(* An order is a ticket the engine has had, and no other order is. *)
OrdersInv ==
    /\ \A i \in DOMAIN book :
        /\ ticket[i] \in 1 .. latest[book[i].side]
        /\ RequestOf(i).side = book[i].side /\ RequestOf(i).price = book[i].price
    /\ \A i, j \in DOMAIN book : book[i].side = book[j].side /\ ticket[i] = ticket[j] => i = j

(* A trade is between two limits, and what is left of an order is what its trades
   have not filled. *)
TradesInv ==
    /\ \A k \in DOMAIN tape :
        /\ book[tape[k].ask].side = "ask" /\ book[tape[k].bid].side = "bid"
        /\ book[tape[k].ask].price <= tape[k].price /\ tape[k].price <= book[tape[k].bid].price
    /\ \A i \in DOMAIN book :
        SumFunction([k \in TradesOf(i) |-> tape[k].qty]) + book[i].left = RequestOf(i).qty

(* What the tickets of a user have frozen at the bank of a coin, and what all
   trades so far take of it. *)
Funds(c, o) ==
    SumFunction([n \in {m \in 1 .. taken[c] : sent[c][m].owner = o} |-> Total(sent[c][n])])

Spent(c, o) ==
    SumFunction([k \in {j \in DOMAIN tape : Changes(c)[j].payer = o} |-> Changes(c)[k].amount])

(* The three parts of what is owed: tickets under way, open orders, trades that are
   not settled. *)
OpenTickets(c, o) ==
    SumFunction([n \in {m \in LastID(c) + 1 .. taken[c] : sent[c][m].owner = o}
                     |-> Value(sent[c][n]) * Unit])

OpenOrders(c, o) ==
    SumFunction([i \in {j \in OrdersOf(c) : RequestOf(j).owner = o} |-> OpenCost(i)])

Unsettled(c, o) ==
    SumFunction([k \in {j \in settled[c] + 1 .. Len(tape) : Changes(c)[j].payer = o}
                     |-> Changes(c)[k].amount])

MoneyInv ==
    \A c \in Coin, o \in Owners :
        /\ Funds(c, o) - Spent(c, o) >= OpenTickets(c, o) + OpenOrders(c, o)
        /\ money[c][o].freeze = Funds(c, o) - Spent(c, o) + Unsettled(c, o)

SystemInv == RoutedInv /\ OrdersInv /\ TradesInv /\ MoneyInv
=============================================================================
