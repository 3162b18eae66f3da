------------------------------ MODULE MCCcoms ------------------------------
(* Ccoms on a small instance. *)
EXTENDS CcomsInv

TwoUsers == {"u", "v"}

(* Limits that cross at three prices, quantities that leave a remainder on
   either side, and a user who may meet an order of their own. *)
FourRequests ==
    {[owner |-> "u", side |-> "ask", price |-> 2, qty |-> 2],
     [owner |-> "v", side |-> "ask", price |-> 1, qty |-> 1],
     [owner |-> "v", side |-> "bid", price |-> 3, qty |-> 1],
     [owner |-> "u", side |-> "bid", price |-> 2, qty |-> 2]}
=============================================================================
