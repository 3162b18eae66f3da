------------------------------- MODULE MCOme -------------------------------
(* Ome on small instances. *)
EXTENDS OmeInv

(* Two limits that cross one way only, and quantities that leave a remainder
   and, at Exp = 2, an amount that is rounded. *)
TwoRequests == {[price |-> 2, qty |-> 2], [price |-> 3, qty |-> 1]}

(* One limit, and two quantities: an order may be filled in part. *)
TwoQuantities == {[price |-> 1, qty |-> 1], [price |-> 1, qty |-> 2]}
=============================================================================
