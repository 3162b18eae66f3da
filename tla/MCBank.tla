------------------------------- MODULE MCBank -------------------------------
(* Bank on small instances. *)
EXTENDS BankInv

(* Two users who both order and are paid. *)
TwoUsers == {"u", "v"}
TwoRequests == {[owner |-> "u", total |-> 1], [owner |-> "v", total |-> 2]}

OneUser == {"u"}
NoUsers == {}
OneRequest == {[owner |-> "u", total |-> 1]}
=============================================================================
