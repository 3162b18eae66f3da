------------------------------- MODULE Ledger -------------------------------
(***************************************************************************)
(* What a bank promises, with no log, table, message or process in sight:  *)
(* it takes the published requests in their order and freezes what each    *)
(* one costs, and it settles the trades in their order, each once, out of  *)
(* what the payer has frozen.                                              *)
(***************************************************************************)
EXTENDS Integers, Sequences, FiniteSetsExt

CONSTANTS Owners, Rows, Deposit, Requests

VARIABLES
    sent,      \* the requests
    trades,    \* the trades
    taken,     \* requests taken so far
    settled,   \* trades settled so far
    money      \* what each user has free and frozen

vars == <<sent, trades, taken, settled, money>>

Init ==
    /\ sent = <<>> /\ trades = <<>>
    /\ taken = 0 /\ settled = 0
    /\ money = [o \in Owners |-> [free |-> IF o \in Rows THEN Deposit ELSE 0, freeze |-> 0]]

Publish(r) ==
    /\ sent' = Append(sent, r)
    /\ UNCHANGED <<trades, taken, settled, money>>

(* What the orders of a user have frozen that no trade has used yet. *)
Spare(o) ==
    SumFunction([i \in {j \in 1 .. taken : sent[j].owner = o} |-> sent[i].total])
        - SumFunction([k \in {j \in DOMAIN trades : trades[j].payer = o} |-> trades[k].amount])

(* A trade pays out of what the payer's orders have frozen, whole or in part and
   in any order. *)
Fill(payer, payee) ==
    /\ \E amount \in 1 .. Spare(payer) :
        trades' = Append(trades, [payer |-> payer, payee |-> payee, amount |-> amount])
    /\ UNCHANGED <<sent, taken, settled, money>>

Take ==
    /\ taken < Len(sent)
    /\ taken' = taken + 1
    /\ LET r == sent[taken + 1]
       IN  money' = [money EXCEPT ![r.owner].free = @ - r.total, ![r.owner].freeze = @ + r.total]
    /\ UNCHANGED <<sent, trades, settled>>

Settle ==
    /\ settled < Len(trades)
    /\ settled' = settled + 1
    /\ LET t == trades[settled + 1]
       IN  /\ money[t.payer].freeze >= t.amount
           /\ money' = [money EXCEPT ![t.payer].freeze = @ - t.amount, ![t.payee].free = @ + t.amount]
    /\ UNCHANGED <<sent, trades, taken>>

Next ==
    \/ \E r \in Requests : Publish(r)
    \/ \E o, p \in Owners : Fill(o, p)
    \/ Take
    \/ Settle

Spec == Init /\ [][Next]_vars
=============================================================================
