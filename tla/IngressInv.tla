----------------------------- MODULE IngressInv -----------------------------
(***************************************************************************)
(* Where the orders of ingress are: the inductive invariant behind its     *)
(* safety properties.                                                      *)
(***************************************************************************)
EXTENDS Ingress

Busy == {w \in Workers : worker[w] # Idle}

(* How many orders the workers have taken. *)
Drawn == made - Len(ch)

(* What the main goroutine does tells how many orders there are. *)
MainInv ==
    /\ pc \in Coin => made = 0 /\ tries < MaxTries
    /\ pc = "make" => made < Target
    /\ pc \in {"wait", "done"} => made = Target
    /\ pc = "done" => wg = 0

(* The orders in the channel are the last ones made, in their order; the workers
   hold some of those before them, each another one. *)
HandsInv ==
    /\ Len(ch) <= made /\ \A k \in DOMAIN ch : ch[k] = Drawn + k
    /\ \A w \in Workers : worker[w].step = "idle" => worker[w] = Idle
    /\ \A w \in Busy : worker[w].order \in 1 .. Drawn
    /\ \A v, w \in Busy : worker[v].order = worker[w].order => v = w

(* An order is in no stream before a worker has sent it, then in one at most, and
   the right one; when the worker has gone on it is there or it has failed. *)
Sending == {worker[w].order : w \in {v \in Workers : worker[v].step = "send"}}

StoredInv ==
    /\ \A c \in Coin : \A i \in DOMAIN stream[c] :
        /\ stream[c][i] \in (1 .. Drawn) \ Sending
        /\ dispatchBank(side[stream[c][i]]) = c
        /\ \A j \in DOMAIN stream[c] : stream[c][i] = stream[c][j] => i = j
    /\ \A n \in (1 .. Drawn) \ Sending : Stores(n) # {} \/ n \in failed

(* Each order made is in the channel, in the hands of a worker, a report that waits
   or one that is counted; the count releases the WaitGroup. *)
CountInv ==
    /\ sentOds + ch2 + Cardinality(Busy) = Drawn
    /\ wg = IF sentOds < Target THEN 1 ELSE 0

Accounting == MainInv /\ HandsInv /\ StoredInv /\ CountInv
=============================================================================
