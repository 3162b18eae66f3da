------------------------------ MODULE Ingress ------------------------------
(***************************************************************************)
(* The ingress process (startIngress in cmd/main, pkg/ingress): the main   *)
(* goroutine makes orders, workers send them to the bank of the right coin *)
(* over NATS, and a counter releases the main goroutine once there have    *)
(* been as many reports as orders.  Orders are named by the order they     *)
(* were made in.                                                           *)
(***************************************************************************)
EXTENDS Integers, Sequences, FiniteSets

CONSTANTS
    Workers,     \* the sending goroutines (16 in the code)
    Target,      \* orders to make (10^6 in the code)
    ChanCap,     \* room of the channel of orders and of that of reports (1024)
    MaxTries     \* attempts to connect to NATS (100 in the code)

ASSUME IngressAssumption ==
    /\ Workers # {} /\ IsFiniteSet(Workers)
    /\ Target \in Nat \ {0} /\ ChanCap \in Nat \ {0} /\ MaxTries \in Nat \ {0}

VARIABLES
    pc,        \* what the main goroutine does
    tries,     \* attempts to connect to the bank that is next
    made,      \* orders made
    side,      \* side[n]: the side drawn for the n-th of them
    ch,        \* orders for the workers
    worker,    \* worker[w]: what it does, and with which order
    ch2,       \* reports for the counter
    sentOds,   \* reports counted
    wg,        \* the WaitGroup
    stream,    \* stream[c]: the orders NATS has for the bank of coin c
    failed     \* the orders whose Publish returned an error

mainVars == <<pc, tries, made, side>>
vars == <<mainVars, ch, worker, ch2, sentOds, wg, stream, failed>>

Coin == {"BTC", "USDT"}
Side == {"ask", "bid"}
Idle == [step |-> "idle", order |-> 0]

Init ==
    /\ pc = "BTC" /\ tries = 0
    /\ made = 0 /\ side = <<>>
    /\ ch = <<>> /\ worker = [w \in Workers |-> Idle]
    /\ ch2 = 0 /\ sentOds = 0 /\ wg = 1
    /\ stream = [c \in Coin |-> <<>>]
    /\ failed = {}

(* GetNats for BTC, then for USDT: later calls find the connection in the map. *)
GetNats ==
    /\ pc \in Coin
    /\ pc' = IF pc = "BTC" THEN "USDT" ELSE "make"
    /\ tries' = 0
    /\ UNCHANGED <<made, side, ch, worker, ch2, sentOds, wg, stream, failed>>

(* etcd or NATS does not answer; after the last attempt startIngress returns the
   error and main panics. *)
GetNatsFails ==
    /\ pc \in Coin
    /\ tries' = tries + 1
    /\ pc' = IF tries' = MaxTries THEN "failed" ELSE pc
    /\ UNCHANGED <<made, side, ch, worker, ch2, sentOds, wg, stream, failed>>

Make(s) ==
    /\ pc = "make"
    /\ made < Target
    /\ Len(ch) < ChanCap
    /\ made' = made + 1
    /\ side' = Append(side, s)
    /\ ch' = Append(ch, made + 1)
    /\ pc' = IF made' = Target THEN "wait" ELSE pc
    /\ UNCHANGED <<tries, worker, ch2, sentOds, wg, stream, failed>>

(* wg.Wait: startIngress prints its result and returns. *)
Return ==
    /\ pc = "wait"
    /\ wg = 0
    /\ pc' = "done"
    /\ UNCHANGED <<tries, made, side, ch, worker, ch2, sentOds, wg, stream, failed>>

(* Once main has returned the process is gone. *)
Running == pc \in {"make", "wait"}

Take(w) ==
    /\ Running
    /\ worker[w] = Idle
    /\ ch # <<>>
    /\ worker' = [worker EXCEPT ![w] = [step |-> "send", order |-> Head(ch)]]
    /\ ch' = Tail(ch)
    /\ UNCHANGED <<mainVars, ch2, sentOds, wg, stream, failed>>

dispatchBank(s) == IF s = "bid" THEN "USDT" ELSE "BTC"

(* Publish returns when the server has answered. *)
Store(n) == stream' = [stream EXCEPT ![dispatchBank(side[n])] = Append(@, n)]

(* What a worker does when Publish has returned; it logs an error and goes on.
   Mutants: it sends an order that failed again; it reports only successes. *)
AfterSend_Retry(n, ok) == [step |-> IF ok THEN "report" ELSE "send", order |-> n]

AfterSend_OnlySuccess(n, ok) == IF ok THEN [step |-> "report", order |-> n] ELSE Idle

AfterSend(n, ok) == [step |-> "report", order |-> n]

SendOrderReq(w) ==
    /\ Running
    /\ worker[w].step = "send"
    /\ Store(worker[w].order)
    /\ worker' = [worker EXCEPT ![w] = AfterSend(@.order, TRUE)]
    /\ UNCHANGED <<mainVars, ch, ch2, sentOds, wg, failed>>

(* It returns an error: the message was lost, or only the answer to it. *)
SendOrderReqFails(w) ==
    /\ Running
    /\ worker[w].step = "send"
    /\ \/ UNCHANGED stream
       \/ Store(worker[w].order)
    /\ failed' = failed \cup {worker[w].order}
    /\ worker' = [worker EXCEPT ![w] = AfterSend(@.order, FALSE)]
    /\ UNCHANGED <<mainVars, ch, ch2, sentOds, wg>>

Report(w) ==
    /\ Running
    /\ worker[w].step = "report"
    /\ ch2 < ChanCap
    /\ ch2' = ch2 + 1
    /\ worker' = [worker EXCEPT ![w] = Idle]
    /\ UNCHANGED <<mainVars, ch, sentOds, wg, stream, failed>>

(* Mutant: one report too early. *)
Enough_OneShort(n) == n >= Target - 1

Enough(n) == n >= Target

Count ==
    /\ Running
    /\ ch2 > 0
    /\ ch2' = ch2 - 1
    /\ sentOds' = sentOds + 1
    /\ wg' = IF Enough(sentOds') THEN wg - 1 ELSE wg
    /\ UNCHANGED <<mainVars, ch, worker, stream, failed>>

Worker(w) == Take(w) \/ SendOrderReq(w) \/ SendOrderReqFails(w) \/ Report(w)

Next ==
    \/ GetNats
    \/ GetNatsFails
    \/ \E s \in Side : Make(s)
    \/ Return
    \/ \E w \in Workers : Worker(w)
    \/ Count

Spec == Init /\ [][Next]_vars

(* Every goroutine goes on; each attempt to connect comes to an end. *)
Fairness ==
    /\ WF_vars(GetNats \/ GetNatsFails)
    /\ WF_vars((\E s \in Side : Make(s)) \/ Return)
    /\ \A w \in Workers : WF_vars(Worker(w))
    /\ WF_vars(Count)

FairSpec == Spec /\ Fairness

-----------------------------------------------------------------------------
(* Properties. *)

(* Every variable keeps its shape; the WaitGroup is never released twice, which
   would end the process. *)
TypeOK ==
    /\ pc \in Coin \cup {"make", "wait", "done", "failed"} /\ tries \in 0 .. MaxTries
    /\ made \in 0 .. Target /\ side \in Seq(Side) /\ Len(side) = made
    /\ ch \in Seq(1 .. made)
    /\ worker \in [Workers -> [step : {"idle", "send", "report"}, order : 0 .. made]]
    /\ ch2 \in 0 .. ChanCap /\ sentOds \in 0 .. Target /\ wg \in {0, 1}
    /\ stream \in [Coin -> Seq(1 .. made)] /\ failed \subseteq 1 .. made

(* Where in the streams the n-th order is. *)
Stores(n) ==
    {p \in UNION {{c} \X DOMAIN stream[c] : c \in Coin} : stream[p[1]][p[2]] = n}

(* However the sixteen workers take turns and whatever answers are lost, no order
   gets into the streams twice, nor into that of the bank that would refuse it
   (dispatchBank, SendOrderReq; the banks cannot tell a repeated order from a
   second one). *)
OnceInItsBank ==
    \A n \in 1 .. made :
        /\ Cardinality(Stores(n)) <= 1
        /\ \A p \in Stores(n) : p[1] = (IF side[n] = "bid" THEN "USDT" ELSE "BTC")

(* When startIngress returns, which ends the process and its goroutines, every
   order has been sent but those whose Publish returned an error: none is still
   in a channel or in the hands of a worker (sentOds, wg). *)
NoneLeftBehind ==
    pc = "done" => /\ ch = <<>> /\ \A w \in Workers : worker[w] = Idle
                   /\ \A n \in 1 .. Target : Stores(n) # {} \/ n \in failed

(* It does return, though both channels are bounded, the workers wait for both
   and failed orders count as well, unless it never connects. *)
Returns == <>(pc \in {"done", "failed"})
=============================================================================
