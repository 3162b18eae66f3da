------------------------------- MODULE BankInv -------------------------------
(***************************************************************************)
(* Why the bank's log is right: the inductive invariants behind the safety *)
(* properties of Bank, in layers.  Each layer is inductive given the ones  *)
(* before it: what messages and lines are copies of (Known), what of the   *)
(* log the writer has in MySQL and the main thread in memory (Recovery),   *)
(* which request was the last one (Seq), that none is left out (Stream),   *)
(* how the tickets are counted (TicketIDs), that no balance change is left *)
(* out (Settlement) or applied twice (Once), that balances (Money) and     *)
(* ticket rows (Rows) are the effect of the log, and that there is enough  *)
(* frozen for the trades to come (Frozen).                                 *)
(***************************************************************************)
EXTENDS Bank

IsOrder(m) == m.kind = "order"
IsChange(m) == m.kind = "change"

(* A message or a line is about a request that was published or a trade that
   was made, and a line says what that was. *)
ChannelKnown ==
    \A k \in DOMAIN ch : IF IsOrder(ch[k]) THEN ch[k].seq \in DOMAIN sent
                                           ELSE ch[k].reason \in DOMAIN trades

LineKnown(l) ==
    IF IsTicket(l)
    THEN l.seq \in DOMAIN sent /\ [owner |-> l.owner, total |-> l.total] = sent[l.seq]
    ELSE /\ l.reason \in DOMAIN trades
         /\ [payer |-> l.payer, payee |-> l.payee, amount |-> l.amount] = trades[l.reason]

KnownInv ==
    /\ ChannelKnown
    /\ \A i \in DOMAIN filedb : LineKnown(filedb[i])
    /\ \A q \in {delivered, latestSeq, natsSeq} : q <= Len(sent)
    /\ \A k \in {session, reasonID} : k <= Len(trades)

(* The writer has read no further than MySQL has got; a process that is not at
   work has no streams; one that has waited knows the whole log. *)
RecoveryInv ==
    /\ \A i \in DOMAIN filedb : filedb[i].logID = i
    /\ snapLog <= Len(filedb)
    /\ writer # Off => savedLogID = snapLog /\ writer <= snapLog
    /\ pc # "work" => ch = <<>> /\ delivered = Off /\ acked = 0 /\ ackTo = 0
                      /\ reasonID = 0 /\ session \in {Off, Stuck}
    /\ delivered = Off => \A k \in DOMAIN ch : IsChange(ch[k])
    /\ torn = "partial" => pc = "down"
    /\ pc \in {"load", "work"} => torn = "no" /\ logID = Len(filedb)
    /\ pc = "load" => snapLog = Len(filedb)

(* q is the last request with a ticket among the first n lines, or 0. *)
LastSeqIs(n, q) ==
    /\ \A i \in TicketLines : i <= n => filedb[i].seq <= q
    /\ q # 0 => \E i \in TicketLines : i <= n /\ filedb[i].seq = q

SeqInv ==
    /\ \A i, j \in TicketLines : j < i => filedb[j].seq < filedb[i].seq
    /\ LastSeqIs(snapLog, natsSeq)
    /\ pc = "work" => LastSeqIs(Len(filedb), latestSeq)

(* Without drops and overlooked write errors the requests that have no ticket yet
   wait in w.ch, in their order. *)
InChannel(q, n) == \E k \in DOMAIN ch : k < n /\ IsOrder(ch[k]) /\ ch[k].seq = q

NoGapLogged ==
    \A i \in TicketLines : \A q \in 1 .. filedb[i].seq - 1 :
        \E j \in TicketLines : filedb[j].seq = q

InFlight ==
    /\ \A k \in DOMAIN ch : IsOrder(ch[k]) =>
            /\ ch[k].seq <= delivered
            /\ \A q \in latestSeq + 1 .. ch[k].seq - 1 : InChannel(q, k)
    /\ \A q \in latestSeq + 1 .. delivered : InChannel(q, Len(ch) + 1)
    /\ acked <= latestSeq /\ ackTo <= latestSeq

StreamInv == NoGapLogged /\ RequestsOnceInOrder /\ InFlight

(* The tickets among the first n lines. *)
FirstTickets(n) == {i \in TicketLines : i <= n}

(* Without late rollbacks the table has the ids 1, 2, ... and so has the log. *)
TicketIDsInv ==
    /\ TicketIDsConsecutive
    /\ DOMAIN tickets = 1 .. Cardinality(FirstTickets(snapLog))
    /\ nextTicket = Cardinality(FirstTickets(snapLog)) + 1
    /\ pc = "work" => ticketID = Cardinality(TicketLines)

(* Without overlooked write errors a change that the bank has been told of, but
   not those before it, waits in w.ch behind them. *)
Applied(k) == \E i \in ChangeLines : filedb[i].reason = k
Waiting(k, n) == \E m \in DOMAIN ch : m < n /\ IsChange(ch[m]) /\ ch[m].reason = k

Owed ==
    /\ \A k \in 1 .. reasonID : Applied(k)
    /\ \A n \in DOMAIN ch : IsChange(ch[n]) =>
            \A k \in 1 .. ch[n].reason - 1 : Applied(k) \/ Waiting(k, n)
    /\ \A k \in 1 .. session : Applied(k) \/ Waiting(k, Len(ch) + 1)

SettlementInv == SettledInOrder /\ Owed

(* For a user with a row, the lines carry, the main thread has and MySQL has the
   effect of all lines up to there. *)
MoneyInv ==
    /\ \A i \in DOMAIN filedb : \A o \in Rows : filedb[i].new[o] = Replay(o, i)
    /\ pc = "work" => \A o \in Rows : assets[o] = Replay(o, Len(filedb))
    /\ \A o \in Rows : balances[o] = Replay(o, snapLog)

(* The ticket table has a row for each ticket of the lines in MySQL. *)
RowsInv ==
    /\ {tickets[id] : id \in DOMAIN tickets} = {filedb[i].seq : i \in FirstTickets(snapLog)}
    /\ Cardinality(DOMAIN tickets) = Cardinality(FirstTickets(snapLog))

(* An engine that never restarts opens one stream, and pushes each change once. *)
OnceInv ==
    /\ \A i, j \in ChangeLines : j < i => filedb[j].reason < filedb[i].reason
    /\ \A m, n \in DOMAIN ch :
            m < n /\ IsChange(ch[m]) /\ IsChange(ch[n]) => ch[m].reason < ch[n].reason
    /\ \A n \in DOMAIN ch : IsChange(ch[n]) =>
            /\ session # Stuck /\ ch[n].reason <= session
            /\ \A i \in ChangeLines : filedb[i].reason < ch[n].reason
    /\ session # Stuck => \A i \in ChangeLines : filedb[i].reason <= session

(* What a user has frozen pays for the trades not settled yet, and for more. *)
Unsettled(o) ==
    SumFunction([k \in {j \in DOMAIN trades : j > Cardinality(ChangeLines) /\ trades[j].payer = o}
                    |-> trades[k].amount])

FrozenInv ==
    \A o \in Owners :
        /\ Spare(o) >= 0
        /\ Replay(o, Len(filedb)).freeze = Spare(o) + Unsettled(o)

(* All of it, as far as the kinds of faults allow. *)
Without(kinds) == FaultKinds \cap kinds = {}

LogInv ==
    /\ KnownInv
    /\ RecoveryInv
    /\ SeqInv
    /\ MoneyInv
    /\ RowsInv
    /\ Without({"drop", "swallow"}) => StreamInv
    /\ Without({"late"}) => TicketIDsInv
    /\ Without({"swallow"}) => SettlementInv
    /\ Without({"ome"}) => OnceInv
    /\ Without({"swallow", "ome"}) => FrozenInv
=============================================================================
