-------------------------------- MODULE Bank --------------------------------
(***************************************************************************)
(* The bank of one coin (pkg/bank): order requests come in from NATS,      *)
(* balance changes from the matching engine, and one main thread turns     *)
(* each of them into a line of the bank's log (pkg/filedb).  A writer      *)
(* thread copies the log to MySQL, from which a restarted bank recovers.   *)
(*                                                                         *)
(* Memory of the process: pc, ch, assets, logID, ticketID, latestSeq,      *)
(* reasonID, ackTo, savedLogID, writer.  What survives it: filedb and torn *)
(* (the file), snapLog, natsSeq, tickets, nextTicket and balances (MySQL). *)
(* sent, delivered and acked belong to NATS, trades and session to the     *)
(* matching engine.                                                        *)
(***************************************************************************)
EXTENDS Integers, Sequences, FiniteSets, FiniteSetsExt

CONSTANTS
    Owners,       \* the users
    Rows,         \* the users with a row in `balances`
    Deposit,      \* what is free in such a row at first
    Requests,     \* the order requests: who, and value plus fee
    FaultKinds,   \* the kinds of faults that may happen
    MaxRequests,  \* bound: requests published
    MaxTrades,    \* bound: trades of the matching engine
    ChanCap,      \* room of w.ch and the channel before it (1024 + 256)
    BatchMax,     \* most lines of one transaction (100 in the code)
    MaxFaults     \* bound: faults in one behaviour

ASSUME BankAssumption ==
    /\ Rows \subseteq Owners
    /\ Deposit \in Nat
    /\ Requests \subseteq [owner : Owners, total : Nat \ {0}]
    /\ FaultKinds \subseteq {"crash", "torn", "tx", "late", "swallow", "redeliver", "drop", "ome"}
    /\ MaxRequests \in Nat /\ MaxTrades \in Nat /\ MaxFaults \in Nat
    /\ ChanCap \in Nat \ {0} /\ BatchMax \in Nat \ {0}

VARIABLES
    sent,        \* the requests in the NATS stream, by sequence number
    delivered,   \* last one the consumer of this bank was given, or Off
    acked,       \* all up to here are acknowledged
    ackTo,       \* the greatest sequence number handed to the ack goroutine
    trades,      \* the trades in the log of the matching engine
    session,     \* last trade pushed on the BalanceChanges stream, Off or Stuck
    ch,          \* w.ch: messages for the main thread
    pc,          \* what the main thread does next
    assets,      \* w.Assets; a user that is not in the map has nothing
    logID, ticketID,
    latestSeq,   \* w.LatestMsgSeq
    reasonID,    \* w.OmeReasonIDs of the one symbol
    savedLogID,  \* w.SavedLogID
    writer,      \* lines the writer's tail has handed over in this round, or Off
    filedb, torn,
    snapLog,     \* log id of the last row of balance_snaps
    natsSeq,     \* lastkv nats_seq
    tickets,     \* tickets[id]: the request the row was made from
    nextTicket,  \* the AUTO_INCREMENT counter of the ticket table
    balances,    \* the table of that name
    faults

natsVars   == <<sent, delivered, acked>>
omeVars    == <<trades, session>>
memVars    == <<assets, logID, ticketID, latestSeq, reasonID>>
writerVars == <<savedLogID, writer>>
fileVars   == <<filedb, torn>>
tableVars  == <<snapLog, natsSeq, tickets, nextTicket, balances>>
vars == <<natsVars, ackTo, omeVars, ch, pc, memVars, writerVars, fileVars, tableVars, faults>>

Off == -1
Stuck == -2

-----------------------------------------------------------------------------
(* Records. *)

Money == [free : Int, freeze : Int]
Nothing == [free |-> 0, freeze |-> 0]

OrderMsg == [kind : {"order"}, seq : Nat]
ChangeMsg == [kind : {"change"}, reason : Nat]

(* A log line: what caused it and the new balances it leaves. *)
TicketLine == [kind : {"ticket"}, logID : Nat, seq : Nat, id : Nat, owner : Owners,
               total : Nat, new : [Owners -> Money]]
ChangeLine == [kind : {"change"}, logID : Nat, seq : {0}, reason : Nat,
               payer : Owners, payee : Owners, amount : Nat, new : [Owners -> Money]]

IsTicket(l) == l.kind = "ticket"
Users(l) == IF IsTicket(l) THEN {l.owner} ELSE {l.payer, l.payee}

Add(m, o, free, freeze) ==
    [m EXCEPT ![o] = [free |-> @.free + free, freeze |-> @.freeze + freeze]]

-----------------------------------------------------------------------------
(* The process. *)

Init ==
    /\ sent = <<>> /\ delivered = Off /\ acked = 0 /\ ackTo = 0
    /\ trades = <<>> /\ session = Off
    /\ ch = <<>> /\ pc = "down"
    /\ assets = [o \in Owners |-> Nothing]
    /\ logID = 0 /\ ticketID = 0 /\ latestSeq = 0 /\ reasonID = 0
    /\ savedLogID = 0 /\ writer = Off
    /\ filedb = <<>> /\ torn = "no"
    /\ snapLog = 0 /\ natsSeq = 0 /\ tickets = <<>> /\ nextTicket = 1
    /\ balances = [o \in Rows |-> [free |-> Deposit, freeze |-> 0]]
    /\ faults = 0

Fault(k) == k \in FaultKinds /\ faults < MaxFaults /\ faults' = faults + 1

(* The engine's end of BalanceChanges does not come back: the goroutine that sends
   returns on the error, but PushBalanceLogs goes on tailing the log.  Mutant: it
   connects again. *)
Broken_Reopens == Off

Broken == IF session = Off THEN Off ELSE Stuck

(* The process is gone, its subscription and its streams with it. *)
Halt ==
    /\ pc' = "down"
    /\ delivered' = Off /\ acked' = 0 /\ ackTo' = 0
    /\ session' = Broken
    /\ ch' = <<>>
    /\ assets' = [o \in Owners |-> Nothing]
    /\ logID' = 0 /\ ticketID' = 0 /\ latestSeq' = 0 /\ reasonID' = 0
    /\ savedLogID' = 0 /\ writer' = Off

(* kill -9, or an error that makes Run return and main panic; a write to the
   log that fails is one of them. *)
Crash ==
    /\ pc # "down"
    /\ Fault("crash")
    /\ Halt
    /\ UNCHANGED <<sent, trades, fileVars, tableVars>>

-----------------------------------------------------------------------------
(* Recovery. *)

(* With torn = "whole" it would be that of the unfinished line, which no bank
   gets past waiting for. *)
LastSeq == IF filedb = <<>> THEN 0 ELSE filedb[Len(filedb)].seq

(* The id in the last non-empty line, its \n there or not; 0 for an empty file. *)
LastLogID ==
    IF torn = "whole" THEN Len(filedb) + 1
    ELSE IF filedb = <<>> THEN 0 ELSE filedb[Len(filedb)].logID

(* New.  It fails, every time again, when the last line does not parse. *)
Start ==
    /\ pc = "down"
    /\ torn # "partial"
    /\ pc' = "wait"
    /\ logID' = LastLogID
    /\ latestSeq' = LastSeq
    /\ UNCHANGED <<natsVars, ackTo, omeVars, ch, assets, ticketID, reasonID, writerVars,
                   fileVars, tableVars, faults>>

(* WaitForFiledb asks MySQL itself.  Mutants: it does not wait; it waits for one
   line too many. *)
IsSaved_Always == TRUE

IsSaved_Strict == snapLog > LastLogID

IsSaved == snapLog >= LastLogID

WaitForFiledb ==
    /\ pc = "wait"
    /\ IsSaved
    /\ logID' = LastLogID
    /\ pc' = "load"
    /\ UNCHANGED <<natsVars, ackTo, omeVars, ch, assets, ticketID, latestSeq, reasonID,
                   writerVars, fileVars, tableVars, faults>>

(* The sequence number comes from lastkv: the last line may be a balance change
   and have none.  Mutants: that of the last line; one less. *)
RecoveredSeq_LastLine == LastSeq

RecoveredSeq_Before == natsSeq - 1

RecoveredSeq == natsSeq

(* The id of the last row.  Mutant: the next one of the counter. *)
LastTicket_Next == nextTicket

LastTicket == IF DOMAIN tickets = {} THEN 0 ELSE Max(DOMAIN tickets)

(* Nothing writes the ome_reasonid_* rows, so OmeReasonIDs stays empty. *)
LoadAllAssets ==
    /\ pc = "load"
    /\ assets' = [o \in Owners |-> IF o \in Rows THEN balances[o] ELSE Nothing]
    /\ ticketID' = LastTicket
    /\ latestSeq' = RecoveredSeq
    /\ pc' = "work"
    /\ UNCHANGED <<natsVars, ackTo, omeVars, ch, logID, reasonID, writerVars, fileVars,
                   tableVars, faults>>

-----------------------------------------------------------------------------
(* NATS. *)

Publish(r) ==
    /\ Len(sent) < MaxRequests
    /\ sent' = Append(sent, r)
    /\ UNCHANGED <<delivered, acked, ackTo, omeVars, ch, pc, memVars, writerVars, fileVars,
                   tableVars, faults>>

(* SubNats: an ephemeral consumer that starts after the latest request. *)
Subscribe ==
    /\ pc = "work"
    /\ delivered = Off
    /\ delivered' = latestSeq
    /\ acked' = latestSeq
    /\ UNCHANGED <<sent, ackTo, omeVars, ch, pc, memVars, writerVars, fileVars, tableVars, faults>>

Enqueue(m) == Len(ch) < ChanCap /\ ch' = Append(ch, m)

Deliver ==
    /\ delivered # Off
    /\ delivered < Len(sent)
    /\ Enqueue([kind |-> "order", seq |-> delivered + 1])
    /\ delivered' = delivered + 1
    /\ UNCHANGED <<sent, acked, ackTo, omeVars, pc, memVars, writerVars, fileVars, tableVars, faults>>

(* w.ch and the channel before it are full: the library drops the message. *)
Drop ==
    /\ delivered # Off
    /\ delivered < Len(sent)
    /\ Len(ch) = ChanCap
    /\ Fault("drop")
    /\ delivered' = delivered + 1
    /\ UNCHANGED <<sent, acked, ackTo, omeVars, ch, pc, memVars, writerVars, fileVars, tableVars>>

(* The server has waited too long for an acknowledgement. *)
Redeliver(q) ==
    /\ delivered # Off
    /\ q \in acked + 1 .. delivered
    /\ Fault("redeliver")
    /\ Enqueue([kind |-> "order", seq |-> q])
    /\ UNCHANGED <<natsVars, ackTo, omeVars, pc, memVars, writerVars, fileVars, tableVars>>

(* The ack goroutine; AckAll acknowledges the earlier ones as well. *)
Ack ==
    /\ acked < ackTo
    /\ acked' = ackTo
    /\ UNCHANGED <<sent, delivered, ackTo, omeVars, ch, pc, memVars, writerVars, fileVars,
                   tableVars, faults>>

Later(m, n) == IF m > n THEN m ELSE n

-----------------------------------------------------------------------------
(* The BalanceChanges stream. *)

(* The matching engine fills orders, whole or in part and in any order, out of
   what their tickets have frozen. *)
TicketLines == {i \in DOMAIN filedb : IsTicket(filedb[i])}

Spare(o) ==
    SumFunction([i \in {j \in TicketLines : filedb[j].owner = o} |-> filedb[i].total])
        - SumFunction([k \in {j \in DOMAIN trades : trades[j].payer = o} |-> trades[k].amount])

Trade(payer, payee) ==
    /\ Len(trades) < MaxTrades
    /\ \E amount \in 1 .. Spare(payer) :
        trades' = Append(trades, [payer |-> payer, payee |-> payee, amount |-> amount])
    /\ UNCHANGED <<natsVars, ackTo, session, ch, pc, memVars, writerVars, fileVars, tableVars, faults>>

(* PushBalanceChanges and the first message of BalanceChanges: the bank tells
   the engine the id of the last change its main thread took.  Mutant: the
   engine skips one. *)
FirstID_Next == reasonID + 1

FirstID == reasonID

OpenSession ==
    /\ pc = "work"
    /\ session = Off
    /\ session' = FirstID
    /\ UNCHANGED <<natsVars, ackTo, trades, ch, pc, memVars, writerVars, fileVars, tableVars, faults>>

PushChange ==
    /\ session \notin {Off, Stuck}
    /\ session < Len(trades)
    /\ Enqueue([kind |-> "change", reason |-> session + 1])
    /\ session' = session + 1
    /\ UNCHANGED <<natsVars, ackTo, trades, pc, memVars, writerVars, fileVars, tableVars, faults>>

(* The matching engine restarts: only then does it connect again.  What it has
   pushed before stays in w.ch. *)
OmeRestart ==
    /\ session # Off
    /\ Fault("ome")
    /\ session' = Off
    /\ UNCHANGED <<natsVars, ackTo, trades, ch, pc, memVars, writerVars, fileVars, tableVars>>

-----------------------------------------------------------------------------
(* The main thread: HandleBankMsgs. *)

Taking(kind) == pc = "work" /\ ch # <<>> /\ Head(ch).kind = kind

(* HandleOrderReq on a request it has seen.  Mutant: on all the consumer was
   given. *)
Seen_Delivered(q) == q <= delivered

Seen(q) == q <= latestSeq

SkipSeen ==
    /\ Taking("order")
    /\ Seen(Head(ch).seq)
    /\ ch' = Tail(ch)
    /\ ackTo' = Later(ackTo, Head(ch).seq)
    /\ UNCHANGED <<natsVars, omeVars, pc, memVars, writerVars, fileVars, tableVars, faults>>

(* CreateOrder: the order's value and fee are frozen, whatever the user has. *)
Reserved(o, total) == Add(assets, o, -total, total)

CreateOrder ==
    LET q   == Head(ch).seq
        r   == sent[q]
        new == Reserved(r.owner, r.total)
    IN  /\ Taking("order")
        /\ ~Seen(q)
        /\ assets' = new
        /\ logID' = logID + 1
        /\ ticketID' = ticketID + 1
        /\ filedb' = Append(filedb, [kind |-> "ticket", logID |-> logID + 1, seq |-> q,
                                     id |-> ticketID + 1, owner |-> r.owner,
                                     total |-> r.total, new |-> new])
        /\ latestSeq' = q
        /\ ackTo' = Later(ackTo, q)
        /\ ch' = Tail(ch)
        /\ UNCHANGED <<natsVars, omeVars, pc, reasonID, writerVars, torn, tableVars, faults>>

(* BalanceChanged: no check whether the change has been applied before.
   Mutant: the payee gets it frozen. *)
Settled_Frozen(t) == Add(Add(assets, t.payer, 0, -t.amount), t.payee, 0, t.amount)

Settled(t) == Add(Add(assets, t.payer, 0, -t.amount), t.payee, t.amount, 0)

BalanceChanged(k) ==
    LET t   == trades[k]
        new == Settled(t)
    IN  /\ assets' = new
        /\ logID' = logID + 1
        /\ filedb' = Append(filedb, [kind |-> "change", logID |-> logID + 1, seq |-> 0,
                                     reason |-> k, payer |-> t.payer, payee |-> t.payee,
                                     amount |-> t.amount, new |-> new])

(* The id of the change is noted whatever becomes of it. *)
HandleBalanceChange ==
    /\ Taking("change")
    /\ reasonID' = Head(ch).reason
    /\ BalanceChanged(Head(ch).reason)
    /\ ch' = Tail(ch)
    /\ UNCHANGED <<natsVars, ackTo, omeVars, pc, ticketID, latestSeq, writerVars, torn,
                   tableVars, faults>>

(* The write fails and the main thread does not see it: the ack goroutine puts
   the result of its own call into the err both share.  The handler has undone
   its changes, except for the reason id. *)
WriteErrorSwallowed ==
    /\ \/ Taking("order") /\ ~Seen(Head(ch).seq) /\ UNCHANGED reasonID
       \/ Taking("change") /\ reasonID' = Head(ch).reason
    /\ acked < ackTo
    /\ Fault("swallow")
    /\ acked' = ackTo
    /\ ch' = Tail(ch)
    /\ UNCHANGED <<sent, delivered, ackTo, omeVars, pc, assets, logID, ticketID, latestSeq,
                   writerVars, fileVars, tableVars>>

(* The process dies inside WriteLine: part of a line, or all but its \n. *)
CrashInWrite ==
    /\ \/ Taking("order") /\ ~Seen(Head(ch).seq)
       \/ Taking("change")
    /\ Fault("torn")
    /\ torn' \in {"partial", "whole"}
    /\ Halt
    /\ UNCHANGED <<sent, trades, filedb, tableVars>>

-----------------------------------------------------------------------------
(* The writer thread. *)

Batch(n) == (writer + 1) .. (writer + n)
NotSaved(n) == {i \in Batch(n) : filedb[i].logID > savedLogID}
CanTake(n) == writer # Off /\ writer + n <= Len(filedb)

WriterRound ==
    /\ pc # "down"
    /\ writer = Off
    /\ savedLogID' = snapLog
    /\ writer' = 0
    /\ UNCHANGED <<natsVars, ackTo, omeVars, ch, pc, memVars, fileVars, tableVars, faults>>

TicketsIn(S) == {i \in S : IsTicket(filedb[i])}

(* The rows get the next ids of the table, whatever ids the tickets have. *)
TicketRows(S) ==
    [id \in DOMAIN tickets \cup nextTicket .. nextTicket + Cardinality(TicketsIn(S)) - 1 |->
        IF id \in DOMAIN tickets THEN tickets[id]
        ELSE filedb[CHOOSE i \in TicketsIn(S) :
                        Cardinality({j \in TicketsIn(S) : j < i}) = id - nextTicket].seq]

(* The last line of the batch that touches a user decides; a user without a row
   is left out by the UPDATE.  Mutant: the first line decides. *)
BalanceRows_First(S) ==
    [o \in Rows |->
        LET own == {i \in S : o \in Users(filedb[i])}
        IN  IF own = {} THEN balances[o] ELSE filedb[Min(own)].new[o]]

BalanceRows(S) ==
    [o \in Rows |->
        LET own == {i \in S : o \in Users(filedb[i])}
        IN  IF own = {} THEN balances[o] ELSE filedb[Max(own)].new[o]]

SeqRow(S) ==
    LET top == Max({filedb[i].seq : i \in S})
    IN  IF top > 0 THEN top ELSE natsSeq

Save(S) ==
    /\ natsSeq' = SeqRow(S)
    /\ snapLog' = filedb[Max(S)].logID
    /\ tickets' = TicketRows(S)
    /\ nextTicket' = nextTicket + Cardinality(TicketsIn(S))
    /\ balances' = BalanceRows(S)

WriterSkips(n) ==
    /\ CanTake(n)
    /\ NotSaved(n) = {}
    /\ writer' = writer + n
    /\ UNCHANGED <<natsVars, ackTo, omeVars, ch, pc, memVars, savedLogID, fileVars, tableVars, faults>>

WriterSaves(n) ==
    /\ CanTake(n)
    /\ NotSaved(n) # {}
    /\ Save(NotSaved(n))
    /\ savedLogID' = filedb[writer + n].logID
    /\ writer' = writer + n
    /\ UNCHANGED <<natsVars, ackTo, omeVars, ch, pc, memVars, fileVars, faults>>

(* The transaction returns an error: rolled back, or committed with its answer
   lost; rolled back after the INSERT into the ticket table it has used up ids
   for good ("late").  The round is over and the watermark moves all the same. *)
WriterFails(n) ==
    /\ CanTake(n)
    /\ NotSaved(n) # {}
    /\ \/ Fault("tx") /\ UNCHANGED tableVars
       \/ Fault("tx") /\ Save(NotSaved(n))
       \/ /\ Fault("late")
          /\ nextTicket' = nextTicket + Cardinality(TicketsIn(NotSaved(n)))
          /\ UNCHANGED <<snapLog, natsSeq, tickets, balances>>
    /\ savedLogID' = filedb[writer + n].logID
    /\ writer' = Off
    /\ UNCHANGED <<natsVars, ackTo, omeVars, ch, pc, memVars, fileVars>>

-----------------------------------------------------------------------------
Main ==
    \/ Start \/ WaitForFiledb \/ LoadAllAssets
    \/ SkipSeen \/ CreateOrder \/ HandleBalanceChange

Nats ==
    \/ Subscribe \/ Deliver \/ Drop \/ Ack
    \/ \E q \in 1 .. Len(sent) : Redeliver(q)

Settlement == OpenSession \/ PushChange \/ OmeRestart

Writer ==
    \/ WriterRound
    \/ \E n \in 1 .. BatchMax :
        \/ WriterSkips(n)
        \/ WriterSaves(n)
        \/ WriterFails(n)

Next ==
    \/ \E r \in Requests : Publish(r)
    \/ \E o, p \in Owners : Trade(o, p)
    \/ Main
    \/ Nats
    \/ Settlement
    \/ Writer
    \/ Crash
    \/ CrashInWrite
    \/ WriteErrorSwallowed

Spec == Init /\ [][Next]_vars

(* The goroutines keep running and retry every second. *)
Fairness ==
    /\ WF_vars(Main)
    /\ WF_vars(Subscribe) /\ WF_vars(Deliver)
    /\ WF_vars(OpenSession) /\ WF_vars(PushChange)
    /\ WF_vars(WriterRound)
    /\ WF_vars(\E n \in 1 .. BatchMax : WriterSkips(n) \/ WriterSaves(n))

FairSpec == Spec /\ Fairness

-----------------------------------------------------------------------------
(* Properties. *)

(* Every variable keeps the shape the code's declarations give it. *)
TypeOK ==
    /\ sent \in Seq(Requests)
    /\ delivered \in Nat \cup {Off} /\ acked \in Nat /\ ackTo \in Nat
    /\ trades \in Seq([payer : Owners, payee : Owners, amount : Nat])
    /\ session \in Nat \cup {Off, Stuck}
    /\ ch \in Seq(OrderMsg \cup ChangeMsg)
    /\ pc \in {"down", "wait", "load", "work"}
    /\ assets \in [Owners -> Money]
    /\ logID \in Nat /\ ticketID \in Nat /\ latestSeq \in Nat /\ reasonID \in Nat
    /\ savedLogID \in Nat /\ writer \in Nat \cup {Off}
    /\ filedb \in Seq(TicketLine \cup ChangeLine)
    /\ torn \in {"no", "partial", "whole"}
    /\ snapLog \in Nat /\ natsSeq \in Nat /\ nextTicket \in Nat \ {0}
    /\ DOMAIN tickets \subseteq 1 .. nextTicket - 1
    /\ \A id \in DOMAIN tickets : tickets[id] \in Nat
    /\ balances \in [Rows -> Money]
    /\ faults \in Nat

(* The number of a ticket among those of the log. *)
Number(i) == Cardinality({j \in TicketLines : j <= i})

(* Every request of the stream becomes one ticket, in the order of the stream,
   over redeliveries, crashes and the balance changes in between that carry no
   sequence number (LatestMsgSeq, nats_seq, HandleOrderReq). *)
RequestsOnceInOrder ==
    \A i \in TicketLines :
        /\ filedb[i].seq = Number(i)
        /\ [owner |-> filedb[i].owner, total |-> filedb[i].total] = sent[Number(i)]

(* Whatever else happens to a request, also when it is dropped or overlooked, it
   never becomes two tickets or somebody else's, and none overtakes an earlier
   one (HandleOrderReq, LatestMsgSeq). *)
RequestsAtMostOnce ==
    \A i \in TicketLines :
        /\ [owner |-> filedb[i].owner, total |-> filedb[i].total] = sent[filedb[i].seq]
        /\ \A j \in TicketLines : j < i => filedb[j].seq < filedb[i].seq

(* Ticket ids go up by one, as the matching engine insists they do, also after a
   restart that takes the last one from the table (LoadAllAssets). *)
TicketIDsConsecutive == \A i \in TicketLines : filedb[i].id = Number(i)

(* A request that NATS may forget is in the log (the ack of HandleOrderReq). *)
AckedIsLogged == \A q \in 1 .. acked : \E i \in TicketLines : filedb[i].seq = q

ChangeLines == DOMAIN filedb \ TicketLines

(* Nothing is lost between the engine and the bank: a balance change is applied
   only when all earlier ones have been, whoever restarts (OmeReasonIDs,
   BalanceChanges, PushBalanceLogs). *)
SettledInOrder ==
    \A i \in ChangeLines : \A k \in 1 .. filedb[i].reason - 1 :
        \E j \in ChangeLines : j < i /\ filedb[j].reason = k

(* And none is applied twice: what the engine's reason ids are for. *)
SettledOnce == \A i, j \in ChangeLines : filedb[i].reason = filedb[j].reason => i = j

(* What a user has by the first n lines of the log. *)
Gain(l, o) ==
    IF IsTicket(l) THEN IF l.owner = o THEN -l.total ELSE 0
    ELSE IF l.payee = o THEN l.amount ELSE 0

Freeze(l, o) ==
    IF IsTicket(l) THEN IF l.owner = o THEN l.total ELSE 0
    ELSE IF l.payer = o THEN -l.amount ELSE 0

Replay(o, n) ==
    [free   |-> (IF o \in Rows THEN Deposit ELSE 0)
                    + SumFunction([i \in 1 .. n |-> Gain(filedb[i], o)]),
     freeze |-> SumFunction([i \in 1 .. n |-> Freeze(filedb[i], o)])]

(* The balances the bank works with are the effect of every line of its log,
   each once, whether carried along or reloaded from MySQL (CheckoutAsset,
   LoadAllAssets, the undo of a failed write). *)
AssetsAreLog == pc = "work" => \A o \in Owners : assets[o] = Replay(o, Len(filedb))

(* MySQL is the effect of the first snapLog lines: no batch, lost answer, failed
   transaction or restart loses a line or applies one twice. *)
MySQLIsPrefix ==
    LET own == {i \in TicketLines : i <= snapLog}
    IN  /\ snapLog <= Len(filedb)
        /\ natsSeq = (IF own = {} THEN 0 ELSE filedb[Max(own)].seq)
        /\ {tickets[id] : id \in DOMAIN tickets} = {filedb[i].seq : i \in own}
        /\ Cardinality(DOMAIN tickets) = Cardinality(own)
        /\ \A o \in Rows : balances[o] = Replay(o, snapLog)

(* The abstract ledger, seen through the balances the log lines carry. *)
Logged(o) ==
    LET own == {i \in DOMAIN filedb : o \in Users(filedb[i])}
    IN  IF own = {} THEN [free |-> IF o \in Rows THEN Deposit ELSE 0, freeze |-> 0]
        ELSE filedb[Max(own)].new[o]

Abstract == INSTANCE Ledger WITH
    taken   <- Cardinality(TicketLines),
    settled <- Cardinality(ChangeLines),
    money   <- [o \in Owners |-> Logged(o)]

(* The log of a bank that crashes and recovers is the run of one ledger that
   takes each request and settles each trade once, in their order. *)
ImplementsLedger == Abstract!Spec

(* Every request becomes a row of the ticket table, unless a crash inside a write
   left the log with a broken last line. *)
RequestsReachMySQL ==
    \A q \in 1 .. MaxRequests :
        (q <= Len(sent)) ~> (torn # "no" \/ \E id \in DOMAIN tickets : tickets[id] = q)

(* Every trade the matching engine logs is settled (README b2: the engine pushes
   the changes after the bank's id, "monitoring in real-time"). *)
TradesAreSettled ==
    \A k \in 1 .. MaxTrades :
        (k <= Len(trades)) ~> \E i \in ChangeLines : filedb[i].reason = k

(* The same, as far as the stream gets: the engine gives up on it when the bank
   goes down (Stuck), and a bank with a broken log does not come back. *)
SettledUnlessStuck ==
    \A k \in 1 .. MaxTrades :
        (k <= Len(trades)) ~> \/ session = Stuck \/ torn # "no"
                             \/ \E i \in ChangeLines : filedb[i].reason = k
=============================================================================
