-------------------------------- MODULE Ome --------------------------------
(***************************************************************************)
(* The order matching engine of one symbol (pkg/ome) with its append-only *)
(* log (pkg/filedb), the MySQL tables its writer thread fills, the two     *)
(* ticket streams it pulls from the banks, and the crashes, broken streams *)
(* and failed transactions it has to live with.                            *)
(*                                                                         *)
(* Memory of the process: ch, pc, cur, asks, bids, latest, logID, orderID, *)
(* savedLogID, writer.  What survives it: filedb and torn (the file), and  *)
(* orders, trades, lastkv (the tables).  issued belongs to the banks.      *)
(***************************************************************************)
EXTENDS OrderBook, Sequences, FiniteSets, FiniteSetsExt

CONSTANTS
    Requests,             \* the prices and quantities tickets may carry
    MaxTickets,           \* bound: tickets both banks issue together
    ChanCap,              \* capacity of w.ch (1024 in the code)
    BatchMax,             \* most lines of one transaction (100 in the code)
    MaxFaults             \* bound: faults of any kind in one behaviour

ASSUME OmeAssumption ==
    /\ Requests \subseteq [price : Nat \ {0}, qty : Nat \ {0}]
    /\ MaxTickets \in Nat
    /\ ChanCap \in Nat \ {0}
    /\ BatchMax \in Nat \ {0}
    /\ MaxFaults \in Nat

VARIABLES
    issued,      \* issued[s]: the tickets of the bank of side s, numbered from 1
    stream,      \* stream[s]: last ticket sent on the open stream of side s, or Off
    ch,          \* w.ch: tickets received and not yet processed
    pc,          \* what the main thread does next
    cur,         \* the ticket being processed while pc = "match"
    asks, bids,  \* the b-trees
    latest,      \* LatestAskTicketID and LatestBidTicketID
    logID, orderID,
    savedLogID,  \* w.SavedLogID, written by the writer, read by WaitForFiledb
    writer,      \* lines the writer's tail has handed over in this round, or Off
    filedb,      \* the complete lines of the log
    torn,        \* what follows them: nothing, part of a line, or a line without its \n
    orders, trades, lastkv,   \* the MySQL tables
    faults       \* faults so far

bankVars  == <<issued, stream, ch>>
bookVars  == <<asks, bids, latest, logID, orderID>>
fileVars  == <<filedb, torn>>
tableVars == <<orders, trades, lastkv>>
vars == <<bankVars, pc, cur, bookVars, savedLogID, writer, fileVars, tableVars, faults>>

Side == {"ask", "bid"}
Off == -1
Idle == [side |-> "none", id |-> 0]   \* cur when no ticket is being processed

-----------------------------------------------------------------------------
(* Records. *)

Ticket == [side : Side, id : Nat, price : Nat, qty : Nat]

OrderLog == [kind : {"order"}, logID : Nat, id : Nat, ticket : Nat, side : Side,
             price : Nat, qty : Nat]

MatchLog == [kind : {"match"}, logID : Nat, ask : Nat, askQty : Nat, bid : Nat,
             bidQty : Nat, price : Nat, qty : Nat, amount : Nat]

OrderRow == [id : Nat, ticket : Nat, side : Side, price : Nat, orig : Nat,
             qty : Nat, amount : Nat, trades : Nat, status : {1, -1}]

TradeRow == [logID : Nat, ask : Nat, bid : Nat, price : Nat, qty : Nat, amount : Nat]

IsOrder(l) == l.kind = "order"
IsMatch(l) == l.kind = "match"
Touches(l, id) == IsMatch(l) /\ id \in {l.ask, l.bid}
Remaining(l, id) == IF l.ask = id THEN l.askQty ELSE l.bidQty

-----------------------------------------------------------------------------
(* The process. *)

Init ==
    /\ issued = [s \in Side |-> <<>>]
    /\ stream = [s \in Side |-> Off]
    /\ ch = <<>>
    /\ pc = "down"
    /\ cur = Idle
    /\ asks = {} /\ bids = {}
    /\ latest = [s \in Side |-> 0]
    /\ logID = 0 /\ orderID = 0
    /\ savedLogID = 0
    /\ writer = Off
    /\ filedb = <<>> /\ torn = "no"
    /\ orders = {} /\ trades = {}
    /\ lastkv = [saved |-> 0, order |-> 0, ticket |-> [s \in Side |-> 0]]
    /\ faults = 0

(* The process is gone and its memory with it. *)
Halt ==
    /\ stream' = [s \in Side |-> Off]
    /\ ch' = <<>>
    /\ pc' = "down"
    /\ cur' = Idle
    /\ asks' = {} /\ bids' = {}
    /\ latest' = [s \in Side |-> 0]
    /\ logID' = 0 /\ orderID' = 0
    /\ savedLogID' = 0
    /\ writer' = Off

Fault == faults < MaxFaults /\ faults' = faults + 1

(* kill -9, or an error that makes Run return and main panic. *)
Crash ==
    /\ pc # "down"
    /\ Fault
    /\ Halt
    /\ UNCHANGED <<issued, fileVars, tableVars>>

Start ==
    /\ pc = "down"
    /\ pc' = "wait"
    /\ UNCHANGED <<bankVars, cur, bookVars, savedLogID, writer, fileVars, tableVars, faults>>

-----------------------------------------------------------------------------
(* The banks and the ticket streams. *)

Issue(s, r) ==
    /\ Len(issued["ask"]) + Len(issued["bid"]) < MaxTickets
    /\ issued' = [issued EXCEPT ![s] = Append(@, r)]
    /\ UNCHANGED <<stream, ch, pc, cur, bookVars, savedLogID, writer, fileVars, tableVars, faults>>

(* StartPullTickets runs from the end of the first TryMatch on. *)
PullsStarted == pc = "recv" \/ (pc = "match" /\ cur # Idle)

(* PullTickets reads the latest ticket id, which the main thread may be about
   to advance, and asks the bank for the ones after it.  Mutant: off by one. *)
ResumeAfter_Next(s) == latest[s] + 1

ResumeAfter(s) == latest[s]

Connect(s) ==
    /\ PullsStarted
    /\ stream[s] = Off
    /\ stream' = [stream EXCEPT ![s] = ResumeAfter(s)]
    /\ UNCHANGED <<issued, ch, pc, cur, bookVars, savedLogID, writer, fileVars, tableVars, faults>>

(* A ticket reaches the process and is put into w.ch. *)
Pull(s) ==
    LET n == stream[s] + 1
    IN  /\ stream[s] # Off
        /\ n <= Len(issued[s])
        /\ Len(ch) < ChanCap
        /\ stream' = [stream EXCEPT ![s] = n]
        /\ ch' = Append(ch, [side |-> s, id |-> n, price |-> issued[s][n].price,
                             qty |-> issued[s][n].qty])
        /\ UNCHANGED <<issued, pc, cur, bookVars, savedLogID, writer, fileVars, tableVars, faults>>

(* The stream ends with an error; what was pulled stays in w.ch. *)
Break(s) ==
    /\ stream[s] # Off
    /\ Fault
    /\ stream' = [stream EXCEPT ![s] = Off]
    /\ UNCHANGED <<issued, ch, pc, cur, bookVars, savedLogID, writer, fileVars, tableVars>>

-----------------------------------------------------------------------------
(* Recovery. *)

(* The id in the last non-empty line, its \n there or not; 0 for an empty file.
   Mutants: the id MySQL has, and a wait for one line too many. *)
LastLogID_FromMySQL == lastkv.saved

LastLogID_OneTooMany == Len(filedb) + 1

LastLogID ==
    IF torn = "whole" THEN Len(filedb) + 1
    ELSE IF filedb = <<>> THEN 0 ELSE filedb[Len(filedb)].logID

WaitForFiledb ==
    /\ pc = "wait"
    /\ torn # "partial"
    /\ savedLogID >= LastLogID
    /\ logID' = LastLogID
    /\ pc' = "load"
    /\ UNCHANGED <<bankVars, cur, asks, bids, latest, orderID, savedLogID, writer,
                   fileVars, tableVars, faults>>

(* The last line does not parse: WaitForFiledb, Run and main fail. *)
RejectTorn ==
    /\ pc = "wait"
    /\ torn = "partial"
    /\ Halt
    /\ UNCHANGED <<issued, fileVars, tableVars, faults>>

(* Open orders are reloaded from their rows.  Mutant: filled ones as well. *)
OpenRows_All(s) == {r \in orders : r.side = s}

OpenRows(s) == {r \in orders : r.side = s /\ r.status > -1}
ToOrder(r) == [id |-> r.id, ticket |-> r.ticket, price |-> r.price, qty |-> r.qty]

(* Mutant: the id of the last open order, as the code once did (its NOTE says
   why it may not). *)
RecoveredOrderID_LastOpen ==
    LET ids == {r.id : r \in OpenRows("ask") \cup OpenRows("bid")}
    IN  IF ids = {} THEN 0 ELSE Max(ids)

RecoveredOrderID == lastkv.order

LoadAllOrders ==
    /\ pc = "load"
    /\ asks' = {ToOrder(r) : r \in OpenRows("ask")}
    /\ bids' = {ToOrder(r) : r \in OpenRows("bid")}
    /\ orderID' = RecoveredOrderID
    /\ latest' = lastkv.ticket
    /\ pc' = "match"
    /\ UNCHANGED <<bankVars, cur, logID, savedLogID, writer, fileVars, tableVars, faults>>

-----------------------------------------------------------------------------
(* Matching. *)

(* One round of TryMatch: book, log id and log line, in the main thread. *)
MatchLine(a, b, q) ==
    [kind |-> "match", logID |-> logID + 1,
     ask |-> a.id, askQty |-> a.qty - q, bid |-> b.id, bidQty |-> b.qty - q,
     price |-> TradePrice(a, b), qty |-> q, amount |-> TradeAmount(a, b)]

TryMatch(a, b) ==
    LET q == TradeQty(a, b)
    IN  /\ asks' = Fill(asks, a, q)
        /\ bids' = Fill(bids, b, q)
        /\ logID' = logID + 1
        /\ filedb' = Append(filedb, MatchLine(a, b, q))
        /\ UNCHANGED <<bankVars, pc, cur, latest, orderID, savedLogID, writer, torn,
                       tableVars, faults>>

Match ==
    /\ pc = "match"
    /\ \E m \in Crossing(asks, bids) : TryMatch(m[1], m[2])

(* TryMatch returns.  Only then is the ticket recorded as the latest one. *)
Matched ==
    /\ pc = "match"
    /\ ~Crossed(asks, bids)
    /\ pc' = "recv"
    /\ cur' = Idle
    /\ latest' = IF cur = Idle THEN latest ELSE [latest EXCEPT ![cur.side] = cur.id]
    /\ UNCHANGED <<bankVars, asks, bids, logID, orderID, savedLogID, writer, fileVars,
                   tableVars, faults>>

(* TicketToMatchEngine on a ticket it has seen: dropped. *)
DropDuplicate ==
    /\ pc = "recv"
    /\ ch # <<>>
    /\ Head(ch).id <= latest[Head(ch).side]
    /\ ch' = Tail(ch)
    /\ UNCHANGED <<issued, stream, pc, cur, bookVars, savedLogID, writer, fileVars,
                   tableVars, faults>>

HasId(book, id) == \E o \in book : o.id = id

(* TicketToMatchEngine on a new ticket: a log line, then the book.  A ticket
   after a gap, or an order the book already has, ends the process. *)
NewTicket ==
    LET t == Head(ch)
        o == [id |-> orderID + 1, ticket |-> t.id, price |-> t.price, qty |-> t.qty]
        line == [kind |-> "order", logID |-> logID + 1, id |-> orderID + 1,
                 ticket |-> t.id, side |-> t.side, price |-> t.price, qty |-> t.qty]
    IN  /\ pc = "recv"
        /\ ch # <<>>
        /\ t.id > latest[t.side]
        /\ UNCHANGED <<issued, torn, tableVars, faults>>
        /\ filedb' = IF t.id # latest[t.side] + 1 THEN filedb ELSE Append(filedb, line)
        /\ IF \/ t.id # latest[t.side] + 1
              \/ HasId(IF t.side = "ask" THEN asks ELSE bids, o.id)
           THEN Halt
           ELSE /\ orderID' = orderID + 1
                /\ logID' = logID + 1
                /\ asks' = IF t.side = "ask" THEN asks \cup {o} ELSE asks
                /\ bids' = IF t.side = "bid" THEN bids \cup {o} ELSE bids
                /\ cur' = [side |-> t.side, id |-> t.id]
                /\ ch' = Tail(ch)
                /\ pc' = "match"
                /\ UNCHANGED <<stream, latest, savedLogID, writer>>

(* The process dies inside WriteLine: part of a line, or all but its \n. *)
CrashInWrite ==
    /\ \/ pc = "match" /\ Crossed(asks, bids)
       \/ pc = "recv" /\ ch # <<>> /\ Head(ch).id = latest[Head(ch).side] + 1
    /\ Fault
    /\ torn' \in {"partial", "whole"}
    /\ Halt
    /\ UNCHANGED <<issued, filedb, tableVars>>

-----------------------------------------------------------------------------
(* The writer thread: one transaction per batch of log lines. *)

Bigger(m, n) == IF m > n THEN m ELSE n

(* S: positions of the lines of the batch that are not in MySQL yet. *)
NewRow(l) == [id |-> l.id, ticket |-> l.ticket, side |-> l.side, price |-> l.price,
              orig |-> l.qty, qty |-> l.qty, amount |-> l.qty, trades |-> 0, status |-> 1]

NewTrade(l) == [logID |-> l.logID, ask |-> l.ask, bid |-> l.bid, price |-> l.price,
                qty |-> l.qty, amount |-> l.amount]

(* The UPDATE of a batch: quantity and amount of the last match of the order,
   the number of its matches added, deleted (status -1) at quantity zero.
   Mutant: the first match of a batch wins. *)
Updated_FirstMatch(r, S) ==
    LET ms == {i \in S : Touches(filedb[i], r.id)}
        l  == filedb[Min(ms)]
    IN  IF ms = {} THEN r
        ELSE [r EXCEPT !.qty = Remaining(l, r.id), !.amount = l.amount,
                       !.trades = @ + Cardinality(ms),
                       !.status = IF Remaining(l, r.id) = 0 THEN -1 ELSE @]

Updated(r, S) ==
    LET ms == {i \in S : Touches(filedb[i], r.id)}
        l  == filedb[Max(ms)]
    IN  IF ms = {} THEN r
        ELSE [r EXCEPT !.qty = Remaining(l, r.id), !.amount = l.amount,
                       !.trades = @ + Cardinality(ms),
                       !.status = IF Remaining(l, r.id) = 0 THEN -1 ELSE @]

OrderRows(rows, S) ==
    {Updated(r, S) : r \in rows \cup {NewRow(filedb[i]) : i \in {j \in S : IsOrder(filedb[j])}}}

TradeRows(rows, S) == rows \cup {NewTrade(filedb[i]) : i \in {j \in S : IsMatch(filedb[j])}}

(* The last order of the batch sets the order id and the ticket id of its side;
   the UPDATE of lastkv never lowers a value.  Mutant: no ticket id is kept. *)
LastOrder(S, s) == {i \in S : IsOrder(filedb[i]) /\ filedb[i].side \in s}

LastKv_NoTickets(kv, S) ==
    [saved |-> Bigger(kv.saved, filedb[Max(S)].logID),
     order |-> IF LastOrder(S, Side) = {} THEN kv.order
               ELSE Bigger(kv.order, filedb[Max(LastOrder(S, Side))].id),
     ticket |-> kv.ticket]

LastKv(kv, S) ==
    [saved |-> Bigger(kv.saved, filedb[Max(S)].logID),
     order |-> IF LastOrder(S, Side) = {} THEN kv.order
               ELSE Bigger(kv.order, filedb[Max(LastOrder(S, Side))].id),
     ticket |-> [s \in Side |->
                    IF LastOrder(S, {s}) = {} THEN kv.ticket[s]
                    ELSE Bigger(kv.ticket[s], filedb[Max(LastOrder(S, {s}))].ticket)]]

Save(S) ==
    /\ orders' = OrderRows(orders, S)
    /\ trades' = TradeRows(trades, S)
    /\ lastkv' = LastKv(lastkv, S)

(* FiledbToMySQL: read the watermark, tail the file from its first line. *)
WriterRound ==
    /\ pc # "down"
    /\ writer = Off
    /\ savedLogID' = lastkv.saved
    /\ writer' = 0
    /\ UNCHANGED <<bankVars, pc, cur, bookVars, fileVars, tableVars, faults>>

(* LoadSavedLogID fails and its zero result is assigned all the same. *)
WriterRoundFails ==
    /\ pc # "down"
    /\ writer = Off
    /\ Fault
    /\ savedLogID' = 0
    /\ UNCHANGED <<bankVars, pc, cur, bookVars, writer, fileVars, tableVars>>

(* n lines of the tail, as far as they are complete.  Mutant: the last line is
   left for later. *)
Batch(n) == (writer + 1) .. (writer + n)
NotSaved(n) == {i \in Batch(n) : filedb[i].logID > savedLogID}
CanTake_NotLast(n) == writer # Off /\ writer + n < Len(filedb)
CanTake(n) == writer # Off /\ writer + n <= Len(filedb)

(* Every line of the batch is in MySQL already. *)
WriterSkips(n) ==
    /\ CanTake(n)
    /\ NotSaved(n) = {}
    /\ writer' = writer + n
    /\ UNCHANGED <<bankVars, pc, cur, bookVars, savedLogID, fileVars, tableVars, faults>>

WriterSaves(n) ==
    /\ CanTake(n)
    /\ NotSaved(n) # {}
    /\ Save(NotSaved(n))
    /\ savedLogID' = filedb[writer + n].logID
    /\ writer' = writer + n
    /\ UNCHANGED <<bankVars, pc, cur, bookVars, fileVars, faults>>

(* The transaction returns an error: rolled back, or committed with its answer
   lost.  Either way the round is over and the watermark in memory stays. *)
WriterFails(n) ==
    /\ CanTake(n)
    /\ NotSaved(n) # {}
    /\ Fault
    /\ \/ UNCHANGED tableVars
       \/ Save(NotSaved(n))
    /\ writer' = Off
    /\ UNCHANGED <<bankVars, pc, cur, bookVars, savedLogID, fileVars>>

-----------------------------------------------------------------------------
Main ==
    \/ Start \/ WaitForFiledb \/ RejectTorn \/ LoadAllOrders
    \/ Match \/ Matched \/ DropDuplicate \/ NewTicket

Streams ==
    \E s \in Side :
        \/ Connect(s)
        \/ Pull(s)
        \/ Break(s)

Writer ==
    \/ WriterRound
    \/ WriterRoundFails
    \/ \E n \in 1 .. BatchMax :
        \/ WriterSkips(n)
        \/ WriterSaves(n)
        \/ WriterFails(n)

Next ==
    \/ \E s \in Side, r \in Requests : Issue(s, r)
    \/ Main
    \/ Streams
    \/ Writer
    \/ Crash
    \/ CrashInWrite

Spec == Init /\ [][Next]_vars

(* The goroutines keep running and retry every second; nothing forces a bank to
   issue a ticket or a fault to happen. *)
Fairness ==
    /\ WF_vars(Main)
    /\ \A s \in Side : WF_vars(Connect(s)) /\ WF_vars(Pull(s))
    /\ WF_vars(WriterRound)
    /\ WF_vars(\E n \in 1 .. BatchMax : WriterSkips(n) \/ WriterSaves(n))

FairSpec == Spec /\ Fairness
-----------------------------------------------------------------------------
(* Properties. *)

(* Every variable keeps the shape the code's declarations give it. *)
TypeOK ==
    /\ issued \in [Side -> Seq(Requests)]
    /\ stream \in [Side -> Nat \cup {Off}]
    /\ ch \in Seq(Ticket)
    /\ pc \in {"down", "wait", "load", "match", "recv"}
    /\ cur \in [side : Side \cup {"none"}, id : Nat]
    /\ asks \subseteq Order /\ bids \subseteq Order
    /\ latest \in [Side -> Nat]
    /\ logID \in Nat /\ orderID \in Nat /\ savedLogID \in Nat
    /\ writer \in Nat \cup {Off}
    /\ filedb \in Seq(OrderLog \cup MatchLog)
    /\ torn \in {"no", "partial", "whole"}
    /\ orders \subseteq OrderRow /\ trades \subseteq TradeRow
    /\ lastkv \in [saved : Nat, order : Nat, ticket : [Side -> Nat]]
    /\ faults \in Nat

Lines == DOMAIN filedb
OrderLines == {i \in Lines : IsOrder(filedb[i])}
MatchLines == {i \in Lines : IsMatch(filedb[i])}
OrderLinesOf(s) == {i \in OrderLines : filedb[i].side = s}

(* Log ids are the line numbers, whatever crashed in between: an id is neither
   used twice nor skipped, so "logID <= SavedLogID" decides exactly which lines
   MySQL has (LoadSavedLogID, WaitForFiledb, ParseAndWriteLogs). *)
LogIDsAreLineNumbers == \A i \in Lines : filedb[i].logID = i

(* f numbers the lines of its domain in their order, from 1, leaving none out. *)
InOrder(f) ==
    \A i \in DOMAIN f :
        /\ f[i] > 0
        /\ \A n \in 1 .. f[i] - 1 : \E j \in DOMAIN f : f[j] = n
        /\ \A j \in DOMAIN f : j < i => f[j] < f[i]

Tickets(s) == [i \in OrderLinesOf(s) |-> filedb[i].ticket]
OrderIDs == [i \in OrderLines |-> filedb[i].id]

(* The tickets of a side enter the log once each, in the order the bank issued
   them and with none left out, however often streams break and the process is
   restarted (TicketToMatchEngine, PullTickets, LoadAllOrders). *)
TicketsInOrder ==
    \A s \in Side :
        /\ InOrder(Tickets(s))
        /\ \A i \in OrderLinesOf(s) :
            /\ filedb[i].ticket \in DOMAIN issued[s]
            /\ [price |-> filedb[i].price, qty |-> filedb[i].qty] = issued[s][filedb[i].ticket]

(* Order ids, which decide time priority and the maker of a trade, are never
   reused and never skipped across restarts (w.OrderID, lastkv). *)
OrderIDsInOrder == InOrder(OrderIDs)

(* No ticket waiting in the process skips one that is missing from the log: the
   "ticket id is not continuous" error cannot stop the engine. *)
NoGapInChannel ==
    pc \in {"recv", "match"} =>
        \A k \in DOMAIN ch :
            \A t \in latest[ch[k].side] + 1 .. ch[k].id :
                \/ [side |-> ch[k].side, id |-> t] = cur
                \/ \E j \in 1 .. k : ch[j].side = ch[k].side /\ ch[j].id = t

(* What the lines up to n say of an order, computed from its trades. *)
LineOf(id) == filedb[CHOOSE i \in OrderLines : filedb[i].id = id]
MatchesOf(id, n) == {i \in 1 .. n : Touches(filedb[i], id)}
Left(id, n) == LineOf(id).qty - SumFunction([i \in MatchesOf(id, n) |-> filedb[i].qty])

(* MySQL is an exact copy of the first lastkv.saved lines: batches, skipped
   lines, rolled-back transactions, lost answers and restarts neither lose a
   line nor apply one twice.  The quantity is checked against the order's own
   trades, not against the remaining quantity the log line carries. *)
MySQLIsPrefix ==
    LET n    == lastkv.saved
        ids  == {filedb[i].id : i \in OrderLines \cap 1 .. n}
    IN  /\ n <= Len(filedb)
        /\ {r.id : r \in orders} = ids
        /\ Cardinality(orders) = Cardinality(ids)
        /\ \A r \in orders :
            /\ r.qty = Left(r.id, n)
            /\ r.trades = Cardinality(MatchesOf(r.id, n))
            /\ r.status = IF r.qty = 0 THEN -1 ELSE 1
        /\ trades = {NewTrade(filedb[i]) : i \in {j \in 1 .. n : IsMatch(filedb[j])}}

(* The book in memory, whether built up trade by trade or reloaded from MySQL
   after a crash, holds exactly the orders the log leaves open, with what it
   leaves of them (NewAsk, NewBid, TryMatch, LoadAllOrders). *)
OpenInLog(s) ==
    {[id |-> filedb[i].id, ticket |-> filedb[i].ticket, price |-> filedb[i].price,
      qty |-> Left(filedb[i].id, Len(filedb))] :
        i \in {j \in OrderLinesOf(s) : Left(filedb[j].id, Len(filedb)) > 0}}

BookIsLog ==
    pc \in {"match", "recv"} => asks = OpenInLog("ask") /\ bids = OpenInLog("bid")

(* The abstract engine, seen through the log: the orders by their ids, the trades
   in the order of their lines. *)
Nth(S, k) == CHOOSE i \in S : Cardinality({j \in S : j < i}) = k - 1

BookOfLog ==
    [id \in {filedb[i].id : i \in OrderLines} |->
        [side |-> LineOf(id).side, price |-> LineOf(id).price, left |-> Left(id, Len(filedb))]]

TapeOfLog ==
    [k \in 1 .. Cardinality(MatchLines) |->
        LET l == filedb[Nth(MatchLines, k)]
        IN  [ask |-> l.ask, bid |-> l.bid, price |-> l.price, qty |-> l.qty]]

Abstract == INSTANCE Exchange WITH book <- BookOfLog, tape <- TapeOfLog

(* The engine with its restarts trades as Exchange does: across every crash the
   log stays the run of one exchange that finishes matching an order before it
   accepts the next. *)
ImplementsExchange == Abstract!Spec

(* Among asks of one price the oldest trades first, also after the book is
   reloaded in another order than it was built (AskOrder.Less). *)
AskTimePriority ==
    \A i \in Lines : IsMatch(filedb[i]) =>
        \A a \in OrderLinesOf("ask") :
            LET o == filedb[a] IN
            (/\ a < i
             /\ o.id < filedb[i].ask
             /\ o.price = LineOf(filedb[i].ask).price) => Left(o.id, i - 1) = 0

(* Every ticket a bank issues becomes an order in MySQL and everything logged is
   saved, unless a crash inside a write left the log with a broken last line. *)
TicketsReachMySQL ==
    \A s \in Side : \A t \in 1 .. MaxTickets :
        (t <= Len(issued[s])) ~>
            (torn # "no" \/ \E r \in orders : r.side = s /\ r.ticket = t)

LogReachesMySQL ==
    \A n \in 1 .. 2 * MaxTickets : (n <= Len(filedb)) ~> (torn # "no" \/ lastkv.saved >= n)
=============================================================================
