------------------------------- MODULE OmeInv -------------------------------
(***************************************************************************)
(* Why the engine is right: the inductive invariant behind its safety      *)
(* properties.  LogInv follows the three copies of "the last ticket        *)
(* processed": the log, the lastkv rows, which speak for a prefix of it,   *)
(* and the memory of the process, which speaks for all of it once it has   *)
(* recovered.  The other parts do the same for the tickets under way       *)
(* (PullInv) and for what is left of each order: in the lines themselves   *)
(* (LinesInv), in MySQL (RowsInv) and in the book (BookInv).               *)
(***************************************************************************)
EXTENDS Ome

(* v is what f says of the last line it has among the first n, or 0. *)
LastIs(f, n, v) ==
    /\ \A i \in DOMAIN f : i <= n => f[i] <= v
    /\ v # 0 => \E i \in DOMAIN f : i <= n /\ f[i] = v

(* The last ticket of side s the main thread has logged. *)
Logged(s) == IF cur.side = s THEN cur.id ELSE latest[s]

Recovered == pc \in {"match", "recv"}

(* The tickets in w.ch are tickets of the banks. *)
ChannelInv ==
    \A k \in DOMAIN ch :
        /\ ch[k].id \in DOMAIN issued[ch[k].side]
        /\ [price |-> ch[k].price, qty |-> ch[k].qty] = issued[ch[k].side][ch[k].id]

(* The writer has read no further than MySQL has got, in this round or before,
   and what it believes to be saved is. *)
WriterInv ==
    /\ lastkv.saved <= Len(filedb)
    /\ savedLogID <= lastkv.saved
    /\ writer # Off => savedLogID = lastkv.saved /\ writer <= savedLogID

(* What MySQL says of the prefix it has. *)
TableInv ==
    /\ \A s \in Side : LastIs(Tickets(s), lastkv.saved, lastkv.ticket[s])
    /\ LastIs(OrderIDs, lastkv.saved, lastkv.order)

(* What the process knows of the whole log, from the moment it has waited. *)
MemoryInv ==
    /\ pc # "match" => cur = Idle
    /\ pc \in {"load", "match", "recv"} => logID = Len(filedb) /\ torn = "no"
    /\ pc = "load" => lastkv.saved = Len(filedb)
    /\ Recovered => LastIs(OrderIDs, Len(filedb), orderID)
    /\ Recovered => \A s \in Side : LastIs(Tickets(s), Len(filedb), Logged(s))

(* The three copies agree with the log and the log with the banks. *)
LogInv ==
    /\ LogIDsAreLineNumbers
    /\ TicketsInOrder
    /\ OrderIDsInOrder
    /\ ChannelInv
    /\ WriterInv
    /\ TableInv
    /\ MemoryInv

(* The tickets that are in work, or among the first n in w.ch. *)
AtHand(s, t, n) ==
    \/ [side |-> s, id |-> t] = cur
    \/ \E j \in 1 .. n : ch[j].side = s /\ ch[j].id = t

(* From the latest ticket up to one in w.ch, and to the last one the stream has
   sent, all are at hand. *)
PullInv ==
    /\ ~Recovered => ch = <<>> /\ \A s \in Side : stream[s] = Off
    /\ cur # Idle => cur.side \in Side /\ cur.id = latest[cur.side] + 1
    /\ \A k \in DOMAIN ch : \A t \in latest[ch[k].side] + 1 .. ch[k].id : AtHand(ch[k].side, t, k)
    /\ \A s \in Side : \A t \in latest[s] + 1 .. stream[s] : AtHand(s, t, Len(ch))

(* A match is between an ask and a bid logged before it, and carries what the log
   leaves of both. *)
LinesInv ==
    \A i \in MatchLines :
        LET l == filedb[i] IN
        /\ \E a \in OrderLinesOf("ask") : a < i /\ filedb[a].id = l.ask
        /\ \E b \in OrderLinesOf("bid") : b < i /\ filedb[b].id = l.bid
        /\ l.qty > 0 /\ l.askQty = Left(l.ask, i) /\ l.bidQty = Left(l.bid, i)

(* MySQL has one row for each order of the lines it has, and what they leave of it. *)
RowOf(r, i, n) ==
    /\ r.id = filedb[i].id /\ r.ticket = filedb[i].ticket
    /\ r.side = filedb[i].side /\ r.price = filedb[i].price
    /\ r.qty = Left(r.id, n) /\ r.trades = Cardinality(MatchesOf(r.id, n))
    /\ r.status = IF r.qty = 0 THEN -1 ELSE 1

RowsInv ==
    LET n == lastkv.saved
    IN  /\ \A r \in orders : \E i \in OrderLines : i <= n /\ RowOf(r, i, n)
        /\ \A i \in OrderLines : i <= n => \E r \in orders : r.id = filedb[i].id
        /\ \A r, q \in orders : r.id = q.id => r = q
        /\ trades = {NewTrade(filedb[i]) : i \in {j \in MatchLines : j <= n}}

(* The book is what the log leaves open, and TryMatch has come to its end when the
   next ticket is taken. *)
BookInv == BookIsLog /\ (pc = "recv" => ~Crossed(asks, bids))

EngineInv == LogInv /\ PullInv /\ LinesInv /\ RowsInv /\ BookInv
=============================================================================
