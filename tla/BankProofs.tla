----------------------------- MODULE BankProofs -----------------------------
(***************************************************************************)
(* The log of a bank, for every set of users and requests, every capacity, *)
(* batch size and number of faults: proofs that the layers of BankInv are  *)
(* inductive, and of the properties of Bank that follow from them.         *)
(***************************************************************************)
EXTENDS BankInv, SetProofs

Message == OrderMsg \cup ChangeMsg
Line == TicketLine \cup ChangeLine

(* A sequence, and an element more. *)
LEMMA AppendShape ==
    ASSUME NEW T, NEW s \in Seq(T), NEW x
    PROVE  /\ Len(s) \in Nat
           /\ Len(Append(s, x)) = Len(s) + 1
           /\ DOMAIN s = 1 .. Len(s)
           /\ DOMAIN Append(s, x) = 1 .. Len(s) + 1
           /\ \A i \in DOMAIN s : s[i] \in T /\ Append(s, x)[i] = s[i]
           /\ Append(s, x)[Len(s) + 1] = x
OBVIOUS

(* What the definitions say of a number of the log, the stream or the channel. *)
LEMMA Shapes ==
    ASSUME TypeOK
    PROVE  /\ Len(filedb) \in Nat /\ DOMAIN filedb = 1 .. Len(filedb)
           /\ \A i \in DOMAIN filedb : filedb[i] \in Line
           /\ Len(sent) \in Nat /\ DOMAIN sent = 1 .. Len(sent)
           /\ \A q \in DOMAIN sent : sent[q] \in [owner : Owners, total : Nat \ {0}]
           /\ Len(trades) \in Nat /\ DOMAIN trades = 1 .. Len(trades)
           /\ \A k \in DOMAIN trades : trades[k] \in [payer : Owners, payee : Owners, amount : Nat]
           /\ Len(ch) \in Nat /\ DOMAIN ch = 1 .. Len(ch)
           /\ \A k \in DOMAIN ch : ch[k] \in Message
<1>1. Len(filedb) \in Nat /\ DOMAIN filedb = 1 .. Len(filedb) /\ \A i \in DOMAIN filedb : filedb[i] \in Line
  BY DEF TypeOK, Line
<1>2. Len(ch) \in Nat /\ DOMAIN ch = 1 .. Len(ch) /\ \A k \in DOMAIN ch : ch[k] \in Message
  BY DEF TypeOK, Message
<1>3. /\ Len(sent) \in Nat /\ DOMAIN sent = 1 .. Len(sent)
      /\ \A q \in DOMAIN sent : sent[q] \in [owner : Owners, total : Nat \ {0}]
  <2>1. sent \in Seq(Requests) /\ Requests \subseteq [owner : Owners, total : Nat \ {0}]
    BY BankAssumption DEF TypeOK
  <2> QED
    BY <2>1
<1>4. /\ Len(trades) \in Nat /\ DOMAIN trades = 1 .. Len(trades)
      /\ \A k \in DOMAIN trades : trades[k] \in [payer : Owners, payee : Owners, amount : Nat]
  <2>1. trades \in Seq([payer : Owners, payee : Owners, amount : Nat])
    BY DEF TypeOK
  <2> QED
    BY <2>1, AppendShape
<1> QED
  BY <1>1, <1>2, <1>3, <1>4

(* The numbers among the variables, before and after a step. *)
LEMMA Numbers ==
    TypeOK =>
        /\ Len(sent) \in Nat /\ Len(trades) \in Nat /\ Len(ch) \in Nat /\ Len(filedb) \in Nat
        /\ delivered \in Int /\ delivered >= -1 /\ (delivered # Off => delivered \in Nat)
        /\ session \in Int /\ session >= -2 /\ (session \notin {Off, Stuck} => session \in Nat)
        /\ writer \in Int /\ writer >= -1 /\ (writer # Off => writer \in Nat)
        /\ acked \in Nat /\ ackTo \in Nat /\ latestSeq \in Nat /\ reasonID \in Nat
        /\ logID \in Nat /\ ticketID \in Nat /\ savedLogID \in Nat
        /\ snapLog \in Nat /\ natsSeq \in Nat /\ nextTicket \in Nat /\ nextTicket # 0
BY Shapes DEF TypeOK, Off, Stuck

(* The same, for leaves that need few of them. *)
LEMMA Counts == TypeOK => Len(filedb) \in Nat /\ snapLog \in Nat /\ logID \in Nat
BY Numbers

LEMMA Delivered == TypeOK => delivered \in Int /\ (delivered # Off => delivered \in Nat)
BY Numbers

LEMMA Pushed == TypeOK => session \in Int
BY Numbers

LEMMA NumbersNext ==
    TypeOK' =>
        /\ Len(sent)' \in Nat /\ Len(trades)' \in Nat /\ Len(ch)' \in Nat /\ Len(filedb)' \in Nat
        /\ delivered' \in Int /\ session' \in Int /\ writer' \in Int
        /\ acked' \in Nat /\ ackTo' \in Nat /\ latestSeq' \in Nat /\ reasonID' \in Nat
        /\ logID' \in Nat /\ ticketID' \in Nat /\ savedLogID' \in Nat
        /\ snapLog' \in Nat /\ natsSeq' \in Nat /\ nextTicket' \in Nat
<1> DEFINE P == /\ Len(sent) \in Nat /\ Len(trades) \in Nat /\ Len(ch) \in Nat /\ Len(filedb) \in Nat
                /\ delivered \in Int /\ session \in Int /\ writer \in Int
                /\ acked \in Nat /\ ackTo \in Nat /\ latestSeq \in Nat /\ reasonID \in Nat
                /\ logID \in Nat /\ ticketID \in Nat /\ savedLogID \in Nat
                /\ snapLog \in Nat /\ natsSeq \in Nat /\ nextTicket \in Nat
<1>1. TypeOK => P
  BY Numbers
<1> HIDE DEF P
<1>2. TypeOK' => P'
  BY <1>1, PTL
<1> QED
  BY <1>2 DEF P

(* The last line is one of them. *)
LEMMA LastLine == ASSUME TypeOK, filedb # <<>> PROVE Len(filedb) \in DOMAIN filedb
<1>1. filedb \in Seq(Line)
  BY DEF TypeOK, Line
<1> QED
  BY <1>1

(* The two kinds of lines. *)
LEMMA LineShape ==
    ASSUME NEW l \in Line
    PROVE  /\ l.logID \in Nat /\ l.seq \in Nat /\ l.new \in [Owners -> Money]
           /\ IsTicket(l) => l \in TicketLine
           /\ ~IsTicket(l) => l \in ChangeLine
           /\ Users(l) \subseteq Owners
BY DEF Line, IsTicket, TicketLine, ChangeLine, Users

(* The two kinds of messages. *)
LEMMA MessageShape ==
    ASSUME NEW m \in Message
    PROVE  /\ IsOrder(m) => m \in OrderMsg /\ m.seq \in Nat
           /\ IsChange(m) => m \in ChangeMsg /\ m.reason \in Nat
           /\ IsOrder(m) <=> ~IsChange(m)
BY DEF Message, OrderMsg, ChangeMsg, IsOrder, IsChange

(* Bookkeeping keeps balances numbers. *)
LEMMA AddType ==
    ASSUME NEW m \in [Owners -> Money], NEW o \in Owners, NEW free \in Int, NEW freeze \in Int
    PROVE  Add(m, o, free, freeze) \in [Owners -> Money]
BY DEF Add, Money

(* The head of w.ch, and what is left of it. *)
LEMMA HeadTail ==
    ASSUME TypeOK, ch # <<>>
    PROVE  /\ Head(ch) = ch[1] /\ 1 \in DOMAIN ch /\ Head(ch) \in Message
           /\ Tail(ch) \in Seq(Message) /\ DOMAIN Tail(ch) = 1 .. Len(ch) - 1
           /\ \A k \in 1 .. Len(ch) - 1 : Tail(ch)[k] = ch[k + 1]
           /\ Len(Tail(ch)) = Len(ch) - 1
BY DEF TypeOK, Message

(* A process that ends leaves its variables well typed. *)
LEMMA HaltType ==
    ASSUME TypeOK, Halt, UNCHANGED <<sent, trades, filedb, tableVars>>,
           torn' \in {"no", "partial", "whole"}, faults' \in Nat
    PROVE  TypeOK'
BY DEF TypeOK, Halt, Broken, Money, Nothing, Off, Stuck, tableVars

(* A batch is made of lines of the log. *)
LEMMA BatchInLog ==
    ASSUME TypeOK, NEW n \in 1 .. BatchMax, CanTake(n)
    PROVE  /\ writer \in Nat /\ n \in Nat \ {0} /\ writer + n \in DOMAIN filedb
           /\ NotSaved(n) \in SUBSET DOMAIN filedb
           /\ filedb[writer + n].logID \in Nat
<1>1. writer \in Nat /\ n \in Nat \ {0} /\ writer + n \in 1 .. Len(filedb)
  BY BankAssumption DEF TypeOK, CanTake, Off
<1>2. NotSaved(n) \subseteq 1 .. Len(filedb)
  BY <1>1, Shapes DEF NotSaved, Batch
<1> QED
  BY <1>1, <1>2, Shapes, LineShape

(* The largest of some lines of the log. *)
LEMMA MaxLine ==
    ASSUME TypeOK, NEW S \in SUBSET DOMAIN filedb, S # {}
    PROVE  Max(S) \in S /\ \A i \in S : i <= Max(S)
<1>1. Len(filedb) \in Nat /\ S \in SUBSET Nat /\ \A i \in S : i <= Len(filedb)
  BY Shapes
<1> QED
  BY <1>1, MaxIsLargest

(* The largest of their sequence numbers. *)
LEMMA MaxSeq ==
    ASSUME TypeOK, KnownInv, NEW S \in SUBSET DOMAIN filedb, S # {}
    PROVE  LET seqs == {filedb[i].seq : i \in S}
           IN  Max(seqs) \in seqs /\ \A q \in seqs : q <= Max(seqs)
<1> DEFINE seqs == {filedb[i].seq : i \in S}
<1>1. ASSUME NEW i \in S PROVE filedb[i].seq \in Nat /\ filedb[i].seq <= Len(sent)
  <2>1. filedb[i] \in Line /\ LineKnown(filedb[i])
    BY Shapes DEF KnownInv
  <2>2. CASE IsTicket(filedb[i])
    BY <2>1, <2>2, Shapes DEF LineKnown
  <2>3. CASE ~IsTicket(filedb[i])
    <3>1. filedb[i].seq = 0
      BY <2>1, <2>3, LineShape DEF ChangeLine
    <3> QED
      BY <3>1, Shapes
  <2> QED
    BY <2>2, <2>3
<1>2. seqs \in SUBSET Nat /\ seqs # {} /\ Len(sent) \in Nat /\ \A q \in seqs : q <= Len(sent)
  BY <1>1, Shapes
<1> HIDE DEF seqs
<1>3. Max(seqs) \in seqs /\ \A q \in seqs : q <= Max(seqs)
  BY <1>2, MaxIsLargest
<1> QED
  BY <1>3 DEF seqs

(* The tickets of a batch can be counted. *)
LEMMA TicketCount ==
    ASSUME TypeOK, NEW S \in SUBSET DOMAIN filedb
    PROVE  /\ IsFiniteSet(S) /\ IsFiniteSet(TicketsIn(S)) /\ Cardinality(TicketsIn(S)) \in Nat
           /\ TicketsIn(S) \in SUBSET Nat
<1>1. IsFiniteSet(1 .. Len(filedb)) /\ TicketsIn(S) \subseteq S /\ S \subseteq 1 .. Len(filedb)
  BY Shapes, FS_Interval DEF TicketsIn
<1> QED
  BY <1>1, FS_Subset, FS_CardinalityType

(* A batch leaves tables of numbers. *)
LEMMA SaveType ==
    ASSUME TypeOK, KnownInv, NEW S \in SUBSET DOMAIN filedb, S # {}, Save(S)
    PROVE  /\ snapLog' \in Nat /\ natsSeq' \in Nat /\ nextTicket' \in Nat \ {0}
           /\ DOMAIN tickets' \subseteq 1 .. nextTicket' - 1
           /\ \A id \in DOMAIN tickets' : tickets'[id] \in Nat
           /\ balances' \in [Rows -> Money]
           /\ natsSeq' <= Len(sent)
<1>1. Max(S) \in S /\ snapLog' \in Nat
  BY MaxLine, Shapes, LineShape DEF Save
<1>2. natsSeq' \in Nat /\ natsSeq' <= Len(sent)
  <2> DEFINE seqs == {filedb[i].seq : i \in S}
  <2>1. Max(seqs) \in seqs
    BY MaxSeq
  <2>2. PICK i \in S : Max(seqs) = filedb[i].seq
    BY <2>1
  <2>3. Max(seqs) \in Nat
    BY <2>2, Shapes, LineShape
  <2>4. Max(seqs) > 0 => Max(seqs) <= Len(sent)
    <3>1. filedb[i] \in Line /\ LineKnown(filedb[i])
      BY Shapes DEF KnownInv
    <3>2. CASE IsTicket(filedb[i])
      BY <2>2, <3>1, <3>2, Shapes DEF LineKnown
    <3>3. CASE ~IsTicket(filedb[i])
      BY <2>2, <3>1, <3>3, LineShape DEF ChangeLine
    <3> QED
      BY <3>2, <3>3
  <2>5. natsSeq \in Nat /\ natsSeq <= Len(sent)
    BY DEF TypeOK, KnownInv
  <2>6. natsSeq' = IF Max(seqs) > 0 THEN Max(seqs) ELSE natsSeq
    BY DEF Save, SeqRow
  <2> HIDE DEF seqs
  <2> QED
    BY <2>3, <2>4, <2>5, <2>6
<1>3. /\ IsFiniteSet(TicketsIn(S)) /\ Cardinality(TicketsIn(S)) \in Nat
      /\ TicketsIn(S) \in SUBSET Nat
  BY TicketCount
<1>4. nextTicket' \in Nat \ {0}
  BY <1>3 DEF Save, TypeOK
<1>5. DOMAIN tickets' \subseteq 1 .. nextTicket' - 1
  <2> DEFINE c == Cardinality(TicketsIn(S))
  <2>1. /\ DOMAIN tickets' = DOMAIN tickets \cup (nextTicket .. nextTicket + c - 1)
        /\ nextTicket' = nextTicket + c
    BY DEF Save, TicketRows
  <2>2. c \in Nat /\ nextTicket \in Nat \ {0} /\ DOMAIN tickets \subseteq 1 .. nextTicket - 1
    BY <1>3 DEF TypeOK
  <2> HIDE DEF c
  <2> QED
    BY <2>1, <2>2
<1>6. ASSUME NEW id \in DOMAIN tickets' PROVE tickets'[id] \in Nat
  <2> DEFINE rank(i) == Cardinality({j \in TicketsIn(S) : j < i})
             at == CHOOSE i \in TicketsIn(S) : rank(i) = id - nextTicket
  <2>1. CASE id \in DOMAIN tickets
    BY <1>6, <2>1 DEF Save, TicketRows, TypeOK
  <2>2. CASE id \notin DOMAIN tickets
    <3>1. tickets'[id] = filedb[at].seq
      BY <1>6, <2>2 DEF Save, TicketRows
    <3>2. \E i \in TicketsIn(S) : rank(i) = id - nextTicket
      <4>1. id \in nextTicket .. nextTicket + Cardinality(TicketsIn(S)) - 1
        BY <1>6, <2>2 DEF Save, TicketRows
      <4>2. nextTicket \in Nat
        BY DEF TypeOK
      <4>3. id - nextTicket \in 0 .. Cardinality(TicketsIn(S)) - 1
        BY <1>3, <4>1, <4>2
      <4> QED
        BY <1>3, <4>3, Ranks DEF Rank
    <3>3. at \in TicketsIn(S)
      BY <3>2
    <3> QED
      BY <3>1, <3>3, Shapes, LineShape DEF TicketsIn
  <2> QED
    BY <2>1, <2>2
<1>7. balances' \in [Rows -> Money]
  <2> SUFFICES ASSUME NEW o \in Rows PROVE BalanceRows(S)[o] \in Money
    BY DEF Save, BalanceRows
  <2> DEFINE own == {i \in S : o \in Users(filedb[i])}
  <2>1. CASE own = {}
    BY <2>1 DEF BalanceRows, TypeOK
  <2>2. CASE own # {}
    <3>1. Max(own) \in own
      BY <2>2, MaxLine
    <3>2. filedb[Max(own)] \in Line /\ o \in Owners
      BY <3>1, Shapes, BankAssumption
    <3>3. filedb[Max(own)].new[o] \in Money
      BY <3>2, LineShape
    <3> QED
      BY <2>2, <3>3 DEF BalanceRows
  <2> QED
    BY <2>1, <2>2
<1> QED
  BY <1>1, <1>2, <1>4, <1>5, <1>6, <1>7

-----------------------------------------------------------------------------
(* Types, and what messages and lines are about. *)

(* What is spare is a number. *)
LEMMA SpareType == ASSUME TypeOK, NEW o PROVE Spare(o) \in Int
<1> DEFINE T == {j \in TicketLines : filedb[j].owner = o}
           K == {j \in DOMAIN trades : trades[j].payer = o}
<1>1. IsFiniteSet(T) /\ IsFiniteSet(K)
  <2>1. IsFiniteSet(1 .. Len(filedb)) /\ IsFiniteSet(1 .. Len(trades))
    BY Shapes, FS_Interval
  <2>2. T \in SUBSET (1 .. Len(filedb)) /\ K \in SUBSET (1 .. Len(trades))
    BY Shapes DEF TicketLines
  <2> HIDE DEF T, K
  <2> QED
    BY <2>1, <2>2, FS_Subset
<1>2. [i \in T |-> filedb[i].total] \in [T -> Int]
  <2> SUFFICES ASSUME NEW i \in T PROVE filedb[i].total \in Int
    OBVIOUS
  <2>1. filedb[i] \in Line /\ IsTicket(filedb[i])
    BY Shapes DEF TicketLines
  <2> QED
    BY <2>1, LineShape DEF TicketLine
<1>3. [k \in K |-> trades[k].amount] \in [K -> Int]
  BY Shapes
<1>4. SumFunction([i \in T |-> filedb[i].total]) \in Int
  <2> HIDE DEF T
  <2> QED
    BY <1>1, <1>2, SumOfInt
<1>5. SumFunction([k \in K |-> trades[k].amount]) \in Int
  <2> HIDE DEF K
  <2> QED
    BY <1>1, <1>3, SumOfInt
<1> QED
  BY <1>4, <1>5 DEF Spare

(* The new line of a ticket. *)
LEMMA TicketStep ==
    ASSUME TypeOK, KnownInv, CreateOrder
    PROVE  LET q == Head(ch).seq
               r == sent[q]
               l == [kind |-> "ticket", logID |-> logID + 1, seq |-> q, id |-> ticketID + 1,
                     owner |-> r.owner, total |-> r.total, new |-> Reserved(r.owner, r.total)]
           IN  /\ q \in DOMAIN sent /\ q \in Nat /\ q > latestSeq
               /\ r \in [owner : Owners, total : Nat \ {0}]
               /\ l \in TicketLine /\ LineKnown(l) /\ IsTicket(l)
               /\ filedb' = Append(filedb, l)
               /\ assets' = l.new
<1> DEFINE q == Head(ch).seq
           r == sent[q]
           new == Reserved(r.owner, r.total)
           l == [kind |-> "ticket", logID |-> logID + 1, seq |-> q, id |-> ticketID + 1,
                 owner |-> r.owner, total |-> r.total, new |-> new]
<1>1. IsOrder(Head(ch)) /\ ch # <<>>
  BY DEF CreateOrder, Taking, IsOrder
<1>2. q \in DOMAIN sent /\ q \in Nat
  BY <1>1, HeadTail, MessageShape DEF KnownInv, ChannelKnown
<1>3. q > latestSeq
  BY <1>2 DEF CreateOrder, Seen, TypeOK
<1>4. r \in [owner : Owners, total : Nat \ {0}]
  BY <1>2, Shapes
<1> HIDE DEF q
<1>5. new \in [Owners -> Money]
  <2>1. r.owner \in Owners /\ r.total \in Int /\ -r.total \in Int
    BY <1>4
  <2>2. assets \in [Owners -> Money]
    BY DEF TypeOK
  <2> QED
    BY <2>1, <2>2, AddType DEF Reserved
<1>6. r.owner \in Owners /\ r.total \in Nat /\ logID + 1 \in Nat /\ ticketID + 1 \in Nat
  BY <1>4 DEF TypeOK
<1>7. LineKnown(l) /\ IsTicket(l)
  <2>1. [owner |-> r.owner, total |-> r.total] = r
    BY <1>4
  <2> QED
    BY <1>2, <2>1 DEF LineKnown, IsTicket
<1> HIDE DEF r, new
<1>8. l \in TicketLine
  BY <1>2, <1>5, <1>6 DEF TicketLine
<1>9. filedb' = Append(filedb, l) /\ assets' = l.new
  BY DEF CreateOrder, q, r, new
<1> QED
  BY <1>2, <1>3, <1>4, <1>7, <1>8, <1>9 DEF q, r, new

(* The new line of a balance change. *)
LEMMA ChangeStep ==
    ASSUME TypeOK, KnownInv, HandleBalanceChange
    PROVE  LET k == Head(ch).reason
               t == trades[k]
               l == [kind |-> "change", logID |-> logID + 1, seq |-> 0, reason |-> k,
                     payer |-> t.payer, payee |-> t.payee, amount |-> t.amount,
                     new |-> Settled(t)]
           IN  /\ k \in DOMAIN trades /\ k \in Nat
               /\ t \in [payer : Owners, payee : Owners, amount : Nat]
               /\ l \in ChangeLine /\ LineKnown(l) /\ ~IsTicket(l)
               /\ filedb' = Append(filedb, l)
               /\ assets' = l.new
<1> DEFINE k == Head(ch).reason
           t == trades[k]
           new == Settled(t)
           l == [kind |-> "change", logID |-> logID + 1, seq |-> 0, reason |-> k,
                 payer |-> t.payer, payee |-> t.payee, amount |-> t.amount, new |-> new]
<1>1. IsChange(Head(ch)) /\ ch # <<>>
  BY DEF HandleBalanceChange, Taking, IsChange
<1>2. k \in DOMAIN trades /\ k \in Nat
  BY <1>1, HeadTail, MessageShape DEF KnownInv, ChannelKnown
<1>3. t \in [payer : Owners, payee : Owners, amount : Nat]
  BY <1>2, Shapes
<1> HIDE DEF k
<1>4. new \in [Owners -> Money]
  <2>1. t.payer \in Owners /\ t.payee \in Owners /\ t.amount \in Int /\ -t.amount \in Int
    BY <1>3
  <2>2. Add(assets, t.payer, 0, -t.amount) \in [Owners -> Money]
    <3>1. assets \in [Owners -> Money] /\ 0 \in Int
      BY DEF TypeOK
    <3> QED
      BY <2>1, <3>1, AddType
  <2> QED
    BY <2>1, <2>2, AddType DEF Settled
<1>5. /\ t.payer \in Owners /\ t.payee \in Owners /\ t.amount \in Nat /\ logID + 1 \in Nat
  BY <1>3 DEF TypeOK
<1>6. LineKnown(l) /\ ~IsTicket(l)
  <2>1. [payer |-> t.payer, payee |-> t.payee, amount |-> t.amount] = t
    BY <1>3
  <2> QED
    BY <1>2, <2>1 DEF LineKnown, IsTicket
<1> HIDE DEF t, new
<1>7. l \in ChangeLine
  BY <1>2, <1>4, <1>5 DEF ChangeLine
<1>8. filedb' = Append(filedb, l) /\ assets' = l.new
  BY DEF HandleBalanceChange, BalanceChanged, k, t, new
<1> QED
  BY <1>2, <1>3, <1>6, <1>7, <1>8 DEF k, t, new

LEMMA TypeInit == Init => TypeOK
BY BankAssumption DEF Init, TypeOK, Money, Nothing, Off

(* Every step keeps the type. *)
LEMMA TypeStep == TypeOK /\ KnownInv /\ [Next]_vars => TypeOK'
<1> SUFFICES ASSUME TypeOK, KnownInv, [Next]_vars PROVE TypeOK'
  OBVIOUS
<1> USE DEF Fault
<1>1. ASSUME NEW r \in Requests, Publish(r) PROVE TypeOK'
  BY <1>1 DEF TypeOK, Publish, omeVars, memVars, writerVars, fileVars, tableVars
<1>2. ASSUME NEW o \in Owners, NEW p \in Owners, Trade(o, p) PROVE TypeOK'
  <2>1. PICK a \in 1 .. Spare(o) : trades' = Append(trades, [payer |-> o, payee |-> p, amount |-> a])
    BY <1>2 DEF Trade
  <2>2. a \in Nat
    BY <2>1, SpareType
  <2>3. [payer |-> o, payee |-> p, amount |-> a] \in [payer : Owners, payee : Owners, amount : Nat]
    BY <2>2
  <2> QED
    BY <1>2, <2>1, <2>3 DEF TypeOK, Trade, natsVars, memVars, writerVars, fileVars, tableVars
<1>3. CASE Start
  <2>1. LastLogID \in Nat /\ LastSeq \in Nat
    BY Shapes, LineShape DEF LastLogID, LastSeq
  <2> QED
    BY <1>3, <2>1 DEF TypeOK, Start, natsVars, omeVars, writerVars, fileVars, tableVars
<1>4. CASE WaitForFiledb
  <2>1. LastLogID \in Nat
    BY Shapes, LineShape DEF LastLogID
  <2> QED
    BY <1>4, <2>1 DEF TypeOK, WaitForFiledb, natsVars, omeVars, writerVars, fileVars, tableVars
<1>5. CASE LoadAllAssets
  <2>1. LastTicket \in Nat
    <3>1. DOMAIN tickets \in SUBSET Nat /\ nextTicket \in Nat /\ \A id \in DOMAIN tickets : id <= nextTicket
      BY DEF TypeOK
    <3>2. DOMAIN tickets # {} => Max(DOMAIN tickets) \in DOMAIN tickets
      BY <3>1, MaxIsLargest
    <3> QED
      BY <3>1, <3>2 DEF LastTicket
  <2>2. [o \in Owners |-> IF o \in Rows THEN balances[o] ELSE Nothing] \in [Owners -> Money]
    BY DEF TypeOK, Money, Nothing
  <2> QED
    BY <1>5, <2>1, <2>2 DEF TypeOK, LoadAllAssets, RecoveredSeq, natsVars, omeVars, writerVars,
                            fileVars, tableVars
<1>6. CASE SkipSeen
  <2>1. ch # <<>> /\ IsOrder(Head(ch))
    BY <1>6 DEF SkipSeen, Taking, IsOrder
  <2>2. Head(ch).seq \in Nat /\ Tail(ch) \in Seq(OrderMsg \cup ChangeMsg)
    BY <2>1, HeadTail, MessageShape DEF Message
  <2> QED
    BY <1>6, <2>2 DEF TypeOK, SkipSeen, Later, natsVars, omeVars, memVars, writerVars, fileVars,
                      tableVars
<1>7. CASE CreateOrder
  <2> DEFINE q == Head(ch).seq
             l == [kind |-> "ticket", logID |-> logID + 1, seq |-> q, id |-> ticketID + 1,
                   owner |-> sent[q].owner, total |-> sent[q].total,
                   new |-> Reserved(sent[q].owner, sent[q].total)]
  <2>1. q \in Nat /\ l \in TicketLine /\ filedb' = Append(filedb, l) /\ assets' = l.new
    BY <1>7, TicketStep
  <2>2. ch' = Tail(ch) /\ Tail(ch) \in Seq(OrderMsg \cup ChangeMsg)
    BY <1>7, HeadTail DEF CreateOrder, Taking, Message
  <2>3. assets' \in [Owners -> Money]
    BY <2>1 DEF TicketLine
  <2>4. /\ logID' = logID + 1 /\ ticketID' = ticketID + 1 /\ latestSeq' = q
        /\ ackTo' = Later(ackTo, q)
    BY <1>7 DEF CreateOrder
  <2>5. UNCHANGED <<natsVars, omeVars, pc, reasonID, writerVars, torn, tableVars, faults>>
    BY <1>7 DEF CreateOrder
  <2> HIDE DEF q, l
  <2> QED
    BY <2>1, <2>2, <2>3, <2>4, <2>5 DEF TypeOK, Later, natsVars, omeVars, writerVars, tableVars
<1>8. CASE HandleBalanceChange
  <2> DEFINE k == Head(ch).reason
             t == trades[k]
             l == [kind |-> "change", logID |-> logID + 1, seq |-> 0, reason |-> k,
                   payer |-> t.payer, payee |-> t.payee, amount |-> t.amount,
                   new |-> Settled(t)]
  <2>1. k \in Nat /\ l \in ChangeLine /\ filedb' = Append(filedb, l) /\ assets' = l.new
    BY <1>8, ChangeStep
  <2>2. ch' = Tail(ch) /\ Tail(ch) \in Seq(OrderMsg \cup ChangeMsg)
    BY <1>8, HeadTail DEF HandleBalanceChange, Taking, Message
  <2>3. assets' \in [Owners -> Money]
    BY <2>1 DEF ChangeLine
  <2>4. logID' = logID + 1 /\ reasonID' = k
    BY <1>8 DEF HandleBalanceChange, BalanceChanged
  <2>5. UNCHANGED <<natsVars, ackTo, omeVars, pc, ticketID, latestSeq, writerVars, torn,
                    tableVars, faults>>
    BY <1>8 DEF HandleBalanceChange
  <2> HIDE DEF k, t, l
  <2> QED
    BY <2>1, <2>2, <2>3, <2>4, <2>5 DEF TypeOK, natsVars, omeVars, writerVars, tableVars
<1>9. CASE Subscribe
  BY <1>9 DEF TypeOK, Subscribe, omeVars, memVars, writerVars, fileVars, tableVars
<1>10. CASE Deliver
  <2>1. delivered + 1 \in Nat /\ [kind |-> "order", seq |-> delivered + 1] \in OrderMsg
    BY <1>10 DEF Deliver, TypeOK, OrderMsg
  <2> QED
    BY <1>10, <2>1 DEF TypeOK, Deliver, Enqueue, omeVars, memVars, writerVars, fileVars, tableVars
<1>11. CASE Drop
  BY <1>11 DEF TypeOK, Drop, omeVars, memVars, writerVars, fileVars, tableVars
<1>12. CASE Ack
  BY <1>12 DEF TypeOK, Ack, omeVars, memVars, writerVars, fileVars, tableVars
<1>13. ASSUME NEW q \in 1 .. Len(sent), Redeliver(q) PROVE TypeOK'
  <2>1. [kind |-> "order", seq |-> q] \in OrderMsg
    BY DEF OrderMsg
  <2> QED
    BY <1>13, <2>1 DEF TypeOK, Redeliver, Enqueue, natsVars, omeVars, memVars, writerVars,
                       fileVars, tableVars
<1>14. CASE OpenSession
  BY <1>14 DEF TypeOK, OpenSession, FirstID, natsVars, memVars, writerVars, fileVars, tableVars
<1>15. CASE PushChange
  <2>1. session + 1 \in Nat /\ [kind |-> "change", reason |-> session + 1] \in ChangeMsg
    BY <1>15 DEF PushChange, TypeOK, ChangeMsg
  <2> QED
    BY <1>15, <2>1 DEF TypeOK, PushChange, Enqueue, natsVars, memVars, writerVars, fileVars,
                       tableVars
<1>16. CASE OmeRestart
  BY <1>16 DEF TypeOK, OmeRestart, natsVars, memVars, writerVars, fileVars, tableVars
<1>17. CASE WriterRound
  BY <1>17 DEF TypeOK, WriterRound, natsVars, omeVars, memVars, fileVars, tableVars
<1>18. ASSUME NEW n \in 1 .. BatchMax, WriterSkips(n) \/ WriterSaves(n) \/ WriterFails(n)
       PROVE  TypeOK'
  <2>1. CanTake(n)
    BY <1>18 DEF WriterSkips, WriterSaves, WriterFails
  <2>2. /\ writer \in Nat /\ n \in Nat \ {0} /\ filedb[writer + n].logID \in Nat
        /\ NotSaved(n) \in SUBSET DOMAIN filedb
    BY <2>1, BatchInLog
  <2>3. ASSUME NotSaved(n) # {}, Save(NotSaved(n))
        PROVE  /\ snapLog' \in Nat /\ natsSeq' \in Nat /\ nextTicket' \in Nat \ {0}
               /\ DOMAIN tickets' \subseteq 1 .. nextTicket' - 1
               /\ \A id \in DOMAIN tickets' : tickets'[id] \in Nat
               /\ balances' \in [Rows -> Money]
    BY <2>2, <2>3, SaveType
  <2>4. Cardinality(TicketsIn(NotSaved(n))) \in Nat
    BY <2>2, TicketCount
  <2>5. CASE WriterSkips(n)
    BY <2>2, <2>5 DEF TypeOK, WriterSkips, natsVars, omeVars, memVars, fileVars, tableVars
  <2>6. CASE WriterSaves(n)
    BY SMTT(30), <2>2, <2>3, <2>6 DEF TypeOK, WriterSaves, natsVars, omeVars, memVars, fileVars
  <2>7. CASE WriterFails(n)
    <3>1. /\ UNCHANGED <<natsVars, ackTo, omeVars, ch, pc, memVars, fileVars>>
          /\ savedLogID' \in Nat /\ writer' = Off /\ faults' = faults + 1
          /\ NotSaved(n) # {}
      BY <2>2, <2>7 DEF WriterFails
    <3>2. /\ snapLog' \in Nat /\ natsSeq' \in Nat /\ nextTicket' \in Nat \ {0}
          /\ DOMAIN tickets' \subseteq 1 .. nextTicket' - 1
          /\ \A id \in DOMAIN tickets' : tickets'[id] \in Nat
          /\ balances' \in [Rows -> Money]
      <4>1. CASE UNCHANGED tableVars
        BY <4>1 DEF TypeOK, tableVars
      <4>2. CASE Save(NotSaved(n))
        BY <2>3, <3>1, <4>2
      <4>3. CASE /\ nextTicket' = nextTicket + Cardinality(TicketsIn(NotSaved(n)))
                 /\ UNCHANGED <<snapLog, natsSeq, tickets, balances>>
        BY SMTT(30), <2>4, <4>3 DEF TypeOK
      <4> QED
        BY <2>7, <4>1, <4>2, <4>3 DEF WriterFails
    <3> QED
      BY <3>1, <3>2 DEF TypeOK, natsVars, omeVars, memVars, fileVars
  <2> QED
    BY <1>18, <2>5, <2>6, <2>7
<1>19. CASE Crash
  <2>1. /\ Halt /\ UNCHANGED <<sent, trades, filedb, tableVars>>
        /\ torn' \in {"no", "partial", "whole"} /\ faults' \in Nat
    BY <1>19 DEF Crash, fileVars, TypeOK
  <2> QED
    BY <2>1, HaltType
<1>20. CASE CrashInWrite
  <2>1. /\ Halt /\ UNCHANGED <<sent, trades, filedb, tableVars>>
        /\ torn' \in {"no", "partial", "whole"} /\ faults' \in Nat
    BY <1>20 DEF CrashInWrite, TypeOK
  <2> QED
    BY <2>1, HaltType
<1>21. CASE WriteErrorSwallowed
  <2>1. ch # <<>> /\ Head(ch) \in Message /\ Tail(ch) \in Seq(OrderMsg \cup ChangeMsg)
    BY <1>21, HeadTail DEF WriteErrorSwallowed, Taking, Message
  <2>2. reasonID' \in Nat
    BY <1>21, <2>1, MessageShape DEF WriteErrorSwallowed, Taking, IsChange, TypeOK
  <2> QED
    BY <1>21, <2>1, <2>2 DEF TypeOK, WriteErrorSwallowed, omeVars, writerVars, fileVars, tableVars
<1>22. CASE UNCHANGED vars
  BY <1>22 DEF TypeOK, vars, natsVars, omeVars, memVars, writerVars, fileVars, tableVars
<1> QED
  BY <1>1, <1>2, <1>3, <1>4, <1>5, <1>6, <1>7, <1>8, <1>9, <1>10, <1>11, <1>12, <1>13, <1>14,
     <1>15, <1>16, <1>17, <1>18, <1>19, <1>20, <1>21, <1>22
  DEF Next, Main, Nats, Settlement, Writer

(* Requests and trades are only added. *)
HistoryKept ==
    /\ Len(sent) <= Len(sent') /\ \A q \in DOMAIN sent : q \in DOMAIN sent' /\ sent'[q] = sent[q]
    /\ Len(trades) <= Len(trades')
    /\ \A k \in DOMAIN trades : k \in DOMAIN trades' /\ trades'[k] = trades[k]

LEMMA HistoryStep == TypeOK /\ [Next]_vars => HistoryKept
<1> SUFFICES ASSUME TypeOK, [Next]_vars PROVE HistoryKept
  OBVIOUS
<1>1. ASSUME NEW r \in Requests, Publish(r) PROVE HistoryKept
  <2>1. sent' = Append(sent, r) /\ trades' = trades
    BY <1>1 DEF Publish, omeVars
  <2>2. sent \in Seq(Requests) /\ Len(trades) \in Nat
    BY Shapes DEF TypeOK
  <2> QED
    BY <2>1, <2>2, AppendShape DEF HistoryKept
<1>2. ASSUME NEW o \in Owners, NEW p \in Owners, Trade(o, p) PROVE HistoryKept
  <2>1. PICK t : trades' = Append(trades, t) /\ sent' = sent
    BY <1>2 DEF Trade, natsVars
  <2> DEFINE T == [payer : Owners, payee : Owners, amount : Nat]
  <2>2. trades \in Seq(T) /\ Len(sent) \in Nat
    BY Shapes DEF TypeOK
  <2> HIDE DEF T
  <2> QED
    BY <2>1, <2>2, AppendShape DEF HistoryKept
<1>3. CASE UNCHANGED <<sent, trades>>
  BY <1>3, Shapes DEF HistoryKept
<1>4. Main => UNCHANGED <<sent, trades>>
  BY DEF Main, Start, WaitForFiledb, LoadAllAssets, SkipSeen, CreateOrder, HandleBalanceChange,
         natsVars, omeVars
<1>5. Nats => UNCHANGED <<sent, trades>>
  BY DEF Nats, Subscribe, Deliver, Drop, Ack, Redeliver, natsVars, omeVars
<1>6. Settlement => UNCHANGED <<sent, trades>>
  BY DEF Settlement, OpenSession, PushChange, OmeRestart, natsVars, omeVars
<1>7. Writer => UNCHANGED <<sent, trades>>
  BY DEF Writer, WriterRound, WriterSkips, WriterSaves, WriterFails, natsVars, omeVars
<1>8. Crash \/ CrashInWrite \/ WriteErrorSwallowed => UNCHANGED <<sent, trades>>
  BY DEF Crash, CrashInWrite, WriteErrorSwallowed, natsVars, omeVars
<1>9. UNCHANGED vars => UNCHANGED <<sent, trades>>
  BY DEF vars, natsVars, omeVars
<1> QED
  BY <1>1, <1>2, <1>3, <1>4, <1>5, <1>6, <1>7, <1>8, <1>9 DEF Next

MessageKnown(m) == IF IsOrder(m) THEN m.seq \in DOMAIN sent ELSE m.reason \in DOMAIN trades

(* A step takes the head of w.ch, puts something known at its end, or loses all. *)
ChannelMoves ==
    \/ ch' = ch
    \/ ch' = <<>>
    \/ ch # <<>> /\ ch' = Tail(ch)
    \/ \E m \in Message : ch' = Append(ch, m) /\ MessageKnown(m)

(* Where the messages in w.ch come from. *)
LEMMA ChannelOrigin ==
    ASSUME TypeOK, ChannelMoves, NEW k \in DOMAIN ch'
    PROVE  \/ \E j \in DOMAIN ch : ch'[k] = ch[j]
           \/ ch'[k] \in Message /\ MessageKnown(ch'[k])
<1>1. CASE ch' = ch
  BY <1>1
<1>2. CASE ch' = <<>>
  BY <1>2
<1>3. CASE ch # <<>> /\ ch' = Tail(ch)
  <2>1. k \in 1 .. Len(ch) - 1 /\ ch'[k] = ch[k + 1]
    BY <1>3, HeadTail
  <2>2. k + 1 \in DOMAIN ch
    BY <2>1, Shapes
  <2> QED
    BY <2>1, <2>2
<1>4. ASSUME NEW m \in Message, ch' = Append(ch, m), MessageKnown(m)
      PROVE  \/ \E j \in DOMAIN ch : ch'[k] = ch[j]
             \/ ch'[k] \in Message /\ MessageKnown(ch'[k])
  <2>1. ch \in Seq(Message)
    BY DEF TypeOK, Message
  <2>2. /\ DOMAIN ch' = 1 .. Len(ch) + 1 /\ DOMAIN ch = 1 .. Len(ch) /\ Len(ch) \in Nat
        /\ \A i \in DOMAIN ch : ch'[i] = ch[i]
        /\ ch'[Len(ch) + 1] = m
    BY <1>4, <2>1, AppendShape
  <2>3. k \in DOMAIN ch \/ k = Len(ch) + 1
    BY <2>2
  <2> QED
    BY <1>4, <2>2, <2>3
<1> QED
  BY <1>1, <1>2, <1>3, <1>4 DEF ChannelMoves

(* w.ch is left with known messages. *)
LEMMA ChannelKept ==
    ASSUME TypeOK, KnownInv, HistoryKept, ChannelMoves
    PROVE  ChannelKnown'
<1>1. ASSUME NEW m \in Message, MessageKnown(m) PROVE MessageKnown(m)'
  BY <1>1 DEF MessageKnown, HistoryKept
<1>2. \A k \in DOMAIN ch : ch[k] \in Message /\ MessageKnown(ch[k])
  BY Shapes DEF KnownInv, ChannelKnown, MessageKnown
<1>3. \A k \in DOMAIN ch' : ch'[k] \in Message /\ MessageKnown(ch'[k])
  BY <1>2, ChannelOrigin
<1>4. \A k \in DOMAIN ch' : MessageKnown(ch[k])'
  BY <1>1, <1>3
<1> QED
  BY <1>4 DEF ChannelKnown, MessageKnown

(* So is the log. *)
LEMMA LinesKept ==
    ASSUME TypeOK, KnownInv, HistoryKept,
           filedb' = filedb \/ \E l \in Line : filedb' = Append(filedb, l) /\ LineKnown(l)
    PROVE  \A i \in DOMAIN filedb' : LineKnown(filedb[i])'
<1>1. ASSUME NEW l \in Line, LineKnown(l) PROVE LineKnown(l)'
  BY <1>1 DEF LineKnown, HistoryKept
<1>2. \A i \in DOMAIN filedb : filedb[i] \in Line /\ LineKnown(filedb[i])
  BY Shapes DEF KnownInv
<1>3. ASSUME NEW i \in DOMAIN filedb' PROVE filedb'[i] \in Line /\ LineKnown(filedb'[i])
  <2>1. CASE filedb' = filedb
    BY <1>2, <1>3, <2>1
  <2>2. CASE \E l \in Line : filedb' = Append(filedb, l) /\ LineKnown(l)
    <3>1. PICK l \in Line : filedb' = Append(filedb, l) /\ LineKnown(l)
      BY <2>2
    <3>2. filedb \in Seq(Line)
      BY DEF TypeOK, Line
    <3>3. /\ DOMAIN filedb' = 1 .. Len(filedb) + 1 /\ DOMAIN filedb = 1 .. Len(filedb)
          /\ Len(filedb) \in Nat
          /\ \A j \in DOMAIN filedb : filedb'[j] = filedb[j]
          /\ filedb'[Len(filedb) + 1] = l
      BY <3>1, <3>2, AppendShape
    <3>4. i \in DOMAIN filedb \/ i = Len(filedb) + 1
      BY <1>3, <3>3
    <3> QED
      BY <1>2, <3>1, <3>3, <3>4
  <2> QED
    BY <2>1, <2>2
<1> QED
  BY <1>1, <1>3

LEMMA KnownInit == Init => KnownInv
BY DEF Init, KnownInv, ChannelKnown, Off

(* Every step keeps to what is known. *)
LEMMA KnownStep == TypeOK /\ TypeOK' /\ KnownInv /\ [Next]_vars => KnownInv'
<1> SUFFICES ASSUME TypeOK, TypeOK', KnownInv, [Next]_vars PROVE KnownInv'
  OBVIOUS
<1> USE DEF Fault
<1>1. HistoryKept
  BY HistoryStep
<1>2. ASSUME ChannelMoves,
             filedb' = filedb \/ \E l \in Line : filedb' = Append(filedb, l) /\ LineKnown(l),
             \A q \in {delivered', latestSeq', natsSeq'} : q <= Len(sent),
             \A k \in {session', reasonID'} : k <= Len(trades)
      PROVE  KnownInv'
  <2>1. ChannelKnown' /\ \A i \in DOMAIN filedb' : LineKnown(filedb[i])'
    BY <1>1, <1>2, ChannelKept, LinesKept
  <2>2. /\ Len(sent) \in Nat /\ Len(sent') \in Nat /\ Len(sent) <= Len(sent')
        /\ Len(trades) \in Nat /\ Len(trades') \in Nat /\ Len(trades) <= Len(trades')
    BY <1>1, Numbers, NumbersNext DEF HistoryKept
  <2>3. /\ \A q \in {delivered', latestSeq', natsSeq'} : q \in Int
        /\ \A k \in {session', reasonID'} : k \in Int
    BY NumbersNext
  <2>4. /\ \A q \in {delivered', latestSeq', natsSeq'} : q <= Len(sent')
        /\ \A k \in {session', reasonID'} : k <= Len(trades')
    BY <1>2, <2>2, <2>3
  <2> QED
    BY <2>1, <2>4 DEF KnownInv
<1>3. /\ \A q \in {delivered, latestSeq, natsSeq, 0, Off} : q <= Len(sent)
      /\ \A k \in {session, reasonID, 0, Off, Stuck} : k <= Len(trades)
  BY Shapes DEF KnownInv, Off, Stuck
<1>4. ASSUME NEW r \in Requests, Publish(r) PROVE KnownInv'
  BY <1>2, <1>3, <1>4 DEF Publish, ChannelMoves, omeVars, memVars, fileVars, tableVars
<1>5. ASSUME NEW o \in Owners, NEW p \in Owners, Trade(o, p) PROVE KnownInv'
  BY <1>2, <1>3, <1>5 DEF Trade, ChannelMoves, natsVars, memVars, fileVars, tableVars
<1>6. CASE Start
  <2>1. LastSeq <= Len(sent)
    <3>1. CASE filedb = <<>>
      BY <1>3, <3>1 DEF LastSeq
    <3>2. CASE filedb # <<>>
      <4> DEFINE l == filedb[Len(filedb)]
      <4>1. Len(filedb) \in DOMAIN filedb
        BY <3>2, LastLine
      <4>2. l \in Line /\ LineKnown(l)
        BY <4>1, Shapes DEF KnownInv
      <4> HIDE DEF l
      <4>3. l.seq <= Len(sent)
        <5>1. IsTicket(l) => l.seq \in DOMAIN sent
          BY <4>2 DEF LineKnown
        <5>2. ~IsTicket(l) => l.seq = 0
          BY <4>2, LineShape DEF ChangeLine
        <5> QED
          BY <5>1, <5>2, Shapes
      <4> QED
        BY <3>2, <4>3 DEF LastSeq, l
    <3> QED
      BY <3>1, <3>2
  <2> QED
    BY <1>2, <1>3, <1>6, <2>1
    DEF Start, ChannelMoves, natsVars, omeVars, fileVars, tableVars
<1>7. CASE WaitForFiledb
  BY <1>2, <1>3, <1>7 DEF WaitForFiledb, ChannelMoves, natsVars, omeVars, fileVars, tableVars
<1>8. CASE LoadAllAssets
  BY <1>2, <1>3, <1>8
  DEF LoadAllAssets, RecoveredSeq, ChannelMoves, natsVars, omeVars, fileVars, tableVars
<1>9. CASE SkipSeen
  BY <1>2, <1>3, <1>9
  DEF SkipSeen, Taking, ChannelMoves, natsVars, omeVars, memVars, fileVars, tableVars
<1>10. CASE CreateOrder
  <2>1. /\ Head(ch).seq \in DOMAIN sent
        /\ \E l \in Line : filedb' = Append(filedb, l) /\ LineKnown(l)
    BY <1>10, TicketStep DEF Line
  <2>2. latestSeq' = Head(ch).seq /\ Head(ch).seq <= Len(sent)
    BY <1>10, <2>1, Shapes DEF CreateOrder
  <2>3. ChannelMoves
    BY <1>10 DEF CreateOrder, Taking, ChannelMoves
  <2>4. UNCHANGED <<delivered, natsSeq, session, reasonID>>
    BY <1>10 DEF CreateOrder, natsVars, omeVars, tableVars
  <2> QED
    BY <1>2, <1>3, <2>1, <2>2, <2>3, <2>4
<1>11. CASE HandleBalanceChange
  <2>1. /\ Head(ch).reason \in DOMAIN trades
        /\ \E l \in Line : filedb' = Append(filedb, l) /\ LineKnown(l)
    BY <1>11, ChangeStep DEF Line
  <2>2. reasonID' = Head(ch).reason /\ Head(ch).reason <= Len(trades)
    BY <1>11, <2>1, Shapes DEF HandleBalanceChange
  <2>3. ChannelMoves
    BY <1>11 DEF HandleBalanceChange, Taking, ChannelMoves
  <2>4. UNCHANGED <<delivered, natsSeq, session, latestSeq>>
    BY <1>11 DEF HandleBalanceChange, natsVars, omeVars, tableVars
  <2> QED
    BY <1>2, <1>3, <2>1, <2>2, <2>3, <2>4
<1>12. CASE Subscribe
  BY <1>2, <1>3, <1>12 DEF Subscribe, ChannelMoves, omeVars, memVars, fileVars, tableVars
<1>13. CASE Deliver
  <2> DEFINE m == [kind |-> "order", seq |-> delivered + 1]
  <2>1. delivered + 1 \in DOMAIN sent /\ delivered + 1 \in Nat
    <3>1. delivered # Off /\ delivered < Len(sent)
      BY <1>13 DEF Deliver
    <3>2. delivered \in Nat /\ Len(sent) \in Nat /\ DOMAIN sent = 1 .. Len(sent)
      BY <3>1, Shapes, Numbers
    <3> QED
      BY <3>1, <3>2
  <2>2. m \in Message /\ MessageKnown(m)
    BY <2>1 DEF Message, OrderMsg, MessageKnown, IsOrder
  <2>3. ChannelMoves
    BY <1>13, <2>2 DEF Deliver, Enqueue, ChannelMoves
  <2> QED
    BY <1>2, <1>3, <1>13, <2>1, <2>3, Shapes DEF Deliver, omeVars, memVars, fileVars, tableVars
<1>14. CASE Drop
  <2>1. delivered + 1 <= Len(sent)
    <3>1. delivered # Off /\ delivered < Len(sent)
      BY <1>14 DEF Drop
    <3>2. delivered \in Nat /\ Len(sent) \in Nat
      BY <3>1, Numbers
    <3> QED
      BY <3>1, <3>2
  <2> QED
    BY <1>2, <1>3, <1>14, <2>1 DEF Drop, ChannelMoves, omeVars, memVars, fileVars, tableVars
<1>15. CASE Ack
  BY <1>2, <1>3, <1>15 DEF Ack, ChannelMoves, omeVars, memVars, fileVars, tableVars
<1>16. ASSUME NEW q \in 1 .. Len(sent), Redeliver(q) PROVE KnownInv'
  <2> DEFINE m == [kind |-> "order", seq |-> q]
  <2>1. m \in Message /\ MessageKnown(m)
    BY Shapes DEF Message, OrderMsg, MessageKnown, IsOrder
  <2>2. ChannelMoves
    BY <1>16, <2>1 DEF Redeliver, Enqueue, ChannelMoves
  <2> QED
    BY <1>2, <1>3, <1>16, <2>2 DEF Redeliver, natsVars, omeVars, memVars, fileVars, tableVars
<1>17. CASE OpenSession
  BY <1>2, <1>3, <1>17
  DEF OpenSession, FirstID, ChannelMoves, natsVars, memVars, fileVars, tableVars
<1>18. CASE PushChange
  <2> DEFINE m == [kind |-> "change", reason |-> session + 1]
  <2>1. session + 1 \in DOMAIN trades /\ session + 1 \in Nat
    <3>1. session \notin {Off, Stuck} /\ session < Len(trades)
      BY <1>18 DEF PushChange
    <3>2. session \in Nat /\ Len(trades) \in Nat /\ DOMAIN trades = 1 .. Len(trades)
      BY <3>1, Shapes, Numbers
    <3> QED
      BY <3>1, <3>2
  <2>2. m \in Message /\ MessageKnown(m)
    BY <2>1 DEF Message, ChangeMsg, MessageKnown, IsOrder
  <2>3. ChannelMoves
    BY <1>18, <2>2 DEF PushChange, Enqueue, ChannelMoves
  <2> QED
    BY <1>2, <1>3, <1>18, <2>1, <2>3, Shapes DEF PushChange, natsVars, memVars, fileVars, tableVars
<1>19. CASE OmeRestart
  BY <1>2, <1>3, <1>19 DEF OmeRestart, ChannelMoves, natsVars, memVars, fileVars, tableVars
<1>20. CASE WriterRound
  BY <1>2, <1>3, <1>20
  DEF WriterRound, ChannelMoves, natsVars, omeVars, memVars, fileVars, tableVars
<1>21. ASSUME NEW n \in 1 .. BatchMax, WriterSkips(n) \/ WriterSaves(n) \/ WriterFails(n)
       PROVE  KnownInv'
  <2>1. UNCHANGED <<ch, filedb, delivered, latestSeq, session, reasonID>>
    BY <1>21 DEF WriterSkips, WriterSaves, WriterFails, natsVars, omeVars, memVars, fileVars
  <2>2. natsSeq' <= Len(sent)
    <3>1. CASE natsSeq' = natsSeq
      BY <1>3, <3>1
    <3>2. CASE CanTake(n) /\ NotSaved(n) # {} /\ Save(NotSaved(n))
      BY <3>2, BatchInLog, SaveType
    <3> QED
      BY <1>21, <3>1, <3>2 DEF WriterSkips, WriterSaves, WriterFails, tableVars
  <2> QED
    BY <1>2, <1>3, <2>1, <2>2 DEF ChannelMoves
<1>22. CASE Crash
  BY <1>2, <1>3, <1>22 DEF Crash, Halt, Broken, ChannelMoves, fileVars, tableVars
<1>23. CASE CrashInWrite
  BY <1>2, <1>3, <1>23 DEF CrashInWrite, Halt, Broken, ChannelMoves, tableVars
<1>24. CASE WriteErrorSwallowed
  <2>1. ch # <<>> /\ ch' = Tail(ch)
        /\ UNCHANGED <<filedb, delivered, latestSeq, natsSeq, session>>
    BY <1>24 DEF WriteErrorSwallowed, Taking, omeVars, fileVars, tableVars
  <2>2. reasonID' = reasonID \/ (IsChange(Head(ch)) /\ reasonID' = Head(ch).reason)
    BY <1>24 DEF WriteErrorSwallowed, Taking, IsChange
  <2>3. reasonID' <= Len(trades)
    <3>1. IsChange(Head(ch)) => Head(ch).reason \in DOMAIN trades
      BY <2>1, HeadTail, MessageShape DEF KnownInv, ChannelKnown
    <3> QED
      BY <1>3, <2>2, <3>1, Shapes
  <2> QED
    BY <1>2, <1>3, <2>1, <2>3 DEF ChannelMoves
<1>25. CASE UNCHANGED vars
  BY <1>2, <1>3, <1>25
  DEF vars, ChannelMoves, natsVars, omeVars, memVars, fileVars, tableVars
<1> QED
  BY <1>4, <1>5, <1>6, <1>7, <1>8, <1>9, <1>10, <1>11, <1>12, <1>13, <1>14, <1>15, <1>16, <1>17,
     <1>18, <1>19, <1>20, <1>21, <1>22, <1>23, <1>24, <1>25
  DEF Next, Main, Nats, Settlement, Writer

(* What every message, line and number of a bank is about. *)
Known == TypeOK /\ KnownInv

LEMMA KnownCorrect == Spec => []Known
<1>1. Init => Known
  BY TypeInit, KnownInit DEF Known
<1>2. Known /\ [Next]_vars => Known'
  BY TypeStep, KnownStep DEF Known
<1> QED
  BY <1>1, <1>2, PTL DEF Spec

(* Every variable keeps its shape, for any users, requests, capacities and
   faults: no id, sequence number or amount ever leaves its range. *)
THEOREM TypeCorrect == Spec => []TypeOK
BY KnownCorrect, PTL DEF Known

-----------------------------------------------------------------------------
(* Recovery: what of the log is in MySQL and in memory. *)

LEMMA RecoveryInit == Init => RecoveryInv
BY DEF Init, RecoveryInv, Off, Stuck

(* A batch starts where MySQL ends. *)
LEMMA BatchIsNext ==
    ASSUME TypeOK, RecoveryInv, NEW n \in 1 .. BatchMax, CanTake(n)
    PROVE  /\ writer + n \in DOMAIN filedb /\ filedb[writer + n].logID = writer + n
           /\ NotSaved(n) = snapLog + 1 .. writer + n
           /\ NotSaved(n) = {} => writer + n <= snapLog
           /\ NotSaved(n) # {} =>
                /\ snapLog < writer + n /\ Max(NotSaved(n)) = writer + n
                /\ filedb[Max(NotSaved(n))].logID = writer + n
<1>1. /\ writer \in Nat /\ n \in Nat \ {0} /\ writer + n \in DOMAIN filedb
      /\ NotSaved(n) \in SUBSET DOMAIN filedb
  BY BatchInLog
<1>2. /\ savedLogID = snapLog /\ writer <= snapLog /\ snapLog <= Len(filedb)
      /\ \A i \in DOMAIN filedb : filedb[i].logID = i
  BY <1>1 DEF RecoveryInv, Off
<1>3. snapLog \in Nat /\ Len(filedb) \in Nat /\ DOMAIN filedb = 1 .. Len(filedb)
  BY Numbers, Shapes
<1>4. \A i \in writer + 1 .. writer + n : filedb[i].logID = i
  BY <1>1, <1>2, <1>3
<1>5. NotSaved(n) = {i \in writer + 1 .. writer + n : i > snapLog}
  BY <1>2, <1>4 DEF NotSaved, Batch
<1>6. NotSaved(n) = snapLog + 1 .. writer + n
  BY <1>1, <1>2, <1>3, <1>5
<1>7. NotSaved(n) = {} => writer + n <= snapLog
  <2>1. writer + n \in Nat /\ snapLog \in Nat
    BY <1>1, <1>3
  <2>2. snapLog < writer + n => writer + n \in snapLog + 1 .. writer + n
    BY <2>1
  <2> QED
    BY <1>6, <2>1, <2>2
<1>8. ASSUME NotSaved(n) # {} PROVE snapLog < writer + n /\ Max(NotSaved(n)) = writer + n
  <2>1. snapLog < writer + n
    BY <1>1, <1>3, <1>6, <1>8
  <2>2. Max(NotSaved(n)) \in NotSaved(n) /\ \A i \in NotSaved(n) : i <= Max(NotSaved(n))
    BY <1>1, <1>8, MaxLine
  <2>3. writer + n \in NotSaved(n) /\ \A i \in NotSaved(n) : i \in Nat /\ i <= writer + n
    BY <1>1, <1>3, <1>6, <2>1
  <2> QED
    BY <1>1, <2>1, <2>2, <2>3
<1> QED
  BY <1>1, <1>2, <1>6, <1>7, <1>8

(* Every step keeps it. *)
LEMMA RecoveryStep ==
    TypeOK /\ TypeOK' /\ KnownInv /\ RecoveryInv /\ [Next]_vars => RecoveryInv'
<1> SUFFICES ASSUME TypeOK, TypeOK', KnownInv, RecoveryInv, [Next]_vars PROVE RecoveryInv'
  OBVIOUS
<1> USE DEF Fault
<1>1. ASSUME UNCHANGED <<filedb, torn, snapLog, pc, logID, writer, savedLogID>>,
             pc # "work" => UNCHANGED <<ch, delivered, acked, ackTo, reasonID>>
                            /\ session' \in {session, Off},
             delivered' = Off => \A k \in DOMAIN ch' : IsChange(ch'[k])
      PROVE  RecoveryInv'
  BY <1>1 DEF RecoveryInv
<1>2. ASSUME NEW r \in Requests, Publish(r) PROVE RecoveryInv'
  BY <1>2 DEF RecoveryInv, Publish, omeVars, memVars, writerVars, fileVars, tableVars
<1>3. ASSUME NEW o \in Owners, NEW p \in Owners, Trade(o, p) PROVE RecoveryInv'
  BY <1>3 DEF RecoveryInv, Trade, natsVars, memVars, writerVars, fileVars, tableVars
<1>4. CASE Start
  BY <1>4 DEF RecoveryInv, Start, natsVars, omeVars, writerVars, fileVars, tableVars
<1>5. CASE WaitForFiledb
  <2>1. Len(filedb) \in Nat /\ snapLog \in Nat /\ snapLog <= Len(filedb) /\ snapLog >= LastLogID
    BY <1>5, Numbers DEF WaitForFiledb, IsSaved, RecoveryInv
  <2>2. torn = "no"
    <3>1. torn # "whole"
      BY <2>1 DEF LastLogID
    <3> QED
      BY <1>5, <3>1 DEF WaitForFiledb, RecoveryInv, TypeOK
  <2>3. LastLogID = Len(filedb)
    <3>1. CASE filedb = <<>>
      BY <2>2, <3>1 DEF LastLogID
    <3>2. CASE filedb # <<>>
      BY <2>2, <3>2, LastLine DEF LastLogID, RecoveryInv
    <3> QED
      BY <3>1, <3>2
  <2>4. snapLog = Len(filedb)
    BY <2>1, <2>3
  <2> QED
    BY <1>5, <2>2, <2>3, <2>4
    DEF RecoveryInv, WaitForFiledb, natsVars, omeVars, writerVars, fileVars, tableVars
<1>6. CASE LoadAllAssets
  BY <1>6 DEF RecoveryInv, LoadAllAssets, natsVars, omeVars, writerVars, fileVars, tableVars
<1>7. CASE SkipSeen
  <2>1. delivered # Off
    BY <1>7, HeadTail DEF SkipSeen, Taking, RecoveryInv, IsChange
  <2> QED
    BY <1>1, <1>7, <2>1 DEF SkipSeen, Taking, natsVars, omeVars, memVars, writerVars,
                            fileVars, tableVars
<1>8. ASSUME CreateOrder \/ HandleBalanceChange PROVE RecoveryInv'
  <2>1. PICK l \in Line : filedb' = Append(filedb, l) /\ l.logID = logID + 1
    BY <1>8, TicketStep, ChangeStep DEF Line
  <2>2. /\ pc = "work" /\ ch # <<>> /\ ch' = Tail(ch) /\ logID' = logID + 1
        /\ UNCHANGED <<pc, delivered, torn, snapLog, writer, savedLogID>>
    BY <1>8 DEF CreateOrder, HandleBalanceChange, BalanceChanged, Taking, natsVars, writerVars, tableVars
  <2>3. /\ DOMAIN filedb' = 1 .. Len(filedb) + 1 /\ DOMAIN filedb = 1 .. Len(filedb)
        /\ Len(filedb') = Len(filedb) + 1 /\ Len(filedb) \in Nat
        /\ \A i \in DOMAIN filedb : filedb'[i] = filedb[i]
        /\ filedb'[Len(filedb) + 1] = l
    <3>1. filedb \in Seq(Line)
      BY DEF TypeOK, Line
    <3> QED
      BY <2>1, <3>1, AppendShape
  <2>4. logID = Len(filedb) /\ torn = "no" /\ snapLog <= Len(filedb)
        /\ \A i \in DOMAIN filedb : filedb[i].logID = i
    BY <2>2 DEF RecoveryInv
  <2>5. \A i \in DOMAIN filedb' : filedb'[i].logID = i
    <3>1. \A i \in DOMAIN filedb' : i \in DOMAIN filedb \/ i = Len(filedb) + 1
      BY <2>3
    <3> QED
      BY <2>1, <2>3, <2>4, <3>1
  <2>6. \A k \in DOMAIN ch' : k + 1 \in DOMAIN ch /\ ch'[k] = ch[k + 1]
    BY <2>2, HeadTail, Shapes
  <2>7. delivered' = Off => \A k \in DOMAIN ch' : IsChange(ch'[k])
    BY <2>2, <2>6 DEF RecoveryInv
  <2>8. snapLog' <= Len(filedb')
    BY <2>2, <2>3, <2>4, Counts
  <2> QED
    BY <2>2, <2>3, <2>4, <2>5, <2>7, <2>8 DEF RecoveryInv
<1>9. CASE Subscribe
  BY <1>1, <1>9, Numbers DEF Subscribe, Off, omeVars, memVars, writerVars, fileVars, tableVars
<1>10. CASE Deliver
  <2>1. delivered # Off /\ delivered' # Off
    BY <1>10, Delivered DEF Deliver, Off
  <2>2. pc = "work"
    BY <2>1 DEF RecoveryInv
  <2> QED
    BY <1>1, <1>10, <2>1, <2>2 DEF Deliver, omeVars, memVars, writerVars, fileVars, tableVars
<1>11. CASE Drop
  <2>1. delivered # Off /\ delivered' # Off
    BY <1>11, Delivered DEF Drop, Off
  <2>2. pc = "work"
    BY <2>1 DEF RecoveryInv
  <2> QED
    BY <1>1, <1>11, <2>1, <2>2 DEF Drop, omeVars, memVars, writerVars, fileVars, tableVars
<1>12. CASE Ack
  <2>1. pc = "work"
    BY <1>12, Numbers DEF Ack, RecoveryInv
  <2> QED
    BY <1>1, <1>12, <2>1 DEF Ack, RecoveryInv, omeVars, memVars, writerVars, fileVars, tableVars
<1>13. ASSUME NEW q \in 1 .. Len(sent), Redeliver(q) PROVE RecoveryInv'
  <2>1. delivered # Off /\ pc = "work"
    BY <1>13 DEF Redeliver, RecoveryInv
  <2> QED
    BY <1>1, <1>13, <2>1
    DEF Redeliver, natsVars, omeVars, memVars, writerVars, fileVars, tableVars
<1>14. CASE OpenSession
  BY <1>1, <1>14 DEF OpenSession, RecoveryInv, natsVars, memVars, writerVars, fileVars, tableVars
<1>15. CASE PushChange
  <2> DEFINE m == [kind |-> "change", reason |-> session + 1]
  <2>1. pc = "work" /\ ch' = Append(ch, m)
    BY <1>15 DEF PushChange, Enqueue, RecoveryInv
  <2>2. UNCHANGED <<delivered, filedb, torn, snapLog, pc, logID, writer, savedLogID>>
    BY <1>15 DEF PushChange, natsVars, memVars, writerVars, fileVars, tableVars
  <2>3. IsChange(m)
    BY DEF IsChange
  <2>4. ASSUME delivered' = Off, NEW k \in DOMAIN ch' PROVE IsChange(ch'[k])
    <3>1. ch \in Seq(Message)
      BY DEF TypeOK, Message
    <3> HIDE DEF m
    <3>2. /\ DOMAIN ch' = 1 .. Len(ch) + 1 /\ DOMAIN ch = 1 .. Len(ch) /\ Len(ch) \in Nat
          /\ \A i \in DOMAIN ch : ch'[i] = ch[i]
          /\ ch'[Len(ch) + 1] = m
      BY <2>1, <3>1, AppendShape
    <3>3. k \in DOMAIN ch \/ k = Len(ch) + 1
      BY <2>4, <3>2
    <3> QED
      BY <2>2, <2>3, <2>4, <3>2, <3>3 DEF RecoveryInv
  <2> QED
    BY <1>1, <2>1, <2>2, <2>4
<1>16. CASE OmeRestart
  BY <1>1, <1>16 DEF OmeRestart, RecoveryInv, natsVars, memVars, writerVars, fileVars, tableVars
<1>17. CASE WriterRound
  BY <1>17, Numbers DEF RecoveryInv, WriterRound, natsVars, omeVars, memVars, fileVars, tableVars
<1>18. ASSUME NEW n \in 1 .. BatchMax, WriterSkips(n) \/ WriterSaves(n) \/ WriterFails(n)
       PROVE  RecoveryInv'
  <2>1. CanTake(n)
    BY <1>18 DEF WriterSkips, WriterSaves, WriterFails
  <2>2. /\ writer + n \in DOMAIN filedb /\ filedb[writer + n].logID = writer + n
        /\ NotSaved(n) = {} => writer + n <= snapLog
        /\ NotSaved(n) # {} => snapLog < writer + n /\ filedb[Max(NotSaved(n))].logID = writer + n
        /\ writer # Off /\ writer + n \in Nat /\ writer + n <= Len(filedb)
    BY <2>1, BatchIsNext, Shapes DEF CanTake
  <2>3. UNCHANGED <<filedb, torn, ch, pc, delivered, acked, ackTo, reasonID, session, logID>>
    BY <1>18 DEF WriterSkips, WriterSaves, WriterFails, natsVars, omeVars, memVars, fileVars
  <2>4. pc = "load" => snapLog = Len(filedb)
    BY DEF RecoveryInv
  <2>8. snapLog < writer + n => snapLog # Len(filedb)
    <3>1. snapLog \in Nat /\ Len(filedb) \in Nat
      BY Numbers
    <3>2. writer + n \in Nat /\ writer + n <= Len(filedb)
      BY <2>2
    <3> QED
      BY <3>1, <3>2
  <2>5. CASE WriterSkips(n)
    <3>1. UNCHANGED <<snapLog, savedLogID>> /\ writer' = writer + n /\ writer' <= snapLog
      BY <2>2, <2>5 DEF WriterSkips, tableVars
    <3> QED
      BY <2>2, <2>3, <3>1 DEF RecoveryInv
  <2>6. CASE WriterSaves(n)
    <3>1. snapLog' = writer + n /\ savedLogID' = writer + n /\ writer' = writer + n
      BY <2>2, <2>6 DEF WriterSaves, Save
    <3>2. snapLog' <= Len(filedb) /\ snapLog < snapLog'
      BY <2>2, <2>6, <3>1 DEF WriterSaves
    <3>3. pc # "load"
      BY <2>4, <2>8, <3>1, <3>2
    <3>4. writer' <= snapLog'
      BY <2>2, <3>1
    <3> QED
      BY <2>3, <3>1, <3>2, <3>3, <3>4 DEF RecoveryInv
  <2>7. CASE WriterFails(n)
    <3>1. writer' = Off /\ snapLog' \in {snapLog, writer + n}
      BY <2>2, <2>7 DEF WriterFails, Save, tableVars
    <3>2. snapLog < writer + n
      BY <2>2, <2>7 DEF WriterFails
    <3>3. pc # "load"
      BY <2>4, <2>8, <3>2
    <3>4. snapLog' <= Len(filedb)
      BY <2>2, <3>1 DEF RecoveryInv
    <3> QED
      BY <2>3, <3>1, <3>3, <3>4 DEF RecoveryInv
  <2> QED
    BY <1>18, <2>5, <2>6, <2>7
<1>19. CASE Crash
  BY <1>19 DEF RecoveryInv, Crash, Halt, Broken, Off, Stuck, fileVars, tableVars
<1>20. CASE CrashInWrite
  BY <1>20 DEF RecoveryInv, CrashInWrite, Halt, Broken, Off, Stuck, tableVars
<1>21. CASE WriteErrorSwallowed
  <2>1. /\ pc = "work" /\ ch # <<>> /\ ch' = Tail(ch)
        /\ UNCHANGED <<filedb, torn, snapLog, pc, logID, writer, savedLogID, delivered>>
    BY <1>21 DEF WriteErrorSwallowed, Taking, writerVars, fileVars, tableVars
  <2>2. \A k \in DOMAIN ch' : k + 1 \in DOMAIN ch /\ ch'[k] = ch[k + 1]
    BY <2>1, HeadTail, Shapes
  <2>3. delivered' = Off => \A k \in DOMAIN ch' : IsChange(ch'[k])
    BY <2>1, <2>2 DEF RecoveryInv
  <2> QED
    BY <1>1, <2>1, <2>3
<1>22. CASE UNCHANGED vars
  BY <1>22 DEF RecoveryInv, vars, natsVars, omeVars, memVars, writerVars, fileVars, tableVars
<1> QED
  BY <1>2, <1>3, <1>4, <1>5, <1>6, <1>7, <1>8, <1>9, <1>10, <1>11, <1>12, <1>13, <1>14,
     <1>15, <1>16, <1>17, <1>18, <1>19, <1>20, <1>21, <1>22
  DEF Next, Main, Nats, Settlement, Writer

-----------------------------------------------------------------------------
(* What a step does to the log, the tables and the memory: the invariants that
   say nothing of w.ch need not look at the actions one by one. *)

Quiet ==
    /\ UNCHANGED <<filedb, tableVars>>
    /\ pc' = "work" => UNCHANGED <<pc, assets, ticketID, latestSeq>>

(* A batch gets the tables up to line m. *)
SavesTo(m) ==
    /\ m \in Nat /\ snapLog < m /\ m <= Len(filedb)
    /\ Save(snapLog + 1 .. m)
    /\ snapLog' = m
    /\ UNCHANGED <<filedb, pc, assets, ticketID, latestSeq>>

RollsBackLate ==
    /\ "late" \in FaultKinds
    /\ \E c \in Nat : nextTicket' = nextTicket + c
    /\ UNCHANGED <<filedb, snapLog, natsSeq, tickets, balances>>
    /\ UNCHANGED <<pc, assets, ticketID, latestSeq>>

LEMMA StepKinds ==
    ASSUME TypeOK, RecoveryInv, [Next]_vars
    PROVE  \/ Quiet \/ LoadAllAssets \/ CreateOrder \/ HandleBalanceChange
           \/ \E m : SavesTo(m)
           \/ RollsBackLate
<1> USE DEF Fault
<1>1. ASSUME NEW r \in Requests, Publish(r) PROVE Quiet
  BY <1>1 DEF Quiet, Publish, memVars, fileVars
<1>2. ASSUME NEW o \in Owners, NEW p \in Owners, Trade(o, p) PROVE Quiet
  BY <1>2 DEF Quiet, Trade, memVars, fileVars
<1>3. Start \/ WaitForFiledb \/ SkipSeen => Quiet
  BY DEF Quiet, Start, WaitForFiledb, SkipSeen, memVars, fileVars
<1>4. Nats => Quiet
  BY DEF Quiet, Nats, Subscribe, Deliver, Drop, Ack, Redeliver, memVars, fileVars
<1>5. Settlement => Quiet
  BY DEF Quiet, Settlement, OpenSession, PushChange, OmeRestart, memVars, fileVars
<1>6. WriterRound => Quiet
  BY DEF Quiet, WriterRound, memVars, fileVars
<1>7. Crash \/ CrashInWrite \/ WriteErrorSwallowed => Quiet
  BY DEF Quiet, Crash, CrashInWrite, WriteErrorSwallowed, Halt, Broken, fileVars
<1>8. UNCHANGED vars => Quiet
  BY DEF Quiet, vars, memVars, fileVars
<1>9. ASSUME NEW n \in 1 .. BatchMax, WriterSkips(n) PROVE Quiet
  BY <1>9 DEF Quiet, WriterSkips, memVars, fileVars
<1>10. ASSUME NEW n \in 1 .. BatchMax, WriterSaves(n) \/ WriterFails(n)
       PROVE  Quiet \/ (\E m : SavesTo(m)) \/ RollsBackLate
  <2>1. CanTake(n) /\ NotSaved(n) # {} /\ UNCHANGED <<filedb, pc, assets, ticketID, latestSeq>>
    BY <1>10 DEF WriterSaves, WriterFails, memVars, fileVars
  <2>2. CASE UNCHANGED tableVars
    BY <2>1, <2>2 DEF Quiet
  <2>3. CASE Save(NotSaved(n))
    <3>1. /\ NotSaved(n) = snapLog + 1 .. writer + n /\ snapLog < writer + n
          /\ filedb[Max(NotSaved(n))].logID = writer + n
          /\ writer + n \in Nat /\ writer + n <= Len(filedb)
      BY <2>1, BatchIsNext, Shapes
    <3>2. SavesTo(writer + n)
      BY <2>1, <2>3, <3>1 DEF SavesTo, Save
    <3> QED
      BY <3>2
  <2>4. CASE /\ "late" \in FaultKinds
             /\ nextTicket' = nextTicket + Cardinality(TicketsIn(NotSaved(n)))
             /\ UNCHANGED <<snapLog, natsSeq, tickets, balances>>
    <3>1. Cardinality(TicketsIn(NotSaved(n))) \in Nat
      BY <2>1, BatchInLog, TicketCount
    <3> QED
      BY <2>1, <2>4, <3>1 DEF RollsBackLate
  <2> QED
    BY <1>10, <2>2, <2>3, <2>4 DEF WriterSaves, WriterFails
<1> QED
  BY <1>1, <1>2, <1>3, <1>4, <1>5, <1>6, <1>7, <1>8, <1>9, <1>10 DEF Next, Main, Writer

(* What a line more does to the log. *)
LEMMA LineAppended ==
    ASSUME TypeOK, NEW l \in Line, filedb' = Append(filedb, l)
    PROVE  /\ Len(filedb) \in Nat /\ Len(filedb') = Len(filedb) + 1
           /\ DOMAIN filedb = 1 .. Len(filedb)
           /\ DOMAIN filedb' = 1 .. Len(filedb) + 1
           /\ \A i \in 1 .. Len(filedb) : filedb'[i] = filedb[i]
           /\ filedb'[Len(filedb) + 1] = l
           /\ TicketLines \in SUBSET (1 .. Len(filedb))
           /\ ChangeLines \in SUBSET (1 .. Len(filedb))
           /\ TicketLines' = IF IsTicket(l) THEN TicketLines \cup {Len(filedb) + 1}
                                            ELSE TicketLines
           /\ ChangeLines' = IF IsTicket(l) THEN ChangeLines
                                            ELSE ChangeLines \cup {Len(filedb) + 1}
<1> DEFINE n == Len(filedb)
<1>1. filedb \in Seq(Line)
  BY DEF TypeOK, Line
<1>2. /\ n \in Nat /\ Len(filedb') = n + 1 /\ DOMAIN filedb = 1 .. n
      /\ DOMAIN filedb' = 1 .. n + 1
      /\ \A i \in 1 .. n : filedb'[i] = filedb[i]
      /\ filedb'[n + 1] = l
  BY <1>1, AppendShape
<1> HIDE DEF n
<1>3. 1 .. n + 1 = (1 .. n) \cup {n + 1} /\ n + 1 \notin 1 .. n
  BY <1>2
<1>4. TicketLines' = {i \in 1 .. n + 1 : IsTicket(filedb'[i])}
  BY <1>2 DEF TicketLines
<1>5. TicketLines' = IF IsTicket(l) THEN TicketLines \cup {n + 1} ELSE TicketLines
  <2>1. TicketLines = {i \in 1 .. n : IsTicket(filedb'[i])}
    BY <1>2 DEF TicketLines
  <2> QED
    BY <1>2, <1>3, <1>4, <2>1
<1>6. TicketLines \subseteq 1 .. n /\ ChangeLines \subseteq 1 .. n
  BY <1>2 DEF TicketLines, ChangeLines
<1>7. ChangeLines' = IF IsTicket(l) THEN ChangeLines ELSE ChangeLines \cup {n + 1}
  <2>1. ChangeLines' = (1 .. n + 1) \ TicketLines' /\ ChangeLines = (1 .. n) \ TicketLines
    BY <1>2 DEF ChangeLines
  <2> QED
    BY <1>3, <1>5, <1>6, <2>1
<1> QED
  BY <1>2, <1>5, <1>6, <1>7 DEF n

-----------------------------------------------------------------------------
(* The last request. *)

(* A ticket is made from a request, whose number is not 0. *)
LEMMA TicketSeqs ==
    ASSUME TypeOK, KnownInv
    PROVE  /\ TicketLines \in SUBSET (1 .. Len(filedb)) /\ TicketLines \in SUBSET Nat
           /\ \A i \in TicketLines : /\ filedb[i] \in TicketLine
                                     /\ filedb[i].seq \in Nat \ {0}
                                     /\ filedb[i].seq <= Len(sent)
           /\ \A i \in DOMAIN filedb : i \notin TicketLines => filedb[i].seq = 0
<1>1. TicketLines \in SUBSET (1 .. Len(filedb)) /\ TicketLines \in SUBSET Nat
  BY Shapes DEF TicketLines
<1>2. ASSUME NEW i \in TicketLines
      PROVE  /\ filedb[i] \in TicketLine
             /\ filedb[i].seq \in Nat \ {0} /\ filedb[i].seq <= Len(sent)
  <2>1. filedb[i] \in Line /\ IsTicket(filedb[i]) /\ LineKnown(filedb[i])
    BY Shapes DEF TicketLines, KnownInv
  <2>2. filedb[i].seq \in DOMAIN sent
    BY <2>1 DEF LineKnown
  <2> QED
    BY <2>1, <2>2, Shapes, LineShape
<1>3. ASSUME NEW i \in DOMAIN filedb, i \notin TicketLines PROVE filedb[i].seq = 0
  <2>1. filedb[i] \in ChangeLine
    BY <1>3, Shapes, LineShape DEF TicketLines
  <2> QED
    BY <2>1 DEF ChangeLine
<1> QED
  BY <1>1, <1>2, <1>3

(* What SeqRow makes of a batch is the last request of the longer prefix. *)
LEMMA SeqRowIsLast ==
    ASSUME TypeOK, KnownInv, SeqInv, NEW m, SavesTo(m)
    PROVE  LastSeqIs(m, natsSeq')
<1> DEFINE S == snapLog + 1 .. m
           seqs == {filedb[i].seq : i \in S}
           top == Max(seqs)
<1>1. /\ m \in Nat /\ snapLog \in Nat /\ snapLog < m /\ m <= Len(filedb) /\ Len(filedb) \in Nat
      /\ DOMAIN filedb = 1 .. Len(filedb)
  BY Numbers, Shapes DEF SavesTo
<1>2. S \in SUBSET DOMAIN filedb /\ S # {}
  <2> HIDE DEF seqs, top
  <2>1. snapLog + 1 \in S /\ \A i \in S : i \in 1 .. Len(filedb)
    BY <1>1
  <2> QED
    BY <1>1, <2>1
<1>3. top \in seqs /\ \A q \in seqs : q <= top
  BY <1>2, MaxSeq
<1>4. PICK t \in S : filedb[t].seq = top
  BY <1>3
<1>5. \A i \in S : filedb[i].seq <= top
  BY <1>3
<1>6. natsSeq' = IF top > 0 THEN top ELSE natsSeq
  BY DEF SavesTo, Save, SeqRow
<1> HIDE DEF top, seqs
<1>7. t \in Nat /\ snapLog < t /\ t <= m /\ t \in DOMAIN filedb
  BY <1>1, <1>4
<1>8. \A i \in TicketLines : i \in Nat /\ (i <= m => i <= snapLog \/ i \in S)
  BY <1>1, TicketSeqs
<1>9. CASE top > 0
  <2>1. t \in TicketLines
    BY <1>4, <1>7, <1>9, TicketSeqs
  <2>2. top \in Nat
    BY <1>4, <2>1, TicketSeqs
  <2>3. ASSUME NEW i \in TicketLines, i <= m PROVE filedb[i].seq <= top
    <3>1. CASE i \in S
      BY <1>5, <3>1
    <3>2. CASE i <= snapLog
      <4>1. i < t
        BY <1>1, <1>7, <1>8, <3>2
      <4>2. filedb[i].seq < filedb[t].seq
        BY <2>1, <4>1 DEF SeqInv
      <4> QED
        BY <1>4, <2>1, <4>2, TicketSeqs
    <3> QED
      BY <1>8, <2>3, <3>1, <3>2
  <2> QED
    BY <1>4, <1>6, <1>7, <1>9, <2>1, <2>3 DEF LastSeqIs
<1>10. CASE ~(top > 0)
  <2>1. \A i \in S : i \notin TicketLines
    BY SMTT(30), <1>2, <1>4, <1>5, <1>10, TicketSeqs, Shapes, LineShape
  <2>2. \A i \in TicketLines : i <= m <=> i <= snapLog
    BY <1>1, <1>8, <2>1
  <2> QED
    BY <1>6, <1>10, <2>2 DEF SeqInv, LastSeqIs
<1> QED
  BY <1>9, <1>10

LEMMA SeqInit == Init => SeqInv
BY DEF Init, SeqInv, LastSeqIs, TicketLines

(* A request becomes a ticket only after all earlier tickets' requests. *)
LEMMA SeqStep ==
    TypeOK /\ TypeOK' /\ KnownInv /\ RecoveryInv /\ SeqInv /\ [Next]_vars => SeqInv'
<1> SUFFICES ASSUME TypeOK, TypeOK', KnownInv, RecoveryInv, SeqInv, [Next]_vars PROVE SeqInv'
  OBVIOUS
<1>1. CASE Quiet
  BY <1>1 DEF Quiet, SeqInv, LastSeqIs, TicketLines, tableVars
<1>2. CASE LoadAllAssets
  <2>1. /\ UNCHANGED <<filedb, snapLog, natsSeq>> /\ latestSeq' = natsSeq
        /\ snapLog = Len(filedb)
    BY <1>2 DEF LoadAllAssets, RecoveredSeq, RecoveryInv, fileVars, tableVars
  <2> QED
    BY <2>1 DEF SeqInv, LastSeqIs, TicketLines
<1>3. CASE CreateOrder
  <2> DEFINE n == Len(filedb)
             q == Head(ch).seq
  <2>1. PICK l \in Line : /\ filedb' = Append(filedb, l) /\ IsTicket(l) /\ l.seq = q
                          /\ q \in Nat /\ q > latestSeq
    BY <1>3, TicketStep DEF Line
  <2>2. latestSeq' = q /\ UNCHANGED <<snapLog, natsSeq>> /\ pc = "work"
    BY <1>3 DEF CreateOrder, Taking, tableVars
  <2>3. /\ n \in Nat /\ Len(filedb') = n + 1 /\ \A i \in 1 .. n : filedb'[i] = filedb[i]
        /\ filedb'[n + 1] = l /\ TicketLines \in SUBSET (1 .. n)
        /\ TicketLines' = TicketLines \cup {n + 1}
    BY <2>1, LineAppended
  <2>4. snapLog \in Nat /\ snapLog <= n /\ latestSeq \in Nat
    BY Numbers DEF RecoveryInv
  <2> HIDE DEF n, q
  <2>5. \A i \in TicketLines : i \in Nat /\ i <= n /\ filedb'[i] = filedb[i] /\ filedb[i].seq \in Nat
    BY <2>3, TicketSeqs
  <2>6. \A i \in TicketLines : filedb[i].seq <= latestSeq
    BY <2>2, <2>5 DEF SeqInv, LastSeqIs, n
  <2>7. \A i \in TicketLines : filedb'[i].seq < filedb'[n + 1].seq
    BY <2>1, <2>3, <2>4, <2>5, <2>6
  <2>8. \A i, j \in TicketLines' : j < i => filedb'[j].seq < filedb'[i].seq
    <3> SUFFICES ASSUME NEW i \in TicketLines', NEW j \in TicketLines', j < i
                 PROVE  filedb'[j].seq < filedb'[i].seq
      OBVIOUS
    <3>1. j \in TicketLines
      BY <2>3, <2>5
    <3>2. CASE i \in TicketLines
      BY <2>5, <3>1, <3>2 DEF SeqInv
    <3>3. CASE i = n + 1
      BY <2>7, <3>1, <3>3
    <3> QED
      BY <2>3, <3>2, <3>3
  <2>9. LastSeqIs(snapLog, natsSeq)'
    <3>1. \A i \in TicketLines' : i <= snapLog => i \in TicketLines
      BY <2>3, <2>4
    <3> QED
      BY <2>2, <2>3, <2>5, <3>1 DEF SeqInv, LastSeqIs
  <2>10. LastSeqIs(Len(filedb), latestSeq)'
    <3>1. \A i \in TicketLines' : filedb'[i].seq <= q
      BY <2>1, <2>3, <2>5, <2>7
    <3>2. n + 1 \in TicketLines' /\ n + 1 <= Len(filedb)' /\ filedb'[n + 1].seq = q
      BY <2>1, <2>3
    <3> QED
      BY <2>2, <3>1, <3>2 DEF LastSeqIs
  <2> QED
    BY <2>8, <2>9, <2>10 DEF SeqInv
<1>4. CASE HandleBalanceChange
  <2>1. PICK l \in Line : filedb' = Append(filedb, l) /\ ~IsTicket(l)
    BY <1>4, ChangeStep DEF Line
  <2>2. UNCHANGED <<snapLog, natsSeq, latestSeq>> /\ pc = "work"
    BY <1>4 DEF HandleBalanceChange, Taking, tableVars
  <2>3. /\ Len(filedb) \in Nat /\ Len(filedb') = Len(filedb) + 1 /\ TicketLines' = TicketLines
        /\ \A i \in TicketLines : filedb'[i] = filedb[i] /\ i \in Nat /\ i <= Len(filedb)
    BY <2>1, LineAppended
  <2>4. \A i \in TicketLines : i <= Len(filedb')
    BY <2>3
  <2> QED
    BY <2>2, <2>3, <2>4 DEF SeqInv, LastSeqIs
<1>5. ASSUME NEW m, SavesTo(m) PROVE SeqInv'
  <2>1. LastSeqIs(m, natsSeq')
    BY <1>5, SeqRowIsLast
  <2>2. snapLog' = m /\ UNCHANGED <<filedb, pc, latestSeq>>
    BY <1>5 DEF SavesTo
  <2> QED
    BY <2>1, <2>2 DEF SeqInv, LastSeqIs, TicketLines
<1>6. CASE RollsBackLate
  BY <1>6 DEF RollsBackLate, SeqInv, LastSeqIs, TicketLines
<1> QED
  BY <1>1, <1>2, <1>3, <1>4, <1>5, <1>6, StepKinds

(* The invariants that hold whatever goes wrong. *)
CoreInv == TypeOK /\ KnownInv /\ RecoveryInv /\ SeqInv

LEMMA CoreCorrect == Spec => []CoreInv
<1>1. Init => CoreInv
  BY TypeInit, KnownInit, RecoveryInit, SeqInit DEF CoreInv
<1>2. CoreInv /\ [Next]_vars => CoreInv'
  BY TypeStep, KnownStep, RecoveryStep, SeqStep DEF CoreInv
<1> QED
  BY <1>1, <1>2, PTL DEF Spec

(* Whatever is dropped, overlooked, rolled back or torn, no request becomes two
   tickets or somebody else's, and none overtakes an earlier one. *)
THEOREM RequestsAtMostOnceCorrect == Spec => []RequestsAtMostOnce
<1>1. CoreInv => RequestsAtMostOnce
  <2> SUFFICES ASSUME CoreInv PROVE RequestsAtMostOnce
    OBVIOUS
  <2>1. \A i \in TicketLines :
            [owner |-> filedb[i].owner, total |-> filedb[i].total] = sent[filedb[i].seq]
    BY DEF CoreInv, KnownInv, LineKnown, TicketLines
  <2> QED
    BY <2>1 DEF CoreInv, SeqInv, RequestsAtMostOnce
<1> QED
  BY <1>1, CoreCorrect, PTL
=============================================================================
