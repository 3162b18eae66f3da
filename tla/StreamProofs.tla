---------------------------- MODULE StreamProofs ----------------------------
(***************************************************************************)
(* Nothing is left out of a bank's log: every request becomes the next     *)
(* ticket when no message is dropped and no failed write overlooked, the   *)
(* tickets are counted through when no INSERT is rolled back, and the      *)
(* balance changes are applied with none skipped when no failed write is   *)
(* overlooked.  Each theorem assumes the absence of just those faults that *)
(* break its property in the code.                                         *)
(***************************************************************************)
EXTENDS BankProofs

(* Moving along w.ch: what waited there still does, one place further on or
   where it was. *)
LEMMA TailChannel ==
    ASSUME TypeOK, ch # <<>>, ch' = Tail(ch)
    PROVE  /\ DOMAIN ch' = 1 .. Len(ch) - 1 /\ Len(ch') = Len(ch) - 1
           /\ \A k \in DOMAIN ch' : k + 1 \in DOMAIN ch /\ ch'[k] = ch[k + 1]
           /\ \A q \in Nat, n \in Nat :
                InChannel(q, n + 1) /\ ~(IsOrder(Head(ch)) /\ Head(ch).seq = q) => InChannel(q, n)'
           /\ \A k \in Nat, n \in Nat :
                Waiting(k, n + 1) /\ ~(IsChange(Head(ch)) /\ Head(ch).reason = k) => Waiting(k, n)'
<1>1. /\ DOMAIN ch = 1 .. Len(ch) /\ Len(ch) \in Nat /\ Head(ch) = ch[1]
      /\ DOMAIN ch' = 1 .. Len(ch) - 1 /\ Len(ch') = Len(ch) - 1
      /\ \A k \in 1 .. Len(ch) - 1 : ch'[k] = ch[k + 1]
  BY HeadTail, Shapes
<1>2. \A k \in DOMAIN ch : k # 1 => k - 1 \in DOMAIN ch' /\ ch'[k - 1] = ch[k]
  BY <1>1
<1>3. \A k \in DOMAIN ch' : k + 1 \in DOMAIN ch /\ ch'[k] = ch[k + 1]
  BY <1>1
<1>4. ASSUME NEW n \in Nat, NEW k \in DOMAIN ch, k < n + 1, k # 1
      PROVE  k - 1 \in DOMAIN ch' /\ k - 1 < n /\ ch'[k - 1] = ch[k]
  BY <1>1, <1>2, <1>4
<1>5. ASSUME NEW q \in Nat, NEW n \in Nat, InChannel(q, n + 1),
             ~(IsOrder(Head(ch)) /\ Head(ch).seq = q)
      PROVE  InChannel(q, n)'
  <2>1. PICK k \in DOMAIN ch : k < n + 1 /\ IsOrder(ch[k]) /\ ch[k].seq = q
    BY <1>5 DEF InChannel
  <2>2. k # 1
    BY <1>1, <1>5, <2>1
  <2> QED
    BY <1>4, <2>1, <2>2 DEF InChannel
<1>6. ASSUME NEW q \in Nat, NEW n \in Nat, Waiting(q, n + 1),
             ~(IsChange(Head(ch)) /\ Head(ch).reason = q)
      PROVE  Waiting(q, n)'
  <2>1. PICK k \in DOMAIN ch : k < n + 1 /\ IsChange(ch[k]) /\ ch[k].reason = q
    BY <1>6 DEF Waiting
  <2>2. k # 1
    BY <1>1, <1>6, <2>1
  <2> QED
    BY <1>4, <2>1, <2>2 DEF Waiting
<1> QED
  BY <1>1, <1>3, <1>5, <1>6

LEMMA AppendChannel ==
    ASSUME TypeOK, NEW m \in Message, ch' = Append(ch, m)
    PROVE  /\ DOMAIN ch' = 1 .. Len(ch) + 1 /\ Len(ch') = Len(ch) + 1 /\ Len(ch) \in Nat
           /\ DOMAIN ch = 1 .. Len(ch)
           /\ \A k \in DOMAIN ch : ch'[k] = ch[k]
           /\ ch'[Len(ch) + 1] = m
           /\ \A q, n : InChannel(q, n) => InChannel(q, n)'
           /\ \A k, n : Waiting(k, n) => Waiting(k, n)'
           /\ \A n \in Nat : n > Len(ch) + 1 /\ IsOrder(m) => InChannel(m.seq, n)'
           /\ \A n \in Nat : n > Len(ch) + 1 /\ IsChange(m) => Waiting(m.reason, n)'
<1>1. ch \in Seq(Message)
  BY DEF TypeOK, Message
<1>2. /\ DOMAIN ch' = 1 .. Len(ch) + 1 /\ Len(ch') = Len(ch) + 1 /\ Len(ch) \in Nat
      /\ DOMAIN ch = 1 .. Len(ch)
      /\ \A k \in DOMAIN ch : ch'[k] = ch[k]
      /\ ch'[Len(ch) + 1] = m
  BY <1>1, AppendShape
<1>3. \A k \in DOMAIN ch : k \in DOMAIN ch'
  BY <1>2
<1>4. \A q, n : InChannel(q, n) => InChannel(q, n)'
  BY <1>2, <1>3 DEF InChannel
<1>5. \A k, n : Waiting(k, n) => Waiting(k, n)'
  BY <1>2, <1>3 DEF Waiting
<1>6. Len(ch) + 1 \in DOMAIN ch'
  BY <1>2
<1>7. \A n \in Nat : n > Len(ch) + 1 /\ IsOrder(m) => InChannel(m.seq, n)'
  BY <1>2, <1>6 DEF InChannel
<1>8. \A n \in Nat : n > Len(ch) + 1 /\ IsChange(m) => Waiting(m.reason, n)'
  BY <1>2, <1>6 DEF Waiting
<1> QED
  BY <1>2, <1>4, <1>5, <1>7, <1>8

(* NATS only puts requests there, the stream the change after its last one. *)
LEMMA OrdersEnter ==
    ASSUME TypeOK, Nats
    PROVE  ch' = ch \/ \E m \in Message : ch' = Append(ch, m) /\ IsOrder(m)
<1>1. \A q \in Nat : [kind |-> "order", seq |-> q] \in Message /\ IsOrder([kind |-> "order", seq |-> q])
  BY DEF Message, OrderMsg, IsOrder
<1>2. CASE Deliver
  <2>1. delivered # Off /\ ch' = Append(ch, [kind |-> "order", seq |-> delivered + 1])
    BY <1>2 DEF Deliver, Enqueue
  <2>2. delivered \in Nat
    BY <2>1, Numbers
  <2>3. delivered + 1 \in Nat
    BY <2>2
  <2> QED
    BY <1>1, <2>1, <2>3
<1>3. ASSUME NEW q \in 1 .. Len(sent), Redeliver(q)
      PROVE  \E m \in Message : ch' = Append(ch, m) /\ IsOrder(m)
  <2>1. q \in Nat
    BY Numbers
  <2> QED
    BY <1>1, <1>3, <2>1 DEF Redeliver, Enqueue
<1>4. Subscribe \/ Drop \/ Ack => ch' = ch
  BY DEF Subscribe, Drop, Ack
<1> QED
  BY <1>2, <1>3, <1>4 DEF Nats

LEMMA ChangesEnter ==
    ASSUME TypeOK, PushChange
    PROVE  /\ session \in Nat
           /\ \E m \in Message : ch' = Append(ch, m) /\ IsChange(m) /\ m.reason = session + 1
<1>1. session \notin {Off, Stuck} /\ ch' = Append(ch, [kind |-> "change", reason |-> session + 1])
  BY DEF PushChange, Enqueue
<1>2. session \in Nat
  BY <1>1, Numbers
<1>3. session + 1 \in Nat
  BY <1>2
<1> QED
  BY <1>1, <1>2, <1>3 DEF Message, ChangeMsg, IsChange

-----------------------------------------------------------------------------
(* Counting the tickets. *)

(* The tickets of a prefix can be counted, and a batch adds its own. *)
LEMMA FirstTicketsCount ==
    ASSUME TypeOK
    PROVE  /\ \A n : IsFiniteSet(FirstTickets(n)) /\ Cardinality(FirstTickets(n)) \in Nat
           /\ IsFiniteSet(TicketLines) /\ Cardinality(TicketLines) \in Nat
           /\ FirstTickets(Len(filedb)) = TicketLines
           /\ \A i : Number(i) = Cardinality(FirstTickets(i))
<1>1. IsFiniteSet(1 .. Len(filedb)) /\ TicketLines \in SUBSET (1 .. Len(filedb)) /\ Len(filedb) \in Nat
  BY Shapes, FS_Interval DEF TicketLines
<1>2. IsFiniteSet(TicketLines)
  BY <1>1, FS_Subset
<1>3. \A n : FirstTickets(n) \in SUBSET TicketLines
  BY DEF FirstTickets
<1>4. \A n : IsFiniteSet(FirstTickets(n))
  BY <1>2, <1>3, FS_Subset
<1>5. FirstTickets(Len(filedb)) = TicketLines
  <2>1. \A i \in TicketLines : i <= Len(filedb)
    BY <1>1
  <2> QED
    BY <2>1 DEF FirstTickets
<1> QED
  BY <1>2, <1>4, <1>5, FS_CardinalityType DEF Number, FirstTickets

(* The number of a new ticket is the next one, and the others keep theirs. *)
LEMMA NumberOfNext ==
    ASSUME TypeOK, NEW l \in Line, filedb' = Append(filedb, l), NEW n, n = Len(filedb)
    PROVE  /\ \A m \in Nat : m <= n => FirstTickets(m)' = FirstTickets(m)
           /\ \A i \in TicketLines : Number(i)' = Number(i)
           /\ IsTicket(l) => /\ Number(n + 1)' = Cardinality(TicketLines) + 1
                             /\ Cardinality(TicketLines)' = Cardinality(TicketLines) + 1
<1>1. /\ n \in Nat /\ TicketLines \in SUBSET (1 .. n)
      /\ TicketLines' = IF IsTicket(l) THEN TicketLines \cup {n + 1} ELSE TicketLines
  BY LineAppended
<1>2. ASSUME NEW m \in Nat, m <= n PROVE FirstTickets(m)' = FirstTickets(m)
  <2>1. \A i \in TicketLines' : i <= m => i \in TicketLines
    BY <1>1, <1>2
  <2>2. \A i \in TicketLines : i \in TicketLines'
    BY <1>1
  <2> QED
    BY <2>1, <2>2 DEF FirstTickets
<1>3. ASSUME NEW i \in TicketLines PROVE Number(i)' = Number(i)
  <2>1. i \in Nat /\ i <= n
    BY <1>1
  <2>2. FirstTickets(i)' = FirstTickets(i)
    BY <1>2, <2>1
  <2> QED
    BY <2>2 DEF FirstTickets, Number
<1>4. ASSUME IsTicket(l)
      PROVE  /\ Number(n + 1)' = Cardinality(TicketLines) + 1
             /\ Cardinality(TicketLines)' = Cardinality(TicketLines) + 1
  <2>1. TicketLines' = TicketLines \cup {n + 1} /\ n + 1 \notin TicketLines
    BY <1>1, <1>4
  <2>2. {j \in TicketLines' : j <= n + 1} = TicketLines'
    <3>1. \A j \in TicketLines' : j <= n + 1
      BY <1>1, <2>1
    <3> QED
      BY <3>1
  <2>3. Cardinality(TicketLines') = Cardinality(TicketLines) + 1
    BY <2>1, FirstTicketsCount, FS_AddElement
  <2> QED
    BY <2>2, <2>3 DEF Number
<1> QED
  BY <1>2, <1>3, <1>4

LEMMA SameLog ==
    ASSUME filedb' = filedb
    PROVE  /\ TicketLines' = TicketLines /\ ChangeLines' = ChangeLines
           /\ \A n : Number(n)' = Number(n) /\ FirstTickets(n)' = FirstTickets(n)
<1>1. TicketLines' = TicketLines
  BY DEF TicketLines
<1> QED
  BY <1>1 DEF ChangeLines, Number, FirstTickets

(* The tickets of a batch are those of the longer prefix that MySQL had not. *)
LEMMA BatchCount ==
    ASSUME TypeOK, NEW m \in Nat, snapLog < m, m <= Len(filedb)
    PROVE  LET new == TicketsIn(snapLog + 1 .. m)
           IN  /\ IsFiniteSet(new) /\ Cardinality(new) \in Nat /\ new \in SUBSET TicketLines
               /\ FirstTickets(m) = FirstTickets(snapLog) \cup new
               /\ FirstTickets(snapLog) \cap new = {}
               /\ Cardinality(FirstTickets(m)) = Cardinality(FirstTickets(snapLog)) + Cardinality(new)
<1> DEFINE new == TicketsIn(snapLog + 1 .. m)
           old == FirstTickets(snapLog)
<1>1. /\ snapLog \in Nat /\ Len(filedb) \in Nat /\ DOMAIN filedb = 1 .. Len(filedb)
      /\ TicketLines \in SUBSET Nat
  BY Counts, Shapes DEF TicketLines
<1>2. snapLog + 1 .. m \in SUBSET DOMAIN filedb
  BY <1>1
<1>3. IsFiniteSet(new) /\ Cardinality(new) \in Nat
  BY <1>2, TicketCount
<1>4. new = {i \in TicketLines : snapLog < i /\ i <= m}
  <2>1. \A i : i \in snapLog + 1 .. m <=> i \in DOMAIN filedb /\ snapLog < i /\ i <= m
    BY <1>1
  <2> QED
    BY <2>1 DEF TicketsIn, TicketLines
<1>5. FirstTickets(m) = old \cup new /\ old \cap new = {}
  <2>1. \A i \in TicketLines : i <= m <=> (i <= snapLog \/ (snapLog < i /\ i <= m))
    BY <1>1
  <2>2. \A i \in TicketLines : ~(i <= snapLog /\ snapLog < i)
    BY <1>1
  <2> HIDE DEF new
  <2> QED
    BY <1>4, <2>1, <2>2 DEF FirstTickets
<1>6. IsFiniteSet(old) /\ Cardinality(old) \in Nat
  BY FirstTicketsCount
<1>7. Cardinality(FirstTickets(m)) = Cardinality(old) + Cardinality(new)
  <2> HIDE DEF new, old
  <2>1. Cardinality(old \cup new) = Cardinality(old) + Cardinality(new) - Cardinality(old \cap new)
    BY <1>3, <1>6, FS_Union
  <2>2. Cardinality(old \cap new) = 0
    BY <1>5, FS_EmptySet
  <2> QED
    BY <1>3, <1>5, <1>6, <2>1, <2>2
<1> QED
  BY <1>3, <1>4, <1>5, <1>7

LEMMA TicketIDsInit == Init => TicketIDsInv
<1> SUFFICES ASSUME Init PROVE TicketIDsInv
  OBVIOUS
<1>1. TicketLines = {} /\ FirstTickets(snapLog) = {}
  BY DEF Init, TicketLines, FirstTickets
<1>2. Cardinality({}) = 0
  BY FS_EmptySet
<1>3. DOMAIN tickets = {} /\ nextTicket = 1 /\ pc = "down" /\ 1 .. 0 = {}
  BY DEF Init
<1> QED
  BY <1>1, <1>2, <1>3 DEF TicketIDsInv, TicketIDsConsecutive

(* A restarted bank goes on counting where its log ends. *)
LEMMA TicketIDsStep ==
    ASSUME Without({"late"})
    PROVE  CoreInv /\ TicketIDsInv /\ [Next]_vars => TicketIDsInv'
<1> SUFFICES ASSUME CoreInv, TicketIDsInv, [Next]_vars PROVE TicketIDsInv'
  OBVIOUS
<1>0. TypeOK /\ KnownInv /\ RecoveryInv /\ SeqInv
  BY DEF CoreInv
<1>1. CASE Quiet
  <2>1. UNCHANGED <<filedb, snapLog, tickets, nextTicket>>
    BY <1>1 DEF Quiet, tableVars
  <2>2. pc' = "work" => pc = "work" /\ ticketID' = ticketID
    BY <1>1 DEF Quiet
  <2> QED
    BY <2>1, <2>2, SameLog DEF TicketIDsInv, TicketIDsConsecutive
<1>2. CASE LoadAllAssets
  <2>1. UNCHANGED <<filedb, snapLog, tickets, nextTicket>> /\ ticketID' = LastTicket
    BY <1>2 DEF LoadAllAssets, fileVars, tableVars
  <2>2. snapLog = Len(filedb)
    BY <1>0, <1>2 DEF LoadAllAssets, RecoveryInv
  <2> DEFINE c == Cardinality(TicketLines)
  <2>3. c \in Nat /\ DOMAIN tickets = 1 .. c
    BY <1>0, <2>2, FirstTicketsCount DEF TicketIDsInv
  <2> HIDE DEF c
  <2>4. LastTicket = c
    <3>1. CASE c = 0
      BY <2>3, <3>1 DEF LastTicket
    <3>2. CASE c # 0
      <4>1. 1 .. c # {} /\ 1 .. c \in SUBSET Nat /\ c \in 1 .. c /\ \A x \in 1 .. c : x <= c
        BY SMTT(30), <2>3, <3>2
      <4>2. Max(1 .. c) \in 1 .. c /\ \A x \in 1 .. c : x <= Max(1 .. c)
        BY <2>3, <4>1, MaxIsLargest
      <4>3. Max(1 .. c) = c
        BY <2>3, <4>1, <4>2
      <4> QED
        BY <2>3, <4>1, <4>3 DEF LastTicket
    <3> QED
      BY <3>1, <3>2
  <2> QED
    BY <2>1, <2>4, SameLog DEF TicketIDsInv, TicketIDsConsecutive, c
<1>3. CASE CreateOrder
  <2>1. PICK n : n = Len(filedb) /\ n \in Nat
    BY <1>0, Numbers
  <2>2. PICK l \in Line : filedb' = Append(filedb, l) /\ IsTicket(l) /\ l.id = ticketID + 1
    BY <1>0, <1>3, TicketStep DEF Line
  <2>3. /\ \A i \in 1 .. n : filedb'[i] = filedb[i]
        /\ filedb'[n + 1] = l /\ TicketLines \in SUBSET (1 .. n)
        /\ TicketLines' = TicketLines \cup {n + 1}
    BY <1>0, <2>1, <2>2, LineAppended
  <2>4. /\ \A m \in Nat : m <= n => FirstTickets(m)' = FirstTickets(m)
        /\ \A i \in TicketLines : Number(i)' = Number(i)
        /\ Number(n + 1)' = Cardinality(TicketLines) + 1
        /\ Cardinality(TicketLines)' = Cardinality(TicketLines) + 1
    BY <1>0, <2>1, <2>2, NumberOfNext
  <2>5. /\ UNCHANGED <<snapLog, tickets, nextTicket>> /\ ticketID' = ticketID + 1
        /\ ticketID = Cardinality(TicketLines)
    BY <1>3 DEF CreateOrder, Taking, TicketIDsInv, tableVars
  <2>6. FirstTickets(snapLog)' = FirstTickets(snapLog)
    <3>1. snapLog \in Nat /\ snapLog <= n
      BY <1>0, <2>1, Numbers DEF RecoveryInv
    <3>2. {i \in TicketLines' : i <= snapLog} = FirstTickets(snapLog)
      BY <2>4, <3>1 DEF FirstTickets
    <3> QED
      BY <2>5, <3>2 DEF FirstTickets
  <2>7. TicketIDsConsecutive'
    <3> SUFFICES ASSUME NEW i \in TicketLines' PROVE filedb'[i].id = Number(i)'
      BY DEF TicketIDsConsecutive
    <3>1. CASE i \in TicketLines
      BY <2>3, <2>4, <3>1 DEF TicketIDsInv, TicketIDsConsecutive
    <3>2. CASE i = n + 1
      BY <2>2, <2>3, <2>4, <2>5, <3>2
    <3> QED
      BY <2>3, <3>1, <3>2
  <2> QED
    BY <2>4, <2>5, <2>6, <2>7 DEF TicketIDsInv
<1>4. CASE HandleBalanceChange
  <2>1. PICK n : n = Len(filedb) /\ n \in Nat
    BY <1>0, Numbers
  <2>2. PICK l \in Line : filedb' = Append(filedb, l) /\ ~IsTicket(l)
    BY <1>0, <1>4, ChangeStep DEF Line
  <2>3. /\ \A i \in 1 .. n : filedb'[i] = filedb[i]
        /\ TicketLines \in SUBSET (1 .. n) /\ TicketLines' = TicketLines
    BY <1>0, <2>1, <2>2, LineAppended
  <2>4. \A i \in TicketLines : Number(i)' = Number(i)
    BY <1>0, <2>1, <2>2, NumberOfNext
  <2>5. /\ UNCHANGED <<snapLog, tickets, nextTicket, ticketID>> /\ pc = "work"
    BY <1>4 DEF HandleBalanceChange, Taking, tableVars
  <2>6. FirstTickets(snapLog)' = FirstTickets(snapLog)
    BY <2>3, <2>5 DEF FirstTickets
  <2>7. TicketIDsConsecutive'
    BY <2>3, <2>4 DEF TicketIDsInv, TicketIDsConsecutive
  <2> QED
    BY <2>3, <2>5, <2>6, <2>7 DEF TicketIDsInv
<1>5. ASSUME NEW m, SavesTo(m) PROVE TicketIDsInv'
  <2> DEFINE c == Cardinality(FirstTickets(snapLog))
             d == Cardinality(TicketsIn(snapLog + 1 .. m))
  <2>1. /\ m \in Nat /\ snapLog < m /\ m <= Len(filedb) /\ snapLog' = m
        /\ UNCHANGED <<filedb, pc, ticketID>>
        /\ DOMAIN tickets' = DOMAIN tickets \cup (nextTicket .. nextTicket + d - 1)
        /\ nextTicket' = nextTicket + d
    BY <1>5 DEF SavesTo, Save, TicketRows
  <2>2. c \in Nat /\ d \in Nat /\ Cardinality(FirstTickets(m)) = c + d
    BY <1>0, <2>1, BatchCount, FirstTicketsCount
  <2>3. DOMAIN tickets = 1 .. c /\ nextTicket = c + 1
    BY DEF TicketIDsInv
  <2> HIDE DEF c, d
  <2>4. DOMAIN tickets' = 1 .. c + d /\ nextTicket' = c + d + 1
    BY <2>1, <2>2, <2>3
  <2>5. FirstTickets(snapLog)' = FirstTickets(m)
    BY <2>1, SameLog DEF FirstTickets
  <2> QED
    BY <2>1, <2>2, <2>4, <2>5, SameLog DEF TicketIDsInv, TicketIDsConsecutive
<1>6. ~RollsBackLate
  BY DEF Without, RollsBackLate
<1> QED
  BY <1>0, <1>1, <1>2, <1>3, <1>4, <1>5, <1>6, StepKinds

(* Ticket ids go up by one, over any number of restarts, unless a transaction is
   rolled back after its INSERT into the ticket table. *)
THEOREM TicketIDsCorrect ==
    ASSUME Without({"late"})
    PROVE  Spec => []TicketIDsConsecutive
<1>1. Init => TicketIDsInv
  BY TicketIDsInit
<1>2. CoreInv /\ TicketIDsInv /\ [Next]_vars => TicketIDsInv'
  BY TicketIDsStep
<1>3. TicketIDsInv => TicketIDsConsecutive
  BY DEF TicketIDsInv
<1> QED
  BY <1>1, <1>2, <1>3, CoreCorrect, PTL DEF Spec

-----------------------------------------------------------------------------
(* The requests, in w.ch and in the log. *)

SeqIsNumber == \A i \in TicketLines : filedb[i].seq = Number(i)

(* What a ticket says of its request is known already. *)
LEMMA StreamParts ==
    KnownInv => (StreamInv <=> NoGapLogged /\ SeqIsNumber /\ InFlight)
<1> SUFFICES ASSUME KnownInv PROVE StreamInv <=> NoGapLogged /\ SeqIsNumber /\ InFlight
  OBVIOUS
<1>1. \A i \in TicketLines :
          [owner |-> filedb[i].owner, total |-> filedb[i].total] = sent[filedb[i].seq]
  BY DEF KnownInv, LineKnown, TicketLines
<1>2. RequestsOnceInOrder <=> SeqIsNumber
  BY <1>1 DEF RequestsOnceInOrder, SeqIsNumber
<1> QED
  BY <1>2 DEF StreamInv

(* The bank at work has as many tickets as it has seen requests, one of each. *)
LEMMA SeenAreLogged ==
    ASSUME CoreInv, NoGapLogged, SeqIsNumber, pc = "work"
    PROVE  /\ latestSeq = Cardinality(TicketLines)
           /\ \A q \in 1 .. latestSeq : \E i \in TicketLines : filedb[i].seq = q
<1>1. TypeOK /\ KnownInv /\ SeqInv /\ latestSeq \in Nat /\ Len(filedb) \in Nat
  BY Numbers DEF CoreInv
<1>2. /\ TicketLines \in SUBSET Nat /\ \A i \in TicketLines : i <= Len(filedb)
      /\ \A i \in TicketLines : filedb[i].seq \in Nat \ {0}
  BY <1>1, TicketSeqs
<1>3. LastSeqIs(Len(filedb), latestSeq)
  BY <1>1 DEF SeqInv
<1>4. CASE latestSeq = 0
  <2>1. TicketLines = {}
    BY <1>2, <1>3, <1>4 DEF LastSeqIs
  <2> QED
    BY <1>4, <2>1, FS_EmptySet
<1>5. CASE latestSeq # 0
  <2>1. PICK i \in TicketLines : filedb[i].seq = latestSeq
    BY <1>3, <1>5 DEF LastSeqIs
  <2>2. ASSUME NEW j \in TicketLines PROVE j <= i
    <3>1. filedb[j].seq <= latestSeq /\ filedb[j].seq \in Nat
      BY <1>2, <1>3 DEF LastSeqIs
    <3>2. i < j => filedb[i].seq < filedb[j].seq
      BY <1>1 DEF SeqInv
    <3> QED
      BY <1>1, <1>2, <2>1, <3>1, <3>2
  <2>3. {j \in TicketLines : j <= i} = TicketLines
    BY <2>2
  <2>4. latestSeq = Cardinality(TicketLines)
    BY <2>1, <2>3 DEF SeqIsNumber, Number
  <2>5. ASSUME NEW q \in 1 .. latestSeq PROVE \E j \in TicketLines : filedb[j].seq = q
    <3>1. q = latestSeq \/ q \in 1 .. filedb[i].seq - 1
      BY <1>1, <2>1
    <3> QED
      BY <2>1, <3>1 DEF NoGapLogged
  <2> QED
    BY <2>4, <2>5
<1> QED
  BY <1>4, <1>5

LEMMA Within ==
    ASSUME NEW a \in Nat, NEW b \in Nat, a <= b, NEW c \in Int, NEW q \in b + 1 .. c
    PROVE  q \in a + 1 .. c /\ q \in Nat /\ q > b
OBVIOUS

(* A message taken from w.ch leaves the others in their order, when it is a
   balance change or a request that has its ticket by now. *)
LEMMA InFlightTail ==
    ASSUME TypeOK, InFlight, ch # <<>>, ch' = Tail(ch),
           delivered' = delivered, acked' = acked,
           latestSeq' \in Nat, latestSeq' >= latestSeq, ackTo' <= latestSeq',
           IsOrder(Head(ch)) => Head(ch).seq <= latestSeq'
    PROVE  InFlight'
<1>1. /\ DOMAIN ch' = 1 .. Len(ch) - 1 /\ Len(ch') = Len(ch) - 1 /\ Len(ch) \in Nat
      /\ \A k \in DOMAIN ch' : k + 1 \in DOMAIN ch /\ ch'[k] = ch[k + 1] /\ ch[k + 1] \in Message
      /\ \A q \in Nat, n \in Nat :
            InChannel(q, n + 1) /\ ~(IsOrder(Head(ch)) /\ Head(ch).seq = q) => InChannel(q, n)'
  BY TailChannel, Shapes
<1>2. Len(ch) # 0 /\ latestSeq \in Nat /\ delivered \in Int /\ acked \in Nat /\ Head(ch) \in Message
  BY HeadTail, Shapes, Numbers
<1>3. ASSUME NEW q \in Nat, q > latestSeq', NEW n \in Nat, InChannel(q, n + 1)
      PROVE  InChannel(q, n)'
  <2>1. ~(IsOrder(Head(ch)) /\ Head(ch).seq = q)
    BY <1>2, <1>3, MessageShape
  <2> QED
    BY <1>1, <1>3, <2>1
<1>4. ASSUME NEW k \in DOMAIN ch', IsOrder(ch'[k])
      PROVE  /\ ch'[k].seq <= delivered'
             /\ \A q \in latestSeq' + 1 .. ch'[k].seq - 1 : InChannel(q, k)'
  <2>1. /\ k + 1 \in DOMAIN ch /\ ch'[k] = ch[k + 1] /\ k \in Nat
        /\ IsOrder(ch[k + 1]) /\ ch[k + 1].seq \in Nat
    BY <1>1, <1>4, MessageShape
  <2>2. ch[k + 1].seq <= delivered
        /\ \A q \in latestSeq + 1 .. ch[k + 1].seq - 1 : InChannel(q, k + 1)
    BY <2>1 DEF InFlight
  <2>3. ASSUME NEW q \in latestSeq' + 1 .. ch[k + 1].seq - 1 PROVE InChannel(q, k)'
    <3>0. ch[k + 1].seq - 1 \in Int
      BY <2>1
    <3>1. q \in latestSeq + 1 .. ch[k + 1].seq - 1 /\ q \in Nat /\ q > latestSeq'
      BY <1>2, <2>3, <3>0, Within
    <3> QED
      BY <1>3, <2>1, <2>2, <3>1
  <2> QED
    BY <2>1, <2>2, <2>3
<1>5. ASSUME NEW q \in latestSeq' + 1 .. delivered', NEW n, n = Len(ch) PROVE InChannel(q, n)'
  <2>1. q \in latestSeq + 1 .. delivered /\ q \in Nat /\ q > latestSeq'
    BY <1>2, Within
  <2> QED
    BY <1>1, <1>3, <1>5, <2>1 DEF InFlight
<1>6. ASSUME NEW q \in latestSeq' + 1 .. delivered' PROVE InChannel(q, Len(ch) + 1)'
  <2>1. PICK n : n = Len(ch)
    OBVIOUS
  <2>2. InChannel(q, n)'
    BY <1>5, <2>1
  <2>3. Len(ch') + 1 = n
    BY <1>1, <2>1
  <2> QED
    BY <2>2, <2>3 DEF InChannel
<1>7. acked' <= latestSeq'
  BY <1>2 DEF InFlight
<1> QED
  BY <1>4, <1>6, <1>7 DEF InFlight

(* So does a message that is put into it. *)
LEMMA InFlightAppend ==
    ASSUME TypeOK, InFlight, NEW m \in Message, ch' = Append(ch, m),
           delivered' \in {delivered, delivered + 1},
           delivered' = delivered + 1 => IsOrder(m) /\ m.seq = delivered + 1,
           IsOrder(m) => m.seq <= delivered',
           UNCHANGED <<latestSeq, acked, ackTo>>
    PROVE  InFlight'
<1>1. /\ DOMAIN ch' = 1 .. Len(ch) + 1 /\ Len(ch') = Len(ch) + 1 /\ Len(ch) \in Nat
      /\ DOMAIN ch = 1 .. Len(ch)
      /\ \A k \in DOMAIN ch : ch'[k] = ch[k] /\ ch[k] \in Message
      /\ ch'[Len(ch) + 1] = m
      /\ \A q, n : InChannel(q, n) => InChannel(q, n)'
      /\ \A n \in Nat : n > Len(ch) + 1 /\ IsOrder(m) => InChannel(m.seq, n)'
  BY AppendChannel, Shapes
<1>2. latestSeq \in Nat /\ delivered \in Int /\ (IsOrder(m) => m.seq \in Nat)
  BY Numbers, MessageShape
<1>3. ASSUME NEW n, n = Len(ch) + 1, NEW q \in latestSeq + 1 .. delivered PROVE InChannel(q, n)'
  BY <1>1, <1>3 DEF InFlight
<1>4. ASSUME NEW k \in DOMAIN ch', IsOrder(ch'[k])
      PROVE  /\ ch'[k].seq <= delivered'
             /\ \A q \in latestSeq' + 1 .. ch'[k].seq - 1 : InChannel(q, k)'
  <2>1. CASE k \in DOMAIN ch
    <3>1. ch'[k] = ch[k] /\ ch[k].seq \in Nat
      BY <1>1, <1>4, <2>1, MessageShape
    <3>2. ch[k].seq <= delivered /\ \A q \in latestSeq + 1 .. ch[k].seq - 1 : InChannel(q, k)
      BY <1>4, <2>1, <3>1 DEF InFlight
    <3> QED
      BY <1>1, <1>2, <3>1, <3>2
  <2>2. CASE k = Len(ch) + 1
    <3>1. ch'[k] = m /\ m.seq <= delivered' /\ m.seq <= delivered + 1
      BY <1>1, <1>2, <1>4, <2>2
    <3>2. \A q \in latestSeq' + 1 .. m.seq - 1 : q \in latestSeq + 1 .. delivered
      BY <1>2, <1>4, <3>1
    <3> QED
      BY <1>3, <2>2, <3>1, <3>2
  <2> QED
    BY <1>1, <2>1, <2>2
<1>5. ASSUME NEW q \in latestSeq' + 1 .. delivered', NEW n, n = Len(ch) + 2 PROVE InChannel(q, n)'
  <2>1. CASE q \in latestSeq + 1 .. delivered
    <3>1. PICK k \in DOMAIN ch : k < Len(ch) + 1 /\ IsOrder(ch[k]) /\ ch[k].seq = q
      BY <2>1 DEF InFlight, InChannel
    <3>2. k < n /\ k \in DOMAIN ch' /\ ch'[k] = ch[k]
      BY <1>1, <1>5, <3>1
    <3> QED
      BY <3>1, <3>2 DEF InChannel
  <2>2. CASE q = delivered + 1
    <3>1. delivered' = delivered + 1
      BY <1>2, <2>2
    <3>2. n \in Nat /\ n > Len(ch) + 1
      BY <1>1, <1>5
    <3> QED
      BY <1>1, <2>2, <3>1, <3>2
  <2> QED
    BY <1>2, <2>1, <2>2
<1>6. ASSUME NEW q \in latestSeq' + 1 .. delivered' PROVE InChannel(q, Len(ch) + 1)'
  <2>1. PICK n : n = Len(ch) + 2
    OBVIOUS
  <2>2. InChannel(q, n)' /\ Len(ch') + 1 = n
    BY <1>1, <1>5, <2>1
  <2> QED
    BY <2>2 DEF InChannel
<1> QED
  BY <1>4, <1>6 DEF InFlight

(* The request that becomes a ticket is the next one: any other before it would
   still wait in front of the first place. *)
LEMMA HeadIsNext ==
    ASSUME TypeOK, KnownInv, InFlight, CreateOrder
    PROVE  Head(ch).seq = latestSeq + 1
<1>1. /\ Head(ch).seq \in Nat /\ Head(ch).seq > latestSeq /\ latestSeq \in Nat
      /\ ch # <<>> /\ IsOrder(Head(ch))
  BY TicketStep, Numbers DEF CreateOrder, Taking, IsOrder
<1>2. Head(ch) = ch[1] /\ 1 \in DOMAIN ch
  BY <1>1, HeadTail
<1>3. \A q \in latestSeq + 1 .. Head(ch).seq - 1 : InChannel(q, 1)
  BY <1>1, <1>2 DEF InFlight
<1>4. \A k \in DOMAIN ch : ~(k < 1)
  BY Shapes
<1>5. \A q : ~InChannel(q, 1)
  BY <1>4 DEF InChannel
<1>6. ~(latestSeq + 1 \in latestSeq + 1 .. Head(ch).seq - 1)
  BY <1>3, <1>5
<1> QED
  BY <1>1, <1>6

(* The log gets the next request, or no request at all. *)
LEMMA StreamLog ==
    CoreInv /\ NoGapLogged /\ SeqIsNumber /\ InFlight /\ [Next]_vars
        => NoGapLogged' /\ SeqIsNumber'
<1> SUFFICES ASSUME CoreInv, NoGapLogged, SeqIsNumber, InFlight, [Next]_vars
             PROVE  NoGapLogged' /\ SeqIsNumber'
  OBVIOUS
<1>0. TypeOK /\ KnownInv /\ RecoveryInv /\ SeqInv
  BY DEF CoreInv
<1>1. CASE filedb' = filedb
  BY <1>1, SameLog DEF NoGapLogged, SeqIsNumber
<1>2. CASE CreateOrder
  <2>1. PICK n : n = Len(filedb) /\ n \in Nat
    BY <1>0, Numbers
  <2>2. PICK l \in Line : filedb' = Append(filedb, l) /\ IsTicket(l) /\ l.seq = latestSeq + 1
    BY <1>0, <1>2, TicketStep, HeadIsNext DEF Line
  <2>3. /\ \A i \in 1 .. n : filedb'[i] = filedb[i]
        /\ filedb'[n + 1] = l /\ TicketLines \in SUBSET (1 .. n)
        /\ TicketLines' = TicketLines \cup {n + 1}
    BY <1>0, <2>1, <2>2, LineAppended
  <2>4. /\ \A i \in TicketLines : Number(i)' = Number(i)
        /\ Number(n + 1)' = Cardinality(TicketLines) + 1
    BY <1>0, <2>1, <2>2, NumberOfNext
  <2>5. /\ latestSeq = Cardinality(TicketLines) /\ latestSeq \in Nat
        /\ \A q \in 1 .. latestSeq : \E i \in TicketLines : filedb[i].seq = q
    BY <1>0, <1>2, SeenAreLogged, Numbers DEF CreateOrder, Taking
  <2>6. \A i \in TicketLines : filedb'[i] = filedb[i] /\ i \in TicketLines'
    BY <2>3
  <2>7. SeqIsNumber'
    <3> SUFFICES ASSUME NEW i \in TicketLines' PROVE filedb'[i].seq = Number(i)'
      BY DEF SeqIsNumber
    <3>1. CASE i \in TicketLines
      BY <2>4, <2>6, <3>1 DEF SeqIsNumber
    <3>2. CASE i = n + 1
      BY <2>2, <2>3, <2>4, <2>5, <3>2
    <3> QED
      BY <2>3, <3>1, <3>2
  <2>8. NoGapLogged'
    <3> SUFFICES ASSUME NEW i \in TicketLines', NEW q \in 1 .. filedb'[i].seq - 1
                 PROVE  \E j \in TicketLines' : filedb'[j].seq = q
      BY DEF NoGapLogged
    <3>1. CASE i \in TicketLines
      BY <2>6, <3>1 DEF NoGapLogged
    <3>2. CASE i = n + 1
      <4>1. filedb'[i].seq = latestSeq + 1
        BY <2>2, <2>3, <3>2
      <4>2. q \in 1 .. latestSeq
        BY <2>5, <4>1
      <4> QED
        BY <2>5, <2>6, <4>2
    <3> QED
      BY <2>3, <3>1, <3>2
  <2> QED
    BY <2>7, <2>8
<1>3. CASE HandleBalanceChange
  <2>1. PICK n : n = Len(filedb) /\ n \in Nat
    BY <1>0, Numbers
  <2>2. PICK l \in Line : filedb' = Append(filedb, l) /\ ~IsTicket(l)
    BY <1>0, <1>3, ChangeStep DEF Line
  <2>3. /\ \A i \in 1 .. n : filedb'[i] = filedb[i]
        /\ TicketLines \in SUBSET (1 .. n) /\ TicketLines' = TicketLines
    BY <1>0, <2>1, <2>2, LineAppended
  <2>4. \A i \in TicketLines : Number(i)' = Number(i) /\ filedb'[i] = filedb[i]
    BY <1>0, <2>1, <2>2, <2>3, NumberOfNext
  <2> QED
    BY <2>3, <2>4 DEF NoGapLogged, SeqIsNumber
<1>4. Quiet \/ LoadAllAssets \/ (\E m : SavesTo(m)) \/ RollsBackLate => filedb' = filedb
  BY DEF Quiet, LoadAllAssets, SavesTo, RollsBackLate, fileVars
<1> QED
  BY <1>0, <1>1, <1>2, <1>3, <1>4, StepKinds

LEMMA StreamInit == Init => NoGapLogged /\ SeqIsNumber /\ InFlight
BY DEF Init, NoGapLogged, SeqIsNumber, InFlight, TicketLines, Off

(* Nothing but a drop or an overlooked write error leaves a gap in w.ch. *)
LEMMA InFlightStep ==
    ASSUME Without({"drop", "swallow"})
    PROVE  TypeOK /\ TypeOK' /\ KnownInv /\ RecoveryInv /\ InFlight /\ [Next]_vars => InFlight'
<1> SUFFICES ASSUME TypeOK, TypeOK', KnownInv, RecoveryInv, InFlight, [Next]_vars PROVE InFlight'
  OBVIOUS
<1>0. latestSeq \in Nat /\ latestSeq' \in Nat /\ acked \in Nat /\ ackTo \in Nat
  BY Numbers, NumbersNext
<1>1. ASSUME UNCHANGED <<ch, delivered, latestSeq, acked, ackTo>> PROVE InFlight'
  BY <1>1 DEF InFlight, InChannel
<1>2. ASSUME ch' = <<>>, delivered' = Off, acked' = 0, ackTo' = 0 PROVE InFlight'
  <2>1. \A n \in Nat : 0 <= n /\ \A q \in n + 1 .. -1 : FALSE
    OBVIOUS
  <2>2. 0 <= latestSeq' /\ \A q \in latestSeq' + 1 .. Off : FALSE
    BY <1>0, <2>1 DEF Off
  <2> QED
    BY <1>2, <2>2 DEF InFlight
<1>3. pc # "work" => ch = <<>> /\ delivered = Off /\ acked = 0 /\ ackTo = 0
  BY DEF RecoveryInv
<1>4. ASSUME NEW r \in Requests, Publish(r) PROVE InFlight'
  BY <1>1, <1>4 DEF Publish, memVars
<1>5. ASSUME NEW o \in Owners, NEW p \in Owners, Trade(o, p) PROVE InFlight'
  BY <1>1, <1>5 DEF Trade, natsVars, memVars
<1>6. CASE Start \/ WaitForFiledb \/ LoadAllAssets
  BY <1>2, <1>3, <1>6 DEF Start, WaitForFiledb, LoadAllAssets, natsVars
<1>7. CASE SkipSeen
  <2>1. /\ ch # <<>> /\ ch' = Tail(ch) /\ Head(ch).seq <= latestSeq
        /\ ackTo' = Later(ackTo, Head(ch).seq)
        /\ UNCHANGED <<delivered, acked, latestSeq>>
    BY <1>7 DEF SkipSeen, Taking, Seen, natsVars, memVars
  <2>2. ackTo' <= latestSeq
    BY <2>1 DEF Later, InFlight
  <2>3. latestSeq' >= latestSeq /\ ackTo' <= latestSeq' /\ Head(ch).seq <= latestSeq'
    BY <1>0, <2>1, <2>2
  <2> QED
    BY <1>0, <2>1, <2>3, InFlightTail
<1>8. CASE CreateOrder
  <2>1. /\ ch # <<>> /\ ch' = Tail(ch) /\ latestSeq' = Head(ch).seq
        /\ ackTo' = Later(ackTo, Head(ch).seq)
        /\ UNCHANGED <<delivered, acked>>
    BY <1>8 DEF CreateOrder, Taking, natsVars
  <2>2. latestSeq' = latestSeq + 1 /\ Head(ch).seq = latestSeq'
    BY <1>8, <2>1, HeadIsNext
  <2>3. ackTo <= latestSeq
    BY DEF InFlight
  <2>4. latestSeq' >= latestSeq /\ ackTo' <= latestSeq' /\ Head(ch).seq <= latestSeq'
    BY <1>0, <2>1, <2>2, <2>3 DEF Later
  <2> QED
    BY <1>0, <2>1, <2>4, InFlightTail
<1>9. CASE HandleBalanceChange
  <2>1. /\ ch # <<>> /\ ch' = Tail(ch) /\ IsChange(Head(ch))
        /\ UNCHANGED <<delivered, acked, ackTo, latestSeq>>
    BY <1>9 DEF HandleBalanceChange, Taking, IsChange, natsVars
  <2>2. ~IsOrder(Head(ch))
    BY <2>1, HeadTail, MessageShape
  <2>3. latestSeq' >= latestSeq /\ ackTo' <= latestSeq'
    BY <1>0, <2>1 DEF InFlight
  <2> QED
    BY <1>0, <2>1, <2>2, <2>3, InFlightTail
<1>10. CASE Subscribe
  <2>1. /\ delivered = Off /\ delivered' = latestSeq /\ acked' = latestSeq
        /\ UNCHANGED <<ch, latestSeq, ackTo>>
    BY <1>10 DEF Subscribe, memVars
  <2>2. \A k \in DOMAIN ch : ~IsOrder(ch[k])
    BY <2>1, Shapes, MessageShape DEF RecoveryInv
  <2>3. latestSeq' + 1 .. delivered' = {} /\ acked' <= latestSeq' /\ ackTo' <= latestSeq'
    BY <1>0, <2>1 DEF InFlight
  <2> QED
    BY <2>1, <2>2, <2>3 DEF InFlight
<1>11. CASE Deliver
  <2> DEFINE m == [kind |-> "order", seq |-> delivered + 1]
  <2>1. ch' = Append(ch, m) /\ delivered' = delivered + 1 /\ UNCHANGED <<latestSeq, acked, ackTo>>
    BY <1>11 DEF Deliver, Enqueue, memVars
  <2>2. delivered + 1 \in Nat
    <3>1. delivered # Off
      BY <1>11 DEF Deliver
    <3>2. delivered \in Nat
      BY <3>1, Numbers
    <3> QED
      BY <3>2
  <2>3. m \in Message /\ IsOrder(m) /\ m.seq = delivered + 1
    BY <2>2 DEF Message, OrderMsg, IsOrder
  <2> HIDE DEF m
  <2>4. m.seq <= delivered'
    BY <2>1, <2>2, <2>3
  <2> QED
    BY <2>1, <2>3, <2>4, InFlightAppend
<1>12. ~Drop /\ ~WriteErrorSwallowed
  BY DEF Without, Drop, WriteErrorSwallowed, Fault
<1>13. CASE Ack
  <2>1. acked' = ackTo /\ UNCHANGED <<ch, delivered, latestSeq, ackTo>>
    BY <1>13 DEF Ack, memVars
  <2> QED
    BY <2>1 DEF InFlight, InChannel
<1>14. ASSUME NEW q \in 1 .. Len(sent), Redeliver(q) PROVE InFlight'
  <2> DEFINE m == [kind |-> "order", seq |-> q]
  <2>1. /\ ch' = Append(ch, m) /\ UNCHANGED <<delivered, latestSeq, acked, ackTo>>
        /\ q \in acked + 1 .. delivered
    BY <1>14 DEF Redeliver, Enqueue, natsVars, memVars
  <2>2. q \in Nat /\ q <= delivered /\ delivered \in Int
    BY <1>0, <2>1, Numbers
  <2>3. m \in Message /\ IsOrder(m) /\ m.seq = q
    BY <2>2 DEF Message, OrderMsg, IsOrder
  <2> HIDE DEF m
  <2>4. m.seq <= delivered' /\ delivered' # delivered + 1
    BY <2>1, <2>2, <2>3
  <2> QED
    BY <2>1, <2>3, <2>4, InFlightAppend
<1>15. CASE OpenSession \/ OmeRestart
  BY <1>1, <1>15 DEF OpenSession, OmeRestart, natsVars, memVars
<1>16. CASE PushChange
  <2> DEFINE m == [kind |-> "change", reason |-> session + 1]
  <2>1. ch' = Append(ch, m) /\ UNCHANGED <<delivered, latestSeq, acked, ackTo>>
    BY <1>16 DEF PushChange, Enqueue, natsVars, memVars
  <2>2. session + 1 \in Nat /\ delivered \in Int
    <3>1. session \notin {Off, Stuck}
      BY <1>16 DEF PushChange
    <3>2. session \in Nat /\ delivered \in Int
      BY <3>1, Numbers
    <3> QED
      BY <3>2
  <2>3. m \in Message /\ ~IsOrder(m)
    BY <2>2 DEF Message, ChangeMsg, IsOrder
  <2> HIDE DEF m
  <2>4. delivered' # delivered + 1
    BY <2>1, <2>2
  <2> QED
    BY <2>1, <2>3, <2>4, InFlightAppend
<1>17. CASE Writer
  BY <1>1, <1>17 DEF Writer, WriterRound, WriterSkips, WriterSaves, WriterFails, natsVars, memVars
<1>18. CASE Crash \/ CrashInWrite
  BY <1>2, <1>18 DEF Crash, CrashInWrite, Halt, Broken
<1>19. CASE UNCHANGED vars
  BY <1>1, <1>19 DEF vars, natsVars, memVars
<1> QED
  BY <1>4, <1>5, <1>6, <1>7, <1>8, <1>9, <1>10, <1>11, <1>12, <1>13, <1>14, <1>15, <1>16, <1>17,
     <1>18, <1>19
  DEF Next, Main, Nats, Settlement

LEMMA StreamCorrect ==
    ASSUME Without({"drop", "swallow"})
    PROVE  Spec => [](CoreInv /\ NoGapLogged /\ SeqIsNumber /\ InFlight)
<1>1. CoreInv /\ NoGapLogged /\ SeqIsNumber /\ InFlight /\ [Next]_vars /\ CoreInv'
        => NoGapLogged' /\ SeqIsNumber' /\ InFlight'
  BY StreamLog, InFlightStep DEF CoreInv
<1> QED
  BY <1>1, StreamInit, CoreCorrect, PTL DEF Spec

(* Over crashes, restarts and redeliveries, every request of the stream becomes
   one ticket, in the order of the stream, as long as NATS drops no message and
   the main thread overlooks no failed write. *)
THEOREM RequestsOnceInOrderCorrect ==
    ASSUME Without({"drop", "swallow"})
    PROVE  Spec => []RequestsOnceInOrder
<1>1. CoreInv /\ NoGapLogged /\ SeqIsNumber /\ InFlight => RequestsOnceInOrder
  BY StreamParts DEF CoreInv, StreamInv
<1> QED
  BY <1>1, StreamCorrect, PTL

(* Under the same conditions a request that NATS may forget has its ticket. *)
THEOREM AckedIsLoggedCorrect ==
    ASSUME Without({"drop", "swallow"})
    PROVE  Spec => []AckedIsLogged
<1>1. CoreInv /\ NoGapLogged /\ SeqIsNumber /\ InFlight => AckedIsLogged
  <2> SUFFICES ASSUME CoreInv, NoGapLogged, SeqIsNumber, InFlight, NEW q \in 1 .. acked
               PROVE  \E i \in TicketLines : filedb[i].seq = q
    BY DEF AckedIsLogged
  <2>1. acked \in Nat /\ latestSeq \in Nat /\ acked <= latestSeq
    BY Numbers DEF CoreInv, InFlight
  <2>2. q \in 1 .. latestSeq /\ acked # 0
    BY <2>1
  <2>3. pc = "work"
    BY <2>2 DEF CoreInv, RecoveryInv
  <2> QED
    BY <2>2, <2>3, SeenAreLogged
<1> QED
  BY <1>1, StreamCorrect, PTL

-----------------------------------------------------------------------------
(* The balance changes, in w.ch and in the log. *)

(* The change at the head of w.ch is no longer owed an earlier one. *)
LEMMA EarlierApplied ==
    ASSUME TypeOK, Owed, ch # <<>>, IsChange(Head(ch))
    PROVE  \A k \in 1 .. Head(ch).reason - 1 : Applied(k)
<1>1. Head(ch) = ch[1] /\ 1 \in DOMAIN ch
  BY HeadTail
<1>2. \A k : ~Waiting(k, 1)
  <2>1. \A m \in DOMAIN ch : ~(m < 1)
    BY Shapes
  <2> QED
    BY <2>1 DEF Waiting
<1> QED
  BY <1>1, <1>2 DEF Owed

(* What has been applied stays in the log. *)
LEMMA AppliedKept ==
    ASSUME TypeOK, filedb' = filedb \/ \E l \in Line : filedb' = Append(filedb, l)
    PROVE  \A k : Applied(k) => Applied(k)'
<1>1. CASE filedb' = filedb
  BY <1>1, SameLog DEF Applied
<1>2. CASE \E l \in Line : filedb' = Append(filedb, l)
  <2>1. PICK l \in Line : filedb' = Append(filedb, l)
    BY <1>2
  <2>2. \A i \in ChangeLines : i \in ChangeLines' /\ filedb'[i] = filedb[i]
    BY <2>1, LineAppended
  <2> QED
    BY <2>2 DEF Applied
<1> QED
  BY <1>1, <1>2

(* A message taken from w.ch, when it is a request or a change applied by now. *)
LEMMA OwedTail ==
    ASSUME TypeOK, Owed, ch # <<>>, ch' = Tail(ch), session' = session,
           \A k : Applied(k) => Applied(k)',
           NEW d, IsChange(Head(ch)) => d = Head(ch).reason /\ Applied(d)',
           \A k \in 1 .. reasonID' : Applied(k)'
    PROVE  Owed'
<1>1. /\ DOMAIN ch' = 1 .. Len(ch) - 1 /\ Len(ch') = Len(ch) - 1 /\ Len(ch) \in Nat
      /\ \A n \in DOMAIN ch' : n + 1 \in DOMAIN ch /\ ch'[n] = ch[n + 1] /\ ch[n + 1] \in Message
      /\ \A k \in Nat, n \in Nat :
            Waiting(k, n + 1) /\ ~(IsChange(Head(ch)) /\ Head(ch).reason = k) => Waiting(k, n)'
  BY TailChannel, Shapes
<1>2. Len(ch) # 0 /\ session \in Int
  BY HeadTail, Shapes, Numbers
<1>3. ASSUME NEW k \in Nat, NEW n \in Nat, Applied(k) \/ Waiting(k, n + 1)
      PROVE  Applied(k)' \/ Waiting(k, n)'
  <2>1. CASE Applied(k)
    BY <2>1
  <2>2. CASE IsChange(Head(ch)) /\ Head(ch).reason = k
    BY <2>2
  <2>3. CASE Waiting(k, n + 1) /\ ~(IsChange(Head(ch)) /\ Head(ch).reason = k)
    BY <1>1, <2>3
  <2> QED
    BY <1>3, <2>1, <2>2, <2>3
<1>4. ASSUME NEW n \in DOMAIN ch', IsChange(ch'[n]), NEW k \in 1 .. ch'[n].reason - 1
      PROVE  Applied(k)' \/ Waiting(k, n)'
  <2>1. /\ n + 1 \in DOMAIN ch /\ ch'[n] = ch[n + 1] /\ n \in Nat
        /\ IsChange(ch[n + 1]) /\ k \in 1 .. ch[n + 1].reason - 1
    BY <1>1, <1>4
  <2>2. Applied(k) \/ Waiting(k, n + 1)
    BY <2>1 DEF Owed
  <2>3. k \in Nat
    BY <2>1
  <2> QED
    BY <1>3, <2>1, <2>2, <2>3
<1>5. ASSUME NEW k \in 1 .. session', NEW n, n = Len(ch) PROVE Applied(k)' \/ Waiting(k, n)'
  <2>1. k \in 1 .. session /\ k \in Nat
    OBVIOUS
  <2> QED
    BY <1>1, <1>3, <1>5, <2>1 DEF Owed
<1>6. ASSUME NEW k \in 1 .. session' PROVE Applied(k)' \/ Waiting(k, Len(ch) + 1)'
  <2>1. PICK n : n = Len(ch)
    OBVIOUS
  <2>2. Applied(k)' \/ Waiting(k, n)'
    BY <1>5, <2>1
  <2>3. Len(ch') + 1 = n
    BY <1>1, <2>1
  <2> QED
    BY <2>2, <2>3 DEF Waiting
<1> QED
  BY <1>4, <1>6 DEF Owed

(* And one put into it, the change after the last one told of. *)
LEMMA OwedAppend ==
    ASSUME TypeOK, Owed, NEW m \in Message, ch' = Append(ch, m),
           UNCHANGED <<filedb, reasonID>>,
           session' = session \/ (session' = session + 1 /\ session \in Nat),
           session' = session + 1 <=> IsChange(m),
           IsChange(m) => m.reason = session + 1
    PROVE  Owed'
<1>1. /\ DOMAIN ch' = 1 .. Len(ch) + 1 /\ Len(ch') = Len(ch) + 1 /\ Len(ch) \in Nat
      /\ DOMAIN ch = 1 .. Len(ch)
      /\ \A k \in DOMAIN ch : ch'[k] = ch[k] /\ ch[k] \in Message
      /\ ch'[Len(ch) + 1] = m
      /\ \A k, n : Waiting(k, n) => Waiting(k, n)'
      /\ \A n \in Nat : n > Len(ch) + 1 /\ IsChange(m) => Waiting(m.reason, n)'
  BY AppendChannel, Shapes
<1>2. session \in Int
  BY Numbers
<1>3. \A k : Applied(k) => Applied(k)'
  BY AppliedKept
<1>4. ASSUME NEW n, n = Len(ch) + 1, NEW k \in 1 .. session PROVE Applied(k)' \/ Waiting(k, n)'
  BY <1>1, <1>3, <1>4 DEF Owed
<1>5. ASSUME NEW n \in DOMAIN ch', IsChange(ch'[n]), NEW k \in 1 .. ch'[n].reason - 1
      PROVE  Applied(k)' \/ Waiting(k, n)'
  <2>1. CASE n \in DOMAIN ch
    <3>1. IsChange(ch[n]) /\ k \in 1 .. ch[n].reason - 1
      BY <1>1, <1>5, <2>1
    <3> QED
      BY <1>1, <1>3, <2>1, <3>1 DEF Owed
  <2>2. CASE n = Len(ch) + 1
    <3>1. IsChange(m) /\ m.reason = session + 1
      BY <1>1, <1>5, <2>2
    <3>2. k \in 1 .. session
      BY <1>1, <1>2, <2>2, <3>1
    <3> QED
      BY <1>4, <2>2, <3>2
  <2> QED
    BY <1>1, <2>1, <2>2
<1>6. ASSUME NEW k \in 1 .. session', NEW n, n = Len(ch) + 2 PROVE Applied(k)' \/ Waiting(k, n)'
  <2>1. CASE k \in 1 .. session
    <3>1. CASE Applied(k)
      BY <1>3, <3>1
    <3>2. CASE Waiting(k, Len(ch) + 1)
      <4>1. PICK i \in DOMAIN ch : i < Len(ch) + 1 /\ IsChange(ch[i]) /\ ch[i].reason = k
        BY <3>2 DEF Waiting
      <4>2. i < n /\ i \in DOMAIN ch' /\ ch'[i] = ch[i]
        BY <1>1, <1>6, <4>1
      <4> QED
        BY <4>1, <4>2 DEF Waiting
    <3> QED
      BY <2>1, <3>1, <3>2 DEF Owed
  <2>2. CASE k = session + 1 /\ session' = session + 1
    <3>1. n \in Nat /\ n > Len(ch) + 1
      BY <1>1, <1>6
    <3> QED
      BY <1>1, <2>2, <3>1
  <2> QED
    BY <1>2, <2>1, <2>2
<1>7. ASSUME NEW k \in 1 .. session' PROVE Applied(k)' \/ Waiting(k, Len(ch) + 1)'
  <2>1. PICK n : n = Len(ch) + 2
    OBVIOUS
  <2>2. Applied(k)' \/ Waiting(k, n)'
    BY <1>6, <2>1
  <2>3. Len(ch') + 1 = n
    BY <1>1, <2>1
  <2> QED
    BY <2>2, <2>3 DEF Waiting
<1>8. \A k \in 1 .. reasonID' : Applied(k)'
  BY <1>3 DEF Owed
<1> QED
  BY <1>5, <1>7, <1>8 DEF Owed

LEMMA SettlementInit == Init => SettledInOrder /\ Owed
BY DEF Init, SettledInOrder, Owed, ChangeLines, TicketLines, Off

(* The log gets the next change, or one it has already, or none. *)
LEMMA SettledStep ==
    CoreInv /\ SettledInOrder /\ Owed /\ [Next]_vars => SettledInOrder'
<1> SUFFICES ASSUME CoreInv, SettledInOrder, Owed, [Next]_vars PROVE SettledInOrder'
  OBVIOUS
<1>0. TypeOK /\ KnownInv /\ RecoveryInv
  BY DEF CoreInv
<1>1. CASE filedb' = filedb
  BY <1>1, SameLog DEF SettledInOrder
<1>2. CASE CreateOrder
  <2>1. PICK l \in Line : filedb' = Append(filedb, l) /\ IsTicket(l)
    BY <1>0, <1>2, TicketStep DEF Line
  <2>2. ChangeLines' = ChangeLines /\ \A i \in ChangeLines : filedb'[i] = filedb[i]
    BY <1>0, <2>1, LineAppended
  <2> QED
    BY <2>2 DEF SettledInOrder
<1>3. CASE HandleBalanceChange
  <2>1. PICK n : n = Len(filedb) /\ n \in Nat
    BY <1>0, Numbers
  <2>2. PICK l \in Line : filedb' = Append(filedb, l) /\ ~IsTicket(l) /\ l.reason = Head(ch).reason
    BY <1>0, <1>3, ChangeStep DEF Line
  <2>3. /\ \A i \in 1 .. n : filedb'[i] = filedb[i]
        /\ filedb'[n + 1] = l /\ ChangeLines \in SUBSET (1 .. n)
        /\ ChangeLines' = ChangeLines \cup {n + 1}
    BY <1>0, <2>1, <2>2, LineAppended
  <2>4. ch # <<>> /\ IsChange(Head(ch))
    BY <1>3 DEF HandleBalanceChange, Taking, IsChange
  <2>5. \A k \in 1 .. l.reason - 1 : Applied(k)
    BY <1>0, <2>2, <2>4, EarlierApplied
  <2>6. \A i \in ChangeLines : filedb'[i] = filedb[i] /\ i \in ChangeLines' /\ i < n + 1
    BY <2>1, <2>3
  <2> SUFFICES ASSUME NEW i \in ChangeLines', NEW k \in 1 .. filedb'[i].reason - 1
               PROVE  \E j \in ChangeLines' : j < i /\ filedb'[j].reason = k
    BY DEF SettledInOrder
  <2>7. CASE i \in ChangeLines
    BY <2>6, <2>7 DEF SettledInOrder
  <2>8. CASE i = n + 1
    BY <2>3, <2>5, <2>6, <2>8 DEF Applied
  <2> QED
    BY <2>3, <2>7, <2>8
<1>4. Quiet \/ LoadAllAssets \/ (\E m : SavesTo(m)) \/ RollsBackLate => filedb' = filedb
  BY DEF Quiet, LoadAllAssets, SavesTo, RollsBackLate, fileVars
<1> QED
  BY <1>0, <1>1, <1>2, <1>3, <1>4, StepKinds

(* What the bank has told the engine it has, it has applied; and what the engine
   has told the bank waits in w.ch. *)
LEMMA OwedStep ==
    ASSUME Without({"swallow"})
    PROVE  TypeOK /\ KnownInv /\ RecoveryInv /\ Owed /\ [Next]_vars => Owed'
<1> SUFFICES ASSUME TypeOK, KnownInv, RecoveryInv, Owed, [Next]_vars PROVE Owed'
  OBVIOUS
<1>1. ASSUME UNCHANGED <<ch, filedb, reasonID>>, session' \in {session, reasonID, Off, Stuck}
      PROVE  Owed'
  <2>1. ASSUME NEW k \in 1 .. session' PROVE Applied(k) \/ Waiting(k, Len(ch) + 1)
    <3>1. CASE session' \in {session, reasonID}
      BY <3>1 DEF Owed
    <3>2. CASE session' \in {Off, Stuck}
      BY <3>2 DEF Off, Stuck
    <3> QED
      BY <1>1, <3>1, <3>2
  <2> QED
    BY <1>1, <2>1, SameLog DEF Owed, Applied, Waiting
<1>2. CASE Crash \/ CrashInWrite
  <2>1. ch' = <<>> /\ reasonID' = 0 /\ session' \in {Off, Stuck}
    BY <1>2 DEF Crash, CrashInWrite, Halt, Broken
  <2>2. \A k \in 1 .. session' : FALSE
    BY <2>1 DEF Off, Stuck
  <2> QED
    BY <2>1, <2>2 DEF Owed
<1>3. ASSUME NEW r \in Requests, Publish(r) PROVE Owed'
  BY <1>1, <1>3 DEF Publish, omeVars, memVars, fileVars
<1>4. ASSUME NEW o \in Owners, NEW p \in Owners, Trade(o, p) PROVE Owed'
  BY <1>1, <1>4 DEF Trade, memVars, fileVars
<1>5. CASE Start \/ WaitForFiledb \/ LoadAllAssets
  BY <1>1, <1>5 DEF Start, WaitForFiledb, LoadAllAssets, omeVars, fileVars
<1>6. CASE SkipSeen
  <2>1. /\ ch # <<>> /\ ch' = Tail(ch) /\ IsOrder(Head(ch))
        /\ UNCHANGED <<filedb, reasonID, session>>
    BY <1>6 DEF SkipSeen, Taking, IsOrder, omeVars, memVars, fileVars
  <2>2. ~IsChange(Head(ch))
    BY <2>1, HeadTail, MessageShape
  <2>3. \A k : Applied(k) => Applied(k)'
    BY <2>1, AppliedKept
  <2>4. \A k \in 1 .. reasonID' : Applied(k)'
    BY <2>1, <2>3 DEF Owed
  <2> QED
    BY <2>1, <2>2, <2>3, <2>4, OwedTail
<1>7. CASE CreateOrder
  <2>1. /\ ch # <<>> /\ ch' = Tail(ch) /\ IsOrder(Head(ch)) /\ UNCHANGED <<reasonID, session>>
    BY <1>7 DEF CreateOrder, Taking, IsOrder, omeVars
  <2>2. ~IsChange(Head(ch))
    BY <2>1, HeadTail, MessageShape
  <2>3. \A k : Applied(k) => Applied(k)'
    BY <1>7, TicketStep, AppliedKept DEF Line
  <2>4. \A k \in 1 .. reasonID' : Applied(k)'
    BY <2>1, <2>3 DEF Owed
  <2> QED
    BY <2>1, <2>2, <2>3, <2>4, OwedTail
<1>8. CASE HandleBalanceChange
  <2>1. /\ ch # <<>> /\ ch' = Tail(ch) /\ IsChange(Head(ch))
        /\ reasonID' = Head(ch).reason /\ session' = session
    BY <1>8 DEF HandleBalanceChange, Taking, IsChange, omeVars
  <2>2. PICK l \in Line : filedb' = Append(filedb, l) /\ ~IsTicket(l) /\ l.reason = Head(ch).reason
    BY <1>8, ChangeStep DEF Line
  <2>3. \A k : Applied(k) => Applied(k)'
    BY <2>2, AppliedKept
  <2>4. PICK n, d : n = Len(filedb) /\ d = Head(ch).reason
    OBVIOUS
  <2>5. Applied(d)'
    <3>1. n + 1 \in ChangeLines' /\ filedb'[n + 1].reason = d
      BY <2>2, <2>4, LineAppended
    <3> QED
      BY <3>1 DEF Applied
  <2>6. d \in Nat /\ reasonID' = d
    BY <2>1, <2>4, HeadTail, MessageShape
  <2>7. ASSUME NEW k \in 1 .. reasonID' PROVE Applied(k)'
    <3>1. k = d \/ k \in 1 .. d - 1
      BY <2>6
    <3> QED
      BY <2>1, <2>3, <2>4, <2>5, <3>1, EarlierApplied
  <2> QED
    BY <2>1, <2>3, <2>4, <2>5, <2>7, OwedTail
<1>9. CASE Nats
  <2>1. UNCHANGED <<filedb, reasonID, session>>
    BY <1>9 DEF Nats, Subscribe, Deliver, Drop, Ack, Redeliver, omeVars, memVars, fileVars
  <2>2. CASE ch' = ch
    BY <1>1, <2>1, <2>2
  <2>3. ASSUME NEW m \in Message, ch' = Append(ch, m), IsOrder(m) PROVE Owed'
    <3>1. ~IsChange(m)
      BY <2>3, MessageShape
    <3>2. session' # session + 1
      BY <2>1, Pushed
    <3> QED
      BY <2>1, <2>3, <3>1, <3>2, OwedAppend
  <2> QED
    BY <1>9, <2>2, <2>3, OrdersEnter
<1>10. CASE OpenSession
  BY <1>1, <1>10 DEF OpenSession, FirstID, memVars, fileVars
<1>11. CASE PushChange
  <2>1. session' = session + 1 /\ UNCHANGED <<filedb, reasonID>>
    BY <1>11 DEF PushChange, memVars, fileVars
  <2>2. session \in Nat
    BY <1>11, ChangesEnter
  <2>3. \E m \in Message : ch' = Append(ch, m) /\ IsChange(m) /\ m.reason = session + 1
    BY <1>11, ChangesEnter
  <2> QED
    BY <2>1, <2>2, <2>3, OwedAppend
<1>12. CASE OmeRestart
  BY <1>1, <1>12 DEF OmeRestart, memVars, fileVars
<1>13. CASE Writer
  BY <1>1, <1>13
  DEF Writer, WriterRound, WriterSkips, WriterSaves, WriterFails, omeVars, memVars, fileVars
<1>14. ~WriteErrorSwallowed
  BY DEF Without, WriteErrorSwallowed, Fault
<1>15. CASE UNCHANGED vars
  BY <1>1, <1>15 DEF vars, omeVars, memVars, fileVars
<1> QED
  BY <1>2, <1>3, <1>4, <1>5, <1>6, <1>7, <1>8, <1>9, <1>10, <1>11, <1>12, <1>13, <1>14, <1>15
  DEF Next, Main, Settlement

LEMMA SettlementCorrect ==
    ASSUME Without({"swallow"})
    PROVE  Spec => [](CoreInv /\ SettledInOrder /\ Owed)
<1>1. CoreInv /\ SettledInOrder /\ Owed /\ [Next]_vars => SettledInOrder' /\ Owed'
  BY SettledStep, OwedStep DEF CoreInv
<1> QED
  BY <1>1, SettlementInit, CoreCorrect, PTL DEF Spec

(* Over restarts of the bank and of the engine, a balance change is applied only
   when all earlier ones have been, unless a failed write is overlooked: the
   handler then keeps the change's id for the engine and not the change. *)
THEOREM SettledInOrderCorrect ==
    ASSUME Without({"swallow"})
    PROVE  Spec => []SettledInOrder
BY SettlementCorrect, PTL

-----------------------------------------------------------------------------
(* Each change once. *)

(* Changes are about trades, which are counted from 1. *)
LEMMA ChangeReasons ==
    ASSUME TypeOK, KnownInv
    PROVE  /\ ChangeLines \in SUBSET (1 .. Len(filedb)) /\ ChangeLines \in SUBSET Nat
           /\ \A i \in ChangeLines : /\ filedb[i] \in ChangeLine
                                     /\ filedb[i].reason \in Nat \ {0}
                                     /\ filedb[i].reason \in DOMAIN trades
           /\ \A n \in DOMAIN ch : IsChange(ch[n]) => ch[n].reason \in Nat \ {0}
<1>1. ChangeLines \in SUBSET (1 .. Len(filedb)) /\ ChangeLines \in SUBSET Nat
  BY Shapes DEF ChangeLines
<1>2. ASSUME NEW i \in ChangeLines
      PROVE  /\ filedb[i] \in ChangeLine
             /\ filedb[i].reason \in Nat \ {0} /\ filedb[i].reason \in DOMAIN trades
  <2>1. i \in DOMAIN filedb /\ filedb[i] \in Line /\ ~IsTicket(filedb[i]) /\ LineKnown(filedb[i])
    BY Shapes DEF ChangeLines, TicketLines, KnownInv
  <2>2. filedb[i].reason \in DOMAIN trades /\ filedb[i] \in ChangeLine
    BY <2>1, LineShape DEF LineKnown
  <2> QED
    BY <2>2, Shapes
<1>3. ASSUME NEW n \in DOMAIN ch, IsChange(ch[n]) PROVE ch[n].reason \in Nat \ {0}
  <2>1. ch[n] \in Message /\ ~IsOrder(ch[n])
    BY <1>3, Shapes, MessageShape
  <2>2. ch[n].reason \in DOMAIN trades
    BY <2>1 DEF KnownInv, ChannelKnown
  <2> QED
    BY <2>2, Shapes
<1> QED
  BY <1>1, <1>2, <1>3

(* A message taken from w.ch, and into the log if it is a change. *)
LEMMA OnceTail ==
    ASSUME TypeOK, KnownInv, OnceInv, ch # <<>>, ch' = Tail(ch), session' = session,
           \/ ChangeLines' = ChangeLines /\ \A i \in ChangeLines : filedb'[i] = filedb[i]
           \/ \E l \in Line : /\ filedb' = Append(filedb, l) /\ ~IsTicket(l)
                              /\ IsChange(Head(ch)) /\ l.reason = Head(ch).reason
    PROVE  OnceInv'
<1>1. /\ DOMAIN ch' = 1 .. Len(ch) - 1 /\ Len(ch) \in Nat /\ Head(ch) = ch[1] /\ 1 \in DOMAIN ch
      /\ \A n \in DOMAIN ch' : n + 1 \in DOMAIN ch /\ ch'[n] = ch[n + 1]
  BY TailChannel, HeadTail, Shapes
<1>2. ASSUME NEW m \in DOMAIN ch', NEW n \in DOMAIN ch', m < n, IsChange(ch'[m]), IsChange(ch'[n])
      PROVE  ch'[m].reason < ch'[n].reason
  <2>1. m + 1 < n + 1
    BY <1>1, <1>2
  <2> QED
    BY <1>1, <1>2, <2>1 DEF OnceInv
<1>3. ASSUME NEW n \in DOMAIN ch', IsChange(ch'[n])
      PROVE  /\ session' # Stuck /\ ch'[n].reason <= session'
             /\ \A i \in ChangeLines : filedb[i].reason < ch'[n].reason
             /\ IsChange(Head(ch)) => Head(ch).reason < ch'[n].reason
  <2>1. n + 1 \in DOMAIN ch /\ ch'[n] = ch[n + 1] /\ 1 < n + 1
    BY <1>1
  <2> QED
    BY <1>1, <1>3, <2>1 DEF OnceInv
<1>4. CASE ChangeLines' = ChangeLines /\ \A i \in ChangeLines : filedb'[i] = filedb[i]
  BY <1>2, <1>3, <1>4 DEF OnceInv
<1>5. ASSUME NEW l \in Line, filedb' = Append(filedb, l), ~IsTicket(l),
             IsChange(Head(ch)), l.reason = Head(ch).reason
      PROVE  OnceInv'
  <2>1. PICK n : n = Len(filedb) /\ n \in Nat
    BY Numbers
  <2>2. /\ \A i \in 1 .. n : filedb'[i] = filedb[i]
        /\ filedb'[n + 1] = l /\ ChangeLines \in SUBSET (1 .. n)
        /\ ChangeLines' = ChangeLines \cup {n + 1}
    BY <1>5, <2>1, LineAppended
  <2>3. ASSUME NEW i \in ChangeLines
        PROVE  i \in 1 .. n /\ filedb'[i] = filedb[i] /\ i \in Nat /\ i < n + 1
    <3>1. i \in 1 .. n
      BY <2>2
    <3> QED
      BY <2>1, <2>2, <3>1
  <2>4. /\ session # Stuck /\ l.reason <= session
        /\ \A i \in ChangeLines : filedb[i].reason < l.reason
    BY <1>1, <1>5 DEF OnceInv
  <2>5. ASSUME NEW i \in ChangeLines', NEW j \in ChangeLines', j < i
        PROVE  filedb'[j].reason < filedb'[i].reason
    <3>1. j \in ChangeLines
      <4>1. j \in ChangeLines \/ (j = n + 1 /\ (i = n + 1 \/ i \in ChangeLines))
        BY <2>2
      <4>2. ~(n + 1 < n + 1) /\ \A k \in ChangeLines : ~(n + 1 < k)
        BY <2>1, <2>3
      <4> QED
        BY <2>5, <4>1, <4>2
    <3>2. CASE i \in ChangeLines
      BY <2>3, <2>5, <3>1, <3>2 DEF OnceInv
    <3>3. CASE i = n + 1
      BY <2>2, <2>3, <2>4, <3>1, <3>3
    <3> QED
      BY <2>2, <3>2, <3>3
  <2>6. \A k \in DOMAIN ch' : IsChange(ch'[k]) =>
            \A i \in ChangeLines' : filedb'[i].reason < ch'[k].reason
    BY <1>3, <1>5, <2>2, <2>3
  <2>7. \A i \in ChangeLines' : filedb'[i].reason <= session'
    BY <2>2, <2>3, <2>4 DEF OnceInv
  <2> QED
    BY <1>2, <1>3, <2>5, <2>6, <2>7 DEF OnceInv
<1> QED
  BY <1>4, <1>5

(* A message put into it: a change is the one after all others. *)
LEMMA OnceAppend ==
    ASSUME TypeOK, KnownInv, OnceInv, NEW m \in Message, ch' = Append(ch, m), filedb' = filedb,
           \/ IsOrder(m) /\ session' = session
           \/ IsChange(m) /\ session \in Nat /\ session' = session + 1 /\ m.reason = session + 1
    PROVE  OnceInv'
<1>1. /\ DOMAIN ch' = 1 .. Len(ch) + 1 /\ Len(ch) \in Nat /\ DOMAIN ch = 1 .. Len(ch)
      /\ \A k \in DOMAIN ch : ch'[k] = ch[k]
      /\ ch'[Len(ch) + 1] = m
  BY AppendChannel
<1>2. ChangeLines' = ChangeLines
  BY SameLog
<1>3. /\ \A i \in ChangeLines : filedb[i].reason \in Nat
      /\ \A n \in DOMAIN ch : IsChange(ch[n]) => ch[n].reason \in Nat
      /\ session \in Int
  BY ChangeReasons, Numbers
<1>4. CASE IsOrder(m) /\ session' = session
  <2>1. \A n \in DOMAIN ch' : IsChange(ch'[n]) => n \in DOMAIN ch /\ ch'[n] = ch[n]
    BY <1>1, <1>4, MessageShape
  <2> QED
    BY <1>2, <1>4, <2>1 DEF OnceInv
<1>5. CASE IsChange(m) /\ session \in Nat /\ session' = session + 1 /\ m.reason = session + 1
  <2>1. session # Stuck /\ session' # Stuck
    BY <1>5 DEF Stuck
  <2>2. \A n \in DOMAIN ch : IsChange(ch[n]) => ch[n].reason <= session
    BY DEF OnceInv
  <2>3. \A i \in ChangeLines : filedb[i].reason <= session
    BY <2>1 DEF OnceInv
  <2>4. /\ \A n \in DOMAIN ch : IsChange(ch[n]) => ch[n].reason < m.reason /\ ch[n].reason <= session'
        /\ \A i \in ChangeLines : filedb[i].reason < m.reason /\ filedb[i].reason <= session'
        /\ m.reason <= session'
    BY <1>3, <1>5, <2>2, <2>3
  <2>5. \A n \in DOMAIN ch' : n \in DOMAIN ch \/ n = Len(ch) + 1
    BY <1>1
  <2>6. \A j, n \in DOMAIN ch' : j < n => j \in DOMAIN ch
    BY <1>1
  <2>7. ASSUME NEW j \in DOMAIN ch', NEW n \in DOMAIN ch', j < n, IsChange(ch'[j]), IsChange(ch'[n])
        PROVE  ch'[j].reason < ch'[n].reason
    BY <1>1, <2>4, <2>5, <2>6, <2>7 DEF OnceInv
  <2>8. ASSUME NEW n \in DOMAIN ch', IsChange(ch'[n])
        PROVE  /\ ch'[n].reason <= session'
               /\ \A i \in ChangeLines : filedb[i].reason < ch'[n].reason
    BY <1>1, <2>4, <2>5, <2>8 DEF OnceInv
  <2> QED
    BY <1>2, <2>1, <2>4, <2>7, <2>8 DEF OnceInv
<1> QED
  BY <1>4, <1>5

LEMMA OnceInit == Init => OnceInv
BY DEF Init, OnceInv, ChangeLines, TicketLines

LEMMA OnceStep ==
    ASSUME Without({"ome"})
    PROVE  TypeOK /\ KnownInv /\ RecoveryInv /\ OnceInv /\ [Next]_vars => OnceInv'
<1> SUFFICES ASSUME TypeOK, KnownInv, RecoveryInv, OnceInv, [Next]_vars PROVE OnceInv'
  OBVIOUS
<1>1. ASSUME UNCHANGED <<ch, filedb>>, session' = session \/ (session = Off /\ session' \in Nat)
      PROVE  OnceInv'
  <2>1. ChangeLines' = ChangeLines
    BY <1>1, SameLog
  <2>2. CASE session' = session
    BY <1>1, <2>1, <2>2 DEF OnceInv
  <2>3. CASE session = Off /\ session' \in Nat
    <3>1. \A i \in ChangeLines : FALSE
      <4>1. \A i \in ChangeLines : filedb[i].reason <= -1 /\ filedb[i].reason \in Nat
        BY <2>3, ChangeReasons DEF OnceInv, Off, Stuck
      <4> QED
        BY <4>1
    <3>2. \A n \in DOMAIN ch : ~IsChange(ch[n])
      <4>1. \A n \in DOMAIN ch : IsChange(ch[n]) => ch[n].reason <= -1 /\ ch[n].reason \in Nat
        BY <2>3, ChangeReasons DEF OnceInv, Off
      <4> QED
        BY <4>1
    <3> QED
      BY <1>1, <2>1, <3>1, <3>2 DEF OnceInv
  <2> QED
    BY <1>1, <2>2, <2>3
<1>2. CASE Crash \/ CrashInWrite
  <2>1. /\ ch' = <<>> /\ filedb' = filedb /\ (session' # Stuck => session' = session)
    BY <1>2 DEF Crash, CrashInWrite, Halt, Broken, fileVars
  <2>2. ChangeLines' = ChangeLines
    BY <2>1, SameLog
  <2> QED
    BY <2>1, <2>2 DEF OnceInv
<1>3. ASSUME NEW r \in Requests, Publish(r) PROVE OnceInv'
  BY <1>1, <1>3 DEF Publish, omeVars, fileVars
<1>4. ASSUME NEW o \in Owners, NEW p \in Owners, Trade(o, p) PROVE OnceInv'
  BY <1>1, <1>4 DEF Trade, fileVars
<1>5. CASE Start \/ WaitForFiledb \/ LoadAllAssets
  BY <1>1, <1>5 DEF Start, WaitForFiledb, LoadAllAssets, omeVars, fileVars
<1>6. CASE SkipSeen \/ WriteErrorSwallowed
  <2>1. ch # <<>> /\ ch' = Tail(ch) /\ UNCHANGED <<filedb, session>>
    BY <1>6 DEF SkipSeen, WriteErrorSwallowed, Taking, omeVars, fileVars
  <2> QED
    BY <2>1, SameLog, OnceTail
<1>7. CASE CreateOrder
  <2>1. PICK l \in Line : filedb' = Append(filedb, l) /\ IsTicket(l)
    BY <1>7, TicketStep DEF Line
  <2>2. ChangeLines' = ChangeLines /\ \A i \in ChangeLines : filedb'[i] = filedb[i]
    BY <2>1, LineAppended
  <2>3. ch # <<>> /\ ch' = Tail(ch) /\ session' = session
    BY <1>7 DEF CreateOrder, Taking, omeVars
  <2> QED
    BY <2>2, <2>3, OnceTail
<1>8. CASE HandleBalanceChange
  <2>1. \E l \in Line : filedb' = Append(filedb, l) /\ ~IsTicket(l) /\ l.reason = Head(ch).reason
    BY <1>8, ChangeStep DEF Line
  <2>2. ch # <<>> /\ ch' = Tail(ch) /\ session' = session /\ IsChange(Head(ch))
    BY <1>8 DEF HandleBalanceChange, Taking, IsChange, omeVars
  <2> QED
    BY <2>1, <2>2, OnceTail
<1>9. CASE Nats
  <2>1. filedb' = filedb /\ session' = session
    BY <1>9 DEF Nats, Subscribe, Deliver, Drop, Ack, Redeliver, omeVars, fileVars
  <2>2. ch' = ch \/ \E m \in Message : ch' = Append(ch, m) /\ IsOrder(m)
    BY <1>9, OrdersEnter
  <2> QED
    BY <1>1, <2>1, <2>2, OnceAppend
<1>10. CASE OpenSession
  BY <1>1, <1>10, Numbers DEF OpenSession, FirstID, fileVars
<1>11. CASE PushChange
  <2>1. \E m \in Message : ch' = Append(ch, m) /\ IsChange(m) /\ m.reason = session + 1
    BY <1>11, ChangesEnter
  <2>2. session \in Nat /\ session' = session + 1 /\ filedb' = filedb
    BY <1>11, ChangesEnter DEF PushChange, fileVars
  <2> QED
    BY <2>1, <2>2, OnceAppend
<1>12. ~OmeRestart
  BY DEF Without, OmeRestart, Fault
<1>13. CASE Writer
  BY <1>1, <1>13
  DEF Writer, WriterRound, WriterSkips, WriterSaves, WriterFails, omeVars, fileVars
<1>14. CASE UNCHANGED vars
  BY <1>1, <1>14 DEF vars, omeVars, fileVars
<1> QED
  BY <1>2, <1>3, <1>4, <1>5, <1>6, <1>7, <1>8, <1>9, <1>10, <1>11, <1>12, <1>13, <1>14
  DEF Next, Main, Settlement

LEMMA OnceCorrect ==
    ASSUME Without({"ome"})
    PROVE  Spec => [](CoreInv /\ OnceInv)
<1>1. CoreInv /\ OnceInv /\ [Next]_vars => OnceInv'
  BY OnceStep DEF CoreInv
<1> QED
  BY <1>1, OnceInit, CoreCorrect, PTL DEF Spec

(* No balance change is applied twice as long as the engine does not restart, the
   bank crashing as it will: the stream that a restarted engine opens again is
   the one way a change gets into w.ch a second time. *)
THEOREM SettledOnceCorrect ==
    ASSUME Without({"ome"})
    PROVE  Spec => []SettledOnce
<1>1. CoreInv /\ OnceInv => SettledOnce
  <2> SUFFICES ASSUME CoreInv, OnceInv, NEW i \in ChangeLines, NEW j \in ChangeLines,
                      filedb[i].reason = filedb[j].reason
               PROVE  i = j
    BY DEF SettledOnce
  <2>1. i \in Nat /\ j \in Nat /\ filedb[i].reason \in Nat /\ filedb[j].reason \in Nat
    BY ChangeReasons DEF CoreInv
  <2>2. (i < j => filedb[i].reason < filedb[j].reason) /\ (j < i => filedb[j].reason < filedb[i].reason)
    BY DEF OnceInv
  <2> QED
    BY <2>1, <2>2
<1> QED
  BY <1>1, OnceCorrect, PTL


=============================================================================
