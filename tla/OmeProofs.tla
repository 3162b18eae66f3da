----------------------------- MODULE OmeProofs -----------------------------
(***************************************************************************)
(* The engine's types and its log, for every capacity, batch size, number  *)
(* of tickets and number of faults: proofs that TypeOK and LogInv (OmeInv) *)
(* are inductive and of the properties that follow from them.              *)
(***************************************************************************)
EXTENDS OmeInv, SetProofs

(* What a trade is worth is a number. *)
LEMMA AmountType ==
    ASSUME NEW a \in Order, NEW b \in Order
    PROVE  TradeAmount(a, b) \in Nat /\ TradePrice(a, b) \in Nat /\ TradeQty(a, b) \in Nat
<1>1. TradePrice(a, b) \in Nat /\ TradeQty(a, b) \in Nat
  BY DEF Order, TradePrice, TradeQty
<1>2. \A x, y \in Nat : x * y \in Nat
  OBVIOUS
<1>3. \A x \in Nat, e \in Nat \ {0} : x \div e \in Nat
  OBVIOUS
<1> QED
  BY <1>1, <1>2, <1>3, ExpAssumption DEF TradeAmount

(* What TradeQty takes, both orders have. *)
LEMMA FillType ==
    ASSUME NEW as \in SUBSET Order, NEW bs \in SUBSET Order, NEW a \in as, NEW b \in bs
    PROVE  /\ Fill(as, a, TradeQty(a, b)) \subseteq Order
           /\ Fill(bs, b, TradeQty(a, b)) \subseteq Order
           /\ a.qty - TradeQty(a, b) \in Nat
           /\ b.qty - TradeQty(a, b) \in Nat
<1>1. a \in Order /\ b \in Order
  OBVIOUS
<1>2. a.qty - TradeQty(a, b) \in Nat /\ b.qty - TradeQty(a, b) \in Nat
  BY <1>1 DEF Order, TradeQty
<1>3. [a EXCEPT !.qty = a.qty - TradeQty(a, b)] \in Order
  BY <1>1, <1>2 DEF Order
<1>4. [b EXCEPT !.qty = b.qty - TradeQty(a, b)] \in Order
  BY <1>1, <1>2 DEF Order
<1> QED
  BY <1>2, <1>3, <1>4 DEF Fill

(* A batch of lines taken from the log. *)
LEMMA BatchMaxInLog ==
    ASSUME TypeOK, NEW S \in SUBSET (1 .. Len(filedb)), S # {}
    PROVE  /\ Max(S) \in S /\ \A i \in S : i <= Max(S)
           /\ Max(S) \in DOMAIN filedb
           /\ filedb[Max(S)] \in OrderLog \cup MatchLog
<1>1. Len(filedb) \in Nat /\ DOMAIN filedb = 1 .. Len(filedb)
  BY DEF TypeOK
<1>2. S \in SUBSET Nat /\ \A i \in S : i <= Len(filedb)
  BY <1>1
<1>3. Max(S) \in S /\ \A i \in S : i <= Max(S)
  BY <1>1, <1>2, MaxIsLargest
<1>4. \A i \in 1 .. Len(filedb) : filedb[i] \in OrderLog \cup MatchLog
  BY DEF TypeOK
<1> QED
  BY <1>1, <1>3, <1>4

(* An updated row of the orders table is a row. *)
LEMMA RowType ==
    ASSUME NEW r \in OrderRow, NEW q \in Nat, NEW a \in Nat, NEW t \in Nat, NEW st \in {1, -1}
    PROVE  [r EXCEPT !.qty = q, !.amount = a, !.trades = @ + t, !.status = st] \in OrderRow
<1>1. [r EXCEPT !.qty = q] \in OrderRow
  BY DEF OrderRow
<1>2. [r EXCEPT !.qty = q, !.amount = a] \in OrderRow
  BY <1>1 DEF OrderRow
<1>3. r.trades + t \in Nat
  BY DEF OrderRow
<1>4. [r EXCEPT !.qty = q, !.amount = a, !.trades = @ + t] \in OrderRow
  BY <1>2, <1>3 DEF OrderRow
<1> QED
  BY <1>4 DEF OrderRow

(* What a batch makes of an order's row is a row. *)
LEMMA UpdatedType ==
    ASSUME TypeOK, NEW S \in SUBSET (1 .. Len(filedb)), NEW r \in OrderRow
    PROVE  Updated(r, S) \in OrderRow
<1> DEFINE ms == {i \in S : Touches(filedb[i], r.id)}
           l  == filedb[Max(ms)]
<1>1. CASE ms = {}
  BY <1>1 DEF Updated
<1>2. CASE ms # {}
  <2>1. Max(ms) \in ms /\ l \in OrderLog \cup MatchLog
    <3>1. ms \in SUBSET (1 .. Len(filedb))
      OBVIOUS
    <3> HIDE DEF ms
    <3> QED
      BY <1>2, <3>1, BatchMaxInLog
  <2>2. l \in MatchLog
    BY <2>1 DEF Touches, IsMatch, OrderLog, MatchLog
  <2>3. Remaining(l, r.id) \in Nat /\ l.amount \in Nat
    BY <2>2 DEF Remaining, MatchLog
  <2>4. Cardinality(ms) \in Nat
    <3>1. Len(filedb) \in Nat
      BY DEF TypeOK
    <3>2. IsFiniteSet(1 .. Len(filedb))
      BY <3>1, FS_Interval
    <3>3. IsFiniteSet(ms)
      BY <3>2, FS_Subset
    <3> QED
      BY <3>3, FS_CardinalityType
  <2> DEFINE q  == Remaining(l, r.id)
             a  == l.amount
             n  == Cardinality(ms)
             st == IF q = 0 THEN -1 ELSE r.status
  <2>5. st \in {1, -1}
    BY DEF OrderRow
  <2>6. Updated(r, S) = [r EXCEPT !.qty = q, !.amount = a, !.trades = @ + n, !.status = st]
    BY <1>2 DEF Updated
  <2>7. q \in Nat /\ a \in Nat /\ n \in Nat
    BY <2>3, <2>4
  <2> HIDE DEF q, a, n, st
  <2>8. [r EXCEPT !.qty = q, !.amount = a, !.trades = @ + n, !.status = st] \in OrderRow
    BY <2>5, <2>7, RowType
  <2> QED
    BY <2>6, <2>8
<1> QED
  BY <1>1, <1>2

(* A batch leaves tables of rows. *)
LEMMA SaveType ==
    ASSUME TypeOK, NEW S \in SUBSET (1 .. Len(filedb)), S # {}, Save(S)
    PROVE  /\ orders' \subseteq OrderRow
           /\ trades' \subseteq TradeRow
           /\ lastkv' \in [saved : Nat, order : Nat, ticket : [Side -> Nat]]
<1>1. \A i \in S : filedb[i] \in OrderLog \cup MatchLog
  BY DEF TypeOK
<1>2. orders' \subseteq OrderRow
  <2>1. \A i \in S : IsOrder(filedb[i]) => NewRow(filedb[i]) \in OrderRow
    BY <1>1 DEF IsOrder, NewRow, OrderLog, MatchLog, OrderRow
  <2>2. orders \subseteq OrderRow
    BY DEF TypeOK
  <2> QED
    BY <2>1, <2>2, UpdatedType DEF Save, OrderRows
<1>3. trades' \subseteq TradeRow
  <2>1. \A i \in S : IsMatch(filedb[i]) => NewTrade(filedb[i]) \in TradeRow
    BY <1>1 DEF IsMatch, NewTrade, OrderLog, MatchLog, TradeRow
  <2>2. trades \subseteq TradeRow
    BY DEF TypeOK
  <2> QED
    BY <2>1, <2>2 DEF Save, TradeRows
<1>4. lastkv' \in [saved : Nat, order : Nat, ticket : [Side -> Nat]]
  <2>1. filedb[Max(S)].logID \in Nat
    BY BatchMaxInLog DEF OrderLog, MatchLog
  <2>2. \A s : LastOrder(S, s) # {} =>
            /\ filedb[Max(LastOrder(S, s))].id \in Nat
            /\ filedb[Max(LastOrder(S, s))].ticket \in Nat
    <3> SUFFICES ASSUME NEW s, LastOrder(S, s) # {}
                 PROVE  filedb[Max(LastOrder(S, s))] \in OrderLog
      BY DEF OrderLog
    <3>1. LastOrder(S, s) \in SUBSET (1 .. Len(filedb))
      BY DEF LastOrder
    <3>2. Max(LastOrder(S, s)) \in LastOrder(S, s)
      BY <3>1, BatchMaxInLog
    <3> QED
      BY <1>1, <3>2 DEF LastOrder, IsOrder, OrderLog, MatchLog
  <2>3. lastkv \in [saved : Nat, order : Nat, ticket : [Side -> Nat]]
    BY DEF TypeOK
  <2> QED
    BY <2>1, <2>2, <2>3 DEF Save, LastKv, Bigger
<1> QED
  BY <1>2, <1>3, <1>4

(* The initial state has the type. *)
LEMMA TypeInit == Init => TypeOK
BY OmeAssumption DEF Init, TypeOK, Side, Idle, Off

(* A process that ends leaves a state of the type. *)
LEMMA HaltType == ASSUME TypeOK, Halt, UNCHANGED <<issued, orders, trades, lastkv>>,
                         filedb' \in Seq(OrderLog \cup MatchLog),
                         torn' \in {"no", "partial", "whole"}, faults' \in Nat
                  PROVE  TypeOK'
BY SMTT(30) DEF TypeOK, Halt, Side, Idle, Off

(* Every step keeps the type. *)
LEMMA TypeStep == TypeOK /\ [Next]_vars => TypeOK'
<1> SUFFICES ASSUME TypeOK, [Next]_vars PROVE TypeOK'
  OBVIOUS
<1> USE DEF Fault
<1>1. ASSUME NEW s \in Side, NEW r \in Requests, Issue(s, r) PROVE TypeOK'
  BY SMTT(30), <1>1 DEF TypeOK, Issue, bookVars, fileVars, tableVars
<1>2. CASE Start
  BY <1>2 DEF TypeOK, Start, bankVars, bookVars, fileVars, tableVars
<1>3. CASE WaitForFiledb
  <2>1. LastLogID \in Nat
    BY SMTT(30) DEF TypeOK, LastLogID, OrderLog, MatchLog
  <2> QED
    BY <1>3, <2>1 DEF TypeOK, WaitForFiledb, bankVars, fileVars, tableVars
<1>4. CASE RejectTorn
  BY <1>4, HaltType DEF RejectTorn, fileVars, tableVars, TypeOK
<1>5. CASE LoadAllOrders
  <2>1. ASSUME NEW s PROVE {ToOrder(r) : r \in OpenRows(s)} \subseteq Order
    <3>1. \A r \in OrderRow : ToOrder(r) \in Order
      BY DEF ToOrder, OrderRow, Order
    <3>2. OpenRows(s) \subseteq OrderRow
      BY DEF TypeOK, OpenRows
    <3> QED
      BY <3>1, <3>2
  <2> QED
    BY <1>5, <2>1 DEF TypeOK, LoadAllOrders, RecoveredOrderID, bankVars, fileVars, tableVars
<1>6. ASSUME NEW m \in Crossing(asks, bids), TryMatch(m[1], m[2]) PROVE TypeOK'
  <2> DEFINE a == m[1]
             b == m[2]
             q == TradeQty(a, b)
  <2>1. a \in asks /\ b \in bids /\ asks \subseteq Order /\ bids \subseteq Order
    BY DEF Crossing, TypeOK
  <2>2. a \in Order /\ b \in Order
    BY <2>1
  <2> HIDE DEF a, b
  <2>3. /\ Fill(asks, a, q) \subseteq Order
        /\ Fill(bids, b, q) \subseteq Order
        /\ a.qty - q \in Nat
        /\ b.qty - q \in Nat
    BY <2>1, FillType
  <2>4. MatchLine(a, b, q) \in MatchLog
    BY <2>2, <2>3, AmountType DEF MatchLine, MatchLog, Order, TypeOK
  <2>5. TryMatch(a, b)
    BY <1>6 DEF a, b
  <2> QED
    BY SMTT(30), <2>3, <2>4, <2>5 DEF TypeOK, TryMatch, bankVars, tableVars
<1>7. CASE Matched
  BY <1>7 DEF TypeOK, Matched, Idle, bankVars, fileVars, tableVars
<1>8. CASE DropDuplicate
  BY SMTT(30), <1>8 DEF TypeOK, DropDuplicate, bookVars, fileVars, tableVars
<1>9. CASE NewTicket
  <2> DEFINE t == Head(ch)
             o == [id |-> orderID + 1, ticket |-> t.id, price |-> t.price, qty |-> t.qty]
             line == [kind |-> "order", logID |-> logID + 1, id |-> orderID + 1,
                      ticket |-> t.id, side |-> t.side, price |-> t.price, qty |-> t.qty]
  <2>1. t \in Ticket /\ Tail(ch) \in Seq(Ticket)
    BY <1>9 DEF NewTicket, TypeOK
  <2>2. o \in Order /\ line \in OrderLog
    <3>1. orderID + 1 \in Nat /\ logID + 1 \in Nat
      BY DEF TypeOK
    <3>2. t.side \in Side /\ t.id \in Nat /\ t.price \in Nat /\ t.qty \in Nat
      BY <2>1 DEF Ticket
    <3> HIDE DEF t
    <3> QED
      BY <3>1, <3>2 DEF Order, OrderLog
  <2>3. [side |-> t.side, id |-> t.id] \in [side : Side \cup {"none"}, id : Nat]
    BY <2>1 DEF Ticket
  <2>4. filedb' \in Seq(OrderLog \cup MatchLog)
    BY <1>9, <2>2 DEF NewTicket, TypeOK
  <2>5. UNCHANGED <<issued, torn, tableVars, faults>>
    BY <1>9 DEF NewTicket
  <2>6. CASE Halt
    BY <2>4, <2>5, <2>6, HaltType DEF TypeOK, tableVars
  <2>7. CASE ~Halt
    <3>1. /\ orderID' = orderID + 1
          /\ logID' = logID + 1
          /\ asks' = IF t.side = "ask" THEN asks \cup {o} ELSE asks
          /\ bids' = IF t.side = "bid" THEN bids \cup {o} ELSE bids
          /\ cur' = [side |-> t.side, id |-> t.id]
          /\ ch' = Tail(ch)
          /\ pc' = "match"
          /\ UNCHANGED <<stream, latest, savedLogID, writer>>
      BY <1>9, <2>7 DEF NewTicket
    <3> HIDE DEF t, o, line
    <3> QED
      <4>1. /\ asks' \subseteq Order /\ bids' \subseteq Order
            /\ cur' \in [side : Side \cup {"none"}, id : Nat]
            /\ ch' \in Seq(Ticket)
            /\ orderID' \in Nat /\ logID' \in Nat
        BY SMTT(30), <2>1, <2>2, <2>3, <3>1 DEF TypeOK
      <4> QED
        BY <2>4, <2>5, <3>1, <4>1 DEF TypeOK, tableVars
  <2> QED
    BY <2>6, <2>7
<1>10. ASSUME NEW s \in Side, Connect(s) PROVE TypeOK'
  BY <1>10 DEF TypeOK, Connect, ResumeAfter, bookVars, fileVars, tableVars
<1>11. ASSUME NEW s \in Side, Pull(s) PROVE TypeOK'
  <2> DEFINE n == stream[s] + 1
             t == [side |-> s, id |-> n, price |-> issued[s][n].price, qty |-> issued[s][n].qty]
  <2>1. n \in Nat /\ n \in 1 .. Len(issued[s])
    BY SMTT(30), <1>11 DEF Pull, TypeOK, Off
  <2>2. issued[s] \in Seq(Requests)
    BY DEF TypeOK
  <2>3. issued[s][n] \in [price : Nat, qty : Nat]
    BY <2>1, <2>2, OmeAssumption
  <2>4. t \in Ticket
    BY <2>1, <2>3 DEF Ticket
  <2>5. ch' = Append(ch, t) /\ stream' = [stream EXCEPT ![s] = n]
    BY <1>11 DEF Pull
  <2>6. UNCHANGED <<issued, pc, cur, bookVars, savedLogID, writer, fileVars, tableVars, faults>>
    BY <1>11 DEF Pull
  <2> HIDE DEF n, t
  <2> QED
    BY SMTT(30), <2>1, <2>4, <2>5, <2>6 DEF TypeOK, bookVars, fileVars, tableVars
<1>12. ASSUME NEW s \in Side, Break(s) PROVE TypeOK'
  BY SMTT(30), <1>12 DEF TypeOK, Break, bookVars, fileVars, tableVars
<1>13. CASE WriterRound
  BY <1>13 DEF TypeOK, WriterRound, bankVars, bookVars, fileVars, tableVars
<1>14. CASE WriterRoundFails
  BY <1>14 DEF TypeOK, WriterRoundFails, bankVars, bookVars, fileVars, tableVars
<1>15. ASSUME NEW n \in 1 .. BatchMax,
              WriterSkips(n) \/ WriterSaves(n) \/ WriterFails(n)
       PROVE  TypeOK'
  <2>1. CanTake(n)
    BY <1>15 DEF WriterSkips, WriterSaves, WriterFails
  <2>2. writer \in Nat /\ n \in Nat \ {0} /\ writer + n \in 1 .. Len(filedb)
    BY <2>1, OmeAssumption DEF CanTake, TypeOK, Off
  <2>3. NotSaved(n) \subseteq 1 .. Len(filedb)
    BY SMTT(30), <2>2 DEF NotSaved, Batch, TypeOK
  <2>4. filedb[writer + n].logID \in Nat
    <3>1. filedb[writer + n] \in OrderLog \cup MatchLog
      BY <2>2 DEF TypeOK
    <3> QED
      BY <3>1 DEF OrderLog, MatchLog
  <2>5. CASE WriterSkips(n)
    BY SMTT(30), <2>2, <2>5 DEF TypeOK, WriterSkips, bankVars, bookVars, fileVars, tableVars
  <2>6. CASE WriterSaves(n)
    <3>1. /\ orders' \subseteq OrderRow /\ trades' \subseteq TradeRow
          /\ lastkv' \in [saved : Nat, order : Nat, ticket : [Side -> Nat]]
      BY <2>3, <2>6, SaveType DEF WriterSaves
    <3> QED
      <4>1. savedLogID' \in Nat /\ writer' \in Nat
        BY <2>2, <2>4, <2>6 DEF WriterSaves
      <4>2. UNCHANGED <<bankVars, pc, cur, bookVars, fileVars, faults>>
        BY <2>6 DEF WriterSaves
      <4> QED
        BY <3>1, <4>1, <4>2 DEF TypeOK, bankVars, bookVars, fileVars
  <2>7. CASE WriterFails(n)
    <3>1. /\ orders' \subseteq OrderRow /\ trades' \subseteq TradeRow
          /\ lastkv' \in [saved : Nat, order : Nat, ticket : [Side -> Nat]]
      BY <2>3, <2>7, SaveType DEF WriterFails, tableVars, TypeOK
    <3> QED
      BY SMTT(30), <2>7, <3>1 DEF TypeOK, WriterFails, bankVars, bookVars, fileVars
  <2> QED
    BY <1>15, <2>5, <2>6, <2>7
<1>16. CASE Crash
  <2>1. Halt /\ UNCHANGED <<issued, orders, trades, lastkv>> /\ UNCHANGED <<filedb, torn>>
    BY <1>16 DEF Crash, fileVars, tableVars
  <2>2. /\ faults' \in Nat
        /\ filedb' \in Seq(OrderLog \cup MatchLog)
        /\ torn' \in {"no", "partial", "whole"}
    BY <1>16, <2>1 DEF Crash, TypeOK
  <2> QED
    BY <2>1, <2>2, HaltType
<1>17. CASE CrashInWrite
  <2>1. Halt /\ UNCHANGED <<issued, orders, trades, lastkv>>
    BY <1>17 DEF CrashInWrite, tableVars
  <2>2. /\ faults' \in Nat
        /\ filedb' \in Seq(OrderLog \cup MatchLog)
        /\ torn' \in {"no", "partial", "whole"}
    BY <1>17 DEF CrashInWrite, TypeOK
  <2> QED
    BY <2>1, <2>2, HaltType
<1>18. CASE UNCHANGED vars
  BY <1>18 DEF TypeOK, vars, bankVars, bookVars, fileVars, tableVars
<1> QED
  BY <1>1, <1>2, <1>3, <1>4, <1>5, <1>6, <1>7, <1>8, <1>9, <1>10, <1>11, <1>12, <1>13,
     <1>14, <1>15, <1>16, <1>17, <1>18 DEF Next, Main, Match, Streams, Writer

(* Every variable keeps its shape, for any capacity, batch size, number of
   tickets and number of faults. *)
THEOREM TypeCorrect == Spec => []TypeOK
BY TypeInit, TypeStep, PTL DEF Spec

-----------------------------------------------------------------------------
(* The log. *)

(* Numberings: two lemmas that know nothing of the engine. *)

(* The next number given on the next line keeps a numbering in order. *)
LEMMA NumberNext ==
    ASSUME NEW n \in Nat, NEW K \in SUBSET (1 .. n), NEW f \in [K -> Nat], NEW v \in Nat,
           InOrder(f), LastIs(f, n, v),
           NEW g \in [K \cup {n + 1} -> Nat], \A i \in K : g[i] = f[i], g[n + 1] = v + 1
    PROVE  InOrder(g) /\ LastIs(g, n + 1, v + 1)
<1>1. /\ DOMAIN f = K /\ DOMAIN g = K \cup {n + 1}
      /\ \A i \in K : i \in Nat /\ i <= n /\ f[i] \in Nat /\ f[i] <= v
  BY DEF LastIs
<1>2. \A t \in 1 .. v : \E j \in K : f[j] = t
  <2> SUFFICES ASSUME NEW t \in 1 .. v PROVE \E j \in K : f[j] = t
    OBVIOUS
  <2>1. PICK i \in K : f[i] = v
    BY <1>1 DEF LastIs
  <2>2. \A u \in 1 .. f[i] - 1 : \E j \in K : f[j] = u
    BY <1>1, <2>1 DEF InOrder
  <2> QED
    BY <2>1, <2>2
<1>3. ASSUME NEW i \in K
      PROVE  /\ g[i] > 0
             /\ \A u \in 1 .. g[i] - 1 : \E j \in DOMAIN g : g[j] = u
             /\ \A j \in DOMAIN g : j < i => g[j] < g[i]
  <2>1. /\ f[i] > 0
        /\ \A u \in 1 .. f[i] - 1 : \E j \in K : f[j] = u
        /\ \A j \in K : j < i => f[j] < f[i]
    BY <1>1 DEF InOrder
  <2>2. \A j \in DOMAIN g : j < i => j \in K
    BY <1>1
  <2> QED
    BY <1>1, <2>1, <2>2
<1>4. /\ g[n + 1] > 0
      /\ \A u \in 1 .. g[n + 1] - 1 : \E j \in DOMAIN g : g[j] = u
      /\ \A j \in DOMAIN g : j < n + 1 => g[j] < g[n + 1]
  BY <1>1, <1>2
<1>5. InOrder(g)
  BY <1>1, <1>3, <1>4 DEF InOrder
<1>6. LastIs(g, n + 1, v + 1)
  BY <1>1 DEF LastIs
<1> QED
  BY <1>5, <1>6

(* A numbering's last number up to line b, from its last number up to line a
   and the largest of its lines between: what LastKv writes after a batch. *)
LEMMA NumberAdvance ==
    ASSUME NEW K \in SUBSET Nat, NEW f \in [K -> Nat], InOrder(f),
           NEW a \in Nat, NEW b \in Nat, a <= b, NEW u \in Nat, LastIs(f, a, u),
           NEW own, own = {i \in K : a < i /\ i <= b}
    PROVE  /\ own = {} => LastIs(f, b, u)
           /\ own # {} => Max(own) \in own /\ LastIs(f, b, Bigger(u, f[Max(own)]))
<1>1. DOMAIN f = K /\ \A i \in K : i \in Nat /\ f[i] \in Nat
  OBVIOUS
<1>2. CASE own = {}
  <2>1. \A i \in K : i <= b => i <= a
    BY <1>1, <1>2
  <2>2. \A i \in K : i <= a => i <= b
    BY <1>1
  <2>3. /\ \A i \in K : i <= a => f[i] <= u
        /\ u # 0 => \E i \in K : i <= a /\ f[i] = u
    BY <1>1 DEF LastIs
  <2>4. /\ \A i \in K : i <= b => f[i] <= u
        /\ u # 0 => \E i \in K : i <= b /\ f[i] = u
    BY <2>1, <2>2, <2>3
  <2>5. LastIs(f, b, u)
    BY <1>1, <2>4 DEF LastIs
  <2> QED
    BY <1>2, <2>5
<1>3. CASE own # {}
  <2>1. own \in SUBSET Nat /\ \A i \in own : i <= b
    OBVIOUS
  <2>2. Max(own) \in own /\ \A i \in own : i <= Max(own)
    BY <1>3, <2>1, MaxIsLargest
  <2>3. PICK m \in own : m = Max(own) /\ \A i \in own : i <= m
    BY <2>2
  <2>4. m \in K /\ a < m /\ m <= b
    BY <2>3
  <2>5. \A i \in K : i <= b => i <= m
    BY <1>1, <2>3, <2>4
  <2>6. \A i \in K : i <= b => f[i] <= f[m]
    <3>1. \A i \in K : i < m => f[i] < f[m]
      BY <1>1, <2>4 DEF InOrder
    <3>2. \A i \in K : i <= b => i < m \/ i = m
      BY <1>1, <2>4, <2>5
    <3> QED
      BY <1>1, <2>4, <3>1, <3>2
  <2>7. u <= f[m]
    <3>1. CASE u = 0
      BY <1>1, <2>4, <3>1
    <3>2. CASE u # 0
      <4>1. PICK i \in K : i <= a /\ f[i] = u
        BY <1>1, <3>2 DEF LastIs
      <4>2. i <= b
        BY <1>1, <4>1
      <4> QED
        BY <2>6, <4>1, <4>2
    <3> QED
      BY <3>1, <3>2
  <2>8. Bigger(u, f[m]) = f[m]
    BY <1>1, <2>4, <2>7 DEF Bigger
  <2>9. LastIs(f, b, f[m])
    BY <1>1, <2>4, <2>6 DEF LastIs
  <2> QED
    BY <1>3, <2>2, <2>3, <2>8, <2>9
<1> QED
  BY <1>2, <1>3

-----------------------------------------------------------------------------
(* What the definitions over the log read, before and after an append. *)

(* The lines of the log, and the numberings read off them. *)
LEMMA LinesType ==
    ASSUME TypeOK
    PROVE  /\ Len(filedb) \in Nat
           /\ Lines = 1 .. Len(filedb)
           /\ OrderLines \subseteq 1 .. Len(filedb)
           /\ OrderIDs \in [OrderLines -> Nat]
           /\ \A i \in OrderLines : filedb[i].side \in Side
           /\ \A s : /\ OrderLinesOf(s) \subseteq OrderLines
                     /\ Tickets(s) \in [OrderLinesOf(s) -> Nat]
<1>1. Len(filedb) \in Nat /\ Lines = 1 .. Len(filedb)
  BY DEF TypeOK, Lines
<1>2. \A i \in Lines : filedb[i] \in OrderLog \cup MatchLog
  BY <1>1 DEF TypeOK
<1>3. OrderLines \subseteq Lines /\ \A s : OrderLinesOf(s) \subseteq OrderLines
  BY DEF OrderLines, OrderLinesOf
<1>4. \A i \in OrderLines : filedb[i] \in OrderLog
  BY <1>2 DEF OrderLines, IsOrder, OrderLog, MatchLog
<1>5. \A i \in OrderLines : filedb[i].id \in Nat /\ filedb[i].ticket \in Nat /\ filedb[i].side \in Side
  BY <1>4 DEF OrderLog
<1> QED
  BY <1>1, <1>3, <1>5 DEF OrderIDs, Tickets

(* What an append leaves of the log. *)
LEMMA Appended ==
    ASSUME TypeOK, NEW line, filedb' = Append(filedb, line)
    PROVE  /\ Len(filedb)' = Len(filedb) + 1
           /\ Lines' = Lines \cup {Len(filedb) + 1}
           /\ \A i \in Lines : filedb'[i] = filedb[i]
           /\ filedb'[Len(filedb) + 1] = line
BY DEF TypeOK, Lines

(* A match line adds no order. *)
LEMMA AppendedMatch ==
    ASSUME TypeOK, NEW line, filedb' = Append(filedb, line), ~IsOrder(line)
    PROVE  /\ \A i \in Lines : filedb'[i] = filedb[i]
           /\ OrderLines' = OrderLines
           /\ \A s : OrderLinesOf(s)' = OrderLinesOf(s)
<1>1. /\ Lines' = Lines \cup {Len(filedb) + 1}
      /\ \A i \in Lines : filedb'[i] = filedb[i]
      /\ filedb'[Len(filedb) + 1] = line
  BY Appended
<1>2. OrderLines' = OrderLines /\ OrderLines \subseteq Lines
  BY <1>1 DEF OrderLines
<1> QED
  BY <1>1, <1>2 DEF OrderLinesOf

(* An order line adds itself, to its own side only. *)
LEMMA AppendedOrder ==
    ASSUME TypeOK, NEW line, filedb' = Append(filedb, line), IsOrder(line)
    PROVE  /\ \A i \in Lines : filedb'[i] = filedb[i]
           /\ filedb'[Len(filedb) + 1] = line
           /\ OrderLines' = OrderLines \cup {Len(filedb) + 1}
           /\ OrderLinesOf(line.side)' = OrderLinesOf(line.side) \cup {Len(filedb) + 1}
           /\ \A s : s # line.side => OrderLinesOf(s)' = OrderLinesOf(s)
<1>1. /\ Lines' = Lines \cup {Len(filedb) + 1}
      /\ \A i \in Lines : filedb'[i] = filedb[i]
      /\ filedb'[Len(filedb) + 1] = line
  BY Appended
<1>2. OrderLines' = OrderLines \cup {Len(filedb) + 1} /\ OrderLines \subseteq Lines
  BY <1>1 DEF OrderLines
<1> QED
  BY <1>1, <1>2 DEF OrderLinesOf

(* What is not an order leaves both numberings as they were. *)
LEMMA SameNumbers ==
    ASSUME TypeOK,
           filedb' = filedb \/ \E line : filedb' = Append(filedb, line) /\ ~IsOrder(line)
    PROVE  OrderIDs' = OrderIDs /\ \A s : Tickets(s)' = Tickets(s)
<1>1. CASE filedb' = filedb
  BY <1>1 DEF OrderIDs, Tickets, OrderLinesOf, OrderLines, Lines
<1>2. ASSUME NEW line, filedb' = Append(filedb, line), ~IsOrder(line)
      PROVE  OrderIDs' = OrderIDs /\ \A s : Tickets(s)' = Tickets(s)
  <2>1. /\ \A i \in Lines : filedb'[i] = filedb[i]
        /\ OrderLines' = OrderLines
        /\ \A s : OrderLinesOf(s)' = OrderLinesOf(s)
    BY <1>2, AppendedMatch
  <2>2. OrderLines \subseteq Lines /\ \A s : OrderLinesOf(s) \subseteq OrderLines
    BY LinesType
  <2>3. OrderIDs' = OrderIDs
    BY <2>1, <2>2 DEF OrderIDs
  <2>4. ASSUME NEW s PROVE Tickets(s)' = Tickets(s)
    <3>1. \A i \in OrderLinesOf(s) : filedb'[i] = filedb[i]
      BY <2>1, <2>2
    <3>2. Tickets(s)' = [i \in OrderLinesOf(s)' |-> filedb'[i].ticket]
      BY DEF Tickets
    <3> QED
      BY <2>1, <3>1, <3>2 DEF Tickets
  <2> QED
    BY <2>3, <2>4
<1> QED
  BY <1>1, <1>2

(* The bank's side: tickets are only added. *)
IssuedKept ==
    \A s \in Side : \A t \in DOMAIN issued[s] :
        t \in DOMAIN issued'[s] /\ issued'[s][t] = issued[s][t]

(* A step that logs no order leaves both numberings as good as they were,
   whatever tickets the bank issues meanwhile. *)
LEMMA SameTickets ==
    ASSUME TypeOK, LogInv, IssuedKept,
           filedb' = filedb \/ \E line : filedb' = Append(filedb, line) /\ ~IsOrder(line)
    PROVE  TicketsInOrder' /\ OrderIDsInOrder'
<1>1. OrderIDs' = OrderIDs /\ \A s : Tickets(s)' = Tickets(s)
  BY SameNumbers
<1>2. OrderIDsInOrder'
  BY <1>1 DEF LogInv, OrderIDsInOrder, InOrder
<1>3. \A s \in Side : InOrder(Tickets(s)')
  BY <1>1 DEF LogInv, TicketsInOrder
<1>4. ASSUME NEW s \in Side, NEW i \in OrderLinesOf(s)'
      PROVE  i \in OrderLinesOf(s) /\ filedb'[i] = filedb[i]
  <2>1. CASE filedb' = filedb
    BY <1>4, <2>1 DEF OrderLinesOf, OrderLines, Lines
  <2>2. ASSUME NEW line, filedb' = Append(filedb, line), ~IsOrder(line)
        PROVE  i \in OrderLinesOf(s) /\ filedb'[i] = filedb[i]
    <3>1. OrderLinesOf(s)' = OrderLinesOf(s) /\ \A k \in Lines : filedb'[k] = filedb[k]
      BY <2>2, AppendedMatch
    <3>2. OrderLinesOf(s) \subseteq Lines
      BY LinesType
    <3> QED
      BY <3>1, <3>2
  <2> QED
    BY <2>1, <2>2
<1>5. ASSUME NEW s \in Side, NEW i \in OrderLinesOf(s)'
      PROVE  /\ filedb'[i].ticket \in DOMAIN issued'[s]
             /\ [price |-> filedb'[i].price, qty |-> filedb'[i].qty]
                    = issued'[s][filedb'[i].ticket]
  <2>1. i \in OrderLinesOf(s) /\ filedb'[i] = filedb[i]
    BY <1>4
  <2>2. /\ filedb[i].ticket \in DOMAIN issued[s]
        /\ [price |-> filedb[i].price, qty |-> filedb[i].qty] = issued[s][filedb[i].ticket]
    BY <2>1 DEF LogInv, TicketsInOrder
  <2> QED
    BY <2>1, <2>2 DEF IssuedKept
<1>6. TicketsInOrder'
  BY <1>3, <1>5 DEF TicketsInOrder, InOrder
<1> QED
  BY <1>2, <1>6

-----------------------------------------------------------------------------
(* A prefix of the log keeps what is said of it. *)
LEMMA PrefixKept ==
    ASSUME NEW n \in Nat, NEW K \in SUBSET (1 .. n), NEW f \in [K -> Nat],
           NEW m \in Nat, m <= n, NEW v, LastIs(f, m, v),
           NEW g \in [K \cup {n + 1} -> Nat], \A i \in K : g[i] = f[i]
    PROVE  LastIs(g, m, v)
<1>1. \A i \in K \cup {n + 1} : i <= m => i \in K
  OBVIOUS
<1>2. DOMAIN f = K /\ DOMAIN g = K \cup {n + 1}
  OBVIOUS
<1> QED
  BY <1>1, <1>2 DEF LastIs

(* A log line that carries the next log id. *)
LEMMA NextLogID ==
    ASSUME TypeOK, LogIDsAreLineNumbers, NEW line, filedb' = Append(filedb, line),
           line.logID = Len(filedb) + 1
    PROVE  LogIDsAreLineNumbers'
<1>1. /\ Lines' = Lines \cup {Len(filedb) + 1}
      /\ \A i \in Lines : filedb'[i] = filedb[i]
      /\ filedb'[Len(filedb) + 1] = line
  BY Appended
<1>2. \A i \in Lines' : filedb'[i].logID = i
  BY <1>1 DEF LogIDsAreLineNumbers
<1> QED
  BY <1>2 DEF LogIDsAreLineNumbers

(* An order whose id and ticket are the next ones. *)
LEMMA NextOrder ==
    ASSUME TypeOK, LogInv, NEW line \in OrderLog, filedb' = Append(filedb, line),
           NEW v \in Nat, line.id = v + 1, LastIs(OrderIDs, Len(filedb), v),
           NEW u \in Nat, line.ticket = u + 1, LastIs(Tickets(line.side), Len(filedb), u)
    PROVE  /\ InOrder(OrderIDs') /\ LastIs(OrderIDs', Len(filedb) + 1, v + 1)
           /\ InOrder(Tickets(line.side)')
           /\ LastIs(Tickets(line.side)', Len(filedb) + 1, u + 1)
           /\ \A s : s # line.side => Tickets(s)' = Tickets(s)
           /\ \A m \in Nat : \A w : m <= Len(filedb) =>
                  /\ LastIs(OrderIDs, m, w) => LastIs(OrderIDs', m, w)
                  /\ LastIs(Tickets(line.side), m, w) => LastIs(Tickets(line.side)', m, w)
<1> DEFINE n == Len(filedb)
           T == Tickets(line.side)
           K == OrderLinesOf(line.side)
<1>1. IsOrder(line) /\ line.side \in Side /\ line.id \in Nat /\ line.ticket \in Nat
  BY DEF OrderLog, IsOrder
<1>2. /\ \A i \in Lines : filedb'[i] = filedb[i]
      /\ filedb'[Len(filedb) + 1] = line
      /\ OrderLines' = OrderLines \cup {Len(filedb) + 1}
      /\ OrderLinesOf(line.side)' = OrderLinesOf(line.side) \cup {Len(filedb) + 1}
      /\ \A s : s # line.side => OrderLinesOf(s)' = OrderLinesOf(s)
  BY <1>1, AppendedOrder
<1>3. /\ n \in Nat /\ Lines = 1 .. n
      /\ OrderLines \subseteq 1 .. n /\ OrderIDs \in [OrderLines -> Nat]
      /\ \A s : OrderLinesOf(s) \subseteq OrderLines /\ Tickets(s) \in [OrderLinesOf(s) -> Nat]
  BY LinesType
<1>4. /\ OrderIDs' \in [OrderLines \cup {n + 1} -> Nat]
      /\ \A i \in OrderLines : OrderIDs'[i] = OrderIDs[i]
      /\ OrderIDs'[n + 1] = v + 1
  <2>1. OrderIDs' = [i \in OrderLines \cup {n + 1} |-> filedb'[i].id]
    BY <1>2 DEF OrderIDs
  <2>2. \A i \in OrderLines : filedb'[i].id = OrderIDs[i]
    BY <1>2, <1>3 DEF OrderIDs
  <2>3. filedb'[n + 1].id = v + 1
    BY <1>2
  <2>4. \A i \in OrderLines \cup {n + 1} : filedb'[i].id \in Nat
    BY <1>3, <2>2, <2>3
  <2> QED
    BY <2>1, <2>2, <2>3, <2>4
<1>5. /\ T' \in [K \cup {n + 1} -> Nat]
      /\ \A i \in K : T'[i] = T[i]
      /\ T'[n + 1] = u + 1
  <2>1. T' = [i \in K \cup {n + 1} |-> filedb'[i].ticket]
    BY <1>2 DEF Tickets
  <2>2. \A i \in K : filedb'[i].ticket = T[i]
    BY <1>2, <1>3 DEF Tickets
  <2>3. filedb'[n + 1].ticket = u + 1
    BY <1>2
  <2>4. \A i \in K \cup {n + 1} : filedb'[i].ticket \in Nat
    <3>1. n \in Nat /\ \A i \in K : T[i] \in Nat
      BY <1>3
    <3>2. \A i \in K : filedb'[i].ticket \in Nat
      BY <2>2, <3>1
    <3>3. filedb'[n + 1].ticket \in Nat
      BY <2>3
    <3> HIDE DEF T, K, n
    <3> QED
      BY <3>1, <3>2, <3>3
  <2> QED
    BY <2>1, <2>2, <2>3, <2>4
<1>6. \A s : s # line.side => Tickets(s)' = Tickets(s)
  <2> SUFFICES ASSUME NEW s, s # line.side PROVE Tickets(s)' = Tickets(s)
    OBVIOUS
  <2>1. OrderLinesOf(s)' = OrderLinesOf(s) /\ OrderLinesOf(s) \subseteq Lines
    BY <1>2, <1>3
  <2>2. \A i \in OrderLinesOf(s) : filedb'[i] = filedb[i]
    BY <1>2, <2>1
  <2>3. Tickets(s)' = [i \in OrderLinesOf(s)' |-> filedb'[i].ticket]
    BY DEF Tickets
  <2> QED
    BY <2>1, <2>2, <2>3 DEF Tickets
<1>7. InOrder(OrderIDs) /\ InOrder(T)
  BY <1>1 DEF LogInv, OrderIDsInOrder, TicketsInOrder
<1>8. OrderLines \in SUBSET (1 .. n) /\ K \in SUBSET (1 .. n) /\ T \in [K -> Nat]
  BY <1>3
<1>9. LastIs(T, n, u) /\ LastIs(OrderIDs, n, v)
  OBVIOUS
<1> HIDE DEF n, T, K
<1>10. InOrder(OrderIDs') /\ LastIs(OrderIDs', n + 1, v + 1)
  BY <1>3, <1>4, <1>7, <1>8, <1>9, NumberNext
<1>11. InOrder(T') /\ LastIs(T', n + 1, u + 1)
  BY <1>3, <1>5, <1>7, <1>8, <1>9, NumberNext
<1>12. ASSUME NEW m \in Nat, NEW w, m <= n
       PROVE  /\ LastIs(OrderIDs, m, w) => LastIs(OrderIDs', m, w)
              /\ LastIs(T, m, w) => LastIs(T', m, w)
  <2>1. LastIs(OrderIDs, m, w) => LastIs(OrderIDs', m, w)
    BY <1>3, <1>4, <1>8, <1>12, PrefixKept
  <2>2. LastIs(T, m, w) => LastIs(T', m, w)
    BY <1>3, <1>5, <1>8, <1>12, PrefixKept
  <2> QED
    BY <2>1, <2>2
<1> QED
  BY <1>6, <1>10, <1>11, <1>12 DEF n, T

-----------------------------------------------------------------------------
(* The steps. *)

(* An empty log, an engine that is down. *)
LEMMA LogInvInit == Init => LogInv
<1> SUFFICES ASSUME Init PROVE LogInv
  OBVIOUS
<1>1. filedb = <<>> /\ Len(filedb) = 0 /\ Lines = {} /\ OrderLines = {}
  BY DEF Init, Lines, OrderLines
<1>2. \A s : OrderLinesOf(s) = {}
  BY <1>1 DEF OrderLinesOf
<1>3. DOMAIN OrderIDs = {} /\ \A s : DOMAIN Tickets(s) = {}
  BY <1>1, <1>2 DEF OrderIDs, Tickets
<1>4. LogIDsAreLineNumbers /\ TicketsInOrder /\ OrderIDsInOrder
  BY <1>1, <1>2, <1>3 DEF LogIDsAreLineNumbers, TicketsInOrder, OrderIDsInOrder, InOrder
<1>5. ChannelInv
  BY DEF Init, ChannelInv
<1>6. WriterInv
  BY <1>1 DEF Init, WriterInv, Off
<1>7. TableInv
  BY <1>1, <1>3 DEF Init, TableInv, LastIs
<1>8. MemoryInv
  BY DEF Init, MemoryInv, Recovered
<1> QED
  BY <1>4, <1>5, <1>6, <1>7, <1>8 DEF LogInv

(* The log and what MySQL says of it: the part of LogInv a dead process keeps. *)
DurableInv ==
    /\ LogIDsAreLineNumbers
    /\ TicketsInOrder
    /\ OrderIDsInOrder
    /\ lastkv.saved <= Len(filedb)
    /\ TableInv

(* What a step says of the log when it touches neither log nor tables. *)
LEMMA SameLog ==
    ASSUME TypeOK, LogInv, IssuedKept, UNCHANGED <<filedb, lastkv>>
    PROVE  /\ LogIDsAreLineNumbers' /\ TicketsInOrder' /\ OrderIDsInOrder' /\ TableInv'
           /\ OrderIDs' = OrderIDs /\ \A s : Tickets(s)' = Tickets(s)
<1>1. OrderIDs' = OrderIDs /\ \A s : Tickets(s)' = Tickets(s)
  BY SameNumbers
<1>2. TicketsInOrder' /\ OrderIDsInOrder'
  BY SameTickets
<1>3. LogIDsAreLineNumbers'
  BY DEF LogInv, LogIDsAreLineNumbers, Lines
<1>4. TableInv'
  BY <1>1 DEF LogInv, TableInv, LastIs
<1> QED
  BY <1>1, <1>2, <1>3, <1>4

(* A process that ends loses its memory, so only the durable part is left to show. *)
LEMMA HaltStep ==
    ASSUME TypeOK', DurableInv', Halt
    PROVE  LogInv'
<1>1. ChannelInv'
  BY DEF Halt, ChannelInv
<1>2. WriterInv'
  BY DEF Halt, WriterInv, DurableInv, TypeOK, Off
<1>3. MemoryInv'
  BY DEF Halt, MemoryInv, Recovered
<1> QED
  BY <1>1, <1>2, <1>3 DEF LogInv, DurableInv

(* The process ends and the log is as it was. *)
LEMMA HaltKeepsLog ==
    ASSUME TypeOK, TypeOK', LogInv, Halt, UNCHANGED <<issued, filedb, lastkv>>
    PROVE  LogInv'
<1>1. IssuedKept
  BY DEF IssuedKept
<1>2. LogIDsAreLineNumbers' /\ TicketsInOrder' /\ OrderIDsInOrder' /\ TableInv'
  BY <1>1, SameLog
<1>3. lastkv'.saved <= Len(filedb')
  BY DEF LogInv, WriterInv
<1> QED
  BY <1>2, <1>3, HaltStep DEF DurableInv

(* The log and the tables stay: what is left to show of a step of the process. *)
LEMMA MemoryStep ==
    ASSUME TypeOK, LogInv, UNCHANGED <<issued, filedb, lastkv>>,
           ChannelInv', WriterInv', MemoryInv'
    PROVE  LogInv'
<1>1. IssuedKept
  BY DEF IssuedKept
<1>2. LogIDsAreLineNumbers' /\ TicketsInOrder' /\ OrderIDsInOrder' /\ TableInv'
  BY <1>1, SameLog
<1> QED
  BY <1>2 DEF LogInv

(* The bank issues a ticket: those in the log and in the channel stay issued. *)
LEMMA IssueStep ==
    ASSUME TypeOK, LogInv, NEW s \in Side, NEW r \in Requests, Issue(s, r)
    PROVE  LogInv'
<1>1. UNCHANGED <<ch, pc, cur, latest, logID, orderID, savedLogID, writer, filedb, torn, lastkv>>
  BY DEF Issue, bookVars, fileVars, tableVars
<1>2. IssuedKept
  <2>1. ASSUME NEW q \in Side, NEW t \in DOMAIN issued[q]
        PROVE  t \in DOMAIN issued'[q] /\ issued'[q][t] = issued[q][t]
    <3>1. issued[q] \in Seq(Requests)
      BY DEF TypeOK
    <3>2. issued'[q] = IF q = s THEN Append(issued[q], r) ELSE issued[q]
      BY DEF Issue, TypeOK
    <3> QED
      BY <3>1, <3>2
  <2> QED
    BY <2>1 DEF IssuedKept
<1>3. /\ LogIDsAreLineNumbers' /\ TicketsInOrder' /\ OrderIDsInOrder' /\ TableInv'
      /\ OrderIDs' = OrderIDs /\ \A q : Tickets(q)' = Tickets(q)
  BY <1>1, <1>2, SameLog
<1>4. ChannelInv'
  <2>1. \A k \in DOMAIN ch : ch[k].side \in Side
    <3>1. \A k \in DOMAIN ch : ch[k] \in Ticket
      BY DEF TypeOK
    <3> QED
      BY <3>1 DEF Ticket
  <2> QED
    BY <1>1, <1>2, <2>1 DEF LogInv, ChannelInv, IssuedKept
<1>5. WriterInv'
  BY <1>1 DEF LogInv, WriterInv
<1>6. MemoryInv'
  BY <1>1, <1>3 DEF LogInv, MemoryInv, Recovered, LastIs, Logged
<1> QED
  BY <1>3, <1>4, <1>5, <1>6 DEF LogInv

(* Receiving the head of the channel leaves it correct. *)
LEMMA TailKeepsChannel ==
    ASSUME TypeOK, LogInv, ch # <<>>, ch' = Tail(ch), issued' = issued
    PROVE  ChannelInv'
<1>1. /\ Len(ch) \in Nat \ {0} /\ DOMAIN ch = 1 .. Len(ch)
      /\ DOMAIN ch' = 1 .. Len(ch) - 1
      /\ \A k \in 1 .. Len(ch) - 1 : ch'[k] = ch[k + 1]
  BY DEF TypeOK
<1>2. \A k \in DOMAIN ch' : k + 1 \in DOMAIN ch /\ ch'[k] = ch[k + 1]
  BY <1>1
<1> QED
  BY <1>2 DEF LogInv, ChannelInv

(* The steps that log nothing: from the restart to the end of a match, and a
   ticket dropped as a duplicate. *)
LEMMA RecoveryStep ==
    ASSUME TypeOK, TypeOK', LogInv,
           Start \/ WaitForFiledb \/ RejectTorn \/ LoadAllOrders \/ Matched \/ DropDuplicate
    PROVE  LogInv'
<1>2. CASE Start
  <2>1. ChannelInv' /\ WriterInv' /\ MemoryInv'
    BY <1>2 DEF LogInv, Start, ChannelInv, WriterInv, MemoryInv, Recovered, Logged,
                bankVars, bookVars, fileVars, tableVars
  <2>2. UNCHANGED <<issued, filedb, lastkv>>
    BY <1>2 DEF Start, bankVars, fileVars, tableVars
  <2> QED
    BY <2>1, <2>2, MemoryStep
<1>3. CASE WaitForFiledb
  <2>1. UNCHANGED <<issued, ch, cur, asks, bids, latest, orderID, savedLogID, writer,
                    filedb, torn, lastkv>>
    BY <1>3 DEF WaitForFiledb, bankVars, fileVars, tableVars
  <2>2. Len(filedb) \in Nat /\ savedLogID \in Nat /\ lastkv.saved \in Nat
    BY DEF TypeOK
  <2>3. savedLogID <= Len(filedb) /\ LastLogID <= savedLogID
    BY <1>3, <2>2 DEF LogInv, WriterInv, WaitForFiledb, LastLogID
  <2>4. torn = "no"
    BY <1>3, <2>2, <2>3 DEF WaitForFiledb, TypeOK, LastLogID
  <2>5. LastLogID = Len(filedb)
    <3>1. CASE filedb = <<>>
      BY <2>4, <3>1 DEF LastLogID
    <3>2. CASE filedb # <<>>
      <4>1. Len(filedb) \in Lines
        BY SMTT(30), <2>2, <3>2 DEF Lines, TypeOK
      <4> QED
        BY <2>4, <3>2, <4>1 DEF LastLogID, LogInv, LogIDsAreLineNumbers
    <3> QED
      BY <3>1, <3>2
  <2>6. lastkv.saved = Len(filedb)
    BY <2>2, <2>3, <2>5 DEF LogInv, WriterInv
  <2>7. ChannelInv' /\ WriterInv'
    BY <2>1 DEF LogInv, ChannelInv, WriterInv
  <2>8. pc' = "load" /\ logID' = LastLogID /\ pc = "wait"
    BY <1>3 DEF WaitForFiledb
  <2>9. MemoryInv'
    BY <2>1, <2>4, <2>5, <2>6, <2>8 DEF LogInv, MemoryInv, Recovered
  <2> QED
    BY <2>1, <2>7, <2>9, MemoryStep
<1>4. CASE RejectTorn
  <2>1. Halt /\ UNCHANGED <<issued, filedb, lastkv>>
    BY <1>4 DEF RejectTorn, fileVars, tableVars
  <2> QED
    BY <2>1, HaltKeepsLog
<1>5. CASE LoadAllOrders
  <2>1. /\ UNCHANGED <<issued, ch, cur, logID, savedLogID, writer, filedb, torn, lastkv>>
        /\ pc = "load" /\ pc' = "match"
        /\ orderID' = lastkv.order /\ latest' = lastkv.ticket
    BY <1>5 DEF LoadAllOrders, RecoveredOrderID, bankVars, fileVars, tableVars
  <2>2. ChannelInv' /\ WriterInv'
    BY <2>1 DEF LogInv, ChannelInv, WriterInv
  <2>3. OrderIDs' = OrderIDs /\ \A s : Tickets(s)' = Tickets(s)
    BY <2>1, SameNumbers
  <2>4. cur = Idle /\ torn = "no" /\ logID = Len(filedb) /\ lastkv.saved = Len(filedb)
    BY <2>1 DEF LogInv, MemoryInv
  <2>5. \A s \in Side : Logged(s)' = lastkv.ticket[s]
    BY <2>1, <2>4 DEF Logged, Idle, Side
  <2>6. /\ \A s \in Side : LastIs(Tickets(s), Len(filedb), lastkv.ticket[s])
        /\ LastIs(OrderIDs, Len(filedb), lastkv.order)
    BY <2>4 DEF LogInv, TableInv
  <2>7. MemoryInv'
    BY <2>1, <2>3, <2>4, <2>5, <2>6 DEF MemoryInv, Recovered, LastIs
  <2> QED
    BY <2>1, <2>2, <2>7, MemoryStep
<1>6. CASE Matched
  <2>1. /\ UNCHANGED <<issued, ch, logID, orderID, savedLogID, writer, filedb, torn, lastkv>>
        /\ pc = "match" /\ pc' = "recv" /\ cur' = Idle
        /\ latest' = IF cur = Idle THEN latest ELSE [latest EXCEPT ![cur.side] = cur.id]
    BY <1>6 DEF Matched, bankVars, fileVars, tableVars
  <2>2. ChannelInv' /\ WriterInv'
    BY <2>1 DEF LogInv, ChannelInv, WriterInv
  <2>3. OrderIDs' = OrderIDs /\ \A s : Tickets(s)' = Tickets(s)
    BY <2>1, SameNumbers
  <2>4. \A s \in Side : Logged(s)' = Logged(s)
    <3> SUFFICES ASSUME NEW s \in Side PROVE Logged(s)' = Logged(s)
      OBVIOUS
    <3>1. Logged(s)' = latest'[s]
      BY <2>1 DEF Logged, Idle, Side
    <3>2. latest \in [Side -> Nat]
      BY DEF TypeOK
    <3>3. CASE cur = Idle
      BY <2>1, <3>1, <3>3 DEF Logged, Idle, Side
    <3>4. CASE cur # Idle
      BY <2>1, <3>1, <3>2, <3>4 DEF Logged
    <3> QED
      BY <3>3, <3>4
  <2>5. /\ Recovered
        /\ \A s \in Side : LastIs(Tickets(s), Len(filedb), Logged(s))
        /\ LastIs(OrderIDs, Len(filedb), orderID)
        /\ logID = Len(filedb) /\ torn = "no"
    BY <2>1 DEF LogInv, MemoryInv, Recovered
  <2>6. MemoryInv'
    BY <2>1, <2>3, <2>4, <2>5 DEF MemoryInv, LastIs, Recovered
  <2> QED
    BY <2>1, <2>2, <2>6, MemoryStep
<1>7. CASE DropDuplicate
  <2>1. /\ UNCHANGED <<issued, pc, cur, latest, logID, orderID, savedLogID, writer,
                       filedb, torn, lastkv>>
        /\ ch # <<>> /\ ch' = Tail(ch)
    BY <1>7 DEF DropDuplicate, bookVars, fileVars, tableVars
  <2>2. ChannelInv'
    BY <2>1, TailKeepsChannel
  <2>3. WriterInv'
    BY <2>1 DEF LogInv, WriterInv
  <2>4. OrderIDs' = OrderIDs /\ \A s : Tickets(s)' = Tickets(s)
    BY <2>1, SameNumbers
  <2>5. MemoryInv'
    BY <2>1, <2>4 DEF LogInv, MemoryInv, Recovered, LastIs, Logged
  <2> QED
    BY <2>1, <2>2, <2>3, <2>5, MemoryStep
<1> QED
  BY <1>2, <1>3, <1>4, <1>5, <1>6, <1>7

(* One turn of the match loop logs a match with the next log id. *)
LEMMA MatchStep ==
    ASSUME TypeOK, LogInv, NEW a, NEW b, pc = "match", TryMatch(a, b)
    PROVE  LogInv'
<1> DEFINE line == MatchLine(a, b, TradeQty(a, b))
<1>1. /\ UNCHANGED <<issued, ch, pc, cur, latest, orderID, savedLogID, writer, torn, lastkv>>
      /\ logID' = logID + 1 /\ filedb' = Append(filedb, line)
  BY DEF TryMatch, bankVars, tableVars
<1>2. Len(filedb) \in Nat /\ Len(filedb)' = Len(filedb) + 1
  BY <1>1, Appended, LinesType
<1>3. logID = Len(filedb) /\ torn = "no" /\ pc = "match"
  BY DEF LogInv, MemoryInv
<1>4. ~IsOrder(line) /\ line.logID = Len(filedb) + 1
  BY <1>3 DEF MatchLine, IsOrder
<1> HIDE DEF line
<1>5. IssuedKept
  BY <1>1 DEF IssuedKept
<1>6. OrderIDs' = OrderIDs /\ \A s : Tickets(s)' = Tickets(s)
  BY <1>1, <1>4, SameNumbers
<1>7. TicketsInOrder' /\ OrderIDsInOrder'
  BY <1>1, <1>4, <1>5, SameTickets
<1>8. LogIDsAreLineNumbers'
  BY <1>1, <1>4, NextLogID DEF LogInv
<1>9. ChannelInv'
  BY <1>1 DEF LogInv, ChannelInv
<1>10. WriterInv'
  BY <1>1, <1>2 DEF LogInv, WriterInv, TypeOK
<1>11. TableInv'
  BY <1>1, <1>6 DEF LogInv, TableInv, LastIs
<1>12. MemoryInv'
  <2>1. ASSUME NEW f, NEW v, DOMAIN f \subseteq 1 .. Len(filedb), LastIs(f, Len(filedb), v)
        PROVE  LastIs(f, Len(filedb) + 1, v)
    <3>1. \A i \in DOMAIN f : i <= Len(filedb) /\ i <= Len(filedb) + 1
      BY <1>2, <2>1
    <3> QED
      BY <2>1, <3>1 DEF LastIs
  <2>2. DOMAIN OrderIDs \subseteq 1 .. Len(filedb)
    BY LinesType
  <2>3. \A s : DOMAIN Tickets(s) \subseteq 1 .. Len(filedb)
    BY LinesType
  <2>4. LastIs(OrderIDs, Len(filedb), orderID)
    BY <1>3 DEF LogInv, MemoryInv, Recovered
  <2>5. \A s \in Side : LastIs(Tickets(s), Len(filedb), Logged(s))
    BY <1>3 DEF LogInv, MemoryInv, Recovered
  <2>6. LastIs(OrderIDs, Len(filedb) + 1, orderID)
    BY <2>1, <2>2, <2>4
  <2>7. \A s \in Side : LastIs(Tickets(s), Len(filedb) + 1, Logged(s))
    BY <2>1, <2>3, <2>5
  <2>8. \A s : Logged(s)' = Logged(s)
    BY <1>1 DEF Logged
  <2>9. /\ LastIs(OrderIDs, Len(filedb), orderID)'
        /\ \A s \in Side : LastIs(Tickets(s), Len(filedb), Logged(s))'
    BY <1>1, <1>2, <1>6, <2>6, <2>7, <2>8 DEF LastIs
  <2>10. logID' = Len(filedb)' /\ torn' = "no" /\ pc' = "match"
    BY <1>1, <1>2, <1>3
  <2> QED
    BY <2>9, <2>10 DEF MemoryInv
<1> QED
  BY <1>7, <1>8, <1>9, <1>10, <1>11, <1>12 DEF LogInv

(* A new ticket becomes the next order of its side and the next line of the log. *)
LEMMA NewTicketStep ==
    ASSUME TypeOK, TypeOK', LogInv, NewTicket
    PROVE  LogInv'
<1> DEFINE q == Head(ch)
           l == [kind |-> "order", logID |-> logID + 1, id |-> orderID + 1,
                 ticket |-> q.id, side |-> q.side, price |-> q.price, qty |-> q.qty]
<1>1. /\ pc = "recv" /\ ch # <<>>
      /\ q.id > latest[q.side]
      /\ UNCHANGED <<issued, torn, lastkv>>
      /\ filedb' = IF q.id # latest[q.side] + 1 THEN filedb ELSE Append(filedb, l)
  BY DEF NewTicket, tableVars
<1>2. q = ch[1] /\ 1 \in DOMAIN ch /\ q \in Ticket
  BY <1>1, SMTT(30) DEF TypeOK
<1>3. q.side \in Side /\ q.id \in Nat /\ q.price \in Nat /\ q.qty \in Nat
  BY <1>2 DEF Ticket
<1>4. logID \in Nat /\ orderID \in Nat /\ latest[q.side] \in Nat
  BY <1>3 DEF TypeOK
<1>5. CASE q.id # latest[q.side] + 1
  <2>1. Halt /\ filedb' = filedb
    BY <1>1, <1>5 DEF NewTicket
  <2> QED
    BY <1>1, <2>1, HaltKeepsLog
<1>6. CASE q.id = latest[q.side] + 1
  <2> DEFINE u == latest[q.side]
             n == Len(filedb)
  <2>1. PICK line \in OrderLog : line = l
    <3>1. logID + 1 \in Nat /\ orderID + 1 \in Nat
      BY <1>4
    <3> HIDE DEF q
    <3>2. l \in OrderLog
      BY <1>3, <3>1 DEF OrderLog
    <3> QED
      BY <3>2
  <2>2. /\ line.logID = logID + 1 /\ line.id = orderID + 1 /\ line.ticket = u + 1
        /\ line.side = q.side /\ line.price = q.price /\ line.qty = q.qty
    BY <1>6, <2>1
  <2>3. filedb' = Append(filedb, line) /\ IsOrder(line)
    BY <1>1, <1>6, <2>1 DEF IsOrder
  <2>4. /\ logID = n /\ torn = "no" /\ cur = Idle
        /\ LastIs(OrderIDs, n, orderID)
        /\ \A s \in Side : LastIs(Tickets(s), n, latest[s])
    BY <1>1 DEF LogInv, MemoryInv, Recovered, Logged, Idle, Side
  <2> HIDE DEF q, l
  <2>5. LastIs(Tickets(line.side), n, u)
    BY <1>3, <2>2, <2>4
  <2>6. /\ InOrder(OrderIDs') /\ LastIs(OrderIDs', n + 1, orderID + 1)
        /\ InOrder(Tickets(line.side)')
        /\ LastIs(Tickets(line.side)', n + 1, u + 1)
        /\ \A s : s # line.side => Tickets(s)' = Tickets(s)
        /\ \A m \in Nat : \A w : m <= n =>
              /\ LastIs(OrderIDs, m, w) => LastIs(OrderIDs', m, w)
              /\ LastIs(Tickets(line.side), m, w) => LastIs(Tickets(line.side)', m, w)
    BY <1>4, <2>2, <2>3, <2>4, <2>5, NextOrder
  <2>7. n \in Nat /\ Len(filedb') = n + 1
    BY <2>3, Appended, LinesType
  <2>8. LogIDsAreLineNumbers'
    BY <2>2, <2>3, <2>4, NextLogID DEF LogInv
  <2>9. OrderIDsInOrder'
    BY <2>6 DEF OrderIDsInOrder, InOrder
  <2>10. TicketsInOrder'
    <3>1. ASSUME NEW s \in Side PROVE InOrder(Tickets(s)')
      <4>1. CASE s = line.side
        BY <2>6, <4>1
      <4>2. CASE s # line.side
        <5>1. Tickets(s)' = Tickets(s) /\ InOrder(Tickets(s))
          BY <2>6, <4>2 DEF LogInv, TicketsInOrder
        <5> QED
          BY <5>1
      <4> QED
        BY <4>1, <4>2
    <3>2. ASSUME NEW s \in Side, NEW i \in OrderLinesOf(s)'
          PROVE  /\ filedb'[i].ticket \in DOMAIN issued[s]
                 /\ [price |-> filedb'[i].price, qty |-> filedb'[i].qty]
                        = issued[s][filedb'[i].ticket]
      <4>1. /\ \A k \in Lines : filedb'[k] = filedb[k]
            /\ filedb'[Len(filedb) + 1] = line
            /\ OrderLines' = OrderLines \cup {Len(filedb) + 1}
            /\ OrderLinesOf(line.side)' = OrderLinesOf(line.side) \cup {Len(filedb) + 1}
            /\ \A r : r # line.side => OrderLinesOf(r)' = OrderLinesOf(r)
        BY <2>3, AppendedOrder
      <4>2. CASE i \in OrderLinesOf(s)
        <5>1. i \in Lines
          BY <4>2, LinesType
        <5>2. filedb'[i] = filedb[i]
          BY <4>1, <5>1
        <5> QED
          BY <4>2, <5>2 DEF LogInv, TicketsInOrder
      <4>3. CASE i \notin OrderLinesOf(s)
        <5>1. s = line.side /\ i = Len(filedb) + 1 /\ filedb'[i] = line
          BY <3>2, <4>1, <4>3
        <5>2. /\ q.id \in DOMAIN issued[q.side]
              /\ [price |-> q.price, qty |-> q.qty] = issued[q.side][q.id]
          BY <1>2 DEF LogInv, ChannelInv
        <5> QED
          BY <1>6, <2>2, <5>1, <5>2
      <4> QED
        BY <4>2, <4>3
    <3> QED
      BY <1>1, <3>1, <3>2 DEF TicketsInOrder, InOrder
  <2>11. lastkv'.saved <= Len(filedb') /\ lastkv.saved \in Nat /\ lastkv.saved <= n
    BY SMTT(30), <1>1, <2>7 DEF LogInv, WriterInv, TypeOK
  <2>12. TableInv'
    <3>1. LastIs(OrderIDs', lastkv.saved, lastkv.order)
      BY <2>6, <2>11 DEF LogInv, TableInv
    <3>2. ASSUME NEW s \in Side PROVE LastIs(Tickets(s)', lastkv.saved, lastkv.ticket[s])
      <4>1. LastIs(Tickets(s), lastkv.saved, lastkv.ticket[s])
        BY DEF LogInv, TableInv
      <4>2. CASE s = line.side
        BY <2>6, <2>11, <4>1, <4>2
      <4>3. CASE s # line.side
        BY <2>6, <4>1, <4>3
      <4> QED
        BY <4>2, <4>3
    <3> QED
      BY <1>1, <3>1, <3>2 DEF TableInv, LastIs
  <2>13. CASE Halt
    BY <2>8, <2>9, <2>10, <2>11, <2>12, <2>13, HaltStep DEF DurableInv
  <2>14. CASE ~Halt
    <3>1. /\ orderID' = orderID + 1 /\ logID' = logID + 1
          /\ cur' = [side |-> q.side, id |-> q.id]
          /\ ch' = Tail(ch) /\ pc' = "match"
          /\ UNCHANGED <<latest, savedLogID, writer>>
      BY <2>14 DEF NewTicket, q
    <3>2. ChannelInv'
      BY <1>1, <3>1, TailKeepsChannel
    <3>3. WriterInv'
      BY <1>1, <2>7, <2>11, <3>1 DEF LogInv, WriterInv
    <3>4. /\ logID' = Len(filedb') /\ torn' = "no"
          /\ LastIs(OrderIDs', Len(filedb'), orderID')
      BY <1>1, <2>4, <2>6, <2>7, <3>1
    <3>5. ASSUME NEW s \in Side PROVE LastIs(Tickets(s)', Len(filedb'), Logged(s)')
      <4>1. CASE s = line.side
        <5>1. Logged(s)' = u + 1
          BY <1>6, <2>2, <3>1, <4>1 DEF Logged
        <5> QED
          BY <2>6, <2>7, <4>1, <5>1
      <4>2. CASE s # line.side
        <5>1. Logged(s)' = latest[s]
          BY <2>2, <3>1, <4>2 DEF Logged
        <5>2. Tickets(s)' = Tickets(s) /\ LastIs(Tickets(s), n, latest[s])
          BY <2>4, <2>6, <4>2
        <5>3. \A i \in DOMAIN Tickets(s) : i <= n /\ i <= n + 1
          BY <2>7, LinesType
        <5>4. LastIs(Tickets(s), n + 1, latest[s])
          BY <5>2, <5>3 DEF LastIs
        <5> QED
          BY <2>7, <5>1, <5>2, <5>4
      <4> QED
        BY <4>1, <4>2
    <3>6. MemoryInv'
      BY <3>1, <3>4, <3>5 DEF MemoryInv, LastIs
    <3> QED
      BY <2>8, <2>9, <2>10, <2>12, <3>2, <3>3, <3>6 DEF LogInv
  <2> QED
    BY <2>13, <2>14
<1> QED
  BY <1>5, <1>6

(* What an append leaves, for a sequence of anything: the ticket channel. *)
LEMMA AppendedEntry ==
    ASSUME NEW T, NEW q \in Seq(T), NEW e, NEW r, r = Append(q, e)
    PROVE  /\ Len(q) \in Nat /\ DOMAIN r = DOMAIN q \cup {Len(q) + 1}
           /\ \A k \in DOMAIN q : r[k] = q[k]
           /\ r[Len(q) + 1] = e
OBVIOUS

(* The ticket stream: what Pull sends is the next ticket the bank issued. *)
LEMMA StreamStep ==
    ASSUME TypeOK, LogInv, NEW s \in Side, Connect(s) \/ Pull(s) \/ Break(s)
    PROVE  LogInv'
<1>1. UNCHANGED <<issued, pc, cur, latest, logID, orderID, savedLogID, writer, filedb, torn, lastkv>>
  BY DEF Connect, Pull, Break, bookVars, fileVars, tableVars
<1>2. ChannelInv'
  <2>1. CASE Connect(s) \/ Break(s)
    BY <1>1, <2>1 DEF Connect, Break, LogInv, ChannelInv
  <2>2. CASE Pull(s)
    <3> DEFINE n == stream[s] + 1
               t == [side |-> s, id |-> n, price |-> issued[s][n].price,
                     qty |-> issued[s][n].qty]
    <3>1. ch' = Append(ch, t) /\ n \in Nat \ {0} /\ n <= Len(issued[s])
      BY SMTT(30), <2>2 DEF Pull, TypeOK, Off
    <3>2. issued[s] \in Seq(Requests)
      BY DEF TypeOK
    <3>3. n \in DOMAIN issued[s]
      BY <3>1, <3>2
    <3>4. issued[s][n] \in [price : Nat \ {0}, qty : Nat \ {0}]
      BY <3>2, <3>3, OmeAssumption
    <3>5. [price |-> t.price, qty |-> t.qty] = issued[t.side][t.id]
      BY <3>4
    <3>6. t.id \in DOMAIN issued[t.side]
      BY <3>3
    <3> HIDE DEF t
    <3>7. /\ Len(ch) \in Nat /\ DOMAIN ch' = DOMAIN ch \cup {Len(ch) + 1}
          /\ \A k \in DOMAIN ch : ch'[k] = ch[k]
          /\ ch'[Len(ch) + 1] = t
      <4>1. ch \in Seq(Ticket) /\ ch' = Append(ch, t)
        BY <3>1 DEF TypeOK
      <4> QED
        BY <4>1, AppendedEntry
    <3> QED
      BY <1>1, <3>5, <3>6, <3>7 DEF LogInv, ChannelInv
  <2> QED
    BY <2>1, <2>2
<1>3. WriterInv'
  BY <1>1 DEF LogInv, WriterInv
<1>4. OrderIDs' = OrderIDs /\ \A q : Tickets(q)' = Tickets(q)
  BY <1>1, SameNumbers
<1>5. MemoryInv'
  BY <1>1, <1>4 DEF LogInv, MemoryInv, Recovered, LastIs, Logged
<1> QED
  BY <1>1, <1>2, <1>3, <1>5, MemoryStep

(* A round of the writer starts from the lastkv row it reads, or fails. *)
LEMMA RoundStep ==
    ASSUME TypeOK, LogInv, WriterRound \/ WriterRoundFails
    PROVE  LogInv'
<1>1. /\ UNCHANGED <<issued, ch, pc, cur, latest, logID, orderID, filedb, torn, lastkv>>
      /\ writer = Off
      /\ \/ savedLogID' = lastkv.saved /\ writer' = 0
         \/ savedLogID' = 0 /\ writer' = Off
  BY DEF WriterRound, WriterRoundFails, bankVars, bookVars, fileVars, tableVars
<1>2. ChannelInv'
  BY <1>1 DEF LogInv, ChannelInv
<1>3. WriterInv'
  <2>1. lastkv.saved \in Nat
    BY DEF TypeOK
  <2> QED
    BY <1>1, <2>1 DEF LogInv, WriterInv
<1>4. OrderIDs' = OrderIDs /\ \A q : Tickets(q)' = Tickets(q)
  BY <1>1, SameNumbers
<1>5. MemoryInv'
  BY <1>1, <1>4 DEF LogInv, MemoryInv, Recovered, LastIs, Logged
<1> QED
  BY <1>1, <1>2, <1>3, <1>5, MemoryStep

(* What a batch is, and what its lastkv rows then speak for. *)
LEMMA BatchStep ==
    ASSUME TypeOK, LogInv, NEW n \in 1 .. BatchMax, CanTake(n)
    PROVE  /\ writer \in Nat /\ writer + n \in 1 .. Len(filedb)
           /\ savedLogID = lastkv.saved /\ writer <= savedLogID /\ savedLogID \in Nat
           /\ filedb[writer + n].logID = writer + n
           /\ NotSaved(n) = {i \in 1 .. Len(filedb) : savedLogID < i /\ i <= writer + n}
           /\ NotSaved(n) = {} <=> writer + n <= savedLogID
<1>1. /\ writer \in Nat /\ writer + n \in 1 .. Len(filedb) /\ Len(filedb) \in Nat
      /\ n \in Nat \ {0}
  BY OmeAssumption DEF CanTake, TypeOK, Off
<1>2. savedLogID = lastkv.saved /\ writer <= savedLogID /\ savedLogID \in Nat
  BY DEF LogInv, WriterInv, CanTake, TypeOK
<1>3. \A i \in 1 .. Len(filedb) : filedb[i].logID = i
  BY SMTT(30) DEF LogInv, LogIDsAreLineNumbers, Lines, TypeOK
<1>4. \A i \in Batch(n) : i \in 1 .. Len(filedb)
  BY <1>1 DEF Batch
<1>5. NotSaved(n) = {i \in Batch(n) : i > savedLogID}
  BY <1>3, <1>4 DEF NotSaved
<1>6. \A i : i \in Batch(n) /\ i > savedLogID
              <=> i \in 1 .. Len(filedb) /\ savedLogID < i /\ i <= writer + n
  BY <1>1, <1>2 DEF Batch
<1>7. NotSaved(n) = {i \in 1 .. Len(filedb) : savedLogID < i /\ i <= writer + n}
  BY <1>5, <1>6
<1>8. NotSaved(n) = {} <=> writer + n <= savedLogID
  BY <1>1, <1>2, <1>7
<1> QED
  BY <1>1, <1>2, <1>3, <1>7, <1>8

(* The lastkv rows a batch writes speak for the log up to the batch's last line. *)
LEMMA SaveStep ==
    ASSUME TypeOK, LogInv, NEW n \in 1 .. BatchMax, CanTake(n), NotSaved(n) # {},
           Save(NotSaved(n))
    PROVE  /\ lastkv'.saved = writer + n
           /\ LastIs(OrderIDs, writer + n, lastkv'.order)
           /\ \A s \in Side : LastIs(Tickets(s), writer + n, lastkv'.ticket[s])
<1> DEFINE S == NotSaved(n)
           a == lastkv.saved
           b == writer + n
<1>1. /\ writer \in Nat /\ b \in 1 .. Len(filedb)
      /\ savedLogID = a /\ writer <= savedLogID /\ savedLogID \in Nat
      /\ filedb[b].logID = b
      /\ S = {i \in 1 .. Len(filedb) : savedLogID < i /\ i <= b}
      /\ S = {} <=> b <= savedLogID
  BY BatchStep
<1>2. a < b /\ a \in Nat /\ b \in Nat
  BY <1>1
<1>3. Max(S) = b
  <2>1. b \in S /\ S \in SUBSET (1 .. Len(filedb)) /\ \A i \in S : i <= b
    BY <1>1
  <2>0. \A i \in S : i \in Nat
    BY <1>1
  <2> HIDE DEF S, b
  <2>2. Max(S) \in S /\ \A i \in S : i <= Max(S)
    BY <2>1, BatchMaxInLog
  <2>3. Max(S) <= b /\ b <= Max(S)
    BY <2>1, <2>2
  <2>4. Max(S) \in Nat
    BY <2>0, <2>2
  <2> QED
    BY <1>2, <2>3, <2>4
<1>4. /\ OrderLines \in SUBSET Nat /\ OrderLines \subseteq 1 .. Len(filedb)
      /\ OrderIDs \in [OrderLines -> Nat]
      /\ \A s : /\ OrderLinesOf(s) \in SUBSET Nat /\ OrderLinesOf(s) \subseteq OrderLines
                /\ Tickets(s) \in [OrderLinesOf(s) -> Nat]
  BY LinesType
<1>5. \A s \in Side : LastOrder(S, {s}) = {i \in OrderLinesOf(s) : a < i /\ i <= b}
  <2> SUFFICES ASSUME NEW s \in Side, NEW i
               PROVE  i \in LastOrder(S, {s})
                          <=> i \in OrderLinesOf(s) /\ a < i /\ i <= b
    BY Zenon
  <2> QED
    BY <1>1, <1>4, LinesType DEF LastOrder, OrderLinesOf, OrderLines
<1>6. LastOrder(S, Side) = {i \in OrderLines : a < i /\ i <= b}
  <2>1. \A i \in OrderLines : filedb[i].side \in Side
    BY LinesType
  <2> SUFFICES ASSUME NEW i
               PROVE  i \in LastOrder(S, Side) <=> i \in OrderLines /\ a < i /\ i <= b
    BY Zenon
  <2> QED
    BY <1>1, <1>4, <2>1, LinesType DEF LastOrder, OrderLines
<1>7. /\ lastkv.order \in Nat /\ \A s \in Side : lastkv.ticket[s] \in Nat
      /\ InOrder(OrderIDs) /\ LastIs(OrderIDs, a, lastkv.order)
      /\ \A s \in Side : InOrder(Tickets(s)) /\ LastIs(Tickets(s), a, lastkv.ticket[s])
  BY DEF LogInv, TableInv, OrderIDsInOrder, TicketsInOrder, TypeOK
<1>8. lastkv' = LastKv(lastkv, S)
  BY DEF Save
<1> HIDE DEF S, b
<1>9. lastkv'.saved = b
  <2>1. lastkv'.saved = Bigger(a, filedb[Max(S)].logID)
    BY <1>8 DEF LastKv
  <2> QED
    BY <1>1, <1>2, <1>3, <2>1 DEF Bigger
<1>10. LastIs(OrderIDs, b, lastkv'.order)
  <2> DEFINE own == LastOrder(S, Side)
  <2>1. lastkv'.order = IF own = {} THEN lastkv.order
                        ELSE Bigger(lastkv.order, filedb[Max(own)].id)
    BY <1>8 DEF LastKv
  <2>2. own = {i \in OrderLines : a < i /\ i <= b}
    BY <1>6
  <2>3. a <= b /\ a \in Nat /\ b \in Nat
    BY <1>2
  <2>4. OrderLines \in SUBSET Nat /\ OrderIDs \in [OrderLines -> Nat]
    BY <1>4
  <2>5. InOrder(OrderIDs) /\ LastIs(OrderIDs, a, lastkv.order) /\ lastkv.order \in Nat
    BY <1>7
  <2> HIDE DEF own, a
  <2>6. /\ own = {} => LastIs(OrderIDs, b, lastkv.order)
        /\ own # {} => /\ Max(own) \in own
                       /\ LastIs(OrderIDs, b, Bigger(lastkv.order, OrderIDs[Max(own)]))
    BY SMTT(30), <2>2, <2>3, <2>4, <2>5, NumberAdvance
  <2>7. own # {} => OrderIDs[Max(own)] = filedb[Max(own)].id
    BY <2>2, <2>6 DEF OrderIDs
  <2> QED
    BY <2>1, <2>6, <2>7
<1>11. ASSUME NEW s \in Side PROVE LastIs(Tickets(s), b, lastkv'.ticket[s])
  <2> DEFINE own == LastOrder(S, {s})
             K   == OrderLinesOf(s)
             f   == Tickets(s)
             u   == lastkv.ticket[s]
  <2>1. lastkv'.ticket[s] = IF own = {} THEN u ELSE Bigger(u, filedb[Max(own)].ticket)
    BY <1>8 DEF LastKv
  <2>2. own = {i \in K : a < i /\ i <= b}
    BY <1>5
  <2>3. K \in SUBSET Nat /\ f \in [K -> Nat]
    BY <1>4
  <2>4. InOrder(f) /\ LastIs(f, a, u) /\ u \in Nat
    BY <1>7
  <2>5. \A i \in K : f[i] = filedb[i].ticket
    BY DEF Tickets
  <2>6. a <= b /\ a \in Nat /\ b \in Nat
    BY <1>2
  <2> HIDE DEF own, a, K, f, u
  <2>7. /\ own = {} => LastIs(f, b, u)
        /\ own # {} => Max(own) \in own /\ LastIs(f, b, Bigger(u, f[Max(own)]))
    BY <2>2, <2>3, <2>4, <2>6, NumberAdvance
  <2>8. own # {} => f[Max(own)] = filedb[Max(own)].ticket
    BY <2>2, <2>5, <2>7
  <2>9. LastIs(f, b, lastkv'.ticket[s])
    BY <2>1, <2>7, <2>8
  <2> QED
    BY <2>9 DEF f
<1> QED
  BY <1>9, <1>10, <1>11 DEF b

(* A batch is skipped, saved or fails: the tables keep speaking for the log. *)
LEMMA BatchesStep ==
    ASSUME TypeOK, TypeOK', LogInv, NEW n \in 1 .. BatchMax,
           WriterSkips(n) \/ WriterSaves(n) \/ WriterFails(n)
    PROVE  LogInv'
<1>1. CanTake(n)
  BY DEF WriterSkips, WriterSaves, WriterFails
<1>2. UNCHANGED <<issued, ch, pc, cur, latest, logID, orderID, filedb, torn>>
  BY DEF WriterSkips, WriterSaves, WriterFails, bankVars, bookVars, fileVars
<1>3. /\ writer \in Nat /\ writer + n \in 1 .. Len(filedb)
      /\ savedLogID = lastkv.saved /\ writer <= savedLogID /\ savedLogID \in Nat
      /\ filedb[writer + n].logID = writer + n
      /\ NotSaved(n) = {i \in 1 .. Len(filedb) : savedLogID < i /\ i <= writer + n}
      /\ NotSaved(n) = {} <=> writer + n <= savedLogID
  BY <1>1, BatchStep
<1>4. Len(filedb) \in Nat /\ lastkv.saved <= Len(filedb)
  BY DEF LogInv, WriterInv, TypeOK
<1>5. ChannelInv'
  BY <1>2 DEF LogInv, ChannelInv
<1>6. CASE UNCHANGED lastkv
  <2>1. WriterInv'
    <3>1. CASE WriterSkips(n)
      BY <1>3, <1>4, <1>6, <3>1, <1>2 DEF WriterSkips, WriterInv
    <3>2. CASE WriterFails(n)
      BY <1>3, <1>4, <1>6, <3>2, <1>2 DEF WriterFails, WriterInv, bankVars, bookVars
    <3>3. CASE WriterSaves(n)
      <4>1. lastkv'.saved = writer + n
        BY <1>1, <3>3, SaveStep DEF WriterSaves
      <4> QED
        BY <1>3, <1>6, <3>3, <4>1 DEF WriterSaves
    <3> QED
      BY <3>1, <3>2, <3>3
  <2>2. OrderIDs' = OrderIDs /\ \A q : Tickets(q)' = Tickets(q)
    BY <1>2, SameNumbers
  <2>3. MemoryInv'
    BY <1>2, <1>6, <2>2 DEF LogInv, MemoryInv, Recovered, LastIs, Logged
  <2> QED
    BY <1>2, <1>5, <1>6, <2>1, <2>3, MemoryStep
<1>7. CASE NotSaved(n) # {} /\ Save(NotSaved(n))
  <2>1. /\ lastkv'.saved = writer + n
        /\ LastIs(OrderIDs, writer + n, lastkv'.order)
        /\ \A s \in Side : LastIs(Tickets(s), writer + n, lastkv'.ticket[s])
    BY <1>1, <1>7, SaveStep
  <2>2. OrderIDs' = OrderIDs /\ \A q : Tickets(q)' = Tickets(q)
    BY <1>2, SameNumbers
  <2>3. TableInv'
    BY <2>1, <2>2 DEF TableInv, LastIs
  <2>4. IssuedKept
    BY <1>2 DEF IssuedKept
  <2>5. LogIDsAreLineNumbers'
    BY <1>2 DEF LogInv, LogIDsAreLineNumbers, Lines
  <2>6. TicketsInOrder' /\ OrderIDsInOrder'
    BY <1>2, <2>4, SameTickets
  <2>7. lastkv.saved < writer + n /\ writer + n <= Len(filedb)
    BY <1>3, <1>7
  <2>8. WriterInv'
    <3>1. CASE WriterSaves(n)
      <4>1. savedLogID' = writer + n /\ writer' = writer + n
        BY <1>3, <3>1 DEF WriterSaves
      <4> QED
        BY <1>2, <1>3, <1>4, <2>1, <2>7, <4>1 DEF WriterInv
    <3>2. CASE WriterFails(n)
      <4>1. savedLogID' = savedLogID /\ writer' = Off
        BY <3>2 DEF WriterFails
      <4> QED
        BY <1>2, <1>3, <1>4, <2>1, <2>7, <4>1 DEF WriterInv
    <3>3. CASE WriterSkips(n)
      BY <1>7, <3>3 DEF WriterSkips
    <3> QED
      BY <3>1, <3>2, <3>3
  <2>9. MemoryInv'
    <3>1. pc # "load"
      BY <1>3, <1>4, <2>7 DEF LogInv, MemoryInv
    <3> QED
      BY <1>2, <2>2, <3>1 DEF LogInv, MemoryInv, Recovered, LastIs, Logged
  <2> QED
    BY <1>5, <2>3, <2>5, <2>6, <2>8, <2>9 DEF LogInv
<1> QED
  BY <1>6, <1>7 DEF WriterSkips, WriterSaves, WriterFails, tableVars

(* Every step keeps LogInv. *)
LEMMA LogInvStep == TypeOK /\ TypeOK' /\ LogInv /\ [Next]_vars => LogInv'
<1> SUFFICES ASSUME TypeOK, TypeOK', LogInv, [Next]_vars PROVE LogInv'
  OBVIOUS
<1>1. ASSUME NEW s \in Side, NEW r \in Requests, Issue(s, r) PROVE LogInv'
  BY <1>1, IssueStep
<1>2. CASE Start \/ WaitForFiledb \/ RejectTorn \/ LoadAllOrders \/ Matched \/ DropDuplicate
  BY <1>2, RecoveryStep
<1>3. CASE Match
  <2>1. PICK m \in Crossing(asks, bids) : TryMatch(m[1], m[2])
    BY <1>3 DEF Match
  <2>2. pc = "match"
    BY <1>3 DEF Match
  <2> QED
    BY <2>1, <2>2, MatchStep
<1>4. CASE NewTicket
  BY <1>4, NewTicketStep
<1>5. ASSUME NEW s \in Side, Connect(s) \/ Pull(s) \/ Break(s) PROVE LogInv'
  BY <1>5, StreamStep
<1>6. CASE WriterRound \/ WriterRoundFails
  BY <1>6, RoundStep
<1>7. ASSUME NEW n \in 1 .. BatchMax, WriterSkips(n) \/ WriterSaves(n) \/ WriterFails(n)
      PROVE  LogInv'
  BY <1>7, BatchesStep
<1>8. CASE Crash \/ CrashInWrite
  <2>1. Halt /\ UNCHANGED <<issued, filedb, lastkv>>
    BY <1>8 DEF Crash, CrashInWrite, fileVars, tableVars
  <2> QED
    BY <2>1, HaltKeepsLog
<1>9. CASE UNCHANGED vars
  <2>1. UNCHANGED <<issued, ch, pc, cur, latest, logID, orderID, savedLogID, writer,
                    filedb, torn, lastkv>>
    BY <1>9 DEF vars, bankVars, bookVars, fileVars, tableVars
  <2>2. ChannelInv' /\ WriterInv'
    BY <2>1 DEF LogInv, ChannelInv, WriterInv
  <2>3. OrderIDs' = OrderIDs /\ \A q : Tickets(q)' = Tickets(q)
    BY <2>1, SameNumbers
  <2>4. MemoryInv'
    BY <2>1, <2>3 DEF LogInv, MemoryInv, Recovered, LastIs, Logged
  <2> QED
    BY <2>1, <2>2, <2>4, MemoryStep
<1> QED
  BY <1>1, <1>2, <1>3, <1>4, <1>5, <1>6, <1>7, <1>8, <1>9 DEF Next, Main, Streams, Writer

(* LogInv holds in every reachable state, for any number of tickets and faults
   and any capacity and batch size: log, tables and memory agree on the last
   line, order and ticket (WaitForFiledb, LoadAllOrders, ParseAndWriteLogs). *)
THEOREM LogInvariant == Spec => []LogInv
<1>1. Init => TypeOK /\ LogInv
  BY TypeInit, LogInvInit
<1>2. TypeOK /\ LogInv /\ [Next]_vars => TypeOK' /\ LogInv'
  BY TypeStep, LogInvStep
<1> QED
  BY <1>1, <1>2, PTL DEF Spec

(* The log id of a line is its number, so "logID <= SavedLogID" tells exactly
   the lines MySQL has (LoadSavedLogID, WaitForFiledb, ParseAndWriteLogs). *)
THEOREM LogIDsCorrect == Spec => []LogIDsAreLineNumbers
<1>1. LogInv => LogIDsAreLineNumbers
  BY DEF LogInv
<1> QED
  BY <1>1, LogInvariant, PTL

(* However often the process dies, the streams break and transactions fail, the
   log takes the tickets of each bank once each, in order and complete
   (TicketToMatchEngine, PullTickets, LoadAllOrders). *)
THEOREM TicketsCorrect == Spec => []TicketsInOrder
<1>1. LogInv => TicketsInOrder
  BY DEF LogInv
<1> QED
  BY <1>1, LogInvariant, PTL

(* Order ids are handed out once each and without a gap across restarts
   (OrderID, lastkv.ome_orderid). *)
THEOREM OrderIDsCorrect == Spec => []OrderIDsInOrder
<1>1. LogInv => OrderIDsInOrder
  BY DEF LogInv
<1> QED
  BY <1>1, LogInvariant, PTL
=============================================================================
