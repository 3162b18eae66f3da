---------------------------- MODULE LedgerProofs ----------------------------
(***************************************************************************)
(* What the lines of a bank's log add up to: the balances in memory and in *)
(* MySQL, the rows of the ticket table, and what is frozen for the trades  *)
(* to come; and, from all of it, that the log is the run of a Ledger.      *)
(***************************************************************************)
EXTENDS StreamProofs

(* What a line adds is a number, and nothing for a user it does not name. *)
LEMMA Effect ==
    ASSUME NEW l \in Line, NEW o
    PROVE  /\ Gain(l, o) \in Int /\ Freeze(l, o) \in Int
           /\ o \notin Users(l) => Gain(l, o) = 0 /\ Freeze(l, o) = 0
<1>1. CASE IsTicket(l)
  <2>1. l.total \in Nat
    BY <1>1, LineShape DEF TicketLine
  <2> QED
    BY <1>1, <2>1 DEF Gain, Freeze, Users
<1>2. CASE ~IsTicket(l)
  <2>1. l.amount \in Nat
    BY <1>2, LineShape DEF ChangeLine
  <2> QED
    BY <1>2, <2>1 DEF Gain, Freeze, Users
<1> QED
  BY <1>1, <1>2

(* The replay of a line more. *)
LEMMA ReplayNext ==
    ASSUME TypeOK, NEW o, NEW i \in Nat
    PROVE  /\ i <= Len(filedb) => Replay(o, i) \in Money
           /\ i + 1 <= Len(filedb) =>
                Replay(o, i + 1) = [free   |-> Replay(o, i).free + Gain(filedb[i + 1], o),
                                    freeze |-> Replay(o, i).freeze + Freeze(filedb[i + 1], o)]
<1> DEFINE g(n) == [j \in 1 .. n |-> Gain(filedb[j], o)]
           f(n) == [j \in 1 .. n |-> Freeze(filedb[j], o)]
           d == IF o \in Rows THEN Deposit ELSE 0
<1>1. Len(filedb) \in Nat /\ DOMAIN filedb = 1 .. Len(filedb) /\ d \in Int
  BY Shapes, BankAssumption
<1>2. ASSUME NEW n \in Nat, n <= Len(filedb)
      PROVE  /\ g(n) \in [1 .. n -> Int] /\ f(n) \in [1 .. n -> Int] /\ IsFiniteSet(1 .. n)
             /\ SumFunction(g(n)) \in Int /\ SumFunction(f(n)) \in Int
  <2>1. \A j \in 1 .. n : filedb[j] \in Line
    BY <1>1, <1>2, Shapes
  <2>2. g(n) \in [1 .. n -> Int] /\ f(n) \in [1 .. n -> Int] /\ IsFiniteSet(1 .. n)
    BY <2>1, Effect, FS_Interval
  <2> HIDE DEF g, f
  <2>3. SumFunction(g(n)) \in Int /\ SumFunction(f(n)) \in Int
    BY <2>2, SumOfInt
  <2> QED
    BY <2>2, <2>3
<1>3. \A n : Replay(o, n) = [free |-> d + SumFunction(g(n)), freeze |-> SumFunction(f(n))]
  BY DEF Replay
<1>4. ASSUME i + 1 <= Len(filedb)
      PROVE  /\ SumFunction(g(i + 1)) = SumFunction(g(i)) + Gain(filedb[i + 1], o)
             /\ SumFunction(f(i + 1)) = SumFunction(f(i)) + Freeze(filedb[i + 1], o)
  <2>1. /\ i <= Len(filedb) /\ i + 1 \in Nat /\ 1 .. i + 1 = (1 .. i) \cup {i + 1}
        /\ i + 1 \notin 1 .. i
    BY <1>1, <1>4
  <2>2. /\ \A j \in 1 .. i : g(i + 1)[j] = g(i)[j] /\ f(i + 1)[j] = f(i)[j]
        /\ g(i + 1)[i + 1] = Gain(filedb[i + 1], o)
        /\ f(i + 1)[i + 1] = Freeze(filedb[i + 1], o)
    BY <2>1
  <2>3. /\ g(i) \in [1 .. i -> Int] /\ g(i + 1) \in [(1 .. i) \cup {i + 1} -> Int]
        /\ f(i) \in [1 .. i -> Int] /\ f(i + 1) \in [(1 .. i) \cup {i + 1} -> Int]
        /\ IsFiniteSet(1 .. i)
    <3> HIDE DEF g, f
    <3> QED
      BY <1>2, <1>4, <2>1
  <2> HIDE DEF g, f
  <2>4. SumFunction(g(i + 1)) = SumFunction(g(i)) + g(i + 1)[i + 1]
    <3>1. PICK S, u, v : S = 1 .. i /\ u = g(i) /\ v = g(i + 1)
      OBVIOUS
    <3>2. /\ IsFiniteSet(S) /\ u \in [S -> Int] /\ v \in [S \cup {i + 1} -> Int]
          /\ i + 1 \notin S /\ \A j \in S : v[j] = u[j]
      BY <2>1, <2>2, <2>3, <3>1
    <3>3. SumFunction(v) = SumFunction(u) + v[i + 1]
      BY <3>2, SumAdd
    <3> QED
      BY <3>1, <3>3
  <2>5. SumFunction(f(i + 1)) = SumFunction(f(i)) + f(i + 1)[i + 1]
    <3>1. PICK S, u, v : S = 1 .. i /\ u = f(i) /\ v = f(i + 1)
      OBVIOUS
    <3>2. /\ IsFiniteSet(S) /\ u \in [S -> Int] /\ v \in [S \cup {i + 1} -> Int]
          /\ i + 1 \notin S /\ \A j \in S : v[j] = u[j]
      BY <2>1, <2>2, <2>3, <3>1
    <3>3. SumFunction(v) = SumFunction(u) + v[i + 1]
      BY <3>2, SumAdd
    <3> QED
      BY <3>1, <3>3
  <2> QED
    BY <2>2, <2>4, <2>5
<1>5. i <= Len(filedb) => Replay(o, i) \in Money
  <2> HIDE DEF g, f, d
  <2> QED
    BY <1>1, <1>2, <1>3 DEF Money
<1>6. i + 1 <= Len(filedb) =>
          Replay(o, i + 1) = [free   |-> Replay(o, i).free + Gain(filedb[i + 1], o),
                              freeze |-> Replay(o, i).freeze + Freeze(filedb[i + 1], o)]
  <2> SUFFICES ASSUME i + 1 <= Len(filedb)
               PROVE  /\ d + SumFunction(g(i + 1)) = (d + SumFunction(g(i))) + Gain(filedb[i + 1], o)
                      /\ SumFunction(f(i + 1)) = SumFunction(f(i)) + Freeze(filedb[i + 1], o)
    <3> HIDE DEF g, f, d
    <3> QED
      BY <1>3
  <2>1. i <= Len(filedb) /\ i + 1 \in DOMAIN filedb
    BY <1>1
  <2>2. SumFunction(g(i)) \in Int /\ Gain(filedb[i + 1], o) \in Int
    BY <1>2, <2>1, Shapes, Effect
  <2> HIDE DEF g, f, d
  <2> QED
    BY <1>1, <1>4, <2>2
<1> QED
  BY <1>5, <1>6

(* Before any line a user has the deposit. *)
LEMMA ReplayNone ==
    ASSUME NEW o
    PROVE  Replay(o, 0) = [free |-> IF o \in Rows THEN Deposit ELSE 0, freeze |-> 0]
<1>1. SumFunction([j \in 1 .. 0 |-> Gain(filedb[j], o)]) = 0
  BY SumOfNone
<1>2. SumFunction([j \in 1 .. 0 |-> Freeze(filedb[j], o)]) = 0
  BY SumOfNone
<1>3. (IF o \in Rows THEN Deposit ELSE 0) \in Int
  BY BankAssumption
<1> QED
  BY <1>1, <1>2, <1>3 DEF Replay

(* Lines that do not name a user leave the user's balance alone. *)
LEMMA ReplayFlat ==
    ASSUME TypeOK, NEW o, NEW a \in Nat, NEW m \in Nat, a <= m, m <= Len(filedb),
           \A i \in a + 1 .. m : o \notin Users(filedb[i])
    PROVE  Replay(o, m) = Replay(o, a)
<1> DEFINE B == {i \in Nat : a <= i /\ i <= m /\ Replay(o, i) # Replay(o, a)}
<1>1. SUFFICES ASSUME B # {} PROVE FALSE
  OBVIOUS
<1>2. PICK i \in B : \A y \in B : ~(<<y, i>> \in OpToRel(<, Nat))
  <2>1. B \subseteq Nat
    OBVIOUS
  <2> HIDE DEF B
  <2> QED
    BY <1>1, <2>1, NatLessThanWellFounded, WFMin
<1>3. i \in Nat /\ a <= i /\ i <= m /\ Replay(o, i) # Replay(o, a)
  BY <1>2
<1>4. i # a /\ i - 1 \in Nat /\ a <= i - 1 /\ i - 1 <= m /\ i - 1 < i /\ i \in a + 1 .. m
  BY <1>3
<1>5. i - 1 \notin B
  <2>1. <<i - 1, i>> \in OpToRel(<, Nat)
    BY <1>3, <1>4 DEF OpToRel
  <2> HIDE DEF B
  <2> QED
    BY <1>2, <2>1
<1>6. Replay(o, i - 1) = Replay(o, a)
  BY <1>4, <1>5
<1>7. PICK j \in Nat : j = i - 1 /\ i = j + 1
  BY <1>3, <1>4
<1>8. i \in DOMAIN filedb /\ j <= Len(filedb) /\ j + 1 <= Len(filedb)
  BY <1>3, <1>4, <1>7, Shapes
<1>9. Gain(filedb[i], o) = 0 /\ Freeze(filedb[i], o) = 0
  BY <1>4, <1>8, Shapes, Effect
<1>10. /\ Replay(o, j) \in Money
       /\ Replay(o, i) = [free   |-> Replay(o, j).free + 0, freeze |-> Replay(o, j).freeze + 0]
  BY <1>7, <1>8, <1>9, ReplayNext
<1>11. Replay(o, i) = Replay(o, j)
  BY <1>10 DEF Money
<1> QED
  BY <1>3, <1>6, <1>7, <1>11

(* The lines that are there already add up to what they did. *)
LEMMA ReplaySame ==
    ASSUME NEW n \in Nat, \A i \in 1 .. n : filedb'[i] = filedb[i]
    PROVE  \A o : Replay(o, n)' = Replay(o, n)
<1>1. ASSUME NEW o
      PROVE  /\ [i \in 1 .. n |-> Gain(filedb[i], o)] = [i \in 1 .. n |-> Gain(filedb'[i], o)]
             /\ [i \in 1 .. n |-> Freeze(filedb[i], o)] = [i \in 1 .. n |-> Freeze(filedb'[i], o)]
  OBVIOUS
<1>2. ASSUME NEW o
      PROVE  Replay(o, n)' =
                [free   |-> (IF o \in Rows THEN Deposit ELSE 0)
                                + SumFunction([i \in 1 .. n |-> Gain(filedb'[i], o)]),
                 freeze |-> SumFunction([i \in 1 .. n |-> Freeze(filedb'[i], o)])]
  BY DEF Replay, Gain, Freeze, IsTicket
<1> QED
  BY <1>1, <1>2 DEF Replay

LEMMA ReplayNextLater ==
    TypeOK' => \A o : \A i \in Nat : i + 1 <= Len(filedb') =>
        Replay(o, i + 1)' = [free   |-> Replay(o, i)'.free + Gain(filedb'[i + 1], o),
                             freeze |-> Replay(o, i)'.freeze + Freeze(filedb'[i + 1], o)]
<1> DEFINE P == \A o : \A i \in Nat : i + 1 <= Len(filedb) =>
                    Replay(o, i + 1) = [free   |-> Replay(o, i).free + Gain(filedb[i + 1], o),
                                        freeze |-> Replay(o, i).freeze + Freeze(filedb[i + 1], o)]
<1>1. TypeOK => P
  BY ReplayNext
<1> HIDE DEF P
<1>2. TypeOK' => P'
  BY <1>1, PTL
<1> QED
  BY <1>2 DEF P, Gain, Freeze, IsTicket

-----------------------------------------------------------------------------
(* Balances. *)

(* A handler changes the balances by what its line says. *)
LEMMA TicketMoney ==
    ASSUME TypeOK, KnownInv, CreateOrder
    PROVE  \E l \in Line :
            /\ filedb' = Append(filedb, l) /\ IsTicket(l) /\ assets' = l.new
            /\ \A o \in Owners : l.new[o] = [free   |-> assets[o].free + Gain(l, o),
                                             freeze |-> assets[o].freeze + Freeze(l, o)]
<1> DEFINE q == Head(ch).seq
           r == sent[q]
           l == [kind |-> "ticket", logID |-> logID + 1, seq |-> q, id |-> ticketID + 1,
                 owner |-> r.owner, total |-> r.total, new |-> Reserved(r.owner, r.total)]
<1>1. /\ r \in [owner : Owners, total : Nat \ {0}] /\ l \in Line /\ IsTicket(l)
      /\ filedb' = Append(filedb, l) /\ assets' = l.new
  BY TicketStep DEF Line
<1>2. assets \in [Owners -> Money]
  BY DEF TypeOK
<1>3. PICK v, c : v = r.owner /\ c = r.total
  OBVIOUS
<1>4. v \in Owners /\ c \in Nat
  BY <1>1, <1>3
<1>5. l.new = Add(assets, v, -c, c) /\ l.owner = v /\ l.total = c
  BY <1>3 DEF Reserved
<1> HIDE DEF l, r, q
<1>6. ASSUME NEW o \in Owners
      PROVE  l.new[o] = [free |-> assets[o].free + Gain(l, o), freeze |-> assets[o].freeze + Freeze(l, o)]
  <2>1. assets[o] \in Money /\ assets[o].free \in Int /\ assets[o].freeze \in Int
    BY <1>2 DEF Money
  <2>2. CASE o = v
    <3>1. Gain(l, o) = -c /\ Freeze(l, o) = c
      BY <1>1, <1>5, <2>2 DEF Gain, Freeze
    <3> QED
      BY <1>2, <1>4, <1>5, <2>2, <3>1 DEF Add
  <2>3. CASE o # v
    <3>1. Gain(l, o) = 0 /\ Freeze(l, o) = 0
      BY <1>1, <1>5, <2>3 DEF Gain, Freeze
    <3>2. l.new[o] = assets[o]
      BY <1>2, <1>4, <1>5, <2>3 DEF Add
    <3> QED
      BY <2>1, <3>1, <3>2 DEF Money
  <2> QED
    BY <2>2, <2>3
<1> QED
  BY <1>1, <1>6

LEMMA ChangeMoney ==
    ASSUME TypeOK, KnownInv, HandleBalanceChange
    PROVE  \E l \in Line :
            /\ filedb' = Append(filedb, l) /\ ~IsTicket(l) /\ assets' = l.new
            /\ \A o \in Owners : l.new[o] = [free   |-> assets[o].free + Gain(l, o),
                                             freeze |-> assets[o].freeze + Freeze(l, o)]
<1> DEFINE k == Head(ch).reason
           t == trades[k]
           l == [kind |-> "change", logID |-> logID + 1, seq |-> 0, reason |-> k,
                 payer |-> t.payer, payee |-> t.payee, amount |-> t.amount, new |-> Settled(t)]
<1>1. /\ t \in [payer : Owners, payee : Owners, amount : Nat] /\ l \in Line /\ ~IsTicket(l)
      /\ filedb' = Append(filedb, l) /\ assets' = l.new
  BY ChangeStep DEF Line
<1>2. assets \in [Owners -> Money]
  BY DEF TypeOK
<1>3. PICK u, v, c : u = t.payer /\ v = t.payee /\ c = t.amount
  OBVIOUS
<1>4. u \in Owners /\ v \in Owners /\ c \in Nat
  BY <1>1, <1>3
<1>5. /\ l.new = Add(Add(assets, u, 0, -c), v, c, 0)
      /\ l.payer = u /\ l.payee = v /\ l.amount = c
  BY <1>3 DEF Settled
<1> HIDE DEF l, t, k
<1> DEFINE paid == Add(assets, u, 0, -c)
<1>6. paid \in [Owners -> Money]
  BY <1>2, <1>4, AddType
<1>7. ASSUME NEW o \in Owners
      PROVE  /\ paid[o].free = assets[o].free
             /\ paid[o].freeze = assets[o].freeze + Freeze(l, o)
  <2>1. assets[o] \in Money /\ assets[o].free \in Int /\ assets[o].freeze \in Int
    BY <1>2 DEF Money
  <2>2. Freeze(l, o) = IF u = o THEN -c ELSE 0
    BY <1>1, <1>5 DEF Freeze
  <2> QED
    BY <1>2, <1>4, <2>1, <2>2 DEF Add
<1>8. l.new = Add(paid, v, c, 0)
  BY <1>5
<1> HIDE DEF paid
<1>9. ASSUME NEW o \in Owners
      PROVE  l.new[o] = [free |-> assets[o].free + Gain(l, o), freeze |-> assets[o].freeze + Freeze(l, o)]
  <2>1. paid[o] \in Money /\ paid[o].free \in Int /\ paid[o].freeze \in Int
    BY <1>6 DEF Money
  <2>2. Gain(l, o) = IF v = o THEN c ELSE 0
    BY <1>1, <1>5 DEF Gain
  <2>3. l.new[o] = [free |-> paid[o].free + Gain(l, o), freeze |-> paid[o].freeze]
    <3>1. CASE o = v
      BY <1>4, <1>6, <1>8, <2>1, <2>2, <3>1 DEF Add
    <3>2. CASE o # v
      <4>1. l.new[o] = paid[o]
        BY <1>4, <1>6, <1>8, <3>2 DEF Add
      <4> QED
        BY <2>1, <2>2, <3>2, <4>1 DEF Money
    <3> QED
      BY <3>1, <3>2
  <2> QED
    BY <1>7, <2>3
<1> QED
  BY <1>1, <1>9

(* What UPDATE makes of a batch is the effect of the longer prefix. *)
LEMMA BalancesSaved ==
    ASSUME TypeOK, MoneyInv, NEW m, SavesTo(m), NEW o \in Rows
    PROVE  balances'[o] = Replay(o, m)
<1> DEFINE S == snapLog + 1 .. m
           own == {i \in S : o \in Users(filedb[i])}
<1>1. /\ m \in Nat /\ snapLog \in Nat /\ snapLog < m /\ m <= Len(filedb) /\ Len(filedb) \in Nat
      /\ DOMAIN filedb = 1 .. Len(filedb)
  BY Numbers, Shapes DEF SavesTo
<1>2. balances'[o] = IF own = {} THEN balances[o] ELSE filedb[Max(own)].new[o]
  BY DEF SavesTo, Save, BalanceRows
<1>3. own \in SUBSET DOMAIN filedb /\ \A i \in own : i \in Nat /\ snapLog < i /\ i <= m
  BY <1>1
<1>4. \A i \in S : i \notin own => o \notin Users(filedb[i])
  OBVIOUS
<1> HIDE DEF own
<1>5. CASE own = {}
  <2>1. \A i \in snapLog + 1 .. m : o \notin Users(filedb[i])
    BY <1>4, <1>5
  <2>2. Replay(o, m) = Replay(o, snapLog)
    BY <1>1, <2>1, ReplayFlat
  <2> QED
    BY <1>2, <1>5, <2>2 DEF MoneyInv
<1>6. CASE own # {}
  <2>1. PICK t : t = Max(own)
    OBVIOUS
  <2>2. t \in own /\ \A i \in own : i <= t
    BY <1>3, <1>6, <2>1, MaxLine
  <2>3. t \in Nat /\ t <= m /\ snapLog < t /\ t \in DOMAIN filedb
    BY <1>3, <2>2
  <2>4. ASSUME NEW i \in t + 1 .. m PROVE o \notin Users(filedb[i])
    <3>1. i \in S /\ ~(i <= t)
      BY <1>1, <2>3
    <3> QED
      BY <1>4, <2>2, <3>1
  <2>5. Replay(o, m) = Replay(o, t)
    BY <1>1, <2>3, <2>4, ReplayFlat
  <2> QED
    BY <1>2, <1>6, <2>1, <2>3, <2>5 DEF MoneyInv
<1> QED
  BY <1>5, <1>6

LEMMA MoneyInit == Init => MoneyInv
<1> SUFFICES ASSUME Init PROVE MoneyInv
  OBVIOUS
<1>1. DOMAIN filedb = {} /\ pc # "work" /\ snapLog = 0
  BY DEF Init
<1>2. \A o \in Rows : balances[o] = Replay(o, 0)
  BY ReplayNone DEF Init
<1> QED
  BY <1>1, <1>2 DEF MoneyInv

(* A line more, and the balances with it. *)
LEMMA MoneyAppend ==
    ASSUME TypeOK, TypeOK', MoneyInv, pc = "work", snapLog <= Len(filedb),
           UNCHANGED <<snapLog, balances>>,
           NEW l \in Line, filedb' = Append(filedb, l), assets' = l.new,
           \A o \in Owners : l.new[o] = [free   |-> assets[o].free + Gain(l, o),
                                         freeze |-> assets[o].freeze + Freeze(l, o)]
    PROVE  MoneyInv'
<1>1. PICK n : n = Len(filedb)
  OBVIOUS
<1>2. /\ n \in Nat /\ Len(filedb') = n + 1 /\ DOMAIN filedb = 1 .. n /\ DOMAIN filedb' = 1 .. n + 1
      /\ \A i \in 1 .. n : filedb'[i] = filedb[i]
      /\ filedb'[n + 1] = l
  BY <1>1, LineAppended
<1>3. ASSUME NEW i \in Nat, i <= n, NEW o PROVE Replay(o, i)' = Replay(o, i)
  <2>1. \A j \in 1 .. i : filedb'[j] = filedb[j]
    BY <1>2, <1>3
  <2> QED
    BY <2>1, ReplaySame
<1>4. ASSUME NEW o \in Rows PROVE Replay(o, n + 1)' = l.new[o]
  <2>1. Replay(o, n)' = Replay(o, n) /\ o \in Owners
    BY <1>2, <1>3, BankAssumption
  <2>2. Replay(o, n + 1)' = [free   |-> Replay(o, n)'.free + Gain(filedb'[n + 1], o),
                             freeze |-> Replay(o, n)'.freeze + Freeze(filedb'[n + 1], o)]
    BY <1>2, ReplayNextLater
  <2>3. assets[o] = Replay(o, n)
    BY <1>1 DEF MoneyInv
  <2> QED
    BY <1>2, <2>1, <2>2, <2>3
<1>5. ASSUME NEW i \in DOMAIN filedb', NEW o \in Rows PROVE filedb'[i].new[o] = Replay(o, i)'
  <2>1. CASE i \in 1 .. n
    <3>1. Replay(o, i)' = Replay(o, i) /\ filedb'[i] = filedb[i]
      BY <1>2, <1>3, <2>1
    <3> QED
      BY <1>2, <2>1, <3>1 DEF MoneyInv
  <2>2. CASE i = n + 1
    BY <1>2, <1>4, <2>2
  <2> QED
    BY <1>2, <2>1, <2>2
<1>6. \A o \in Rows : assets'[o] = Replay(o, n + 1)'
  BY <1>4
<1>7. \A o \in Rows : Replay(o, Len(filedb))' = Replay(o, n + 1)'
  <2>1. Len(filedb') = n + 1
    BY <1>2
  <2> QED
    BY <2>1 DEF Replay
<1>8. \A o \in Rows : balances'[o] = Replay(o, snapLog)'
  <2>1. PICK s : s = snapLog /\ s \in Nat /\ s <= n
    BY <1>1, Numbers
  <2>2. \A o \in Rows : balances[o] = Replay(o, s) /\ Replay(o, s)' = Replay(o, s)
    BY <1>3, <2>1 DEF MoneyInv
  <2>3. \A o : Replay(o, snapLog)' = Replay(o, s)'
    BY <2>1 DEF Replay
  <2> QED
    BY <2>2, <2>3
<1> QED
  BY <1>5, <1>6, <1>7, <1>8 DEF MoneyInv

(* Every step keeps it. *)
LEMMA MoneyStep == CoreInv /\ CoreInv' /\ MoneyInv /\ [Next]_vars => MoneyInv'
<1> SUFFICES ASSUME CoreInv, CoreInv', MoneyInv, [Next]_vars PROVE MoneyInv'
  OBVIOUS
<1>0. TypeOK /\ TypeOK' /\ KnownInv /\ RecoveryInv /\ snapLog <= Len(filedb)
  BY DEF CoreInv, RecoveryInv
<1>1. CASE Quiet
  <2>1. UNCHANGED <<filedb, snapLog, balances>> /\ (pc' = "work" => UNCHANGED <<pc, assets>>)
    BY <1>1 DEF Quiet, tableVars
  <2>2. /\ \A o, n : Replay(o, n)' = Replay(o, n)
        /\ \A o : Replay(o, snapLog)' = Replay(o, snapLog)
        /\ \A o : Replay(o, Len(filedb))' = Replay(o, Len(filedb))
    BY <2>1 DEF Replay, Gain, Freeze, IsTicket
  <2>3. \A i \in DOMAIN filedb' : \A o \in Rows : filedb'[i].new[o] = Replay(o, i)'
    BY <2>1, <2>2 DEF MoneyInv
  <2>4. pc' = "work" => \A o \in Rows : assets'[o] = Replay(o, Len(filedb))'
    BY <2>1, <2>2 DEF MoneyInv
  <2>5. \A o \in Rows : balances'[o] = Replay(o, snapLog)'
    BY <2>1, <2>2 DEF MoneyInv
  <2> QED
    BY <2>3, <2>4, <2>5 DEF MoneyInv
<1>2. CASE LoadAllAssets
  <2>1. /\ UNCHANGED <<filedb, snapLog, balances>> /\ snapLog = Len(filedb)
        /\ \A o \in Rows : assets'[o] = balances[o]
    BY <1>0, <1>2, BankAssumption DEF LoadAllAssets, RecoveryInv, fileVars, tableVars
  <2>2. /\ \A o, n : Replay(o, n)' = Replay(o, n)
        /\ \A o : Replay(o, snapLog)' = Replay(o, snapLog)
        /\ \A o : Replay(o, Len(filedb))' = Replay(o, snapLog)
    BY <2>1 DEF Replay, Gain, Freeze, IsTicket
  <2>3. \A i \in DOMAIN filedb' : \A o \in Rows : filedb'[i].new[o] = Replay(o, i)'
    BY <2>1, <2>2 DEF MoneyInv
  <2>4. \A o \in Rows : assets'[o] = Replay(o, Len(filedb))'
    BY <2>1, <2>2 DEF MoneyInv
  <2>5. \A o \in Rows : balances'[o] = Replay(o, snapLog)'
    BY <2>1, <2>2 DEF MoneyInv
  <2> QED
    BY <2>3, <2>4, <2>5 DEF MoneyInv
<1>3. CASE CreateOrder
  <2>1. pc = "work" /\ UNCHANGED <<snapLog, balances>>
    BY <1>3 DEF CreateOrder, Taking, tableVars
  <2> QED
    BY <1>0, <1>3, <2>1, TicketMoney, MoneyAppend
<1>4. CASE HandleBalanceChange
  <2>1. pc = "work" /\ UNCHANGED <<snapLog, balances>>
    BY <1>4 DEF HandleBalanceChange, Taking, tableVars
  <2> QED
    BY <1>0, <1>4, <2>1, ChangeMoney, MoneyAppend
<1>5. ASSUME NEW m, SavesTo(m) PROVE MoneyInv'
  <2>1. \A o \in Rows : balances'[o] = Replay(o, m)
    BY <1>0, <1>5, BalancesSaved
  <2>2. snapLog' = m /\ UNCHANGED <<filedb, pc, assets>>
    BY <1>5 DEF SavesTo
  <2>3. /\ \A o, n : Replay(o, n)' = Replay(o, n)
        /\ \A o : Replay(o, snapLog)' = Replay(o, m)
        /\ \A o : Replay(o, Len(filedb))' = Replay(o, Len(filedb))
    BY <2>2 DEF Replay, Gain, Freeze, IsTicket
  <2>4. \A i \in DOMAIN filedb' : \A o \in Rows : filedb'[i].new[o] = Replay(o, i)'
    BY <2>2, <2>3 DEF MoneyInv
  <2>5. pc' = "work" => \A o \in Rows : assets'[o] = Replay(o, Len(filedb))'
    BY <2>2, <2>3 DEF MoneyInv
  <2>6. \A o \in Rows : balances'[o] = Replay(o, snapLog)'
    BY <2>1, <2>2, <2>3
  <2> QED
    BY <2>4, <2>5, <2>6 DEF MoneyInv
<1>6. CASE RollsBackLate
  BY <1>6 DEF RollsBackLate, MoneyInv, Replay, Gain, Freeze, IsTicket
<1> QED
  BY <1>0, <1>1, <1>2, <1>3, <1>4, <1>5, <1>6, StepKinds

LEMMA MoneyCorrect == Spec => [](CoreInv /\ MoneyInv)
<1>1. CoreInv /\ CoreInv' /\ MoneyInv /\ [Next]_vars => MoneyInv'
  BY MoneyStep
<1> QED
  BY <1>1, MoneyInit, CoreCorrect, PTL DEF Spec

(* When every user has a row, the balances a bank works with are the effect of
   every line of its log, each once, whatever fails. *)
THEOREM AssetsAreLogCorrect ==
    ASSUME Owners \subseteq Rows
    PROVE  Spec => []AssetsAreLog
<1>1. MoneyInv => AssetsAreLog
  BY DEF MoneyInv, AssetsAreLog
<1> QED
  BY <1>1, MoneyCorrect, PTL

-----------------------------------------------------------------------------
(* Ticket rows. *)

(* INSERT adds a row for each ticket of the batch, under ids not used before. *)
LEMMA RowsSaved ==
    ASSUME TypeOK, RowsInv, NEW m, SavesTo(m)
    PROVE  /\ {tickets'[id] : id \in DOMAIN tickets'} = {filedb[i].seq : i \in FirstTickets(m)}
           /\ Cardinality(DOMAIN tickets') = Cardinality(FirstTickets(m))
<1> DEFINE D == DOMAIN tickets
           T == TicketsIn(snapLog + 1 .. m)
           c == Cardinality(T)
           N == nextTicket .. nextTicket + c - 1
           at(id) == CHOOSE i \in T : Rank(T, i) = id - nextTicket
<1>1. /\ m \in Nat /\ snapLog < m /\ m <= Len(filedb)
      /\ DOMAIN tickets' = D \cup N
      /\ \A id \in D : tickets'[id] = tickets[id]
      /\ \A id \in N : id \notin D => tickets'[id] = filedb[at(id)].seq
  BY DEF SavesTo, Save, TicketRows, Rank
<1>2. /\ IsFiniteSet(T) /\ c \in Nat /\ T \in SUBSET TicketLines
      /\ FirstTickets(m) = FirstTickets(snapLog) \cup T
      /\ Cardinality(FirstTickets(m)) = Cardinality(FirstTickets(snapLog)) + c
  BY <1>1, BatchCount
<1>3. T \in SUBSET Nat
  BY <1>2, Shapes DEF TicketLines
<1>4. nextTicket \in Nat /\ D \in SUBSET (1 .. nextTicket - 1)
  BY DEF TypeOK
<1>5. /\ \A i \in T : Rank(T, i) \in 0 .. c - 1
      /\ \A i, k \in T : i < k => Rank(T, i) < Rank(T, k)
      /\ \A r \in 0 .. c - 1 : \E i \in T : Rank(T, i) = r
  <2> HIDE DEF T
  <2> QED
    BY <1>2, <1>3, Ranks
<1>6. N \cap D = {}
  <2> HIDE DEF D, c
  <2> QED
    BY <1>2, <1>4
<1>7. ASSUME NEW id \in N PROVE at(id) \in T
  <2>1. id - nextTicket \in 0 .. c - 1
    <3> HIDE DEF c
    <3> QED
      BY <1>2, <1>4
  <2>2. \E i \in T : Rank(T, i) = id - nextTicket
    <3> HIDE DEF T, c
    <3> QED
      BY <1>5, <2>1
  <2> QED
    BY <2>2
<1>8. ASSUME NEW i \in T PROVE \E id \in N : at(id) = i
  <2>1. PICK id : id = nextTicket + Rank(T, i)
    OBVIOUS
  <2> HIDE DEF T, c
  <2>2. Rank(T, i) \in 0 .. c - 1
    BY <1>5
  <2>3. id \in N /\ id - nextTicket = Rank(T, i)
    BY <1>2, <1>4, <2>1, <2>2
  <2>4. ASSUME NEW k \in T, Rank(T, k) = id - nextTicket PROVE k = i
    <3>1. k \in Nat /\ i \in Nat /\ Rank(T, k) \in Int
      BY <1>3, <1>5
    <3>2. ~(i < k) /\ ~(k < i)
      <4>1. Rank(T, k) = Rank(T, i)
        BY <2>3, <2>4
      <4>2. i < k => Rank(T, i) < Rank(T, k)
        BY <1>5
      <4>3. k < i => Rank(T, k) < Rank(T, i)
        BY <1>5
      <4> QED
        BY <3>1, <4>1, <4>2, <4>3
    <3> QED
      BY <3>1, <3>2
  <2>5. at(id) = i
    BY <2>3, <2>4
  <2> QED
    BY <2>3, <2>5
<1> HIDE DEF at
<1>9. {tickets'[id] : id \in DOMAIN tickets'} = {filedb[i].seq : i \in FirstTickets(m)}
  <2> HIDE DEF D, N, T
  <2>1. ASSUME NEW id \in D \cup N PROVE \E i \in FirstTickets(m) : tickets'[id] = filedb[i].seq
    <3>1. CASE id \in D
      <4>1. tickets[id] \in {filedb[i].seq : i \in FirstTickets(snapLog)}
        BY <3>1 DEF RowsInv, D
      <4> QED
        BY <1>1, <1>2, <3>1, <4>1
    <3>2. CASE id \in N
      BY <1>1, <1>2, <1>6, <1>7, <3>2
    <3> QED
      BY <2>1, <3>1, <3>2
  <2>2. ASSUME NEW i \in FirstTickets(m) PROVE \E id \in D \cup N : tickets'[id] = filedb[i].seq
    <3>1. CASE i \in FirstTickets(snapLog)
      <4>1. filedb[i].seq \in {tickets[id] : id \in D}
        BY <3>1 DEF RowsInv, D
      <4> QED
        BY <1>1, <4>1
    <3>2. CASE i \in T
      <4>1. PICK id \in N : at(id) = i
        BY <1>8, <3>2
      <4> QED
        BY <1>1, <1>6, <4>1
    <3> QED
      BY <1>2, <2>2, <3>1, <3>2
  <2> QED
    BY <1>1, <2>1, <2>2
<1>10. Cardinality(DOMAIN tickets') = Cardinality(D) + c
  <2>1. IsFiniteSet(N) /\ Cardinality(N) = c
    <3> HIDE DEF c
    <3>1. nextTicket \in Int /\ nextTicket + c - 1 \in Int
      BY <1>2, <1>4
    <3>2. /\ IsFiniteSet(nextTicket .. nextTicket + c - 1)
          /\ Cardinality(nextTicket .. nextTicket + c - 1) =
                IF nextTicket > nextTicket + c - 1 THEN 0 ELSE (nextTicket + c - 1) - nextTicket + 1
      BY <3>1, FS_Interval
    <3>3. (IF nextTicket > nextTicket + c - 1 THEN 0 ELSE (nextTicket + c - 1) - nextTicket + 1) = c
      BY <1>2, <1>4
    <3> QED
      BY <3>2, <3>3
  <2>2. IsFiniteSet(D)
    <3>1. IsFiniteSet(1 .. nextTicket - 1)
      BY <1>4, FS_Interval
    <3> QED
      BY <1>4, <3>1, FS_Subset
  <2> HIDE DEF D, N, c
  <2>3. Cardinality(D \cup N) = Cardinality(D) + Cardinality(N) - Cardinality(D \cap N)
    BY <2>1, <2>2, FS_Union
  <2>4. Cardinality(D) \in Nat /\ Cardinality(D \cap N) = 0
    <3>1. D \cap N = {}
      BY <1>6
    <3> QED
      BY <2>2, <3>1, FS_CardinalityType, FS_EmptySet
  <2>5. c \in Nat
    BY <1>2 DEF c
  <2>6. Cardinality(D \cup N) = Cardinality(D) + c
    BY <2>1, <2>3, <2>4, <2>5
  <2> QED
    BY <1>1, <2>6
<1> HIDE DEF T, c
<1> QED
  BY <1>2, <1>9, <1>10 DEF RowsInv

LEMMA RowsInit == Init => RowsInv
<1> SUFFICES ASSUME Init PROVE RowsInv
  OBVIOUS
<1>1. DOMAIN tickets = {} /\ FirstTickets(snapLog) = {}
  BY DEF Init, TicketLines, FirstTickets
<1> QED
  BY <1>1 DEF RowsInv

LEMMA RowsStep == CoreInv /\ RowsInv /\ [Next]_vars => RowsInv'
<1> SUFFICES ASSUME CoreInv, RowsInv, [Next]_vars PROVE RowsInv'
  OBVIOUS
<1>0. TypeOK /\ KnownInv /\ RecoveryInv /\ snapLog <= Len(filedb)
  BY DEF CoreInv, RecoveryInv
<1> DEFINE R == {tickets[id] : id \in DOMAIN tickets}
           Q == {filedb[i].seq : i \in FirstTickets(snapLog)}
<1>1. CASE UNCHANGED <<tickets, snapLog, filedb>>
  <2>1. FirstTickets(snapLog)' = FirstTickets(snapLog)
    BY <1>1 DEF FirstTickets, TicketLines
  <2>2. R' = R /\ Q' = Q
    BY <1>1, <2>1
  <2> QED
    BY <1>1, <2>1, <2>2 DEF RowsInv
<1>2. ASSUME NEW l \in Line, filedb' = Append(filedb, l), UNCHANGED <<tickets, snapLog>>
      PROVE  RowsInv'
  <2>1. PICK n, s : n = Len(filedb) /\ s = snapLog /\ s \in Nat /\ s <= n
    BY <1>0, Numbers
  <2>2. FirstTickets(s)' = FirstTickets(s)
    BY <1>0, <1>2, <2>1, NumberOfNext
  <2>3. FirstTickets(snapLog)' = FirstTickets(snapLog)
    BY <1>2, <2>1, <2>2 DEF FirstTickets
  <2>4. \A i \in FirstTickets(snapLog) : filedb'[i] = filedb[i]
    BY <1>0, <1>2, LineAppended DEF FirstTickets
  <2>5. R' = R /\ Q' = Q
    BY <1>2, <2>3, <2>4
  <2> QED
    BY <1>2, <2>3, <2>5 DEF RowsInv
<1>3. CASE CreateOrder
  BY <1>0, <1>2, <1>3, TicketMoney DEF CreateOrder, tableVars
<1>4. CASE HandleBalanceChange
  BY <1>0, <1>2, <1>4, ChangeMoney DEF HandleBalanceChange, tableVars
<1>5. ASSUME NEW m, SavesTo(m) PROVE RowsInv'
  <2>1. filedb' = filedb /\ snapLog' = m
    BY <1>5 DEF SavesTo
  <2>2. FirstTickets(snapLog)' = FirstTickets(m)
    BY <2>1, SameLog DEF FirstTickets
  <2>3. Q' = {filedb[i].seq : i \in FirstTickets(m)}
    BY <2>1, <2>2
  <2>4. R' = {filedb[i].seq : i \in FirstTickets(m)}
    BY <1>0, <1>5, RowsSaved
  <2>5. Cardinality(DOMAIN tickets') = Cardinality(FirstTickets(m))
    BY <1>0, <1>5, RowsSaved
  <2>6. R' = Q'
    BY <2>3, <2>4
  <2> HIDE DEF R, Q
  <2> QED
    BY <2>2, <2>5, <2>6 DEF RowsInv, R, Q
<1>6. Quiet \/ LoadAllAssets \/ RollsBackLate => UNCHANGED <<tickets, snapLog, filedb>>
  BY DEF Quiet, LoadAllAssets, RollsBackLate, fileVars, tableVars
<1> QED
  BY <1>0, <1>1, <1>3, <1>4, <1>5, <1>6, StepKinds

(* MySQL is the effect of the first lines of the log, as many as it has, each
   line whole and once: no batch, lost answer, transaction rolled back early or
   late, nor restart breaks that. *)
THEOREM MySQLIsPrefixCorrect == Spec => []MySQLIsPrefix
<1>1. CoreInv /\ MoneyInv /\ RowsInv => MySQLIsPrefix
  <2> SUFFICES ASSUME CoreInv, MoneyInv, RowsInv PROVE MySQLIsPrefix
    OBVIOUS
  <2> DEFINE own == FirstTickets(snapLog)
  <2>1. TypeOK /\ KnownInv /\ SeqInv /\ snapLog <= Len(filedb) /\ LastSeqIs(snapLog, natsSeq)
    BY DEF CoreInv, RecoveryInv, SeqInv
  <2>2. own = {i \in TicketLines : i <= snapLog} /\ own \in SUBSET TicketLines
    BY DEF FirstTickets
  <2>3. natsSeq = IF own = {} THEN 0 ELSE filedb[Max(own)].seq
    <3>1. CASE own = {}
      BY <2>1, <2>2, <3>1 DEF LastSeqIs
    <3>2. CASE own # {}
      <4>1. PICK t : t = Max(own)
        OBVIOUS
      <4>2. t \in own /\ \A i \in own : i <= t
        <5>1. own \in SUBSET DOMAIN filedb
          BY <2>2 DEF TicketLines
        <5> HIDE DEF own
        <5> QED
          BY <2>1, <3>2, <4>1, <5>1, MaxLine
      <4>3. t \in TicketLines /\ t <= snapLog /\ filedb[t].seq \in Nat \ {0} /\ filedb[t].seq <= natsSeq
        BY <2>1, <2>2, <4>2, TicketSeqs DEF LastSeqIs
      <4>4. natsSeq # 0 /\ natsSeq \in Nat
        <5>1. filedb[t].seq \in Nat /\ filedb[t].seq # 0 /\ filedb[t].seq <= natsSeq
          BY <4>3
        <5>2. natsSeq \in Nat
          BY <2>1, Numbers
        <5> QED
          BY <5>1, <5>2
      <4>5. PICK i \in own : filedb[i].seq = natsSeq
        BY <2>1, <2>2, <4>4 DEF LastSeqIs
      <4>6. i \in TicketLines /\ i <= t /\ i \in Nat /\ t \in Nat
        BY <2>1, <2>2, <4>2, <4>3, TicketSeqs
      <4>7. i = t \/ filedb[i].seq < filedb[t].seq
        BY <2>1, <4>3, <4>6 DEF SeqInv
      <4>8. filedb[t].seq = natsSeq
        BY <4>3, <4>4, <4>5, <4>7
      <4> HIDE DEF own
      <4> QED
        BY <3>2, <4>1, <4>8
    <3> QED
      BY <3>1, <3>2
  <2> QED
    BY <2>1, <2>2, <2>3 DEF MySQLIsPrefix, RowsInv, MoneyInv
<1>2. CoreInv /\ RowsInv /\ [Next]_vars => RowsInv'
  BY RowsStep
<1> QED
  BY <1>1, <1>2, RowsInit, MoneyCorrect, PTL DEF Spec

-----------------------------------------------------------------------------
(* What the engine may still spend. *)

LEMMA UpTo == ASSUME NEW n \in Nat PROVE IsFiniteSet(1 .. n) /\ Cardinality(1 .. n) = n
BY FS_Interval

(* The settled trades are the first ones, and the next change is about the next
   trade. *)
LEMMA NextReason ==
    ASSUME TypeOK, KnownInv, OnceInv, Owed
    PROVE  /\ IsFiniteSet(ChangeLines) /\ Cardinality(ChangeLines) \in Nat
           /\ Cardinality(ChangeLines) <= Len(trades)
           /\ ch # <<>> /\ IsChange(Head(ch)) => Head(ch).reason = Cardinality(ChangeLines) + 1
<1>1. /\ ChangeLines \in SUBSET (1 .. Len(filedb)) /\ ChangeLines \in SUBSET Nat
      /\ \A i \in ChangeLines : filedb[i].reason \in Nat \ {0} /\ filedb[i].reason \in DOMAIN trades
      /\ \A i, j \in ChangeLines : j < i => filedb[j].reason < filedb[i].reason
  BY ChangeReasons DEF OnceInv
<1>2. IsFiniteSet(ChangeLines) /\ Cardinality(ChangeLines) \in Nat
  <2>1. IsFiniteSet(1 .. Len(filedb))
    BY Shapes, UpTo
  <2> QED
    BY <1>1, <2>1, FS_Subset, FS_CardinalityType
<1>3. \A i, j \in ChangeLines : filedb[i].reason = filedb[j].reason => i = j
  <2> SUFFICES ASSUME NEW i \in ChangeLines, NEW j \in ChangeLines,
                      filedb[i].reason = filedb[j].reason
               PROVE  i = j
    OBVIOUS
  <2>1. i \in Nat /\ j \in Nat /\ filedb[i].reason \in Nat /\ filedb[j].reason \in Nat
    BY <1>1
  <2>2. ~(i < j) /\ ~(j < i)
    BY <1>1, <2>1
  <2> QED
    BY <2>1, <2>2
<1> DEFINE f == [i \in ChangeLines |-> filedb[i].reason]
<1>4. ASSUME NEW n \in Nat, \A i \in ChangeLines : filedb[i].reason \in 1 .. n
      PROVE  /\ Cardinality(ChangeLines) <= n
             /\ (\A k \in 1 .. n : Applied(k)) => Cardinality(ChangeLines) = n
  <2>1. f \in Injection(ChangeLines, 1 .. n)
    BY <1>3, <1>4 DEF Injection, IsInjective
  <2>2. IsFiniteSet(1 .. n) /\ Cardinality(1 .. n) = n
    BY UpTo
  <2>3. (\A k \in 1 .. n : Applied(k)) => f \in Surjection(ChangeLines, 1 .. n)
    BY <1>4 DEF Surjection, Applied
  <2> HIDE DEF f
  <2> QED
    BY <2>1, <2>2, <2>3, FS_Injection
<1>5. Cardinality(ChangeLines) <= Len(trades)
  BY <1>1, <1>4, Shapes
<1>6. ASSUME ch # <<>>, IsChange(Head(ch)) PROVE Head(ch).reason = Cardinality(ChangeLines) + 1
  <2>1. PICK k : k = Head(ch).reason
    OBVIOUS
  <2>2. k \in Nat \ {0} /\ \A i \in ChangeLines : filedb[i].reason < k
    BY <1>6, <2>1, HeadTail, ChangeReasons DEF OnceInv
  <2>3. \A j \in 1 .. k - 1 : Applied(j)
    BY <1>6, <2>1, EarlierApplied
  <2>4. k - 1 \in Nat /\ \A i \in ChangeLines : filedb[i].reason \in 1 .. k - 1
    BY <1>1, <2>2
  <2>5. Cardinality(ChangeLines) = k - 1
    BY <1>4, <2>3, <2>4
  <2> QED
    BY <2>1, <2>2, <2>5
<1> QED
  BY <1>2, <1>5, <1>6

(* What the tickets of a user have frozen, and what the trades numbered in S have
   the user pay. *)
Funds(o) == SumFunction([i \in {j \in TicketLines : filedb[j].owner = o} |-> filedb[i].total])

Spent(S, o) ==
    SumFunction([k \in {j \in DOMAIN trades : j \in S /\ trades[j].payer = o} |-> trades[k].amount])

After(c) == {j \in Nat : j > c}

LEMMA FundsType == ASSUME TypeOK, NEW o PROVE Funds(o) \in Int
<1> DEFINE T == {j \in TicketLines : filedb[j].owner = o}
           f == [i \in T |-> filedb[i].total]
<1>1. T \in SUBSET (1 .. Len(filedb)) /\ Len(filedb) \in Nat
  BY Shapes DEF TicketLines
<1>2. f \in [T -> Int]
  <2> SUFFICES ASSUME NEW i \in T PROVE filedb[i].total \in Int
    OBVIOUS
  <2>1. filedb[i] \in Line /\ IsTicket(filedb[i])
    BY Shapes DEF TicketLines
  <2> QED
    BY <2>1, LineShape DEF TicketLine
<1>3. Funds(o) = SumFunction(f)
  BY DEF Funds
<1> HIDE DEF T, f
<1>4. IsFiniteSet(T)
  BY <1>1, UpTo, FS_Subset
<1> QED
  BY <1>2, <1>3, <1>4, SumOfInt

LEMMA SpentType == ASSUME TypeOK, NEW S, NEW o PROVE Spent(S, o) \in Nat
<1> DEFINE K == {k \in DOMAIN trades : k \in S /\ trades[k].payer = o}
           f == [k \in K |-> trades[k].amount]
<1>1. K \in SUBSET (1 .. Len(trades)) /\ Len(trades) \in Nat /\ f \in [K -> Nat]
  BY Shapes
<1>2. Spent(S, o) = SumFunction(f)
  BY DEF Spent
<1> HIDE DEF K, f
<1>3. IsFiniteSet(K)
  BY <1>1, UpTo, FS_Subset
<1> QED
  BY <1>1, <1>2, <1>3, SumOfNat

(* The state functions of Bank and BankInv in these terms. *)
LEMMA SpareParts ==
    TypeOK => \A o : /\ Spare(o) = Funds(o) - Spent(Nat, o)
                     /\ Unsettled(o) = Spent(After(Cardinality(ChangeLines)), o)
<1> SUFFICES ASSUME TypeOK, NEW o
             PROVE  /\ Spare(o) = Funds(o) - Spent(Nat, o)
                    /\ Unsettled(o) = Spent(After(Cardinality(ChangeLines)), o)
  OBVIOUS
<1>1. DOMAIN trades \in SUBSET Nat
  BY Shapes
<1>2. PICK c : c = Cardinality(ChangeLines)
  OBVIOUS
<1>3. /\ {j \in DOMAIN trades : trades[j].payer = o}
            = {j \in DOMAIN trades : j \in Nat /\ trades[j].payer = o}
      /\ {j \in DOMAIN trades : j > c /\ trades[j].payer = o}
            = {j \in DOMAIN trades : j \in After(c) /\ trades[j].payer = o}
  BY <1>1 DEF After
<1>4. Spare(o) = Funds(o) - Spent(Nat, o)
  BY <1>3 DEF Spare, Funds, Spent
<1>5. Unsettled(o) = SumFunction([k \in {j \in DOMAIN trades : j > c /\ trades[j].payer = o}
                                    |-> trades[k].amount])
  BY <1>2 DEF Unsettled
<1> QED
  BY <1>2, <1>3, <1>4, <1>5 DEF Spent

(* A ticket adds to what its owner may spend, a balance change does not. *)
LEMMA FundsNext ==
    ASSUME TypeOK, NEW o, NEW l \in Line, filedb' = Append(filedb, l)
    PROVE  Funds(o)' = Funds(o) + (IF IsTicket(l) /\ l.owner = o THEN l.total ELSE 0)
<1> DEFINE T == {j \in TicketLines : filedb[j].owner = o}
           U == {j \in TicketLines' : filedb'[j].owner = o}
           f == [i \in T |-> filedb[i].total]
           g == [i \in U |-> filedb'[i].total]
<1>1. PICK n : n = Len(filedb)
  OBVIOUS
<1>2. /\ n \in Nat /\ \A i \in 1 .. n : filedb'[i] = filedb[i]
      /\ filedb'[n + 1] = l
      /\ TicketLines \in SUBSET (1 .. n)
      /\ TicketLines' = IF IsTicket(l) THEN TicketLines \cup {n + 1} ELSE TicketLines
  BY <1>1, LineAppended
<1>3. Funds(o) = SumFunction(f) /\ Funds(o)' = SumFunction(g) /\ Funds(o) \in Int
  <2>1. Funds(o) = SumFunction(f)
    BY DEF Funds
  <2>2. Funds(o)' = SumFunction(g)
    BY DEF Funds
  <2>3. Funds(o) \in Int
    BY FundsType
  <2> QED
    BY <2>1, <2>2, <2>3
<1>4. T \in SUBSET (1 .. n) /\ n + 1 \notin 1 .. n
  <2>1. n + 1 \notin 1 .. n
    BY <1>2
  <2>2. T \subseteq TicketLines
    OBVIOUS
  <2> QED
    BY <1>2, <2>1, <2>2
<1>5. ASSUME NEW i \in T PROVE i \in U /\ g[i] = f[i] /\ f[i] \in Int
  <2>1. i \in U /\ g[i] = f[i]
    BY <1>2
  <2>2. filedb[i] \in Line /\ IsTicket(filedb[i])
    BY Shapes DEF TicketLines
  <2>3. filedb[i].total \in Int
    BY <2>2, LineShape DEF TicketLine
  <2> QED
    BY <2>1, <2>3
<1>6. f \in [T -> Int]
  BY <1>5
<1>7. CASE IsTicket(l) /\ l.owner = o
  <2>1. U = T \cup {n + 1}
    BY <1>2, <1>7
  <2>2. g[n + 1] = l.total /\ \A i \in T : g[i] = f[i]
    BY <1>2, <1>5, <2>1
  <2>3. l.total \in Int
    BY <1>7, LineShape DEF TicketLine
  <2>4. g \in [T \cup {n + 1} -> Int]
    BY <1>5, <2>1, <2>2, <2>3
  <2>5. n + 1 \notin T
    BY <1>4
  <2> HIDE DEF T, U, f, g
  <2>6. SumFunction(g) = SumFunction(f) + g[n + 1]
    <3>1. IsFiniteSet(T)
      BY <1>2, <1>4, UpTo, FS_Subset
    <3>2. PICK S, u, v, x : S = T /\ u = f /\ v = g /\ x = n + 1
      OBVIOUS
    <3>3. /\ IsFiniteSet(S) /\ u \in [S -> Int] /\ x \notin S /\ v \in [S \cup {x} -> Int]
          /\ \A i \in S : v[i] = u[i]
      BY <1>6, <2>2, <2>4, <2>5, <3>1, <3>2
    <3>4. SumFunction(v) = SumFunction(u) + v[x]
      BY <3>3, SumMore
    <3> QED
      BY <3>2, <3>4
  <2> QED
    BY <1>3, <1>7, <2>2, <2>6
<1>8. CASE ~(IsTicket(l) /\ l.owner = o)
  <2>1. U = T
    BY <1>2, <1>8
  <2>2. g = f
    BY <1>5, <2>1
  <2> HIDE DEF T, U, f, g
  <2> QED
    BY <1>3, <1>8, <2>2
<1> QED
  BY <1>7, <1>8

(* A trade adds to what its payer has spent. *)
LEMMA SpentNext ==
    ASSUME TypeOK, NEW S, NEW o,
           NEW t \in [payer : Owners, payee : Owners, amount : Nat], trades' = Append(trades, t)
    PROVE  Spent(S, o)' = Spent(S, o)
                            + (IF Len(trades) + 1 \in S /\ t.payer = o THEN t.amount ELSE 0)
<1> DEFINE K == {j \in DOMAIN trades : j \in S /\ trades[j].payer = o}
           U == {j \in DOMAIN trades' : j \in S /\ trades'[j].payer = o}
           f == [k \in K |-> trades[k].amount]
           g == [k \in U |-> trades'[k].amount]
<1>1. PICK n : n = Len(trades)
  OBVIOUS
<1>2. /\ n \in Nat /\ DOMAIN trades = 1 .. n /\ DOMAIN trades' = (1 .. n) \cup {n + 1}
      /\ \A i \in 1 .. n : trades'[i] = trades[i]
      /\ trades'[n + 1] = t
      /\ n + 1 \notin 1 .. n
  <2>1. trades \in Seq([payer : Owners, payee : Owners, amount : Nat])
    BY DEF TypeOK
  <2> QED
    BY <1>1, <2>1
<1>3. Spent(S, o) = SumFunction(f) /\ Spent(S, o)' = SumFunction(g) /\ Spent(S, o) \in Nat
  <2>1. Spent(S, o) = SumFunction(f)
    BY DEF Spent
  <2>2. Spent(S, o)' = SumFunction(g)
    BY DEF Spent
  <2>3. Spent(S, o) \in Nat
    BY SpentType
  <2> QED
    BY <2>1, <2>2, <2>3
<1>4. K \in SUBSET (1 .. n) /\ n + 1 \notin K
  BY <1>2
<1>5. ASSUME NEW k \in K PROVE k \in U /\ g[k] = f[k] /\ f[k] \in Int
  BY <1>2, Shapes
<1>6. f \in [K -> Int]
  BY <1>5
<1>7. CASE n + 1 \in S /\ t.payer = o
  <2>1. U = K \cup {n + 1}
    BY <1>2, <1>7
  <2>2. g[n + 1] = t.amount /\ t.amount \in Int /\ \A k \in K : g[k] = f[k]
    BY <1>2, <1>5, <2>1
  <2>3. g \in [K \cup {n + 1} -> Int]
    BY <1>5, <2>1, <2>2
  <2> HIDE DEF K, U, f, g
  <2>4. SumFunction(g) = SumFunction(f) + g[n + 1]
    <3>1. IsFiniteSet(K)
      BY <1>2, <1>4, UpTo, FS_Subset
    <3>2. PICK R, u, v, x : R = K /\ u = f /\ v = g /\ x = n + 1
      OBVIOUS
    <3>3. /\ IsFiniteSet(R) /\ u \in [R -> Int] /\ x \notin R /\ v \in [R \cup {x} -> Int]
          /\ \A i \in R : v[i] = u[i]
      BY <1>4, <1>6, <2>2, <2>3, <3>1, <3>2
    <3>4. SumFunction(v) = SumFunction(u) + v[x]
      BY <3>3, SumMore
    <3> QED
      BY <3>2, <3>4
  <2> QED
    BY <1>1, <1>3, <1>7, <2>2, <2>4
<1>8. CASE ~(n + 1 \in S /\ t.payer = o)
  <2>1. U = K
    BY <1>2, <1>8
  <2>2. g = f
    BY <1>5, <2>1
  <2> HIDE DEF K, U, f, g
  <2> QED
    BY <1>1, <1>3, <1>8, <2>2
<1> QED
  BY <1>7, <1>8

(* The first of the trades after the c-th. *)
LEMMA SpentFirst ==
    ASSUME TypeOK, NEW o, NEW c \in Nat, c + 1 \in DOMAIN trades
    PROVE  Spent(After(c), o) = Spent(After(c + 1), o)
                                 + (IF trades[c + 1].payer = o THEN trades[c + 1].amount ELSE 0)
<1> DEFINE K == {j \in DOMAIN trades : j \in After(c + 1) /\ trades[j].payer = o}
           U == {j \in DOMAIN trades : j \in After(c) /\ trades[j].payer = o}
           f == [k \in K |-> trades[k].amount]
           g == [k \in U |-> trades[k].amount]
           t == trades[c + 1]
<1>1. DOMAIN trades = 1 .. Len(trades) /\ Len(trades) \in Nat
      /\ \A k \in DOMAIN trades : trades[k].amount \in Int
  BY Shapes
<1>2. Spent(After(c + 1), o) = SumFunction(f) /\ Spent(After(c), o) = SumFunction(g)
      /\ Spent(After(c + 1), o) \in Nat
  <2>1. Spent(After(c + 1), o) = SumFunction(f)
    BY DEF Spent
  <2>2. Spent(After(c), o) = SumFunction(g)
    BY DEF Spent
  <2>3. Spent(After(c + 1), o) \in Nat
    BY SpentType
  <2> QED
    BY <2>1, <2>2, <2>3
<1>3. After(c) = After(c + 1) \cup {c + 1} /\ c + 1 \notin After(c + 1)
  BY DEF After
<1>4. K \in SUBSET (1 .. Len(trades)) /\ c + 1 \notin K
  BY <1>1, <1>3
<1>5. f \in [K -> Int] /\ g \in [U -> Int] /\ \A k \in K : k \in U /\ g[k] = f[k]
  BY <1>1, <1>3
<1>6. CASE t.payer = o
  <2>1. U = K \cup {c + 1}
    BY <1>3, <1>6
  <2>2. g[c + 1] = t.amount
    BY <2>1
  <2> HIDE DEF K, U, f, g
  <2>3. SumFunction(g) = SumFunction(f) + g[c + 1]
    <3>1. IsFiniteSet(K)
      BY <1>1, <1>4, UpTo, FS_Subset
    <3>2. PICK R, u, v, x : R = K /\ u = f /\ v = g /\ x = c + 1
      OBVIOUS
    <3>3. /\ IsFiniteSet(R) /\ u \in [R -> Int] /\ x \notin R /\ v \in [R \cup {x} -> Int]
          /\ \A i \in R : v[i] = u[i]
      BY <1>4, <1>5, <2>1, <3>1, <3>2
    <3>4. SumFunction(v) = SumFunction(u) + v[x]
      BY <3>3, SumMore
    <3> QED
      BY <3>2, <3>4
  <2> QED
    BY <1>2, <1>6, <2>2, <2>3
<1>7. CASE t.payer # o
  <2>1. U = K
    BY <1>3, <1>7
  <2>2. g = f
    BY <1>5, <2>1
  <2> HIDE DEF K, U, f, g
  <2> QED
    BY <1>2, <1>7, <2>2
<1> QED
  BY <1>6, <1>7

LEMMA SparePartsNext ==
    ASSUME TypeOK', NEW d, d = Cardinality(ChangeLines)'
    PROVE  \A o : /\ Spare(o)' = Funds(o)' - Spent(Nat, o)'
                  /\ Unsettled(o)' = Spent(After(d), o)'
<1> SUFFICES ASSUME NEW o
             PROVE  /\ Spare(o)' = Funds(o)' - Spent(Nat, o)'
                    /\ Unsettled(o)' = Spent(After(d), o)'
  OBVIOUS
<1>1. DOMAIN trades' \in SUBSET Nat
  <2>1. trades' \in Seq([payer : Owners, payee : Owners, amount : Nat])
    BY DEF TypeOK
  <2> QED
    BY <2>1
<1>2. /\ {j \in DOMAIN trades' : trades'[j].payer = o}
            = {j \in DOMAIN trades' : j \in Nat /\ trades'[j].payer = o}
      /\ {j \in DOMAIN trades' : j > d /\ trades'[j].payer = o}
            = {j \in DOMAIN trades' : j \in After(d) /\ trades'[j].payer = o}
  BY <1>1 DEF After
<1>3. Spare(o)' = Funds(o)' - Spent(Nat, o)'
  BY <1>2 DEF Spare, Funds, Spent
<1>4. Unsettled(o)' = SumFunction([k \in {j \in DOMAIN trades' : j > d /\ trades'[j].payer = o}
                                    |-> trades'[k].amount])
  BY DEF Unsettled
<1> QED
  BY <1>2, <1>3, <1>4 DEF Spent

(* What a step does to what the ledger is about. *)
LEMMA LedgerKinds ==
    ASSUME [Next]_vars
    PROVE  \/ \E r \in Requests : Publish(r)
           \/ \E o, p \in Owners : Trade(o, p)
           \/ CreateOrder
           \/ HandleBalanceChange
           \/ UNCHANGED <<sent, trades, filedb>>
<1>1. Start \/ WaitForFiledb \/ LoadAllAssets \/ SkipSeen => UNCHANGED <<sent, trades, filedb>>
  BY DEF Start, WaitForFiledb, LoadAllAssets, SkipSeen, natsVars, omeVars, fileVars
<1>2. Nats => UNCHANGED <<sent, trades, filedb>>
  BY DEF Nats, Subscribe, Deliver, Drop, Ack, Redeliver, natsVars, omeVars, fileVars
<1>3. Settlement => UNCHANGED <<sent, trades, filedb>>
  BY DEF Settlement, OpenSession, PushChange, OmeRestart, natsVars, fileVars
<1>4. Writer => UNCHANGED <<sent, trades, filedb>>
  BY DEF Writer, WriterRound, WriterSkips, WriterSaves, WriterFails, natsVars, omeVars, fileVars
<1>5. Crash \/ CrashInWrite \/ WriteErrorSwallowed => UNCHANGED <<sent, trades, filedb>>
  BY DEF Crash, CrashInWrite, WriteErrorSwallowed, omeVars, fileVars
<1>6. UNCHANGED vars => UNCHANGED <<sent, trades, filedb>>
  BY DEF vars, natsVars, omeVars, fileVars
<1> QED
  BY <1>1, <1>2, <1>3, <1>4, <1>5, <1>6 DEF Next, Main

(* The number of settled trades, a line later. *)
LEMMA SettledNext ==
    ASSUME TypeOK, KnownInv, OnceInv, Owed, NEW l \in Line, filedb' = Append(filedb, l)
    PROVE  Cardinality(ChangeLines)' = Cardinality(ChangeLines) + (IF IsTicket(l) THEN 0 ELSE 1)
<1>1. IsFiniteSet(ChangeLines) /\ Cardinality(ChangeLines) \in Nat
  BY NextReason
<1>2. PICK n : n = Len(filedb) + 1
  OBVIOUS
<1>3. /\ ChangeLines' = IF IsTicket(l) THEN ChangeLines ELSE ChangeLines \cup {n}
      /\ ChangeLines \in SUBSET (1 .. Len(filedb)) /\ Len(filedb) \in Nat
  BY <1>2, LineAppended
<1>4. n \notin ChangeLines
  <2>1. n \notin 1 .. Len(filedb)
    BY <1>2, <1>3
  <2> QED
    BY <1>3, <2>1
<1>5. Cardinality(ChangeLines \cup {n}) = Cardinality(ChangeLines) + 1
  BY <1>1, <1>4, FS_AddElement
<1> QED
  BY <1>1, <1>3, <1>5

LEMMA FrozenInit == Init => FrozenInv
<1> SUFFICES ASSUME Init, NEW o \in Owners
             PROVE  /\ Spare(o) >= 0
                    /\ Replay(o, Len(filedb)).freeze = Spare(o) + Unsettled(o)
  BY DEF FrozenInv
<1>1. TypeOK /\ Len(filedb) = 0 /\ filedb = <<>> /\ trades = <<>>
  BY TypeInit DEF Init
<1>2. Replay(o, Len(filedb)).freeze = 0
  BY <1>1, ReplayNone
<1>3. \A S : Spent(S, o) = 0
  <2> SUFFICES ASSUME NEW S PROVE Spent(S, o) = 0
    OBVIOUS
  <2>1. DOMAIN [k \in {j \in DOMAIN trades : j \in S /\ trades[j].payer = o} |-> trades[k].amount] = {}
    BY <1>1
  <2> QED
    BY <2>1, SumOfNone DEF Spent
<1>4. Funds(o) = 0
  <2>1. DOMAIN [i \in {j \in TicketLines : filedb[j].owner = o} |-> filedb[i].total] = {}
    BY <1>1 DEF TicketLines
  <2> QED
    BY <2>1, SumOfNone DEF Funds
<1> QED
  BY <1>1, <1>2, <1>3, <1>4, SpareParts

(* What is frozen pays for what is spent, whatever step is taken. *)
LEMMA FrozenStep ==
    TypeOK /\ TypeOK' /\ KnownInv /\ OnceInv /\ Owed /\ FrozenInv /\ [Next]_vars => FrozenInv'
<1> SUFFICES ASSUME TypeOK, TypeOK', KnownInv, OnceInv, Owed, FrozenInv, [Next]_vars,
                    NEW o \in Owners
             PROVE  /\ Spare(o)' >= 0
                    /\ Replay(o, Len(filedb))'.freeze = Spare(o)' + Unsettled(o)'
  BY DEF FrozenInv
<1>1. PICK n, c, m, d : /\ n = Len(filedb) /\ c = Cardinality(ChangeLines)
                        /\ m = Len(filedb') /\ d = Cardinality(ChangeLines)'
  OBVIOUS
<1>2. /\ n \in Nat /\ c \in Nat /\ c <= Len(trades) /\ Len(trades) \in Nat
      /\ Funds(o) \in Int /\ Replay(o, n) \in Money /\ Replay(o, n).freeze \in Int
      /\ \A S : Spent(S, o) \in Nat
  <2>1. n \in Nat /\ c \in Nat /\ c <= Len(trades) /\ Len(trades) \in Nat
    BY <1>1, Numbers, NextReason
  <2>2. Funds(o) \in Int /\ \A S : Spent(S, o) \in Nat
    BY FundsType, SpentType
  <2>3. n <= Len(filedb)
    BY <1>1, <2>1
  <2>4. Replay(o, n) \in Money
    BY <2>1, <2>3, ReplayNext
  <2> QED
    BY <2>1, <2>2, <2>4 DEF Money
<1>3. /\ Funds(o) - Spent(Nat, o) >= 0
      /\ Replay(o, n).freeze = Funds(o) - Spent(Nat, o) + Spent(After(c), o)
  BY <1>1, SpareParts DEF FrozenInv
<1>4. SUFFICES /\ Funds(o)' - Spent(Nat, o)' >= 0
               /\ Replay(o, m)'.freeze = Funds(o)' - Spent(Nat, o)' + Spent(After(d), o)'
  <2>1. Spare(o)' = Funds(o)' - Spent(Nat, o)' /\ Unsettled(o)' = Spent(After(d), o)'
    BY <1>1, SparePartsNext
  <2>2. Replay(o, Len(filedb))' = Replay(o, m)'
    BY <1>1 DEF Replay
  <2> QED
    BY <2>1, <2>2
<1>5. ASSUME NEW l \in Line, filedb' = Append(filedb, l), trades' = trades
      PROVE  /\ m = n + 1 /\ d = c + (IF IsTicket(l) THEN 0 ELSE 1)
             /\ Funds(o)' = Funds(o) + (IF IsTicket(l) /\ l.owner = o THEN l.total ELSE 0)
             /\ \A S : Spent(S, o)' = Spent(S, o)
             /\ Replay(o, m)'.freeze = Replay(o, n).freeze + Freeze(l, o)
  <2>1. m = n + 1 /\ filedb'[m] = l /\ \A i \in 1 .. n : filedb'[i] = filedb[i]
    BY <1>1, <1>5, LineAppended
  <2>2. d = c + (IF IsTicket(l) THEN 0 ELSE 1)
    BY <1>1, <1>5, SettledNext
  <2>3. Funds(o)' = Funds(o) + (IF IsTicket(l) /\ l.owner = o THEN l.total ELSE 0)
    BY <1>5, FundsNext
  <2>4. \A S : Spent(S, o)' = Spent(S, o)
    BY <1>5 DEF Spent
  <2>5. Replay(o, n)' = Replay(o, n)
    BY <1>2, <2>1, ReplaySame
  <2>6. Replay(o, n + 1)' = [free   |-> Replay(o, n)'.free + Gain(filedb'[n + 1], o),
                             freeze |-> Replay(o, n)'.freeze + Freeze(filedb'[n + 1], o)]
    BY <1>1, <1>2, <2>1, ReplayNextLater
  <2> QED
    BY <2>1, <2>2, <2>3, <2>4, <2>5, <2>6
<1>6. CASE UNCHANGED <<trades, filedb>>
  <2>1. m = n /\ d = c
    BY <1>1, <1>6, SameLog
  <2>2. /\ Replay(o, n)' = Replay(o, n) /\ Funds(o)' = Funds(o)
        /\ \A S : Spent(S, o)' = Spent(S, o)
    BY <1>6 DEF Replay, Funds, Spent, TicketLines, Gain, Freeze, IsTicket
  <2> QED
    BY <1>3, <2>1, <2>2
<1>7. CASE CreateOrder
  <2>1. PICK l \in Line : filedb' = Append(filedb, l) /\ IsTicket(l)
    BY <1>7, TicketStep DEF Line
  <2>2. trades' = trades
    BY <1>7 DEF CreateOrder, omeVars
  <2>3. l.total \in Nat /\ Freeze(l, o) = IF l.owner = o THEN l.total ELSE 0
    BY <2>1, LineShape DEF TicketLine, Freeze
  <2>4. /\ m = n + 1 /\ d = c
        /\ Funds(o)' = Funds(o) + (IF l.owner = o THEN l.total ELSE 0)
        /\ \A S : Spent(S, o)' = Spent(S, o)
        /\ Replay(o, m)'.freeze = Replay(o, n).freeze + Freeze(l, o)
    BY <1>2, <1>5, <2>1, <2>2
  <2> QED
    BY SMTT(30), <1>2, <1>3, <2>3, <2>4
<1>8. CASE HandleBalanceChange
  <2>1. PICK l \in Line : /\ filedb' = Append(filedb, l) /\ ~IsTicket(l) /\ LineKnown(l)
                          /\ l.reason = Head(ch).reason
    BY <1>8, ChangeStep DEF Line
  <2>2. trades' = trades /\ ch # <<>> /\ IsChange(Head(ch))
    BY <1>8 DEF HandleBalanceChange, Taking, IsChange, omeVars
  <2>3. l.reason = c + 1 /\ c + 1 \in DOMAIN trades
    BY <1>1, <2>1, <2>2, NextReason DEF LineKnown
  <2>4. l.payer = trades[c + 1].payer /\ l.amount = trades[c + 1].amount
    BY <2>1, <2>3 DEF LineKnown
  <2>5. l.amount \in Nat /\ Freeze(l, o) = IF l.payer = o THEN -l.amount ELSE 0
    BY <2>1, LineShape DEF ChangeLine, Freeze
  <2>6. Spent(After(c), o) = Spent(After(c + 1), o) + (IF l.payer = o THEN l.amount ELSE 0)
    BY <1>2, <2>3, <2>4, SpentFirst
  <2>7. /\ m = n + 1 /\ d = c + 1 /\ Funds(o)' = Funds(o) + 0
        /\ \A S : Spent(S, o)' = Spent(S, o)
        /\ Replay(o, m)'.freeze = Replay(o, n).freeze + Freeze(l, o)
    BY <1>5, <2>1, <2>2
  <2>8. /\ Spent(After(c), o) \in Nat /\ Spent(After(c + 1), o) \in Nat /\ Spent(Nat, o) \in Nat
        /\ Spent(After(d), o)' = Spent(After(c + 1), o) /\ Spent(Nat, o)' = Spent(Nat, o)
    BY <1>2, <2>7
  <2> QED
    BY SMTT(30), <1>2, <1>3, <2>5, <2>6, <2>7, <2>8
<1>9. ASSUME NEW p \in Owners, NEW q \in Owners, Trade(p, q)
      PROVE  /\ Funds(o)' - Spent(Nat, o)' >= 0
             /\ Replay(o, m)'.freeze = Funds(o)' - Spent(Nat, o)' + Spent(After(d), o)'
  <2>1. PICK a \in 1 .. Spare(p) : trades' = Append(trades, [payer |-> p, payee |-> q, amount |-> a])
    BY <1>9 DEF Trade
  <2> DEFINE t == [payer |-> p, payee |-> q, amount |-> a]
  <2>2. filedb' = filedb
    BY <1>9 DEF Trade, fileVars
  <2>3. a \in Nat /\ a <= Spare(p)
    <3>1. Spare(p) \in Int
      BY SpareType
    <3> QED
      BY <3>1
  <2>4. t \in [payer : Owners, payee : Owners, amount : Nat] /\ trades' = Append(trades, t)
        /\ t.payer = p /\ t.amount = a
    BY <2>1, <2>3
  <2> HIDE DEF t
  <2>5. m = n /\ d = c
    BY <1>1, <2>2, SameLog
  <2>6. /\ Replay(o, n)' = Replay(o, n) /\ Funds(o)' = Funds(o)
    BY <2>2 DEF Replay, Funds, TicketLines, Gain, Freeze, IsTicket
  <2>7. Len(trades) + 1 \in Nat /\ Len(trades) + 1 \in After(c)
    BY <1>2 DEF After
  <2>8. /\ Spent(Nat, o)' = Spent(Nat, o) + (IF p = o THEN a ELSE 0)
        /\ Spent(After(c), o)' = Spent(After(c), o) + (IF p = o THEN a ELSE 0)
    BY <2>4, <2>7, SpentNext
  <2>9. p = o => a <= Funds(o) - Spent(Nat, o)
    BY <2>3, SpareParts
  <2>10. Spent(Nat, o) \in Nat /\ Spent(After(c), o) \in Nat
    BY <1>2
  <2> QED
    BY SMTT(30), <1>2, <1>3, <2>3, <2>5, <2>6, <2>8, <2>9, <2>10
<1>10. CASE \E r \in Requests : Publish(r)
  BY <1>6, <1>10 DEF Publish, omeVars, fileVars
<1> QED
  BY <1>6, <1>7, <1>8, <1>9, <1>10, LedgerKinds

-----------------------------------------------------------------------------
(* The log is the run of a ledger. *)

(* What the first n requests have a user freeze. *)
Taken(n, o) == SumFunction([i \in {j \in 1 .. n : sent[j].owner = o} |-> sent[i].total])

(* The ledger sums up the requests taken, the bank its tickets. *)
TakenInv == \A o \in Owners : Taken(Cardinality(TicketLines), o) = Funds(o)

LEMMA TakenNext ==
    ASSUME TypeOK, NEW n \in Nat, n + 1 \in DOMAIN sent, NEW o
    PROVE  Taken(n + 1, o) = Taken(n, o) + (IF sent[n + 1].owner = o THEN sent[n + 1].total ELSE 0)
<1> DEFINE K == {j \in 1 .. n : sent[j].owner = o}
           U == {j \in 1 .. n + 1 : sent[j].owner = o}
           f == [k \in K |-> sent[k].total]
           g == [k \in U |-> sent[k].total]
           r == sent[n + 1]
<1>1. /\ 1 .. n + 1 = (1 .. n) \cup {n + 1} /\ n + 1 \notin 1 .. n
      /\ \A k \in 1 .. n + 1 : sent[k].total \in Int
  <2>1. 1 .. n + 1 = (1 .. n) \cup {n + 1} /\ n + 1 \notin 1 .. n
    OBVIOUS
  <2>2. \A k \in 1 .. n + 1 : k \in DOMAIN sent
    BY Shapes
  <2> QED
    BY SMTT(30), <2>1, <2>2, Shapes
<1>2. Taken(n, o) = SumFunction(f) /\ Taken(n + 1, o) = SumFunction(g)
  BY DEF Taken
<1>3. f \in [K -> Int] /\ g \in [U -> Int] /\ \A k \in K : k \in U /\ g[k] = f[k]
  BY <1>1
<1>4. IsFiniteSet(K) /\ n + 1 \notin K
  <2>1. K \in SUBSET (1 .. n) /\ n + 1 \notin K
    BY <1>1
  <2> HIDE DEF K
  <2> QED
    BY <2>1, UpTo, FS_Subset
<1>5. SumFunction(f) \in Int
  <2> HIDE DEF K, U, f, g
  <2> QED
    BY <1>3, <1>4, SumOfInt
<1>6. CASE r.owner = o
  <2>1. U = K \cup {n + 1}
    BY <1>1, <1>6
  <2>2. g[n + 1] = r.total
    BY <2>1
  <2> HIDE DEF K, U, f, g
  <2>3. SumFunction(g) = SumFunction(f) + g[n + 1]
    <3>1. PICK R, u, v, x : R = K /\ u = f /\ v = g /\ x = n + 1
      OBVIOUS
    <3>2. /\ IsFiniteSet(R) /\ u \in [R -> Int] /\ x \notin R /\ v \in [R \cup {x} -> Int]
          /\ \A i \in R : v[i] = u[i]
      BY <1>3, <1>4, <2>1, <3>1
    <3>3. SumFunction(v) = SumFunction(u) + v[x]
      BY <3>2, SumMore
    <3> QED
      BY <3>1, <3>3
  <2> QED
    BY <1>2, <1>6, <2>2, <2>3
<1>7. CASE r.owner # o
  <2>1. U = K
    BY <1>1, <1>7
  <2>2. g = f
    BY <1>3, <2>1
  <2> HIDE DEF K, U, f, g
  <2> QED
    BY <1>2, <1>5, <1>7, <2>2
<1> QED
  BY <1>6, <1>7

(* A request that is published later is none of them. *)
LEMMA TakenSame ==
    ASSUME TypeOK, NEW r, sent' = Append(sent, r), NEW n \in Nat, n <= Len(sent), NEW o
    PROVE  Taken(n, o)' = Taken(n, o)
<1>1. \A j \in 1 .. n : sent'[j] = sent[j]
  <2>1. sent \in Seq(Requests)
    BY DEF TypeOK
  <2>2. \A j \in 1 .. n : j \in 1 .. Len(sent)
    BY Shapes
  <2> QED
    BY <2>1, <2>2, AppendShape
<1>2. Taken(n, o)' = SumFunction([i \in {j \in 1 .. n : sent'[j].owner = o} |-> sent'[i].total])
  BY DEF Taken
<1>3. {j \in 1 .. n : sent'[j].owner = o} = {j \in 1 .. n : sent[j].owner = o}
  BY <1>1
<1>4. [i \in {j \in 1 .. n : sent[j].owner = o} |-> sent'[i].total]
        = [i \in {j \in 1 .. n : sent[j].owner = o} |-> sent[i].total]
  BY <1>1
<1> QED
  BY <1>2, <1>3, <1>4 DEF Taken

(* No more tickets than requests. *)
LEMMA TicketsTaken ==
    ASSUME CoreInv
    PROVE  Cardinality(TicketLines) \in Nat /\ Cardinality(TicketLines) <= Len(sent)
<1>1. TypeOK /\ KnownInv /\ SeqInv /\ Len(sent) \in Nat
  BY Numbers DEF CoreInv
<1>2. /\ TicketLines \in SUBSET Nat
      /\ \A i \in TicketLines : filedb[i].seq \in Nat \ {0} /\ filedb[i].seq \in DOMAIN sent
  <2>1. \A i \in TicketLines : filedb[i].seq \in DOMAIN sent
    BY <1>1 DEF KnownInv, LineKnown, TicketLines
  <2> QED
    BY <1>1, <2>1, TicketSeqs
<1>3. \A i, j \in TicketLines : filedb[i].seq = filedb[j].seq => i = j
  <2> SUFFICES ASSUME NEW i \in TicketLines, NEW j \in TicketLines, filedb[i].seq = filedb[j].seq
               PROVE  i = j
    OBVIOUS
  <2>1. i \in Nat /\ j \in Nat /\ filedb[i].seq \in Nat /\ filedb[j].seq \in Nat
    BY <1>2
  <2>2. (j < i => filedb[j].seq < filedb[i].seq) /\ (i < j => filedb[i].seq < filedb[j].seq)
    BY <1>1 DEF SeqInv
  <2>3. ~(i < j) /\ ~(j < i)
    BY <2>1, <2>2
  <2> QED
    BY <2>1, <2>3
<1> DEFINE f == [i \in TicketLines |-> filedb[i].seq]
<1>4. f \in Injection(TicketLines, 1 .. Len(sent))
  <2>1. DOMAIN sent = 1 .. Len(sent)
    BY <1>1, Shapes
  <2> QED
    BY <1>2, <1>3, <2>1 DEF Injection, IsInjective
<1>5. IsFiniteSet(1 .. Len(sent)) /\ Cardinality(1 .. Len(sent)) = Len(sent)
  BY <1>1, UpTo
<1> HIDE DEF f
<1>6. Cardinality(TicketLines) <= Cardinality(1 .. Len(sent))
  BY <1>4, <1>5, FS_Injection
<1> QED
  BY <1>1, <1>5, <1>6, FirstTicketsCount

(* A new ticket is for the next request. *)
LEMMA NextTaken ==
    ASSUME CoreInv, NoGapLogged, SeqIsNumber, InFlight, CreateOrder
    PROVE  /\ Head(ch).seq = Cardinality(TicketLines) + 1
           /\ Cardinality(TicketLines)' = Cardinality(TicketLines) + 1
<1>1. TypeOK /\ KnownInv /\ pc = "work"
  BY DEF CoreInv, CreateOrder, Taking
<1>2. Head(ch).seq = Cardinality(TicketLines) + 1
  BY <1>1, HeadIsNext, SeenAreLogged
<1>3. PICK l \in Line : filedb' = Append(filedb, l) /\ IsTicket(l)
  BY <1>1, TicketStep DEF Line
<1>4. PICK n : n = Len(filedb)
  OBVIOUS
<1>5. Cardinality(TicketLines)' = Cardinality(TicketLines) + 1
  BY <1>1, <1>3, <1>4, NumberOfNext
<1> QED
  BY <1>2, <1>5

LEMMA TakenInit == Init => TakenInv
<1> SUFFICES ASSUME Init, NEW o \in Owners PROVE Taken(Cardinality(TicketLines), o) = Funds(o)
  BY DEF TakenInv
<1>1. TicketLines = {}
  BY DEF Init, TicketLines
<1>2. Cardinality(TicketLines) = 0
  BY <1>1, FS_EmptySet
<1>3. Taken(0, o) = 0
  <2>1. DOMAIN [i \in {j \in 1 .. 0 : sent[j].owner = o} |-> sent[i].total] = {}
    OBVIOUS
  <2> QED
    BY <2>1, SumOfNone DEF Taken
<1>4. Funds(o) = 0
  <2>1. DOMAIN [i \in {j \in TicketLines : filedb[j].owner = o} |-> filedb[i].total] = {}
    BY <1>1
  <2> QED
    BY <2>1, SumOfNone DEF Funds
<1> QED
  BY <1>2, <1>3, <1>4

LEMMA TakenStep ==
    CoreInv /\ NoGapLogged /\ SeqIsNumber /\ InFlight /\ TakenInv /\ [Next]_vars => TakenInv'
<1> SUFFICES ASSUME CoreInv, NoGapLogged, SeqIsNumber, InFlight, TakenInv, [Next]_vars,
                    NEW o \in Owners
             PROVE  Taken(Cardinality(TicketLines), o)' = Funds(o)'
  BY DEF TakenInv
<1>1. PICK c, d : c = Cardinality(TicketLines) /\ d = Cardinality(TicketLines)'
  OBVIOUS
<1>2. TypeOK /\ KnownInv /\ c \in Nat /\ c <= Len(sent) /\ Taken(c, o) = Funds(o)
  BY <1>1, TicketsTaken DEF CoreInv, TakenInv
<1>3. SUFFICES Taken(d, o)' = Funds(o)'
  BY <1>1 DEF Taken
<1>4. filedb' = filedb => d = c /\ Funds(o)' = Funds(o)
  BY <1>1, SameLog DEF Funds
<1>5. CASE UNCHANGED <<sent, filedb>>
  <2>1. Taken(c, o)' = Taken(c, o)
    BY <1>5 DEF Taken
  <2> QED
    BY <1>2, <1>4, <1>5, <2>1
<1>6. ASSUME NEW r \in Requests, Publish(r) PROVE Taken(d, o)' = Funds(o)'
  <2>1. sent' = Append(sent, r) /\ filedb' = filedb
    BY <1>6 DEF Publish, fileVars
  <2> QED
    BY <1>2, <1>4, <2>1, TakenSame
<1>7. ASSUME NEW p \in Owners, NEW q \in Owners, Trade(p, q) PROVE Taken(d, o)' = Funds(o)'
  BY <1>5, <1>7 DEF Trade, natsVars, fileVars
<1>8. CASE CreateOrder
  <2>1. /\ Head(ch).seq = c + 1 /\ d = c + 1 /\ c + 1 \in DOMAIN sent
    BY <1>1, <1>2, <1>8, NextTaken, TicketStep
  <2>2. PICK l \in Line : /\ filedb' = Append(filedb, l) /\ IsTicket(l) /\ LineKnown(l)
                          /\ l.seq = Head(ch).seq
    BY <1>2, <1>8, TicketStep DEF Line
  <2>3. l.owner = sent[c + 1].owner /\ l.total = sent[c + 1].total
    BY <2>1, <2>2 DEF LineKnown
  <2>4. Funds(o)' = Funds(o) + (IF l.owner = o THEN l.total ELSE 0)
    BY <1>2, <2>2, FundsNext
  <2>5. Taken(c + 1, o) = Taken(c, o) + (IF l.owner = o THEN l.total ELSE 0)
    BY <1>2, <2>1, <2>3, TakenNext
  <2>6. sent' = sent
    BY <1>8 DEF CreateOrder, natsVars
  <2>7. Taken(c + 1, o)' = Taken(c + 1, o)
    BY <2>6 DEF Taken
  <2> QED
    BY <1>2, <2>1, <2>4, <2>5, <2>7
<1>9. CASE HandleBalanceChange
  <2>1. PICK l \in Line : filedb' = Append(filedb, l) /\ ~IsTicket(l)
    BY <1>2, <1>9, ChangeStep DEF Line
  <2>2. d = c
    BY <1>1, <1>2, <2>1, LineAppended
  <2>3. Funds(o)' = Funds(o)
    <3>1. Funds(o)' = Funds(o) + 0 /\ Funds(o) \in Int
      BY <1>2, <2>1, FundsNext, FundsType
    <3> QED
      BY <3>1
  <2>4. sent' = sent
    BY <1>9 DEF HandleBalanceChange, natsVars
  <2>5. Taken(c, o)' = Taken(c, o)
    BY <2>4 DEF Taken
  <2> QED
    BY <1>2, <2>2, <2>3, <2>5
<1> QED
  BY <1>5, <1>6, <1>7, <1>8, <1>9, LedgerKinds

(* A user's last line has the effect of them all. *)
LEMMA LoggedIsReplay ==
    ASSUME TypeOK, MoneyInv, NEW o \in Rows, NEW n, n = Len(filedb)
    PROVE  Logged(o) = Replay(o, n)
<1> DEFINE own == {i \in DOMAIN filedb : o \in Users(filedb[i])}
<1>1. n \in Nat /\ DOMAIN filedb = 1 .. n /\ 0 <= n
  BY Shapes
<1>2. Logged(o) = IF own = {} THEN [free |-> Deposit, freeze |-> 0] ELSE filedb[Max(own)].new[o]
  BY DEF Logged
<1>3. own \in SUBSET DOMAIN filedb /\ \A i \in 1 .. n : i \notin own => o \notin Users(filedb[i])
  BY <1>1
<1> HIDE DEF own
<1>4. CASE own = {}
  <2>1. \A i \in 0 + 1 .. n : o \notin Users(filedb[i])
    BY <1>1, <1>3, <1>4
  <2>2. Replay(o, n) = Replay(o, 0)
    BY <1>1, <2>1, ReplayFlat
  <2> QED
    BY <1>2, <1>4, <2>2, ReplayNone
<1>5. CASE own # {}
  <2>1. PICK t : t = Max(own)
    OBVIOUS
  <2>2. t \in own /\ \A i \in own : i <= t
    BY <1>3, <1>5, <2>1, MaxLine
  <2>3. t \in Nat /\ t <= n /\ t \in DOMAIN filedb
    BY <1>1, <1>3, <2>2
  <2>4. ASSUME NEW i \in t + 1 .. n PROVE o \notin Users(filedb[i])
    <3>1. i \in 1 .. n /\ ~(i <= t)
      BY <1>1, <2>3
    <3> QED
      BY <1>3, <2>2, <3>1
  <2>5. Replay(o, n) = Replay(o, t)
    BY <1>1, <2>3, <2>4, ReplayFlat
  <2> QED
    BY <1>2, <1>5, <2>1, <2>3, <2>5 DEF MoneyInv
<1> QED
  BY <1>4, <1>5

LEMMA LoggedNext ==
    TypeOK' /\ MoneyInv' =>
        \A o \in Rows : \A n : n = Len(filedb') => Logged(o)' = Replay(o, n)'
<1> DEFINE P == \A o \in Rows : \A n : n = Len(filedb) => Logged(o) = Replay(o, n)
<1>1. TypeOK /\ MoneyInv => P
  BY LoggedIsReplay
<1> HIDE DEF P
<1>2. TypeOK' /\ MoneyInv' => P'
  BY <1>1, PTL
<1> QED
  BY <1>2 DEF P

(* The effect of a line on the balances the log gives. *)
LEMMA LoggedStep ==
    ASSUME TypeOK, TypeOK', MoneyInv, MoneyInv', NEW l \in Line, filedb' = Append(filedb, l),
           NEW o \in Rows
    PROVE  /\ Logged(o)' = [free   |-> Logged(o).free + Gain(l, o),
                            freeze |-> Logged(o).freeze + Freeze(l, o)]
           /\ Logged(o) \in Money
<1>1. PICK n : n = Len(filedb)
  OBVIOUS
<1>2. /\ n \in Nat /\ n <= Len(filedb) /\ Len(filedb') = n + 1 /\ filedb'[n + 1] = l
      /\ \A i \in 1 .. n : filedb'[i] = filedb[i]
  BY <1>1, LineAppended
<1>3. Logged(o) = Replay(o, n) /\ Logged(o)' = Replay(o, n + 1)'
  BY <1>1, <1>2, LoggedIsReplay, LoggedNext
<1>4. Replay(o, n)' = Replay(o, n)
  BY <1>2, ReplaySame
<1>5. Replay(o, n + 1)' = [free   |-> Replay(o, n)'.free + Gain(filedb'[n + 1], o),
                           freeze |-> Replay(o, n)'.freeze + Freeze(filedb'[n + 1], o)]
  BY <1>2, ReplayNextLater
<1>6. Replay(o, n) \in Money
  BY <1>2, ReplayNext
<1> QED
  BY <1>2, <1>3, <1>4, <1>5, <1>6

(* What the ledger can spend of a user's is what the bank's engine can. *)
LEMMA AbstractSpare ==
    ASSUME TypeOK, TakenInv, NEW o \in Owners PROVE Abstract!Spare(o) = Spare(o)
<1>1. \A f : Abstract!SumFunction(f) = SumFunction(f)
  BY DEF Abstract!SumFunction, SumFunction, Abstract!SumFunctionOnSet, SumFunctionOnSet,
         Abstract!FoldFunctionOnSet, FoldFunctionOnSet, Abstract!MapThenFoldSet, MapThenFoldSet
<1>2. Abstract!Spare(o) = Taken(Cardinality(TicketLines), o) - Spent(Nat, o)
  <2>1. {j \in DOMAIN trades : trades[j].payer = o}
            = {j \in DOMAIN trades : j \in Nat /\ trades[j].payer = o}
    BY Shapes
  <2> QED
    BY <1>1, <2>1 DEF Abstract!Spare, Taken, Spent
<1> QED
  BY <1>2, SpareParts DEF TakenInv

LEMMA LedgerInit == Init => Abstract!Init
<1> SUFFICES ASSUME Init PROVE Abstract!Init
  OBVIOUS
<1>1. filedb = <<>> /\ sent = <<>> /\ trades = <<>>
  BY DEF Init
<1>2. TicketLines = {} /\ ChangeLines = {}
  BY <1>1 DEF TicketLines, ChangeLines
<1>3. \A o : Logged(o) = [free |-> IF o \in Rows THEN Deposit ELSE 0, freeze |-> 0]
  BY <1>1 DEF Logged
<1> QED
  BY <1>1, <1>2, <1>3, FS_EmptySet DEF Abstract!Init

(* A settlement, and the same user by user. *)
Transferred(m, p, q, a) == [m EXCEPT ![p].freeze = @ - a, ![q].free = @ + a]

Balances(m, p, q, a) ==
    [o \in Owners |-> [free   |-> m[o].free + (IF q = o THEN a ELSE 0),
                       freeze |-> m[o].freeze + (IF p = o THEN -a ELSE 0)]]

LEMMA Transfer ==
    ASSUME NEW m \in [Owners -> Money], NEW p \in Owners, NEW q \in Owners, NEW a \in Nat
    PROVE  Transferred(m, p, q, a) = Balances(m, p, q, a)
<1> DEFINE x == [m EXCEPT ![p].freeze = @ - a]
           y == [x EXCEPT ![q].free = @ + a]
<1>1. \A o \in Owners : /\ m[o] = [free |-> m[o].free, freeze |-> m[o].freeze]
                        /\ m[o].free \in Int /\ m[o].freeze \in Int
  BY DEF Money
<1>2. DOMAIN x = Owners
  OBVIOUS
<1>3. ASSUME NEW o \in Owners
      PROVE  x[o] = [free |-> m[o].free, freeze |-> m[o].freeze + (IF p = o THEN -a ELSE 0)]
  BY <1>1
<1> HIDE DEF x
<1>4. ASSUME NEW o \in Owners
      PROVE  y[o] = [free   |-> m[o].free + (IF q = o THEN a ELSE 0),
                     freeze |-> m[o].freeze + (IF p = o THEN -a ELSE 0)]
  <2>1. CASE o = q
    <3>1. y[o] = [x[o] EXCEPT !.free = @ + a]
      BY <1>2, <2>1
    <3>2. PICK z : z = m[o].freeze + (IF p = o THEN -a ELSE 0)
      OBVIOUS
    <3>3. x[o] = [free |-> m[o].free, freeze |-> z]
      BY <1>3, <3>2
    <3>4. y[o] = [free |-> m[o].free + a, freeze |-> z]
      BY <3>1, <3>3
    <3> QED
      BY <2>1, <3>2, <3>4
  <2>2. CASE o # q
    <3>1. y[o] = x[o]
      BY <1>2, <2>2
    <3> QED
      BY <1>1, <1>3, <2>2, <3>1
  <2> QED
    BY <2>1, <2>2
<1>5. y = [o \in Owners |-> y[o]]
  BY <1>2
<1>6. y = [o \in Owners |-> [free   |-> m[o].free + (IF q = o THEN a ELSE 0),
                            freeze |-> m[o].freeze + (IF p = o THEN -a ELSE 0)]]
  <2> HIDE DEF y
  <2> QED
    BY <1>4, <1>5
<1>7. y = [m EXCEPT ![p].freeze = @ - a, ![q].free = @ + a]
  BY <1>1 DEF x
<1> QED
  BY <1>6, <1>7 DEF Transferred, Balances

(* A ticket, likewise. *)
Charged(m, p, a) == [m EXCEPT ![p].free = @ - a, ![p].freeze = @ + a]

Frozen(m, p, a) ==
    [o \in Owners |-> [free   |-> m[o].free + (IF p = o THEN -a ELSE 0),
                       freeze |-> m[o].freeze + (IF p = o THEN a ELSE 0)]]

LEMMA Charge ==
    ASSUME NEW m \in [Owners -> Money], NEW p \in Owners, NEW a \in Nat
    PROVE  Charged(m, p, a) = Frozen(m, p, a)
<1> DEFINE y == [m EXCEPT ![p].free = @ - a]
           x == [y EXCEPT ![p].freeze = @ + a]
<1>1. \A o \in Owners : /\ m[o] = [free |-> m[o].free, freeze |-> m[o].freeze]
                        /\ m[o].free \in Int /\ m[o].freeze \in Int
  BY DEF Money
<1>2. x[p] = [free |-> m[p].free - a, freeze |-> m[p].freeze + a]
  <2>1. PICK u, v : u = m[p].free /\ v = m[p].freeze
    OBVIOUS
  <2>2. m[p] = [free |-> u, freeze |-> v]
    BY <1>1, <2>1
  <2>3. DOMAIN y = Owners /\ y[p] = [free |-> u - a, freeze |-> v]
    BY <2>2
  <2> HIDE DEF y
  <2> QED
    BY <2>1, <2>3
<1>3. \A o \in Owners \ {p} : x[o] = m[o]
  OBVIOUS
<1>4. x = [o \in Owners |-> x[o]]
  OBVIOUS
<1> HIDE DEF x, y
<1>5. ASSUME NEW o \in Owners
      PROVE  x[o] = [free   |-> m[o].free + (IF p = o THEN -a ELSE 0),
                     freeze |-> m[o].freeze + (IF p = o THEN a ELSE 0)]
  <2>1. CASE o = p
    BY <1>1, <1>2, <2>1
  <2>2. CASE o # p
    <3>1. x[o] = m[o] /\ m[o].free + 0 = m[o].free /\ m[o].freeze + 0 = m[o].freeze
      BY <1>1, <1>3, <2>2
    <3> QED
      BY <1>1, <2>2, <3>1
  <2> QED
    BY <2>1, <2>2
<1>6. x = Frozen(m, p, a)
  BY <1>4, <1>5 DEF Frozen
<1>7. x = Charged(m, p, a)
  BY DEF Charged, x, y
<1> QED
  BY <1>6, <1>7

(* Every step of the bank is one of the ledger's, or none. *)
LEMMA LedgerStep ==
    ASSUME Owners \subseteq Rows
    PROVE  /\ CoreInv /\ CoreInv' /\ NoGapLogged /\ SeqIsNumber /\ InFlight /\ TakenInv
           /\ OnceInv /\ Owed /\ FrozenInv /\ MoneyInv /\ MoneyInv'
           /\ [Next]_vars
           => [Abstract!Next]_(Abstract!vars)
<1> SUFFICES ASSUME CoreInv, CoreInv', NoGapLogged, SeqIsNumber, InFlight, TakenInv,
                    OnceInv, Owed, FrozenInv, MoneyInv, MoneyInv', [Next]_vars
             PROVE  Abstract!Next \/ UNCHANGED Abstract!vars
  OBVIOUS
<1>0. TypeOK /\ TypeOK' /\ KnownInv
  BY DEF CoreInv
<1>1. ASSUME filedb' = filedb
      PROVE  /\ Cardinality(TicketLines)' = Cardinality(TicketLines)
             /\ Cardinality(ChangeLines)' = Cardinality(ChangeLines)
             /\ [o \in Owners |-> Logged(o)]' = [o \in Owners |-> Logged(o)]
  <2>1. \A o : Logged(o)' = Logged(o)
    BY <1>1 DEF Logged, Users, IsTicket
  <2> QED
    BY <1>1, <2>1, SameLog
<1>2. CASE UNCHANGED <<sent, trades, filedb>>
  BY <1>1, <1>2 DEF Abstract!vars
<1>3. ASSUME NEW r \in Requests, Publish(r) PROVE Abstract!Publish(r)
  <2>1. sent' = Append(sent, r) /\ UNCHANGED <<trades, filedb>>
    BY <1>3 DEF Publish, omeVars, fileVars
  <2> QED
    BY <1>1, <2>1 DEF Abstract!Publish
<1>4. ASSUME NEW p \in Owners, NEW q \in Owners, Trade(p, q) PROVE Abstract!Fill(p, q)
  <2>1. PICK a \in 1 .. Spare(p) : trades' = Append(trades, [payer |-> p, payee |-> q, amount |-> a])
    BY <1>4 DEF Trade
  <2>2. UNCHANGED <<sent, filedb>>
    BY <1>4 DEF Trade, natsVars, fileVars
  <2>3. a \in 1 .. Abstract!Spare(p)
    BY <1>0, <2>1, AbstractSpare
  <2> QED
    BY <1>1, <2>1, <2>2, <2>3 DEF Abstract!Fill
<1>5. CASE CreateOrder
  <2>1. PICK c : c = Cardinality(TicketLines) /\ c \in Nat /\ c <= Len(sent)
    BY TicketsTaken
  <2>2. Head(ch).seq = c + 1 /\ Cardinality(TicketLines)' = c + 1 /\ c + 1 \in DOMAIN sent
    BY <1>0, <1>5, <2>1, NextTaken, TicketStep
  <2>3. PICK l \in Line : /\ filedb' = Append(filedb, l) /\ IsTicket(l) /\ LineKnown(l)
                          /\ l.seq = Head(ch).seq
    BY <1>0, <1>5, TicketStep DEF Line
  <2>4. PICK r : r = sent[c + 1] /\ l.owner = r.owner /\ l.total = r.total
                 /\ r.owner \in Owners /\ r.total \in Nat
    <3>1. l.owner = sent[c + 1].owner /\ l.total = sent[c + 1].total
      BY <2>2, <2>3 DEF LineKnown
    <3>2. l.owner \in Owners /\ l.total \in Nat
      BY <2>3, LineShape DEF TicketLine
    <3> QED
      BY <3>1, <3>2
  <2>5. UNCHANGED <<sent, trades>> /\ Cardinality(ChangeLines)' = Cardinality(ChangeLines)
    BY <1>0, <1>5, <2>3, LineAppended DEF CreateOrder, natsVars, omeVars
  <2>6. ASSUME NEW o \in Owners
        PROVE  /\ Logged(o)' = [free   |-> Logged(o).free + (IF r.owner = o THEN -r.total ELSE 0),
                                freeze |-> Logged(o).freeze + (IF r.owner = o THEN r.total ELSE 0)]
               /\ Logged(o) \in Money
    BY <1>0, <2>3, <2>4, LoggedStep DEF Gain, Freeze
  <2> DEFINE money == [o \in Owners |-> Logged(o)]
  <2>7. [o \in Owners |-> Logged(o)]' =
            [money EXCEPT ![r.owner].free = @ - r.total, ![r.owner].freeze = @ + r.total]
    <3>1. money \in [Owners -> Money] /\ \A o \in Owners : money[o] = Logged(o)
      BY <2>6
    <3>2. [o \in Owners |-> Logged(o)]' = Frozen(money, r.owner, r.total)
      BY <2>6 DEF Frozen
    <3> HIDE DEF money
    <3>3. Charged(money, r.owner, r.total) = Frozen(money, r.owner, r.total)
      BY <2>4, <3>1, Charge
    <3> QED
      BY <3>2, <3>3 DEF Charged
  <2>8. c < Len(sent)
    BY <1>0, <2>1, <2>2, Shapes
  <2>9. Abstract!Take
    BY <2>1, <2>2, <2>4, <2>5, <2>7, <2>8 DEF Abstract!Take
  <2> QED
    BY <2>9 DEF Abstract!Next
<1>6. CASE HandleBalanceChange
  <2>1. PICK c : c = Cardinality(ChangeLines) /\ c \in Nat /\ c <= Len(trades)
    BY <1>0, NextReason
  <2>2. PICK l \in Line : /\ filedb' = Append(filedb, l) /\ ~IsTicket(l) /\ LineKnown(l)
                          /\ l.reason = Head(ch).reason
    BY <1>0, <1>6, ChangeStep DEF Line
  <2>3. /\ UNCHANGED <<sent, trades>> /\ ch # <<>> /\ IsChange(Head(ch))
        /\ Cardinality(TicketLines)' = Cardinality(TicketLines)
    BY <1>0, <1>6, <2>2, LineAppended
    DEF HandleBalanceChange, Taking, IsChange, natsVars, omeVars
  <2>4. l.reason = c + 1 /\ c + 1 \in DOMAIN trades /\ Cardinality(ChangeLines)' = c + 1
    BY <1>0, <2>1, <2>2, <2>3, NextReason, SettledNext DEF LineKnown
  <2>5. PICK t : /\ t = trades[c + 1]
                 /\ l.payer = t.payer /\ l.payee = t.payee /\ l.amount = t.amount
                 /\ t.payer \in Owners /\ t.payee \in Owners /\ t.amount \in Nat
    <3>1. /\ l.payer = trades[c + 1].payer /\ l.payee = trades[c + 1].payee
          /\ l.amount = trades[c + 1].amount
      BY <2>2, <2>4 DEF LineKnown
    <3>2. l.payer \in Owners /\ l.payee \in Owners /\ l.amount \in Nat
      BY <2>2, LineShape DEF ChangeLine
    <3> QED
      BY <3>1, <3>2
  <2>6. ASSUME NEW o \in Owners
        PROVE  /\ Logged(o)' = [free   |-> Logged(o).free + (IF t.payee = o THEN t.amount ELSE 0),
                                freeze |-> Logged(o).freeze + (IF t.payer = o THEN -t.amount ELSE 0)]
               /\ Logged(o) \in Money
    BY <1>0, <2>2, <2>5, LoggedStep DEF Gain, Freeze
  <2>7. Logged(t.payer).freeze >= t.amount
    <3>1. PICK p, n : p = t.payer /\ n = Len(filedb)
      OBVIOUS
    <3>2. p \in Owners /\ p \in Rows
      BY <2>5, <3>1
    <3>3. Logged(p) = Replay(p, n)
      BY <1>0, <3>1, <3>2, LoggedIsReplay
    <3>4. Replay(p, n).freeze = Spare(p) + Unsettled(p) /\ Spare(p) >= 0 /\ Spare(p) \in Int
      BY <1>0, <3>1, <3>2, SpareType DEF FrozenInv
    <3>5. Unsettled(p) = Spent(After(c), p)
      BY <1>0, <2>1, SpareParts
    <3>6. Spent(After(c), p) = Spent(After(c + 1), p) + t.amount /\ Spent(After(c + 1), p) \in Nat
      BY <1>0, <2>1, <2>4, <2>5, <3>1, SpentFirst, SpentType
    <3> QED
      BY <2>5, <3>1, <3>3, <3>4, <3>5, <3>6
  <2> DEFINE money == [o \in Owners |-> Logged(o)]
  <2>8. [o \in Owners |-> Logged(o)]' =
            [money EXCEPT ![t.payer].freeze = @ - t.amount, ![t.payee].free = @ + t.amount]
    <3>1. money \in [Owners -> Money] /\ \A o \in Owners : money[o] = Logged(o)
      BY <2>6
    <3>2. [o \in Owners |-> Logged(o)]' = Balances(money, t.payer, t.payee, t.amount)
      BY <2>6 DEF Balances
    <3> HIDE DEF money
    <3>3. PICK m, p, q, a : m = money /\ p = t.payer /\ q = t.payee /\ a = t.amount
      OBVIOUS
    <3>4. m \in [Owners -> Money] /\ p \in Owners /\ q \in Owners /\ a \in Nat
      BY <2>5, <3>1, <3>3
    <3>5. Transferred(m, p, q, a) = Balances(m, p, q, a)
      BY <3>4, Transfer
    <3> QED
      BY <3>2, <3>3, <3>5 DEF Transferred
  <2>9. c < Len(trades) /\ money[t.payer].freeze >= t.amount
    BY <1>0, <2>1, <2>4, <2>5, <2>7, Shapes
  <2>10. Abstract!Settle
    BY <2>1, <2>3, <2>4, <2>5, <2>8, <2>9 DEF Abstract!Settle
  <2> QED
    BY <2>10 DEF Abstract!Next
<1> QED
  BY <1>2, <1>3, <1>4, <1>5, <1>6, LedgerKinds DEF Abstract!Next

(* When every user has a row, NATS drops nothing, no failed write is overlooked
   and the engine does not restart, the log of a bank that crashes, recovers,
   fails its transactions and is redelivered its requests is the run of a ledger
   that takes each request and settles each trade once, in their order, out of
   what the payer has frozen. *)
THEOREM ImplementsLedgerCorrect ==
    ASSUME Owners \subseteq Rows, Without({"drop", "swallow", "ome"})
    PROVE  Spec => ImplementsLedger
<1>1. Without({"drop", "swallow"}) /\ Without({"swallow"}) /\ Without({"ome"})
  BY DEF Without
<1>2. Spec => [](CoreInv /\ NoGapLogged /\ SeqIsNumber /\ InFlight)
  BY <1>1, StreamCorrect
<1>3. Spec => [](CoreInv /\ Owed)
  BY <1>1, SettlementCorrect, PTL
<1>4. Spec => [](CoreInv /\ OnceInv)
  BY <1>1, OnceCorrect
<1>5. Spec => [](CoreInv /\ MoneyInv)
  BY MoneyCorrect
<1>6. CoreInv /\ CoreInv' /\ OnceInv /\ Owed /\ FrozenInv /\ [Next]_vars => FrozenInv'
  BY FrozenStep DEF CoreInv
<1>7. CoreInv /\ NoGapLogged /\ SeqIsNumber /\ InFlight /\ TakenInv /\ [Next]_vars => TakenInv'
  BY TakenStep
<1>8. /\ CoreInv /\ CoreInv' /\ NoGapLogged /\ SeqIsNumber /\ InFlight /\ TakenInv
      /\ OnceInv /\ Owed /\ FrozenInv /\ MoneyInv /\ MoneyInv'
      /\ [Next]_vars
      => [Abstract!Next]_(Abstract!vars)
  BY LedgerStep
<1>9. Spec => [](FrozenInv /\ TakenInv)
  BY <1>2, <1>3, <1>4, <1>6, <1>7, FrozenInit, TakenInit, PTL DEF Spec
<1> QED
  BY <1>2, <1>3, <1>4, <1>5, <1>8, <1>9, LedgerInit, PTL DEF Spec, ImplementsLedger, Abstract!Spec

(* The inductive invariant holds, each layer under the faults it allows: log,
   MySQL, memory, channel and the engine's stream agree on the last request, the
   last ticket, the trades settled and the money (WaitForFiledb, LoadAllAssets,
   ParseAndWriteLogs, HandleOrderReq, HandleBalanceChange). *)
THEOREM LogInvariant == Spec => []LogInv
<1>1. Spec => [](KnownInv /\ RecoveryInv /\ SeqInv /\ MoneyInv)
  BY MoneyCorrect, PTL DEF CoreInv
<1>2. Spec => []RowsInv
  BY RowsInit, RowsStep, CoreCorrect, PTL DEF Spec
<1>3. Spec => [](Without({"drop", "swallow"}) => StreamInv)
  <2>1. CASE Without({"drop", "swallow"})
    <3>1. CoreInv /\ NoGapLogged /\ SeqIsNumber /\ InFlight => StreamInv
      BY StreamParts DEF CoreInv
    <3> QED
      BY <2>1, <3>1, StreamCorrect, PTL
  <2>2. CASE ~Without({"drop", "swallow"})
    BY <2>2, PTL
  <2> QED
    BY <2>1, <2>2
<1>4. Spec => [](Without({"late"}) => TicketIDsInv)
  <2>1. CASE Without({"late"})
    <3>1. CoreInv /\ TicketIDsInv /\ [Next]_vars => TicketIDsInv'
      BY <2>1, TicketIDsStep
    <3> QED
      BY <3>1, TicketIDsInit, CoreCorrect, PTL DEF Spec
  <2>2. CASE ~Without({"late"})
    BY <2>2, PTL
  <2> QED
    BY <2>1, <2>2
<1>5. Spec => [](Without({"swallow"}) => SettlementInv)
  <2>1. CASE Without({"swallow"})
    <3>1. CoreInv /\ SettledInOrder /\ Owed => SettlementInv
      BY DEF SettlementInv
    <3> QED
      BY <2>1, <3>1, SettlementCorrect, PTL
  <2>2. CASE ~Without({"swallow"})
    BY <2>2, PTL
  <2> QED
    BY <2>1, <2>2
<1>6. Spec => [](Without({"ome"}) => OnceInv)
  <2>1. CASE Without({"ome"})
    BY <2>1, OnceCorrect, PTL
  <2>2. CASE ~Without({"ome"})
    BY <2>2, PTL
  <2> QED
    BY <2>1, <2>2
<1>7. Spec => [](Without({"swallow", "ome"}) => FrozenInv)
  <2>1. CASE Without({"swallow", "ome"})
    <3>1. Without({"swallow"}) /\ Without({"ome"})
      BY <2>1 DEF Without
    <3>2. Spec => [](CoreInv /\ Owed)
      BY <3>1, SettlementCorrect, PTL
    <3>3. Spec => [](CoreInv /\ OnceInv)
      BY <3>1, OnceCorrect
    <3>4. CoreInv /\ CoreInv' /\ OnceInv /\ Owed /\ FrozenInv /\ [Next]_vars => FrozenInv'
      BY FrozenStep DEF CoreInv
    <3> QED
      BY <3>2, <3>3, <3>4, FrozenInit, PTL DEF Spec
  <2>2. CASE ~Without({"swallow", "ome"})
    BY <2>2, PTL
  <2> QED
    BY <2>1, <2>2
<1>8. /\ KnownInv /\ RecoveryInv /\ SeqInv /\ MoneyInv /\ RowsInv
      /\ Without({"drop", "swallow"}) => StreamInv
      /\ Without({"late"}) => TicketIDsInv
      /\ Without({"swallow"}) => SettlementInv
      /\ Without({"ome"}) => OnceInv
      /\ Without({"swallow", "ome"}) => FrozenInv
      => LogInv
  BY DEF LogInv
<1> QED
  BY <1>1, <1>2, <1>3, <1>4, <1>5, <1>6, <1>7, <1>8, PTL
=============================================================================
