---------------------------- MODULE CcomsProofs ----------------------------
(***************************************************************************)
(* Proofs about Ccoms, for any users, requests, prices, quantities and     *)
(* fees: what is frozen covers what may still be traded, trades are what   *)
(* their two requests agreed to, and each bank is a Ledger.                *)
(***************************************************************************)
EXTENDS CcomsInv, SetProofs

-----------------------------------------------------------------------------
(* One user's share of a sum: w says whose each summand is. *)

Part(S, w, o) == {k \in S : w[k] = o}

Share(S, w, f, o) == SumFunction([k \in Part(S, w, o) |-> f[k]])

LEMMA ShareAdd ==
    ASSUME NEW S, IsFiniteSet(S), NEW w, NEW f, NEW v, NEW g, NEW x, x \notin S, NEW o,
           \A k \in S : f[k] \in Int /\ v[k] = w[k] /\ g[k] = f[k],
           g[x] \in Int
    PROVE  /\ Share(S \cup {x}, v, g, o) = Share(S, w, f, o) + (IF v[x] = o THEN g[x] ELSE 0)
           /\ Share(S, w, f, o) \in Int
<1> DEFINE A == Part(S, w, o)
           B == Part(S \cup {x}, v, o)
           a == [k \in A |-> f[k]]
           b == [k \in B |-> g[k]]
<1>1. A \in SUBSET S /\ x \notin A /\ IsFiniteSet(A)
  BY FS_Subset DEF Part
<1>2. a \in [A -> Int]
  BY <1>1
<1>3. Share(S, w, f, o) = SumFunction(a) /\ SumFunction(a) \in Int
  <2>1. Share(S, w, f, o) = SumFunction(a)
    BY DEF Share
  <2> HIDE DEF A, a
  <2> QED
    BY <1>1, <1>2, <2>1, SumOfInt
<1>4. Share(S \cup {x}, v, g, o) = SumFunction(b)
  BY DEF Share
<1>5. CASE v[x] = o
  <2>1. B = A \cup {x}
    BY <1>5 DEF Part
  <2>2. b \in [A \cup {x} -> Int] /\ b[x] = g[x] /\ \A k \in A : b[k] = a[k]
    BY <1>1, <2>1
  <2> HIDE DEF A, B, a, b
  <2>3. SumFunction(b) = SumFunction(a) + b[x]
    <3>1. PICK T, u, z : T = A /\ u = a /\ z = b
      OBVIOUS
    <3>2. /\ IsFiniteSet(T) /\ x \notin T /\ u \in [T -> Int] /\ z \in [T \cup {x} -> Int]
          /\ \A k \in T : z[k] = u[k]
      BY <1>1, <1>2, <2>2, <3>1
    <3>3. SumFunction(z) = SumFunction(u) + z[x]
      BY <3>2, SumMore
    <3> QED
      BY <3>1, <3>3
  <2> QED
    BY <1>3, <1>4, <1>5, <2>2, <2>3
<1>6. CASE v[x] # o
  <2>1. B = A
    BY <1>6 DEF Part
  <2>2. b = a
    BY <1>1, <2>1
  <2> HIDE DEF A, B, a, b
  <2> QED
    BY <1>3, <1>4, <1>6, <2>2
<1> QED
  BY <1>3, <1>5, <1>6

LEMMA ShareSame ==
    ASSUME NEW S, NEW w, NEW f, NEW v, NEW g, NEW o,
           \A k \in S : v[k] = w[k] /\ g[k] = f[k]
    PROVE  Share(S, v, g, o) = Share(S, w, f, o)
<1>1. Part(S, v, o) = Part(S, w, o)
  BY DEF Part
<1>2. [k \in Part(S, v, o) |-> g[k]] = [k \in Part(S, w, o) |-> f[k]]
  BY <1>1 DEF Part
<1> QED
  BY <1>2 DEF Share

LEMMA ShareNone == ASSUME NEW w, NEW f, NEW o PROVE Share({}, w, f, o) = 0
<1>1. DOMAIN [k \in Part({}, w, o) |-> f[k]] = {}
  BY DEF Part
<1> QED
  BY <1>1, SumOfNone DEF Share

(* Without one summand. *)
LEMMA ShareLess ==
    ASSUME NEW S, IsFiniteSet(S), NEW w, NEW f, NEW x \in S, NEW o,
           \A k \in S : f[k] \in Int
    PROVE  /\ Share(S, w, f, o) = Share(S \ {x}, w, f, o) + (IF w[x] = o THEN f[x] ELSE 0)
           /\ Share(S \ {x}, w, f, o) \in Int /\ Share(S, w, f, o) \in Int
<1>1. IsFiniteSet(S \ {x}) /\ (S \ {x}) \cup {x} = S /\ x \notin S \ {x}
  BY FS_RemoveElement
<1>2. f[x] \in Int /\ \A k \in S \ {x} : f[k] \in Int
  OBVIOUS
<1>3. PICK T : T = S \ {x}
  OBVIOUS
<1>4. /\ Share(T \cup {x}, w, f, o) = Share(T, w, f, o) + (IF w[x] = o THEN f[x] ELSE 0)
      /\ Share(T, w, f, o) \in Int
  BY <1>1, <1>2, <1>3, ShareAdd
<1> QED
  BY <1>1, <1>2, <1>3, <1>4

LEMMA ShareNat ==
    ASSUME NEW S, IsFiniteSet(S), NEW w, NEW f, NEW o, \A k \in S : f[k] \in Nat
    PROVE  /\ Share(S, w, f, o) \in Nat
           /\ \A x \in S : w[x] = o => f[x] <= Share(S, w, f, o)
<1>1. ASSUME NEW T \in SUBSET S PROVE Share(T, w, f, o) \in Nat
  <2>1. IsFiniteSet(Part(T, w, o)) /\ Part(T, w, o) \in SUBSET S
    BY FS_Subset DEF Part
  <2>2. [k \in Part(T, w, o) |-> f[k]] \in [Part(T, w, o) -> Nat]
    BY <2>1
  <2>3. PICK P : P = Part(T, w, o)
    OBVIOUS
  <2>4. SumFunction([k \in P |-> f[k]]) \in Nat
    BY <2>1, <2>2, <2>3, SumOfNat
  <2> QED
    BY <2>3, <2>4 DEF Share
<1>2. ASSUME NEW x \in S, w[x] = o PROVE f[x] <= Share(S, w, f, o)
  <2>1. Share(S, w, f, o) = Share(S \ {x}, w, f, o) + f[x]
    BY <1>2, ShareLess
  <2>2. Share(S \ {x}, w, f, o) \in Nat /\ f[x] \in Nat
    BY <1>1
  <2> QED
    BY <2>1, <2>2
<1> QED
  BY <1>1, <1>2

(* The same for a stretch of a sequence: what grows at its end, and what is
   done with at its start. *)

Stretch(w, f, m, n, o) == Share(m + 1 .. n, w, f, o)

LEMMA Interval ==
    ASSUME NEW m \in Nat, NEW n \in Nat
    PROVE  IsFiniteSet(m + 1 .. n)
<1>1. m + 1 \in Int /\ n \in Int
  OBVIOUS
<1> QED
  BY <1>1, FS_Interval

LEMMA StretchSame ==
    ASSUME NEW w, NEW f, NEW v, NEW g, NEW m, NEW n, NEW o,
           \A k \in m + 1 .. n : v[k] = w[k] /\ g[k] = f[k]
    PROVE  Stretch(v, g, m, n, o) = Stretch(w, f, m, n, o)
<1>1. PICK S : S = m + 1 .. n
  OBVIOUS
<1>2. \A k \in S : v[k] = w[k] /\ g[k] = f[k]
  BY <1>1
<1>3. Share(S, v, g, o) = Share(S, w, f, o)
  BY <1>2, ShareSame
<1> QED
  BY <1>1, <1>3 DEF Stretch

LEMMA StretchNone ==
    ASSUME NEW w, NEW f, NEW m \in Nat, NEW n \in Nat, n <= m, NEW o
    PROVE  Stretch(w, f, m, n, o) = 0
<1>1. m + 1 .. n = {}
  OBVIOUS
<1> QED
  BY <1>1, ShareNone DEF Stretch

LEMMA StretchNat ==
    ASSUME NEW w, NEW f, NEW m \in Nat, NEW n \in Nat, NEW o,
           \A k \in m + 1 .. n : f[k] \in Nat
    PROVE  /\ Stretch(w, f, m, n, o) \in Nat
           /\ \A k \in m + 1 .. n : w[k] = o => f[k] <= Stretch(w, f, m, n, o)
<1>1. PICK S : S = m + 1 .. n
  OBVIOUS
<1>2. IsFiniteSet(S) /\ \A k \in S : f[k] \in Nat
  BY <1>1, Interval
<1>3. Share(S, w, f, o) \in Nat /\ \A k \in S : w[k] = o => f[k] <= Share(S, w, f, o)
  BY <1>2, ShareNat
<1> QED
  BY <1>1, <1>3 DEF Stretch

LEMMA StretchLast ==
    ASSUME NEW w, NEW f, NEW m \in Nat, NEW n \in Nat, m <= n, NEW o,
           \A k \in m + 1 .. n + 1 : f[k] \in Int
    PROVE  Stretch(w, f, m, n + 1, o)
             = Stretch(w, f, m, n, o) + (IF w[n + 1] = o THEN f[n + 1] ELSE 0)
<1>1. PICK S, x : S = m + 1 .. n + 1 /\ x = n + 1
  OBVIOUS
<1>2. IsFiniteSet(S) /\ x \in S /\ m + 1 .. n = S \ {x}
  BY <1>1, Interval
<1>3. \A k \in S : f[k] \in Int
  BY <1>1
<1>4. Share(S, w, f, o) = Share(S \ {x}, w, f, o) + (IF w[x] = o THEN f[x] ELSE 0)
  BY <1>2, <1>3, ShareLess
<1> QED
  BY <1>1, <1>2, <1>4 DEF Stretch

LEMMA StretchFirst ==
    ASSUME NEW w, NEW f, NEW m \in Nat, NEW n \in Nat, m < n, NEW o,
           \A k \in m + 1 .. n : f[k] \in Int
    PROVE  Stretch(w, f, m, n, o)
             = Stretch(w, f, m + 1, n, o) + (IF w[m + 1] = o THEN f[m + 1] ELSE 0)
<1>1. PICK S, x : S = m + 1 .. n /\ x = m + 1
  OBVIOUS
<1>2. IsFiniteSet(S) /\ x \in S /\ m + 1 + 1 .. n = S \ {x}
  BY <1>1, Interval
<1>3. \A k \in S : f[k] \in Int
  BY <1>1
<1>4. Share(S, w, f, o) = Share(S \ {x}, w, f, o) + (IF w[x] = o THEN f[x] ELSE 0)
  BY <1>2, <1>3, ShareLess
<1> QED
  BY <1>1, <1>2, <1>4 DEF Stretch

-----------------------------------------------------------------------------
(* What requests cost. *)

LEMMA Times ==
    ASSUME NEW a \in Nat, NEW b \in Nat
    PROVE  /\ a * b \in Nat /\ a * b = b * a
           /\ \A d \in Nat : a <= d => a * b <= d * b
           /\ a # 0 /\ b # 0 => a * b # 0
OBVIOUS

LEMMA RequestType ==
    ASSUME NEW r \in Requests
    PROVE  /\ r.owner \in Owners /\ r.side \in Side
           /\ r.price \in Nat \ {0} /\ r.qty \in Nat \ {0}
BY CcomsAssumption DEF Side

LEMMA Costs ==
    ASSUME NEW r \in Requests
    PROVE  /\ Value(r) * Unit \in Nat /\ Total(r) \in Nat
           /\ Value(r) * Unit <= Total(r)
<1>1. Unit \in Nat /\ Unit + Fee \in Nat /\ Unit <= Unit + Fee
  BY CcomsAssumption
<1>2. Value(r) \in Nat
  BY RequestType, Times DEF Value
<1>3. PICK v, u, t : v = Value(r) /\ u = Unit /\ t = Unit + Fee
  OBVIOUS
<1>4. v \in Nat /\ u \in Nat /\ t \in Nat /\ u <= t
  BY <1>1, <1>2, <1>3
<1>5. v * u \in Nat /\ v * t \in Nat /\ v * u = u * v /\ v * t = t * v /\ u * v <= t * v
  BY <1>4, Times
<1>6. v * u <= v * t
  BY <1>5
<1> QED
  BY <1>3, <1>5, <1>6 DEF Total

-----------------------------------------------------------------------------
(* The sums of the invariant, each a stretch of a sequence: the requests of a
   stream or the changes of a bank. *)

OwnerIn(q)  == [n \in DOMAIN q |-> q[n].owner]
TotalIn(q)  == [n \in DOMAIN q |-> Total(q[n])]
ValueIn(q)  == [n \in DOMAIN q |-> Value(q[n]) * Unit]
PayerIn(h)  == [k \in DOMAIN h |-> h[k].payer]
AmountIn(h) == [k \in DOMAIN h |-> h[k].amount]

FundsOf(q, n, o)      == Stretch(OwnerIn(q), TotalIn(q), 0, n, o)
TicketsOf(q, m, n, o) == Stretch(OwnerIn(q), ValueIn(q), m, n, o)
PaidOf(h, m, o)       == Stretch(PayerIn(h), AmountIn(h), m, Len(h), o)

Debit == [payer : Owners, payee : Owners, amount : Nat]

LEMMA InSeq == ASSUME NEW T, NEW q \in Seq(T)
               PROVE  /\ Len(q) \in Nat /\ DOMAIN q = 1 .. Len(q)
                      /\ \A i \in 1 .. Len(q) : q[i] \in T
OBVIOUS

LEMMA InStream ==
    ASSUME NEW q \in Seq(Requests), NEW k \in 1 .. Len(q)
    PROVE  /\ OwnerIn(q)[k] = q[k].owner
           /\ TotalIn(q)[k] = Total(q[k]) /\ TotalIn(q)[k] \in Nat
           /\ ValueIn(q)[k] = Value(q[k]) * Unit /\ ValueIn(q)[k] \in Nat
           /\ ValueIn(q)[k] <= TotalIn(q)[k]
<1>1. k \in DOMAIN q /\ q[k] \in Requests
  BY InSeq
<1>2. /\ OwnerIn(q)[k] = q[k].owner
      /\ TotalIn(q)[k] = Total(q[k]) /\ ValueIn(q)[k] = Value(q[k]) * Unit
  BY <1>1 DEF OwnerIn, TotalIn, ValueIn
<1> QED
  BY <1>1, <1>2, Costs

LEMMA FundsNat ==
    ASSUME NEW q \in Seq(Requests), NEW n \in Nat, n <= Len(q), NEW o
    PROVE  FundsOf(q, n, o) \in Nat
<1>1. \A k \in 0 + 1 .. n : TotalIn(q)[k] \in Nat
  <2>1. \A k \in 0 + 1 .. n : k \in 1 .. Len(q)
    BY InSeq
  <2> QED
    BY <2>1, InStream
<1> QED
  BY <1>1, StretchNat DEF FundsOf

LEMMA FundsSame ==
    ASSUME NEW q \in Seq(Requests), NEW p \in Seq(Requests), NEW n \in Nat,
           n <= Len(q), n <= Len(p), \A k \in 1 .. n : p[k] = q[k], NEW o
    PROVE  FundsOf(p, n, o) = FundsOf(q, n, o)
<1>1. \A k \in 0 + 1 .. n : k \in 1 .. n /\ k \in 1 .. Len(q) /\ k \in 1 .. Len(p)
  BY InSeq
<1>2. \A k \in 0 + 1 .. n : OwnerIn(p)[k] = OwnerIn(q)[k] /\ TotalIn(p)[k] = TotalIn(q)[k]
  BY <1>1, InStream
<1> QED
  BY <1>2, StretchSame DEF FundsOf

LEMMA FundsNext ==
    ASSUME NEW q \in Seq(Requests), NEW n \in Nat, n < Len(q), NEW o
    PROVE  FundsOf(q, n + 1, o)
             = FundsOf(q, n, o) + (IF q[n + 1].owner = o THEN Total(q[n + 1]) ELSE 0)
<1>1. Len(q) \in Nat
  BY InSeq
<1>2. \A k \in 0 + 1 .. n + 1 : k \in 1 .. Len(q)
  BY <1>1
<1>3. n + 1 \in 1 .. Len(q)
  BY <1>1
<1>4. \A k \in 0 + 1 .. n + 1 : TotalIn(q)[k] \in Int
  BY <1>2, InStream
<1>5. /\ OwnerIn(q)[n + 1] = q[n + 1].owner /\ TotalIn(q)[n + 1] = Total(q[n + 1])
      /\ TotalIn(q)[n + 1] \in Int
  BY <1>3, InStream
<1>6. Stretch(OwnerIn(q), TotalIn(q), 0, n + 1, o)
        = Stretch(OwnerIn(q), TotalIn(q), 0, n, o)
            + (IF OwnerIn(q)[n + 1] = o THEN TotalIn(q)[n + 1] ELSE 0)
  BY <1>4, StretchLast
<1> QED
  BY <1>5, <1>6 DEF FundsOf

LEMMA TicketsNat ==
    ASSUME NEW q \in Seq(Requests), NEW m \in Nat, NEW n \in Nat, n <= Len(q), NEW o
    PROVE  TicketsOf(q, m, n, o) \in Nat
<1>1. \A k \in m + 1 .. n : ValueIn(q)[k] \in Nat
  <2>1. \A k \in m + 1 .. n : k \in 1 .. Len(q)
    BY InSeq
  <2> QED
    BY <2>1, InStream
<1> QED
  BY <1>1, StretchNat DEF TicketsOf

LEMMA TicketsSame ==
    ASSUME NEW q \in Seq(Requests), NEW p \in Seq(Requests), NEW m \in Nat, NEW n \in Nat,
           n <= Len(q), n <= Len(p), \A k \in 1 .. n : p[k] = q[k], NEW o
    PROVE  TicketsOf(p, m, n, o) = TicketsOf(q, m, n, o)
<1>1. \A k \in m + 1 .. n : k \in 1 .. n /\ k \in 1 .. Len(q) /\ k \in 1 .. Len(p)
  BY InSeq
<1>2. \A k \in m + 1 .. n : OwnerIn(p)[k] = OwnerIn(q)[k] /\ ValueIn(p)[k] = ValueIn(q)[k]
  BY SMTT(30), <1>1, InStream
<1> QED
  BY <1>2, StretchSame DEF TicketsOf

LEMMA TicketsNext ==
    ASSUME NEW q \in Seq(Requests), NEW m \in Nat, NEW n \in Nat, m <= n, n < Len(q), NEW o
    PROVE  TicketsOf(q, m, n + 1, o)
             = TicketsOf(q, m, n, o) + (IF q[n + 1].owner = o THEN Value(q[n + 1]) * Unit ELSE 0)
<1>1. Len(q) \in Nat
  BY InSeq
<1>2. \A k \in m + 1 .. n + 1 : k \in 1 .. Len(q)
  BY <1>1
<1>3. n + 1 \in 1 .. Len(q)
  BY <1>1
<1>4. \A k \in m + 1 .. n + 1 : ValueIn(q)[k] \in Int
  BY <1>2, InStream
<1>5. /\ OwnerIn(q)[n + 1] = q[n + 1].owner /\ ValueIn(q)[n + 1] = Value(q[n + 1]) * Unit
      /\ ValueIn(q)[n + 1] \in Int
  BY <1>3, InStream
<1>6. Stretch(OwnerIn(q), ValueIn(q), m, n + 1, o)
        = Stretch(OwnerIn(q), ValueIn(q), m, n, o)
            + (IF OwnerIn(q)[n + 1] = o THEN ValueIn(q)[n + 1] ELSE 0)
  BY <1>4, StretchLast
<1> QED
  BY <1>5, <1>6 DEF TicketsOf

LEMMA TicketsFirst ==
    ASSUME NEW q \in Seq(Requests), NEW m \in Nat, NEW n \in Nat, m < n, n <= Len(q), NEW o
    PROVE  TicketsOf(q, m, n, o)
             = TicketsOf(q, m + 1, n, o)
                 + (IF q[m + 1].owner = o THEN Value(q[m + 1]) * Unit ELSE 0)
<1>1. Len(q) \in Nat
  BY InSeq
<1>2. \A k \in m + 1 .. n : k \in 1 .. Len(q)
  BY <1>1
<1>3. m + 1 \in 1 .. Len(q)
  BY <1>1
<1>4. \A k \in m + 1 .. n : ValueIn(q)[k] \in Int
  BY <1>2, InStream
<1>5. OwnerIn(q)[m + 1] = q[m + 1].owner /\ ValueIn(q)[m + 1] = Value(q[m + 1]) * Unit
  BY <1>3, InStream
<1>6. Stretch(OwnerIn(q), ValueIn(q), m, n, o)
        = Stretch(OwnerIn(q), ValueIn(q), m + 1, n, o)
            + (IF OwnerIn(q)[m + 1] = o THEN ValueIn(q)[m + 1] ELSE 0)
  BY <1>4, StretchFirst
<1> QED
  BY <1>5, <1>6 DEF TicketsOf

LEMMA InChanges ==
    ASSUME NEW h \in Seq(Debit), NEW k \in 1 .. Len(h)
    PROVE  /\ PayerIn(h)[k] = h[k].payer
           /\ AmountIn(h)[k] = h[k].amount /\ AmountIn(h)[k] \in Nat
<1>1. k \in DOMAIN h /\ h[k] \in Debit
  BY InSeq
<1> QED
  BY <1>1 DEF PayerIn, AmountIn, Debit

LEMMA PaidNat ==
    ASSUME NEW h \in Seq(Debit), NEW m \in Nat, NEW o
    PROVE  /\ PaidOf(h, m, o) \in Nat
           /\ m < Len(h) /\ h[m + 1].payer = o => h[m + 1].amount <= PaidOf(h, m, o)
<1>1. Len(h) \in Nat
  BY InSeq
<1>2. \A k \in m + 1 .. Len(h) : k \in 1 .. Len(h)
  BY <1>1
<1>3. \A k \in m + 1 .. Len(h) : AmountIn(h)[k] \in Nat
  BY <1>2, InChanges
<1>4. /\ PaidOf(h, m, o) \in Nat
      /\ \A k \in m + 1 .. Len(h) : PayerIn(h)[k] = o => AmountIn(h)[k] <= PaidOf(h, m, o)
  BY <1>1, <1>3, StretchNat DEF PaidOf
<1>5. ASSUME m < Len(h), h[m + 1].payer = o PROVE h[m + 1].amount <= PaidOf(h, m, o)
  <2>1. m + 1 \in m + 1 .. Len(h)
    BY <1>1, <1>5
  <2>2. PayerIn(h)[m + 1] = h[m + 1].payer /\ AmountIn(h)[m + 1] = h[m + 1].amount
    BY <1>2, <2>1, InChanges
  <2> QED
    BY <1>4, <1>5, <2>1, <2>2
<1> QED
  BY <1>4, <1>5

LEMMA PaidNext ==
    ASSUME NEW h \in Seq(Debit), NEW d \in Debit, NEW m \in Nat, m <= Len(h), NEW o
    PROVE  PaidOf(Append(h, d), m, o)
             = PaidOf(h, m, o) + (IF d.payer = o THEN d.amount ELSE 0)
<1>1. PICK g, n : g = Append(h, d) /\ n = Len(h)
  OBVIOUS
<1>2. /\ n \in Nat /\ m <= n /\ g \in Seq(Debit) /\ Len(g) = n + 1 /\ g[n + 1] = d
      /\ \A k \in 1 .. n : g[k] = h[k]
  BY <1>1
<1>3. \A k \in m + 1 .. n : k \in 1 .. n /\ k \in 1 .. Len(h) /\ k \in 1 .. Len(g)
  BY <1>1, <1>2
<1>4. \A k \in m + 1 .. n : PayerIn(g)[k] = PayerIn(h)[k] /\ AmountIn(g)[k] = AmountIn(h)[k]
  <2> SUFFICES ASSUME NEW k \in m + 1 .. n
               PROVE  PayerIn(g)[k] = PayerIn(h)[k] /\ AmountIn(g)[k] = AmountIn(h)[k]
    OBVIOUS
  <2>1. k \in 1 .. n /\ k \in 1 .. Len(h) /\ k \in 1 .. Len(g)
    BY <1>3
  <2>2. PayerIn(g)[k] = g[k].payer /\ AmountIn(g)[k] = g[k].amount
    BY <1>2, <2>1, InChanges
  <2>3. PayerIn(h)[k] = h[k].payer /\ AmountIn(h)[k] = h[k].amount
    BY <2>1, InChanges
  <2> QED
    BY <1>2, <2>1, <2>2, <2>3
<1>5. n + 1 \in 1 .. Len(g) /\ \A k \in m + 1 .. n + 1 : k \in 1 .. Len(g)
  BY <1>2
<1>6. /\ PayerIn(g)[n + 1] = d.payer /\ AmountIn(g)[n + 1] = d.amount
      /\ \A k \in m + 1 .. n + 1 : AmountIn(g)[k] \in Int
  BY <1>2, <1>5, InChanges
<1>7. Stretch(PayerIn(g), AmountIn(g), m, n + 1, o)
        = Stretch(PayerIn(g), AmountIn(g), m, n, o)
            + (IF PayerIn(g)[n + 1] = o THEN AmountIn(g)[n + 1] ELSE 0)
  <2>1. n \in Nat /\ m <= n
    BY <1>2
  <2>2. \A k \in m + 1 .. n + 1 : AmountIn(g)[k] \in Int
    BY <1>6
  <2> QED
    BY <2>1, <2>2, StretchLast
<1>8. Stretch(PayerIn(g), AmountIn(g), m, n, o) = Stretch(PayerIn(h), AmountIn(h), m, n, o)
  BY <1>4, StretchSame
<1> QED
  BY <1>1, <1>2, <1>6, <1>7, <1>8 DEF PaidOf

LEMMA PaidFirst ==
    ASSUME NEW h \in Seq(Debit), NEW m \in Nat, m < Len(h), NEW o
    PROVE  PaidOf(h, m, o)
             = PaidOf(h, m + 1, o) + (IF h[m + 1].payer = o THEN h[m + 1].amount ELSE 0)
<1>1. Len(h) \in Nat
  BY InSeq
<1>2. \A k \in m + 1 .. Len(h) : k \in 1 .. Len(h)
  BY <1>1
<1>3. \A k \in m + 1 .. Len(h) : AmountIn(h)[k] \in Int
  BY <1>2, InChanges
<1>4. m + 1 \in 1 .. Len(h)
  BY <1>1
<1>5. PayerIn(h)[m + 1] = h[m + 1].payer /\ AmountIn(h)[m + 1] = h[m + 1].amount
  BY <1>4, InChanges
<1>6. Stretch(PayerIn(h), AmountIn(h), m, Len(h), o)
        = Stretch(PayerIn(h), AmountIn(h), m + 1, Len(h), o)
            + (IF PayerIn(h)[m + 1] = o THEN AmountIn(h)[m + 1] ELSE 0)
  BY <1>1, <1>3, StretchFirst
<1> QED
  BY <1>5, <1>6 DEF PaidOf

(* The sets and functions of the invariant's sums are those of the stretches. *)
LEMMA FundsIs ==
    ASSUME NEW q \in Seq(Requests), NEW n \in Nat, n <= Len(q), NEW o
    PROVE  SumFunction([i \in {j \in 1 .. n : q[j].owner = o} |-> Total(q[i])])
             = FundsOf(q, n, o)
<1>1. \A i \in 0 + 1 .. n : i \in 1 .. n /\ i \in 1 .. Len(q)
  BY InSeq
<1>2. \A i \in 1 .. n : i \in 0 + 1 .. n
  OBVIOUS
<1>3. \A i \in 0 + 1 .. n : OwnerIn(q)[i] = q[i].owner /\ TotalIn(q)[i] = Total(q[i])
  BY <1>1, InStream
<1>4. {j \in 1 .. n : q[j].owner = o} = Part(0 + 1 .. n, OwnerIn(q), o)
  BY <1>1, <1>2, <1>3 DEF Part
<1>5. [i \in {j \in 1 .. n : q[j].owner = o} |-> Total(q[i])]
        = [i \in Part(0 + 1 .. n, OwnerIn(q), o) |-> TotalIn(q)[i]]
  <2>1. \A i \in Part(0 + 1 .. n, OwnerIn(q), o) : TotalIn(q)[i] = Total(q[i])
    BY <1>3 DEF Part
  <2> QED
    BY <1>4, <2>1
<1> QED
  BY <1>5 DEF FundsOf, Stretch, Share

LEMMA TicketsAre ==
    ASSUME NEW q \in Seq(Requests), NEW m \in Nat, NEW n \in Nat, n <= Len(q), NEW o
    PROVE  SumFunction([i \in {j \in m + 1 .. n : q[j].owner = o} |-> Value(q[i]) * Unit])
             = TicketsOf(q, m, n, o)
<1>1. \A i \in m + 1 .. n : i \in 1 .. Len(q)
  BY InSeq
<1>2. \A i \in m + 1 .. n : OwnerIn(q)[i] = q[i].owner /\ ValueIn(q)[i] = Value(q[i]) * Unit
  BY <1>1, InStream
<1>3. {j \in m + 1 .. n : q[j].owner = o} = Part(m + 1 .. n, OwnerIn(q), o)
  BY <1>2 DEF Part
<1>4. [i \in {j \in m + 1 .. n : q[j].owner = o} |-> Value(q[i]) * Unit]
        = [i \in Part(m + 1 .. n, OwnerIn(q), o) |-> ValueIn(q)[i]]
  <2>1. \A i \in Part(m + 1 .. n, OwnerIn(q), o) : ValueIn(q)[i] = Value(q[i]) * Unit
    BY <1>2 DEF Part
  <2> QED
    BY <1>3, <2>1
<1> QED
  BY <1>4 DEF TicketsOf, Stretch, Share

LEMMA PaidIs ==
    ASSUME NEW h \in Seq(Debit), NEW m \in Nat, NEW n, n = Len(h), NEW o
    PROVE  SumFunction([i \in {j \in m + 1 .. n : h[j].payer = o} |-> h[i].amount])
             = PaidOf(h, m, o)
<1>1. \A i \in m + 1 .. n : i \in 1 .. Len(h)
  BY InSeq
<1>2. \A i \in m + 1 .. n : PayerIn(h)[i] = h[i].payer /\ AmountIn(h)[i] = h[i].amount
  BY <1>1, InChanges
<1>3. {j \in m + 1 .. n : h[j].payer = o} = Part(m + 1 .. n, PayerIn(h), o)
  BY <1>2 DEF Part
<1>4. [i \in {j \in m + 1 .. n : h[j].payer = o} |-> h[i].amount]
        = [i \in Part(m + 1 .. n, PayerIn(h), o) |-> AmountIn(h)[i]]
  <2>1. \A i \in Part(m + 1 .. n, PayerIn(h), o) : AmountIn(h)[i] = h[i].amount
    BY <1>2 DEF Part
  <2> QED
    BY <1>3, <2>1
<1> QED
  BY <1>4 DEF PaidOf, Stretch, Share

-----------------------------------------------------------------------------
(* What a state that has its type looks like. *)

LEMMA Coins ==
    /\ "base" \in Coin /\ "quote" \in Coin /\ "ask" \in Side /\ "bid" \in Side
    /\ \A s \in Side : CoinOf(s) \in Coin /\ dispatchBank(s) = CoinOf(s) /\ LastID(CoinOf(s)) = latest[s]
    /\ \A s, t \in Side : CoinOf(s) = CoinOf(t) => s = t
BY DEF Coin, Side, CoinOf, dispatchBank, LastID

LEMMA Shapes ==
    ASSUME TypeOK, NEW c \in Coin
    PROVE  /\ sent[c] \in Seq(Requests) /\ Len(sent[c]) \in Nat
           /\ taken[c] \in Nat /\ taken[c] <= Len(sent[c])
           /\ settled[c] \in Nat /\ settled[c] <= Len(tape) /\ Len(tape) \in Nat
           /\ LastID(c) \in Nat /\ LastID(c) <= taken[c]
<1>1. /\ sent[c] \in Seq(Requests) /\ taken[c] \in Nat /\ taken[c] <= Len(sent[c])
      /\ settled[c] \in Nat /\ settled[c] <= Len(tape)
  BY DEF TypeOK
<1>2. tape \in Seq([ask : DOMAIN book, bid : DOMAIN book, price : Nat, qty : Nat \ {0}])
  BY DEF TypeOK
<1>3. Len(sent[c]) \in Nat /\ Len(tape) \in Nat
  BY <1>1, <1>2, InSeq
<1>4. PICK s \in Side : c = CoinOf(s)
  BY DEF Coin, Side, CoinOf
<1>5. LastID(c) = latest[s] /\ latest[s] \in Nat /\ latest[s] <= taken[c]
  BY <1>4, Coins DEF TypeOK
<1> QED
  BY <1>1, <1>3, <1>5

(* A trade and its two orders. *)
LEMMA InTape ==
    ASSUME TypeOK, NEW k \in 1 .. Len(tape)
    PROVE  /\ tape[k].ask \in DOMAIN book /\ tape[k].bid \in DOMAIN book
           /\ tape[k].price \in Nat /\ tape[k].qty \in Nat \ {0}
<1>1. tape \in Seq([ask : DOMAIN book, bid : DOMAIN book, price : Nat, qty : Nat \ {0}])
  BY DEF TypeOK
<1>2. tape[k] \in [ask : DOMAIN book, bid : DOMAIN book, price : Nat, qty : Nat \ {0}]
  BY <1>1, InSeq
<1> QED
  BY <1>2

LEMMA InBook ==
    ASSUME TypeOK, NEW i \in DOMAIN book
    PROVE  /\ book[i].side \in Side /\ book[i].price \in Nat /\ book[i].left \in Nat
           /\ OpenCost(i) \in Nat /\ ticket[i] \in Nat
           /\ DOMAIN book = 1 .. Len(book) /\ Len(book) \in Nat /\ DOMAIN ticket = DOMAIN book
<1>1. /\ book \in Seq([side : Side, price : Nat, left : Nat])
      /\ ticket \in Seq(Nat) /\ Len(ticket) = Len(book)
  BY DEF TypeOK
<1>2. /\ DOMAIN book = 1 .. Len(book) /\ Len(book) \in Nat /\ DOMAIN ticket = DOMAIN book
      /\ book[i] \in [side : Side, price : Nat, left : Nat] /\ ticket[i] \in Nat
  BY <1>1, InSeq
<1>3. OpenCost(i) \in Nat
  <2>1. PICK a, b, u : /\ a = book[i].left /\ u = Unit
                       /\ b = IF book[i].side = "bid" THEN book[i].price ELSE 1
    OBVIOUS
  <2>2. a \in Nat /\ b \in Nat /\ u \in Nat
    BY <1>2, <2>1, CcomsAssumption
  <2>3. a * b \in Nat
    BY <2>2, Times
  <2>4. a * b * u \in Nat
    BY <2>2, <2>3, Times
  <2> QED
    BY <2>1, <2>4 DEF OpenCost
<1> QED
  BY <1>2, <1>3

(* An order's request is in the stream of its coin's bank. *)
LEMMA InRequests ==
    ASSUME TypeOK, OrdersInv, NEW i \in DOMAIN book
    PROVE  /\ CoinOf(book[i].side) \in Coin
           /\ ticket[i] \in 1 .. taken[CoinOf(book[i].side)]
           /\ ticket[i] \in 1 .. Len(sent[CoinOf(book[i].side)])
           /\ RequestOf(i) \in Requests /\ RequestOf(i).owner \in Owners
           /\ book[i].price \in Nat \ {0}
<1>1. PICK c : c = CoinOf(book[i].side)
  OBVIOUS
<1>2. c \in Coin /\ latest[book[i].side] \in Nat /\ latest[book[i].side] <= taken[c]
  BY <1>1, InBook, Coins DEF TypeOK
<1>3. ticket[i] \in 1 .. latest[book[i].side]
  BY DEF OrdersInv
<1>4. ticket[i] \in 1 .. taken[c] /\ ticket[i] \in 1 .. Len(sent[c])
  <2>1. taken[c] \in Nat /\ taken[c] <= Len(sent[c]) /\ Len(sent[c]) \in Nat
    BY <1>2, Shapes
  <2> QED
    BY <1>2, <1>3, <2>1
<1>5. RequestOf(i) \in Requests
  <2>1. RequestOf(i) = sent[c][ticket[i]]
    BY <1>1 DEF RequestOf
  <2>2. sent[c] \in Seq(Requests)
    BY <1>2, Shapes
  <2> QED
    BY <1>4, <2>1, <2>2, InSeq
<1>6. RequestOf(i).owner \in Owners /\ RequestOf(i).price \in Nat \ {0}
  BY <1>5, RequestType
<1>7. RequestOf(i).price = book[i].price
  BY DEF OrdersInv
<1> QED
  BY <1>1, <1>2, <1>4, <1>5, <1>6, <1>7

LEMMA ChangeType ==
    ASSUME TypeOK, OrdersInv, NEW c \in Coin, NEW k \in 1 .. Len(tape)
    PROVE  Change(c, tape[k]) \in Debit
<1>1. /\ tape[k].ask \in DOMAIN book /\ tape[k].bid \in DOMAIN book
      /\ tape[k].price \in Nat /\ tape[k].qty \in Nat
  BY InTape
<1>2. /\ RequestOf(tape[k].bid).owner \in Owners /\ RequestOf(tape[k].ask).owner \in Owners
  BY <1>1, InRequests
<1>3. PICK p, q, u : p = tape[k].price /\ q = tape[k].qty /\ u = Unit
  OBVIOUS
<1>4. p \in Nat /\ q \in Nat /\ u \in Nat
  BY <1>1, <1>3, CcomsAssumption
<1>5. p * q \in Nat /\ q * u \in Nat
  BY <1>4, Times
<1>6. p * q * u \in Nat
  BY <1>4, <1>5, Times
<1> QED
  BY <1>2, <1>3, <1>5, <1>6 DEF Change, Debit

LEMMA ChangesType ==
    ASSUME TypeOK, OrdersInv, NEW c \in Coin
    PROVE  /\ Changes(c) \in Seq(Debit) /\ Len(Changes(c)) = Len(tape)
           /\ DOMAIN Changes(c) = DOMAIN tape /\ DOMAIN tape = 1 .. Len(tape)
           /\ \A k \in 1 .. Len(tape) : Changes(c)[k] = Change(c, tape[k])
<1>1. DOMAIN tape = 1 .. Len(tape) /\ Len(tape) \in Nat
  <2>1. tape \in Seq([ask : DOMAIN book, bid : DOMAIN book, price : Nat, qty : Nat \ {0}])
    BY DEF TypeOK
  <2> QED
    BY <2>1, InSeq
<1>2. \A k \in 1 .. Len(tape) : Change(c, tape[k]) \in Debit
  BY ChangeType
<1>3. Changes(c) = [k \in 1 .. Len(tape) |-> Change(c, tape[k])]
  BY <1>1 DEF Changes
<1> QED
  BY <1>1, <1>2, <1>3

OrderOwner == [i \in DOMAIN book |-> RequestOf(i).owner]
OrderCost  == [i \in DOMAIN book |-> OpenCost(i)]

LEMMA FundsAre ==
    ASSUME TypeOK, NEW c \in Coin, NEW o
    PROVE  /\ Funds(c, o) = FundsOf(sent[c], taken[c], o)
           /\ OpenTickets(c, o) = TicketsOf(sent[c], LastID(c), taken[c], o)
BY Shapes, FundsIs, TicketsAre DEF Funds, OpenTickets

LEMMA PaymentsAre ==
    ASSUME TypeOK, OrdersInv, NEW c \in Coin, NEW o
    PROVE  /\ Spent(c, o) = PaidOf(Changes(c), 0, o)
           /\ Unsettled(c, o) = PaidOf(Changes(c), settled[c], o)
<1>1. PICK h, n, m : h = Changes(c) /\ n = Len(tape) /\ m = settled[c]
  OBVIOUS
<1>2. h \in Seq(Debit) /\ n = Len(h) /\ DOMAIN tape = 1 .. n /\ m \in Nat /\ 1 .. n = 0 + 1 .. n
  BY <1>1, ChangesType, Shapes
<1>3. /\ SumFunction([i \in {j \in 0 + 1 .. n : h[j].payer = o} |-> h[i].amount]) = PaidOf(h, 0, o)
      /\ SumFunction([i \in {j \in m + 1 .. n : h[j].payer = o} |-> h[i].amount]) = PaidOf(h, m, o)
  BY <1>2, PaidIs
<1> QED
  BY <1>1, <1>2, <1>3 DEF Spent, Unsettled

LEMMA OrdersAre ==
    ASSUME NEW c, NEW o
    PROVE  OpenOrders(c, o) = Share(OrdersOf(c), OrderOwner, OrderCost, o)
<1>1. \A i \in OrdersOf(c) : /\ i \in DOMAIN book /\ OrderOwner[i] = RequestOf(i).owner
                             /\ OrderCost[i] = OpenCost(i)
  BY DEF OrdersOf, OrderOwner, OrderCost
<1>2. Part(OrdersOf(c), OrderOwner, o) = {j \in OrdersOf(c) : RequestOf(j).owner = o}
  BY <1>1 DEF Part
<1>3. [i \in {j \in OrdersOf(c) : RequestOf(j).owner = o} |-> OpenCost(i)]
        = [i \in Part(OrdersOf(c), OrderOwner, o) |-> OrderCost[i]]
  <2>1. \A i \in Part(OrdersOf(c), OrderOwner, o) : OrderCost[i] = OpenCost(i)
    BY <1>1 DEF Part
  <2> QED
    BY <1>2, <2>1
<1> QED
  BY <1>3 DEF OpenOrders, Share

(* The invariant over the stretches. *)
MoneyForm ==
    \A c \in Coin, o \in Owners :
        /\ FundsOf(sent[c], taken[c], o) - PaidOf(Changes(c), 0, o)
             >= TicketsOf(sent[c], LastID(c), taken[c], o)
                  + Share(OrdersOf(c), OrderOwner, OrderCost, o)
        /\ money[c][o].freeze
             = FundsOf(sent[c], taken[c], o) - PaidOf(Changes(c), 0, o)
                 + PaidOf(Changes(c), settled[c], o)

LEMMA MoneyIs == TypeOK /\ OrdersInv => (MoneyInv <=> MoneyForm)
<1> SUFFICES ASSUME TypeOK, OrdersInv PROVE MoneyInv <=> MoneyForm
  OBVIOUS
<1>1. \A c \in Coin, o \in Owners :
        /\ Funds(c, o) = FundsOf(sent[c], taken[c], o)
        /\ OpenTickets(c, o) = TicketsOf(sent[c], LastID(c), taken[c], o)
        /\ Spent(c, o) = PaidOf(Changes(c), 0, o)
        /\ Unsettled(c, o) = PaidOf(Changes(c), settled[c], o)
        /\ OpenOrders(c, o) = Share(OrdersOf(c), OrderOwner, OrderCost, o)
  BY FundsAre, PaymentsAre, OrdersAre
<1> QED
  BY <1>1 DEF MoneyInv, MoneyForm

LEMMA OrderCosts ==
    ASSUME TypeOK, NEW c
    PROVE  /\ IsFiniteSet(OrdersOf(c)) /\ OrdersOf(c) \subseteq DOMAIN book
           /\ \A i \in OrdersOf(c) : OrderCost[i] = OpenCost(i) /\ OrderCost[i] \in Nat
           /\ \A o : Share(OrdersOf(c), OrderOwner, OrderCost, o) \in Nat
<1>1. OrdersOf(c) \subseteq DOMAIN book
  BY DEF OrdersOf
<1>2. IsFiniteSet(DOMAIN book)
  <2>1. book \in Seq([side : Side, price : Nat, left : Nat])
    BY DEF TypeOK
  <2>2. DOMAIN book = 1 .. Len(book) /\ Len(book) \in Nat
    BY <2>1, InSeq
  <2>3. IsFiniteSet(0 + 1 .. Len(book))
    BY <2>2, Interval
  <2> QED
    BY <2>2, <2>3
<1>3. IsFiniteSet(OrdersOf(c))
  BY <1>1, <1>2, FS_Subset
<1>4. \A i \in OrdersOf(c) : OrderCost[i] = OpenCost(i) /\ OrderCost[i] \in Nat
  BY <1>1, InBook DEF OrderCost
<1>5. \A o : Share(OrdersOf(c), OrderOwner, OrderCost, o) \in Nat
  <2>1. PICK S, f : S = OrdersOf(c) /\ f = OrderCost
    OBVIOUS
  <2>2. IsFiniteSet(S) /\ \A i \in S : f[i] \in Nat
    BY <1>3, <1>4, <2>1
  <2>3. \A o : Share(S, OrderOwner, f, o) \in Nat
    BY <2>2, ShareNat
  <2> QED
    BY <2>1, <2>3
<1> QED
  BY <1>1, <1>3, <1>4, <1>5

(* All of it is frozen. *)
LEMMA FreezeCovers ==
    ASSUME TypeOK, OrdersInv, MoneyInv, NEW c \in Coin, NEW o \in Owners
    PROVE  /\ OpenTickets(c, o) \in Nat /\ OpenOrders(c, o) \in Nat /\ Unsettled(c, o) \in Nat
           /\ Funds(c, o) \in Nat /\ Spent(c, o) \in Nat
           /\ money[c][o].freeze >= OpenTickets(c, o) + OpenOrders(c, o) + Unsettled(c, o)
<1>1. Funds(c, o) \in Nat /\ OpenTickets(c, o) \in Nat
  BY Shapes, FundsAre, FundsNat, TicketsNat
<1>2. Spent(c, o) \in Nat /\ Unsettled(c, o) \in Nat
  <2>1. PICK h, m : h = Changes(c) /\ m = settled[c]
    OBVIOUS
  <2>2. h \in Seq(Debit) /\ m \in Nat
    BY <2>1, ChangesType, Shapes
  <2>3. PaidOf(h, 0, o) \in Nat /\ PaidOf(h, m, o) \in Nat
    BY <2>2, PaidNat
  <2> QED
    BY <2>1, <2>3, PaymentsAre
<1>3. OpenOrders(c, o) \in Nat
  BY OrderCosts, OrdersAre
<1>4. /\ Funds(c, o) - Spent(c, o) >= OpenTickets(c, o) + OpenOrders(c, o)
      /\ money[c][o].freeze = Funds(c, o) - Spent(c, o) + Unsettled(c, o)
  BY DEF MoneyInv
<1> QED
  BY <1>1, <1>2, <1>3, <1>4

-----------------------------------------------------------------------------
(* What a step leaves: a request that has been made and an order's side and
   price stay what they are. *)

Grows ==
    /\ \A c \in Coin : \A n \in 1 .. Len(sent[c]) : sent'[c][n] = sent[c][n]
    /\ \A i \in DOMAIN book :
        /\ i \in DOMAIN book' /\ book'[i].side = book[i].side /\ book'[i].price = book[i].price
        /\ ticket'[i] = ticket[i]

MadeFrom == [i \in DOMAIN book |-> RequestOf(i)]

LEMMA RequestKept ==
    ASSUME TypeOK, OrdersInv, Grows, NEW i \in DOMAIN book
    PROVE  /\ RequestOf(i)' = RequestOf(i) /\ i \in DOMAIN book'
           /\ MadeFrom'[i] = MadeFrom[i] /\ MadeFrom[i] = RequestOf(i)
           /\ MadeFrom'[i] = RequestOf(i)'
<1>1. PICK c, n : c = CoinOf(book[i].side) /\ n = ticket[i]
  OBVIOUS
<1>2. c \in Coin /\ n \in 1 .. Len(sent[c])
  BY <1>1, InRequests
<1>3. sent'[c][n] = sent[c][n]
  BY <1>2 DEF Grows
<1>4. i \in DOMAIN book' /\ CoinOf(book'[i].side) = c /\ ticket'[i] = n
  BY <1>1 DEF Grows
<1>5. RequestOf(i)' = RequestOf(i)
  BY <1>1, <1>3, <1>4 DEF RequestOf
<1> QED
  BY <1>4, <1>5 DEF MadeFrom

(* A change, from the requests the orders were made from. *)
Debited(c, R, t) ==
    IF c = "quote"
    THEN [payer |-> R[t.bid].owner, payee |-> R[t.ask].owner, amount |-> t.price * t.qty * Unit]
    ELSE [payer |-> R[t.ask].owner, payee |-> R[t.bid].owner, amount |-> t.qty * Unit]

ChangesForm ==
    \A c \in Coin : Changes(c) = [k \in DOMAIN tape |-> Debited(c, MadeFrom, tape[k])]

LEMMA ChangesMade == TypeOK => ChangesForm
<1> SUFFICES ASSUME TypeOK, NEW c \in Coin
             PROVE  Changes(c) = [k \in DOMAIN tape |-> Debited(c, MadeFrom, tape[k])]
  BY DEF ChangesForm
<1>1. DOMAIN tape = 1 .. Len(tape)
  BY InSeq DEF TypeOK
<1>2. ASSUME NEW k \in DOMAIN tape PROVE Change(c, tape[k]) = Debited(c, MadeFrom, tape[k])
  <2>1. tape[k].ask \in DOMAIN book /\ tape[k].bid \in DOMAIN book
    BY <1>1, InTape
  <2>2. /\ MadeFrom[tape[k].ask] = RequestOf(tape[k].ask)
        /\ MadeFrom[tape[k].bid] = RequestOf(tape[k].bid)
    BY <2>1 DEF MadeFrom
  <2> QED
    BY <2>2 DEF Change, Debited
<1> QED
  BY <1>2 DEF Changes

LEMMA ChangesMadeNext ==
    TypeOK' => \A c \in Coin :
        Changes(c)' = [k \in DOMAIN tape' |-> Debited(c, MadeFrom', tape'[k])]
<1>1. TypeOK' => ChangesForm'
  BY ChangesMade, PTL
<1> QED
  BY <1>1 DEF ChangesForm

(* The changes of the trades that have been made stay too. *)
LEMMA DebitedKept ==
    ASSUME TypeOK, OrdersInv, Grows, NEW c \in Coin, NEW t,
           t.ask \in DOMAIN book, t.bid \in DOMAIN book
    PROVE  Debited(c, MadeFrom', t) = Debited(c, MadeFrom, t)
<1>1. PICK R, P : R = MadeFrom /\ P = MadeFrom'
  OBVIOUS
<1>2. R[t.ask] = P[t.ask] /\ R[t.bid] = P[t.bid]
  BY <1>1, RequestKept
<1>3. Debited(c, P, t) = Debited(c, R, t)
  BY <1>2 DEF Debited
<1> QED
  BY <1>1, <1>3

LEMMA ChangesKept ==
    ASSUME TypeOK, OrdersInv, TypeOK', Grows, tape' = tape, NEW c \in Coin
    PROVE  Changes(c)' = Changes(c)
<1>1. /\ Changes(c) = [k \in DOMAIN tape |-> Debited(c, MadeFrom, tape[k])]
      /\ Changes(c)' = [k \in DOMAIN tape' |-> Debited(c, MadeFrom', tape'[k])]
  BY ChangesMade, ChangesMadeNext DEF ChangesForm
<1>2. DOMAIN tape = 1 .. Len(tape)
  BY InSeq DEF TypeOK
<1>3. \A k \in DOMAIN tape : Debited(c, MadeFrom', tape[k]) = Debited(c, MadeFrom, tape[k])
  BY <1>2, InTape, DebitedKept
<1> QED
  BY <1>1, <1>3

LEMMA ChangesNext ==
    ASSUME TypeOK, OrdersInv, TypeOK', Grows, NEW c \in Coin, NEW t, tape' = Append(tape, t),
           t.ask \in DOMAIN book, t.bid \in DOMAIN book
    PROVE  Changes(c)' = Append(Changes(c), Debited(c, MadeFrom, t))
<1>1. /\ Changes(c) = [k \in DOMAIN tape |-> Debited(c, MadeFrom, tape[k])]
      /\ Changes(c)' = [k \in DOMAIN tape' |-> Debited(c, MadeFrom', tape'[k])]
  BY ChangesMade, ChangesMadeNext DEF ChangesForm
<1>2. PICK n : n = Len(tape)
  OBVIOUS
<1>3. n \in Nat /\ DOMAIN tape = 1 .. n
  BY <1>2, InSeq DEF TypeOK
<1>4. DOMAIN tape' = 1 .. n + 1 /\ tape'[n + 1] = t /\ \A k \in 1 .. n : tape'[k] = tape[k]
  <2>1. tape \in Seq([ask : DOMAIN book, bid : DOMAIN book, price : Nat, qty : Nat \ {0}])
    BY DEF TypeOK
  <2> QED
    BY <1>2, <1>3, <2>1
<1>5. \A k \in 1 .. n : Debited(c, MadeFrom', tape[k]) = Debited(c, MadeFrom, tape[k])
  BY <1>2, InTape, DebitedKept
<1>6. Debited(c, MadeFrom', t) = Debited(c, MadeFrom, t)
  BY DebitedKept
<1>7. PICK h, g, d : h = Changes(c) /\ g = Changes(c)' /\ d = Debited(c, MadeFrom, t)
  OBVIOUS
<1>8. /\ h = [k \in 1 .. n |-> Debited(c, MadeFrom, tape[k])]
      /\ DOMAIN g = 1 .. n + 1 /\ g[n + 1] = d
      /\ \A k \in 1 .. n : g[k] = h[k]
  BY <1>1, <1>3, <1>4, <1>5, <1>6, <1>7
<1>9. g = [k \in 1 .. n + 1 |-> Debited(c, MadeFrom', tape'[k])]
  BY <1>1, <1>4, <1>7
<1>10. PICK e : e = Append(h, d)
  OBVIOUS
<1>11. /\ DOMAIN e = 1 .. n + 1 /\ e[n + 1] = d /\ \A k \in 1 .. n : e[k] = h[k]
       /\ e = [k \in 1 .. n + 1 |-> e[k]]
  <2>1. h \in Seq(Debit) /\ Len(h) = n
    BY <1>2, <1>7, ChangesType
  <2>2. Len(h) \in Nat /\ Len(e) = Len(h) + 1 /\ e = [k \in 1 .. Len(h) + 1 |-> e[k]]
    <3>1. h \in Seq(Debit \cup {d})
      BY <2>1
    <3>2. e \in Seq(Debit \cup {d}) /\ Len(e) = Len(h) + 1 /\ Len(h) \in Nat
      BY <1>10, <3>1
    <3> QED
      BY <3>2
  <2>3. /\ DOMAIN e = 1 .. Len(h) + 1 /\ e[Len(h) + 1] = d
        /\ \A k \in 1 .. Len(h) : e[k] = h[k]
    BY <1>10, <2>1
  <2> QED
    BY <2>1, <2>2, <2>3
<1>12. \A k \in 1 .. n + 1 : g[k] = e[k]
  <2>1. \A k \in 1 .. n + 1 : k \in 1 .. n \/ k = n + 1
    BY <1>3
  <2> QED
    BY <1>8, <1>11, <2>1
<1>13. g = e
  BY <1>8, <1>9, <1>11, <1>12
<1> QED
  BY <1>7, <1>10, <1>13

-----------------------------------------------------------------------------
(* What a ticket and a trade do to the balances of a bank. *)

Balance == [free : Int, freeze : Nat]

Charged(m, p, a) == [m EXCEPT ![p].free = @ - a, ![p].freeze = @ + a]

Transferred(m, p, q, a) == [m EXCEPT ![p].freeze = @ - a, ![q].free = @ + a]

LEMMA Charge ==
    ASSUME NEW m \in [Owners -> Balance], NEW p \in Owners, NEW a \in Nat
    PROVE  /\ Charged(m, p, a) \in [Owners -> Balance]
           /\ \A o \in Owners : Charged(m, p, a)[o].freeze = m[o].freeze + (IF o = p THEN a ELSE 0)
<1> DEFINE y == [m EXCEPT ![p].free = @ - a]
           x == [y EXCEPT ![p].freeze = @ + a]
<1>1. \A o \in Owners : /\ m[o] = [free |-> m[o].free, freeze |-> m[o].freeze]
                        /\ m[o].free \in Int /\ m[o].freeze \in Nat
  BY DEF Balance
<1>2. x[p] = [free |-> m[p].free - a, freeze |-> m[p].freeze + a]
  <2>1. PICK u, v : u = m[p].free /\ v = m[p].freeze
    OBVIOUS
  <2>2. m[p] = [free |-> u, freeze |-> v]
    BY <1>1, <2>1
  <2>3. DOMAIN y = Owners /\ y[p] = [free |-> u - a, freeze |-> v]
    BY <2>2
  <2> HIDE DEF y
  <2> QED
    BY <2>1, <2>3
<1>3. \A o \in Owners \ {p} : x[o] = m[o]
  OBVIOUS
<1>4. x = [o \in Owners |-> x[o]]
  OBVIOUS
<1>5. x = Charged(m, p, a)
  BY DEF Charged
<1> HIDE DEF x, y
<1>6. x[p] \in Balance /\ \A o \in Owners : x[o] \in Balance
  BY <1>1, <1>2, <1>3 DEF Balance
<1>7. \A o \in Owners : x[o].freeze = m[o].freeze + (IF o = p THEN a ELSE 0)
  BY <1>1, <1>2, <1>3
<1> QED
  BY <1>4, <1>5, <1>6, <1>7

LEMMA Transfer ==
    ASSUME NEW m \in [Owners -> Balance], NEW p \in Owners, NEW q \in Owners, NEW a \in Nat,
           a <= m[p].freeze
    PROVE  /\ Transferred(m, p, q, a) \in [Owners -> Balance]
           /\ \A o \in Owners :
                Transferred(m, p, q, a)[o].freeze = m[o].freeze + (IF o = p THEN -a ELSE 0)
<1> DEFINE x == [m EXCEPT ![p].freeze = @ - a]
           y == [x EXCEPT ![q].free = @ + a]
<1>1. \A o \in Owners : /\ m[o] = [free |-> m[o].free, freeze |-> m[o].freeze]
                        /\ m[o].free \in Int /\ m[o].freeze \in Nat
  BY DEF Balance
<1>2. y = Transferred(m, p, q, a)
  BY DEF Transferred
<1>3. DOMAIN x = Owners /\ y = [o \in Owners |-> y[o]]
  OBVIOUS
<1>4. ASSUME NEW o \in Owners
      PROVE  x[o] = [free |-> m[o].free, freeze |-> m[o].freeze + (IF o = p THEN -a ELSE 0)]
  BY <1>1
<1>5. ASSUME NEW o \in Owners
      PROVE  m[o].freeze + (IF o = p THEN -a ELSE 0) \in Nat
  BY <1>1
<1> HIDE DEF x
<1>6. ASSUME NEW o \in Owners
      PROVE  /\ y[o] \in Balance
             /\ y[o].freeze = m[o].freeze + (IF o = p THEN -a ELSE 0)
  <2>1. PICK u, z : u = m[o].free /\ z = m[o].freeze + (IF o = p THEN -a ELSE 0)
    OBVIOUS
  <2>2. x[o] = [free |-> u, freeze |-> z] /\ u \in Int /\ z \in Nat
    BY <1>1, <1>4, <1>5, <2>1
  <2>3. CASE o = q
    <3>1. y[o] = [x[o] EXCEPT !.free = @ + a]
      BY <1>3, <2>3
    <3>2. y[o] = [free |-> u + a, freeze |-> z]
      BY <2>2, <3>1
    <3> QED
      BY <2>1, <2>2, <3>2 DEF Balance
  <2>4. CASE o # q
    <3>1. y[o] = x[o]
      BY <1>3, <2>4
    <3> QED
      BY <2>1, <2>2, <3>1 DEF Balance
  <2> QED
    BY <2>3, <2>4
<1> HIDE DEF y
<1>7. y \in [Owners -> Balance]
  BY <1>3, <1>6
<1> QED
  BY <1>2, <1>6, <1>7

-----------------------------------------------------------------------------
(* The actions, one by one: the types they keep and what they change. *)

Trades == [ask : DOMAIN book, bid : DOMAIN book, price : Nat, qty : Nat \ {0}]

Orders == [side : Side, price : Nat, left : Nat]

LEMMA TypeParts ==
    TypeOK <=>
      /\ sent \in [Coin -> Seq(Requests)]
      /\ money \in [Coin -> [Owners -> Balance]]
      /\ taken \in [Coin -> Nat] /\ \A c \in Coin : taken[c] <= Len(sent[c])
      /\ settled \in [Coin -> Nat] /\ \A c \in Coin : settled[c] <= Len(tape)
      /\ latest \in [Side -> Nat] /\ \A s \in Side : latest[s] <= taken[CoinOf(s)]
      /\ book \in Seq(Orders) /\ ticket \in Seq(Nat) /\ Len(ticket) = Len(book)
      /\ tape \in Seq(Trades)
BY DEF TypeOK, Balance, Trades, Orders

LEMMA SendOrderReqEffect ==
    ASSUME TypeOK, NEW r \in Requests, SendOrderReq(r)
    PROVE  /\ TypeOK' /\ Grows
           /\ \A c \in Coin :
                /\ CoinOf(r.side) = c => sent'[c] = Append(sent[c], r)
                /\ CoinOf(r.side) # c => sent'[c] = sent[c]
<1>1. PICK d : d = CoinOf(r.side)
  OBVIOUS
<1>2. r.side \in Side /\ d \in Coin /\ dispatchBank(r.side) = d
  BY <1>1, RequestType, Coins
<1>3. /\ sent' = [sent EXCEPT ![d] = Append(@, r)]
      /\ UNCHANGED <<taken, money, settled, latest, ticket, book, tape>>
  BY <1>2 DEF SendOrderReq, bankVars, engineVars
<1>4. sent \in [Coin -> Seq(Requests)]
  BY DEF TypeOK
<1>5. /\ sent'[d] = Append(sent[d], r) /\ \A c \in Coin : c # d => sent'[c] = sent[c]
      /\ sent[d] \in Seq(Requests)
  BY <1>2, <1>3, <1>4
<1>6. /\ Append(sent[d], r) \in Seq(Requests) /\ Len(Append(sent[d], r)) = Len(sent[d]) + 1
      /\ Len(sent[d]) \in Nat /\ \A n \in 1 .. Len(sent[d]) : Append(sent[d], r)[n] = sent[d][n]
  BY <1>5
<1>7. sent' \in [Coin -> Seq(Requests)]
  BY <1>2, <1>3, <1>4, <1>6
<1>8. \A c \in Coin : taken[c] <= Len(sent'[c])
  <2> SUFFICES ASSUME NEW c \in Coin PROVE taken[c] <= Len(sent'[c])
    OBVIOUS
  <2>1. taken[c] <= Len(sent[c]) /\ taken[c] \in Nat
    BY Shapes
  <2> QED
    BY <1>5, <1>6, <2>1
<1>9. TypeOK'
  BY <1>3, <1>7, <1>8 DEF TypeOK
<1>10. Grows
  <2>1. \A c \in Coin : \A n \in 1 .. Len(sent[c]) : sent'[c][n] = sent[c][n]
    BY SMTT(30), <1>5, <1>6
  <2> QED
    BY <1>3, <2>1 DEF Grows
<1> QED
  BY <1>1, <1>5, <1>9, <1>10

LEMMA CreateOrderEffect ==
    ASSUME TypeOK, NEW c \in Coin, CreateOrder(c)
    PROVE  /\ TypeOK' /\ Grows /\ taken[c] < Len(sent[c])
           /\ sent[c][taken[c] + 1] \in Requests
           /\ taken'[c] = taken[c] + 1 /\ \A d \in Coin \ {c} : taken'[d] = taken[d]
           /\ money' = [money EXCEPT ![c] =
                  Charged(money[c], sent[c][taken[c] + 1].owner, Total(sent[c][taken[c] + 1]))]
<1>1. PICK r : r = sent[c][taken[c] + 1]
  OBVIOUS
<1>2. /\ taken[c] < Len(sent[c])
      /\ money' = [money EXCEPT ![c][r.owner].free = @ - Total(r),
                                ![c][r.owner].freeze = @ + Total(r)]
      /\ taken' = [taken EXCEPT ![c] = @ + 1]
      /\ UNCHANGED <<sent, settled, latest, ticket, book, tape>>
  BY <1>1 DEF CreateOrder, engineVars
<1>3. taken[c] \in Nat /\ sent[c] \in Seq(Requests) /\ Len(sent[c]) \in Nat
  BY Shapes
<1>4. r \in Requests
  <2>1. taken[c] + 1 \in 1 .. Len(sent[c])
    BY <1>2, <1>3
  <2> QED
    BY <1>1, <1>3, <2>1, InSeq
<1>5. r.owner \in Owners /\ Total(r) \in Nat
  BY <1>4, RequestType, Costs
<1>6. money \in [Coin -> [Owners -> Balance]]
  BY TypeParts
<1>7. money' = [money EXCEPT ![c] = Charged(money[c], r.owner, Total(r))]
  <2>1. PICK t, p : t = Total(r) /\ p = r.owner
    OBVIOUS
  <2>2. money' = [money EXCEPT ![c][p].free = @ - t, ![c][p].freeze = @ + t] /\ p \in Owners
    BY <1>2, <1>5, <2>1
  <2>3. money' = [money EXCEPT ![c] = Charged(money[c], p, t)]
    BY <1>6, <2>2 DEF Charged
  <2> QED
    BY <2>1, <2>3
<1>8. money' \in [Coin -> [Owners -> Balance]]
  <2>1. Charged(money[c], r.owner, Total(r)) \in [Owners -> Balance]
    BY <1>5, <1>6, Charge
  <2> QED
    BY <1>6, <1>7, <2>1
<1>9. /\ taken'[c] = taken[c] + 1 /\ \A d \in Coin \ {c} : taken'[d] = taken[d]
      /\ taken' \in [Coin -> Nat]
  BY <1>2 DEF TypeOK
<1>10. /\ \A d \in Coin : taken'[d] <= Len(sent[d])
       /\ \A s \in Side : latest[s] <= taken'[CoinOf(s)]
  <2>1. \A d \in Coin : taken[d] \in Nat /\ taken[d] <= Len(sent[d]) /\ Len(sent[d]) \in Nat
    BY Shapes
  <2>2. \A d \in Coin : taken'[d] <= Len(sent[d]) /\ taken[d] <= taken'[d] /\ taken'[d] \in Nat
    BY <1>2, <1>9, <2>1
  <2>3. \A s \in Side : latest[s] \in Nat /\ latest[s] <= taken[CoinOf(s)] /\ CoinOf(s) \in Coin
    BY Coins DEF TypeOK
  <2>4. \A s \in Side : latest[s] <= taken'[CoinOf(s)]
    BY <2>1, <2>2, <2>3
  <2> QED
    BY <2>2, <2>4
<1>11. TypeOK'
  <2>1. money' \in [Coin -> [Owners -> [free : Int, freeze : Nat]]]
    BY <1>8 DEF Balance
  <2> QED
    BY <1>2, <1>9, <1>10, <2>1 DEF TypeOK
<1>12. Grows
  BY <1>2 DEF Grows
<1> QED
  BY <1>1, <1>2, <1>4, <1>7, <1>9, <1>11, <1>12

LEMMA TicketEffect ==
    ASSUME TypeOK, RoutedInv, NEW c \in Coin, TicketToMatchEngine(c)
    PROVE  /\ TypeOK' /\ Grows
           /\ LastID(c) < taken[c]
           /\ LET n == LastID(c) + 1
                  t == sent[c][n]
              IN  /\ t \in Requests /\ CoinOf(t.side) = c
                  /\ latest' = [latest EXCEPT ![t.side] = n]
                  /\ ticket' = Append(ticket, n)
                  /\ book' = Append(book, [side |-> t.side, price |-> t.price, left |-> t.qty])
                  /\ UNCHANGED <<sent, taken, money, settled, tape>>
<1>1. PICK n, t : n = LastID(c) + 1 /\ t = sent[c][n]
  OBVIOUS
<1>2. PICK o : o = [side |-> t.side, price |-> t.price, left |-> t.qty]
  OBVIOUS
<1>3. /\ n <= taken[c] /\ n = latest[t.side] + 1
      /\ latest' = [latest EXCEPT ![t.side] = n]
      /\ ticket' = Append(ticket, n)
      /\ book' = Append(book, o)
      /\ UNCHANGED <<sent, taken, money, settled, tape>>
  BY <1>1, <1>2 DEF TicketToMatchEngine, Engine!Accept, Limits, bankVars
<1>4. /\ LastID(c) \in Nat /\ taken[c] \in Nat /\ taken[c] <= Len(sent[c])
      /\ Len(sent[c]) \in Nat /\ sent[c] \in Seq(Requests)
  BY Shapes
<1>5. n \in Nat /\ n \in 1 .. Len(sent[c]) /\ LastID(c) < taken[c]
  BY <1>1, <1>3, <1>4
<1>6. t \in Requests /\ CoinOf(t.side) = c
  <2>1. n \in DOMAIN sent[c]
    BY <1>4, <1>5, InSeq
  <2> QED
    BY <1>1, <1>4, <1>5, <2>1, InSeq DEF RoutedInv
<1>7. /\ t.side \in Side /\ t.price \in Nat /\ t.qty \in Nat
  BY <1>6, RequestType
<1>8. latest' \in [Side -> Nat] /\ \A s \in Side : latest'[s] <= taken[CoinOf(s)]
  <2>1. latest \in [Side -> Nat] /\ \A s \in Side : latest[s] <= taken[CoinOf(s)]
    BY DEF TypeOK
  <2> QED
    BY <1>3, <1>5, <1>6, <1>7, <2>1
<1>9. /\ book \in Seq(Orders) /\ ticket \in Seq(Nat) /\ Len(ticket) = Len(book)
      /\ tape \in Seq(Trades) /\ o \in Orders
  BY <1>2, <1>7, TypeParts DEF Orders
<1>10. /\ book' \in Seq(Orders) /\ ticket' \in Seq(Nat) /\ Len(ticket') = Len(book')
       /\ DOMAIN book \subseteq DOMAIN book' /\ DOMAIN book = 1 .. Len(book)
       /\ \A i \in 1 .. Len(book) : book'[i] = book[i] /\ ticket'[i] = ticket[i]
  BY <1>3, <1>5, <1>9
<1>11. tape \in Seq(Trades')
  <2>1. Trades \subseteq Trades'
    BY <1>10 DEF Trades
  <2>2. PICK T, U : T = Trades /\ U = Trades'
    OBVIOUS
  <2>3. T \subseteq U /\ tape \in Seq(T)
    BY <1>9, <2>1, <2>2
  <2>4. tape \in Seq(U)
    BY <2>3
  <2> QED
    BY <2>2, <2>4
<1>12. TypeOK'
  <2>1. book' \in Seq([side : Side, price : Nat, left : Nat])
    BY <1>10 DEF Orders
  <2>2. tape' \in Seq([ask : DOMAIN book', bid : DOMAIN book', price : Nat, qty : Nat \ {0}])
    BY <1>3, <1>11 DEF Trades
  <2> QED
    BY <1>3, <1>8, <1>10, <2>1, <2>2 DEF TypeOK
<1>13. Grows
  BY <1>3, <1>10 DEF Grows
<1> QED
  BY <1>1, <1>2, <1>3, <1>5, <1>6, <1>12, <1>13

(* A trade of q coins at the price p. *)
Traded(a, b, p, q) ==
    /\ q \in Nat \ {0} /\ q <= book[a].left /\ q <= book[b].left
    /\ p \in Nat /\ book[a].price <= p /\ p <= book[b].price
    /\ tape' = Append(tape, [ask |-> a, bid |-> b, price |-> p, qty |-> q])
    /\ DOMAIN book' = DOMAIN book
    /\ \A i \in DOMAIN book :
        /\ book'[i].side = book[i].side /\ book'[i].price = book[i].price
        /\ book'[i].left = book[i].left - (IF i \in {a, b} THEN q ELSE 0)

LEMMA TradeEffect ==
    ASSUME TypeOK, NEW a \in DOMAIN book, NEW b \in DOMAIN book, Engine!Trade(a, b),
           UNCHANGED <<sent, bankVars, latest, ticket>>
    PROVE  /\ TypeOK' /\ Grows
           /\ book[a].side = "ask" /\ book[b].side = "bid"
           /\ \E p, q : Traded(a, b, p, q)
<1>1. PICK q, p : /\ q = IF book[a].left <= book[b].left THEN book[a].left ELSE book[b].left
                  /\ p = book[IF a < b THEN a ELSE b].price
  OBVIOUS
<1>2. /\ a \in Engine!Cheapest /\ b \in Engine!Dearest /\ book[a].price <= book[b].price
      /\ book' = [book EXCEPT ![a].left = @ - q, ![b].left = @ - q]
      /\ tape' = Append(tape, [ask |-> a, bid |-> b, price |-> p, qty |-> q])
  BY <1>1 DEF Engine!Trade, Engine!CanTrade
<1>3. /\ book[a].side = "ask" /\ book[a].left > 0
      /\ book[b].side = "bid" /\ book[b].left > 0
  BY <1>2 DEF Engine!Cheapest, Engine!Dearest, Engine!Open
<1>4. /\ book[a].left \in Nat /\ book[b].left \in Nat
      /\ book[a].price \in Nat /\ book[b].price \in Nat
  BY InBook
<1>5. q \in Nat \ {0} /\ q <= book[a].left /\ q <= book[b].left
  BY <1>1, <1>3, <1>4
<1>6. p \in Nat /\ book[a].price <= p /\ p <= book[b].price
  BY <1>1, <1>2, <1>4
<1>7. /\ book \in Seq(Orders) /\ ticket \in Seq(Nat) /\ Len(ticket) = Len(book)
      /\ tape \in Seq(Trades)
  BY TypeParts
<1>8. PICK x : x = [book EXCEPT ![a].left = @ - q]
  OBVIOUS
<1>9. /\ x \in Seq(Orders) /\ Len(x) = Len(book) /\ DOMAIN x = DOMAIN book
      /\ \A i \in DOMAIN book : /\ x[i].side = book[i].side /\ x[i].price = book[i].price
                                /\ x[i].left = book[i].left - (IF i = a THEN q ELSE 0)
  <2>1. book[a] \in Orders /\ [book[a] EXCEPT !.left = @ - q] \in Orders
    <3>1. book[a] \in Orders
      BY <1>7, InSeq
    <3>2. book[a].left - q \in Nat
      BY <1>4, <1>5
    <3> QED
      BY <3>1, <3>2 DEF Orders
  <2>2. x = [book EXCEPT ![a] = [book[a] EXCEPT !.left = @ - q]]
    BY <1>8
  <2>3. x \in Seq(Orders) /\ Len(x) = Len(book) /\ DOMAIN x = DOMAIN book
    BY <1>7, <2>1, <2>2
  <2>4. x[a] = [book[a] EXCEPT !.left = @ - q] /\ \A i \in DOMAIN book : i # a => x[i] = book[i]
    BY <2>2
  <2>5. x[a].side = book[a].side /\ x[a].price = book[a].price /\ x[a].left = book[a].left - q
    BY <2>1, <2>4 DEF Orders
  <2>6. \A i \in DOMAIN book : book[i].left - 0 = book[i].left
    BY InBook
  <2> QED
    BY <2>3, <2>4, <2>5, <2>6
<1>10. book' = [x EXCEPT ![b].left = @ - q] /\ a # b
  BY <1>2, <1>3, <1>8
<1>11. /\ book' \in Seq(Orders) /\ Len(book') = Len(book) /\ DOMAIN book' = DOMAIN book
       /\ \A i \in DOMAIN book : /\ book'[i].side = x[i].side /\ book'[i].price = x[i].price
                                 /\ book'[i].left = x[i].left - (IF i = b THEN q ELSE 0)
  <2>1. x[b].left = book[b].left
    BY <1>4, <1>9, <1>10
  <2>2. x[b] \in Orders /\ [x[b] EXCEPT !.left = @ - q] \in Orders
    <3>1. x[b] \in Orders
      BY <1>9, InSeq
    <3>2. x[b].left - q \in Nat
      BY <1>4, <1>5, <2>1
    <3> QED
      BY <3>1, <3>2 DEF Orders
  <2>3. book' = [x EXCEPT ![b] = [x[b] EXCEPT !.left = @ - q]]
    BY <1>10
  <2>4. book' \in Seq(Orders) /\ Len(book') = Len(book) /\ DOMAIN book' = DOMAIN book
    BY <1>9, <2>2, <2>3
  <2>5. /\ book'[b] = [x[b] EXCEPT !.left = @ - q]
        /\ \A i \in DOMAIN book : i # b => book'[i] = x[i]
    BY <1>9, <2>3
  <2>6. book'[b].side = x[b].side /\ book'[b].price = x[b].price /\ book'[b].left = x[b].left - q
    BY <2>2, <2>5 DEF Orders
  <2>7. ASSUME NEW i \in DOMAIN book PROVE x[i].left - 0 = x[i].left
    <3>1. x[i].left \in Nat
      <4>1. x[i] \in Orders
        BY <1>9, InSeq
      <4> QED
        BY <4>1 DEF Orders
    <3> QED
      BY <3>1
  <2>8. ASSUME NEW i \in DOMAIN book
        PROVE  /\ book'[i].side = x[i].side /\ book'[i].price = x[i].price
               /\ book'[i].left = x[i].left - (IF i = b THEN q ELSE 0)
    BY <2>5, <2>6, <2>7
  <2> QED
    BY <2>4, <2>8
<1>12. \A i \in DOMAIN book :
        /\ book'[i].side = book[i].side /\ book'[i].price = book[i].price
        /\ book'[i].left = book[i].left - (IF i \in {a, b} THEN q ELSE 0)
  <2> SUFFICES ASSUME NEW i \in DOMAIN book
               PROVE  /\ book'[i].side = book[i].side /\ book'[i].price = book[i].price
                      /\ book'[i].left = book[i].left - (IF i \in {a, b} THEN q ELSE 0)
    OBVIOUS
  <2>1. book[i].left \in Nat /\ q \in Nat
    BY <1>5, InBook
  <2>2. /\ book'[i].left = (book[i].left - (IF i = a THEN q ELSE 0)) - (IF i = b THEN q ELSE 0)
        /\ book'[i].side = book[i].side /\ book'[i].price = book[i].price
    BY <1>9, <1>11
  <2>3. CASE i = a
    BY <1>10, <2>1, <2>2, <2>3
  <2>4. CASE i = b
    BY <1>10, <2>1, <2>2, <2>4
  <2>5. CASE i \notin {a, b}
    BY <2>1, <2>2, <2>5
  <2> QED
    BY <2>3, <2>4, <2>5
<1>13. Traded(a, b, p, q)
  BY <1>2, <1>5, <1>6, <1>11, <1>12 DEF Traded
<1>14. TypeOK'
  <2>1. tape' \in Seq(Trades) /\ Len(tape') = Len(tape) + 1 /\ Len(tape) \in Nat
    <3>1. PICK t : t = [ask |-> a, bid |-> b, price |-> p, qty |-> q]
      OBVIOUS
    <3>2. t \in Trades
      BY <1>5, <1>6, <3>1 DEF Trades
    <3> QED
      BY <1>2, <1>7, <3>1, <3>2
  <2>2. Trades' = Trades
    BY <1>11 DEF Trades
  <2>3. \A c \in Coin : settled[c] <= Len(tape')
    <3>1. \A c \in Coin : settled[c] \in Nat /\ settled[c] <= Len(tape)
      BY Shapes
    <3> QED
      BY <2>1, <3>1
  <2>4. book' \in Seq([side : Side, price : Nat, left : Nat])
    BY <1>11 DEF Orders
  <2>5. tape' \in Seq([ask : DOMAIN book', bid : DOMAIN book', price : Nat, qty : Nat \ {0}])
    BY <2>1, <2>2 DEF Trades
  <2> QED
    BY <1>7, <1>11, <2>3, <2>4, <2>5 DEF TypeOK, bankVars
<1>15. Grows
  BY <1>11, <1>12 DEF Grows
<1> QED
  BY <1>3, <1>13, <1>14, <1>15

LEMMA BalanceChangedEffect ==
    ASSUME TypeOK, OrdersInv, MoneyInv, NEW c \in Coin, BalanceChanged(c)
    PROVE  /\ TypeOK' /\ Grows
           /\ settled[c] < Len(tape) /\ settled'[c] = settled[c] + 1
           /\ \A e \in Coin \ {c} : settled'[e] = settled[e]
           /\ LET d == Changes(c)[settled[c] + 1]
              IN  /\ d \in Debit /\ d.amount <= money[c][d.payer].freeze
                  /\ money' = [money EXCEPT ![c] =
                                 Transferred(money[c], d.payer, d.payee, d.amount)]
           /\ UNCHANGED <<sent, taken, latest, ticket, book, tape>>
<1>1. PICK d, h, n : d = Change(c, tape[settled[c] + 1]) /\ h = Changes(c) /\ n = settled[c]
  OBVIOUS
<1>2. /\ n < Len(tape)
      /\ settled' = [settled EXCEPT ![c] = @ + 1]
      /\ UNCHANGED <<sent, taken, latest, ticket, book, tape>>
  BY <1>1 DEF BalanceChanged, HasChange, engineVars
<1>3. money \in [Coin -> [Owners -> Balance]]
  BY TypeParts
<1>4. n \in Nat /\ Len(tape) \in Nat /\ n + 1 \in 1 .. Len(tape)
  BY <1>1, <1>2, Shapes
<1>5. d \in Debit /\ h \in Seq(Debit) /\ Len(h) = Len(tape) /\ h[n + 1] = d
  BY <1>1, <1>4, ChangesType, ChangeType
<1>6. d.payer \in Owners /\ d.payee \in Owners /\ d.amount \in Nat
  BY <1>5 DEF Debit
<1>7. d.amount <= money[c][d.payer].freeze
  <2>1. d.amount <= PaidOf(h, n, d.payer) /\ PaidOf(h, n, d.payer) \in Nat
    BY <1>2, <1>4, <1>5, PaidNat
  <2>2. Unsettled(c, d.payer) = PaidOf(h, n, d.payer)
    BY <1>1, PaymentsAre
  <2>3. PICK x, y, z, w : /\ x = OpenTickets(c, d.payer) /\ y = OpenOrders(c, d.payer)
                          /\ z = Unsettled(c, d.payer) /\ w = money[c][d.payer].freeze
    OBVIOUS
  <2>4. x \in Nat /\ y \in Nat /\ z \in Nat /\ w >= x + y + z
    BY <1>6, <2>3, FreezeCovers
  <2>5. w \in Nat
    BY <1>3, <1>6, <2>3 DEF Balance
  <2> QED
    BY <1>6, <2>1, <2>2, <2>3, <2>4, <2>5
<1>8. money' = [money EXCEPT ![c] = Transferred(money[c], d.payer, d.payee, d.amount)]
  <2>1. PICK p, q, a : p = d.payer /\ q = d.payee /\ a = d.amount
    OBVIOUS
  <2>2. LET paid == [money[c] EXCEPT ![p].freeze = @ - a]
        IN  money' = [money EXCEPT ![c] = [paid EXCEPT ![q].free = @ + a]]
    BY <1>1, <2>1 DEF BalanceChanged
  <2>3. money' = [money EXCEPT ![c] = Transferred(money[c], p, q, a)]
    BY <2>2 DEF Transferred
  <2> QED
    BY <2>1, <2>3
<1>9. money' \in [Coin -> [Owners -> Balance]]
  <2>1. Transferred(money[c], d.payer, d.payee, d.amount) \in [Owners -> Balance]
    BY <1>3, <1>6, <1>7, Transfer
  <2> QED
    BY <1>3, <1>8, <2>1
<1>10. /\ settled' \in [Coin -> Nat] /\ settled'[c] = n + 1
       /\ \A e \in Coin \ {c} : settled'[e] = settled[e]
       /\ \A e \in Coin : settled'[e] <= Len(tape)
  <2>1. settled \in [Coin -> Nat] /\ \A e \in Coin : settled[e] <= Len(tape)
    BY DEF TypeOK
  <2> QED
    BY <1>1, <1>2, <1>4, <2>1
<1>11. TypeOK'
  <2>1. money' \in [Coin -> [Owners -> [free : Int, freeze : Nat]]]
    BY <1>9 DEF Balance
  <2> QED
    BY <1>2, <1>10, <2>1 DEF TypeOK
<1>12. Grows
  BY <1>2 DEF Grows
<1> QED
  BY <1>1, <1>2, <1>5, <1>7, <1>8, <1>10, <1>11, <1>12

-----------------------------------------------------------------------------
(* What an order has had filled, trade by trade. *)

TradesWith(T, i) == {k \in DOMAIN T : i \in {T[k].ask, T[k].bid}}

FilledBy(T, i) == SumFunction([k \in TradesWith(T, i) |-> T[k].qty])

LEMMA FilledNext ==
    ASSUME NEW X, NEW T \in Seq([ask : X, bid : X, price : Nat, qty : Nat \ {0}]),
           NEW t \in [ask : X, bid : X, price : Nat, qty : Nat \ {0}], NEW i
    PROVE  /\ FilledBy(Append(T, t), i) = FilledBy(T, i) + (IF i \in {t.ask, t.bid} THEN t.qty ELSE 0)
           /\ FilledBy(T, i) \in Int
<1>1. PICK U, n : U = Append(T, t) /\ n = Len(T)
  OBVIOUS
<1>2. /\ n \in Nat /\ DOMAIN T = 1 .. n /\ DOMAIN U = 1 .. n + 1 /\ U[n + 1] = t
      /\ \A k \in 1 .. n : U[k] = T[k]
  BY <1>1
<1>3. \A k \in 1 .. n : T[k].qty \in Int
  <2> DEFINE R == [ask : X, bid : X, price : Nat, qty : Nat \ {0}]
  <2>1. T \in Seq(R)
    OBVIOUS
  <2>2. \A k \in 1 .. Len(T) : T[k] \in R
    <3> HIDE DEF R
    <3> QED
      BY <2>1, InSeq, SMTT(30)
  <2> QED
    BY <1>1, <2>2
<1>4. t.qty \in Int
  OBVIOUS
<1>5. PICK A, B, x : A = TradesWith(T, i) /\ B = TradesWith(U, i) /\ x = n + 1
  OBVIOUS
<1>6. /\ IsFiniteSet(A) /\ x \notin A /\ A \subseteq 1 .. n
      /\ i \in {t.ask, t.bid} => B = A \cup {x}
      /\ i \notin {t.ask, t.bid} => B = A
  <2>1. A \subseteq 1 .. n /\ x \notin A
    BY <1>2, <1>5 DEF TradesWith
  <2>2. IsFiniteSet(1 .. n)
    <3>1. IsFiniteSet(0 + 1 .. n)
      BY <1>2, Interval
    <3>2. 0 + 1 .. n = 1 .. n
      OBVIOUS
    <3> QED
      BY <3>1, <3>2
  <2>3. IsFiniteSet(A)
    BY <2>1, <2>2, FS_Subset
  <2>4. \A k : k \in B <=> (k \in A \/ (k = x /\ i \in {t.ask, t.bid}))
    <3>1. \A k : k \in 1 .. n + 1 <=> (k \in 1 .. n \/ k = x)
      BY <1>2, <1>5
    <3>2. \A k : k \in B <=> k \in 1 .. n + 1 /\ i \in {U[k].ask, U[k].bid}
      BY <1>2, <1>5 DEF TradesWith
    <3>3. \A k : k \in A <=> k \in 1 .. n /\ i \in {T[k].ask, T[k].bid}
      BY <1>2, <1>5 DEF TradesWith
    <3> QED
      BY <1>2, <1>5, <3>1, <3>2, <3>3
  <2> QED
    BY <2>1, <2>3, <2>4
<1>7. PICK u, v : u = [k \in A |-> T[k].qty] /\ v = [k \in B |-> U[k].qty]
  OBVIOUS
<1>8. /\ u \in [A -> Int] /\ SumFunction(u) \in Int
      /\ FilledBy(T, i) = SumFunction(u) /\ FilledBy(U, i) = SumFunction(v)
  <2>1. u \in [A -> Int]
    BY <1>3, <1>6, <1>7
  <2>2. SumFunction(u) \in Int
    BY <1>6, <2>1, SumOfInt
  <2> QED
    BY <1>5, <1>7, <2>1, <2>2 DEF FilledBy
<1>9. CASE i \in {t.ask, t.bid}
  <2>1. v \in [A \cup {x} -> Int] /\ v[x] = t.qty /\ \A k \in A : v[k] = u[k]
    BY <1>2, <1>3, <1>4, <1>5, <1>6, <1>7, <1>9
  <2>2. IsFiniteSet(A) /\ x \notin A /\ u \in [A -> Int]
    BY <1>6, <1>8
  <2>3. SumFunction(v) = SumFunction(u) + v[x]
    BY <2>1, <2>2, SumMore, SMTT(30)
  <2> QED
    BY <1>1, <1>8, <1>9, <2>1, <2>3
<1>10. CASE i \notin {t.ask, t.bid}
  <2>1. v = u
    BY <1>2, <1>6, <1>7, <1>10
  <2> QED
    BY <1>1, <1>8, <1>10, <2>1
<1> QED
  BY <1>9, <1>10

LEMMA FilledNone ==
    ASSUME NEW T, NEW i, \A k \in DOMAIN T : i # T[k].ask /\ i # T[k].bid
    PROVE  FilledBy(T, i) = 0
<1>1. TradesWith(T, i) = {}
  BY DEF TradesWith
<1>2. DOMAIN [k \in TradesWith(T, i) |-> T[k].qty] = {}
  BY <1>1
<1> QED
  BY <1>2, SumOfNone DEF FilledBy

LEMMA FilledIs ==
    \A i : /\ SumFunction([k \in TradesOf(i) |-> tape[k].qty]) = FilledBy(tape, i)
           /\ SumFunction([k \in TradesOf(i) |-> tape[k].qty])' = FilledBy(tape', i)
BY DEF TradesOf, FilledBy, TradesWith

-----------------------------------------------------------------------------
(* Each part of the invariant, step by step. *)

LEMMA RoutedStep ==
    ASSUME TypeOK, RoutedInv, [Next]_vars PROVE RoutedInv'
<1>1. CASE UNCHANGED sent
  BY <1>1 DEF RoutedInv
<1>2. ASSUME NEW r \in Requests, SendOrderReq(r) PROVE RoutedInv'
  <2> SUFFICES ASSUME NEW c \in Coin, NEW n \in DOMAIN sent'[c]
               PROVE  CoinOf(sent'[c][n].side) = c
    BY DEF RoutedInv
  <2>1. sent[c] \in Seq(Requests)
    BY Shapes
  <2>2. \A m \in DOMAIN sent[c] : CoinOf(sent[c][m].side) = c
    BY DEF RoutedInv
  <2>3. CASE CoinOf(r.side) = c
    <3>1. sent'[c] = Append(sent[c], r)
      BY <1>2, <2>3, SendOrderReqEffect
    <3>2. /\ DOMAIN sent[c] = 1 .. Len(sent[c]) /\ Len(sent[c]) \in Nat
          /\ DOMAIN sent'[c] = 1 .. Len(sent[c]) + 1
          /\ sent'[c][Len(sent[c]) + 1] = r
          /\ \A m \in 1 .. Len(sent[c]) : sent'[c][m] = sent[c][m]
      BY <2>1, <3>1
    <3>3. n \in 1 .. Len(sent[c]) \/ n = Len(sent[c]) + 1
      BY <3>2
    <3> QED
      BY <2>2, <2>3, <3>2, <3>3
  <2>4. CASE CoinOf(r.side) # c
    <3>1. sent'[c] = sent[c]
      BY <1>2, <2>4, SendOrderReqEffect
    <3> QED
      BY <2>2, <3>1
  <2> QED
    BY <2>3, <2>4
<1> QED
  BY <1>1, <1>2 DEF Next, CreateOrder, TicketToMatchEngine, TryMatch, BalanceChanged, vars

LEMMA OrdersKept ==
    ASSUME TypeOK, OrdersInv, Grows, DOMAIN book' = DOMAIN book, latest' = latest
    PROVE  OrdersInv'
<1>1. \A i \in DOMAIN book :
        /\ ticket'[i] = ticket[i] /\ book'[i].side = book[i].side
        /\ book'[i].price = book[i].price /\ RequestOf(i)' = RequestOf(i)
  BY RequestKept DEF Grows
<1>2. ASSUME NEW i \in DOMAIN book'
      PROVE  /\ ticket'[i] \in 1 .. latest'[book'[i].side]
             /\ RequestOf(i)'.side = book'[i].side /\ RequestOf(i)'.price = book'[i].price
  <2>1. /\ ticket[i] \in 1 .. latest[book[i].side]
        /\ RequestOf(i).side = book[i].side /\ RequestOf(i).price = book[i].price
    BY DEF OrdersInv
  <2> QED
    BY <1>1, <2>1
<1>3. \A i, j \in DOMAIN book' :
        book'[i].side = book'[j].side /\ ticket'[i] = ticket'[j] => i = j
  BY <1>1 DEF OrdersInv
<1> QED
  BY <1>2, <1>3 DEF OrdersInv

LEMMA OrdersStep ==
    ASSUME TypeOK, RoutedInv, OrdersInv, MoneyInv, [Next]_vars PROVE OrdersInv'
<1>1. CASE UNCHANGED vars
  <2>1. Grows /\ DOMAIN book' = DOMAIN book /\ latest' = latest
    BY <1>1 DEF vars, bankVars, engineVars, Grows
  <2> QED
    BY <2>1, OrdersKept
<1>2. ASSUME NEW r \in Requests, SendOrderReq(r) PROVE OrdersInv'
  BY <1>2, SendOrderReqEffect, OrdersKept DEF SendOrderReq, engineVars
<1>3. ASSUME NEW c \in Coin, CreateOrder(c) PROVE OrdersInv'
  BY <1>3, CreateOrderEffect, OrdersKept DEF CreateOrder, engineVars
<1>4. ASSUME NEW a \in DOMAIN book, NEW b \in DOMAIN book, Engine!Trade(a, b),
             UNCHANGED <<sent, bankVars, latest, ticket>>
      PROVE  OrdersInv'
  <2>1. Grows /\ DOMAIN book' = DOMAIN book
    BY <1>4, TradeEffect DEF Traded
  <2> QED
    BY <1>4, <2>1, OrdersKept
<1>5. ASSUME NEW c \in Coin, BalanceChanged(c) PROVE OrdersInv'
  BY <1>5, BalanceChangedEffect, OrdersKept
<1>6. ASSUME NEW c \in Coin, TicketToMatchEngine(c) PROVE OrdersInv'
  <2>1. PICK n, t : n = LastID(c) + 1 /\ t = sent[c][n]
    OBVIOUS
  <2>2. PICK o : o = [side |-> t.side, price |-> t.price, left |-> t.qty]
    OBVIOUS
  <2>3. /\ Grows /\ t \in Requests /\ CoinOf(t.side) = c
        /\ latest' = [latest EXCEPT ![t.side] = n]
        /\ ticket' = Append(ticket, n) /\ book' = Append(book, o)
        /\ sent' = sent
    BY <1>6, <2>1, <2>2, TicketEffect
  <2>4. /\ t.side \in Side /\ latest \in [Side -> Nat] /\ n = latest[t.side] + 1
    BY <2>1, <2>3, RequestType, Coins DEF TypeOK
  <2>5. PICK m : m = Len(book)
    OBVIOUS
  <2>6. /\ book \in Seq(Orders) /\ ticket \in Seq(Nat) /\ Len(ticket) = Len(book)
    BY TypeParts
  <2>7. /\ m \in Nat /\ DOMAIN book = 1 .. m /\ DOMAIN book' = 1 .. m + 1
        /\ book'[m + 1] = o /\ ticket'[m + 1] = n
    BY <2>3, <2>5, <2>6
  <2>8. /\ latest'[t.side] = n /\ \A s \in Side \ {t.side} : latest'[s] = latest[s]
        /\ n \in Nat \ {0} /\ \A s \in Side : latest[s] \in Nat
    BY <2>3, <2>4
  <2>9. ASSUME NEW i \in 1 .. m
        PROVE  /\ ticket'[i] = ticket[i] /\ ticket[i] \in 1 .. latest[book[i].side]
               /\ book'[i].side = book[i].side /\ book[i].side \in Side
               /\ RequestOf(i)'.side = book'[i].side /\ RequestOf(i)'.price = book'[i].price
               /\ ticket'[i] \in 1 .. latest'[book'[i].side]
    <3>1. /\ ticket[i] \in 1 .. latest[book[i].side]
          /\ RequestOf(i).side = book[i].side /\ RequestOf(i).price = book[i].price
      BY <2>7 DEF OrdersInv
    <3>2. /\ ticket'[i] = ticket[i] /\ book'[i].side = book[i].side
          /\ book'[i].price = book[i].price /\ RequestOf(i)' = RequestOf(i)
      BY <2>3, <2>7, RequestKept DEF Grows
    <3>3. book[i].side \in Side
      BY <2>7, InBook
    <3>4. latest[book[i].side] <= latest'[book[i].side] /\ latest'[book[i].side] \in Nat
      BY <2>4, <2>8, <3>3
    <3>5. ticket[i] \in 1 .. latest'[book[i].side]
      BY <2>8, <3>1, <3>3, <3>4
    <3> QED
      BY <3>1, <3>2, <3>3, <3>5
  <2>10. /\ RequestOf(m + 1)' = t
         /\ ticket'[m + 1] \in 1 .. latest'[book'[m + 1].side]
         /\ book'[m + 1].side = t.side /\ book'[m + 1].price = t.price
    <3>1. book'[m + 1].side = t.side /\ book'[m + 1].price = t.price
      BY <2>2, <2>7
    <3>2. RequestOf(m + 1)' = sent[c][n]
      <4>1. PICK k : k = m + 1
        OBVIOUS
      <4>2. book'[k].side = t.side /\ ticket'[k] = n
        BY <2>7, <3>1, <4>1
      <4>3. RequestOf(k)' = sent'[CoinOf(book'[k].side)][ticket'[k]]
        BY DEF RequestOf
      <4> QED
        BY <2>3, <4>1, <4>2, <4>3
    <3> QED
      BY <2>1, <2>7, <2>8, <3>1, <3>2
  <2>11. \A i \in 1 .. m + 1 : i \in 1 .. m \/ i = m + 1
    BY <2>7
  <2>12. \A i \in 1 .. m : book'[i].side = t.side => ticket'[i] < n
    <3> SUFFICES ASSUME NEW i \in 1 .. m, book'[i].side = t.side PROVE ticket'[i] < n
      OBVIOUS
    <3>1. ticket'[i] \in 1 .. latest[t.side] /\ latest[t.side] \in Nat
      BY <2>4, <2>8, <2>9
    <3> QED
      BY <2>4, <3>1
  <2>13. \A i, j \in 1 .. m + 1 :
            book'[i].side = book'[j].side /\ ticket'[i] = ticket'[j] => i = j
    <3> SUFFICES ASSUME NEW i \in 1 .. m + 1, NEW j \in 1 .. m + 1,
                        book'[i].side = book'[j].side, ticket'[i] = ticket'[j]
                 PROVE  i = j
      OBVIOUS
    <3>1. CASE i \in 1 .. m /\ j \in 1 .. m
      BY SMTT(30), <2>7, <2>9, <3>1 DEF OrdersInv
    <3>2. CASE i = m + 1 /\ j \in 1 .. m
      <4>1. ticket'[j] < n /\ ticket'[i] = n
        BY <2>7, <2>10, <2>12, <3>2
      <4> QED
        BY <2>8, <4>1
    <3>3. CASE i \in 1 .. m /\ j = m + 1
      <4>1. ticket'[i] < n /\ ticket'[j] = n
        BY <2>7, <2>10, <2>12, <3>3
      <4> QED
        BY <2>8, <4>1
    <3> QED
      BY <2>11, <3>1, <3>2, <3>3
  <2>14. ASSUME NEW i \in DOMAIN book'
         PROVE  /\ ticket'[i] \in 1 .. latest'[book'[i].side]
                /\ RequestOf(i)'.side = book'[i].side /\ RequestOf(i)'.price = book'[i].price
    <3>1. CASE i \in 1 .. m
      BY <2>9, <3>1
    <3>2. CASE i = m + 1
      <4>1. RequestOf(i)' = RequestOf(m + 1)'
        BY <3>2 DEF RequestOf
      <4> QED
        BY <2>10, <3>2, <4>1
    <3> QED
      BY <2>7, <2>11, <3>1, <3>2
  <2> QED
    BY <2>7, <2>13, <2>14 DEF OrdersInv
<1> QED
  BY <1>1, <1>2, <1>3, <1>4, <1>5, <1>6 DEF Next, TryMatch

LEMMA TradesKept ==
    ASSUME TypeOK, OrdersInv, TradesInv, Grows, tape' = tape, DOMAIN book' = DOMAIN book,
           \A i \in DOMAIN book : book'[i].left = book[i].left
    PROVE  TradesInv'
<1>1. ASSUME NEW k \in DOMAIN tape'
      PROVE  /\ book'[tape'[k].ask].side = "ask" /\ book'[tape'[k].bid].side = "bid"
             /\ book'[tape'[k].ask].price <= tape'[k].price
             /\ tape'[k].price <= book'[tape'[k].bid].price
  <2>1. k \in 1 .. Len(tape)
    BY InSeq DEF TypeOK
  <2>2. tape[k].ask \in DOMAIN book /\ tape[k].bid \in DOMAIN book
    BY <2>1, InTape
  <2>3. /\ book[tape[k].ask].side = "ask" /\ book[tape[k].bid].side = "bid"
        /\ book[tape[k].ask].price <= tape[k].price /\ tape[k].price <= book[tape[k].bid].price
    BY DEF TradesInv
  <2> QED
    BY <2>2, <2>3 DEF Grows
<1>2. ASSUME NEW i \in DOMAIN book'
      PROVE  SumFunction([k \in TradesOf(i) |-> tape[k].qty])' + book'[i].left = RequestOf(i)'.qty
  <2>1. SumFunction([k \in TradesOf(i) |-> tape[k].qty]) + book[i].left = RequestOf(i).qty
    BY DEF TradesInv
  <2>2. RequestOf(i)' = RequestOf(i)
    BY RequestKept
  <2> QED
    BY <2>1, <2>2, FilledIs
<1> QED
  BY <1>1, <1>2 DEF TradesInv

LEMMA TradesStep ==
    ASSUME TypeOK, RoutedInv, OrdersInv, TradesInv, MoneyInv, [Next]_vars PROVE TradesInv'
<1>1. CASE UNCHANGED vars
  <2>1. Grows /\ UNCHANGED <<book, tape>>
    BY <1>1 DEF vars, bankVars, engineVars, Grows
  <2> QED
    BY <2>1, TradesKept
<1>2. ASSUME NEW r \in Requests, SendOrderReq(r) PROVE TradesInv'
  <2>1. Grows /\ UNCHANGED <<book, tape>>
    BY <1>2, SendOrderReqEffect DEF SendOrderReq, engineVars
  <2> QED
    BY <2>1, TradesKept
<1>3. ASSUME NEW c \in Coin, CreateOrder(c) PROVE TradesInv'
  <2>1. Grows /\ UNCHANGED <<book, tape>>
    BY <1>3, CreateOrderEffect DEF CreateOrder, engineVars
  <2> QED
    BY <2>1, TradesKept
<1>4. ASSUME NEW c \in Coin, BalanceChanged(c) PROVE TradesInv'
  <2>1. Grows /\ UNCHANGED <<book, tape>>
    BY <1>4, BalanceChangedEffect
  <2> QED
    BY <2>1, TradesKept
<1>5. ASSUME NEW c \in Coin, TicketToMatchEngine(c) PROVE TradesInv'
  <2>1. PICK n, t : n = LastID(c) + 1 /\ t = sent[c][n]
    OBVIOUS
  <2>2. PICK o : o = [side |-> t.side, price |-> t.price, left |-> t.qty]
    OBVIOUS
  <2>3. /\ Grows /\ t \in Requests /\ CoinOf(t.side) = c
        /\ ticket' = Append(ticket, n) /\ book' = Append(book, o)
        /\ sent' = sent /\ tape' = tape
    BY <1>5, <2>1, <2>2, TicketEffect
  <2>4. PICK m : m = Len(book)
    OBVIOUS
  <2>5. /\ book \in Seq(Orders) /\ ticket \in Seq(Nat) /\ Len(ticket) = Len(book)
    BY TypeParts
  <2>6. /\ m \in Nat /\ DOMAIN book = 1 .. m /\ DOMAIN book' = 1 .. m + 1
        /\ book'[m + 1] = o /\ ticket'[m + 1] = n
        /\ \A i \in 1 .. m : book'[i] = book[i]
    BY <2>3, <2>4, <2>5
  <2>7. DOMAIN tape = 1 .. Len(tape)
    BY InSeq DEF TypeOK
  <2>8. ASSUME NEW k \in DOMAIN tape'
        PROVE  /\ book'[tape'[k].ask].side = "ask" /\ book'[tape'[k].bid].side = "bid"
               /\ book'[tape'[k].ask].price <= tape'[k].price
               /\ tape'[k].price <= book'[tape'[k].bid].price
    <3>1. tape[k].ask \in DOMAIN book /\ tape[k].bid \in DOMAIN book
      BY <2>3, <2>7, InTape
    <3>2. /\ book[tape[k].ask].side = "ask" /\ book[tape[k].bid].side = "bid"
          /\ book[tape[k].ask].price <= tape[k].price /\ tape[k].price <= book[tape[k].bid].price
      BY <2>3 DEF TradesInv
    <3> QED
      BY <2>3, <3>1, <3>2 DEF Grows
  <2>9. ASSUME NEW i \in DOMAIN book'
        PROVE  SumFunction([k \in TradesOf(i) |-> tape[k].qty])' + book'[i].left = RequestOf(i)'.qty
    <3>1. CASE i \in 1 .. m
      <4>1. SumFunction([k \in TradesOf(i) |-> tape[k].qty]) + book[i].left = RequestOf(i).qty
        BY <2>6, <3>1 DEF TradesInv
      <4>2. RequestOf(i)' = RequestOf(i) /\ book'[i].left = book[i].left
        BY <2>3, <2>6, <3>1, RequestKept
      <4> QED
        BY <2>3, <4>1, <4>2, FilledIs
    <3>2. CASE i = m + 1
      <4>1. book'[i].left = t.qty /\ book'[i].side = t.side /\ ticket'[i] = n /\ t.qty \in Nat
        <5>1. o.left = t.qty /\ o.side = t.side /\ t.qty \in Nat
          BY <2>2, <2>3, RequestType
        <5> QED
          BY <2>6, <3>2, <5>1
      <4>2. RequestOf(i)' = t
        <5>1. RequestOf(i)' = sent'[CoinOf(book'[i].side)][ticket'[i]]
          BY DEF RequestOf
        <5> QED
          BY <2>1, <2>3, <4>1, <5>1
      <4>3. FilledBy(tape, i) = 0
        <5>1. \A k \in DOMAIN tape : i # tape[k].ask /\ i # tape[k].bid
          <6>1. \A k \in DOMAIN tape : tape[k].ask \in 1 .. m /\ tape[k].bid \in 1 .. m
            BY <2>6, <2>7, InTape
          <6>2. i \notin 1 .. m
            BY <2>6, <3>2
          <6> QED
            BY <6>1, <6>2
        <5> QED
          BY <5>1, FilledNone
      <4> QED
        BY <2>3, <4>1, <4>2, <4>3, FilledIs
    <3>3. i \in 1 .. m \/ i = m + 1
      BY <2>6
    <3> QED
      BY <3>1, <3>2, <3>3
  <2> QED
    BY <2>8, <2>9 DEF TradesInv
<1>6. ASSUME NEW a \in DOMAIN book, NEW b \in DOMAIN book, Engine!Trade(a, b),
             UNCHANGED <<sent, bankVars, latest, ticket>>
      PROVE  TradesInv'
  <2>1. /\ Grows /\ book[a].side = "ask" /\ book[b].side = "bid"
        /\ \E p, q : Traded(a, b, p, q)
    BY <1>6, TradeEffect
  <2>2. PICK p, q : Traded(a, b, p, q)
    BY <2>1
  <2>3. PICK t : t = [ask |-> a, bid |-> b, price |-> p, qty |-> q]
    OBVIOUS
  <2>4. /\ q \in Nat \ {0} /\ p \in Nat /\ book[a].price <= p /\ p <= book[b].price
        /\ tape' = Append(tape, t) /\ DOMAIN book' = DOMAIN book
        /\ \A i \in DOMAIN book : book'[i].left = book[i].left - (IF i \in {a, b} THEN q ELSE 0)
    BY <2>2, <2>3 DEF Traded
  <2>5. /\ t.ask = a /\ t.bid = b /\ t.price = p /\ t.qty = q /\ t \in Trades
        /\ tape \in Seq(Trades)
    BY <2>3, <2>4, TypeParts DEF Trades
  <2>6. PICK n : n = Len(tape)
    OBVIOUS
  <2>7. /\ n \in Nat /\ DOMAIN tape = 1 .. n /\ DOMAIN tape' = 1 .. n + 1
        /\ tape'[n + 1] = t /\ \A k \in 1 .. n : tape'[k] = tape[k]
    BY <2>4, <2>5, <2>6
  <2>8. ASSUME NEW k \in DOMAIN tape'
        PROVE  /\ book'[tape'[k].ask].side = "ask" /\ book'[tape'[k].bid].side = "bid"
               /\ book'[tape'[k].ask].price <= tape'[k].price
               /\ tape'[k].price <= book'[tape'[k].bid].price
    <3>1. PICK u : u = tape'[k]
      OBVIOUS
    <3>2. /\ u.ask \in DOMAIN book /\ u.bid \in DOMAIN book
          /\ book[u.ask].side = "ask" /\ book[u.bid].side = "bid"
          /\ book[u.ask].price <= u.price /\ u.price <= book[u.bid].price
      <4>1. CASE k \in 1 .. n
        <5>1. u = tape[k] /\ k \in DOMAIN tape
          BY <2>7, <3>1, <4>1
        <5>2. u.ask \in DOMAIN book /\ u.bid \in DOMAIN book
          BY <2>6, <4>1, <5>1, InTape
        <5> QED
          BY <5>1, <5>2 DEF TradesInv
      <4>2. CASE k = n + 1
        BY <2>1, <2>4, <2>5, <2>7, <3>1, <4>2
      <4> QED
        BY <2>7, <4>1, <4>2
    <3> QED
      BY <2>1, <3>1, <3>2 DEF Grows
  <2>9. ASSUME NEW i \in DOMAIN book'
        PROVE  SumFunction([k \in TradesOf(i) |-> tape[k].qty])' + book'[i].left = RequestOf(i)'.qty
    <3>1. SumFunction([k \in TradesOf(i) |-> tape[k].qty]) + book[i].left = RequestOf(i).qty
      BY <2>4 DEF TradesInv
    <3>2. RequestOf(i)' = RequestOf(i)
      BY <2>1, <2>4, RequestKept
    <3>3. /\ FilledBy(tape', i) = FilledBy(tape, i) + (IF i \in {a, b} THEN q ELSE 0)
          /\ FilledBy(tape, i) \in Int
      <4>1. PICK X, T : X = DOMAIN book /\ T = tape
        OBVIOUS
      <4>2. /\ T \in Seq([ask : X, bid : X, price : Nat, qty : Nat \ {0}])
            /\ t \in [ask : X, bid : X, price : Nat, qty : Nat \ {0}]
        BY <2>5, <4>1 DEF Trades
      <4>3. /\ FilledBy(Append(T, t), i)
                 = FilledBy(T, i) + (IF i \in {t.ask, t.bid} THEN t.qty ELSE 0)
            /\ FilledBy(T, i) \in Int
        BY <4>2, FilledNext
      <4> QED
        BY <2>4, <2>5, <4>1, <4>3
    <3>4. book'[i].left = book[i].left - (IF i \in {a, b} THEN q ELSE 0) /\ book[i].left \in Nat
      BY <2>4, InBook
    <3>5. PICK x, y, z : /\ x = FilledBy(tape, i) /\ y = book[i].left
                         /\ z = IF i \in {a, b} THEN q ELSE 0
      OBVIOUS
    <3>6. x \in Int /\ y \in Int /\ z \in Int /\ x + y = RequestOf(i).qty
      <4>1. SumFunction([k \in TradesOf(i) |-> tape[k].qty]) = FilledBy(tape, i)
        BY FilledIs
      <4>2. x + y = RequestOf(i).qty
        BY <3>1, <3>5, <4>1
      <4>3. x \in Int /\ y \in Int
        BY <3>3, <3>4, <3>5
      <4>4. q \in Int
        BY <2>4
      <4> QED
        BY <3>5, <4>2, <4>3, <4>4
    <3>7. FilledBy(tape', i) = x + z /\ book'[i].left = y - z
      BY <3>3, <3>4, <3>5
    <3> QED
      BY <3>2, <3>6, <3>7, FilledIs
  <2> QED
    BY <2>8, <2>9 DEF TradesInv
<1> QED
  BY <1>1, <1>2, <1>3, <1>4, <1>5, <1>6 DEF Next, TryMatch

(* The money of a step: what it adds to each of the sums of a coin and a user. *)
LEMMA FundsKept ==
    ASSUME TypeOK, TypeOK', Grows, NEW c \in Coin, NEW o, taken'[c] = taken[c],
           NEW m \in Nat
    PROVE  /\ FundsOf(sent'[c], taken[c], o) = FundsOf(sent[c], taken[c], o)
           /\ TicketsOf(sent'[c], m, taken[c], o) = TicketsOf(sent[c], m, taken[c], o)
<1>1. /\ sent[c] \in Seq(Requests) /\ taken[c] \in Nat /\ taken[c] <= Len(sent[c])
      /\ Len(sent[c]) \in Nat
  BY Shapes
<1>2. sent'[c] \in Seq(Requests) /\ taken[c] <= Len(sent'[c])
  <2>1. sent'[c] \in Seq(Requests) /\ taken'[c] <= Len(sent'[c])
    BY DEF TypeOK
  <2> QED
    BY <2>1
<1>3. PICK q, p, n : q = sent[c] /\ p = sent'[c] /\ n = taken[c]
  OBVIOUS
<1>4. \A k \in 1 .. n : p[k] = q[k]
  <2>1. \A k \in 1 .. Len(sent[c]) : sent'[c][k] = sent[c][k]
    BY DEF Grows
  <2>2. \A k \in 1 .. n : k \in 1 .. Len(sent[c])
    BY <1>1, <1>3
  <2> QED
    BY <1>3, <2>1, <2>2
<1>5. q \in Seq(Requests) /\ p \in Seq(Requests) /\ n \in Nat /\ n <= Len(q) /\ n <= Len(p)
  BY <1>1, <1>2, <1>3
<1>6. FundsOf(p, n, o) = FundsOf(q, n, o) /\ TicketsOf(p, m, n, o) = TicketsOf(q, m, n, o)
  BY <1>4, <1>5, FundsSame, TicketsSame
<1> QED
  BY <1>3, <1>6

LEMMA OrdersShareSame ==
    ASSUME TypeOK, OrdersInv, Grows, NEW c \in Coin, NEW o,
           \A i \in OrdersOf(c) : book'[i].left = book[i].left
    PROVE  Share(OrdersOf(c), OrderOwner', OrderCost', o)
             = Share(OrdersOf(c), OrderOwner, OrderCost, o)
<1>1. \A i \in OrdersOf(c) : OrderOwner'[i] = OrderOwner[i] /\ OrderCost'[i] = OrderCost[i]
  <2> SUFFICES ASSUME NEW i \in OrdersOf(c)
               PROVE  OrderOwner'[i] = OrderOwner[i] /\ OrderCost'[i] = OrderCost[i]
    OBVIOUS
  <2>1. i \in DOMAIN book /\ i \in DOMAIN book'
    BY DEF OrdersOf, Grows
  <2>2. RequestOf(i)' = RequestOf(i)
    BY <2>1, RequestKept
  <2>3. OpenCost(i)' = OpenCost(i)
    BY <2>1 DEF OpenCost, Grows
  <2> QED
    BY <2>1, <2>2, <2>3 DEF OrderOwner, OrderCost
<1>2. PICK S, w, f, v, g : /\ S = OrdersOf(c) /\ w = OrderOwner /\ f = OrderCost
                           /\ v = OrderOwner' /\ g = OrderCost'
  OBVIOUS
<1>3. Share(S, v, g, o) = Share(S, w, f, o)
  <2>1. \A i \in S : v[i] = w[i] /\ g[i] = f[i]
    BY <1>1, <1>2
  <2> QED
    BY <2>1, ShareSame
<1> QED
  BY <1>2, <1>3

LEMMA OrdersShareKept ==
    ASSUME TypeOK, OrdersInv, Grows, UNCHANGED book, NEW c \in Coin, NEW o
    PROVE  Share(OrdersOf(c)', OrderOwner', OrderCost', o)
             = Share(OrdersOf(c), OrderOwner, OrderCost, o)
<1>1. OrdersOf(c)' = OrdersOf(c)
  BY DEF OrdersOf
<1>2. \A i \in OrdersOf(c) : book'[i].left = book[i].left
  OBVIOUS
<1> QED
  BY <1>1, <1>2, OrdersShareSame

LEMMA MoneyTypes ==
    ASSUME TypeOK, OrdersInv, NEW c \in Coin, NEW o \in Owners
    PROVE  /\ FundsOf(sent[c], taken[c], o) \in Int
           /\ PaidOf(Changes(c), 0, o) \in Int /\ PaidOf(Changes(c), settled[c], o) \in Int
           /\ TicketsOf(sent[c], LastID(c), taken[c], o) \in Int
           /\ Share(OrdersOf(c), OrderOwner, OrderCost, o) \in Int
           /\ money[c][o].freeze \in Int
<1>1. /\ FundsOf(sent[c], taken[c], o) \in Nat
      /\ TicketsOf(sent[c], LastID(c), taken[c], o) \in Nat
  BY Shapes, FundsNat, TicketsNat
<1>2. PaidOf(Changes(c), 0, o) \in Nat /\ PaidOf(Changes(c), settled[c], o) \in Nat
  <2>1. PICK h, m : h = Changes(c) /\ m = settled[c]
    OBVIOUS
  <2>2. h \in Seq(Debit) /\ m \in Nat
    BY <2>1, ChangesType, Shapes
  <2>3. PaidOf(h, 0, o) \in Nat /\ PaidOf(h, m, o) \in Nat
    BY <2>2, PaidNat
  <2> QED
    BY <2>1, <2>3
<1>3. Share(OrdersOf(c), OrderOwner, OrderCost, o) \in Nat
  BY OrderCosts
<1>4. money[c][o].freeze \in Nat
  BY TypeParts DEF Balance
<1> QED
  BY <1>1, <1>2, <1>3, <1>4

(* What the step leaves of one coin. *)
LEMMA CoinKept ==
    ASSUME TypeOK, OrdersInv, MoneyForm, TypeOK', Grows, NEW c \in Coin, NEW o \in Owners,
           taken'[c] = taken[c], settled'[c] = settled[c], money'[c] = money[c],
           LastID(c)' = LastID(c), tape' = tape,
           Share(OrdersOf(c)', OrderOwner', OrderCost', o)
             = Share(OrdersOf(c), OrderOwner, OrderCost, o)
    PROVE  /\ FundsOf(sent'[c], taken'[c], o) - PaidOf(Changes(c)', 0, o)
                >= TicketsOf(sent'[c], LastID(c)', taken'[c], o)
                     + Share(OrdersOf(c)', OrderOwner', OrderCost', o)
           /\ money'[c][o].freeze
                = FundsOf(sent'[c], taken'[c], o) - PaidOf(Changes(c)', 0, o)
                    + PaidOf(Changes(c)', settled'[c], o)
<1>1. Changes(c)' = Changes(c)
  BY ChangesKept
<1>3. /\ FundsOf(sent'[c], taken[c], o) = FundsOf(sent[c], taken[c], o)
      /\ TicketsOf(sent'[c], LastID(c), taken[c], o) = TicketsOf(sent[c], LastID(c), taken[c], o)
  BY Shapes, FundsKept
<1>4. /\ FundsOf(sent[c], taken[c], o) - PaidOf(Changes(c), 0, o)
           >= TicketsOf(sent[c], LastID(c), taken[c], o) + Share(OrdersOf(c), OrderOwner, OrderCost, o)
      /\ money[c][o].freeze
           = FundsOf(sent[c], taken[c], o) - PaidOf(Changes(c), 0, o)
               + PaidOf(Changes(c), settled[c], o)
  BY DEF MoneyForm
<1> QED
  BY <1>1, <1>3, <1>4

LEMMA MoneySend ==
    ASSUME TypeOK, OrdersInv, MoneyForm, NEW r \in Requests, SendOrderReq(r)
    PROVE  MoneyForm'
<1>1. TypeOK' /\ Grows /\ UNCHANGED <<taken, money, settled, latest, ticket, book, tape>>
  BY SendOrderReqEffect DEF SendOrderReq, bankVars, engineVars
<1>2. \A c \in Coin : LastID(c)' = LastID(c)
  BY <1>1 DEF LastID
<1>3. \A c \in Coin, o \in Owners :
        Share(OrdersOf(c)', OrderOwner', OrderCost', o)
          = Share(OrdersOf(c), OrderOwner, OrderCost, o)
  BY <1>1, OrdersShareKept
<1> QED
  BY <1>1, <1>2, <1>3, CoinKept DEF MoneyForm

LEMMA MoneyCreate ==
    ASSUME TypeOK, OrdersInv, MoneyForm, NEW c \in Coin, CreateOrder(c)
    PROVE  MoneyForm'
<1>1. PICK r, n : n = taken[c] /\ r = sent[c][n + 1]
  OBVIOUS
<1>2. /\ TypeOK' /\ Grows /\ UNCHANGED <<sent, settled, latest, ticket, book, tape>>
      /\ n < Len(sent[c]) /\ r \in Requests
      /\ taken'[c] = n + 1 /\ \A d \in Coin \ {c} : taken'[d] = taken[d]
      /\ money' = [money EXCEPT ![c] = Charged(money[c], r.owner, Total(r))]
  BY <1>1, CreateOrderEffect DEF CreateOrder, engineVars
<1>3. money \in [Coin -> [Owners -> Balance]]
  BY TypeParts
<1>4. /\ money'[c] = Charged(money[c], r.owner, Total(r))
      /\ \A d \in Coin \ {c} : money'[d] = money[d]
  BY <1>2, <1>3
<1>5. \A d \in Coin : LastID(d)' = LastID(d)
  BY <1>2 DEF LastID
<1>6. \A d \in Coin, o \in Owners :
        Share(OrdersOf(d)', OrderOwner', OrderCost', o)
          = Share(OrdersOf(d), OrderOwner, OrderCost, o)
  BY <1>2, OrdersShareKept
<1>7. ASSUME NEW o \in Owners
      PROVE  /\ FundsOf(sent'[c], taken'[c], o) - PaidOf(Changes(c)', 0, o)
                  >= TicketsOf(sent'[c], LastID(c)', taken'[c], o)
                       + Share(OrdersOf(c)', OrderOwner', OrderCost', o)
             /\ money'[c][o].freeze
                  = FundsOf(sent'[c], taken'[c], o) - PaidOf(Changes(c)', 0, o)
                      + PaidOf(Changes(c)', settled'[c], o)
  <2>1. PICK x, z : /\ x = IF r.owner = o THEN Total(r) ELSE 0
                    /\ z = IF r.owner = o THEN Value(r) * Unit ELSE 0
    OBVIOUS
  <2>2. x \in Nat /\ z \in Nat /\ z <= x
    BY <1>2, <2>1, Costs
  <2>3. /\ FundsOf(sent[c], n + 1, o) = FundsOf(sent[c], n, o) + x
        /\ TicketsOf(sent[c], LastID(c), n + 1, o) = TicketsOf(sent[c], LastID(c), n, o) + z
    <3>1. PICK q, m : q = sent[c] /\ m = LastID(c)
      OBVIOUS
    <3>2. q \in Seq(Requests) /\ n \in Nat /\ m \in Nat /\ m <= n /\ n < Len(q) /\ r = q[n + 1]
      BY <1>1, <1>2, <3>1, Shapes
    <3>3. /\ FundsOf(q, n + 1, o)
               = FundsOf(q, n, o) + (IF q[n + 1].owner = o THEN Total(q[n + 1]) ELSE 0)
          /\ TicketsOf(q, m, n + 1, o)
               = TicketsOf(q, m, n, o) + (IF q[n + 1].owner = o THEN Value(q[n + 1]) * Unit ELSE 0)
      BY <3>2, FundsNext, TicketsNext
    <3> QED
      BY <2>1, <3>1, <3>2, <3>3
  <2>4. money'[c][o].freeze = money[c][o].freeze + x
    <3>1. PICK m, p, t : m = money[c] /\ p = r.owner /\ t = Total(r)
      OBVIOUS
    <3>2. m \in [Owners -> Balance] /\ p \in Owners /\ t \in Nat
      BY <1>2, <1>3, <3>1, RequestType, Costs
    <3>3. Charged(m, p, t)[o].freeze = m[o].freeze + (IF o = p THEN t ELSE 0)
      BY <3>2, Charge
    <3>4. x = IF o = p THEN t ELSE 0
      BY <2>1, <3>1
    <3> QED
      BY <1>4, <3>1, <3>3, <3>4
  <2>5. Changes(c)' = Changes(c)
    BY <1>2, ChangesKept
  <2>6. PICK F, P, U, T, S, z1 : /\ F = FundsOf(sent[c], taken[c], o)
                                 /\ P = PaidOf(Changes(c), 0, o)
                                 /\ U = PaidOf(Changes(c), settled[c], o)
                                 /\ T = TicketsOf(sent[c], LastID(c), taken[c], o)
                                 /\ S = Share(OrdersOf(c), OrderOwner, OrderCost, o)
                                 /\ z1 = money[c][o].freeze
    OBVIOUS
  <2>7. /\ F \in Int /\ P \in Int /\ U \in Int /\ T \in Int /\ S \in Int /\ z1 \in Int
        /\ F - P >= T + S /\ z1 = F - P + U
    BY <2>6, MoneyTypes DEF MoneyForm
  <2>8. /\ FundsOf(sent'[c], taken'[c], o) = F + x
        /\ TicketsOf(sent'[c], LastID(c)', taken'[c], o) = T + z
        /\ PaidOf(Changes(c)', 0, o) = P /\ PaidOf(Changes(c)', settled'[c], o) = U
        /\ Share(OrdersOf(c)', OrderOwner', OrderCost', o) = S
        /\ money'[c][o].freeze = z1 + x
    BY <1>1, <1>2, <1>5, <1>6, <2>3, <2>4, <2>5, <2>6
  <2>9. (F + x) - P >= (T + z) + S /\ z1 + x = (F + x) - P + U
    BY <2>2, <2>7
  <2> QED
    BY <2>8, <2>9
<1>8. \A d \in Coin \ {c}, o \in Owners :
        /\ FundsOf(sent'[d], taken'[d], o) - PaidOf(Changes(d)', 0, o)
             >= TicketsOf(sent'[d], LastID(d)', taken'[d], o)
                  + Share(OrdersOf(d)', OrderOwner', OrderCost', o)
        /\ money'[d][o].freeze
             = FundsOf(sent'[d], taken'[d], o) - PaidOf(Changes(d)', 0, o)
                 + PaidOf(Changes(d)', settled'[d], o)
  BY <1>2, <1>4, <1>5, <1>6, CoinKept
<1> QED
  BY <1>7, <1>8 DEF MoneyForm

LEMMA MoneySettle ==
    ASSUME TypeOK, OrdersInv, MoneyInv, MoneyForm, NEW c \in Coin, BalanceChanged(c)
    PROVE  MoneyForm'
<1>1. PICK d, n : n = settled[c] /\ d = Changes(c)[n + 1]
  OBVIOUS
<1>2. /\ TypeOK' /\ Grows /\ UNCHANGED <<sent, taken, latest, ticket, book, tape>>
      /\ n < Len(tape) /\ settled'[c] = n + 1
      /\ \A e \in Coin \ {c} : settled'[e] = settled[e]
      /\ d \in Debit /\ d.amount <= money[c][d.payer].freeze
      /\ money' = [money EXCEPT ![c] = Transferred(money[c], d.payer, d.payee, d.amount)]
  BY <1>1, BalanceChangedEffect
<1>3. money \in [Coin -> [Owners -> Balance]]
  BY TypeParts
<1>4. /\ money'[c] = Transferred(money[c], d.payer, d.payee, d.amount)
      /\ \A e \in Coin \ {c} : money'[e] = money[e]
  BY <1>2, <1>3
<1>5. \A e \in Coin : LastID(e)' = LastID(e) /\ taken'[e] = taken[e]
  BY <1>2 DEF LastID
<1>6. \A e \in Coin, o \in Owners :
        Share(OrdersOf(e)', OrderOwner', OrderCost', o)
          = Share(OrdersOf(e), OrderOwner, OrderCost, o)
  BY <1>2, OrdersShareKept
<1>7. ASSUME NEW o \in Owners
      PROVE  /\ FundsOf(sent'[c], taken'[c], o) - PaidOf(Changes(c)', 0, o)
                  >= TicketsOf(sent'[c], LastID(c)', taken'[c], o)
                       + Share(OrdersOf(c)', OrderOwner', OrderCost', o)
             /\ money'[c][o].freeze
                  = FundsOf(sent'[c], taken'[c], o) - PaidOf(Changes(c)', 0, o)
                      + PaidOf(Changes(c)', settled'[c], o)
  <2>1. PICK x : x = IF d.payer = o THEN d.amount ELSE 0
    OBVIOUS
  <2>2. x \in Nat
    BY <1>2, <2>1 DEF Debit
  <2>3. PaidOf(Changes(c), n, o) = PaidOf(Changes(c), n + 1, o) + x
    <3>1. PICK h : h = Changes(c)
      OBVIOUS
    <3>2. h \in Seq(Debit) /\ n \in Nat /\ n < Len(h) /\ h[n + 1] = d
      BY <1>1, <1>2, <3>1, ChangesType, Shapes
    <3>3. PaidOf(h, n, o) = PaidOf(h, n + 1, o) + (IF h[n + 1].payer = o THEN h[n + 1].amount ELSE 0)
      BY <3>2, PaidFirst
    <3> QED
      BY <2>1, <3>1, <3>2, <3>3
  <2>4. money'[c][o].freeze = money[c][o].freeze - x
    <3>1. PICK m, p, q, t : m = money[c] /\ p = d.payer /\ q = d.payee /\ t = d.amount
      OBVIOUS
    <3>2. m \in [Owners -> Balance] /\ p \in Owners /\ q \in Owners /\ t \in Nat /\ t <= m[p].freeze
      BY <1>2, <1>3, <3>1 DEF Debit
    <3>3. Transferred(m, p, q, t)[o].freeze = m[o].freeze + (IF o = p THEN -t ELSE 0)
      BY <3>2, Transfer
    <3>4. x = (IF o = p THEN t ELSE 0) /\ m[o].freeze \in Int
      BY <2>1, <3>1, <3>2 DEF Balance
    <3>5. CASE o = p
      BY <1>4, <3>1, <3>2, <3>3, <3>4, <3>5
    <3>6. CASE o # p
      BY <1>4, <3>1, <3>2, <3>3, <3>4, <3>6
    <3> QED
      BY <3>5, <3>6
  <2>5. Changes(c)' = Changes(c)
    BY <1>2, ChangesKept
  <2>6. PICK F, P, U, V, T, S, z : /\ F = FundsOf(sent[c], taken[c], o)
                                   /\ P = PaidOf(Changes(c), 0, o)
                                   /\ U = PaidOf(Changes(c), settled[c], o)
                                   /\ V = PaidOf(Changes(c), n + 1, o)
                                   /\ T = TicketsOf(sent[c], LastID(c), taken[c], o)
                                   /\ S = Share(OrdersOf(c), OrderOwner, OrderCost, o)
                                   /\ z = money[c][o].freeze
    OBVIOUS
  <2>7. /\ F \in Int /\ P \in Int /\ U \in Int /\ T \in Int /\ S \in Int /\ z \in Int
        /\ F - P >= T + S /\ z = F - P + U
    BY <2>6, MoneyTypes DEF MoneyForm
  <2>8. V \in Int /\ U = V + x
    <3>1. PICK h : h = Changes(c)
      OBVIOUS
    <3>2. h \in Seq(Debit) /\ n + 1 \in Nat
      BY <1>1, <3>1, ChangesType, Shapes
    <3>3. PaidOf(h, n + 1, o) \in Nat
      BY <3>2, PaidNat
    <3> QED
      BY <1>1, <2>3, <2>6, <3>1, <3>3
  <2>9. /\ FundsOf(sent'[c], taken'[c], o) = F
        /\ TicketsOf(sent'[c], LastID(c)', taken'[c], o) = T
        /\ PaidOf(Changes(c)', 0, o) = P /\ PaidOf(Changes(c)', settled'[c], o) = V
        /\ Share(OrdersOf(c)', OrderOwner', OrderCost', o) = S
        /\ money'[c][o].freeze = z - x
    BY <1>2, <1>5, <1>6, <2>4, <2>5, <2>6
  <2>10. z - x = F - P + V
    BY <2>2, <2>7, <2>8
  <2> QED
    BY <2>7, <2>9, <2>10
<1>8. \A e \in Coin \ {c}, o \in Owners :
        /\ FundsOf(sent'[e], taken'[e], o) - PaidOf(Changes(e)', 0, o)
             >= TicketsOf(sent'[e], LastID(e)', taken'[e], o)
                  + Share(OrdersOf(e)', OrderOwner', OrderCost', o)
        /\ money'[e][o].freeze
             = FundsOf(sent'[e], taken'[e], o) - PaidOf(Changes(e)', 0, o)
                 + PaidOf(Changes(e)', settled'[e], o)
  BY <1>2, <1>4, <1>5, <1>6, CoinKept
<1> QED
  BY <1>7, <1>8 DEF MoneyForm

CostForm ==
    \A c \in Coin : IsFiniteSet(OrdersOf(c)) /\ \A i \in OrdersOf(c) : OrderCost[i] \in Nat

LEMMA OrderCostsNext == TypeOK' => CostForm'
<1>1. TypeOK => CostForm
  BY OrderCosts DEF CostForm
<1> QED
  BY <1>1, PTL

LEMMA MoneyTicket ==
    ASSUME TypeOK, RoutedInv, OrdersInv, MoneyForm, NEW c \in Coin, TicketToMatchEngine(c)
    PROVE  MoneyForm'
<1>1. PICK n, t : n = LastID(c) + 1 /\ t = sent[c][n]
  OBVIOUS
<1>2. PICK r : r = [side |-> t.side, price |-> t.price, left |-> t.qty]
  OBVIOUS
<1>3. /\ TypeOK' /\ Grows /\ LastID(c) < taken[c]
      /\ t \in Requests /\ CoinOf(t.side) = c
      /\ latest' = [latest EXCEPT ![t.side] = n]
      /\ ticket' = Append(ticket, n) /\ book' = Append(book, r)
      /\ UNCHANGED <<sent, taken, money, settled, tape>>
  BY <1>1, <1>2, TicketEffect
<1>4. PICK m : m = Len(book) + 1
  OBVIOUS
<1>5. /\ m \in Nat /\ DOMAIN book' = DOMAIN book \cup {m} /\ m \notin DOMAIN book
      /\ book'[m] = r /\ ticket'[m] = n /\ \A i \in DOMAIN book : book'[i] = book[i]
  <2>1. /\ book \in Seq(Orders) /\ ticket \in Seq(Nat) /\ Len(ticket) = Len(book)
    BY TypeParts
  <2>2. PICK k : k = Len(book)
    OBVIOUS
  <2>3. /\ k \in Nat /\ DOMAIN book = 1 .. k /\ DOMAIN book' = 1 .. k + 1
        /\ book'[k + 1] = r /\ ticket'[k + 1] = n /\ \A i \in 1 .. k : book'[i] = book[i]
    BY <1>3, <2>1, <2>2
  <2>4. 1 .. k + 1 = (1 .. k) \cup {k + 1} /\ k + 1 \notin 1 .. k
    BY <2>3
  <2> QED
    BY <1>4, <2>2, <2>3, <2>4
<1>6. r.side = t.side /\ r.price = t.price /\ r.left = t.qty
  BY <1>2
<1>7. /\ OrdersOf(c)' = OrdersOf(c) \cup {m} /\ m \notin OrdersOf(c)
      /\ \A d \in Coin \ {c} : OrdersOf(d)' = OrdersOf(d)
  BY <1>3, <1>5, <1>6 DEF OrdersOf
<1>8. \A d \in Coin, o \in Owners :
        Share(OrdersOf(d), OrderOwner', OrderCost', o)
          = Share(OrdersOf(d), OrderOwner, OrderCost, o)
  <2>1. \A d \in Coin : \A i \in OrdersOf(d) : book'[i].left = book[i].left
    BY <1>5 DEF OrdersOf
  <2> QED
    BY <1>3, <2>1, OrdersShareSame
<1>9. \A d \in Coin \ {c} : LastID(d)' = LastID(d)
  <2>1. t.side \in Side /\ latest \in [Side -> Nat]
    BY <1>3, RequestType DEF TypeOK
  <2> QED
    BY <1>3, <2>1 DEF LastID, Coin, Side, CoinOf
<1>10. LastID(c)' = n
  <2>1. t.side \in Side /\ latest \in [Side -> Nat]
    BY <1>3, RequestType DEF TypeOK
  <2> QED
    BY <1>3, <2>1 DEF LastID, Coin, Side, CoinOf
<1>11. OrderOwner'[m] = t.owner /\ OrderCost'[m] = Value(t) * Unit
  <2>1. RequestOf(m)' = t
    <3>1. RequestOf(m)' = sent'[CoinOf(book'[m].side)][ticket'[m]]
      BY DEF RequestOf
    <3> QED
      BY <1>1, <1>3, <1>5, <1>6, <3>1
  <2>2. OpenCost(m)' = book'[m].left * (IF book'[m].side = "bid" THEN book'[m].price ELSE 1) * Unit
    BY DEF OpenCost
  <2>3. OpenCost(m)' = t.qty * (IF t.side = "bid" THEN t.price ELSE 1) * Unit
    BY <1>5, <1>6, <2>2
  <2>4. t.qty * (IF t.side = "bid" THEN t.price ELSE 1) = Value(t)
    <3>1. t.qty \in Nat /\ t.price \in Nat
      BY <1>3, RequestType
    <3>2. t.qty * t.price = t.price * t.qty /\ t.qty * 1 = t.qty
      BY <3>1
    <3> QED
      BY <3>2 DEF Value
  <2>5. m \in DOMAIN book'
    BY <1>5
  <2> QED
    BY <2>1, <2>3, <2>4, <2>5 DEF OrderOwner, OrderCost
<1>12. ASSUME NEW o \in Owners
       PROVE  /\ FundsOf(sent'[c], taken'[c], o) - PaidOf(Changes(c)', 0, o)
                   >= TicketsOf(sent'[c], LastID(c)', taken'[c], o)
                        + Share(OrdersOf(c)', OrderOwner', OrderCost', o)
              /\ money'[c][o].freeze
                   = FundsOf(sent'[c], taken'[c], o) - PaidOf(Changes(c)', 0, o)
                       + PaidOf(Changes(c)', settled'[c], o)
  <2>1. PICK x : x = IF t.owner = o THEN Value(t) * Unit ELSE 0
    OBVIOUS
  <2>2. x \in Nat
    BY <1>3, <2>1, Costs
  <2>3. /\ TicketsOf(sent[c], LastID(c), taken[c], o) = TicketsOf(sent[c], n, taken[c], o) + x
        /\ TicketsOf(sent[c], n, taken[c], o) \in Nat
    <3>1. PICK q, k, e : q = sent[c] /\ k = LastID(c) /\ e = taken[c]
      OBVIOUS
    <3>2. /\ q \in Seq(Requests) /\ k \in Nat /\ e \in Nat /\ k < e /\ e <= Len(q)
          /\ n = k + 1 /\ t = q[n]
      BY <1>1, <1>3, <3>1, Shapes
    <3>3. TicketsOf(q, k, e, o)
            = TicketsOf(q, k + 1, e, o) + (IF q[k + 1].owner = o THEN Value(q[k + 1]) * Unit ELSE 0)
      BY <3>2, TicketsFirst
    <3>4. n \in Nat
      BY <3>2
    <3>5. TicketsOf(q, n, e, o) \in Nat
      BY <3>2, <3>4, TicketsNat
    <3> QED
      BY <2>1, <3>1, <3>2, <3>3, <3>5
  <2>4. Share(OrdersOf(c)', OrderOwner', OrderCost', o)
          = Share(OrdersOf(c), OrderOwner, OrderCost, o) + x
    <3>1. PICK S, A, w, f : S = OrdersOf(c)' /\ A = OrdersOf(c) /\ w = OrderOwner' /\ f = OrderCost'
      OBVIOUS
    <3>2. IsFiniteSet(S) /\ \A i \in S : f[i] \in Nat
      BY <1>3, <3>1, OrderCostsNext DEF CostForm
    <3>3. m \in S /\ S \ {m} = A /\ \A i \in S : f[i] \in Int
      BY <1>7, <3>1, <3>2
    <3>4. Share(S, w, f, o) = Share(S \ {m}, w, f, o) + (IF w[m] = o THEN f[m] ELSE 0)
      BY <3>2, <3>3, ShareLess
    <3>5. Share(A, w, f, o) = Share(OrdersOf(c), OrderOwner, OrderCost, o)
      BY <1>8, <3>1
    <3> QED
      BY <1>11, <2>1, <3>1, <3>3, <3>4, <3>5
  <2>5. Changes(c)' = Changes(c)
    BY <1>3, ChangesKept
  <2>6. PICK F, P, U, T, R, S, z : /\ F = FundsOf(sent[c], taken[c], o)
                                   /\ P = PaidOf(Changes(c), 0, o)
                                   /\ U = PaidOf(Changes(c), settled[c], o)
                                   /\ T = TicketsOf(sent[c], LastID(c), taken[c], o)
                                   /\ R = TicketsOf(sent[c], n, taken[c], o)
                                   /\ S = Share(OrdersOf(c), OrderOwner, OrderCost, o)
                                   /\ z = money[c][o].freeze
    OBVIOUS
  <2>7. /\ F \in Int /\ P \in Int /\ U \in Int /\ T \in Int /\ S \in Int /\ z \in Int
        /\ F - P >= T + S /\ z = F - P + U
    BY <2>6, MoneyTypes DEF MoneyForm
  <2>8. /\ FundsOf(sent'[c], taken'[c], o) = F
        /\ TicketsOf(sent'[c], LastID(c)', taken'[c], o) = R /\ T = R + x /\ R \in Nat
        /\ PaidOf(Changes(c)', 0, o) = P /\ PaidOf(Changes(c)', settled'[c], o) = U
        /\ Share(OrdersOf(c)', OrderOwner', OrderCost', o) = S + x
        /\ money'[c][o].freeze = z
    BY <1>3, <1>10, <2>3, <2>4, <2>5, <2>6
  <2>9. F - P >= R + (S + x)
    BY <2>2, <2>7, <2>8
  <2> QED
    BY <2>7, <2>8, <2>9
<1>13. \A d \in Coin \ {c}, o \in Owners :
        /\ FundsOf(sent'[d], taken'[d], o) - PaidOf(Changes(d)', 0, o)
             >= TicketsOf(sent'[d], LastID(d)', taken'[d], o)
                  + Share(OrdersOf(d)', OrderOwner', OrderCost', o)
        /\ money'[d][o].freeze
             = FundsOf(sent'[d], taken'[d], o) - PaidOf(Changes(d)', 0, o)
                 + PaidOf(Changes(d)', settled'[d], o)
  BY <1>3, <1>7, <1>8, <1>9, CoinKept
<1> QED
  BY <1>12, <1>13 DEF MoneyForm

(* What an order no longer costs once it is filled is at least what is paid. *)
LEMMA CostDrop ==
    ASSUME NEW l \in Nat, NEW q \in Nat, q <= l, NEW v \in Nat, NEW p \in Nat, p <= v,
           NEW u \in Nat
    PROVE  l * v * u - (l - q) * v * u >= p * q * u
<1>1. l * v - (l - q) * v = q * v
  OBVIOUS
<1>2. PICK x, y, z : x = l * v /\ y = (l - q) * v /\ z = q * v
  OBVIOUS
<1>3. x \in Nat /\ y \in Nat /\ z \in Nat /\ x = y + z
  <2>1. l - q \in Nat
    OBVIOUS
  <2>2. x \in Nat /\ y \in Nat /\ z \in Nat
    BY <1>2, <2>1, Times
  <2> QED
    BY <1>1, <1>2, <2>2
<1>4. x * u = y * u + z * u
  BY <1>3
<1>5. p * q \in Nat /\ p * q <= z
  <2>1. p * q \in Nat /\ p * q <= v * q /\ v * q = q * v
    BY Times
  <2> QED
    BY <1>2, <2>1
<1>6. p * q * u <= z * u /\ p * q * u \in Nat /\ y * u \in Nat /\ z * u \in Nat
  <2>1. PICK w : w = p * q
    OBVIOUS
  <2>2. w \in Nat /\ w <= z
    BY <1>5, <2>1
  <2>3. w * u <= z * u /\ w * u \in Nat /\ y * u \in Nat /\ z * u \in Nat
    BY <1>3, <2>2, Times
  <2> QED
    BY <2>1, <2>3
<1>7. l * v * u = x * u /\ (l - q) * v * u = y * u
  BY <1>2
<1> QED
  <2>1. PICK X, Y, Z, W : X = x * u /\ Y = y * u /\ Z = z * u /\ W = p * q * u
    OBVIOUS
  <2>2. W <= Z /\ W \in Nat /\ Y \in Nat /\ Z \in Nat /\ X = Y + Z
    BY <1>4, <1>6, <2>1
  <2>3. X - Y >= W
    BY <2>2
  <2> QED
    BY <1>7, <2>1, <2>3

LEMMA MoneyTrade ==
    ASSUME TypeOK, OrdersInv, MoneyForm, NEW a \in DOMAIN book, NEW b \in DOMAIN book,
           Engine!Trade(a, b), UNCHANGED <<sent, bankVars, latest, ticket>>
    PROVE  MoneyForm'
<1>1. /\ TypeOK' /\ Grows /\ book[a].side = "ask" /\ book[b].side = "bid"
      /\ UNCHANGED <<sent, taken, money, settled, latest, ticket>>
  BY TradeEffect DEF bankVars
<1>2. PICK p, q : Traded(a, b, p, q)
  BY TradeEffect
<1>3. PICK t : t = [ask |-> a, bid |-> b, price |-> p, qty |-> q]
  OBVIOUS
<1>4. /\ q \in Nat \ {0} /\ q <= book[a].left /\ q <= book[b].left
      /\ p \in Nat /\ book[a].price <= p /\ p <= book[b].price
      /\ tape' = Append(tape, t) /\ DOMAIN book' = DOMAIN book
      /\ \A i \in DOMAIN book :
            /\ book'[i].side = book[i].side /\ book'[i].price = book[i].price
            /\ book'[i].left = book[i].left - (IF i \in {a, b} THEN q ELSE 0)
  BY <1>2, <1>3 DEF Traded
<1>5. t.ask = a /\ t.bid = b /\ t.price = p /\ t.qty = q
  BY <1>3
<1>6. \A c \in Coin : LastID(c)' = LastID(c) /\ OrdersOf(c)' = OrdersOf(c)
  BY <1>1, <1>4 DEF LastID, OrdersOf
<1>7. ASSUME NEW c \in Coin, NEW o \in Owners
      PROVE  /\ FundsOf(sent'[c], taken'[c], o) - PaidOf(Changes(c)', 0, o)
                  >= TicketsOf(sent'[c], LastID(c)', taken'[c], o)
                       + Share(OrdersOf(c)', OrderOwner', OrderCost', o)
             /\ money'[c][o].freeze
                  = FundsOf(sent'[c], taken'[c], o) - PaidOf(Changes(c)', 0, o)
                      + PaidOf(Changes(c)', settled'[c], o)
  <2>1. PICK d, i : d = Debited(c, MadeFrom, t) /\ i = IF c = "quote" THEN b ELSE a
    OBVIOUS
  <2>2. /\ i \in OrdersOf(c) /\ i \in DOMAIN book
        /\ \A j \in OrdersOf(c) \ {i} : j \notin {a, b}
    <3>1. c \in {"base", "quote"}
      BY DEF Coin
    <3> QED
      BY <1>1, <2>1, <3>1 DEF OrdersOf, CoinOf
  <2>3. d.payer = OrderOwner[i] /\ d \in Debit
    <3>1. MadeFrom[a] = RequestOf(a) /\ MadeFrom[b] = RequestOf(b) /\ OrderOwner[i] = RequestOf(i).owner
      BY <2>2 DEF MadeFrom, OrderOwner
    <3>2. RequestOf(a).owner \in Owners /\ RequestOf(b).owner \in Owners
      BY InRequests
    <3>3. p * q * Unit \in Nat /\ q * Unit \in Nat
      <4>1. PICK w, u : w = p * q /\ u = Unit
        OBVIOUS
      <4>2. w \in Nat /\ u \in Nat
        BY <1>4, <4>1, CcomsAssumption, Times
      <4>3. w * u \in Nat /\ q * u \in Nat
        BY <1>4, <4>2, Times
      <4> QED
        BY <4>1, <4>3
    <3> QED
      BY <1>5, <2>1, <3>1, <3>2, <3>3 DEF Debited, Debit
  <2>4. d.amount <= OrderCost[i] - OrderCost'[i]
    <3>1. OrderCost[i] = OpenCost(i) /\ OrderCost'[i] = OpenCost(i)'
      BY <1>4, <2>2 DEF OrderCost
    <3>2. PICK l, v, w, u : /\ l = book[i].left /\ u = Unit
                            /\ v = IF book[i].side = "bid" THEN book[i].price ELSE 1
                            /\ w = IF c = "quote" THEN p ELSE 1
      OBVIOUS
    <3>3. OpenCost(i) = l * v * u
      BY <3>2 DEF OpenCost
    <3>4. OpenCost(i)' = (l - q) * v * u
      <4>1. OpenCost(i)' = book'[i].left * (IF book'[i].side = "bid" THEN book'[i].price ELSE 1) * Unit
        BY DEF OpenCost
      <4>2. /\ book'[i].left = l - q /\ book'[i].side = book[i].side
            /\ book'[i].price = book[i].price
        <5>1. i \in {a, b}
          BY <2>1
        <5> QED
          BY <1>4, <2>2, <3>2, <5>1
      <4> QED
        BY <3>2, <4>1, <4>2
    <3>5. l \in Nat /\ q \in Nat /\ q <= l /\ v \in Nat /\ w \in Nat /\ w <= v /\ u \in Nat
      <4>1. book[i].left \in Nat /\ book[i].price \in Nat
        BY <2>2, InBook
      <4> QED
        BY <1>1, <1>4, <2>1, <3>2, <4>1, CcomsAssumption
    <3>6. d.amount = w * q * u
      <4>1. CASE c = "quote"
        BY <1>5, <2>1, <3>2, <4>1 DEF Debited
      <4>2. CASE c # "quote"
        <5>1. d.amount = q * u /\ w = 1
          BY <1>5, <2>1, <3>2, <4>2 DEF Debited
        <5>2. 1 * q = q
          BY <3>5
        <5> QED
          BY <5>1, <5>2
      <4> QED
        BY <4>1, <4>2
    <3>7. l * v * u - (l - q) * v * u >= w * q * u
      BY <3>5, CostDrop
    <3>8. PICK x, y, z : x = l * v * u /\ y = (l - q) * v * u /\ z = w * q * u
      OBVIOUS
    <3>9. x \in Int /\ y \in Int /\ z \in Int /\ x - y >= z
      <4>1. x \in Int /\ y \in Int /\ z \in Int
        BY <3>5, <3>8
      <4> QED
        BY <3>7, <3>8, <4>1
    <3>10. z <= x - y
      BY <3>9
    <3> QED
      BY <3>1, <3>3, <3>4, <3>6, <3>8, <3>10
  <2>5. PICK x : x = IF d.payer = o THEN d.amount ELSE 0
    OBVIOUS
  <2>6. x \in Nat
    BY <2>3, <2>5 DEF Debit
  <2>7. Changes(c)' = Append(Changes(c), d)
    BY <1>1, <1>4, <1>5, <2>1, ChangesNext
  <2>8. /\ PaidOf(Changes(c)', 0, o) = PaidOf(Changes(c), 0, o) + x
        /\ PaidOf(Changes(c)', settled[c], o) = PaidOf(Changes(c), settled[c], o) + x
    <3>1. PICK h, m : h = Changes(c) /\ m = settled[c]
      OBVIOUS
    <3>2. h \in Seq(Debit) /\ m \in Nat /\ m <= Len(h) /\ 0 \in Nat /\ 0 <= Len(h) /\ d \in Debit
      BY <2>3, <3>1, ChangesType, Shapes
    <3>3. /\ PaidOf(Append(h, d), 0, o) = PaidOf(h, 0, o) + (IF d.payer = o THEN d.amount ELSE 0)
          /\ PaidOf(Append(h, d), m, o) = PaidOf(h, m, o) + (IF d.payer = o THEN d.amount ELSE 0)
      BY <3>2, PaidNext
    <3> QED
      BY <2>5, <2>7, <3>1, <3>3
  <2>9. PICK y : y = IF OrderOwner[i] = o THEN OrderCost[i] - OrderCost'[i] ELSE 0
    OBVIOUS
  <2>10. /\ Share(OrdersOf(c)', OrderOwner', OrderCost', o) + y
             = Share(OrdersOf(c), OrderOwner, OrderCost, o)
         /\ y \in Int /\ Share(OrdersOf(c)', OrderOwner', OrderCost', o) \in Int
    <3>1. PICK S, w, f, v, g : /\ S = OrdersOf(c) /\ w = OrderOwner /\ f = OrderCost
                               /\ v = OrderOwner' /\ g = OrderCost'
      OBVIOUS
    <3>2. IsFiniteSet(S) /\ i \in S /\ \A j \in S : f[j] \in Nat
      BY <2>2, <3>1, OrderCosts
    <3>3. \A j \in S : g[j] \in Nat
      BY <1>1, <1>6, <3>1, OrderCostsNext DEF CostForm
    <3>4. \A j \in S : v[j] = w[j]
      <4>1. \A j \in S : j \in DOMAIN book /\ j \in DOMAIN book'
        BY <1>4, <3>1 DEF OrdersOf
      <4>2. \A j \in S : RequestOf(j)' = RequestOf(j)
        BY <1>1, <4>1, RequestKept
      <4> QED
        BY <3>1, <4>1, <4>2 DEF OrderOwner
    <3>5. \A j \in S \ {i} : g[j] = f[j]
      <4>1. \A j \in S \ {i} : j \in DOMAIN book /\ j \in DOMAIN book' /\ j \notin {a, b}
        BY <1>4, <2>2, <3>1 DEF OrdersOf
      <4>2. \A j \in S \ {i} : book'[j].left = book[j].left
        <5>1. \A j \in DOMAIN book : book[j].left \in Nat
          BY InBook
        <5> QED
          BY <1>4, <4>1, <5>1
      <4>3. \A j \in S \ {i} : OpenCost(j)' = OpenCost(j)
        BY <1>4, <4>1, <4>2 DEF OpenCost
      <4> QED
        BY <3>1, <4>1, <4>3 DEF OrderCost
    <3>6. Share(S, v, g, o) = Share(S, w, g, o)
      BY <3>4, ShareSame
    <3>7. Share(S, w, g, o) = Share(S, w, f, o) + (IF w[i] = o THEN g[i] - f[i] ELSE 0)
      <4>1. \A j \in S : f[j] \in Int /\ g[j] \in Int
        BY <3>2, <3>3
      <4>2. IsFiniteSet(S) /\ i \in S
        BY <3>2
      <4>3. /\ Share(S, w, f, o) = Share(S \ {i}, w, f, o) + (IF w[i] = o THEN f[i] ELSE 0)
            /\ Share(S \ {i}, w, f, o) \in Int
        BY <4>1, <4>2, ShareLess
      <4>4. Share(S, w, g, o) = Share(S \ {i}, w, g, o) + (IF w[i] = o THEN g[i] ELSE 0)
        BY <4>1, <4>2, ShareLess
      <4>5. Share(S \ {i}, w, g, o) = Share(S \ {i}, w, f, o)
        BY <3>5, ShareSame
      <4>6. PICK k, l, m : k = Share(S \ {i}, w, f, o) /\ l = f[i] /\ m = g[i]
        OBVIOUS
      <4>7. k \in Int /\ l \in Int /\ m \in Int
        BY <4>1, <4>2, <4>3, <4>6
      <4> QED
        BY <4>3, <4>4, <4>5, <4>6, <4>7
    <3>8. Share(S, w, f, o) \in Nat /\ f[i] \in Nat /\ g[i] \in Nat
      BY <3>2, <3>3, ShareNat
    <3>9. PICK k, l, m, n : k = Share(S, w, f, o) /\ l = f[i] /\ m = g[i] /\ n = Share(S, w, g, o)
      OBVIOUS
    <3>10. y = IF w[i] = o THEN l - m ELSE 0
      BY <2>9, <3>1, <3>9
    <3>11. n = k + (IF w[i] = o THEN m - l ELSE 0) /\ k \in Nat /\ l \in Nat /\ m \in Nat
      BY <3>7, <3>8, <3>9
    <3>12. n + y = k /\ y \in Int /\ n \in Int
      BY <3>10, <3>11
    <3> QED
      BY <1>6, <3>1, <3>6, <3>9, <3>12
  <2>11. x <= y
    <3>1. CASE d.payer = o
      BY <2>3, <2>4, <2>5, <2>9, <3>1
    <3>2. CASE d.payer # o
      BY <2>3, <2>5, <2>9, <3>2
    <3> QED
      BY <3>1, <3>2
  <2>12. /\ FundsOf(sent'[c], taken[c], o) = FundsOf(sent[c], taken[c], o)
         /\ TicketsOf(sent'[c], LastID(c), taken[c], o) = TicketsOf(sent[c], LastID(c), taken[c], o)
    BY <1>1
  <2>13. PICK F, P, U, T, S, R, z : /\ F = FundsOf(sent[c], taken[c], o)
                                    /\ P = PaidOf(Changes(c), 0, o)
                                    /\ U = PaidOf(Changes(c), settled[c], o)
                                    /\ T = TicketsOf(sent[c], LastID(c), taken[c], o)
                                    /\ S = Share(OrdersOf(c), OrderOwner, OrderCost, o)
                                    /\ R = Share(OrdersOf(c)', OrderOwner', OrderCost', o)
                                    /\ z = money[c][o].freeze
    OBVIOUS
  <2>14. /\ F \in Int /\ P \in Int /\ U \in Int /\ T \in Int /\ S \in Int /\ z \in Int
         /\ F - P >= T + S /\ z = F - P + U
    BY <2>13, MoneyTypes DEF MoneyForm
  <2>15. R \in Int /\ y \in Int /\ R + y = S
    BY <2>10, <2>13
  <2>16. /\ FundsOf(sent'[c], taken'[c], o) = F
         /\ TicketsOf(sent'[c], LastID(c)', taken'[c], o) = T
         /\ PaidOf(Changes(c)', 0, o) = P + x
         /\ PaidOf(Changes(c)', settled'[c], o) = U + x
         /\ money'[c][o].freeze = z
    BY <1>1, <1>6, <2>8, <2>12, <2>13
  <2>17. F - (P + x) >= T + R /\ z = F - (P + x) + (U + x)
    BY <2>6, <2>11, <2>14, <2>15
  <2> QED
    BY <2>13, <2>16, <2>17
<1> QED
  BY <1>7 DEF MoneyForm

-----------------------------------------------------------------------------
(* The invariant. *)

LEMMA SystemInit == Init => TypeOK /\ SystemInv
<1> SUFFICES ASSUME Init PROVE TypeOK /\ SystemInv
  OBVIOUS
<1>1. /\ sent = [c \in Coin |-> <<>>] /\ taken = [c \in Coin |-> 0]
      /\ money = [c \in Coin |-> [o \in Owners |-> [free |-> Deposit, freeze |-> 0]]]
      /\ settled = [c \in Coin |-> 0] /\ latest = [s \in Side |-> 0]
      /\ ticket = <<>> /\ book = <<>> /\ tape = <<>>
  BY DEF Init, Engine!Init
<1>2. TypeOK
  <2>1. \A c \in Coin : Len(sent[c]) = 0 /\ taken[c] = 0 /\ settled[c] = 0
    BY <1>1
  <2>2. sent \in [Coin -> Seq(Requests)] /\ \A c \in Coin : taken[c] <= Len(sent[c])
    BY <1>1, <2>1
  <2>3. money \in [Coin -> [Owners -> [free : Int, freeze : Nat]]]
    BY <1>1, CcomsAssumption
  <2>4. \A s \in Side : latest[s] <= taken[CoinOf(s)]
    BY <1>1, Coins
  <2> QED
    BY <1>1, <2>1, <2>2, <2>3, <2>4 DEF TypeOK
<1>3. RoutedInv /\ OrdersInv /\ TradesInv
  BY <1>1 DEF RoutedInv, OrdersInv, TradesInv
<1>4. MoneyForm
  <2> SUFFICES ASSUME NEW c \in Coin, NEW o \in Owners
               PROVE  /\ FundsOf(sent[c], taken[c], o) = 0 /\ PaidOf(Changes(c), 0, o) = 0
                      /\ TicketsOf(sent[c], LastID(c), taken[c], o) = 0
                      /\ Share(OrdersOf(c), OrderOwner, OrderCost, o) = 0
                      /\ money[c][o].freeze = 0 /\ PaidOf(Changes(c), settled[c], o) = 0
    BY DEF MoneyForm
  <2>1. sent[c] = <<>> /\ taken[c] = 0 /\ settled[c] = 0 /\ LastID(c) = 0 /\ money[c][o].freeze = 0
    BY <1>1 DEF LastID, Side
  <2>2. Len(Changes(c)) = 0
    BY <1>1, <1>2, <1>3, ChangesType
  <2>3. PaidOf(Changes(c), 0, o) = 0
    BY <2>2, StretchNone DEF PaidOf
  <2>4. FundsOf(sent[c], 0, o) = 0 /\ TicketsOf(sent[c], 0, 0, o) = 0
    BY StretchNone DEF FundsOf, TicketsOf
  <2>5. OrdersOf(c) = {}
    BY <1>1 DEF OrdersOf
  <2>6. Share({}, OrderOwner, OrderCost, o) = 0
    BY ShareNone
  <2> QED
    BY <2>1, <2>3, <2>4, <2>5, <2>6
<1> QED
  BY <1>2, <1>3, <1>4, MoneyIs DEF SystemInv

LEMMA TypeStep ==
    ASSUME TypeOK, RoutedInv, OrdersInv, MoneyInv, [Next]_vars PROVE TypeOK'
<1>1. CASE UNCHANGED vars
  BY <1>1 DEF vars, bankVars, engineVars, TypeOK
<1>2. ASSUME NEW a \in DOMAIN book, NEW b \in DOMAIN book, Engine!Trade(a, b),
             UNCHANGED <<sent, bankVars, latest, ticket>>
      PROVE  TypeOK'
  BY <1>2, TradeEffect
<1> QED
  BY <1>1, <1>2, SendOrderReqEffect, CreateOrderEffect, TicketEffect, BalanceChangedEffect
     DEF Next, TryMatch

LEMMA MoneyStep ==
    ASSUME TypeOK, RoutedInv, OrdersInv, MoneyInv, [Next]_vars PROVE MoneyForm'
<1>1. MoneyForm
  BY MoneyIs
<1>2. CASE UNCHANGED vars
  <2>1. TypeOK' /\ Grows /\ UNCHANGED <<sent, taken, money, settled, latest, ticket, book, tape>>
    BY <1>2, TypeStep DEF vars, bankVars, engineVars, Grows
  <2>2. \A c \in Coin : LastID(c)' = LastID(c)
    BY <2>1 DEF LastID
  <2>3. \A c \in Coin, o \in Owners :
          Share(OrdersOf(c)', OrderOwner', OrderCost', o)
            = Share(OrdersOf(c), OrderOwner, OrderCost, o)
    BY <2>1, OrdersShareKept
  <2> QED
    BY <1>1, <2>1, <2>2, <2>3, CoinKept DEF MoneyForm
<1>3. ASSUME NEW a \in DOMAIN book, NEW b \in DOMAIN book, Engine!Trade(a, b),
             UNCHANGED <<sent, bankVars, latest, ticket>>
      PROVE  MoneyForm'
  BY <1>1, <1>3, MoneyTrade
<1> QED
  BY <1>1, <1>2, <1>3, MoneySend, MoneyCreate, MoneyTicket, MoneySettle DEF Next, TryMatch

LEMMA SystemStep == TypeOK /\ SystemInv /\ [Next]_vars => (TypeOK /\ SystemInv)'
<1>1. TypeOK /\ SystemInv /\ [Next]_vars
        => TypeOK' /\ RoutedInv' /\ OrdersInv' /\ TradesInv' /\ MoneyForm'
  BY TypeStep, RoutedStep, OrdersStep, TradesStep, MoneyStep DEF SystemInv
<1>2. TypeOK' /\ OrdersInv' => (MoneyInv' <=> MoneyForm')
  BY MoneyIs, PTL
<1> QED
  BY <1>1, <1>2 DEF SystemInv

LEMMA SystemCorrect == Spec => [](TypeOK /\ SystemInv)
BY SystemInit, SystemStep, PTL DEF Spec

(* Every variable keeps its shape and nobody is ahead of the one it reads from,
   whatever is ordered: no balance that is frozen goes below nothing. *)
THEOREM TypeCorrect == Spec => []TypeOK
BY SystemCorrect, PTL

(* The invariant, for every set of users and requests: the streams are sorted by
   coin (dispatchBank), an order is one ticket of the right bank (CreateOrder,
   PullTickets), its trades add up to what it was filled (TryMatch), and what its
   owner has frozen is what it may still cost and what is not settled yet. *)
THEOREM SystemInvariant == Spec => []SystemInv
BY SystemCorrect, PTL

(* Whatever the engine does next is frozen at the bank that pays for it. *)
LEMMA OwedIs ==
    ASSUME TypeOK, OrdersInv, NEW c \in Coin, NEW o
    PROVE  Owed(c, o) = OpenTickets(c, o) + OpenOrders(c, o) + Unsettled(c, o)
<1>1. {m \in 1 .. taken[c] : sent[c][m].owner = o /\ m > LastID(c)}
        = {m \in LastID(c) + 1 .. taken[c] : sent[c][m].owner = o}
  <2>1. LastID(c) \in Nat /\ taken[c] \in Nat
    BY Shapes
  <2>2. \A m : (m \in 1 .. taken[c] /\ m > LastID(c)) <=> m \in LastID(c) + 1 .. taken[c]
    BY <2>1
  <2> QED
    BY <2>2
<1>2. \A k \in settled[c] + 1 .. Len(tape) : Changes(c)[k] = Change(c, tape[k])
  <2>1. settled[c] \in Nat /\ Len(tape) \in Nat
    BY Shapes
  <2>2. \A k \in settled[c] + 1 .. Len(tape) : k \in 1 .. Len(tape)
    BY <2>1
  <2> QED
    BY <2>2, ChangesType
<1>3. {j \in settled[c] + 1 .. Len(tape) : Change(c, tape[j]).payer = o}
        = {j \in settled[c] + 1 .. Len(tape) : Changes(c)[j].payer = o}
  BY <1>2
<1>4. [k \in {j \in settled[c] + 1 .. Len(tape) : Change(c, tape[j]).payer = o}
           |-> Change(c, tape[k]).amount]
        = [k \in {j \in settled[c] + 1 .. Len(tape) : Changes(c)[j].payer = o}
             |-> Changes(c)[k].amount]
  <2>1. \A k \in {j \in settled[c] + 1 .. Len(tape) : Changes(c)[j].payer = o} :
            Change(c, tape[k]).amount = Changes(c)[k].amount
    BY <1>2
  <2> QED
    BY <1>3, <2>1
<1> QED
  BY <1>1, <1>4 DEF Owed, OpenTickets, OpenOrders, Unsettled

(* At both banks, tickets under way, open orders and unsettled trades are covered
   by what is frozen, in every state: no settlement can fail for want of it. *)
THEOREM FrozenCoversCorrect == Spec => []FrozenCovers
<1>1. TypeOK /\ SystemInv => FrozenCovers
  BY FreezeCovers, OwedIs DEF FrozenCovers, SystemInv
<1> QED
  BY <1>1, SystemCorrect, PTL

(* Every trade honours the two requests behind it, through the stream, the ticket
   and the order: side, limit price and quantity, and no request is traded as two
   orders. *)
THEOREM TradesHonourRequestsCorrect == Spec => []TradesHonourRequests
<1>1. TypeOK /\ SystemInv => TradesHonourRequests
  <2> SUFFICES ASSUME TypeOK, SystemInv PROVE TradesHonourRequests
    OBVIOUS
  <2>1. OrdersInv /\ TradesInv
    BY DEF SystemInv
  <2>2. ASSUME NEW k \in DOMAIN tape
        PROVE  /\ RequestOf(tape[k].ask).side = "ask" /\ RequestOf(tape[k].bid).side = "bid"
               /\ RequestOf(tape[k].ask).price <= tape[k].price
               /\ tape[k].price <= RequestOf(tape[k].bid).price
    <3>1. k \in 1 .. Len(tape)
      BY InSeq DEF TypeOK
    <3>2. tape[k].ask \in DOMAIN book /\ tape[k].bid \in DOMAIN book
      BY <3>1, InTape
    <3>3. /\ RequestOf(tape[k].ask).side = book[tape[k].ask].side
          /\ RequestOf(tape[k].ask).price = book[tape[k].ask].price
          /\ RequestOf(tape[k].bid).side = book[tape[k].bid].side
          /\ RequestOf(tape[k].bid).price = book[tape[k].bid].price
      BY <2>1, <3>2 DEF OrdersInv
    <3> QED
      BY <2>1, <3>3 DEF TradesInv
  <2>3. \A i \in DOMAIN book :
          SumFunction([k \in TradesOf(i) |-> tape[k].qty]) + book[i].left = RequestOf(i).qty
    BY <2>1 DEF TradesInv
  <2>4. \A i, j \in DOMAIN book :
          book[i].side = book[j].side /\ ticket[i] = ticket[j] => i = j
    BY <2>1 DEF OrdersInv
  <2> QED
    BY <2>2, <2>3, <2>4 DEF TradesHonourRequests
<1> QED
  BY <1>1, SystemCorrect, PTL

-----------------------------------------------------------------------------
(* Each bank is a Ledger: what that says of the bank of a coin. *)

Spare(c, o) ==
    SumFunction([i \in {j \in 1 .. taken[c] : Charges(c)[j].owner = o} |-> Charges(c)[i].total])
        - SumFunction([k \in {j \in DOMAIN Changes(c) : Changes(c)[j].payer = o}
                           |-> Changes(c)[k].amount])

Publishes(c, r) ==
    /\ Charges(c)' = Append(Charges(c), r)
    /\ UNCHANGED <<Changes(c), taken[c], settled[c], money[c]>>

Fills(c, payer, payee) ==
    /\ \E amount \in 1 .. Spare(c, payer) :
        Changes(c)' = Append(Changes(c), [payer |-> payer, payee |-> payee, amount |-> amount])
    /\ UNCHANGED <<Charges(c), taken[c], settled[c], money[c]>>

Takes(c) ==
    /\ taken[c] < Len(Charges(c))
    /\ taken[c]' = taken[c] + 1
    /\ LET r == Charges(c)[taken[c] + 1]
       IN  money[c]' = [money[c] EXCEPT ![r.owner].free = @ - r.total,
                                        ![r.owner].freeze = @ + r.total]
    /\ UNCHANGED <<Charges(c), Changes(c), settled[c]>>

Settles(c) ==
    /\ settled[c] < Len(Changes(c))
    /\ settled[c]' = settled[c] + 1
    /\ LET t == Changes(c)[settled[c] + 1]
       IN  /\ money[c][t.payer].freeze >= t.amount
           /\ money[c]' = [money[c] EXCEPT ![t.payer].freeze = @ - t.amount,
                                           ![t.payee].free = @ + t.amount]
    /\ UNCHANGED <<Charges(c), Changes(c), taken[c]>>

Rests(c) == UNCHANGED <<Charges(c), Changes(c), taken[c], settled[c], money[c]>>

LedgerStep(c) ==
    \/ \E r \in ChargesOf : Publishes(c, r)
    \/ \E o, p \in Owners : Fills(c, o, p)
    \/ Takes(c)
    \/ Settles(c)
    \/ Rests(c)

LEMMA ChargesShape ==
    ASSUME TypeOK, NEW c \in Coin
    PROVE  /\ Charges(c) = [n \in 1 .. Len(sent[c]) |->
                              [owner |-> sent[c][n].owner, total |-> Total(sent[c][n])]]
           /\ Len(Charges(c)) = Len(sent[c]) /\ Charges(c) \in Seq(ChargesOf)
<1>1. sent[c] \in Seq(Requests) /\ Len(sent[c]) \in Nat
  BY Shapes
<1>2. DOMAIN sent[c] = 1 .. Len(sent[c]) /\ \A n \in 1 .. Len(sent[c]) : sent[c][n] \in Requests
  BY <1>1, InSeq
<1>3. \A n \in 1 .. Len(sent[c]) :
        [owner |-> sent[c][n].owner, total |-> Total(sent[c][n])] \in ChargesOf
  BY <1>2 DEF ChargesOf
<1>4. Charges(c) = [n \in 1 .. Len(sent[c]) |->
                      [owner |-> sent[c][n].owner, total |-> Total(sent[c][n])]]
  BY <1>2 DEF Charges
<1> QED
  BY <1>1, <1>3, <1>4

LEMMA SpareIs ==
    ASSUME TypeOK, OrdersInv, NEW c \in Coin, NEW o
    PROVE  Spare(c, o) = Funds(c, o) - Spent(c, o)
<1>1. taken[c] \in Nat /\ taken[c] <= Len(sent[c]) /\ Len(sent[c]) \in Nat
  BY Shapes
<1>2. \A j \in 1 .. taken[c] :
        Charges(c)[j].owner = sent[c][j].owner /\ Charges(c)[j].total = Total(sent[c][j])
  <2>1. \A j \in 1 .. taken[c] : j \in 1 .. Len(sent[c])
    BY <1>1
  <2> QED
    BY <2>1, ChargesShape
<1>3. {j \in 1 .. taken[c] : Charges(c)[j].owner = o} = {j \in 1 .. taken[c] : sent[c][j].owner = o}
  BY <1>2
<1>4. [i \in {j \in 1 .. taken[c] : Charges(c)[j].owner = o} |-> Charges(c)[i].total]
        = [i \in {j \in 1 .. taken[c] : sent[c][j].owner = o} |-> Total(sent[c][i])]
  <2>1. \A i \in {j \in 1 .. taken[c] : sent[c][j].owner = o} :
            Charges(c)[i].total = Total(sent[c][i])
    BY <1>2
  <2> QED
    BY <1>3, <2>1
<1>5. DOMAIN Changes(c) = DOMAIN tape
  BY ChangesType
<1> QED
  BY <1>4, <1>5 DEF Spare, Funds, Spent

LEMMA AppendShape ==
    ASSUME NEW X, NEW h \in Seq(X), NEW e \in X
    PROVE  /\ Append(h, e) = [k \in 1 .. Len(h) + 1 |-> Append(h, e)[k]]
           /\ Append(h, e)[Len(h) + 1] = e
           /\ \A k \in 1 .. Len(h) : Append(h, e)[k] = h[k]
<1>1. PICK f : f = Append(h, e)
  OBVIOUS
<1>2. f \in Seq(X) /\ Len(f) = Len(h) + 1
  BY <1>1
<1>3. f = [k \in 1 .. Len(f) |-> f[k]]
  BY <1>2
<1>4. f[Len(h) + 1] = e /\ \A k \in 1 .. Len(h) : f[k] = h[k]
  BY <1>1
<1> QED
  BY <1>1, <1>2, <1>3, <1>4

LEMMA PublishStep ==
    ASSUME TypeOK, OrdersInv, NEW c \in Coin, NEW r \in Requests, SendOrderReq(r)
    PROVE  LedgerStep(c)
<1>1. /\ TypeOK' /\ Grows /\ UNCHANGED <<taken, money, settled, latest, ticket, book, tape>>
      /\ CoinOf(r.side) = c => sent'[c] = Append(sent[c], r)
      /\ CoinOf(r.side) # c => sent'[c] = sent[c]
  BY SendOrderReqEffect DEF SendOrderReq, bankVars, engineVars
<1>2. Changes(c)' = Changes(c)
  BY <1>1, ChangesKept
<1>3. CASE CoinOf(r.side) = c
  <2>1. PICK e : e = [owner |-> r.owner, total |-> Total(r)]
    OBVIOUS
  <2>2. e \in ChargesOf
    BY <2>1 DEF ChargesOf
  <2>3. Charges(c)' = Append(Charges(c), e)
    <3>1. PICK q, n : q = sent[c] /\ n = Len(sent[c])
      OBVIOUS
    <3>2. /\ q \in Seq(Requests) /\ n \in Nat /\ n = Len(q) /\ sent'[c] = Append(q, r)
      BY <1>1, <1>3, <3>1, Shapes
    <3>3. /\ DOMAIN sent'[c] = 1 .. n + 1 /\ sent'[c][n + 1] = r
          /\ \A k \in 1 .. n : sent'[c][k] = q[k]
      BY <3>2
    <3>4. /\ Charges(c)' = [k \in 1 .. n + 1 |->
                              [owner |-> sent'[c][k].owner, total |-> Total(sent'[c][k])]]
      BY <3>3 DEF Charges, Total, Value
    <3>5. PICK h, g : h = Charges(c) /\ g = Charges(c)'
      OBVIOUS
    <3>6. /\ h = [k \in 1 .. n |-> [owner |-> q[k].owner, total |-> Total(q[k])]]
          /\ h \in Seq(ChargesOf) /\ Len(h) = n
      BY <3>1, <3>5, ChargesShape
    <3>7. PICK f : f = Append(h, e)
      OBVIOUS
    <3>8. /\ f = [k \in 1 .. n + 1 |-> f[k]] /\ f[n + 1] = e /\ \A k \in 1 .. n : f[k] = h[k]
      <4>1. h \in Seq(ChargesOf) /\ Len(h) = n
        BY <3>6
      <4> HIDE <3>6
      <4> QED
        BY <2>2, <3>7, <4>1, AppendShape
    <3>9. \A k \in 1 .. n + 1 : [owner |-> sent'[c][k].owner, total |-> Total(sent'[c][k])] = f[k]
      <4>1. \A k \in 1 .. n + 1 : k \in 1 .. n \/ k = n + 1
        BY <3>2
      <4>2. \A k \in 1 .. n : f[k] = [owner |-> q[k].owner, total |-> Total(q[k])]
        BY <3>6, <3>8
      <4> QED
        BY <2>1, <3>3, <3>8, <4>1, <4>2
    <3>10. g = f
      BY <3>4, <3>5, <3>8, <3>9
    <3> QED
      BY <3>5, <3>7, <3>10
  <2>4. Publishes(c, e)
    BY <1>1, <1>2, <2>3 DEF Publishes
  <2> QED
    BY <2>2, <2>4 DEF LedgerStep
<1>4. CASE CoinOf(r.side) # c
  <2>1. Charges(c)' = Charges(c)
    BY <1>1, <1>4 DEF Charges, Total, Value
  <2> QED
    BY <1>1, <1>2, <2>1 DEF LedgerStep, Rests
<1> QED
  BY <1>3, <1>4

LEMMA TakeStep ==
    ASSUME TypeOK, OrdersInv, NEW c \in Coin, NEW d \in Coin, CreateOrder(d)
    PROVE  LedgerStep(c)
<1>1. PICK n, r : n = taken[d] /\ r = sent[d][n + 1]
  OBVIOUS
<1>2. /\ TypeOK' /\ Grows /\ UNCHANGED <<sent, settled, latest, ticket, book, tape>>
      /\ n < Len(sent[d]) /\ r \in Requests
      /\ taken'[d] = n + 1 /\ \A e \in Coin \ {d} : taken'[e] = taken[e]
      /\ money' = [money EXCEPT ![d] = Charged(money[d], r.owner, Total(r))]
  BY <1>1, CreateOrderEffect DEF CreateOrder, engineVars
<1>3. /\ money'[d] = Charged(money[d], r.owner, Total(r))
      /\ \A e \in Coin \ {d} : money'[e] = money[e]
  BY <1>2, TypeParts
<1>4. Changes(c)' = Changes(c) /\ Charges(c)' = Charges(c)
  <2>1. Changes(c)' = Changes(c)
    BY <1>2, ChangesKept
  <2>2. Charges(c)' = Charges(c)
    BY <1>2 DEF Charges, Total, Value
  <2> QED
    BY <2>1, <2>2
<1>5. CASE c = d
  <2>1. /\ n < Len(Charges(c))
        /\ Charges(c)[n + 1].owner = r.owner /\ Charges(c)[n + 1].total = Total(r)
    <3>1. n \in Nat /\ Len(sent[c]) \in Nat
      BY <1>1, <1>5, Shapes
    <3>2. n + 1 \in 1 .. Len(sent[c])
      BY <1>2, <1>5, <3>1
    <3> QED
      BY <1>1, <1>2, <1>5, <3>2, ChargesShape
  <2>2. Takes(c)
    BY <1>1, <1>2, <1>3, <1>4, <1>5, <2>1 DEF Takes, Charged
  <2> QED
    BY <2>2 DEF LedgerStep
<1>6. CASE c # d
  BY <1>2, <1>3, <1>4, <1>6 DEF LedgerStep, Rests
<1> QED
  BY <1>5, <1>6

LEMMA SettleStep ==
    ASSUME TypeOK, OrdersInv, MoneyInv, NEW c \in Coin, NEW e \in Coin, BalanceChanged(e)
    PROVE  LedgerStep(c)
<1>1. PICK d, n : n = settled[e] /\ d = Changes(e)[n + 1]
  OBVIOUS
<1>2. /\ TypeOK' /\ Grows /\ UNCHANGED <<sent, taken, latest, ticket, book, tape>>
      /\ n < Len(tape) /\ settled'[e] = n + 1
      /\ \A x \in Coin \ {e} : settled'[x] = settled[x]
      /\ d \in Debit /\ d.amount <= money[e][d.payer].freeze
      /\ money' = [money EXCEPT ![e] = Transferred(money[e], d.payer, d.payee, d.amount)]
  BY <1>1, BalanceChangedEffect
<1>3. /\ money'[e] = Transferred(money[e], d.payer, d.payee, d.amount)
      /\ \A x \in Coin \ {e} : money'[x] = money[x]
  BY <1>2, TypeParts
<1>4. Changes(c)' = Changes(c) /\ Charges(c)' = Charges(c)
  <2>1. Changes(c)' = Changes(c)
    BY <1>2, ChangesKept
  <2>2. Charges(c)' = Charges(c)
    BY <1>2 DEF Charges, Total, Value
  <2> QED
    BY <2>1, <2>2
<1>5. CASE c = e
  <2>1. n < Len(Changes(c))
    BY <1>2, ChangesType
  <2>2. money[c][d.payer].freeze >= d.amount
    <3>1. d.amount \in Nat /\ d.payer \in Owners /\ money[e][d.payer].freeze \in Nat
      BY <1>2, TypeParts DEF Debit, Balance
    <3> QED
      BY <1>2, <1>5, <3>1
  <2>3. Settles(c)
    BY <1>1, <1>2, <1>3, <1>4, <1>5, <2>1, <2>2 DEF Settles, Transferred
  <2> QED
    BY <2>3 DEF LedgerStep
<1>6. CASE c # e
  BY <1>2, <1>3, <1>4, <1>6 DEF LedgerStep, Rests
<1> QED
  BY <1>5, <1>6

LEMMA FillStep ==
    ASSUME TypeOK, OrdersInv, MoneyInv, OrdersInv', MoneyInv', NEW c \in Coin,
           NEW a \in DOMAIN book, NEW b \in DOMAIN book,
           Engine!Trade(a, b), UNCHANGED <<sent, bankVars, latest, ticket>>
    PROVE  LedgerStep(c)
<1>1. /\ TypeOK' /\ Grows /\ UNCHANGED <<sent, taken, money, settled, latest, ticket>>
  BY TradeEffect DEF bankVars
<1>2. PICK p, q : Traded(a, b, p, q)
  BY TradeEffect
<1>3. PICK t : t = [ask |-> a, bid |-> b, price |-> p, qty |-> q]
  OBVIOUS
<1>4. /\ q \in Nat \ {0} /\ p \in Nat /\ book[a].price <= p /\ tape' = Append(tape, t)
      /\ t.ask = a /\ t.bid = b /\ t.price = p /\ t.qty = q
  BY <1>2, <1>3 DEF Traded
<1>5. PICK R, d : R = MadeFrom /\ d = Debited(c, R, t)
  OBVIOUS
<1>6. Changes(c)' = Append(Changes(c), d)
  BY <1>1, <1>4, <1>5, ChangesNext
<1>7. Charges(c)' = Charges(c)
  BY <1>1 DEF Charges, Total, Value
<1>8. R[a].owner \in Owners /\ R[b].owner \in Owners
  <2>1. R[a] = RequestOf(a) /\ R[b] = RequestOf(b)
    BY <1>5 DEF MadeFrom
  <2> QED
    BY <2>1, InRequests
<1>9. p * q * Unit \in Nat \ {0} /\ q * Unit \in Nat \ {0}
  <2>1. p \in Nat \ {0}
    <3>1. book[a].price \in Nat \ {0}
      BY InRequests
    <3> QED
      BY <1>4, <3>1
  <2>2. PICK w, u : w = p * q /\ u = Unit
    OBVIOUS
  <2>3. w \in Nat \ {0} /\ u \in Nat \ {0}
    BY <1>4, <2>1, <2>2, CcomsAssumption, Times
  <2>4. w * u \in Nat \ {0} /\ q * u \in Nat \ {0}
    BY <1>4, <2>3, Times
  <2> QED
    BY <2>2, <2>4
<1>10. PICK o, e, x : /\ d = [payer |-> o, payee |-> e, amount |-> x]
                      /\ o \in Owners /\ e \in Owners /\ x \in Nat \ {0}
  BY <1>4, <1>5, <1>8, <1>9 DEF Debited
<1>11. x \in 1 .. Spare(c, o)
  <2>1. PICK h : h = Changes(c)
    OBVIOUS
  <2>2. h \in Seq(Debit) /\ d \in Debit /\ d.payer = o /\ d.amount = x
    BY <1>10, <2>1, ChangesType DEF Debit
  <2>3. PaidOf(Append(h, d), 0, o) = PaidOf(h, 0, o) + x
    <3>1. 0 \in Nat /\ 0 <= Len(h)
      BY <2>2, InSeq
    <3>2. PaidOf(Append(h, d), 0, o) = PaidOf(h, 0, o) + (IF d.payer = o THEN d.amount ELSE 0)
      BY <2>2, <3>1, PaidNext
    <3> QED
      BY <2>2, <3>2
  <2>4. MoneyForm' /\ CostForm'
    <3>1. TypeOK' /\ OrdersInv' => (MoneyInv' <=> MoneyForm')
      BY MoneyIs, PTL
    <3> QED
      BY <1>1, <3>1, OrderCostsNext
  <2>5. FundsOf(sent[c], taken[c], o) - PaidOf(Append(h, d), 0, o) >= 0
    <3>1. /\ FundsOf(sent'[c], taken'[c], o) - PaidOf(Changes(c)', 0, o)
               >= TicketsOf(sent'[c], LastID(c)', taken'[c], o)
                    + Share(OrdersOf(c)', OrderOwner', OrderCost', o)
      BY <1>10, <2>4 DEF MoneyForm
    <3>2. LastID(c)' = LastID(c)
      BY <1>1 DEF LastID
    <3>3. PICK F, P, T, S : /\ F = FundsOf(sent[c], taken[c], o) /\ P = PaidOf(Append(h, d), 0, o)
                            /\ T = TicketsOf(sent[c], LastID(c), taken[c], o)
                            /\ S = Share(OrdersOf(c)', OrderOwner', OrderCost', o)
      OBVIOUS
    <3>4. F - P >= T + S
      BY <1>1, <1>6, <2>1, <3>1, <3>2, <3>3
    <3>5. F \in Nat /\ T \in Nat
      BY <3>3, Shapes, FundsNat, TicketsNat
    <3>6. S \in Nat
      <4>1. PICK A, w, f : A = OrdersOf(c)' /\ w = OrderOwner' /\ f = OrderCost'
        OBVIOUS
      <4>2. IsFiniteSet(A) /\ \A i \in A : f[i] \in Nat
        BY <2>4, <4>1 DEF CostForm
      <4>3. Share(A, w, f, o) \in Nat
        BY <4>2, ShareNat
      <4> QED
        BY <3>3, <4>1, <4>3
    <3>7. P \in Int
      <4>1. PaidOf(h, 0, o) \in Nat
        BY <2>2, PaidNat
      <4> QED
        BY <1>10, <2>3, <3>3, <4>1
    <3>8. F - P >= 0
      BY <3>4, <3>5, <3>6, <3>7
    <3> QED
      BY <3>3, <3>8
  <2>6. Spare(c, o) = FundsOf(sent[c], taken[c], o) - PaidOf(h, 0, o)
    BY <2>1, SpareIs, FundsAre, PaymentsAre
  <2>7. PICK F, P : F = FundsOf(sent[c], taken[c], o) /\ P = PaidOf(h, 0, o)
    OBVIOUS
  <2>8. F \in Nat /\ P \in Nat
    BY <2>2, <2>7, Shapes, FundsNat, PaidNat
  <2>9. F - (P + x) >= 0 /\ Spare(c, o) = F - P
    BY <2>3, <2>5, <2>6, <2>7
  <2> QED
    BY <1>10, <2>8, <2>9
<1>12. Fills(c, o, e)
  BY <1>1, <1>6, <1>7, <1>10, <1>11 DEF Fills
<1> QED
  BY <1>10, <1>12 DEF LedgerStep

LEMMA EachLedgerStep ==
    TypeOK /\ SystemInv /\ (TypeOK /\ SystemInv)' /\ [Next]_vars
      => \A c \in Coin : LedgerStep(c)
<1> SUFFICES ASSUME TypeOK, SystemInv, (TypeOK /\ SystemInv)', [Next]_vars, NEW c \in Coin
             PROVE  LedgerStep(c)
  OBVIOUS
<1>1. RoutedInv /\ OrdersInv /\ MoneyInv /\ OrdersInv' /\ MoneyInv' /\ TypeOK'
  BY DEF SystemInv
<1>2. CASE UNCHANGED vars
  <2>1. Changes(c)' = Changes(c) /\ Charges(c)' = Charges(c)
    <3>1. Grows /\ tape' = tape /\ sent' = sent
      BY <1>2 DEF vars, bankVars, engineVars, Grows
    <3>2. Changes(c)' = Changes(c)
      BY <1>1, <3>1, ChangesKept
    <3> QED
      BY <3>1, <3>2 DEF Charges, Total, Value
  <2> QED
    BY <1>2, <2>1 DEF LedgerStep, Rests, vars, bankVars
<1>3. ASSUME NEW d \in Coin, TicketToMatchEngine(d) PROVE LedgerStep(c)
  <2>1. Grows /\ UNCHANGED <<sent, taken, money, settled, tape>>
    BY <1>1, <1>3, TicketEffect
  <2>2. Changes(c)' = Changes(c)
    BY <1>1, <2>1, ChangesKept
  <2>3. Charges(c)' = Charges(c)
    BY <2>1 DEF Charges, Total, Value
  <2> QED
    BY <2>1, <2>2, <2>3 DEF LedgerStep, Rests
<1>4. ASSUME NEW a \in DOMAIN book, NEW b \in DOMAIN book, Engine!Trade(a, b),
             UNCHANGED <<sent, bankVars, latest, ticket>>
      PROVE  LedgerStep(c)
  BY <1>1, <1>4, FillStep
<1> QED
  BY <1>1, <1>2, <1>3, <1>4, PublishStep, TakeStep, SettleStep DEF Next, TryMatch

LEMMA LedgerInit ==
    ASSUME Init, NEW c \in Coin
    PROVE  /\ Charges(c) = <<>> /\ Changes(c) = <<>> /\ taken[c] = 0 /\ settled[c] = 0
           /\ money[c] = [o \in Owners |-> [free |-> IF o \in Owners THEN Deposit ELSE 0,
                                             freeze |-> 0]]
<1>1. sent[c] = <<>> /\ tape = <<>>
  BY DEF Init, Engine!Init
<1>2. Charges(c) = <<>>
  BY <1>1 DEF Charges
<1>3. Changes(c) = <<>>
  BY <1>1 DEF Changes
<1> QED
  BY <1>2, <1>3 DEF Init

(* Each bank, seen through what it is sent and what the engine has traded, is the
   abstract ledger: it takes the requests in their order, settles the trades in
   theirs, each once, and no trade spends more than the payer's orders have left
   frozen. This is what ties the engine's sums to the banks' sums. *)
THEOREM BanksAreLedgersCorrect == Spec => BanksAreLedgers
<1>1. Init => Base!Init /\ Quote!Init
  <2> SUFFICES ASSUME Init PROVE Base!Init /\ Quote!Init
    OBVIOUS
  <2>1. Base!Init
    BY LedgerInit DEF Base!Init, Coin
  <2>2. Quote!Init
    BY LedgerInit DEF Quote!Init, Coin
  <2> QED
    BY <2>1, <2>2
<1>2. LedgerStep("base") => [Base!Next]_(Base!vars)
  <2>1. \A f : Base!SumFunction(f) = SumFunction(f)
    BY DEF Base!SumFunction, SumFunction, Base!SumFunctionOnSet, SumFunctionOnSet,
           Base!FoldFunctionOnSet, FoldFunctionOnSet, Base!MapThenFoldSet, MapThenFoldSet
  <2>2. \A o : Base!Spare(o) = Spare("base", o)
    BY <2>1 DEF Base!Spare, Spare
  <2> QED
    BY <2>2 DEF LedgerStep, Publishes, Fills, Takes, Settles, Rests,
                Base!Next, Base!Publish, Base!Fill, Base!Take, Base!Settle, Base!vars
<1>3. LedgerStep("quote") => [Quote!Next]_(Quote!vars)
  <2>1. \A f : Quote!SumFunction(f) = SumFunction(f)
    BY DEF Quote!SumFunction, SumFunction, Quote!SumFunctionOnSet, SumFunctionOnSet,
           Quote!FoldFunctionOnSet, FoldFunctionOnSet, Quote!MapThenFoldSet, MapThenFoldSet
  <2>2. \A o : Quote!Spare(o) = Spare("quote", o)
    BY <2>1 DEF Quote!Spare, Spare
  <2> QED
    BY <2>2 DEF LedgerStep, Publishes, Fills, Takes, Settles, Rests,
                Quote!Next, Quote!Publish, Quote!Fill, Quote!Take, Quote!Settle, Quote!vars
<1>4. TypeOK /\ SystemInv /\ (TypeOK /\ SystemInv)' /\ [Next]_vars
        => [Base!Next]_(Base!vars) /\ [Quote!Next]_(Quote!vars)
  BY <1>2, <1>3, EachLedgerStep DEF Coin
<1> QED
  BY <1>1, <1>4, SystemCorrect, PTL DEF Spec, BanksAreLedgers, Base!Spec, Quote!Spec
=============================================================================
