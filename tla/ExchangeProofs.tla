--------------------------- MODULE ExchangeProofs ---------------------------
(***************************************************************************)
(* What the log of the engine says of orders and trades, for every value   *)
(* of the constants: no ticket under way skips one that is missing, MySQL  *)
(* is a prefix of the log, the book is what the log leaves open, asks keep *)
(* their priority, and the log is the run of one Exchange.                 *)
(***************************************************************************)
EXTENDS OmeProofs

-----------------------------------------------------------------------------
(* What the lines of a log say, for any log F. *)

OrdersIn(F) == {i \in DOMAIN F : IsOrder(F[i])}
MatchesIn(F) == {i \in DOMAIN F : IsMatch(F[i])}
LineIn(F, id) == F[CHOOSE i \in OrdersIn(F) : F[i].id = id]
TouchedIn(F, id, n) == {i \in 1 .. n : Touches(F[i], id)}
Traded(F, id, n) == [i \in TouchedIn(F, id, n) |-> F[i].qty]
LeftIn(F, id, n) == LineIn(F, id).qty - SumFunction(Traded(F, id, n))

(* A log whose order ids are all different and whose orders want something. *)
IsLog(F) ==
    /\ F \in Seq(OrderLog \cup MatchLog)
    /\ \A i, j \in OrdersIn(F) : F[i].id = F[j].id => i = j
    /\ \A i \in OrdersIn(F) : F[i].qty > 0

(* LinesInv, as a fact about a log. *)
IsMade(F, i) ==
    /\ \E a \in OrdersIn(F) : F[a].side = "ask" /\ a < i /\ F[a].id = F[i].ask
    /\ \E b \in OrdersIn(F) : F[b].side = "bid" /\ b < i /\ F[b].id = F[i].bid
    /\ F[i].qty > 0 /\ F[i].askQty = LeftIn(F, F[i].ask, i) /\ F[i].bidQty = LeftIn(F, F[i].bid, i)

AllMade(F) == \A i \in MatchesIn(F) : IsMade(F, i)

(* A line is an order or a match, and an order is found by its id. *)
LEMMA LinesIn ==
    ASSUME NEW F, IsLog(F)
    PROVE  /\ Len(F) \in Nat /\ DOMAIN F = 1 .. Len(F)
           /\ DOMAIN F = OrdersIn(F) \cup MatchesIn(F) /\ OrdersIn(F) \cap MatchesIn(F) = {}
           /\ \A i \in OrdersIn(F) : i \in 1 .. Len(F) /\ F[i] \in OrderLog /\ LineIn(F, F[i].id) = F[i]
           /\ \A i \in MatchesIn(F) : i \in 1 .. Len(F) /\ F[i] \in MatchLog
<1>1. Len(F) \in Nat /\ DOMAIN F = 1 .. Len(F) /\ \A i \in DOMAIN F : F[i] \in OrderLog \cup MatchLog
  BY DEF IsLog
<1>2. \A l \in OrderLog : IsOrder(l) /\ ~IsMatch(l)
  BY DEF OrderLog, IsOrder, IsMatch
<1>3. \A l \in MatchLog : IsMatch(l) /\ ~IsOrder(l)
  BY DEF MatchLog, IsOrder, IsMatch
<1>4. ASSUME NEW i \in OrdersIn(F)
      PROVE  LineIn(F, F[i].id) = F[i]
  <2>1. \A j \in OrdersIn(F) : F[j].id = F[i].id => j = i
    BY DEF IsLog
  <2> QED
    BY <2>1 DEF LineIn
<1> QED
  BY <1>1, <1>2, <1>3, <1>4 DEF OrdersIn, MatchesIn

(* The trades of an order are matches, and add up to a number. *)
LEMMA TradesIn ==
    ASSUME NEW F, IsLog(F), NEW id, NEW n \in 0 .. Len(F)
    PROVE  /\ TouchedIn(F, id, n) \subseteq MatchesIn(F) /\ TouchedIn(F, id, n) \subseteq 1 .. n
           /\ IsFiniteSet(TouchedIn(F, id, n))
           /\ Traded(F, id, n) \in [TouchedIn(F, id, n) -> Nat]
           /\ SumFunction(Traded(F, id, n)) \in Nat
<1>1. Len(F) \in Nat /\ DOMAIN F = 1 .. Len(F) /\ \A i \in MatchesIn(F) : F[i] \in MatchLog
  BY LinesIn
<1>2. TouchedIn(F, id, n) \subseteq MatchesIn(F) /\ TouchedIn(F, id, n) \subseteq 1 .. n
  BY <1>1 DEF TouchedIn, MatchesIn, Touches
<1>3. IsFiniteSet(TouchedIn(F, id, n))
  <2>1. IsFiniteSet(1 .. n)
    BY <1>1, FS_Interval
  <2> QED
    BY <1>2, <2>1, FS_Subset
<1>4. \A i \in TouchedIn(F, id, n) : F[i].qty \in Nat
  BY <1>1, <1>2 DEF MatchLog
<1>5. Traded(F, id, n) \in [TouchedIn(F, id, n) -> Nat]
  BY <1>4 DEF Traded
<1> QED
  BY <1>2, <1>3, <1>5, SumOfNat

(* What is left of an order is a number. *)
LEMMA LeftType ==
    ASSUME NEW F, IsLog(F), NEW i \in OrdersIn(F), NEW n \in 0 .. Len(F)
    PROVE  LeftIn(F, F[i].id, n) \in Int
<1>1. LineIn(F, F[i].id).qty \in Nat
  BY LinesIn DEF OrderLog
<1> QED
  BY <1>1, TradesIn DEF LeftIn

(* Only the matches of an order change what is left of it. *)
LEMMA LeftSame ==
    ASSUME NEW F, NEW id, NEW n, NEW m, TouchedIn(F, id, n) = TouchedIn(F, id, m)
    PROVE  LeftIn(F, id, n) = LeftIn(F, id, m)
BY DEF LeftIn, Traded

(* Log G is log F and line l after it. *)
Grows(F, l, G) == IsLog(F) /\ IsLog(G) /\ G = Append(F, l)

(* The lines of the longer log. *)
LEMMA LogNext ==
    ASSUME NEW F, NEW l, NEW G, Grows(F, l, G)
    PROVE  /\ IsLog(F) /\ IsLog(G)
           /\ Len(F) \in Nat /\ Len(G) = Len(F) + 1 /\ G[Len(G)] = l
           /\ DOMAIN F = 1 .. Len(F) /\ DOMAIN G = DOMAIN F \cup {Len(G)}
<1>1. IsLog(F) /\ IsLog(G)
  BY DEF Grows
<1>2. Len(F) \in Nat /\ DOMAIN F = 1 .. Len(F)
  BY <1>1, LinesIn
<1>3. PICK S : F \in Seq(S) /\ G \in Seq(S) /\ G = Append(F, l)
  BY <1>1 DEF Grows, IsLog
<1>4. Len(G) = Len(F) + 1 /\ G[Len(F) + 1] = l /\ DOMAIN G = 1 .. Len(F) + 1
  BY <1>3
<1>5. 1 .. Len(F) + 1 = (1 .. Len(F)) \cup {Len(F) + 1}
  BY <1>2
<1> QED
  BY <1>1, <1>2, <1>4, <1>5

(* The lines of the shorter log are those of the longer one. *)
LEMMA LineKept == \A F, l, G : Grows(F, l, G) => \A i \in DOMAIN F : G[i] = F[i]
<1> SUFFICES ASSUME NEW F, NEW l, NEW G, Grows(F, l, G) PROVE \A i \in DOMAIN F : G[i] = F[i]
  OBVIOUS
<1>1. Len(F) \in Nat /\ DOMAIN F = 1 .. Len(F) /\ IsLog(F)
  BY LogNext
<1>2. PICK S : F \in Seq(S) /\ G = Append(F, l)
  BY <1>1 DEF Grows, IsLog
<1> QED
  BY <1>1, <1>2

(* What a line takes from an order. *)
Takes(l, id) == IF Touches(l, id) THEN l.qty ELSE 0

(* One line more. *)
LEMMA NextLine ==
    ASSUME NEW F, NEW l, NEW G, Grows(F, l, G), NEW i \in OrdersIn(F)
    PROVE  /\ i \in OrdersIn(G) /\ G[i] = F[i]
           /\ \A n \in 0 .. Len(F) : /\ TouchedIn(G, F[i].id, n) = TouchedIn(F, F[i].id, n)
                                    /\ LeftIn(G, F[i].id, n) = LeftIn(F, F[i].id, n)
           /\ LeftIn(G, F[i].id, Len(G)) = LeftIn(F, F[i].id, Len(F)) - Takes(l, F[i].id)
<1>a. IsLog(F) /\ IsLog(G)
  BY LogNext
<1> USE <1>a
<1> DEFINE id == F[i].id
           A(n) == TouchedIn(F, id, n)
           B(n) == TouchedIn(G, id, n)
           N == Len(F)
<1>1. N \in Nat /\ DOMAIN F = 1 .. N /\ i \in 1 .. N /\ LineIn(F, id) = F[i] /\ F[i].qty \in Nat
  BY LinesIn DEF OrderLog
<1>2. /\ Len(G) = N + 1 /\ G[N + 1] = l /\ DOMAIN G = DOMAIN F \cup {N + 1}
      /\ \A k \in 1 .. N : G[k] = F[k]
  <2>1. Len(G) = N + 1 /\ G[Len(G)] = l /\ DOMAIN G = DOMAIN F \cup {Len(G)}
    BY LogNext
  <2>2. \A k \in DOMAIN F : G[k] = F[k]
    BY LineKept
  <2> QED
    BY <1>1, <2>1, <2>2
<1>3. i \in OrdersIn(G) /\ G[i] = F[i] /\ LineIn(G, id) = F[i]
  <2>1. i \in OrdersIn(G) /\ G[i] = F[i]
    BY <1>1, <1>2 DEF OrdersIn
  <2> QED
    BY <2>1, LinesIn
<1>4. ASSUME NEW n \in 0 .. N PROVE B(n) = A(n) /\ Traded(G, id, n) = Traded(F, id, n)
  <2>1. \A k \in 1 .. n : G[k] = F[k]
    BY <1>1, <1>2
  <2>2. B(n) = A(n) /\ \A k \in A(n) : G[k] = F[k]
    BY <2>1 DEF TouchedIn
  <2> QED
    BY <2>2 DEF Traded
<1>5. B(N + 1) = IF Touches(l, id) THEN A(N) \cup {N + 1} ELSE A(N)
  <2>1. B(N) = A(N)
    BY <1>1, <1>4
  <2>2. 1 .. N + 1 = (1 .. N) \cup {N + 1}
    BY <1>1
  <2> QED
    BY <1>2, <2>1, <2>2 DEF TouchedIn
<1>6. PICK f, g, m : f = Traded(F, id, N) /\ g = Traded(G, id, N + 1) /\ m = N + 1
  OBVIOUS
<1>7. N \in 0 .. N /\ N + 1 \in 0 .. Len(G)
  BY <1>1, <1>2
<1>8. /\ IsFiniteSet(A(N)) /\ A(N) \subseteq 1 .. N /\ f \in [A(N) -> Nat] /\ SumFunction(f) \in Nat
      /\ g \in [B(N + 1) -> Nat]
  BY <1>6, <1>7, TradesIn
<1>9. \A k \in A(N) : k \in B(N + 1) /\ g[k] = f[k]
  <2>1. A(N) \subseteq B(N + 1)
    BY <1>5
  <2>2. \A k \in A(N) : G[k] = F[k]
    BY <1>2, <1>8
  <2> QED
    BY <1>6, <2>1, <2>2 DEF Traded
<1>10. SumFunction(g) = SumFunction(f) + (IF Touches(l, id) THEN l.qty ELSE 0) /\ SumFunction(g) \in Nat
  <2>1. CASE Touches(l, id)
    <3>1. B(N + 1) = A(N) \cup {N + 1} /\ m \notin A(N)
      BY <1>1, <1>5, <1>6, <1>8, <2>1
    <3>2. g[m] = l.qty
      BY <1>2, <1>6, <3>1 DEF Traded
    <3>3. g \in [A(N) \cup {m} -> Nat] /\ g[m] \in Nat
      BY <1>6, <1>8, <3>1
    <3>4. f \in [A(N) -> Int] /\ g \in [A(N) \cup {m} -> Int]
      BY <1>8, <3>3
    <3>5. PICK S : S = A(N)
      OBVIOUS
    <3>6. /\ IsFiniteSet(S) /\ f \in [S -> Int] /\ g \in [S \cup {m} -> Int] /\ m \notin S
          /\ \A k \in S : g[k] = f[k]
      BY <1>8, <1>9, <3>1, <3>4, <3>5
    <3>7. SumFunction(g) = SumFunction(f) + g[m]
      BY <3>6, SumMore
    <3> QED
      BY <1>8, <2>1, <3>2, <3>3, <3>7
  <2>2. CASE ~Touches(l, id)
    <3>1. B(N + 1) = A(N)
      BY <1>5, <2>2
    <3>2. g = f
      BY <1>8, <1>9, <3>1
    <3> QED
      BY <1>8, <2>2, <3>2
  <2> QED
    BY <2>1, <2>2
<1>11. LeftIn(G, id, N + 1) = LeftIn(F, id, N) - (IF Touches(l, id) THEN l.qty ELSE 0)
  <2>1. LeftIn(G, id, N + 1) = F[i].qty - SumFunction(g) /\ LeftIn(F, id, N) = F[i].qty - SumFunction(f)
    BY <1>1, <1>3, <1>6 DEF LeftIn
  <2>2. (IF Touches(l, id) THEN l.qty ELSE 0) = SumFunction(g) - SumFunction(f)
    <3>1. CASE Touches(l, id)
      <4>1. l.qty \in Nat
        <5>1. m \in B(N + 1) /\ g[m] = l.qty
          BY <1>2, <1>5, <1>6, <3>1 DEF Traded
        <5> QED
          BY <1>8, <5>1
      <4> QED
        BY <1>8, <1>10, <3>1, <4>1
    <3> QED
      BY <1>8, <1>10, <3>1
  <2> QED
    BY <1>1, <1>8, <1>10, <2>1, <2>2
<1>12. \A n \in 0 .. N : LeftIn(G, id, n) = LeftIn(F, id, n)
  BY <1>1, <1>3, <1>4 DEF LeftIn
<1> QED
  BY <1>2, <1>3, <1>4, <1>11, <1>12 DEF Takes

(* The same for what is left after the new line, and before it. *)
LEMMA LeftNext ==
    \A F, l, G, i : Grows(F, l, G) /\ i \in OrdersIn(F) =>
        /\ i \in OrdersIn(G) /\ G[i] = F[i]
        /\ LeftIn(G, F[i].id, Len(G)) = LeftIn(F, F[i].id, Len(F)) - Takes(l, F[i].id)
BY NextLine

LEMMA LeftKept ==
    \A F, l, G, i, n : Grows(F, l, G) /\ i \in OrdersIn(F) /\ n \in 0 .. Len(F) =>
        /\ TouchedIn(G, F[i].id, n) = TouchedIn(F, F[i].id, n)
        /\ LeftIn(G, F[i].id, n) = LeftIn(F, F[i].id, n)
BY NextLine

(* The matches of an order come after it. *)
LEMMA TradesAfter ==
    ASSUME NEW F, IsLog(F), AllMade(F), NEW i \in OrdersIn(F), NEW n \in 0 .. Len(F)
    PROVE  \A k \in TouchedIn(F, F[i].id, n) : i < k
<1> SUFFICES ASSUME NEW k \in TouchedIn(F, F[i].id, n) PROVE i < k
  OBVIOUS
<1>1. k \in MatchesIn(F) /\ F[i].id \in {F[k].ask, F[k].bid}
  BY TradesIn DEF TouchedIn, Touches
<1>2. PICK a \in OrdersIn(F) : a < k /\ F[a].id = F[i].id
  BY <1>1 DEF AllMade, IsMade
<1>3. a = i
  BY <1>2 DEF IsLog
<1> QED
  BY <1>2, <1>3

(* What is left of an order is what its last match says, and never less than nothing. *)
LEMMA LeftIsRemaining ==
    ASSUME NEW F, IsLog(F), AllMade(F), NEW i \in OrdersIn(F), NEW n \in 0 .. Len(F)
    PROVE  LET T == TouchedIn(F, F[i].id, n) IN
           /\ T = {} => LeftIn(F, F[i].id, n) = F[i].qty
           /\ T # {} => /\ Max(T) \in T /\ \A k \in T : k <= Max(T)
                        /\ F[Max(T)] \in MatchLog
                        /\ LeftIn(F, F[i].id, n) = Remaining(F[Max(T)], F[i].id)
           /\ LeftIn(F, F[i].id, n) \in Nat
<1> DEFINE id == F[i].id
           T == TouchedIn(F, id, n)
<1>1. /\ T \subseteq MatchesIn(F) /\ T \subseteq 1 .. n /\ IsFiniteSet(T)
      /\ Len(F) \in Nat /\ F[i] \in OrderLog /\ LineIn(F, id) = F[i]
      /\ \A k \in MatchesIn(F) : F[k] \in MatchLog
  BY LinesIn, TradesIn
<1>2. CASE T = {}
  <2>1. SumFunction(Traded(F, id, n)) = 0
    <3>1. DOMAIN Traded(F, id, n) = {}
      BY <1>2 DEF Traded
    <3> QED
      BY <3>1, SumOfNone
  <2>2. F[i].qty \in Nat
    BY <1>1 DEF OrderLog
  <2> QED
    BY <1>1, <1>2, <2>1, <2>2 DEF LeftIn
<1>3. CASE T # {}
  <2>1. T \in SUBSET Nat /\ n \in Nat /\ \A k \in T : k <= n
    BY <1>1
  <2>2. Max(T) \in T /\ \A k \in T : k <= Max(T)
    <3> HIDE DEF T
    <3> QED
      BY <1>3, <2>1, MaxIsLargest
  <2>3. PICK m : m = Max(T)
    OBVIOUS
  <2>4. m \in T /\ m \in 1 .. n /\ m \in MatchesIn(F) /\ F[m] \in MatchLog /\ \A k \in T : k <= m
    BY <1>1, <2>2, <2>3
  <2>5. TouchedIn(F, id, m) = T
    BY <2>1, <2>4 DEF TouchedIn
  <2>6. LeftIn(F, id, n) = LeftIn(F, id, m)
    BY <2>5, LeftSame
  <2>7. IsMade(F, m) /\ id \in {F[m].ask, F[m].bid}
    BY <2>4 DEF AllMade, TouchedIn, Touches
  <2>8. LeftIn(F, id, m) = Remaining(F[m], id)
    BY <2>7 DEF IsMade, Remaining
  <2>9. Remaining(F[m], id) \in Nat
    BY <2>4 DEF Remaining, MatchLog
  <2> QED
    BY <1>3, <2>2, <2>3, <2>4, <2>6, <2>8, <2>9
<1> QED
  BY <1>2, <1>3

(* What is left of an order never grows. *)
LEMMA LeftShrinks ==
    ASSUME NEW F, IsLog(F), NEW i \in OrdersIn(F), NEW n \in 0 .. Len(F), NEW m \in 0 .. n
    PROVE  LeftIn(F, F[i].id, n) <= LeftIn(F, F[i].id, m)
<1> DEFINE id == F[i].id
           A == TouchedIn(F, id, m)
           B == TouchedIn(F, id, n)
<1>1. /\ Len(F) \in Nat /\ m \in 0 .. Len(F) /\ F[i] \in OrderLog /\ LineIn(F, id) = F[i]
      /\ F[i].qty \in Nat
  <2>1. Len(F) \in Nat /\ F[i] \in OrderLog /\ LineIn(F, id) = F[i]
    BY LinesIn
  <2>2. m \in 0 .. Len(F)
    BY <2>1
  <2> QED
    BY <2>1, <2>2 DEF OrderLog
<1>2. PICK f, g : f = Traded(F, id, n) /\ g = Traded(F, id, m)
  OBVIOUS
<1>3. /\ IsFiniteSet(A) /\ IsFiniteSet(B) /\ f \in [B -> Nat] /\ g \in [A -> Nat]
      /\ SumFunction(f) \in Nat /\ SumFunction(g) \in Nat
  BY <1>1, <1>2, TradesIn
<1>4. A \subseteq B /\ B = A \cup (B \ A) /\ A \cap (B \ A) = {}
  BY <1>1 DEF TouchedIn
<1>5. (\A k \in B : f[k] \in Nat) /\ DOMAIN f = B /\ DOMAIN g = A /\ \A k \in A : f[k] = g[k]
  BY <1>2, <1>3, <1>4 DEF Traded
<1>6. IsFiniteSet(B \ A) /\ \A k \in A \cup (B \ A) : f[k] \in Int
  BY <1>3, <1>4, <1>5, FS_Subset
<1> HIDE DEF A, B
<1>7. SumFunctionOnSet(f, B) = SumFunctionOnSet(f, A) + SumFunctionOnSet(f, B \ A)
  <2>1. SumFunctionOnSet(f, A \cup (B \ A)) = SumFunctionOnSet(f, A) + SumFunctionOnSet(f, B \ A)
    BY <1>3, <1>4, <1>6, SumUnion
  <2> QED
    BY <1>4, <2>1
<1>8. SumFunctionOnSet(f, B \ A) \in Nat
  <2>1. \A k \in B \ A : f[k] \in Nat
    BY <1>5
  <2> QED
    BY <1>6, <2>1, SumNat
<1>9. SumFunctionOnSet(f, A) = SumFunction(g)
  <2>1. SumFunctionOnSet(f, A) = SumFunctionOnSet(g, A)
    BY <1>3, <1>5, SumSame
  <2> QED
    BY <1>5, <2>1 DEF SumFunction
<1>10. SumFunctionOnSet(f, B) = SumFunction(f)
  BY <1>5 DEF SumFunction
<1>11. SumFunction(g) <= SumFunction(f)
  BY <1>3, <1>7, <1>8, <1>9, <1>10
<1>12. LeftIn(F, id, n) = F[i].qty - SumFunction(f) /\ LeftIn(F, id, m) = F[i].qty - SumFunction(g)
  BY <1>1, <1>2 DEF LeftIn
<1> QED
  BY <1>1, <1>3, <1>11, <1>12

(* A line more makes no match wrong. *)
LEMMA MadeKept ==
    ASSUME NEW F, NEW l, NEW G, Grows(F, l, G), AllMade(F)
    PROVE  \A i \in MatchesIn(G) : i = Len(G) \/ IsMade(G, i)
<1>a. IsLog(F) /\ IsLog(G)
  BY LogNext
<1> USE <1>a
<1> SUFFICES ASSUME NEW i \in MatchesIn(G), i # Len(G) PROVE IsMade(G, i)
  OBVIOUS
<1>1. /\ Len(F) \in Nat /\ DOMAIN F = 1 .. Len(F) /\ Len(G) = Len(F) + 1
      /\ i \in 1 .. Len(F) /\ G[i] = F[i] /\ i \in 0 .. Len(F)
  <2>1. Len(F) \in Nat /\ DOMAIN F = 1 .. Len(F) /\ i \in 1 .. Len(G)
    BY LinesIn
  <2>2. Len(G) = Len(F) + 1
    BY LogNext
  <2>3. \A k \in DOMAIN F : G[k] = F[k]
    BY LineKept
  <2> QED
    BY <2>1, <2>2, <2>3
<1>2. i \in MatchesIn(F)
  BY <1>1 DEF MatchesIn
<1>3. IsMade(F, i)
  BY <1>2 DEF AllMade
<1>4. PICK a \in OrdersIn(F) : F[a].side = "ask" /\ a < i /\ F[a].id = F[i].ask
  BY <1>3 DEF IsMade
<1>5. PICK b \in OrdersIn(F) : F[b].side = "bid" /\ b < i /\ F[b].id = F[i].bid
  BY <1>3 DEF IsMade
<1>6. ASSUME NEW k \in OrdersIn(F)
      PROVE  /\ k \in OrdersIn(G) /\ G[k] = F[k]
             /\ LeftIn(G, F[k].id, i) = LeftIn(F, F[k].id, i)
  <2>1. k \in OrdersIn(G) /\ G[k] = F[k]
    BY LeftNext
  <2>2. LeftIn(G, F[k].id, i) = LeftIn(F, F[k].id, i)
    BY <1>1, LeftKept
  <2> QED
    BY <2>1, <2>2
<1> QED
  BY <1>1, <1>3, <1>4, <1>5, <1>6 DEF IsMade

(* An order makes no match. *)
LEMMA OrderMakesNone ==
    ASSUME NEW F, NEW l, NEW G, Grows(F, l, G), AllMade(F), IsOrder(l)
    PROVE  AllMade(G)
<1>a. IsLog(F) /\ IsLog(G)
  BY LogNext
<1> USE <1>a
<1>1. Len(G) \notin MatchesIn(G)
  <2>1. G[Len(G)] = l
    BY LogNext
  <2> QED
    BY <2>1 DEF MatchesIn, IsOrder, IsMatch
<1> QED
  BY <1>1, MadeKept DEF AllMade

(* A match made of what the log leaves of an ask and a bid. *)
IsTrade(F, l, a, b) ==
    /\ l \in MatchLog
    /\ a \in OrdersIn(F) /\ F[a].side = "ask" /\ l.ask = F[a].id
    /\ b \in OrdersIn(F) /\ F[b].side = "bid" /\ l.bid = F[b].id
    /\ l.qty > 0
    /\ l.askQty = LeftIn(F, l.ask, Len(F)) - l.qty
    /\ l.bidQty = LeftIn(F, l.bid, Len(F)) - l.qty

(* A trade makes one match, and takes its quantity from two orders. *)
LEMMA TradeIsMade ==
    ASSUME NEW F, NEW l, NEW G, Grows(F, l, G), AllMade(F), NEW a, NEW b,
           IsTrade(F, l, a, b)
    PROVE  /\ AllMade(G) /\ Len(G) = Len(F) + 1 /\ G[Len(G)] = l /\ Len(G) \in MatchesIn(G)
           /\ OrdersIn(G) = OrdersIn(F) /\ MatchesIn(G) = MatchesIn(F) \cup {Len(G)}
           /\ \A i \in OrdersIn(F) :
                  /\ G[i] = F[i]
                  /\ LeftIn(G, F[i].id, Len(G)) =
                         LeftIn(F, F[i].id, Len(F)) - (IF i \in {a, b} THEN l.qty ELSE 0)
<1>a. IsLog(F) /\ IsLog(G)
  BY LogNext
<1> USE <1>a
<1>1. /\ IsMatch(l) /\ a \in OrdersIn(F) /\ b \in OrdersIn(F)
      /\ l.ask = F[a].id /\ l.bid = F[b].id /\ l.qty > 0
      /\ F[a].side = "ask" /\ F[b].side = "bid"
  BY DEF IsTrade, MatchLog, IsMatch
<1>2. \A i \in OrdersIn(F) : Touches(l, F[i].id) <=> i \in {a, b}
  BY <1>1 DEF IsLog, Touches
<1>3. Len(G) = Len(F) + 1 /\ G[Len(G)] = l
  BY LogNext
<1>4. ASSUME NEW i \in OrdersIn(F)
      PROVE  /\ i \in OrdersIn(G) /\ G[i] = F[i]
             /\ LeftIn(G, F[i].id, Len(G)) =
                    LeftIn(F, F[i].id, Len(F)) - (IF i \in {a, b} THEN l.qty ELSE 0)
  <2>1. /\ i \in OrdersIn(G) /\ G[i] = F[i]
        /\ LeftIn(G, F[i].id, Len(G)) = LeftIn(F, F[i].id, Len(F)) - Takes(l, F[i].id)
    BY LeftNext
  <2>2. Takes(l, F[i].id) = IF i \in {a, b} THEN l.qty ELSE 0
    BY <1>2 DEF Takes
  <2> QED
    BY <2>1, <2>2
<1>5. /\ Len(F) \in Nat /\ DOMAIN F = 1 .. Len(F) /\ DOMAIN G = DOMAIN F \cup {Len(G)}
      /\ \A i \in DOMAIN F : G[i] = F[i]
  <2>1. Len(F) \in Nat /\ DOMAIN F = 1 .. Len(F) /\ DOMAIN G = DOMAIN F \cup {Len(G)}
    BY LogNext
  <2>2. \A i \in DOMAIN F : G[i] = F[i]
    BY LineKept
  <2> QED
    BY <2>1, <2>2
<1>6. OrdersIn(G) = OrdersIn(F) /\ MatchesIn(G) = MatchesIn(F) \cup {Len(G)}
  <2>1. ~IsOrder(l)
    BY <1>1 DEF IsOrder, IsMatch
  <2>2. DOMAIN G = DOMAIN F \cup {Len(G)}
    BY <1>3, <1>5
  <2> QED
    BY <1>1, <1>3, <1>5, <2>1, <2>2 DEF OrdersIn, MatchesIn
<1>7. IsMade(G, Len(G))
  <2>1. a \in 1 .. Len(F) /\ b \in 1 .. Len(F)
    BY <1>1, LinesIn
  <2>2. a < Len(G) /\ b < Len(G)
    BY <1>3, <1>5, <2>1
  <2>3. G[a] = F[a] /\ G[b] = F[b] /\ a \in OrdersIn(G) /\ b \in OrdersIn(G)
    BY <1>1, <1>4
  <2>4. l.askQty = LeftIn(G, l.ask, Len(G)) /\ l.bidQty = LeftIn(G, l.bid, Len(G))
    BY <1>1, <1>4 DEF IsTrade
  <2> QED
    BY <1>1, <1>3, <2>2, <2>3, <2>4 DEF IsMade
<1>8. AllMade(G)
  BY <1>7, MadeKept DEF AllMade
<1> QED
  BY <1>3, <1>4, <1>6, <1>8

(* What the log leaves open on one side, as a book. *)
EntryIn(F, i) == [id |-> F[i].id, ticket |-> F[i].ticket, price |-> F[i].price,
                  qty |-> LeftIn(F, F[i].id, Len(F))]
OpenIn(F, s) == {i \in OrdersIn(F) : F[i].side = s /\ LeftIn(F, F[i].id, Len(F)) > 0}
BookIn(F, s) == {EntryIn(F, i) : i \in OpenIn(F, s)}

(* A trade fills its two orders and no other. *)
LEMMA TradeFills ==
    ASSUME NEW F, NEW l, NEW G, Grows(F, l, G), AllMade(F), NEW a, NEW b,
           IsTrade(F, l, a, b), NEW x \in {a, b}, x \in OpenIn(F, F[x].side),
           LeftIn(F, F[x].id, Len(F)) >= l.qty
    PROVE  BookIn(G, F[x].side) = Fill(BookIn(F, F[x].side), EntryIn(F, x), l.qty)
<1>a. IsLog(F) /\ IsLog(G)
  BY LogNext
<1> USE <1>a
<1> DEFINE s == F[x].side
           left(i) == LeftIn(F, F[i].id, Len(F))
           q == l.qty
<1>1. OrdersIn(G) = OrdersIn(F) /\ \A i \in OrdersIn(F) : G[i] = F[i]
  BY TradeIsMade
<1>0. \A i \in OrdersIn(F) : LeftIn(G, F[i].id, Len(G)) = left(i) - (IF i \in {a, b} THEN q ELSE 0)
  BY TradeIsMade
<1>2. q \in Nat /\ x \in OrdersIn(F) /\ \A i \in OrdersIn(F) : left(i) \in Int
  <2>1. Len(F) \in 0 .. Len(F)
    BY LinesIn
  <2> QED
    BY <2>1, LeftType DEF IsTrade, MatchLog
<1>3. \A i \in OrdersIn(F) : F[i].side = s /\ i # x => i \notin {a, b}
  BY DEF IsTrade
<1>4. ASSUME NEW i \in OrdersIn(F), F[i].side = s, i # x
      PROVE  (i \in OpenIn(G, s) <=> i \in OpenIn(F, s)) /\ EntryIn(G, i) = EntryIn(F, i)
  <2>1. LeftIn(G, F[i].id, Len(G)) = left(i) /\ G[i] = F[i]
    BY <1>0, <1>1, <1>2, <1>3, <1>4
  <2> QED
    BY <1>1, <2>1 DEF OpenIn, EntryIn
<1>5. LeftIn(G, G[x].id, Len(G)) = left(x) - q /\ G[x].side = s
  BY <1>0, <1>1, <1>2
<1>6. \A i, j \in OrdersIn(F) : EntryIn(F, i) = EntryIn(F, j) => i = j
  <2>1. \A i \in OrdersIn(F) : EntryIn(F, i).id = F[i].id
    BY DEF EntryIn
  <2> QED
    BY <2>1 DEF IsLog
<1>7. \A i : i \in OpenIn(G, s) => i \in OrdersIn(F) /\ F[i].side = s
  BY <1>1 DEF OpenIn
<1>8. \A i : i \in OpenIn(F, s) => i \in OrdersIn(F) /\ F[i].side = s
  BY DEF OpenIn
<1>9. EntryIn(F, x).qty = left(x)
  BY DEF EntryIn
<1>10. CASE left(x) = q
  <2>1. x \notin OpenIn(G, s)
    <3>1. LeftIn(G, G[x].id, Len(G)) = 0
      BY <1>2, <1>5, <1>10
    <3> QED
      BY <3>1 DEF OpenIn
  <2>2. OpenIn(G, s) = OpenIn(F, s) \ {x}
    BY <1>4, <1>7, <1>8, <2>1
  <2>3. BookIn(G, s) = BookIn(F, s) \ {EntryIn(F, x)}
    <3>1. \A i \in OpenIn(F, s) \ {x} : EntryIn(G, i) = EntryIn(F, i) /\ EntryIn(F, i) # EntryIn(F, x)
      BY <1>2, <1>4, <1>6, <1>8
    <3> QED
      BY <2>2, <3>1 DEF BookIn
  <2> QED
    BY <1>9, <1>10, <2>3 DEF Fill
<1>11. CASE left(x) # q
  <2>1. x \in OpenIn(G, s)
    <3>1. left(x) - q > 0
      BY <1>2, <1>11
    <3> QED
      BY <1>1, <1>2, <1>5, <3>1 DEF OpenIn
  <2>2. OpenIn(G, s) = (OpenIn(F, s) \ {x}) \cup {x}
    BY <1>4, <1>7, <1>8, <2>1
  <2>3. EntryIn(G, x) = [EntryIn(F, x) EXCEPT !.qty = left(x) - q]
    <3>1. G[x] = F[x]
      BY <1>1, <1>2
    <3>2. LeftIn(G, F[x].id, Len(G)) = left(x) - q
      BY <1>5, <3>1
    <3> QED
      BY <3>1, <3>2 DEF EntryIn
  <2>4. BookIn(G, s) = (BookIn(F, s) \ {EntryIn(F, x)}) \cup {EntryIn(G, x)}
    <3>1. \A i \in OpenIn(F, s) \ {x} : EntryIn(G, i) = EntryIn(F, i) /\ EntryIn(F, i) # EntryIn(F, x)
      BY <1>2, <1>4, <1>6, <1>8
    <3> QED
      BY <2>2, <3>1 DEF BookIn
  <2> QED
    BY <1>9, <1>11, <2>3, <2>4 DEF Fill
<1> QED
  BY <1>10, <1>11

(* An order is added to its side, with all it wants. *)
LEMMA OrderIsOpen ==
    ASSUME NEW F, NEW l \in OrderLog, NEW G, Grows(F, l, G), AllMade(F)
    PROVE  /\ Len(G) = Len(F) + 1 /\ OrdersIn(G) = OrdersIn(F) \cup {Len(G)} /\ G[Len(G)] = l
           /\ MatchesIn(G) = MatchesIn(F)
           /\ LeftIn(G, l.id, Len(G)) = l.qty
           /\ \A i \in OrdersIn(F) :
                  G[i] = F[i] /\ LeftIn(G, F[i].id, Len(G)) = LeftIn(F, F[i].id, Len(F))
           /\ \A s : BookIn(G, s) =
                  IF l.side = s
                  THEN BookIn(F, s) \cup {[id |-> l.id, ticket |-> l.ticket, price |-> l.price,
                                           qty |-> l.qty]}
                  ELSE BookIn(F, s)
<1>a. IsLog(F) /\ IsLog(G)
  BY LogNext
<1> USE <1>a
<1> DEFINE N == Len(G)
<1>1. IsOrder(l) /\ ~IsMatch(l) /\ l.qty \in Nat
  BY DEF OrderLog, IsOrder, IsMatch
<1>2. /\ Len(F) \in Nat /\ N = Len(F) + 1 /\ DOMAIN F = 1 .. Len(F)
      /\ DOMAIN G = DOMAIN F \cup {N} /\ G[N] = l /\ \A i \in DOMAIN F : G[i] = F[i]
  <2>1. /\ Len(F) \in Nat /\ N = Len(F) + 1 /\ DOMAIN F = 1 .. Len(F)
        /\ DOMAIN G = DOMAIN F \cup {N} /\ G[N] = l
    BY LogNext
  <2>2. \A i \in DOMAIN F : G[i] = F[i]
    BY LineKept
  <2> QED
    BY <2>1, <2>2
<1>3. OrdersIn(G) = OrdersIn(F) \cup {N} /\ MatchesIn(G) = MatchesIn(F)
  BY <1>1, <1>2 DEF OrdersIn, MatchesIn
<1>4. ASSUME NEW i \in OrdersIn(F)
      PROVE  G[i] = F[i] /\ LeftIn(G, F[i].id, N) = LeftIn(F, F[i].id, Len(F))
  <2>1. G[i] = F[i] /\ LeftIn(G, F[i].id, N) = LeftIn(F, F[i].id, Len(F)) - Takes(l, F[i].id)
    BY LeftNext
  <2>2. Takes(l, F[i].id) = 0
    BY <1>1 DEF Takes, Touches
  <2>3. LeftIn(F, F[i].id, Len(F)) \in Int
    BY <1>2, LeftType
  <2> QED
    BY <2>1, <2>2, <2>3
<1>5. AllMade(G)
  BY <1>1, OrderMakesNone
<1>6. LeftIn(G, l.id, N) = l.qty
  <2>1. N \in OrdersIn(G) /\ N \in 0 .. N
    BY <1>2, <1>3
  <2>2. \A k \in TouchedIn(G, G[N].id, N) : N < k /\ k \in 1 .. N
    BY <1>5, <2>1, TradesAfter, TradesIn
  <2>3. TouchedIn(G, G[N].id, N) = {}
    BY <1>2, <2>2
  <2> QED
    BY <1>2, <1>5, <2>1, <2>3, LeftIsRemaining
<1>7. ASSUME NEW s
      PROVE  BookIn(G, s) =
                  IF l.side = s
                  THEN BookIn(F, s) \cup {[id |-> l.id, ticket |-> l.ticket, price |-> l.price,
                                           qty |-> l.qty]}
                  ELSE BookIn(F, s)
  <2>1. l.qty > 0
    BY <1>2, <1>3 DEF IsLog
  <2>2. OpenIn(G, s) = IF l.side = s THEN OpenIn(F, s) \cup {N} ELSE OpenIn(F, s)
    BY <1>2, <1>3, <1>4, <1>6, <2>1 DEF OpenIn
  <2>3. \A i \in OpenIn(F, s) : EntryIn(G, i) = EntryIn(F, i)
    BY <1>4 DEF OpenIn, EntryIn
  <2>4. EntryIn(G, N) = [id |-> l.id, ticket |-> l.ticket, price |-> l.price, qty |-> l.qty]
    BY <1>2, <1>6 DEF EntryIn
  <2> QED
    BY <2>2, <2>3, <2>4 DEF BookIn
<1> QED
  BY <1>2, <1>3, <1>4, <1>6, <1>7

-----------------------------------------------------------------------------
(* The log of the engine is such a log. *)

(* The names of Ome, for the log of the engine. *)
LEMMA NamesAre ==
    /\ OrderLines = OrdersIn(filedb) /\ MatchLines = MatchesIn(filedb)
    /\ \A s : OrderLinesOf(s) = {i \in OrdersIn(filedb) : filedb[i].side = s}
    /\ \A id, n : MatchesOf(id, n) = TouchedIn(filedb, id, n)
    /\ \A id : LineOf(id) = LineIn(filedb, id)
    /\ \A id, n : Left(id, n) = LeftIn(filedb, id, n)
    /\ \A s : OpenInLog(s) = BookIn(filedb, s)
<1>1. OrderLines = OrdersIn(filedb) /\ MatchLines = MatchesIn(filedb)
  BY DEF Lines, OrderLines, MatchLines, OrdersIn, MatchesIn
<1>2. \A s : OrderLinesOf(s) = {i \in OrdersIn(filedb) : filedb[i].side = s}
  BY <1>1 DEF OrderLinesOf
<1>3. \A id, n : MatchesOf(id, n) = TouchedIn(filedb, id, n)
  BY DEF MatchesOf, TouchedIn
<1>4. \A id : LineOf(id) = LineIn(filedb, id)
  BY <1>1 DEF LineOf, LineIn
<1>5. \A id, n : Left(id, n) = LeftIn(filedb, id, n)
  BY <1>3, <1>4 DEF Left, LeftIn, Traded
<1>6. ASSUME NEW s PROVE OpenInLog(s) = BookIn(filedb, s)
  <2>1. {j \in OrderLinesOf(s) : Left(filedb[j].id, Len(filedb)) > 0} = OpenIn(filedb, s)
    BY <1>2, <1>5 DEF OpenIn
  <2> QED
    BY <1>5, <2>1 DEF OpenInLog, BookIn, EntryIn
<1> QED
  BY <1>1, <1>2, <1>3, <1>4, <1>5, <1>6

(* No order id twice, and every order wants something: it was a request. *)
LEMMA GoodLog == TypeOK /\ LogInv => IsLog(filedb)
<1> SUFFICES ASSUME TypeOK, LogInv PROVE IsLog(filedb)
  OBVIOUS
<1>1. filedb \in Seq(OrderLog \cup MatchLog)
  BY DEF TypeOK
<1>2. OrderLines = OrdersIn(filedb)
  BY NamesAre
<1>3. OrderIDs \in [OrderLines -> Nat] /\ OrderLines \subseteq 1 .. Len(filedb) /\ Len(filedb) \in Nat
  BY LinesType
<1>4. \A i, j \in OrdersIn(filedb) : filedb[i].id = filedb[j].id => i = j
  <2> SUFFICES ASSUME NEW i \in OrderLines, NEW j \in OrderLines, i # j
               PROVE  filedb[i].id # filedb[j].id
    BY <1>2
  <2>1. OrderIDs[i] = filedb[i].id /\ OrderIDs[j] = filedb[j].id
    BY DEF OrderIDs
  <2>2. \A x, y \in OrderLines : x < y => OrderIDs[x] < OrderIDs[y]
    BY <1>3 DEF LogInv, OrderIDsInOrder, InOrder
  <2>3. i < j \/ j < i
    BY <1>3
  <2>4. OrderIDs[i] \in Nat /\ OrderIDs[j] \in Nat
    BY <1>3
  <2> QED
    BY <2>1, <2>2, <2>3, <2>4
<1>5. \A i \in OrdersIn(filedb) : filedb[i].qty > 0
  <2> SUFFICES ASSUME NEW i \in OrderLines PROVE filedb[i].qty > 0
    BY <1>2
  <2>1. filedb[i].side \in Side /\ i \in OrderLinesOf(filedb[i].side)
    BY LinesType DEF OrderLinesOf
  <2>2. PICK s \in Side : i \in OrderLinesOf(s)
    BY <2>1
  <2>3. issued[s] \in Seq(Requests)
    BY DEF TypeOK
  <2>4. PICK t \in DOMAIN issued[s] :
            [price |-> filedb[i].price, qty |-> filedb[i].qty] = issued[s][t]
    BY <2>2 DEF LogInv, TicketsInOrder
  <2>5. issued[s][t] \in Requests
    BY <2>3, <2>4
  <2>6. issued[s][t].qty \in Nat \ {0} /\ issued[s][t].qty = filedb[i].qty
    BY <2>4, <2>5, OmeAssumption
  <2> QED
    BY <2>6
<1> QED
  BY <1>1, <1>4, <1>5 DEF IsLog

LEMMA GoodLogNext == TypeOK' /\ LogInv' => IsLog(filedb')
<1>1. (TypeOK /\ LogInv => IsLog(filedb))'
  BY GoodLog, PTL
<1> QED
  BY <1>1 DEF IsLog, OrdersIn

(* LinesInv, read before a step and after it. *)
LEMMA LinesIs == TypeOK /\ LogInv => (LinesInv <=> AllMade(filedb))
<1> SUFFICES ASSUME TypeOK, LogInv PROVE LinesInv <=> AllMade(filedb)
  OBVIOUS
<1>1. /\ MatchLines = MatchesIn(filedb)
      /\ \A s : OrderLinesOf(s) = {i \in OrdersIn(filedb) : filedb[i].side = s}
  BY NamesAre
<1>2. \A id, n : Left(id, n) = LeftIn(filedb, id, n)
  BY NamesAre
<1> QED
  BY <1>1, <1>2 DEF LinesInv, AllMade, IsMade

LEMMA LinesNextIs == TypeOK' /\ LogInv' => (LinesInv' <=> AllMade(filedb'))
<1>1. (TypeOK /\ LogInv => (LinesInv <=> AllMade(filedb)))'
  BY LinesIs, PTL
<1> QED
  BY <1>1 DEF AllMade, IsMade, MatchesIn, OrdersIn, LeftIn, LineIn, Traded, TouchedIn

(* BookIsLog, read before a step and after it. *)
LEMMA BookIs ==
    BookIsLog <=> (Recovered => asks = BookIn(filedb, "ask") /\ bids = BookIn(filedb, "bid"))
<1>1. \A s : OpenInLog(s) = BookIn(filedb, s)
  BY NamesAre
<1> QED
  BY <1>1 DEF BookIsLog, Recovered

LEMMA BookNextIs ==
    BookIsLog' <=> (Recovered' => asks' = BookIn(filedb', "ask") /\ bids' = BookIn(filedb', "bid"))
<1>1. (BookIsLog <=> (Recovered => asks = BookIn(filedb, "ask") /\ bids = BookIn(filedb, "bid")))'
  BY BookIs, PTL
<1> QED
  BY <1>1 DEF BookIn, OpenIn, EntryIn, OrdersIn, LeftIn, LineIn, Traded, TouchedIn

-----------------------------------------------------------------------------
(* What the two steps that write a line do to log and book. *)

(* The lines of the two orders TryMatch works on, and the line it writes. *)
TradeOf(l, i, j, a, b) ==
    /\ Grows(filedb, l, filedb') /\ IsTrade(filedb, l, i, j)
    /\ i \in OpenIn(filedb, "ask") /\ EntryIn(filedb, i) = a
    /\ j \in OpenIn(filedb, "bid") /\ EntryIn(filedb, j) = b
    /\ l.qty = TradeQty(a, b) /\ l.price = TradePrice(a, b)
    /\ LeftIn(filedb, filedb[i].id, Len(filedb)) >= l.qty
    /\ LeftIn(filedb, filedb[j].id, Len(filedb)) >= l.qty

(* A round of TryMatch writes such a trade. *)
LEMMA MatchEffect ==
    ASSUME TypeOK, TypeOK', LogInv, LogInv', LinesInv, BookIsLog,
           NEW a \in asks, NEW b \in bids, pc = "match", TryMatch(a, b)
    PROVE  \E l, i, j : TradeOf(l, i, j, a, b)
<1> DEFINE l == MatchLine(a, b, TradeQty(a, b))
           left(k) == LeftIn(filedb, filedb[k].id, Len(filedb))
<1>1. IsLog(filedb) /\ IsLog(filedb') /\ AllMade(filedb)
  BY GoodLog, GoodLogNext, LinesIs
<1>2. Grows(filedb, l, filedb')
  BY <1>1 DEF Grows, TryMatch
<1>3. asks = BookIn(filedb, "ask") /\ bids = BookIn(filedb, "bid")
  BY BookIs DEF Recovered
<1>4. PICK i \in OpenIn(filedb, "ask") : a = EntryIn(filedb, i)
  BY <1>3 DEF BookIn
<1>5. PICK j \in OpenIn(filedb, "bid") : b = EntryIn(filedb, j)
  BY <1>3 DEF BookIn
<1>6. a \in Order /\ b \in Order
  BY DEF TypeOK
<1>7. /\ i \in OrdersIn(filedb) /\ filedb[i].side = "ask" /\ left(i) > 0
      /\ j \in OrdersIn(filedb) /\ filedb[j].side = "bid" /\ left(j) > 0
  BY <1>4, <1>5 DEF OpenIn
<1>8. a.id = filedb[i].id /\ a.qty = left(i) /\ b.id = filedb[j].id /\ b.qty = left(j)
  BY <1>4, <1>5 DEF EntryIn
<1>9. a.qty \in Nat /\ b.qty \in Nat /\ a.qty > 0 /\ b.qty > 0
  BY <1>6, <1>7, <1>8 DEF Order
<1>10. PICK q : q = TradeQty(a, b)
  OBVIOUS
<1>11. q \in Nat /\ q > 0 /\ a.qty >= q /\ b.qty >= q
  BY <1>9, <1>10 DEF TradeQty
<1>12. /\ l.ask = a.id /\ l.bid = b.id /\ l.qty = q /\ l.price = TradePrice(a, b)
       /\ l.askQty = a.qty - q /\ l.bidQty = b.qty - q
  BY <1>10 DEF MatchLine
<1>13. l \in MatchLog
  <2>1. TradeAmount(a, b) \in Nat /\ TradePrice(a, b) \in Nat /\ TradeQty(a, b) \in Nat
    BY <1>6, AmountType
  <2>2. logID + 1 \in Nat /\ a.id \in Nat /\ b.id \in Nat
    BY <1>6 DEF TypeOK, Order
  <2>3. a.qty - q \in Nat /\ b.qty - q \in Nat
    BY <1>9, <1>11
  <2> QED
    BY <1>10, <2>1, <2>2, <2>3 DEF MatchLine, MatchLog
<1> HIDE DEF l
<1>14. IsTrade(filedb, l, i, j)
  BY <1>7, <1>8, <1>11, <1>12, <1>13 DEF IsTrade
<1>15. TradeOf(l, i, j, a, b)
  BY <1>2, <1>4, <1>5, <1>8, <1>10, <1>11, <1>12, <1>14 DEF TradeOf
<1> QED
  BY <1>15

(* The line of the head of the channel, when its number is the next one. *)
OrderOf(l) ==
    /\ l \in OrderLog /\ Grows(filedb, l, filedb')
    /\ l.id = orderID + 1 /\ l.ticket = Head(ch).id /\ l.side = Head(ch).side
    /\ l.price = Head(ch).price /\ l.qty = Head(ch).qty
    /\ [price |-> l.price, qty |-> l.qty] \in Requests

(* TicketToMatchEngine writes such an order, or ends the process. *)
LEMMA OrderEffect ==
    ASSUME TypeOK, TypeOK', LogInv, LogInv', NewTicket
    PROVE  \/ filedb' = filedb /\ Halt
           \/ \E l : OrderOf(l)
<1> DEFINE t == Head(ch)
           l == [kind |-> "order", logID |-> logID + 1, id |-> orderID + 1,
                 ticket |-> t.id, side |-> t.side, price |-> t.price, qty |-> t.qty]
<1>1. ch # <<>> /\ filedb' = (IF t.id # latest[t.side] + 1 THEN filedb ELSE Append(filedb, l))
  BY DEF NewTicket
<1>2. CASE t.id # latest[t.side] + 1
  BY <1>1, <1>2 DEF NewTicket
<1>3. CASE t.id = latest[t.side] + 1
  <2>1. t = ch[1] /\ 1 \in DOMAIN ch /\ t \in Ticket
    <3>1. ch \in Seq(Ticket)
      BY DEF TypeOK
    <3> QED
      BY <1>1, <3>1
  <2>2. /\ t.side \in Side /\ t.id \in Nat /\ t.price \in Nat /\ t.qty \in Nat
        /\ logID + 1 \in Nat /\ orderID + 1 \in Nat
    <3>1. t.side \in Side /\ t.id \in Nat /\ t.price \in Nat /\ t.qty \in Nat
      BY <2>1 DEF Ticket
    <3>2. logID + 1 \in Nat /\ orderID + 1 \in Nat
      BY DEF TypeOK
    <3> QED
      BY <3>1, <3>2
  <2>3. /\ t.id \in DOMAIN issued[t.side]
        /\ [price |-> t.price, qty |-> t.qty] = issued[t.side][t.id]
    BY <2>1 DEF LogInv, ChannelInv
  <2>4. issued[t.side] \in Seq(Requests)
    BY <2>2 DEF TypeOK
  <2>5. [price |-> t.price, qty |-> t.qty] \in Requests
    BY <2>3, <2>4
  <2>6. IsLog(filedb) /\ IsLog(filedb')
    BY GoodLog, GoodLogNext
  <2>7. Grows(filedb, l, filedb')
    BY <1>1, <1>3, <2>6 DEF Grows
  <2> HIDE DEF t
  <2>8. l \in OrderLog
    BY <2>2 DEF OrderLog
  <2>9. OrderOf(l)
    BY <2>5, <2>7, <2>8 DEF OrderOf, t
  <2> QED
    BY <2>9
<1> QED
  BY <1>2, <1>3

(* No other step writes to the log. *)
LEMMA LogSteps ==
    ASSUME TypeOK, [Next]_vars
    PROVE  \/ filedb' = filedb
           \/ \E m \in Crossing(asks, bids) : pc = "match" /\ TryMatch(m[1], m[2])
           \/ NewTicket
BY DEF Next, Main, Streams, Writer, vars, bankVars, bookVars, fileVars, tableVars, Halt,
       Issue, Start, WaitForFiledb, RejectTorn, LoadAllOrders, Match, Matched, DropDuplicate,
       Connect, Pull, Break, WriterRound, WriterRoundFails, WriterSkips, WriterSaves, WriterFails,
       Crash, CrashInWrite

(* What TryMatch goes on with. *)
LEMMA BestOnes ==
    ASSUME NEW as, NEW bs, NEW m \in Crossing(as, bs)
    PROVE  /\ m[1] \in as /\ m[2] \in bs /\ IsBestAsk(m[1], as) /\ IsBestBid(m[2], bs)
           /\ m[1].price <= m[2].price
BY DEF Crossing

(* Every match carries what the log leaves of its orders: what TryMatch has in the
   book is what the log says. *)
LEMMA LinesStep ==
    ASSUME TypeOK, TypeOK', LogInv, LogInv', LinesInv, BookIsLog, [Next]_vars
    PROVE  LinesInv'
<1>1. AllMade(filedb)
  BY LinesIs
<1>2. CASE filedb' = filedb
  BY <1>1, <1>2, LinesNextIs
<1>3. ASSUME NEW m \in Crossing(asks, bids), pc = "match", TryMatch(m[1], m[2])
      PROVE  LinesInv'
  <2>1. m[1] \in asks /\ m[2] \in bids
    BY BestOnes
  <2>2. PICK l, i, j : TradeOf(l, i, j, m[1], m[2])
    BY <1>3, <2>1, MatchEffect
  <2>3. Grows(filedb, l, filedb') /\ IsTrade(filedb, l, i, j)
    BY <2>2 DEF TradeOf
  <2>4. AllMade(filedb')
    BY <1>1, <2>3, TradeIsMade
  <2> QED
    BY <2>4, LinesNextIs
<1>4. CASE NewTicket
  <2>1. CASE filedb' = filedb
    BY <1>2, <2>1
  <2>2. ASSUME NEW l, OrderOf(l) PROVE LinesInv'
    <3>1. Grows(filedb, l, filedb') /\ IsOrder(l)
      BY <2>2 DEF OrderOf, OrderLog, IsOrder
    <3>2. AllMade(filedb')
      BY <1>1, <3>1, OrderMakesNone
    <3> QED
      BY <3>2, LinesNextIs
  <2> QED
    BY <1>4, <2>1, <2>2, OrderEffect
<1> QED
  BY <1>2, <1>3, <1>4, LogSteps

-----------------------------------------------------------------------------
(* The book. *)

RowIn(F, r, i, n) ==
    /\ r.id = F[i].id /\ r.ticket = F[i].ticket /\ r.side = F[i].side /\ r.price = F[i].price
    /\ r.qty = LeftIn(F, r.id, n) /\ r.trades = Cardinality(TouchedIn(F, r.id, n))
    /\ r.status = IF r.qty = 0 THEN -1 ELSE 1

RowsIn(F, n, R) ==
    /\ \A r \in R : \E i \in OrdersIn(F) : i <= n /\ RowIn(F, r, i, n)
    /\ \A i \in OrdersIn(F) : i <= n => \E r \in R : r.id = F[i].id
    /\ \A r, q \in R : r.id = q.id => r = q

TapeIn(F, n) == {NewTrade(F[i]) : i \in {j \in MatchesIn(F) : j <= n}}

(* RowsInv, read before a step and after it. *)
LEMMA RowsAre ==
    RowsInv <=> RowsIn(filedb, lastkv.saved, orders) /\ trades = TapeIn(filedb, lastkv.saved)
<1>1. OrderLines = OrdersIn(filedb) /\ MatchLines = MatchesIn(filedb)
  BY NamesAre
<1>2. \A id, n : MatchesOf(id, n) = TouchedIn(filedb, id, n)
  BY NamesAre
<1>3. \A id, n : Left(id, n) = LeftIn(filedb, id, n)
  BY NamesAre
<1>4. \A r, i, n : RowOf(r, i, n) <=> RowIn(filedb, r, i, n)
  BY <1>2, <1>3 DEF RowOf, RowIn
<1> QED
  BY <1>1, <1>4 DEF RowsInv, RowsIn, TapeIn

LEMMA RowsNextAre ==
    RowsInv' <=> RowsIn(filedb', lastkv'.saved, orders') /\ trades' = TapeIn(filedb', lastkv'.saved)
<1>1. (RowsInv <=> RowsIn(filedb, lastkv.saved, orders) /\ trades = TapeIn(filedb, lastkv.saved))'
  BY RowsAre, PTL
<1> QED
  BY <1>1 DEF RowsIn, RowIn, TapeIn, MatchesIn, OrdersIn, LeftIn, LineIn, Traded, TouchedIn

(* MySQL's open rows are the book when MySQL has the whole log. *)
LEMMA BookOfRows ==
    ASSUME NEW F, IsLog(F), AllMade(F), NEW R, RowsIn(F, Len(F), R), NEW s
    PROVE  {ToOrder(r) : r \in {r \in R : r.side = s /\ r.status > -1}} = BookIn(F, s)
<1> DEFINE n == Len(F)
           O == {r \in R : r.side = s /\ r.status > -1}
<1>0. n \in 0 .. n /\ \A i \in OrdersIn(F) : i <= n
  <2>1. n \in Nat /\ \A i \in OrdersIn(F) : i \in 1 .. n
    BY LinesIn
  <2> QED
    BY <2>1
<1>1. ASSUME NEW r \in R, NEW i \in OrdersIn(F), RowIn(F, r, i, n)
      PROVE  ToOrder(r) = EntryIn(F, i) /\ (r \in O <=> i \in OpenIn(F, s))
  <2>1. /\ r.id = F[i].id /\ r.ticket = F[i].ticket /\ r.side = F[i].side /\ r.price = F[i].price
        /\ r.qty = LeftIn(F, F[i].id, n) /\ r.status = IF r.qty = 0 THEN -1 ELSE 1
    BY <1>1 DEF RowIn
  <2>2. LeftIn(F, F[i].id, n) \in Nat
    BY <1>0, LeftIsRemaining
  <2>3. r.status > -1 <=> LeftIn(F, F[i].id, n) > 0
    BY <2>1, <2>2
  <2> QED
    BY <2>1, <2>3 DEF ToOrder, EntryIn, OpenIn
<1>2. ASSUME NEW r \in O PROVE ToOrder(r) \in BookIn(F, s)
  <2>1. PICK i \in OrdersIn(F) : RowIn(F, r, i, n)
    BY DEF RowsIn
  <2>2. ToOrder(r) = EntryIn(F, i) /\ i \in OpenIn(F, s)
    BY <1>1, <2>1
  <2> QED
    BY <2>2 DEF BookIn
<1>3. ASSUME NEW i \in OpenIn(F, s) PROVE \E r \in O : EntryIn(F, i) = ToOrder(r)
  <2>1. i \in OrdersIn(F)
    BY DEF OpenIn
  <2>2. PICK r \in R : r.id = F[i].id
    BY <1>0, <2>1 DEF RowsIn
  <2>3. PICK k \in OrdersIn(F) : RowIn(F, r, k, n)
    BY DEF RowsIn
  <2>4. k = i
    BY <2>1, <2>2, <2>3 DEF RowIn, IsLog
  <2> QED
    BY <1>1, <2>3, <2>4
<1> QED
  BY <1>2, <1>3 DEF BookIn

(* The book stays what the log leaves open, through every step. *)
LEMMA BookStep ==
    ASSUME TypeOK, TypeOK', LogInv, LogInv', LinesInv, RowsInv, BookInv, [Next]_vars
    PROVE  BookInv'
<1>0. BookIsLog /\ (pc = "recv" => ~Crossed(asks, bids)) /\ AllMade(filedb) /\ IsLog(filedb)
  BY LinesIs, GoodLog DEF BookInv
<1>1. CASE UNCHANGED <<filedb, asks, bids>> /\ (Recovered' => Recovered) /\ (pc' = "recv" => pc = "recv")
  BY <1>0, <1>1, BookIs, BookNextIs DEF BookInv
<1>2. CASE ~Recovered'
  <2>1. pc' # "recv"
    BY <1>2 DEF Recovered
  <2> QED
    BY <1>2, <2>1, BookNextIs DEF BookInv
<1>3. CASE LoadAllOrders
  <2>1. /\ pc = "load" /\ pc' = "match" /\ filedb' = filedb
        /\ asks' = {ToOrder(r) : r \in OpenRows("ask")}
        /\ bids' = {ToOrder(r) : r \in OpenRows("bid")}
    BY <1>3 DEF LoadAllOrders, fileVars
  <2>2. lastkv.saved = Len(filedb)
    BY <2>1 DEF LogInv, MemoryInv
  <2>3. RowsIn(filedb, Len(filedb), orders)
    BY <2>2, RowsAre
  <2>4. asks' = BookIn(filedb, "ask") /\ bids' = BookIn(filedb, "bid")
    BY <1>0, <2>1, <2>3, BookOfRows DEF OpenRows
  <2> QED
    BY <2>1, <2>4, BookNextIs DEF BookInv
<1>4. ASSUME NEW m \in Crossing(asks, bids), pc = "match", TryMatch(m[1], m[2])
      PROVE  BookInv'
  <2>1. m[1] \in asks /\ m[2] \in bids
    BY BestOnes
  <2>2. PICK l, i, j : TradeOf(l, i, j, m[1], m[2])
    BY <1>0, <1>4, <2>1, MatchEffect
  <2>3. /\ Grows(filedb, l, filedb') /\ IsTrade(filedb, l, i, j)
        /\ i \in OpenIn(filedb, "ask") /\ EntryIn(filedb, i) = m[1]
        /\ j \in OpenIn(filedb, "bid") /\ EntryIn(filedb, j) = m[2]
        /\ l.qty = TradeQty(m[1], m[2])
        /\ LeftIn(filedb, filedb[i].id, Len(filedb)) >= l.qty
        /\ LeftIn(filedb, filedb[j].id, Len(filedb)) >= l.qty
        /\ filedb[i].side = "ask" /\ filedb[j].side = "bid"
    BY <2>2 DEF TradeOf, IsTrade
  <2>4. BookIn(filedb', "ask") = Fill(BookIn(filedb, "ask"), m[1], l.qty)
    BY <1>0, <2>3, TradeFills
  <2>5. BookIn(filedb', "bid") = Fill(BookIn(filedb, "bid"), m[2], l.qty)
    BY <1>0, <2>3, TradeFills
  <2>6. asks = BookIn(filedb, "ask") /\ bids = BookIn(filedb, "bid")
    BY <1>0, <1>4, BookIs DEF Recovered
  <2>7. /\ asks' = Fill(asks, m[1], l.qty) /\ bids' = Fill(bids, m[2], l.qty)
        /\ pc' = "match"
    BY <1>4, <2>3 DEF TryMatch
  <2>8. asks' = BookIn(filedb', "ask") /\ bids' = BookIn(filedb', "bid")
    BY <2>4, <2>5, <2>6, <2>7
  <2> QED
    BY <2>7, <2>8, BookNextIs DEF BookInv
<1>5. CASE NewTicket
  <2>1. CASE Halt
    BY <1>2, <2>1 DEF Halt, Recovered
  <2>2. CASE ~Halt
    <3>1. PICK l : OrderOf(l)
      BY <1>5, <2>2, OrderEffect
    <3>2. /\ l \in OrderLog /\ Grows(filedb, l, filedb')
          /\ l.id = orderID + 1 /\ l.ticket = Head(ch).id /\ l.side = Head(ch).side
          /\ l.price = Head(ch).price /\ l.qty = Head(ch).qty
      BY <3>1 DEF OrderOf
    <3> DEFINE o == [id |-> l.id, ticket |-> l.ticket, price |-> l.price, qty |-> l.qty]
    <3>3. /\ pc = "recv" /\ pc' = "match"
          /\ asks' = (IF l.side = "ask" THEN asks \cup {o} ELSE asks)
          /\ bids' = (IF l.side = "bid" THEN bids \cup {o} ELSE bids)
      BY <1>5, <2>2, <3>2 DEF NewTicket
    <3>4. asks = BookIn(filedb, "ask") /\ bids = BookIn(filedb, "bid")
      BY <1>0, <3>3, BookIs DEF Recovered
    <3>5. /\ BookIn(filedb', "ask") = (IF l.side = "ask" THEN BookIn(filedb, "ask") \cup {o}
                                                        ELSE BookIn(filedb, "ask"))
          /\ BookIn(filedb', "bid") = (IF l.side = "bid" THEN BookIn(filedb, "bid") \cup {o}
                                                        ELSE BookIn(filedb, "bid"))
      BY <1>0, <3>2, OrderIsOpen
    <3>6. asks' = BookIn(filedb', "ask") /\ bids' = BookIn(filedb', "bid")
      BY <3>3, <3>4, <3>5
    <3> QED
      BY <3>3, <3>6, BookNextIs DEF BookInv
  <2> QED
    BY <2>1, <2>2
<1>6. CASE Matched
  <2>1. pc = "match" /\ ~Crossed(asks, bids) /\ UNCHANGED <<filedb, asks, bids>>
    BY <1>6 DEF Matched, fileVars
  <2> QED
    BY <1>0, <2>1, BookIs, BookNextIs DEF BookInv, Recovered
<1>7. CASE DropDuplicate \/ Streams \/ (\E s \in Side, r \in Requests : Issue(s, r)) \/ UNCHANGED vars
  BY <1>1, <1>7 DEF DropDuplicate, Streams, Connect, Pull, Break, Issue, vars, bookVars,
                    fileVars, bankVars, Recovered
<1>8. CASE Writer
  BY <1>1, <1>8 DEF Writer, WriterRound, WriterRoundFails, WriterSkips, WriterSaves, WriterFails,
                    bookVars, fileVars, Recovered
<1>9. CASE Start \/ WaitForFiledb \/ RejectTorn \/ Crash \/ CrashInWrite
  BY <1>2, <1>9 DEF Start, WaitForFiledb, RejectTorn, Crash, CrashInWrite, Halt, Recovered
<1>10. CASE Match
  BY <1>4, <1>10 DEF Match
<1> QED
  BY <1>3, <1>5, <1>6, <1>7, <1>8, <1>9, <1>10 DEF Next, Main

-----------------------------------------------------------------------------
(* The tables. *)

(* A line that MySQL does not have yet changes nothing of what it has. *)
LEMMA RowsKept ==
    ASSUME NEW F, NEW l, NEW G, Grows(F, l, G), NEW n \in 0 .. Len(F), NEW R, RowsIn(F, n, R)
    PROVE  RowsIn(G, n, R) /\ TapeIn(G, n) = TapeIn(F, n)
<1>1. /\ Len(F) \in Nat /\ Len(G) = Len(F) + 1
      /\ DOMAIN F = 1 .. Len(F) /\ DOMAIN G = DOMAIN F \cup {Len(G)} /\ IsLog(F)
  BY LogNext
<1>2. \A i \in DOMAIN F : G[i] = F[i]
  BY LineKept
<1>3. \A i : i \in OrdersIn(F) /\ i <= n <=> i \in OrdersIn(G) /\ i <= n
  BY <1>1, <1>2 DEF OrdersIn
<1>4. \A i : i \in MatchesIn(F) /\ i <= n <=> i \in MatchesIn(G) /\ i <= n
  BY <1>1, <1>2 DEF MatchesIn
<1>5. ASSUME NEW r, NEW i \in OrdersIn(F), RowIn(F, r, i, n) PROVE RowIn(G, r, i, n)
  <2>1. /\ TouchedIn(G, F[i].id, n) = TouchedIn(F, F[i].id, n)
        /\ LeftIn(G, F[i].id, n) = LeftIn(F, F[i].id, n)
    BY LeftKept
  <2>2. G[i] = F[i]
    BY <1>2 DEF OrdersIn
  <2>3. r.id = F[i].id
    BY <1>5 DEF RowIn
  <2>4. LeftIn(G, r.id, n) = LeftIn(F, r.id, n) /\ TouchedIn(G, r.id, n) = TouchedIn(F, r.id, n)
    BY <2>1, <2>3
  <2> QED
    BY <1>5, <2>2, <2>4 DEF RowIn
<1>6. \A r \in R : \E i \in OrdersIn(G) : i <= n /\ RowIn(G, r, i, n)
  BY <1>3, <1>5 DEF RowsIn
<1>7. \A i \in OrdersIn(G) : i <= n => \E r \in R : r.id = G[i].id
  <2> SUFFICES ASSUME NEW i \in OrdersIn(G), i <= n PROVE \E r \in R : r.id = G[i].id
    OBVIOUS
  <2>1. i \in OrdersIn(F) /\ G[i] = F[i]
    BY <1>2, <1>3 DEF OrdersIn
  <2> QED
    BY <2>1 DEF RowsIn
<1>8. TapeIn(G, n) = TapeIn(F, n)
  <2>1. {j \in MatchesIn(G) : j <= n} = {j \in MatchesIn(F) : j <= n}
    BY <1>4
  <2>2. \A j \in MatchesIn(F) : G[j] = F[j]
    BY <1>2 DEF MatchesIn
  <2> QED
    BY <2>1, <2>2 DEF TapeIn
<1> QED
  BY <1>6, <1>7, <1>8 DEF RowsIn

(* The size of two sets that share nothing. *)
LEMMA SizeOfBoth ==
    \A A, B : IsFiniteSet(A) /\ IsFiniteSet(B) /\ A \cap B = {} =>
        /\ Cardinality(A) \in Nat /\ Cardinality(B) \in Nat
        /\ Cardinality(A \cup B) = Cardinality(A) + Cardinality(B)
<1> SUFFICES ASSUME NEW A, NEW B, IsFiniteSet(A), IsFiniteSet(B), A \cap B = {}
             PROVE  /\ Cardinality(A) \in Nat /\ Cardinality(B) \in Nat
                    /\ Cardinality(A \cup B) = Cardinality(A) + Cardinality(B)
  OBVIOUS
<1>1. Cardinality(A) \in Nat /\ Cardinality(B) \in Nat
  BY FS_CardinalityType
<1>2. Cardinality(A \cup B) = Cardinality(A) + Cardinality(B) - Cardinality(A \cap B)
  BY FS_Union
<1>3. Cardinality(A \cap B) = 0
  BY FS_EmptySet
<1> QED
  BY <1>1, <1>2, <1>3

(* A batch brings the row of an order from line m to line n. *)
LEMMA RowSaved ==
    ASSUME IsLog(filedb), AllMade(filedb), NEW m \in Nat, NEW n \in Nat, m < n, n <= Len(filedb),
           NEW S, S = {k \in 1 .. Len(filedb) : m < k /\ k <= n},
           NEW r \in OrderRow, NEW i \in OrdersIn(filedb), RowIn(filedb, r, i, m)
    PROVE  RowIn(filedb, Updated(r, S), i, n)
<1> DEFINE id == filedb[i].id
           ms == {k \in S : Touches(filedb[k], id)}
           A == TouchedIn(filedb, id, m)
           B == TouchedIn(filedb, id, n)
<1>1. /\ r.id = id /\ r.ticket = filedb[i].ticket /\ r.side = filedb[i].side
      /\ r.price = filedb[i].price /\ r.qty = LeftIn(filedb, id, m)
      /\ r.trades = Cardinality(A) /\ r.status = IF r.qty = 0 THEN -1 ELSE 1
  BY DEF RowIn
<1>2. Len(filedb) \in Nat /\ m \in 0 .. Len(filedb) /\ n \in 0 .. Len(filedb) /\ m \in 0 .. n
  <2>1. Len(filedb) \in Nat
    BY LinesIn
  <2> QED
    BY <2>1
<1>3. B = A \cup ms /\ A \cap ms = {} /\ \A k \in ms : k > m
  BY <1>2 DEF TouchedIn
<1>4. IsFiniteSet(A) /\ IsFiniteSet(B) /\ B \subseteq 1 .. n
  BY <1>2, TradesIn
<1>5. IsFiniteSet(ms)
  BY <1>3, <1>4, FS_Subset
<1>6. Cardinality(B) = Cardinality(A) + Cardinality(ms) /\ Cardinality(A) \in Nat /\ Cardinality(ms) \in Nat
  <2> HIDE DEF A, B, ms
  <2>1. Cardinality(A \cup ms) = Cardinality(A) + Cardinality(ms)
    BY <1>3, <1>4, <1>5, SizeOfBoth
  <2> QED
    BY <1>3, <1>4, <1>5, <2>1, SizeOfBoth
<1>7. /\ LeftIn(filedb, id, m) \in Nat /\ LeftIn(filedb, id, n) \in Nat
      /\ LeftIn(filedb, id, n) <= LeftIn(filedb, id, m)
  BY <1>2, LeftIsRemaining, LeftShrinks
<1>8. CASE ms = {}
  <2>1. Updated(r, S) = r
    BY <1>1, <1>8 DEF Updated
  <2>2. B = A
    BY <1>3, <1>8
  <2>3. LeftIn(filedb, id, n) = LeftIn(filedb, id, m)
    BY <2>2, LeftSame
  <2> QED
    BY <1>1, <2>1, <2>2, <2>3 DEF RowIn
<1>9. CASE ms # {}
  <2> DEFINE x == Max(ms)
             q == Remaining(filedb[x], id)
  <2>1. x \in ms /\ \A k \in ms : k <= x
    <3>1. ms \in SUBSET Nat /\ \A k \in ms : k <= n
      BY <1>2
    <3> HIDE DEF ms
    <3> QED
      BY <1>9, <3>1, MaxIsLargest
  <2>2. B # {}
    BY <1>3, <1>9
  <2>3. Max(B) \in B /\ (\A k \in B : k <= Max(B)) /\ LeftIn(filedb, id, n) = Remaining(filedb[Max(B)], id)
    BY <1>2, <2>2, LeftIsRemaining
  <2>4. Max(B) = x
    <3>1. PICK y : y = Max(B)
      OBVIOUS
    <3>2. x \in B /\ x \in Nat /\ y \in Nat /\ x > m
      BY <1>3, <1>4, <2>1, <2>3, <3>1
    <3>3. y >= x /\ y > m
      BY <2>3, <3>1, <3>2
    <3>4. y \in ms
      <4>1. y \notin A
        BY <1>2, <3>2, <3>3 DEF TouchedIn
      <4> QED
        BY <1>3, <2>3, <3>1, <4>1
    <3>5. y <= x
      BY <2>1, <3>4
    <3> HIDE DEF x
    <3> QED
      BY <3>1, <3>2, <3>3, <3>5
  <2>5. q = LeftIn(filedb, id, n)
    BY <2>3, <2>4
  <2> DEFINE c == Cardinality(ms)
             am == filedb[x].amount
             st == IF q = 0 THEN -1 ELSE r.status
  <2>6. Updated(r, S) = [r EXCEPT !.qty = q, !.amount = am, !.trades = @ + c, !.status = st]
    BY <1>1, <1>9 DEF Updated
  <2>7. st = IF q = 0 THEN -1 ELSE 1
    BY <1>1, <1>7, <2>5
  <2>8. c = Cardinality(ms)
    OBVIOUS
  <2> HIDE DEF c, am, st, q, x, ms
  <2>9. PICK u : u = Updated(r, S)
    OBVIOUS
  <2>10. /\ u.id = r.id /\ u.ticket = r.ticket /\ u.side = r.side /\ u.price = r.price
         /\ u.qty = q /\ u.trades = r.trades + c /\ u.status = st
    BY <2>6, <2>9 DEF OrderRow
  <2>11. RowIn(filedb, u, i, n)
    BY <1>1, <1>6, <2>5, <2>7, <2>8, <2>10 DEF RowIn
  <2> QED
    BY <2>9, <2>11
<1> QED
  BY <1>8, <1>9

(* The row of an order that MySQL does not have yet. *)
LEMMA RowMade ==
    ASSUME IsLog(filedb), AllMade(filedb), NEW m \in 0 .. Len(filedb),
           NEW i \in OrdersIn(filedb), m < i
    PROVE  NewRow(filedb[i]) \in OrderRow /\ RowIn(filedb, NewRow(filedb[i]), i, m)
<1> DEFINE id == filedb[i].id
           T == TouchedIn(filedb, id, m)
<1>0. i \in 1 .. Len(filedb) /\ filedb[i] \in OrderLog /\ Len(filedb) \in Nat
  BY LinesIn
<1>1. i \in 1 .. Len(filedb) /\ filedb[i] \in OrderLog /\ Len(filedb) \in Nat /\ m \in Nat
  BY <1>0
<1>2. NewRow(filedb[i]) \in OrderRow
  BY <1>1 DEF NewRow, OrderRow, OrderLog
<1>3. T = {}
  <2>1. \A k \in T : i < k
    BY TradesAfter
  <2>2. \A k \in T : k \in 1 .. m
    BY DEF TouchedIn
  <2> HIDE DEF T
  <2> QED
    BY <1>1, <2>1, <2>2
<1>4. LeftIn(filedb, id, m) = filedb[i].qty
  BY <1>3, LeftIsRemaining
<1>5. filedb[i].qty > 0
  BY DEF IsLog
<1>6. Cardinality(T) = 0
  BY <1>3, FS_EmptySet
<1>7. filedb[i].qty # 0
  BY <1>1, <1>5 DEF OrderLog
<1>8. PICK r : r = NewRow(filedb[i])
  OBVIOUS
<1>9. /\ r.id = id /\ r.ticket = filedb[i].ticket /\ r.side = filedb[i].side
      /\ r.price = filedb[i].price /\ r.qty = filedb[i].qty /\ r.trades = 0 /\ r.status = 1
  BY <1>8 DEF NewRow
<1>10. RowIn(filedb, r, i, m)
  BY <1>4, <1>6, <1>7, <1>9 DEF RowIn
<1> QED
  BY <1>2, <1>8, <1>10

(* A batch brings the tables from line m to line n. *)
LEMMA TablesSaved ==
    ASSUME IsLog(filedb), AllMade(filedb), NEW m \in Nat, NEW n \in Nat, m < n, n <= Len(filedb),
           NEW S, S = {k \in 1 .. Len(filedb) : m < k /\ k <= n},
           NEW R \in SUBSET OrderRow, RowsIn(filedb, m, R)
    PROVE  RowsIn(filedb, n, OrderRows(R, S))
<1> DEFINE N == {NewRow(filedb[i]) : i \in {j \in S : IsOrder(filedb[j])}}
           Q == OrderRows(R, S)
<1>1. Q = {Updated(r, S) : r \in R \cup N}
  BY DEF OrderRows
<1>2. Len(filedb) \in Nat /\ DOMAIN filedb = 1 .. Len(filedb) /\ m \in 0 .. Len(filedb)
  <2>1. Len(filedb) \in Nat /\ DOMAIN filedb = 1 .. Len(filedb)
    BY LinesIn
  <2> QED
    BY <2>1
<1>3. \A i : i \in S /\ IsOrder(filedb[i]) <=> i \in OrdersIn(filedb) /\ m < i /\ i <= n
  BY <1>2 DEF OrdersIn
<1>4. ASSUME NEW r \in R \cup N
      PROVE  r \in OrderRow /\ \E i \in OrdersIn(filedb) : i <= n /\ RowIn(filedb, r, i, m)
  <2>1. CASE r \in R
    <3>1. PICK i \in OrdersIn(filedb) : i <= m /\ RowIn(filedb, r, i, m)
      BY <2>1 DEF RowsIn
    <3>2. i \in Nat
      BY <1>2 DEF OrdersIn
    <3> QED
      BY <2>1, <3>1, <3>2
  <2>2. CASE r \in N
    <3>1. PICK i \in S : IsOrder(filedb[i]) /\ r = NewRow(filedb[i])
      BY <2>2
    <3>2. i \in OrdersIn(filedb) /\ m < i /\ i <= n
      BY <1>3, <3>1
    <3> QED
      BY <1>2, <3>1, <3>2, RowMade
  <2> QED
    BY <2>1, <2>2
<1>5. ASSUME NEW r \in R \cup N
      PROVE  \E i \in OrdersIn(filedb) :
                 i <= n /\ RowIn(filedb, r, i, m) /\ RowIn(filedb, Updated(r, S), i, n)
  BY <1>4, RowSaved
<1>6. ASSUME NEW q \in Q PROVE \E i \in OrdersIn(filedb) : i <= n /\ RowIn(filedb, q, i, n)
  BY <1>1, <1>5
<1>7. ASSUME NEW i \in OrdersIn(filedb), i <= n PROVE \E q \in Q : q.id = filedb[i].id
  <2>1. \E r \in R \cup N : r.id = filedb[i].id
    <3>1. CASE i <= m
      BY <3>1 DEF RowsIn
    <3>2. CASE ~(i <= m)
      <4>1. i \in Nat
        BY <1>2 DEF OrdersIn
      <4>2. i \in S /\ IsOrder(filedb[i])
        BY <1>3, <1>7, <3>2, <4>1
      <4>3. NewRow(filedb[i]) \in N
        BY <4>2
      <4>4. NewRow(filedb[i]).id = filedb[i].id
        BY DEF NewRow
      <4> QED
        BY <4>3, <4>4
    <3> QED
      BY <3>1, <3>2
  <2>2. PICK r \in R \cup N : r.id = filedb[i].id
    BY <2>1
  <2>3. Updated(r, S).id = r.id
    BY <1>5 DEF RowIn
  <2> QED
    BY <1>1, <2>2, <2>3
<1>8. ASSUME NEW r \in R \cup N, NEW q \in R \cup N, r.id = q.id PROVE r = q
  <2>1. PICK i \in OrdersIn(filedb) : RowIn(filedb, r, i, m)
    BY <1>4
  <2>2. PICK j \in OrdersIn(filedb) : RowIn(filedb, q, j, m)
    BY <1>4
  <2>3. i = j
    BY <1>8, <2>1, <2>2 DEF RowIn, IsLog
  <2>4. r \in R => i <= m
    <3>1. ASSUME r \in R PROVE i <= m
      <4>1. PICK k \in OrdersIn(filedb) : k <= m /\ RowIn(filedb, r, k, m)
        BY <3>1 DEF RowsIn
      <4>2. k = i
        BY <2>1, <4>1 DEF RowIn, IsLog
      <4> QED
        BY <4>1, <4>2
    <3> QED
      BY <3>1
  <2>5. q \in R => i <= m
    <3>1. ASSUME q \in R PROVE i <= m
      <4>1. PICK k \in OrdersIn(filedb) : k <= m /\ RowIn(filedb, q, k, m)
        BY <3>1 DEF RowsIn
      <4>2. k = j
        BY <2>2, <4>1 DEF RowIn, IsLog
      <4> QED
        BY <2>3, <4>1, <4>2
    <3> QED
      BY <3>1
  <2>6. ASSUME NEW x \in N, x.id = filedb[i].id PROVE x = NewRow(filedb[i]) /\ m < i
    <3>1. PICK k \in S : IsOrder(filedb[k]) /\ x = NewRow(filedb[k])
      BY <2>6
    <3>2. k \in OrdersIn(filedb) /\ m < k /\ x.id = filedb[k].id
      BY <1>3, <3>1 DEF NewRow
    <3>3. k = i
      BY <2>6, <3>2 DEF IsLog
    <3> QED
      BY <3>1, <3>2, <3>3
  <2>7. i \in Nat /\ r.id = filedb[i].id /\ q.id = filedb[i].id
    BY <1>2, <2>1, <2>2, <2>3 DEF OrdersIn, RowIn
  <2>8. CASE i <= m
    <3>1. r \in R /\ q \in R
      BY <2>6, <2>7, <2>8
    <3> QED
      BY <1>8, <3>1 DEF RowsIn
  <2>9. CASE ~(i <= m)
    <3>1. r \in N /\ q \in N
      BY <2>4, <2>5, <2>9
    <3> QED
      BY <2>6, <2>7, <3>1
  <2> QED
    BY <2>8, <2>9
<1>9. ASSUME NEW u \in Q, NEW v \in Q, u.id = v.id PROVE u = v
  <2>1. PICK r \in R \cup N : u = Updated(r, S)
    BY <1>1
  <2>2. PICK q \in R \cup N : v = Updated(q, S)
    BY <1>1
  <2>3. u.id = r.id
    BY <1>5, <2>1 DEF RowIn
  <2>4. v.id = q.id
    BY <1>5, <2>2 DEF RowIn
  <2> QED
    BY <1>8, <1>9, <2>1, <2>2, <2>3, <2>4
<1> QED
  BY <1>6, <1>7, <1>9 DEF RowsIn

(* A batch brings the trades from line m to line n. *)
LEMMA TapeSaved ==
    ASSUME IsLog(filedb), NEW m \in Nat, NEW n \in Nat, m < n, n <= Len(filedb),
           NEW S, S = {k \in 1 .. Len(filedb) : m < k /\ k <= n}
    PROVE  TradeRows(TapeIn(filedb, m), S) = TapeIn(filedb, n)
<1>1. Len(filedb) \in Nat /\ DOMAIN filedb = 1 .. Len(filedb)
  BY LinesIn
<1>2. {j \in MatchesIn(filedb) : j <= n}
          = {j \in MatchesIn(filedb) : j <= m} \cup {j \in S : IsMatch(filedb[j])}
  BY <1>1 DEF MatchesIn
<1> QED
  BY <1>2 DEF TradeRows, TapeIn

(* MySQL stays a copy of the lines it has. *)
LEMMA RowsStep ==
    ASSUME TypeOK, TypeOK', LogInv, LogInv', LinesInv, RowsInv, BookIsLog, [Next]_vars
    PROVE  RowsInv'
<1>0. /\ IsLog(filedb) /\ AllMade(filedb)
      /\ RowsIn(filedb, lastkv.saved, orders) /\ trades = TapeIn(filedb, lastkv.saved)
      /\ lastkv.saved \in 0 .. Len(filedb)
  <2>1. lastkv.saved <= Len(filedb) /\ lastkv.saved \in Nat /\ Len(filedb) \in Nat
    BY DEF LogInv, WriterInv, TypeOK
  <2> QED
    BY <2>1, GoodLog, LinesIs, RowsAre
<1>1. CASE UNCHANGED <<filedb, tableVars>>
  BY <1>0, <1>1, RowsNextAre DEF tableVars
<1>2. ASSUME NEW l, Grows(filedb, l, filedb'), UNCHANGED tableVars
      PROVE  RowsInv'
  <2>1. /\ RowsIn(filedb', lastkv.saved, orders)
        /\ TapeIn(filedb', lastkv.saved) = TapeIn(filedb, lastkv.saved)
    BY <1>0, <1>2, RowsKept
  <2> QED
    BY <1>0, <1>2, <2>1, RowsNextAre DEF tableVars
<1>3. ASSUME NEW m \in Crossing(asks, bids), pc = "match", TryMatch(m[1], m[2])
      PROVE  RowsInv'
  <2>1. m[1] \in asks /\ m[2] \in bids
    BY BestOnes
  <2>2. PICK l, i, j : TradeOf(l, i, j, m[1], m[2])
    BY <1>3, <2>1, MatchEffect
  <2>3. Grows(filedb, l, filedb') /\ UNCHANGED tableVars
    BY <1>3, <2>2 DEF TradeOf, TryMatch
  <2> QED
    BY <1>2, <2>3
<1>4. CASE NewTicket
  <2>1. UNCHANGED tableVars
    BY <1>4 DEF NewTicket
  <2>2. CASE filedb' = filedb
    BY <1>1, <2>1, <2>2
  <2>3. ASSUME NEW l, OrderOf(l) PROVE RowsInv'
    BY <1>2, <2>1, <2>3 DEF OrderOf
  <2> QED
    BY <1>4, <2>2, <2>3, OrderEffect
<1>5. ASSUME NEW n \in 1 .. BatchMax, CanTake(n), NotSaved(n) # {}, Save(NotSaved(n)),
             filedb' = filedb
      PROVE  RowsInv'
  <2>1. lastkv'.saved = writer + n
    BY <1>5, SaveStep
  <2>2. /\ writer \in Nat /\ writer + n \in 1 .. Len(filedb)
        /\ savedLogID = lastkv.saved /\ savedLogID \in Nat
        /\ NotSaved(n) = {i \in 1 .. Len(filedb) : savedLogID < i /\ i <= writer + n}
        /\ NotSaved(n) = {} <=> writer + n <= savedLogID
    BY <1>5, BatchStep
  <2>3. PICK a, b, S : a = lastkv.saved /\ b = writer + n /\ S = NotSaved(n)
    OBVIOUS
  <2>4. a \in Nat /\ b \in Nat /\ a < b /\ b <= Len(filedb) /\ Len(filedb) \in Nat
    BY <1>0, <1>5, <2>2, <2>3
  <2>5. S = {k \in 1 .. Len(filedb) : a < k /\ k <= b}
    BY <2>2, <2>3
  <2>6. orders \in SUBSET OrderRow /\ RowsIn(filedb, a, orders) /\ trades = TapeIn(filedb, a)
    BY <1>0, <2>3 DEF TypeOK
  <2>7. orders' = OrderRows(orders, S) /\ trades' = TradeRows(trades, S) /\ lastkv'.saved = b
    BY <1>5, <2>1, <2>3 DEF Save
  <2>8. RowsIn(filedb, b, orders')
    BY <1>0, <2>4, <2>5, <2>6, <2>7, TablesSaved
  <2>9. trades' = TapeIn(filedb, b)
    BY <1>0, <2>4, <2>5, <2>6, <2>7, TapeSaved
  <2> QED
    BY <1>5, <2>7, <2>8, <2>9, RowsNextAre
<1>6. CASE Writer
  <2>1. CASE WriterRound \/ WriterRoundFails \/ \E n \in 1 .. BatchMax : WriterSkips(n)
    BY <1>1, <2>1 DEF WriterRound, WriterRoundFails, WriterSkips, fileVars
  <2>2. CASE \E n \in 1 .. BatchMax : WriterSaves(n)
    BY <1>5, <2>2 DEF WriterSaves, fileVars
  <2>3. CASE \E n \in 1 .. BatchMax : WriterFails(n)
    BY <1>1, <1>5, <2>3 DEF WriterFails, fileVars
  <2> QED
    BY <1>6, <2>1, <2>2, <2>3 DEF Writer
<1>7. CASE Start \/ WaitForFiledb \/ RejectTorn \/ LoadAllOrders \/ Matched \/ DropDuplicate
           \/ Crash \/ CrashInWrite
  BY <1>1, <1>7 DEF Start, WaitForFiledb, RejectTorn, LoadAllOrders, Matched, DropDuplicate,
                    Crash, CrashInWrite, fileVars
<1>8. CASE Streams \/ (\E s \in Side, r \in Requests : Issue(s, r)) \/ UNCHANGED vars
  BY <1>1, <1>8 DEF Streams, Connect, Pull, Break, Issue, fileVars, vars
<1>9. CASE Match
  BY <1>3, <1>9 DEF Match
<1> QED
  BY <1>4, <1>6, <1>7, <1>8, <1>9 DEF Next, Main

-----------------------------------------------------------------------------
(* The tickets under way. *)

(* PullInv, as a fact about a channel C, the ticket c in work, the latest ids L and
   the last ones sent R. *)
Near(C, c, s, t, n) ==
    [side |-> s, id |-> t] = c \/ \E j \in 1 .. n : C[j].side = s /\ C[j].id = t

Pulled(C, c, L, R) ==
    /\ c # Idle => c.side \in Side /\ c.id = L[c.side] + 1
    /\ \A k \in DOMAIN C : \A t \in L[C[k].side] + 1 .. C[k].id : Near(C, c, C[k].side, t, k)
    /\ \A s \in Side : \A t \in L[s] + 1 .. R[s] : Near(C, c, s, t, Len(C))

AtRest(C, R) == C = <<>> /\ \A s \in Side : R[s] = Off

(* PullInv, read before a step and after it. *)
LEMMA PullIs ==
    PullInv <=> (~Recovered => AtRest(ch, stream)) /\ Pulled(ch, cur, latest, stream)
BY DEF PullInv, Pulled, AtRest, Near, AtHand

LEMMA PullNextIs ==
    PullInv' <=> (~Recovered' => AtRest(ch', stream')) /\ Pulled(ch', cur', latest', stream')
<1>1. PullInv' <=> ((~Recovered => AtRest(ch, stream)) /\ Pulled(ch, cur, latest, stream))'
  BY PullIs, PTL
<1> QED
  BY <1>1 DEF AtRest, Pulled, Near

(* The head of a channel is left; the others are one place further on. *)
LEMMA TailShape ==
    ASSUME NEW C \in Seq(Ticket), C # <<>>
    PROVE  /\ Len(C) \in Nat \ {0} /\ Head(C) = C[1] /\ 1 \in DOMAIN C /\ C[1] \in Ticket
           /\ Tail(C) \in Seq(Ticket)
           /\ DOMAIN Tail(C) = 1 .. Len(C) - 1 /\ Len(Tail(C)) = Len(C) - 1
           /\ \A k \in DOMAIN Tail(C) : k + 1 \in DOMAIN C /\ Tail(C)[k] = C[k + 1]
OBVIOUS

(* What is at hand in a channel is at hand in its tail, but for the head. *)
LEMMA TailNear ==
    ASSUME NEW C \in Seq(Ticket), C # <<>>, NEW c, NEW s, NEW t, NEW n \in 1 .. Len(C),
           Near(C, c, s, t, n)
    PROVE  (C[1].side = s /\ C[1].id = t) \/ Near(Tail(C), c, s, t, n - 1)
<1>1. CASE [side |-> s, id |-> t] = c
  BY <1>1 DEF Near
<1>2. ASSUME NEW j \in 1 .. n, C[j].side = s /\ C[j].id = t
      PROVE  (C[1].side = s /\ C[1].id = t) \/ Near(Tail(C), c, s, t, n - 1)
  <2>1. CASE j = 1
    BY <1>2, <2>1
  <2>2. CASE j # 1
    <3>1. Len(C) \in Nat /\ DOMAIN Tail(C) = 1 .. Len(C) - 1
      BY TailShape
    <3>2. j - 1 \in 1 .. n - 1 /\ j - 1 \in DOMAIN Tail(C) /\ (j - 1) + 1 = j
      BY <2>2, <3>1
    <3>3. Tail(C)[j - 1] = C[j]
      BY <3>2, TailShape
    <3> QED
      BY <1>2, <3>2, <3>3 DEF Near
  <2> QED
    BY <2>1, <2>2
<1> QED
  BY <1>1, <1>2 DEF Near

(* The head is not needed when it is not ticket t: it is an old one, or the ticket c
   that is now in work. *)
LEMMA LeavePulled ==
    ASSUME NEW C \in Seq(Ticket), C # <<>>, NEW c, NEW d, NEW L \in [Side -> Nat],
           NEW R \in [Side -> Nat \cup {-1}], Pulled(C, c, L, R),
           c = Idle \/ d = c, d # Idle => d.side \in Side /\ d.id = L[d.side] + 1,
           C[1].id <= L[C[1].side] \/ d = [side |-> C[1].side, id |-> C[1].id]
    PROVE  Pulled(Tail(C), d, L, R)
<1>1. /\ Len(C) \in Nat \ {0} /\ DOMAIN Tail(C) = 1 .. Len(C) - 1 /\ Len(Tail(C)) = Len(C) - 1
      /\ \A k \in DOMAIN Tail(C) : k + 1 \in DOMAIN C /\ Tail(C)[k] = C[k + 1]
  BY TailShape
<1>2. DOMAIN C = 1 .. Len(C) /\ \A k \in DOMAIN C : C[k].side \in Side /\ C[k].id \in Nat
  <2>1. DOMAIN C = 1 .. Len(C) /\ \A k \in DOMAIN C : C[k] \in Ticket
    OBVIOUS
  <2> QED
    BY <2>1 DEF Ticket
<1>3. ASSUME NEW s \in Side, NEW t \in Nat, t > L[s], NEW n \in 1 .. Len(C), Near(C, c, s, t, n)
      PROVE  Near(Tail(C), d, s, t, n - 1)
  <2>1. L[s] \in Nat
    OBVIOUS
  <2>2. CASE Near(Tail(C), c, s, t, n - 1)
    <3>1. [side |-> s, id |-> t] # Idle
      BY DEF Idle, Side
    <3> QED
      BY <2>2, <3>1 DEF Near
  <2>3. CASE C[1].side = s /\ C[1].id = t
    <3>1. ~(C[1].id <= L[C[1].side])
      BY <1>3, <2>1, <2>3
    <3> QED
      BY <2>3, <3>1 DEF Near
  <2> QED
    BY <1>3, <2>2, <2>3, TailNear
<1>4. ASSUME NEW k \in DOMAIN Tail(C), NEW t \in L[Tail(C)[k].side] + 1 .. Tail(C)[k].id
      PROVE  Near(Tail(C), d, Tail(C)[k].side, t, k)
  <2>1. PICK i : i = k + 1
    OBVIOUS
  <2>2. i \in DOMAIN C /\ C[i] = Tail(C)[k] /\ i \in 1 .. Len(C) /\ i - 1 = k
    BY <1>1, <1>2, <2>1
  <2>3. C[i].side \in Side /\ L[C[i].side] \in Nat /\ C[i].id \in Nat
    BY <1>2, <2>2
  <2>4. t \in L[C[i].side] + 1 .. C[i].id /\ t \in Nat /\ t > L[C[i].side]
    BY <2>2, <2>3
  <2>5. Near(C, c, C[i].side, t, i)
    BY <2>2, <2>4 DEF Pulled
  <2>6. Near(Tail(C), d, C[i].side, t, i - 1)
    BY <1>3, <2>2, <2>3, <2>4, <2>5
  <2> QED
    BY <2>2, <2>6
<1>5. ASSUME NEW s \in Side, NEW t \in L[s] + 1 .. R[s]
      PROVE  Near(Tail(C), d, s, t, Len(Tail(C)))
  <2>1. L[s] \in Nat /\ R[s] \in Int
    OBVIOUS
  <2>2. t \in Nat /\ t > L[s]
    BY <2>1
  <2>3. Near(C, c, s, t, Len(C)) /\ Len(C) \in 1 .. Len(C)
    BY <1>1 DEF Pulled
  <2> QED
    BY <1>1, <1>3, <2>2, <2>3
<1> QED
  BY <1>4, <1>5 DEF Pulled

(* The ticket in work is done: it is the latest of its side now. *)
LEMMA DonePulled ==
    ASSUME NEW C \in Seq(Ticket), NEW c, NEW L \in [Side -> Nat],
           NEW R \in [Side -> Nat \cup {-1}], Pulled(C, c, L, R),
           NEW M, M = (IF c = Idle THEN L ELSE [L EXCEPT ![c.side] = c.id])
    PROVE  Pulled(C, Idle, M, R)
<1>1. CASE c = Idle
  BY <1>1
<1>2. CASE c # Idle
  <2>1. /\ c.side \in Side /\ c.id = L[c.side] + 1
        /\ M[c.side] = c.id /\ \A s \in Side : s # c.side => M[s] = L[s]
    BY <1>2 DEF Pulled
  <2>2. \A s \in Side : L[s] \in Nat /\ M[s] \in Nat /\ L[s] <= M[s] /\ (s = c.side => M[s] = c.id)
    BY <2>1
  <2>3. ASSUME NEW s \in Side, NEW v \in Int, NEW t \in M[s] + 1 .. v, NEW n,
               Near(C, c, s, t, n)
        PROVE  Near(C, Idle, s, t, n)
    <3>1. [side |-> s, id |-> t] # c
      BY <2>2
    <3> QED
      BY <2>3, <3>1 DEF Near
  <2>4. ASSUME NEW s \in Side, NEW v \in Int
        PROVE  \A t \in M[s] + 1 .. v : t \in L[s] + 1 .. v
    BY <2>2
  <2>5. \A k \in DOMAIN C : C[k].side \in Side /\ C[k].id \in Int
    <3>1. \A k \in DOMAIN C : C[k] \in Ticket
      OBVIOUS
    <3>2. \A e \in Ticket : e.side \in Side /\ e.id \in Int
      BY DEF Ticket
    <3> QED
      BY <3>1, <3>2
  <2>6. ASSUME NEW k \in DOMAIN C, NEW t \in M[C[k].side] + 1 .. C[k].id
        PROVE  Near(C, Idle, C[k].side, t, k)
    <3>1. t \in L[C[k].side] + 1 .. C[k].id
      BY <2>4, <2>5
    <3>2. Near(C, c, C[k].side, t, k)
      BY <3>1 DEF Pulled
    <3> QED
      BY <2>3, <2>5, <3>2
  <2>7. ASSUME NEW s \in Side, NEW t \in M[s] + 1 .. R[s]
        PROVE  Near(C, Idle, s, t, Len(C))
    <3>1. R[s] \in Int
      OBVIOUS
    <3>2. t \in L[s] + 1 .. R[s]
      BY <2>4, <3>1
    <3>3. Near(C, c, s, t, Len(C))
      BY <3>2 DEF Pulled
    <3> QED
      BY <2>3, <3>1, <3>3
  <2> QED
    BY <2>6, <2>7 DEF Pulled
<1> QED
  BY <1>1, <1>2

(* The stream sends the next ticket. *)
LEMMA SentPulled ==
    ASSUME NEW C \in Seq(Ticket), NEW c, NEW L \in [Side -> Nat],
           NEW R \in [Side -> Nat \cup {-1}], Pulled(C, c, L, R),
           NEW s \in Side, NEW e, e.side = s, e.id = R[s] + 1,
           NEW D, D = Append(C, e), NEW Q, Q = [R EXCEPT ![s] = R[s] + 1]
    PROVE  Pulled(D, c, L, Q)
<1>1. /\ Len(C) \in Nat /\ DOMAIN C = 1 .. Len(C) /\ DOMAIN D = DOMAIN C \cup {Len(C) + 1}
      /\ D[Len(C) + 1] = e /\ Len(D) = Len(C) + 1 /\ \A k \in DOMAIN C : D[k] = C[k]
  OBVIOUS
<1>2. Q[s] = R[s] + 1 /\ \A r \in Side : r # s => Q[r] = R[r]
  OBVIOUS
<1>3. ASSUME NEW r, NEW t, NEW n \in 0 .. Len(C), NEW m \in n .. Len(D), Near(C, c, r, t, n)
      PROVE  Near(D, c, r, t, m)
  <2>1. \A j \in 1 .. n : j \in 1 .. m /\ D[j] = C[j]
    BY <1>1
  <2> QED
    BY <1>3, <2>1 DEF Near
<1>4. \A t \in L[s] + 1 .. R[s] + 1 : Near(D, c, s, t, Len(D))
  <2> SUFFICES ASSUME NEW t \in L[s] + 1 .. R[s] + 1 PROVE Near(D, c, s, t, Len(D))
    OBVIOUS
  <2>1. CASE t = R[s] + 1
    <3>1. Len(D) \in 1 .. Len(D) /\ D[Len(D)] = e
      BY <1>1
    <3> QED
      BY <2>1, <3>1 DEF Near
  <2>2. CASE t # R[s] + 1
    <3>1. L[s] \in Nat /\ R[s] \in Int
      OBVIOUS
    <3>2. t \in L[s] + 1 .. R[s]
      BY <2>2, <3>1
    <3>3. Near(C, c, s, t, Len(C))
      BY <3>2 DEF Pulled
    <3>4. Len(C) \in 0 .. Len(C) /\ Len(D) \in Len(C) .. Len(D)
      BY <1>1
    <3> QED
      BY <1>3, <3>3, <3>4
  <2> QED
    BY <2>1, <2>2
<1>5. ASSUME NEW k \in DOMAIN D, NEW t \in L[D[k].side] + 1 .. D[k].id
      PROVE  Near(D, c, D[k].side, t, k)
  <2>1. CASE k \in DOMAIN C
    <3>1. D[k] = C[k] /\ k \in 0 .. Len(C) /\ k \in k .. Len(D)
      BY <1>1, <2>1
    <3>2. Near(C, c, C[k].side, t, k)
      BY <2>1, <3>1 DEF Pulled
    <3> QED
      BY <1>3, <3>1, <3>2
  <2>2. CASE k = Len(C) + 1
    BY <1>1, <1>4, <2>2
  <2> QED
    BY <1>1, <2>1, <2>2
<1>6. ASSUME NEW r \in Side, NEW t \in L[r] + 1 .. Q[r]
      PROVE  Near(D, c, r, t, Len(D))
  <2>1. CASE r = s
    BY <1>2, <1>4, <2>1
  <2>2. CASE r # s
    <3>1. Near(C, c, r, t, Len(C))
      BY <1>2, <2>2 DEF Pulled
    <3>2. Len(C) \in 0 .. Len(C) /\ Len(D) \in Len(C) .. Len(D)
      BY <1>1
    <3> QED
      BY <1>3, <3>1, <3>2
  <2> QED
    BY <2>1, <2>2
<1> QED
  BY <1>5, <1>6 DEF Pulled

(* A stream opens behind the latest ticket, or breaks. *)
LEMMA ResumedPulled ==
    ASSUME NEW C, NEW c, NEW L \in [Side -> Nat],
           NEW R \in [Side -> Nat \cup {-1}], Pulled(C, c, L, R),
           NEW s \in Side, NEW v \in {-1, L[s]}, NEW Q, Q = [R EXCEPT ![s] = v]
    PROVE  Pulled(C, c, L, Q)
<1>1. Q[s] = v /\ \A r \in Side : r # s => Q[r] = R[r]
  OBVIOUS
<1>2. L[s] + 1 .. v = {}
  OBVIOUS
<1> QED
  BY <1>1, <1>2 DEF Pulled

(* A process that is down has pulled nothing. *)
LEMMA NothingPulled ==
    ASSUME NEW L \in [Side -> Nat], NEW R, \A s \in Side : R[s] = Off
    PROVE  Pulled(<<>>, Idle, L, R)
<1>1. \A s \in Side : L[s] + 1 .. R[s] = {}
  BY DEF Off
<1> QED
  BY <1>1 DEF Pulled

(* The types of what is under way. *)
LEMMA PullTypes ==
    ASSUME TypeOK
    PROVE  /\ ch \in Seq(Ticket) /\ latest \in [Side -> Nat] /\ stream \in [Side -> Nat \cup {-1}]
BY DEF TypeOK, Off

(* PullInv holds at first. *)
LEMMA PullInit == Init => PullInv
<1> SUFFICES ASSUME Init PROVE PullInv
  OBVIOUS
<1>1. Pulled(ch, cur, latest, stream) /\ AtRest(ch, stream)
  BY NothingPulled DEF Init, AtRest
<1> QED
  BY <1>1, PullIs

(* No step leaves a ticket out. *)
LEMMA PullStep == TypeOK /\ TypeOK' /\ LogInv /\ PullInv /\ [Next]_vars => PullInv'
<1> SUFFICES ASSUME TypeOK, TypeOK', LogInv, PullInv, [Next]_vars PROVE PullInv'
  OBVIOUS
<1>1. (~Recovered => AtRest(ch, stream)) /\ Pulled(ch, cur, latest, stream)
  BY PullIs
<1>2. /\ ch \in Seq(Ticket) /\ latest \in [Side -> Nat] /\ stream \in [Side -> Nat \cup {-1}]
      /\ latest' \in [Side -> Nat]
  BY DEF TypeOK, Off
<1>3. pc # "match" => cur = Idle
  BY DEF LogInv, MemoryInv
<1>4. CASE UNCHANGED <<ch, cur, latest, stream>> /\ (Recovered <=> Recovered')
  BY <1>1, <1>4, PullNextIs
<1>5. CASE Halt
  <2>1. AtRest(ch', stream') /\ Pulled(ch', cur', latest', stream')
    BY <1>2, <1>5, NothingPulled DEF Halt, AtRest
  <2> QED
    BY <2>1, PullNextIs
<1>6. CASE LoadAllOrders
  <2>1. pc = "load" /\ UNCHANGED <<ch, cur, stream>>
    BY <1>6 DEF LoadAllOrders, bankVars
  <2>2. ~Recovered /\ cur = Idle
    BY <1>3, <2>1 DEF Recovered
  <2>3. AtRest(ch', stream') /\ Pulled(ch', cur', latest', stream')
    BY <1>1, <1>2, <2>1, <2>2, NothingPulled DEF AtRest
  <2> QED
    BY <2>3, PullNextIs
<1>7. CASE Matched
  <2>1. /\ pc' = "recv" /\ UNCHANGED <<ch, stream>> /\ cur' = Idle
        /\ latest' = IF cur = Idle THEN latest ELSE [latest EXCEPT ![cur.side] = cur.id]
    BY <1>7 DEF Matched, bankVars
  <2>2. Pulled(ch', cur', latest', stream')
    BY <1>1, <1>2, <2>1, DonePulled
  <2>3. Recovered'
    BY <2>1 DEF Recovered
  <2> QED
    BY <2>2, <2>3, PullNextIs
<1>8. CASE DropDuplicate
  <2>1. /\ pc = "recv" /\ ch # <<>> /\ ch' = Tail(ch) /\ ch[1].id <= latest[ch[1].side]
        /\ UNCHANGED <<stream, pc, cur, latest>>
    BY <1>2, <1>8, TailShape DEF DropDuplicate, bookVars
  <2>2. cur = Idle
    BY <1>3, <2>1
  <2>3. Pulled(ch', cur', latest', stream')
    BY <1>1, <1>2, <2>1, <2>2, LeavePulled
  <2>4. Recovered'
    BY <2>1 DEF Recovered
  <2> QED
    BY <2>3, <2>4, PullNextIs
<1>9. CASE NewTicket
  <2>1. pc = "recv" /\ ch # <<>> /\ ch[1] \in Ticket /\ Head(ch) = ch[1]
    BY <1>2, <1>9, TailShape DEF NewTicket
  <2>2. CASE ~Halt
    <3>1. /\ ch[1].id = latest[ch[1].side] + 1 /\ ch' = Tail(ch) /\ pc' = "match"
          /\ cur' = [side |-> ch[1].side, id |-> ch[1].id]
          /\ UNCHANGED <<stream, latest>>
      BY <1>9, <2>1, <2>2 DEF NewTicket
    <3>2. cur = Idle /\ ch[1].side \in Side /\ ch[1].id \in Nat
      BY <1>3, <2>1 DEF Ticket
    <3>3. cur'.side \in Side /\ cur'.id = latest[cur'.side] + 1
      BY <3>1, <3>2
    <3>4. Pulled(ch', cur', latest', stream')
      BY <1>1, <1>2, <2>1, <3>1, <3>2, <3>3, LeavePulled
    <3>5. Recovered'
      BY <3>1 DEF Recovered
    <3> QED
      BY <3>4, <3>5, PullNextIs
  <2> QED
    BY <1>5, <2>2
<1>10. ASSUME NEW s \in Side, Connect(s) PROVE PullInv'
  <2>1. Recovered' /\ stream' = [stream EXCEPT ![s] = latest[s]] /\ UNCHANGED <<ch, cur, latest>>
    BY <1>10 DEF Connect, PullsStarted, ResumeAfter, Recovered, bookVars
  <2>2. Pulled(ch', cur', latest', stream')
    BY <1>1, <1>2, <2>1, ResumedPulled
  <2> QED
    BY <2>1, <2>2, PullNextIs
<1>11. ASSUME NEW s \in Side, Break(s) PROVE PullInv'
  <2>1. /\ stream' = [stream EXCEPT ![s] = -1] /\ stream[s] # Off
        /\ UNCHANGED <<ch, cur, latest, pc>>
    BY <1>11 DEF Break, bookVars, Off
  <2>2. Pulled(ch', cur', latest', stream')
    BY <1>1, <1>2, <2>1, ResumedPulled
  <2>3. Recovered'
    BY <1>1, <2>1 DEF AtRest, Recovered
  <2> QED
    BY <2>2, <2>3, PullNextIs
<1>12. ASSUME NEW s \in Side, Pull(s) PROVE PullInv'
  <2>1. /\ stream' = [stream EXCEPT ![s] = stream[s] + 1] /\ stream[s] # Off
        /\ UNCHANGED <<cur, latest, pc>>
    BY <1>12 DEF Pull, bookVars
  <2>2. PICK e : ch' = Append(ch, e) /\ e.side = s /\ e.id = stream[s] + 1
    BY <1>12 DEF Pull
  <2>3. Pulled(ch', cur', latest', stream')
    BY <1>1, <1>2, <2>1, <2>2, SentPulled
  <2>4. Recovered'
    BY <1>1, <2>1 DEF AtRest, Recovered
  <2> QED
    BY <2>3, <2>4, PullNextIs
<1>13. CASE (\E s \in Side, r \in Requests : Issue(s, r)) \/ UNCHANGED vars
  BY <1>4, <1>13 DEF Issue, vars, bankVars, bookVars, Recovered
<1>14. CASE Start \/ WaitForFiledb \/ Match
  BY <1>4, <1>14 DEF Start, WaitForFiledb, Match, TryMatch, bankVars, bookVars, Recovered
<1>15. CASE Writer
  BY <1>4, <1>15 DEF Writer, WriterRound, WriterRoundFails, WriterSkips, WriterSaves, WriterFails,
                     bankVars, bookVars, Recovered
<1>16. CASE RejectTorn \/ Crash \/ CrashInWrite
  BY <1>5, <1>16 DEF RejectTorn, Crash, CrashInWrite
<1> QED
  BY <1>6, <1>7, <1>8, <1>9, <1>10, <1>11, <1>12, <1>13, <1>14, <1>15, <1>16
     DEF Next, Main, Streams

-----------------------------------------------------------------------------
(* The inductive invariant. *)

(* It holds at first. *)
LEMMA EngineInit == Init => EngineInv
<1> SUFFICES ASSUME Init PROVE EngineInv
  OBVIOUS
<1>1. LogInv /\ PullInv
  BY LogInvInit, PullInit
<1>2. filedb = <<>> /\ orders = {} /\ trades = {} /\ pc = "down"
  BY DEF Init
<1>3. OrderLines = {} /\ MatchLines = {}
  BY <1>2 DEF OrderLines, MatchLines, Lines
<1>4. LinesInv
  BY <1>3 DEF LinesInv
<1>5. RowsInv
  BY <1>2, <1>3 DEF RowsInv
<1>6. BookInv
  BY <1>2 DEF BookInv, BookIsLog
<1> QED
  BY <1>1, <1>4, <1>5, <1>6 DEF EngineInv

(* Every step keeps it. *)
LEMMA EngineStep == TypeOK /\ EngineInv /\ [Next]_vars => TypeOK' /\ EngineInv'
<1> SUFFICES ASSUME TypeOK, EngineInv, [Next]_vars PROVE TypeOK' /\ EngineInv'
  OBVIOUS
<1>1. LogInv /\ PullInv /\ LinesInv /\ RowsInv /\ BookInv /\ BookIsLog
  BY DEF EngineInv, BookInv
<1>2. TypeOK'
  BY TypeStep
<1>3. LogInv'
  BY <1>1, <1>2, LogInvStep
<1>4. PullInv'
  BY <1>1, <1>2, PullStep
<1>5. LinesInv'
  BY <1>1, <1>2, <1>3, LinesStep
<1>6. RowsInv'
  BY <1>1, <1>2, <1>3, RowsStep
<1>7. BookInv'
  BY <1>1, <1>2, <1>3, BookStep
<1> QED
  BY <1>2, <1>3, <1>4, <1>5, <1>6, <1>7 DEF EngineInv

(* It holds with the types. *)
LEMMA EngineCorrect == Spec => [](TypeOK /\ EngineInv)
<1>1. Init => TypeOK /\ EngineInv
  BY TypeInit, EngineInit
<1> QED
  BY <1>1, EngineStep, PTL DEF Spec

(* Log, tables, tickets under way and book agree in every reachable state, whatever
   number of tickets and faults, whatever the capacity of w.ch and the batches. *)
THEOREM EngineInvariant == Spec => []EngineInv
BY EngineCorrect, PTL

(* However the streams break and the process restarts, no ticket that waits in w.ch
   has a missing one before it: "ticket id is not continuous" (TicketToMatchEngine)
   cannot end the engine. *)
THEOREM NoGapInChannelCorrect == Spec => []NoGapInChannel
<1>1. EngineInv => NoGapInChannel
  BY DEF EngineInv, PullInv, NoGapInChannel, AtHand
<1> QED
  BY <1>1, EngineInvariant, PTL

(* The book is what the log leaves open, whether it was built up trade by trade or
   reloaded from MySQL (NewAsk, NewBid, TryMatch, LoadAllOrders). *)
THEOREM BookIsLogCorrect == Spec => []BookIsLog
<1>1. EngineInv => BookIsLog
  BY DEF EngineInv, BookInv
<1> QED
  BY <1>1, EngineInvariant, PTL

(* The orders that MySQL has are told apart by their ids. *)
LEMMA RowsAreIDs ==
    ASSUME TypeOK, LogInv, RowsInv,
           NEW ids, ids = {filedb[i].id : i \in OrderLines \cap 1 .. lastkv.saved}
    PROVE  {r.id : r \in orders} = ids /\ Cardinality(orders) = Cardinality(ids)
<1> DEFINE n == lastkv.saved
           L == OrderLines \cap 1 .. n
           h == [i \in L |-> filedb[i].id]
           f == [r \in orders |-> r.id]
<1>1. n \in Nat /\ \A i \in OrderLines : i \in L <=> i <= n
  BY SMTT(30), LinesType DEF TypeOK
<1>2. IsFiniteSet(L)
  <2>1. n \in Int /\ 0 \in Int /\ 1 \in Int
    BY <1>1
  <2>2. IsFiniteSet(1 .. n)
    BY <2>1, FS_Interval
  <2> QED
    BY <2>2, FS_Subset
<1>3. h \in Surjection(L, ids)
  BY DEF Surjection
<1>4. IsFiniteSet(ids)
  BY <1>2, <1>3, FS_Surjection
<1>5. \A r \in orders : r.id \in ids
  <2> SUFFICES ASSUME NEW r \in orders PROVE r.id \in ids
    OBVIOUS
  <2>1. PICK i \in OrderLines : i <= n /\ RowOf(r, i, n)
    BY DEF RowsInv
  <2>2. r.id = filedb[i].id /\ i \in L
    BY <1>1, <2>1 DEF RowOf
  <2> QED
    BY <2>2
<1>6. \A x \in ids : \E r \in orders : r.id = x
  BY <1>1 DEF RowsInv
<1>7. f \in Injection(orders, ids)
  BY <1>5 DEF Injection, IsInjective, RowsInv
<1>8. f \in Surjection(orders, ids)
  BY <1>5, <1>6 DEF Surjection
<1>9. Cardinality(orders) = Cardinality(ids)
  <2> HIDE DEF f
  <2> QED
    BY <1>4, <1>7, <1>8, FS_Injection
<1> QED
  BY <1>5, <1>6, <1>9

(* Whatever batches, rolled-back transactions, lost answers and restarts there were,
   MySQL has the first lines of the log and nothing else, each of them once: the
   orders, what their trades have left of them, and the trades
   (FiledbToMySQL, ParseAndWriteLogs, WriteLogsToMySQL). *)
THEOREM MySQLIsPrefixCorrect == Spec => []MySQLIsPrefix
<1>1. ASSUME TypeOK, EngineInv PROVE MySQLIsPrefix
  <2> DEFINE n == lastkv.saved
             ids == {filedb[i].id : i \in OrderLines \cap 1 .. n}
  <2>1. LogInv /\ RowsInv
    BY <1>1 DEF EngineInv
  <2>2. n <= Len(filedb) /\ n \in Nat /\ Len(filedb) \in Nat /\ DOMAIN filedb = 1 .. Len(filedb)
    BY <1>1, <2>1 DEF LogInv, WriterInv, TypeOK
  <2>3. {r.id : r \in orders} = ids /\ Cardinality(orders) = Cardinality(ids)
    BY <1>1, <2>1, RowsAreIDs
  <2>4. ASSUME NEW r \in orders
        PROVE  /\ r.qty = Left(r.id, n) /\ r.trades = Cardinality(MatchesOf(r.id, n))
               /\ r.status = IF r.qty = 0 THEN -1 ELSE 1
    BY <2>1 DEF RowsInv, RowOf
  <2>5. {j \in 1 .. n : IsMatch(filedb[j])} = {j \in MatchLines : j <= n}
    BY <2>2 DEF MatchLines, Lines
  <2>6. trades = {NewTrade(filedb[i]) : i \in {j \in 1 .. n : IsMatch(filedb[j])}}
    BY <2>1, <2>5 DEF RowsInv
  <2> HIDE DEF n
  <2> QED
    BY <2>2, <2>3, <2>4, <2>6 DEF MySQLIsPrefix, n
<1> QED
  BY <1>1, EngineCorrect, PTL

-----------------------------------------------------------------------------
(* Priority among asks. *)

(* AskTimePriority, as a fact about a log. *)
IsPrior(F, i) ==
    \A a \in OrdersIn(F) :
        /\ F[a].side = "ask" /\ a < i /\ F[a].id < F[i].ask
        /\ F[a].price = LineIn(F, F[i].ask).price
        => LeftIn(F, F[a].id, i - 1) = 0

AllPrior(F) == \A i \in MatchesIn(F) : IsPrior(F, i)

(* AskTimePriority, read before a step and after it. *)
LEMMA PriorityIs == AskTimePriority <=> AllPrior(filedb)
<1>1. /\ MatchLines = MatchesIn(filedb)
      /\ \A s : OrderLinesOf(s) = {i \in OrdersIn(filedb) : filedb[i].side = s}
  BY NamesAre
<1>2. \A id : LineOf(id) = LineIn(filedb, id)
  BY NamesAre
<1>3. \A id, n : Left(id, n) = LeftIn(filedb, id, n)
  BY NamesAre
<1>4. \A i : i \in MatchLines <=> i \in Lines /\ IsMatch(filedb[i])
  BY DEF MatchLines
<1> QED
  BY <1>1, <1>2, <1>3, <1>4 DEF AskTimePriority, AllPrior, IsPrior

LEMMA PriorityNextIs == AskTimePriority' <=> AllPrior(filedb')
<1>1. (AskTimePriority <=> AllPrior(filedb))'
  BY PriorityIs, PTL
<1> QED
  BY <1>1 DEF AllPrior, IsPrior, MatchesIn, OrdersIn, LeftIn, LineIn, Traded, TouchedIn

(* A line more changes nothing for the matches before it. *)
LEMMA PriorKept ==
    ASSUME NEW F, NEW l, NEW G, Grows(F, l, G), AllMade(F), AllPrior(F)
    PROVE  \A i \in MatchesIn(G) : i = Len(G) \/ IsPrior(G, i)
<1>1. /\ Len(F) \in Nat /\ Len(G) = Len(F) + 1
      /\ DOMAIN F = 1 .. Len(F) /\ DOMAIN G = DOMAIN F \cup {Len(G)} /\ IsLog(F) /\ IsLog(G)
  BY LogNext
<1>2. \A i \in DOMAIN F : G[i] = F[i]
  BY LineKept
<1> SUFFICES ASSUME NEW i \in MatchesIn(G), i # Len(G), NEW a \in OrdersIn(G),
                    G[a].side = "ask", a < i, G[a].id < G[i].ask,
                    G[a].price = LineIn(G, G[i].ask).price
             PROVE  LeftIn(G, G[a].id, i - 1) = 0
  BY DEF IsPrior
<1>3. i \in MatchesIn(F) /\ i \in 1 .. Len(F) /\ G[i] = F[i] /\ i - 1 \in 0 .. Len(F)
  BY <1>1, <1>2 DEF MatchesIn
<1>4. a \in OrdersIn(F) /\ G[a] = F[a]
  BY <1>1, <1>2, <1>3 DEF OrdersIn
<1>5. PICK x \in OrdersIn(F) : F[x].id = F[i].ask
  BY <1>3 DEF AllMade, IsMade
<1>6. G[x] = F[x] /\ x \in OrdersIn(G)
  BY <1>1, <1>2, <1>5 DEF OrdersIn
<1>7. LineIn(F, F[x].id) = F[x] /\ LineIn(G, G[x].id) = G[x]
  BY <1>1, <1>6, LinesIn
<1>8. LineIn(G, G[i].ask) = LineIn(F, F[i].ask)
  BY <1>3, <1>5, <1>6, <1>7
<1>9. LeftIn(F, F[a].id, i - 1) = 0
  BY <1>3, <1>4, <1>8 DEF AllPrior, IsPrior
<1>10. LeftIn(G, F[a].id, i - 1) = LeftIn(F, F[a].id, i - 1)
  <2>1. PICK k : k = i - 1
    OBVIOUS
  <2>2. k \in 0 .. Len(F)
    BY <1>3, <2>1
  <2>3. LeftIn(G, F[a].id, k) = LeftIn(F, F[a].id, k)
    BY <1>4, <2>2, LeftKept
  <2> QED
    BY <2>1, <2>3
<1> QED
  BY <1>4, <1>9, <1>10

(* The best ask is older than every other open ask of its price. *)
LEMMA PriorityStep ==
    ASSUME TypeOK, TypeOK', LogInv, LogInv', LinesInv, BookIsLog, AskTimePriority, [Next]_vars
    PROVE  AskTimePriority'
<1>1. AllMade(filedb) /\ AllPrior(filedb) /\ IsLog(filedb)
  BY LinesIs, PriorityIs, GoodLog
<1>2. CASE filedb' = filedb
  BY <1>1, <1>2, PriorityNextIs
<1>3. ASSUME NEW m \in Crossing(asks, bids), pc = "match", TryMatch(m[1], m[2])
      PROVE  AskTimePriority'
  <2>1. m[1] \in asks /\ m[2] \in bids /\ IsBestAsk(m[1], asks)
    BY BestOnes
  <2>2. PICK l, i, j : TradeOf(l, i, j, m[1], m[2])
    BY <1>3, <2>1, MatchEffect
  <2>3. PICK F, G, best, n : F = filedb /\ G = filedb' /\ best = m[1] /\ n = Len(filedb)
    OBVIOUS
  <2>4. /\ Grows(F, l, G) /\ i \in OrdersIn(F) /\ l.ask = F[i].id
        /\ EntryIn(F, i) = best /\ AllMade(F) /\ AllPrior(F)
    BY <1>1, <2>2, <2>3 DEF TradeOf, IsTrade
  <2>5. IsBestAsk(best, BookIn(F, "ask"))
    BY <1>3, <2>1, <2>3, BookIs DEF Recovered
  <2>6. /\ n \in Nat /\ n = Len(F) /\ Len(G) = n + 1 /\ G[Len(G)] = l /\ IsLog(F) /\ IsLog(G)
        /\ DOMAIN F = 1 .. n /\ DOMAIN G = DOMAIN F \cup {Len(G)}
    <3>1. n = Len(F)
      BY <2>3
    <3> QED
      BY <2>4, <3>1, LogNext
  <2>7. \A k \in DOMAIN F : G[k] = F[k]
    BY <2>4, LineKept
  <2>8. ASSUME NEW a \in OrdersIn(G), G[a].side = "ask", a < Len(G), G[a].id < l.ask,
               G[a].price = LineIn(G, l.ask).price
        PROVE  LeftIn(G, G[a].id, n) = 0
    <3>1. a \in OrdersIn(F) /\ G[a] = F[a] /\ G[i] = F[i] /\ i \in OrdersIn(G)
      BY <2>4, <2>6, <2>7, <2>8 DEF OrdersIn
    <3>2. LineIn(G, G[i].id) = G[i]
      BY <2>6, <3>1, LinesIn
    <3>3. LineIn(G, l.ask) = F[i]
      BY <2>4, <3>1, <3>2
    <3>4. LeftIn(G, F[a].id, n) = LeftIn(F, F[a].id, n)
      <4>1. n \in 0 .. Len(F)
        BY <2>6
      <4> QED
        BY <2>4, <3>1, <4>1, LeftKept
    <3>5. LeftIn(F, F[a].id, n) \in Nat
      <4>1. n \in 0 .. Len(F)
        BY <2>6
      <4> QED
        BY <2>4, <2>6, <3>1, <4>1, LeftIsRemaining
    <3>6. ~(LeftIn(F, F[a].id, n) > 0)
      <4> SUFFICES ASSUME LeftIn(F, F[a].id, n) > 0 PROVE FALSE
        OBVIOUS
      <4>1. a \in OpenIn(F, "ask")
        BY <2>6, <2>8, <3>1 DEF OpenIn
      <4>2. EntryIn(F, a) \in BookIn(F, "ask")
        BY <4>1 DEF BookIn
      <4>3. PICK e : e = EntryIn(F, a)
        OBVIOUS
      <4>4. e.id = F[a].id /\ e.price = F[a].price
        BY <4>3 DEF EntryIn
      <4>5. best.id = F[i].id /\ best.price = F[i].price
        BY <2>4 DEF EntryIn
      <4>6. F[a] \in OrderLog /\ F[i] \in OrderLog
        BY <2>4, <2>6, <3>1, LinesIn
      <4>7. F[a].id \in Nat /\ F[i].id \in Nat /\ F[a].price \in Nat
        BY <4>6 DEF OrderLog
      <4>8. e.id < best.id /\ e.price = best.price
        BY <2>4, <2>8, <3>1, <3>3, <4>4, <4>5
      <4>9. e # best
        BY <4>4, <4>5, <4>7, <4>8
      <4>10. Less(best, e)
        BY <2>5, <4>2, <4>3, <4>9 DEF IsBestAsk
      <4> QED
        BY <4>4, <4>5, <4>7, <4>8, <4>10 DEF Less
    <3> QED
      BY <3>1, <3>4, <3>5, <3>6
  <2>9. IsPrior(G, Len(G))
    <3>1. Len(G) - 1 = n
      BY <2>6
    <3> QED
      BY <2>6, <2>8, <3>1 DEF IsPrior
  <2>10. AllPrior(G)
    BY <2>4, <2>9, PriorKept DEF AllPrior
  <2> QED
    BY <2>3, <2>10, PriorityNextIs
<1>4. CASE NewTicket
  <2>1. CASE filedb' = filedb
    BY <1>2, <2>1
  <2>2. ASSUME NEW l, OrderOf(l) PROVE AskTimePriority'
    <3>1. Grows(filedb, l, filedb') /\ l \in OrderLog
      BY <2>2 DEF OrderOf
    <3>2. MatchesIn(filedb') = MatchesIn(filedb) /\ Len(filedb') = Len(filedb) + 1
      BY <1>1, <3>1, OrderIsOpen
    <3>3. \A i \in MatchesIn(filedb) : i \in 1 .. Len(filedb)
      BY <1>1, LinesIn
    <3>4. Len(filedb) \in Nat
      BY <1>1, LinesIn
    <3>5. \A i \in MatchesIn(filedb') : IsPrior(filedb', i)
      BY <1>1, <3>1, <3>2, <3>3, <3>4, PriorKept
    <3> QED
      BY <3>5, PriorityNextIs DEF AllPrior
  <2> QED
    BY <1>4, <2>1, <2>2, OrderEffect
<1> QED
  BY <1>2, <1>3, <1>4, LogSteps

(* Among asks of one price the oldest trades first, also when the book was reloaded
   after a crash, in another order than it was built (AskOrder.Less, TryMatch). *)
THEOREM AskTimePriorityCorrect == Spec => []AskTimePriority
<1>1. Init => TypeOK /\ EngineInv /\ AskTimePriority
  <2>1. Init => AskTimePriority
    BY DEF Init, AskTimePriority, Lines
  <2> QED
    BY <2>1, TypeInit, EngineInit
<1>2. TypeOK /\ EngineInv /\ AskTimePriority /\ [Next]_vars => (TypeOK /\ EngineInv /\ AskTimePriority)'
  <2> SUFFICES ASSUME TypeOK, EngineInv, AskTimePriority, [Next]_vars
               PROVE  TypeOK' /\ EngineInv' /\ AskTimePriority'
    OBVIOUS
  <2>1. TypeOK' /\ EngineInv'
    BY EngineStep
  <2>2. LogInv /\ LogInv' /\ LinesInv /\ BookIsLog
    BY <2>1 DEF EngineInv, BookInv
  <2> QED
    BY <2>1, <2>2, PriorityStep
<1> QED
  BY <1>1, <1>2, PTL DEF Spec

-----------------------------------------------------------------------------
(* The log as the run of an Exchange. *)

(* The k-th number of a set is the one with k - 1 below it. *)
LEMMA NthIs ==
    ASSUME NEW T \in SUBSET Nat, IsFiniteSet(T)
    PROVE  /\ Cardinality(T) \in Nat
           /\ \A k \in 1 .. Cardinality(T) : Nth(T, k) \in T /\ Rank(T, Nth(T, k)) = k - 1
           /\ \A k, i : k \in 1 .. Cardinality(T) /\ i \in T /\ Rank(T, i) = k - 1 => Nth(T, k) = i
<1>1. /\ Cardinality(T) \in Nat
      /\ \A i \in T : Rank(T, i) \in 0 .. Cardinality(T) - 1
      /\ \A i, k \in T : i < k => Rank(T, i) < Rank(T, k)
      /\ \A r \in 0 .. Cardinality(T) - 1 : \E i \in T : Rank(T, i) = r
  BY Ranks
<1>2. \A k : Nth(T, k) = CHOOSE i \in T : Rank(T, i) = k - 1
  BY DEF Nth, Rank
<1>3. ASSUME NEW k \in 1 .. Cardinality(T)
      PROVE  Nth(T, k) \in T /\ Rank(T, Nth(T, k)) = k - 1
  <2>1. k - 1 \in 0 .. Cardinality(T) - 1
    BY <1>1
  <2>2. \E i \in T : Rank(T, i) = k - 1
    BY <1>1, <2>1
  <2> QED
    BY <1>2, <2>2
<1>4. ASSUME NEW i \in T, NEW j \in T, Rank(T, i) = Rank(T, j) PROVE i = j
  <2>1. i \in Nat /\ j \in Nat /\ Rank(T, i) \in Int /\ Rank(T, j) \in Int
    BY <1>1
  <2> QED
    BY <1>1, <1>4, <2>1
<1> QED
  BY <1>1, <1>3, <1>4

(* U is T and one number more, larger than the others. *)
OneMore(T, x, U) ==
    /\ T \in SUBSET Nat /\ IsFiniteSet(T) /\ x \in Nat /\ (\A i \in T : i < x)
    /\ U = T \cup {x}

(* The numbering of a set and one larger number. *)
LEMMA NthOfMore ==
    ASSUME NEW T, NEW x, NEW U, OneMore(T, x, U)
    PROVE  /\ Cardinality(T) \in Nat /\ Cardinality(U) = Cardinality(T) + 1
           /\ \A k \in 1 .. Cardinality(T) : Nth(U, k) = Nth(T, k) /\ Nth(T, k) \in T
           /\ Nth(U, Cardinality(T) + 1) = x
<1> USE DEF OneMore
<1>0. x \notin T
  OBVIOUS
<1>1. IsFiniteSet(U) /\ Cardinality(T) \in Nat /\ Cardinality(U) = Cardinality(T) + 1
  BY <1>0, FS_AddElement, FS_CardinalityType
<1>2. U \in SUBSET Nat
  OBVIOUS
<1>3. \A i \in T : {j \in U : j < i} = {j \in T : j < i}
  OBVIOUS
<1>4. {j \in U : j < x} = T
  <2>1. ~(x < x)
    OBVIOUS
  <2>2. \A j \in U : j < x <=> j \in T
    BY <1>0, <2>1
  <2> QED
    BY <2>2
<1>5. \A i \in T : Rank(U, i) = Rank(T, i)
  BY <1>3 DEF Rank
<1>6. Rank(U, x) = Cardinality(T)
  BY <1>4 DEF Rank
<1>7. \A k \in 1 .. Cardinality(T) : Nth(T, k) \in T /\ Rank(T, Nth(T, k)) = k - 1
  BY NthIs
<1>8. \A k, i : k \in 1 .. Cardinality(U) /\ i \in U /\ Rank(U, i) = k - 1 => Nth(U, k) = i
  BY <1>1, <1>2, NthIs
<1>9. ASSUME NEW k \in 1 .. Cardinality(T) PROVE Nth(U, k) = Nth(T, k)
  <2>1. PICK i \in T : i = Nth(T, k) /\ Rank(T, i) = k - 1
    BY <1>7
  <2>2. k \in 1 .. Cardinality(U) /\ i \in U /\ Rank(U, i) = k - 1
    BY <1>1, <1>5, <2>1
  <2> QED
    BY <1>8, <2>1, <2>2
<1>10. Nth(U, Cardinality(T) + 1) = x
  <2>1. PICK k : k = Cardinality(T) + 1
    OBVIOUS
  <2>2. k \in 1 .. Cardinality(U) /\ Rank(U, x) = k - 1 /\ x \in U
    BY <1>1, <1>6, <2>1
  <2>3. Nth(U, k) = x
    BY <1>8, <2>2
  <2> QED
    BY <2>1, <2>3
<1> QED
  BY <1>1, <1>7, <1>9, <1>10

(* The same in two parts, in the form the provers use best. *)
LEMMA NthSize ==
    \A T, x, U : OneMore(T, x, U) =>
        /\ Cardinality(T) \in Nat /\ Cardinality(U) = Cardinality(T) + 1
        /\ Nth(U, Cardinality(T) + 1) = x
BY NthOfMore

LEMMA NthSame ==
    \A T, x, U, k : OneMore(T, x, U) /\ k \in 1 .. Cardinality(T) =>
        Nth(U, k) = Nth(T, k) /\ Nth(T, k) \in T
BY NthOfMore

(* A function on 1 .. n is a sequence. *)
LEMMA AppendIs ==
    ASSUME NEW n \in Nat, NEW S, NEW f \in [1 .. n -> S], NEW g \in [1 .. n + 1 -> S],
           \A k \in 1 .. n : g[k] = f[k]
    PROVE  g = Append(f, g[n + 1]) /\ f \in Seq(S) /\ Len(f) = n
<1>1. f \in Seq(S) /\ g \in Seq(S)
  OBVIOUS
<1>2. Len(f) = n /\ Len(g) = n + 1
  BY <1>1
<1>3. g[n + 1] \in S
  OBVIOUS
<1> QED
  BY <1>1, <1>2, <1>3

IDsIn(F) == {F[i].id : i \in OrdersIn(F)}

OfLine(F, i) == [side |-> F[i].side, price |-> F[i].price, left |-> LeftIn(F, F[i].id, Len(F))]

BookOf(F) ==
    [id \in IDsIn(F) |->
        [side |-> LineIn(F, id).side, price |-> LineIn(F, id).price, left |-> LeftIn(F, id, Len(F))]]

TradeIn(F, i) == [ask |-> F[i].ask, bid |-> F[i].bid, price |-> F[i].price, qty |-> F[i].qty]

TapeOf(F) == [k \in 1 .. Cardinality(MatchesIn(F)) |-> TradeIn(F, Nth(MatchesIn(F), k))]

(* The two variables of the Exchange, read before a step and after it. *)
LEMMA ExchangeIs == BookOfLog = BookOf(filedb) /\ TapeOfLog = TapeOf(filedb)
<1>1. OrderLines = OrdersIn(filedb) /\ MatchLines = MatchesIn(filedb)
  BY NamesAre
<1>2. \A id : LineOf(id) = LineIn(filedb, id)
  BY NamesAre
<1>3. \A id, n : Left(id, n) = LeftIn(filedb, id, n)
  BY NamesAre
<1>4. BookOfLog = BookOf(filedb)
  BY <1>1, <1>2, <1>3 DEF BookOfLog, BookOf, IDsIn
<1>5. TapeOfLog = TapeOf(filedb)
  BY <1>1 DEF TapeOfLog, TapeOf, TradeIn
<1> QED
  BY <1>4, <1>5

LEMMA ExchangeNextIs == BookOfLog' = BookOf(filedb') /\ TapeOfLog' = TapeOf(filedb')
<1>1. (BookOfLog = BookOf(filedb) /\ TapeOfLog = TapeOf(filedb))'
  BY ExchangeIs, PTL
<1> QED
  BY <1>1 DEF BookOf, IDsIn, TapeOf, TradeIn, MatchesIn, OrdersIn, LeftIn, LineIn, Traded, TouchedIn

(* The order of a line is in the abstract book under its id. *)
LEMMA BookAt ==
    \A F : IsLog(F) =>
        /\ DOMAIN BookOf(F) = IDsIn(F)
        /\ \A i \in OrdersIn(F) : F[i].id \in IDsIn(F) /\ BookOf(F)[F[i].id] = OfLine(F, i)
        /\ \A id \in IDsIn(F) : \E i \in OrdersIn(F) : id = F[i].id
<1> SUFFICES ASSUME NEW F, IsLog(F)
             PROVE  /\ DOMAIN BookOf(F) = IDsIn(F)
                    /\ \A i \in OrdersIn(F) : F[i].id \in IDsIn(F) /\ BookOf(F)[F[i].id] = OfLine(F, i)
                    /\ \A id \in IDsIn(F) : \E i \in OrdersIn(F) : id = F[i].id
  OBVIOUS
<1>1. \A i \in OrdersIn(F) : LineIn(F, F[i].id) = F[i]
  BY LinesIn
<1>2. DOMAIN BookOf(F) = IDsIn(F) /\ \A id \in IDsIn(F) : \E i \in OrdersIn(F) : id = F[i].id
  BY DEF BookOf, IDsIn
<1>3. ASSUME NEW i \in OrdersIn(F) PROVE F[i].id \in IDsIn(F) /\ BookOf(F)[F[i].id] = OfLine(F, i)
  <2>1. F[i].id \in IDsIn(F)
    BY DEF IDsIn
  <2> QED
    BY <1>1, <2>1 DEF BookOf, OfLine
<1> QED
  BY <1>2, <1>3

(* There are finitely many matches. *)
LEMMA MatchesFinite ==
    \A F : IsLog(F) => IsFiniteSet(MatchesIn(F)) /\ MatchesIn(F) \in SUBSET Nat
                       /\ \A i \in MatchesIn(F) : i \in 1 .. Len(F)
<1> SUFFICES ASSUME NEW F, IsLog(F)
             PROVE  IsFiniteSet(MatchesIn(F)) /\ MatchesIn(F) \in SUBSET Nat
                    /\ \A i \in MatchesIn(F) : i \in 1 .. Len(F)
  OBVIOUS
<1>1. Len(F) \in Nat /\ \A i \in MatchesIn(F) : i \in 1 .. Len(F)
  BY LinesIn
<1>2. IsFiniteSet(1 .. Len(F))
  BY <1>1, FS_Interval
<1> QED
  BY <1>1, <1>2, FS_Subset

(* A trade adds itself to the tape. *)
LEMMA TapeGrows ==
    ASSUME NEW F, NEW l, NEW G, Grows(F, l, G), MatchesIn(G) = MatchesIn(F) \cup {Len(G)}
    PROVE  TapeOf(G) = Append(TapeOf(F), TradeIn(G, Len(G)))
<1>1. /\ Len(F) \in Nat /\ Len(G) = Len(F) + 1 /\ IsLog(F) /\ IsLog(G)
  BY LogNext
<1>2. \A i \in DOMAIN F : G[i] = F[i]
  BY LineKept
<1>3. PICK T, U, n, x : /\ T = MatchesIn(F) /\ U = MatchesIn(G) /\ n = Cardinality(T)
                        /\ x = Len(G)
  OBVIOUS
<1>4. T \in SUBSET Nat /\ IsFiniteSet(T) /\ x \in Nat /\ U = T \cup {x} /\ \A i \in T : i < x
  <2>1. T \in SUBSET Nat /\ IsFiniteSet(T) /\ \A i \in T : i \in 1 .. Len(F)
    BY <1>1, <1>3, MatchesFinite
  <2>2. x \in Nat /\ U = T \cup {x} /\ \A i \in 1 .. Len(F) : i < x
    BY <1>1, <1>3
  <2> QED
    BY <2>1, <2>2
<1>5. OneMore(T, x, U)
  BY <1>4 DEF OneMore
<1>6. \A i \in T : G[i] = F[i]
  BY <1>2, <1>3 DEF MatchesIn
<1>7. PICK f, g : f = TapeOf(F) /\ g = TapeOf(G)
  OBVIOUS
<1>8. n \in Nat /\ Cardinality(U) = n + 1 /\ Nth(U, n + 1) = x
  BY <1>3, <1>5, NthSize
<1>9. f = [k \in 1 .. n |-> TradeIn(F, Nth(T, k))] /\ g = [k \in 1 .. n + 1 |-> TradeIn(G, Nth(U, k))]
  BY <1>3, <1>7, <1>8 DEF TapeOf
<1>10. ASSUME NEW k \in 1 .. n PROVE g[k] = f[k]
  <2>1. Nth(U, k) = Nth(T, k) /\ Nth(T, k) \in T
    BY <1>3, <1>5, NthSame
  <2>2. G[Nth(T, k)] = F[Nth(T, k)]
    BY <1>6, <2>1
  <2>3. TradeIn(G, Nth(U, k)) = TradeIn(F, Nth(T, k))
    BY <2>1, <2>2 DEF TradeIn
  <2>4. k \in 1 .. n + 1
    BY <1>8
  <2> QED
    BY <1>9, <2>3, <2>4
<1>11. g[n + 1] = TradeIn(G, x)
  <2>1. n + 1 \in 1 .. n + 1
    BY <1>8
  <2> QED
    BY <1>8, <1>9, <2>1
<1> DEFINE S == {g[k] : k \in 1 .. n + 1}
<1>12. f \in [1 .. n -> S] /\ g \in [1 .. n + 1 -> S]
  <2>1. \A k \in 1 .. n : k \in 1 .. n + 1
    BY <1>8
  <2>2. \A k \in 1 .. n + 1 : g[k] \in S
    OBVIOUS
  <2>3. \A k \in 1 .. n : f[k] \in S
    BY <1>10, <2>1
  <2> HIDE DEF S
  <2>4. f \in [1 .. n -> S]
    BY <1>9, <2>3
  <2>5. g \in [1 .. n + 1 -> S]
    BY <1>9, <2>2
  <2> QED
    BY <2>4, <2>5
<1> HIDE DEF S
<1>13. g = Append(f, g[n + 1])
  BY <1>8, <1>10, <1>12, AppendIs
<1> QED
  BY <1>3, <1>7, <1>11, <1>13

(* An order leaves the tape as it is. *)
LEMMA TapeStays ==
    ASSUME NEW F, NEW l, NEW G, Grows(F, l, G), MatchesIn(G) = MatchesIn(F)
    PROVE  TapeOf(G) = TapeOf(F)
<1>1. \A i \in MatchesIn(F) : G[i] = F[i]
  BY LineKept DEF MatchesIn
<1>2. \A k \in 1 .. Cardinality(MatchesIn(F)) : Nth(MatchesIn(F), k) \in MatchesIn(F)
  BY LogNext, MatchesFinite, NthIs
<1> QED
  BY <1>1, <1>2 DEF TapeOf, TradeIn

(* A finite set of numbers has a smallest and a largest one. *)
LEMMA Extremes ==
    ASSUME NEW T \in SUBSET Nat, IsFiniteSet(T), T # {}
    PROVE  /\ \E a \in T : \A i \in T : a <= i
           /\ \E b \in T : \A i \in T : i <= b
<1>1. /\ Cardinality(T) \in Nat
      /\ \A i \in T : Rank(T, i) \in 0 .. Cardinality(T) - 1
      /\ \A i, k \in T : i < k => Rank(T, i) < Rank(T, k)
      /\ \A r \in 0 .. Cardinality(T) - 1 : \E i \in T : Rank(T, i) = r
  BY Ranks
<1>2. PICK n : n = Cardinality(T)
  OBVIOUS
<1>3. n \in Nat /\ \A i \in T : Rank(T, i) \in 0 .. n - 1
  BY <1>1, <1>2
<1>4. 0 \in 0 .. n - 1 /\ n - 1 \in 0 .. n - 1
  <2>1. PICK r : r \in 0 .. n - 1
    BY <1>3
  <2> QED
    BY <1>3, <2>1
<1>5. PICK a \in T : Rank(T, a) = 0
  BY <1>1, <1>2, <1>4
<1>6. PICK b \in T : Rank(T, b) = n - 1
  BY <1>1, <1>2, <1>4
<1>7. \A i \in T : a <= i
  <2> SUFFICES ASSUME NEW i \in T, ~(a <= i) PROVE FALSE
    OBVIOUS
  <2>1. i < a
    OBVIOUS
  <2>2. Rank(T, i) < Rank(T, a) /\ Rank(T, i) \in 0 .. n - 1
    BY <1>1, <1>3, <2>1
  <2> QED
    BY <1>3, <1>5, <2>2
<1>8. \A i \in T : i <= b
  <2> SUFFICES ASSUME NEW i \in T, ~(i <= b) PROVE FALSE
    OBVIOUS
  <2>1. b < i
    OBVIOUS
  <2>2. Rank(T, b) < Rank(T, i) /\ Rank(T, i) \in 0 .. n - 1
    BY <1>1, <1>3, <2>1
  <2> QED
    BY <1>3, <1>6, <2>2
<1> QED
  BY <1>7, <1>8

(* A side of the book that is not empty has a best ask, and a best bid. *)
LEMMA BestExist ==
    ASSUME NEW B \in SUBSET Order, IsFiniteSet(B), B # {},
           \A a, b \in B : a.id = b.id => a = b
    PROVE  (\E a \in B : IsBestAsk(a, B)) /\ (\E b \in B : IsBestBid(b, B))
<1> DEFINE f == [o \in B |-> o.price]
           P == {o.price : o \in B}
           Of(p) == {o \in B : o.price = p}
           IDs(p) == {o.id : o \in Of(p)}
<1>1. \A o \in B : o.price \in Nat /\ o.id \in Nat
  BY DEF Order
<1>2. IsFiniteSet(P) /\ P \in SUBSET Nat /\ P # {}
  <2>1. f \in Surjection(B, P)
    BY DEF Surjection
  <2>2. P \in SUBSET Nat /\ P # {}
    BY <1>1
  <2> HIDE DEF f, P
  <2> QED
    BY <2>1, <2>2, FS_Surjection
<1>3. ASSUME NEW p \in P
      PROVE  IsFiniteSet(IDs(p)) /\ IDs(p) \in SUBSET Nat /\ IDs(p) # {}
  <2> DEFINE g == [o \in Of(p) |-> o.id]
             D == Of(p)
             I == IDs(p)
  <2>1. IsFiniteSet(D)
    BY FS_Subset
  <2>2. g \in Surjection(D, I)
    BY DEF Surjection
  <2>3. I \in SUBSET Nat
    BY <1>1
  <2>4. I # {}
    <3>1. PICK o \in B : o.price = p
      OBVIOUS
    <3>2. o.id \in I
      BY <3>1
    <3> QED
      BY <3>2
  <2>5. IsFiniteSet(I)
    <3> HIDE DEF g, D, I
    <3> QED
      BY <2>1, <2>2, FS_Surjection
  <2> QED
    BY <2>3, <2>4, <2>5
<1>4. \E a \in B : IsBestAsk(a, B)
  <2>1. PICK p \in P : \A q \in P : p <= q
    <3> HIDE DEF P
    <3> QED
      BY <1>2, Extremes
  <2>2. PICK I : I = IDs(p)
    OBVIOUS
  <2>3. PICK i \in I : \A j \in I : i <= j
    BY <1>3, <2>2, Extremes
  <2>4. PICK a \in B : a.price = p /\ a.id = i
    BY <2>2, <2>3
  <2>5. ASSUME NEW b \in B, b # a PROVE Less(a, b)
    <3>1. a.id # b.id /\ a.price \in Nat /\ b.price \in Nat /\ a.id \in Nat /\ b.id \in Nat
      BY <1>1, <2>5
    <3>2. a.price <= b.price
      BY <2>1, <2>4
    <3>3. a.price = b.price => b.id \in I
      BY <2>2, <2>4
    <3>4. a.price = b.price => a.id <= b.id
      BY <2>3, <2>4, <3>3
    <3> QED
      BY <3>1, <3>2, <3>4 DEF Less
  <2> QED
    BY <2>5 DEF IsBestAsk
<1>5. \E b \in B : IsBestBid(b, B)
  <2>1. PICK p \in P : \A q \in P : q <= p
    <3> HIDE DEF P
    <3> QED
      BY <1>2, Extremes
  <2>2. PICK I : I = IDs(p)
    OBVIOUS
  <2>3. PICK i \in I : \A j \in I : j <= i
    BY <1>3, <2>2, Extremes
  <2>4. PICK a \in B : a.price = p /\ a.id = i
    BY <2>2, <2>3
  <2>5. ASSUME NEW b \in B, b # a PROVE Less(b, a)
    <3>1. a.id # b.id /\ a.price \in Nat /\ b.price \in Nat /\ a.id \in Nat /\ b.id \in Nat
      BY <1>1, <2>5
    <3>2. b.price <= a.price
      BY <2>1, <2>4
    <3>3. a.price = b.price => b.id \in I
      BY <2>2, <2>4
    <3>4. a.price = b.price => b.id <= a.id
      BY <2>3, <2>4, <3>3
    <3> QED
      BY <3>1, <3>2, <3>4 DEF Less
  <2> QED
    BY <2>5 DEF IsBestBid
<1> QED
  BY <1>4, <1>5

(* A side of the book that the log leaves is a finite set of orders with different ids. *)
LEMMA BookIsSide ==
    ASSUME NEW F, IsLog(F), AllMade(F), NEW s
    PROVE  /\ BookIn(F, s) \in SUBSET Order /\ IsFiniteSet(BookIn(F, s))
           /\ \A a, b \in BookIn(F, s) : a.id = b.id => a = b
<1>1. /\ Len(F) \in Nat /\ OpenIn(F, s) \subseteq OrdersIn(F)
      /\ \A i \in OrdersIn(F) : i \in 1 .. Len(F) /\ F[i] \in OrderLog
  BY LinesIn DEF OpenIn
<1>2. \A i \in OrdersIn(F) : LeftIn(F, F[i].id, Len(F)) \in Nat
  <2>1. PICK n : n = Len(F)
    OBVIOUS
  <2>2. n \in 0 .. Len(F)
    BY <1>1, <2>1
  <2>3. \A i \in OrdersIn(F) : LeftIn(F, F[i].id, n) \in Nat
    BY <2>2, LeftIsRemaining
  <2> QED
    BY <2>1, <2>3
<1>3. \A i \in OrdersIn(F) : EntryIn(F, i) \in Order
  BY <1>1, <1>2 DEF EntryIn, Order, OrderLog
<1>4. IsFiniteSet(OpenIn(F, s))
  <2>1. IsFiniteSet(1 .. Len(F))
    BY <1>1, FS_Interval
  <2>2. OpenIn(F, s) \subseteq 1 .. Len(F)
    BY <1>1
  <2> QED
    BY <2>1, <2>2, FS_Subset
<1>5. IsFiniteSet(BookIn(F, s))
  <2> DEFINE h == [i \in OpenIn(F, s) |-> EntryIn(F, i)]
  <2>1. h \in Surjection(OpenIn(F, s), BookIn(F, s))
    BY DEF Surjection, BookIn
  <2> HIDE DEF h
  <2> QED
    BY <1>4, <2>1, FS_Surjection
<1>6. \A i, j \in OpenIn(F, s) : EntryIn(F, i).id = EntryIn(F, j).id => i = j
  BY <1>1 DEF EntryIn, IsLog
<1>7. BookIn(F, s) \in SUBSET Order
  BY <1>1, <1>3 DEF BookIn
<1>8. \A a, b \in BookIn(F, s) : a.id = b.id => a = b
  BY <1>6 DEF BookIn
<1> QED
  BY <1>5, <1>7, <1>8

-----------------------------------------------------------------------------
(* The steps of the abstract engine. *)

(* The open orders of the Exchange are those of the log. *)
LEMMA OpenIs ==
    ASSUME IsLog(filedb), NEW s
    PROVE  Abstract!Open(s) = {filedb[i].id : i \in OpenIn(filedb, s)}
<1>1. PICK B : B = BookOf(filedb)
  OBVIOUS
<1>2. BookOfLog = B
  BY <1>1, ExchangeIs
<1>3. /\ DOMAIN B = IDsIn(filedb)
      /\ \A i \in OrdersIn(filedb) : filedb[i].id \in IDsIn(filedb) /\ B[filedb[i].id] = OfLine(filedb, i)
      /\ \A id \in IDsIn(filedb) : \E i \in OrdersIn(filedb) : id = filedb[i].id
  BY <1>1, BookAt
<1>4. ASSUME NEW i \in OrdersIn(filedb)
      PROVE  i \in OpenIn(filedb, s) <=> B[filedb[i].id].side = s /\ B[filedb[i].id].left > 0
  <2>1. PICK e : e = B[filedb[i].id]
    OBVIOUS
  <2>2. e.side = filedb[i].side /\ e.left = LeftIn(filedb, filedb[i].id, Len(filedb))
    <3>1. e = OfLine(filedb, i)
      BY <1>3, <2>1
    <3> QED
      BY <3>1 DEF OfLine
  <2> QED
    BY <2>1, <2>2 DEF OpenIn
<1>5. Abstract!Open(s) = {id \in DOMAIN B : B[id].side = s /\ B[id].left > 0}
  BY <1>2 DEF Abstract!Open
<1>6. \A i \in OpenIn(filedb, s) : filedb[i].id \in Abstract!Open(s)
  BY <1>3, <1>4, <1>5 DEF OpenIn
<1>7. \A id \in Abstract!Open(s) : \E i \in OpenIn(filedb, s) : id = filedb[i].id
  BY <1>3, <1>4, <1>5
<1> QED
  BY <1>6, <1>7

(* When TryMatch has come to its end nothing in the Exchange can trade. *)
LEMMA QuietIs ==
    ASSUME IsLog(filedb), AllMade(filedb), ~Crossed(BookIn(filedb, "ask"), BookIn(filedb, "bid"))
    PROVE  Abstract!Quiet
<1> SUFFICES ASSUME NEW x, NEW y, Abstract!CanTrade(x, y) PROVE FALSE
  BY DEF Abstract!Quiet
<1>1. PICK B : B = BookOf(filedb)
  OBVIOUS
<1>2. BookOfLog = B
  BY <1>1, ExchangeIs
<1>3. x \in Abstract!Open("ask") /\ y \in Abstract!Open("bid") /\ B[x].price <= B[y].price
  BY <1>2 DEF Abstract!CanTrade, Abstract!Cheapest, Abstract!Dearest
<1>4. PICK i \in OpenIn(filedb, "ask") : x = filedb[i].id
  BY <1>3, OpenIs
<1>5. PICK j \in OpenIn(filedb, "bid") : y = filedb[j].id
  BY <1>3, OpenIs
<1>6. i \in OrdersIn(filedb) /\ j \in OrdersIn(filedb)
  BY <1>4, <1>5 DEF OpenIn
<1>7. B[x] = OfLine(filedb, i) /\ B[y] = OfLine(filedb, j)
  BY <1>1, <1>4, <1>5, <1>6, BookAt
<1>8. PICK as, bs : as = BookIn(filedb, "ask") /\ bs = BookIn(filedb, "bid")
  OBVIOUS
<1>9. PICK c, d : c = EntryIn(filedb, i) /\ d = EntryIn(filedb, j)
  OBVIOUS
<1>10. c \in as /\ d \in bs /\ c.price = filedb[i].price /\ d.price = filedb[j].price
  BY <1>4, <1>5, <1>8, <1>9 DEF BookIn, EntryIn
<1>11. c.price <= d.price
  BY <1>3, <1>7, <1>10 DEF OfLine
<1>12. /\ as \in SUBSET Order /\ IsFiniteSet(as) /\ \A a, b \in as : a.id = b.id => a = b
       /\ bs \in SUBSET Order /\ IsFiniteSet(bs) /\ \A a, b \in bs : a.id = b.id => a = b
  BY <1>8, BookIsSide
<1>13. PICK a \in as : IsBestAsk(a, as)
  BY <1>10, <1>12, BestExist
<1>14. PICK b \in bs : IsBestBid(b, bs)
  BY <1>10, <1>12, BestExist
<1>15. /\ a.price \in Nat /\ b.price \in Nat /\ c.price \in Nat /\ d.price \in Nat
  BY <1>10, <1>12 DEF Order
<1>16. a.price <= c.price
  <2>1. c = a \/ Less(a, c)
    BY <1>10, <1>13 DEF IsBestAsk
  <2> QED
    BY <1>15, <2>1 DEF Less
<1>17. d.price <= b.price
  <2>1. d = b \/ Less(d, b)
    BY <1>10, <1>14 DEF IsBestBid
  <2> QED
    BY <1>15, <2>1 DEF Less
<1>18. a.price <= b.price
  BY <1>11, <1>15, <1>16, <1>17
<1>19. <<a, b>> \in Crossing(as, bs)
  BY <1>13, <1>14, <1>18 DEF Crossing
<1> QED
  BY <1>8, <1>19 DEF Crossed

(* The best ask of the book is one of the cheapest, the best bid one of the dearest. *)
LEMMA BestIs ==
    ASSUME IsLog(filedb), NEW i \in OpenIn(filedb, "ask"), NEW j \in OpenIn(filedb, "bid"),
           NEW a, a = EntryIn(filedb, i), NEW b, b = EntryIn(filedb, j),
           IsBestAsk(a, BookIn(filedb, "ask")), IsBestBid(b, BookIn(filedb, "bid")),
           a.price <= b.price
    PROVE  Abstract!CanTrade(filedb[i].id, filedb[j].id)
<1>1. PICK B : B = BookOf(filedb)
  OBVIOUS
<1>2. BookOfLog = B
  BY <1>1, ExchangeIs
<1>3. i \in OrdersIn(filedb) /\ j \in OrdersIn(filedb)
  BY DEF OpenIn
<1>4. ASSUME NEW k \in OrdersIn(filedb)
      PROVE  B[filedb[k].id].price = EntryIn(filedb, k).price /\ EntryIn(filedb, k).price \in Nat
  <2>1. PICK e : e = B[filedb[k].id]
    OBVIOUS
  <2>2. e = OfLine(filedb, k)
    BY <1>1, <2>1, BookAt
  <2>3. e.price = filedb[k].price /\ EntryIn(filedb, k).price = filedb[k].price
    BY <2>2 DEF OfLine, EntryIn
  <2>4. filedb[k] \in OrderLog
    BY LinesIn
  <2> QED
    BY <2>1, <2>3, <2>4 DEF OrderLog
<1>5. ASSUME NEW id \in Abstract!Open("ask") PROVE B[filedb[i].id].price <= B[id].price
  <2>1. PICK k \in OpenIn(filedb, "ask") : id = filedb[k].id
    BY OpenIs
  <2>2. k \in OrdersIn(filedb)
    BY DEF OpenIn
  <2>3. PICK c : c = EntryIn(filedb, k)
    OBVIOUS
  <2>4. c \in BookIn(filedb, "ask")
    BY <2>3 DEF BookIn
  <2>5. c = a \/ Less(a, c)
    BY <2>4 DEF IsBestAsk
  <2>6. a.price \in Nat /\ c.price \in Nat /\ B[filedb[i].id].price = a.price /\ B[id].price = c.price
    BY <1>3, <1>4, <2>1, <2>2, <2>3
  <2>7. a.price <= c.price
    BY <2>5, <2>6 DEF Less
  <2> QED
    BY <2>6, <2>7
<1>6. ASSUME NEW id \in Abstract!Open("bid") PROVE B[filedb[j].id].price >= B[id].price
  <2>1. PICK k \in OpenIn(filedb, "bid") : id = filedb[k].id
    BY OpenIs
  <2>2. k \in OrdersIn(filedb)
    BY DEF OpenIn
  <2>3. PICK c : c = EntryIn(filedb, k)
    OBVIOUS
  <2>4. c \in BookIn(filedb, "bid")
    BY <2>3 DEF BookIn
  <2>5. c = b \/ Less(c, b)
    BY <2>4 DEF IsBestBid
  <2>6. b.price \in Nat /\ c.price \in Nat /\ B[filedb[j].id].price = b.price /\ B[id].price = c.price
    BY <1>3, <1>4, <2>1, <2>2, <2>3
  <2>7. c.price <= b.price
    BY <2>5, <2>6 DEF Less
  <2> QED
    BY <2>6, <2>7
<1>7. filedb[i].id \in Abstract!Open("ask") /\ filedb[j].id \in Abstract!Open("bid")
  BY OpenIs
<1>8. B[filedb[i].id].price <= B[filedb[j].id].price
  BY <1>3, <1>4
<1> QED
  BY <1>2, <1>5, <1>6, <1>7, <1>8 DEF Abstract!CanTrade, Abstract!Cheapest, Abstract!Dearest

(* What a trade makes of its two orders. *)
BothLess(B, x, y, q) == [B EXCEPT ![x].left = @ - q, ![y].left = @ - q]

(* What a trade makes of the abstract book. *)
LEMMA TradeBook ==
    ASSUME NEW F, NEW l, NEW G, Grows(F, l, G), AllMade(F), NEW i, NEW j, IsTrade(F, l, i, j),
           NEW B, B = BookOf(F), NEW C, C = BookOf(G),
           NEW x, x = F[i].id, NEW y, y = F[j].id, NEW q, q = l.qty
    PROVE  C = BothLess(B, x, y, q)
<1>0. IsLog(F) /\ IsLog(G)
  BY LogNext
<1>1. /\ OrdersIn(G) = OrdersIn(F) /\ IsLog(F) /\ IsLog(G)
      /\ \A k \in OrdersIn(F) :
            /\ G[k] = F[k]
            /\ LeftIn(G, F[k].id, Len(G)) =
                   LeftIn(F, F[k].id, Len(F)) - (IF k \in {i, j} THEN l.qty ELSE 0)
  <2>1. /\ OrdersIn(G) = OrdersIn(F)
        /\ \A k \in OrdersIn(F) :
              /\ G[k] = F[k]
              /\ LeftIn(G, F[k].id, Len(G)) =
                     LeftIn(F, F[k].id, Len(F)) - (IF k \in {i, j} THEN l.qty ELSE 0)
    BY TradeIsMade
  <2> QED
    BY <1>0, <2>1
<1>2. /\ i \in OrdersIn(F) /\ j \in OrdersIn(F) /\ i # j
      /\ l.qty \in Nat
  BY DEF IsTrade, MatchLog
<1>3. B = BookOf(F) /\ C = BookOf(G) /\ x = F[i].id /\ y = F[j].id /\ q = l.qty
  OBVIOUS
<1>4. \A k, m \in OrdersIn(F) : F[k].id = F[m].id => k = m
  BY <1>1 DEF IsLog
<1>5. IDsIn(G) = IDsIn(F)
  BY <1>1 DEF IDsIn
<1>6. /\ DOMAIN B = IDsIn(F) /\ DOMAIN C = IDsIn(F)
      /\ \A k \in OrdersIn(F) : F[k].id \in IDsIn(F) /\ B[F[k].id] = OfLine(F, k)
      /\ \A k \in OrdersIn(F) : C[F[k].id] = OfLine(G, k)
      /\ \A id \in IDsIn(F) : \E k \in OrdersIn(F) : id = F[k].id
  BY <1>1, <1>3, <1>5, BookAt
<1>7. x \in DOMAIN B /\ y \in DOMAIN B /\ x # y
  BY <1>2, <1>3, <1>4, <1>6
<1>8. ASSUME NEW k \in OrdersIn(F)
      PROVE  C[F[k].id] = IF k \in {i, j} THEN [B[F[k].id] EXCEPT !.left = @ - q] ELSE B[F[k].id]
  <2>1. PICK e, g, n : e = OfLine(F, k) /\ g = OfLine(G, k) /\ n = LeftIn(F, F[k].id, Len(F))
    OBVIOUS
  <2>2. e = [side |-> F[k].side, price |-> F[k].price, left |-> n]
    BY <2>1 DEF OfLine
  <2>3. G[k] = F[k] /\ LeftIn(G, F[k].id, Len(G)) = n - (IF k \in {i, j} THEN q ELSE 0)
    BY <1>1, <1>3, <2>1
  <2>4. g = [side |-> F[k].side, price |-> F[k].price,
             left |-> n - (IF k \in {i, j} THEN q ELSE 0)]
    BY <2>1, <2>3 DEF OfLine
  <2>5. n \in Int
    <3>1. Len(F) \in 0 .. Len(F)
      BY LogNext
    <3> QED
      BY <1>1, <2>1, <3>1, LeftType
  <2>6. g = IF k \in {i, j} THEN [e EXCEPT !.left = @ - q] ELSE e
    BY <2>2, <2>4, <2>5
  <2>7. PICK id : id = F[k].id
    OBVIOUS
  <2>8. B[id] = e /\ C[id] = g
    BY <1>6, <2>1, <2>7
  <2>9. C[id] = IF k \in {i, j} THEN [B[id] EXCEPT !.left = @ - q] ELSE B[id]
    BY <2>6, <2>8
  <2> QED
    BY <2>7, <2>9
<1>9. ASSUME NEW id \in DOMAIN B
      PROVE  C[id] = IF id = x \/ id = y THEN [B[id] EXCEPT !.left = @ - q] ELSE B[id]
  <2>1. PICK k \in OrdersIn(F) : id = F[k].id
    BY <1>6
  <2>2. k \in {i, j} <=> id = x \/ id = y
    BY <1>2, <1>3, <1>4, <2>1
  <2> QED
    BY <1>8, <2>1, <2>2
<1>10. C = [id \in DOMAIN B |-> C[id]] /\ B = [id \in DOMAIN B |-> B[id]]
  BY <1>3, <1>6 DEF BookOf
<1>11. PICK e : e = [B EXCEPT ![x].left = @ - q, ![y].left = @ - q]
  OBVIOUS
<1>12. DOMAIN e = DOMAIN B /\ e = [id \in DOMAIN B |-> e[id]]
  BY <1>10, <1>11
<1>13. ASSUME NEW id \in DOMAIN B
       PROVE  e[id] = IF id = x \/ id = y THEN [B[id] EXCEPT !.left = @ - q] ELSE B[id]
  BY <1>7, <1>10, <1>11
<1>14. \A id \in DOMAIN B : C[id] = e[id]
  BY <1>9, <1>13
<1>15. C = e
  BY <1>10, <1>12, <1>14
<1> QED
  BY <1>11, <1>15 DEF BothLess

(* A round of TryMatch is a trade of the Exchange. *)
LEMMA TradeMaps ==
    ASSUME NEW l, NEW i, NEW j, NEW a, NEW b, TradeOf(l, i, j, a, b), AllMade(filedb),
           IsBestAsk(a, BookIn(filedb, "ask")), IsBestBid(b, BookIn(filedb, "bid")),
           a.price <= b.price
    PROVE  Abstract!Next
<1>1. /\ Grows(filedb, l, filedb') /\ IsTrade(filedb, l, i, j)
      /\ i \in OpenIn(filedb, "ask") /\ EntryIn(filedb, i) = a
      /\ j \in OpenIn(filedb, "bid") /\ EntryIn(filedb, j) = b
      /\ l.qty = TradeQty(a, b) /\ l.price = TradePrice(a, b)
  BY DEF TradeOf
<1>2. /\ i \in OrdersIn(filedb) /\ j \in OrdersIn(filedb) /\ IsLog(filedb)
      /\ l.ask = filedb[i].id /\ l.bid = filedb[j].id
  BY <1>1 DEF IsTrade, Grows
<1>3. PICK B, C, t, u, x, y, q, n :
          /\ B = BookOf(filedb) /\ C = BookOf(filedb') /\ t = TapeOf(filedb) /\ u = TapeOf(filedb')
          /\ x = filedb[i].id /\ y = filedb[j].id /\ q = l.qty /\ n = Len(filedb')
  OBVIOUS
<1>4. BookOfLog = B /\ BookOfLog' = C /\ TapeOfLog = t /\ TapeOfLog' = u
  BY <1>3, ExchangeIs, ExchangeNextIs
<1>5. Abstract!CanTrade(x, y)
  BY <1>1, <1>2, <1>3, BestIs
<1>6. C = [B EXCEPT ![x].left = @ - q, ![y].left = @ - q]
  <2>1. PICK F, G : F = filedb /\ G = filedb'
    OBVIOUS
  <2>2. /\ Grows(F, l, G) /\ AllMade(F) /\ IsTrade(F, l, i, j)
        /\ B = BookOf(F) /\ C = BookOf(G) /\ x = F[i].id /\ y = F[j].id /\ q = l.qty
    BY <1>1, <1>3, <2>1
  <2>3. C = BothLess(B, x, y, q)
    BY <2>2, TradeBook
  <2> QED
    BY <2>3 DEF BothLess
<1>7. /\ x \in DOMAIN B /\ B[x] = OfLine(filedb, i) /\ y \in DOMAIN B /\ B[y] = OfLine(filedb, j)
  BY <1>2, <1>3, BookAt
<1>8. /\ B[x].left = a.qty /\ B[x].price = a.price /\ x = a.id
      /\ B[y].left = b.qty /\ B[y].price = b.price /\ y = b.id
  BY <1>1, <1>3, <1>7 DEF OfLine, EntryIn
<1>9. a.qty \in Int /\ b.qty \in Int /\ x \in Nat /\ y \in Nat
  <2>1. Len(filedb) \in 0 .. Len(filedb)
    BY <1>2, LinesIn
  <2>2. LeftIn(filedb, filedb[i].id, Len(filedb)) \in Int /\ LeftIn(filedb, filedb[j].id, Len(filedb)) \in Int
    BY <1>2, <2>1, LeftType
  <2>3. filedb[i] \in OrderLog /\ filedb[j] \in OrderLog
    BY <1>2, LinesIn
  <2>4. x \in Nat /\ y \in Nat
    BY <1>3, <2>3 DEF OrderLog
  <2> QED
    BY <1>1, <2>2, <2>4 DEF EntryIn
<1>10. q = IF B[x].left <= B[y].left THEN B[x].left ELSE B[y].left
  BY <1>1, <1>3, <1>8, <1>9 DEF TradeQty
<1>11. l.price = B[IF x < y THEN x ELSE y].price
  BY <1>1, <1>3, <1>8, <1>9 DEF TradePrice
<1>12. u = Append(t, [ask |-> x, bid |-> y, price |-> B[IF x < y THEN x ELSE y].price, qty |-> q])
  <2>1. MatchesIn(filedb') = MatchesIn(filedb) \cup {n} /\ filedb'[n] = l
    BY <1>1, <1>3, TradeIsMade
  <2>2. u = Append(t, TradeIn(filedb', n))
    BY <1>1, <1>3, <2>1, TapeGrows
  <2>3. TradeIn(filedb', n) = [ask |-> x, bid |-> y, price |-> l.price, qty |-> q]
    BY <1>2, <1>3, <2>1 DEF TradeIn
  <2> QED
    BY <1>11, <2>2, <2>3
<1>13. Abstract!Trade(x, y)
  BY <1>4, <1>5, <1>6, <1>10, <1>12 DEF Abstract!Trade
<1> QED
  BY <1>4, <1>7, <1>13 DEF Abstract!Next

(* The orders are numbered from 1 to the order id in memory. *)
LEMMA IDsAre ==
    ASSUME TypeOK, LogInv, Recovered PROVE IDsIn(filedb) = 1 .. orderID
<1>1. /\ OrderLines = OrdersIn(filedb) /\ OrderIDs \in [OrderLines -> Nat] /\ orderID \in Nat
      /\ \A i \in OrderLines : i <= Len(filedb)
      /\ \A i \in OrderLines : OrderIDs[i] = filedb[i].id
  <2>1. OrderLines \subseteq 1 .. Len(filedb) /\ Len(filedb) \in Nat
    BY LinesType
  <2>2. \A i \in OrderLines : i <= Len(filedb)
    BY <2>1
  <2> QED
    BY <2>2, NamesAre, LinesType DEF TypeOK, OrderIDs
<1>2. LastIs(OrderIDs, Len(filedb), orderID) /\ InOrder(OrderIDs)
  BY DEF LogInv, MemoryInv, OrderIDsInOrder
<1>3. PICK f, D, v : f = OrderIDs /\ D = OrderLines /\ v = orderID
  OBVIOUS
<1>4. f \in [D -> Nat] /\ v \in Nat /\ DOMAIN f = D
  BY <1>1, <1>3
<1>5. /\ \A i \in D : f[i] > 0 /\ f[i] <= v
      /\ v # 0 => \E i \in D : f[i] = v
  BY <1>1, <1>2, <1>3, <1>4 DEF LastIs, InOrder
<1>6. \A i \in D : \A n \in 1 .. f[i] - 1 : \E j \in D : f[j] = n
  BY <1>2, <1>3, <1>4 DEF InOrder
<1>7. IDsIn(filedb) = {f[i] : i \in D}
  BY <1>1, <1>3 DEF IDsIn
<1>8. \A i \in D : f[i] \in 1 .. v
  BY <1>4, <1>5
<1>9. ASSUME NEW t \in 1 .. v PROVE \E i \in D : f[i] = t
  <2>1. PICK i \in D : f[i] = v
    BY <1>4, <1>5
  <2>2. t = v \/ t \in 1 .. f[i] - 1
    BY <1>4, <2>1
  <2> QED
    BY <1>6, <2>1, <2>2
<1> QED
  BY <1>3, <1>7, <1>8, <1>9

(* A new ticket is an order the Exchange accepts. *)
LEMMA OrderMaps ==
    ASSUME TypeOK, LogInv, AllMade(filedb), BookIsLog, pc = "recv", ~Crossed(asks, bids),
           NEW l, OrderOf(l)
    PROVE  Abstract!Next
<1>1. /\ l \in OrderLog /\ Grows(filedb, l, filedb') /\ l.id = orderID + 1
      /\ [price |-> l.price, qty |-> l.qty] \in Requests
  BY DEF OrderOf
<1>2. Recovered /\ orderID \in Nat
  BY DEF Recovered, TypeOK
<1>3. Abstract!Quiet
  <2>1. asks = BookIn(filedb, "ask") /\ bids = BookIn(filedb, "bid")
    BY <1>2, BookIs
  <2> QED
    BY <1>1, <2>1, QuietIs DEF Grows
<1>4. PICK F, G, n, p, x : /\ F = filedb /\ G = filedb' /\ n = orderID /\ p = Len(filedb')
                           /\ x = [side |-> l.side, price |-> l.price, left |-> l.qty]
  OBVIOUS
<1>5. PICK B, C, t, u : B = BookOf(F) /\ C = BookOf(G) /\ t = TapeOf(F) /\ u = TapeOf(G)
  OBVIOUS
<1>6. BookOfLog = B /\ BookOfLog' = C /\ TapeOfLog = t /\ TapeOfLog' = u
  BY <1>4, <1>5, ExchangeIs, ExchangeNextIs
<1>7. Grows(F, l, G) /\ IsLog(F) /\ IsLog(G) /\ AllMade(F) /\ p = Len(G) /\ n \in Nat /\ l.id = n + 1
  BY <1>1, <1>2, <1>4 DEF Grows
<1>8. /\ OrdersIn(G) = OrdersIn(F) \cup {p} /\ G[p] = l
      /\ MatchesIn(G) = MatchesIn(F)
      /\ LeftIn(G, l.id, p) = l.qty
      /\ \A i \in OrdersIn(F) : G[i] = F[i] /\ LeftIn(G, F[i].id, p) = LeftIn(F, F[i].id, Len(F))
  BY <1>1, <1>7, OrderIsOpen
<1>9. IDsIn(F) = 1 .. n
  BY <1>2, <1>4, IDsAre
<1>10. IDsIn(G) = 1 .. n + 1
  <2>1. IDsIn(G) = IDsIn(F) \cup {n + 1}
    BY <1>7, <1>8 DEF IDsIn
  <2> QED
    BY <1>7, <1>9, <2>1
<1>11. /\ DOMAIN B = 1 .. n /\ DOMAIN C = 1 .. n + 1
       /\ B = [k \in 1 .. n |-> B[k]] /\ C = [k \in 1 .. n + 1 |-> C[k]]
  BY <1>5, <1>9, <1>10 DEF BookOf
<1>12. ASSUME NEW k \in 1 .. n PROVE C[k] = B[k]
  <2>1. PICK i \in OrdersIn(F) : k = F[i].id
    BY <1>9 DEF IDsIn
  <2>2. B[k] = OfLine(F, i)
    BY <1>5, <1>7, <2>1, BookAt
  <2>3. C[k] = OfLine(G, i)
    <3>1. i \in OrdersIn(G) /\ k = G[i].id
      BY <1>8, <2>1
    <3> QED
      BY <1>5, <1>7, <3>1, BookAt
  <2>4. OfLine(G, i) = OfLine(F, i)
    BY <1>7, <1>8 DEF OfLine
  <2> QED
    BY <2>2, <2>3, <2>4
<1>13. C[n + 1] = x
  <2>1. p \in OrdersIn(G) /\ G[p].id = n + 1
    BY <1>7, <1>8
  <2>2. C[n + 1] = OfLine(G, p)
    BY <1>5, <1>7, <2>1, BookAt
  <2> QED
    BY <1>4, <1>7, <1>8, <2>2 DEF OfLine
<1>14. C = Append(B, x)
  <2> DEFINE S == {C[k] : k \in 1 .. n + 1}
  <2>1. \A k \in 1 .. n : k \in 1 .. n + 1
    BY <1>7
  <2>2. \A k \in 1 .. n + 1 : C[k] \in S
    OBVIOUS
  <2>3. \A k \in 1 .. n : B[k] \in S
    BY <1>12, <2>1
  <2> HIDE DEF S
  <2>4. B \in [1 .. n -> S]
    BY <1>11, <2>3
  <2>5. C \in [1 .. n + 1 -> S]
    BY <1>11, <2>2
  <2>6. C = Append(B, C[n + 1])
    BY <1>7, <1>12, <2>4, <2>5, AppendIs
  <2> QED
    BY <1>13, <2>6
<1>15. u = t
  BY <1>5, <1>7, <1>8, TapeStays
<1>16. PICK r \in Requests : r.price = l.price /\ r.qty = l.qty
  BY <1>1
<1>17. l.side \in {"ask", "bid"}
  BY <1>1 DEF OrderLog, Side
<1>18. Abstract!Accept(l.side, r)
  BY <1>3, <1>4, <1>6, <1>14, <1>15, <1>16 DEF Abstract!Accept
<1> QED
  BY <1>17, <1>18 DEF Abstract!Next

(* The empty log is the Exchange at its start. *)
LEMMA ExchangeInit == Init => Abstract!Init
<1> SUFFICES ASSUME Init PROVE Abstract!Init
  OBVIOUS
<1>1. OrderLines = {} /\ MatchLines = {}
  BY DEF Init, OrderLines, MatchLines, Lines
<1>2. BookOfLog = <<>>
  BY <1>1 DEF BookOfLog
<1>3. Cardinality(MatchLines) = 0
  BY <1>1, FS_EmptySet
<1>4. TapeOfLog = <<>>
  <2>1. 1 .. Cardinality(MatchLines) = {}
    BY <1>3
  <2> QED
    BY <2>1 DEF TapeOfLog
<1> QED
  BY <1>2, <1>4 DEF Abstract!Init

(* Every step of the engine is a step of the Exchange or none. *)
LEMMA ExchangeStep ==
    ASSUME TypeOK, TypeOK', EngineInv, EngineInv', [Next]_vars
    PROVE  [Abstract!Next]_(Abstract!vars)
<1>0. /\ LogInv /\ LogInv' /\ LinesInv /\ BookIsLog /\ AllMade(filedb)
      /\ (pc = "recv" => ~Crossed(asks, bids))
  BY LinesIs DEF EngineInv, BookInv
<1>1. CASE filedb' = filedb
  <2>1. BookOfLog' = BookOfLog /\ TapeOfLog' = TapeOfLog
    BY <1>1, ExchangeIs, ExchangeNextIs
  <2> QED
    BY <2>1 DEF Abstract!vars
<1>2. ASSUME NEW m \in Crossing(asks, bids), pc = "match", TryMatch(m[1], m[2])
      PROVE  Abstract!Next
  <2>1. /\ m[1] \in asks /\ m[2] \in bids
        /\ IsBestAsk(m[1], asks) /\ IsBestBid(m[2], bids) /\ m[1].price <= m[2].price
    BY BestOnes
  <2>2. PICK l, i, j : TradeOf(l, i, j, m[1], m[2])
    BY <1>0, <1>2, <2>1, MatchEffect
  <2>3. asks = BookIn(filedb, "ask") /\ bids = BookIn(filedb, "bid")
    BY <1>0, <1>2, BookIs DEF Recovered
  <2> QED
    BY <1>0, <2>1, <2>2, <2>3, TradeMaps
<1>3. CASE NewTicket
  <2>1. pc = "recv"
    BY <1>3 DEF NewTicket
  <2>2. CASE filedb' = filedb
    BY <1>1, <2>2
  <2>3. ASSUME NEW l, OrderOf(l) PROVE Abstract!Next
    BY <1>0, <2>1, <2>3, OrderMaps
  <2> QED
    BY <1>0, <1>3, <2>2, <2>3, OrderEffect
<1> QED
  BY <1>1, <1>2, <1>3, LogSteps

(* The log of an engine that crashes, is restarted, loses its streams and fails its
   transactions is the run of one exchange: it accepts an order only when nothing can
   trade, and each trade is between a cheapest ask and a dearest bid, at the price of
   the older order and for all that the smaller one has left. *)
THEOREM ImplementsExchangeCorrect == Spec => ImplementsExchange
<1>1. TypeOK /\ TypeOK' /\ EngineInv /\ EngineInv' /\ [Next]_vars => [Abstract!Next]_(Abstract!vars)
  BY ExchangeStep
<1> QED
  BY <1>1, EngineCorrect, ExchangeInit, PTL DEF Spec, ImplementsExchange, Abstract!Spec
=============================================================================
