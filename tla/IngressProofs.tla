--------------------------- MODULE IngressProofs ---------------------------
(***************************************************************************)
(* Proofs about Ingress, for any number of workers and orders and any      *)
(* capacity of the channels: every order is somewhere, and once.           *)
(***************************************************************************)
EXTENDS IngressInv, FiniteSetTheorems, TLAPS

-----------------------------------------------------------------------------
(* Lemmas. *)

LEMMA WiderSeq ==
    ASSUME NEW S, NEW T, S \subseteq T, NEW q \in Seq(S)
    PROVE  q \in Seq(T)
<1>1. Len(q) \in Nat /\ DOMAIN q = 1 .. Len(q) /\ \A i \in 1 .. Len(q) : q[i] \in T
  OBVIOUS
<1>2. q = [i \in 1 .. Len(q) |-> q[i]]
  BY <1>1
<1> QED
  BY <1>1, <1>2

LEMMA InSeq == ASSUME NEW S, NEW q \in Seq(S), NEW i \in DOMAIN q PROVE q[i] \in S
OBVIOUS

(* What the types say of sequences. *)
LEMMA Shapes ==
    ASSUME TypeOK
    PROVE  /\ Len(ch) \in Nat /\ DOMAIN ch = 1 .. Len(ch)
           /\ DOMAIN side = 1 .. made
           /\ \A c \in Coin : Len(stream[c]) \in Nat /\ DOMAIN stream[c] = 1 .. Len(stream[c])
           /\ made \in Nat /\ Drawn \in Int
<1>1. ch \in Seq(1 .. made) /\ side \in Seq(Side) /\ Len(side) = made /\ made \in Nat
  BY IngressAssumption DEF TypeOK
<1>2. \A c \in Coin : stream[c] \in Seq(1 .. made)
  BY DEF TypeOK
<1> QED
  BY <1>1, <1>2 DEF Drawn

(* An order that a worker holds is one of those drawn. *)
LEMMA Held ==
    ASSUME TypeOK, HandsInv, NEW w \in Workers, worker[w].step # "idle"
    PROVE  w \in Busy /\ worker[w].order \in 1 .. Drawn /\ worker[w].order \in 1 .. made
<1>1. w \in Busy
  BY DEF Busy, Idle
<1>2. worker[w].order \in 1 .. Drawn
  BY <1>1 DEF HandsInv
<1>3. Len(ch) \in Nat /\ made \in Nat
  BY Shapes
<1> QED
  BY <1>1, <1>2, <1>3 DEF Drawn

LEMMA BusyFinite == IsFiniteSet(Busy) /\ Cardinality(Busy) \in Nat
<1>1. Busy \in SUBSET Workers
  BY DEF Busy
<1> QED
  BY <1>1, IngressAssumption, FS_Subset, FS_CardinalityType

-----------------------------------------------------------------------------
(* Types. *)

LEMMA TypeInit == Init => TypeOK
<1> SUFFICES ASSUME Init PROVE TypeOK
  OBVIOUS
<1>1. tries \in 0 .. MaxTries /\ made \in 0 .. Target /\ ch2 \in 0 .. ChanCap
      /\ sentOds \in 0 .. Target /\ pc \in Coin
  BY IngressAssumption DEF Init, Coin
<1>2. side \in Seq(Side) /\ Len(side) = made /\ ch \in Seq(1 .. made)
  BY DEF Init
<1>3. stream \in [Coin -> Seq(1 .. made)] /\ failed \subseteq 1 .. made /\ wg \in {0, 1}
  BY DEF Init
<1>4. worker \in [Workers -> [step : {"idle", "send", "report"}, order : 0 .. made]]
  BY DEF Init, Idle
<1> QED
  BY <1>1, <1>2, <1>3, <1>4 DEF TypeOK

(* An order in the head of the channel; the rest of it. *)
LEMMA HeadOrder ==
    ASSUME TypeOK, HandsInv, ch # <<>>
    PROVE  /\ Head(ch) = Drawn + 1 /\ Head(ch) \in 1 .. made
           /\ Tail(ch) \in Seq(1 .. made) /\ Len(Tail(ch)) = Len(ch) - 1 /\ Len(ch) \in Nat \ {0}
           /\ \A k \in 1 .. Len(ch) - 1 : Tail(ch)[k] = ch[k + 1]
<1>1. ch \in Seq(1 .. made)
  BY DEF TypeOK
<1>2. Head(ch) = ch[1] /\ 1 \in DOMAIN ch
  BY <1>1
<1>3. ch[1] = Drawn + 1
  BY <1>2 DEF HandsInv
<1>4. Tail(ch) \in Seq(1 .. made) /\ Len(Tail(ch)) = Len(ch) - 1 /\ Len(ch) \in Nat \ {0}
  BY <1>1
<1>5. \A k \in 1 .. Len(ch) - 1 : Tail(ch)[k] = ch[k + 1]
  BY <1>1, <1>4
<1>6. Head(ch) \in 1 .. made
  BY <1>1, <1>2, InSeq
<1> QED
  BY <1>2, <1>3, <1>4, <1>5, <1>6

LEMMA Stored ==
    ASSUME TypeOK, NEW n \in 1 .. made
    PROVE  Store(n) => stream' \in [Coin -> Seq(1 .. made)]
<1>1. dispatchBank(side[n]) \in Coin
  BY DEF dispatchBank, Coin
<1>2. PICK c : c = dispatchBank(side[n])
  OBVIOUS
<1>3. stream \in [Coin -> Seq(1 .. made)]
  BY DEF TypeOK
<1>4. Append(stream[c], n) \in Seq(1 .. made)
  BY <1>1, <1>2, <1>3
<1> QED
  BY <1>1, <1>2, <1>3, <1>4 DEF Store

LEMMA TypeStep == TypeOK /\ Accounting /\ [Next]_vars => TypeOK'
<1> SUFFICES ASSUME TypeOK, Accounting, [Next]_vars PROVE TypeOK'
  OBVIOUS
<1>0. MainInv /\ HandsInv /\ CountInv
  BY DEF Accounting
<1>1. CASE GetNats
  BY <1>1, IngressAssumption DEF GetNats, TypeOK, Coin
<1>2. CASE GetNatsFails
  <2>1. tries' \in 0 .. MaxTries
    BY <1>0, <1>2, IngressAssumption DEF GetNatsFails, MainInv, TypeOK
  <2>2. pc' \in Coin \cup {"make", "wait", "done", "failed"}
    BY <1>2 DEF GetNatsFails
  <2> QED
    BY <1>2, <2>1, <2>2 DEF GetNatsFails, TypeOK
<1>3. ASSUME NEW s \in Side, Make(s) PROVE TypeOK'
  <2>1. made \in Nat /\ made' = made + 1 /\ made' \in 0 .. Target
        /\ 1 .. made \subseteq 1 .. made' /\ 0 .. made \subseteq 0 .. made' /\ made + 1 \in 1 .. made'
    BY <1>3, IngressAssumption DEF Make, TypeOK
  <2>2. side' \in Seq(Side) /\ Len(side') = made'
    BY <1>3, <2>1 DEF Make, TypeOK
  <2>3. ch' \in Seq(1 .. made')
    <3>1. ch \in Seq(1 .. made')
      BY <2>1, WiderSeq DEF TypeOK
    <3> QED
      BY <1>3, <2>1, <3>1 DEF Make
  <2>4. stream' \in [Coin -> Seq(1 .. made')]
    <3>1. stream' = stream /\ stream \in [Coin -> Seq(1 .. made)]
      BY <1>3 DEF Make, TypeOK
    <3>2. \A c \in Coin : stream[c] \in Seq(1 .. made')
      BY <2>1, <3>1, WiderSeq
    <3> QED
      BY <3>1, <3>2
  <2>5. worker' \in [Workers -> [step : {"idle", "send", "report"}, order : 0 .. made']]
    BY <1>3, <2>1 DEF Make, TypeOK
  <2>6. pc' \in Coin \cup {"make", "wait", "done", "failed"}
    BY <1>3 DEF Make
  <2> QED
    BY <1>3, <2>1, <2>2, <2>3, <2>4, <2>5, <2>6 DEF Make, TypeOK
<1>4. CASE Return
  BY <1>4 DEF Return, TypeOK
<1>5. ASSUME NEW w \in Workers, Take(w) PROVE TypeOK'
  <2>1. Head(ch) \in 0 .. made /\ Tail(ch) \in Seq(1 .. made)
    BY <1>0, <1>5, HeadOrder DEF Take
  <2>2. worker' \in [Workers -> [step : {"idle", "send", "report"}, order : 0 .. made]]
    BY <1>5, <2>1 DEF Take, TypeOK
  <2> QED
    BY <1>5, <2>1, <2>2 DEF Take, TypeOK, mainVars
<1>6. ASSUME NEW w \in Workers, SendOrderReq(w) \/ SendOrderReqFails(w) PROVE TypeOK'
  <2>1. worker[w].order \in 1 .. made /\ UNCHANGED <<mainVars, ch, ch2, sentOds, wg>>
    BY <1>0, <1>6, Held DEF SendOrderReq, SendOrderReqFails
  <2>2. stream' \in [Coin -> Seq(1 .. made)]
    BY <1>6, <2>1, Stored DEF SendOrderReq, SendOrderReqFails, TypeOK
  <2>3. worker' \in [Workers -> [step : {"idle", "send", "report"}, order : 0 .. made]]
    BY SMTT(30), <1>6, <2>1 DEF SendOrderReq, SendOrderReqFails, AfterSend, TypeOK
  <2>4. failed' \subseteq 1 .. made
    BY <1>6, <2>1 DEF SendOrderReq, SendOrderReqFails, TypeOK
  <2> QED
    BY <2>1, <2>2, <2>3, <2>4 DEF TypeOK, mainVars
<1>7. ASSUME NEW w \in Workers, Report(w) PROVE TypeOK'
  <2>1. ch2' \in 0 .. ChanCap
    BY <1>7, IngressAssumption DEF Report, TypeOK
  <2>2. worker' \in [Workers -> [step : {"idle", "send", "report"}, order : 0 .. made]]
    BY <1>7, IngressAssumption DEF Report, TypeOK, Idle
  <2> QED
    BY <1>7, <2>1, <2>2 DEF Report, TypeOK, mainVars
<1>8. CASE Count
  <2>1. ch2' \in 0 .. ChanCap
    BY <1>8, IngressAssumption DEF Count, TypeOK
  <2>2. sentOds < Target
    BY <1>0, <1>8, Shapes, BusyFinite, IngressAssumption DEF Count, TypeOK, CountInv, Drawn
  <2>3. sentOds' \in 0 .. Target /\ wg' \in {0, 1}
    BY <1>0, <1>8, <2>2, IngressAssumption DEF Count, TypeOK, CountInv
  <2> QED
    BY <1>8, <2>1, <2>3 DEF Count, TypeOK, mainVars
<1>9. CASE UNCHANGED vars
  BY <1>9 DEF TypeOK, vars, mainVars
<1> QED
  BY <1>1, <1>2, <1>3, <1>4, <1>5, <1>6, <1>7, <1>8, <1>9 DEF Next, Worker

-----------------------------------------------------------------------------
(* Where the orders are. *)

LEMMA AccountingInit == Init => Accounting
<1> SUFFICES ASSUME Init PROVE Accounting
  OBVIOUS
<1>0. Len(ch) = 0 /\ DOMAIN ch = {} /\ Drawn = 0 /\ Busy = {}
  <2>1. ch = <<>> /\ Len(ch) = 0 /\ DOMAIN ch = {} /\ made = 0
    BY DEF Init
  <2>2. Busy = {}
    BY DEF Init, Busy
  <2>3. Drawn = 0 - 0
    BY <2>1 DEF Drawn
  <2> QED
    BY <2>1, <2>2, <2>3
<1>1. MainInv
  BY IngressAssumption DEF Init, MainInv, Coin
<1>2. HandsInv
  BY <1>0 DEF Init, HandsInv, Idle
<1>3. StoredInv
  BY <1>0 DEF Init, StoredInv, Coin
<1>4. CountInv
  BY <1>0, FS_EmptySet, IngressAssumption DEF Init, CountInv
<1> QED
  BY <1>1, <1>2, <1>3, <1>4 DEF Accounting

LEMMA MainStep == TypeOK /\ MainInv /\ [Next]_vars => MainInv'
<1> SUFFICES ASSUME TypeOK, MainInv, [Next]_vars PROVE MainInv'
  OBVIOUS
<1>1. CASE GetNats
  <2>1. pc' \in {"USDT", "make"} /\ made' = 0 /\ tries' = 0 /\ made' < Target /\ tries' < MaxTries
    BY <1>1, IngressAssumption DEF GetNats, MainInv
  <2> QED
    BY <2>1 DEF MainInv
<1>2. CASE GetNatsFails
  <2>1. tries + 1 \in Nat /\ tries + 1 <= MaxTries
    BY <1>2, IngressAssumption DEF GetNatsFails, MainInv, TypeOK
  <2>2. made' = made /\ made = 0 /\ tries' = tries + 1
        /\ (pc' = "failed" \/ (pc' = pc /\ tries' # MaxTries))
    BY <1>2 DEF GetNatsFails, MainInv
  <2>3. pc' = pc => tries' < MaxTries
    BY <2>1, <2>2, IngressAssumption, <1>2 DEF GetNatsFails, Coin
  <2> QED
    BY <1>2, <2>2, <2>3 DEF MainInv, GetNatsFails, Coin
<1>3. ASSUME NEW s \in Side, Make(s) PROVE MainInv'
  <2>1. made' \in Nat /\ made' <= Target /\ (pc' = IF made' = Target THEN "wait" ELSE "make")
    BY <1>3, IngressAssumption DEF Make, TypeOK
  <2> QED
    BY <2>1, IngressAssumption DEF MainInv, Coin
<1>4. CASE Return
  BY <1>4 DEF Return, MainInv, Coin
<1>5. CASE Count
  BY <1>5 DEF Count, Running, MainInv, mainVars
<1>6. CASE UNCHANGED <<mainVars, wg>>
  BY <1>6 DEF MainInv, mainVars
<1> QED
  BY <1>1, <1>2, <1>3, <1>4, <1>5, <1>6
  DEF Next, Worker, Take, SendOrderReq, SendOrderReqFails, Report, vars

LEMMA HandsStep == TypeOK /\ HandsInv /\ [Next]_vars => HandsInv'
<1> SUFFICES ASSUME TypeOK, HandsInv, [Next]_vars PROVE HandsInv'
  OBVIOUS
<1>0. /\ Len(ch) \in Nat /\ DOMAIN ch = 1 .. Len(ch) /\ made \in Nat
      /\ Len(ch) <= made /\ \A k \in DOMAIN ch : ch[k] = Drawn + k
  BY Shapes DEF HandsInv
<1>1. ASSUME UNCHANGED <<made, ch, worker>> PROVE HandsInv'
  BY <1>1 DEF HandsInv, Drawn, Busy
<1>2. ASSUME NEW s \in Side, Make(s) PROVE HandsInv'
  <2>1. made' = made + 1 /\ ch' = Append(ch, made + 1) /\ worker' = worker
    BY <1>2 DEF Make
  <2>2. ch \in Seq(1 .. made)
    BY DEF TypeOK
  <2>3. Len(ch') = Len(ch) + 1 /\ DOMAIN ch' = 1 .. Len(ch) + 1 /\ ch'[Len(ch) + 1] = made + 1
        /\ \A k \in 1 .. Len(ch) : ch'[k] = ch[k]
    BY <2>1, <2>2
  <2>4. Drawn' = Drawn /\ Drawn \in Int /\ made + 1 = Drawn + (Len(ch) + 1)
    BY <1>0, <2>1, <2>3 DEF Drawn
  <2>5. \A k \in DOMAIN ch' : ch'[k] = Drawn' + k
    <3>1. \A k \in 1 .. Len(ch) + 1 : k \in 1 .. Len(ch) \/ k = Len(ch) + 1
      BY <1>0
    <3> QED
      BY <1>0, <2>3, <2>4, <3>1
  <2>6. Busy' = Busy
    BY <2>1 DEF Busy
  <2>7. Len(ch') <= made'
    BY <1>0, <2>1, <2>3
  <2> QED
    BY <2>1, <2>4, <2>5, <2>6, <2>7 DEF HandsInv
<1>3. ASSUME NEW w \in Workers, Take(w) PROVE HandsInv'
  <2>1. /\ worker' = [worker EXCEPT ![w] = [step |-> "send", order |-> Drawn + 1]]
        /\ ch' = Tail(ch) /\ made' = made /\ worker[w] = Idle /\ ch # <<>>
        /\ worker \in [Workers -> [step : {"idle", "send", "report"}, order : 0 .. made]]
    BY <1>3, HeadOrder DEF Take, mainVars, TypeOK
  <2>2. Len(ch') = Len(ch) - 1 /\ Len(ch) # 0 /\ DOMAIN ch' = 1 .. Len(ch) - 1
        /\ \A k \in 1 .. Len(ch) - 1 : ch'[k] = ch[k + 1]
    BY <2>1, HeadOrder
  <2>3. Drawn' = Drawn + 1 /\ Drawn \in Nat
    BY <1>0, <2>1, <2>2 DEF Drawn
  <2>4. Len(ch') <= made' /\ \A k \in DOMAIN ch' : ch'[k] = Drawn' + k
    <3>1. \A k \in 1 .. Len(ch) - 1 : k + 1 \in 1 .. Len(ch) /\ k \in Int
      BY <1>0
    <3>2. \A k \in 1 .. Len(ch) - 1 : ch'[k] = Drawn + (k + 1)
      BY <1>0, <2>2, <3>1
    <3>3. \A k \in 1 .. Len(ch) - 1 : Drawn + (k + 1) = Drawn' + k
      BY <2>3, <3>1
    <3> QED
      BY <1>0, <2>1, <2>2, <3>2, <3>3
  <2>5. worker'[w] = [step |-> "send", order |-> Drawn + 1]
        /\ \A v \in Workers \ {w} : worker'[v] = worker[v]
    BY <2>1
  <2>6. Busy' = Busy \cup {w} /\ w \notin Busy
    BY <2>1, <2>5 DEF Busy, Idle
  <2>7. \A v \in Busy : worker'[v] = worker[v] /\ worker[v].order \in 1 .. Drawn
    BY <2>5, <2>6 DEF HandsInv, Busy
  <2>8. \A v \in Busy' : worker'[v].order \in 1 .. Drawn'
    BY <2>3, <2>5, <2>6, <2>7
  <2>9. \A v \in Busy : worker'[v].order # worker'[w].order
    BY <2>3, <2>5, <2>7
  <2>10. \A u, v \in Busy' : worker'[u].order = worker'[v].order => u = v
    BY <2>6, <2>7, <2>9 DEF HandsInv
  <2>11. \A v \in Workers : worker'[v].step = "idle" => worker'[v] = Idle
    BY <2>5 DEF HandsInv
  <2> QED
    BY <2>4, <2>8, <2>10, <2>11 DEF HandsInv
<1>4. ASSUME NEW w \in Workers, SendOrderReq(w) \/ SendOrderReqFails(w) PROVE HandsInv'
  <2>1. /\ worker' = [worker EXCEPT ![w] = [step |-> "report", order |-> worker[w].order]]
        /\ ch' = ch /\ made' = made /\ worker[w].step = "send"
        /\ worker \in [Workers -> [step : {"idle", "send", "report"}, order : 0 .. made]]
    BY <1>4 DEF SendOrderReq, SendOrderReqFails, AfterSend, mainVars, TypeOK
  <2>2. \A v \in Workers : /\ worker'[v].order = worker[v].order
                           /\ v # w => worker'[v] = worker[v]
    BY <2>1
  <2>3. worker'[w].step = "report" /\ w \in Busy
    BY <2>1 DEF Busy, Idle
  <2>4. Busy' = Busy /\ Drawn' = Drawn
    BY <2>1, <2>2, <2>3 DEF Busy, Idle, Drawn
  <2>5. \A v \in Busy : v \in Workers
    BY DEF Busy
  <2>6. \A v \in Workers : worker'[v].step = "idle" => worker'[v] = Idle
    BY <2>2, <2>3 DEF HandsInv
  <2> QED
    BY <1>0, <2>1, <2>2, <2>4, <2>5, <2>6 DEF HandsInv
<1>5. ASSUME NEW w \in Workers, Report(w) PROVE HandsInv'
  <2>1. worker' = [worker EXCEPT ![w] = Idle] /\ ch' = ch /\ made' = made
    BY <1>5 DEF Report, mainVars
  <2>2. \A v \in Workers : worker'[v] = IF v = w THEN Idle ELSE worker[v]
    BY <2>1 DEF TypeOK
  <2>3. Busy' = Busy \ {w} /\ Drawn' = Drawn
    BY <2>1, <2>2 DEF Busy, Drawn
  <2>4. \A v \in Busy' : v \in Busy /\ worker'[v] = worker[v]
    BY <2>2, <2>3 DEF Busy
  <2> QED
    BY <1>0, <2>1, <2>2, <2>3, <2>4 DEF HandsInv
<1> QED
  BY <1>1, <1>2, <1>3, <1>4, <1>5
  DEF Next, Worker, GetNats, GetNatsFails, Return, Count, vars, mainVars

(* The orders a worker has sent, or tried to. *)
Sent == (1 .. Drawn) \ Sending

Has(n) == \E c \in Coin : \E i \in DOMAIN stream[c] : stream[c][i] = n

LEMMA HasStores == ASSUME NEW n PROVE Stores(n) # {} <=> Has(n)
<1>1. ASSUME Stores(n) # {} PROVE Has(n)
  <2>1. PICK p \in Stores(n) : TRUE
    BY <1>1
  <2>2. PICK c \in Coin : p \in {c} \X DOMAIN stream[c]
    BY <2>1 DEF Stores
  <2>3. p[1] = c /\ p[2] \in DOMAIN stream[c] /\ stream[p[1]][p[2]] = n
    BY <2>1, <2>2 DEF Stores
  <2> QED
    BY <2>3 DEF Has
<1>2. ASSUME Has(n) PROVE Stores(n) # {}
  <2>1. PICK c \in Coin : \E i \in DOMAIN stream[c] : stream[c][i] = n
    BY <1>2 DEF Has
  <2>2. PICK i \in DOMAIN stream[c] : stream[c][i] = n
    BY <2>1
  <2>3. <<c, i>> \in {c} \X DOMAIN stream[c] /\ <<c, i>>[1] = c /\ <<c, i>>[2] = i
    OBVIOUS
  <2>4. <<c, i>> \in Stores(n)
    BY <2>1, <2>2, <2>3 DEF Stores
  <2> QED
    BY <2>4
<1> QED
  BY <1>1, <1>2

(* StoredInv with these names. *)
StoredParts ==
    /\ \A c \in Coin : \A i \in DOMAIN stream[c] :
        /\ stream[c][i] \in Sent
        /\ dispatchBank(side[stream[c][i]]) = c
        /\ \A j \in DOMAIN stream[c] : stream[c][i] = stream[c][j] => i = j
    /\ \A n \in Sent : Has(n) \/ n \in failed

LEMMA StoredAs == StoredInv <=> StoredParts
BY HasStores DEF StoredInv, StoredParts, Sent

LEMMA StoredNext == StoredInv' <=> StoredParts'
BY StoredAs, PTL

(* No order is sent. *)
LEMMA StoredKept ==
    ASSUME StoredInv, UNCHANGED <<stream, failed>>, Sent' = Sent,
           \A n \in Sent : side'[n] = side[n]
    PROVE  StoredInv'
<1>1. StoredParts
  BY StoredAs
<1>2. \A n : Has(n)' = Has(n)
  BY DEF Has
<1>3. StoredParts'
  BY <1>1, <1>2 DEF StoredParts, dispatchBank
<1> QED
  BY <1>3, StoredNext

LEMMA StoredStep == TypeOK /\ HandsInv /\ StoredInv /\ [Next]_vars => StoredInv'
<1> SUFFICES ASSUME TypeOK, HandsInv, StoredInv, [Next]_vars PROVE StoredInv'
  OBVIOUS
<1>0. Len(ch) \in Nat /\ made \in Nat /\ Drawn = made - Len(ch) /\ Drawn \in Nat
  BY Shapes DEF HandsInv, Drawn
<1>1. ASSUME UNCHANGED <<made, side, ch, worker, stream, failed>> PROVE StoredInv'
  <2>1. Sent' = Sent
    BY <1>1 DEF Sent, Sending, Drawn
  <2> QED
    BY <1>1, <2>1, StoredKept
<1>2. ASSUME NEW s \in Side, Make(s) PROVE StoredInv'
  <2>1. /\ made' = made + 1 /\ side' = Append(side, s) /\ ch' = Append(ch, made + 1)
        /\ UNCHANGED <<worker, stream, failed>>
    BY <1>2 DEF Make
  <2>2. side \in Seq(Side) /\ Len(side) = made /\ ch \in Seq(1 .. made)
    BY DEF TypeOK
  <2>3. Len(ch') = Len(ch) + 1
    BY <2>1, <2>2
  <2>4. Sent' = Sent
    <3>1. Drawn' = Drawn
      BY <1>0, <2>1, <2>3 DEF Drawn
    <3> QED
      BY <2>1, <3>1 DEF Sent, Sending
  <2>5. \A n \in 1 .. made : side'[n] = side[n]
    BY <2>1, <2>2
  <2>6. \A n \in Sent : n \in 1 .. made
    BY <1>0 DEF Sent
  <2> QED
    BY <2>1, <2>4, <2>5, <2>6, StoredKept
<1>3. ASSUME NEW w \in Workers, Take(w) PROVE StoredInv'
  <2>1. /\ worker' = [worker EXCEPT ![w] = [step |-> "send", order |-> Drawn + 1]]
        /\ ch' = Tail(ch) /\ worker[w] = Idle /\ ch # <<>>
        /\ UNCHANGED <<made, side, stream, failed>>
    BY <1>3, HeadOrder DEF Take, mainVars
  <2>2. Drawn' = Drawn + 1
    BY <1>0, <2>1, HeadOrder DEF Drawn
  <2>3. Sending' = Sending \cup {Drawn + 1}
    <3>1. \A v \in Workers :
            worker'[v] = IF v = w THEN [step |-> "send", order |-> Drawn + 1] ELSE worker[v]
      BY <2>1 DEF TypeOK
    <3>2. worker[w].step # "send"
      BY <2>1 DEF Idle
    <3> QED
      BY <3>1, <3>2 DEF Sending
  <2>4. Sent' = Sent
    BY <1>0, <2>2, <2>3 DEF Sent
  <2> QED
    BY <2>1, <2>4, StoredKept
<1>4. ASSUME NEW w \in Workers, SendOrderReq(w) \/ SendOrderReqFails(w) PROVE StoredInv'
  <2>1. PICK n : n = worker[w].order
    OBVIOUS
  <2>2. /\ worker' = [worker EXCEPT ![w] = [step |-> "report", order |-> n]]
        /\ worker[w].step = "send" /\ UNCHANGED <<made, side, ch>>
        /\ \/ Store(n) /\ failed \subseteq failed'
           \/ stream' = stream /\ failed' = failed \cup {n}
    BY <1>4, <2>1 DEF SendOrderReq, SendOrderReqFails, AfterSend, mainVars
  <2>3. w \in Busy /\ n \in 1 .. Drawn /\ n \in 1 .. made /\ n \in Sending
    BY <2>1, <2>2, Held DEF Sending
  <2>4. Sending' = Sending \ {n}
    <3>1. \A v \in Workers :
            worker'[v] = IF v = w THEN [step |-> "report", order |-> n] ELSE worker[v]
      BY <2>2 DEF TypeOK
    <3>2. \A v \in Workers \ {w} : worker[v].step = "send" => worker[v].order # n
      BY <2>1, <2>3 DEF HandsInv, Busy, Idle
    <3> QED
      BY <2>1, <3>1, <3>2 DEF Sending
  <2>5. Sent' = Sent \cup {n} /\ n \notin Sent
    <3>1. Drawn' = Drawn
      BY <2>2 DEF Drawn
    <3> QED
      BY <2>3, <2>4, <3>1 DEF Sent
  <2>6. StoredParts
    BY StoredAs
  <2>7. CASE stream' = stream /\ failed' = failed \cup {n}
    <3>1. \A m : Has(m)' = Has(m)
      BY <2>7 DEF Has
    <3>2. StoredParts'
      BY <2>2, <2>5, <2>6, <2>7, <3>1 DEF StoredParts, dispatchBank
    <3> QED
      BY <3>2, StoredNext
  <2>8. CASE Store(n) /\ failed \subseteq failed'
    <3>1. PICK b \in Coin : b = dispatchBank(side[n])
      BY DEF dispatchBank, Coin
    <3>2. stream' = [stream EXCEPT ![b] = Append(stream[b], n)]
          /\ stream \in [Coin -> Seq(1 .. made)]
      BY <2>8, <3>1 DEF Store, TypeOK
    <3>3. PICK k \in Nat : k = Len(stream[b])
      BY Shapes
    <3>4. /\ DOMAIN stream'[b] = 1 .. k + 1 /\ DOMAIN stream[b] = 1 .. k
          /\ stream'[b][k + 1] = n /\ \A i \in 1 .. k : stream'[b][i] = stream[b][i]
      BY <3>2, <3>3
    <3>5. \A c \in Coin \ {b} : stream'[c] = stream[c]
      BY <3>2
    <3>6. ASSUME NEW c \in Coin, NEW i \in DOMAIN stream'[c]
          PROVE  \/ i \in DOMAIN stream[c] /\ stream'[c][i] = stream[c][i]
                 \/ c = b /\ i = k + 1 /\ stream'[c][i] = n
      BY <3>4, <3>5
    <3>7. ASSUME NEW c \in Coin, NEW i \in DOMAIN stream'[c]
          PROVE  /\ stream'[c][i] \in Sent' /\ dispatchBank(side'[stream'[c][i]]) = c
      BY <2>2, <2>5, <2>6, <3>1, <3>6 DEF StoredParts
    <3>8. ASSUME NEW c \in Coin, NEW i \in DOMAIN stream'[c], NEW j \in DOMAIN stream'[c],
                 stream'[c][i] = stream'[c][j]
          PROVE  i = j
      BY <2>5, <2>6, <3>6, <3>8 DEF StoredParts
    <3>9. ASSUME NEW m \in Sent' PROVE Has(m)' \/ m \in failed'
      <4>1. CASE m = n
        BY <3>4, <4>1 DEF Has
      <4>2. CASE Has(m)
        <5>1. PICK c \in Coin : \E i \in DOMAIN stream[c] : stream[c][i] = m
          BY <4>2 DEF Has
        <5>2. \E i \in DOMAIN stream'[c] : stream'[c][i] = m
          BY SMTT(30), <3>4, <3>5, <5>1
        <5> QED
          BY <5>2 DEF Has
      <4> QED
        BY <2>5, <2>6, <2>8, <4>1, <4>2 DEF StoredParts
    <3>10. StoredParts'
      BY <3>7, <3>8, <3>9 DEF StoredParts, dispatchBank
    <3> QED
      BY <3>10, StoredNext
  <2> QED
    BY <2>2, <2>7, <2>8
<1>5. ASSUME NEW w \in Workers, Report(w) PROVE StoredInv'
  <2>1. worker' = [worker EXCEPT ![w] = Idle] /\ worker[w].step = "report"
        /\ UNCHANGED <<made, side, ch, stream, failed>>
    BY <1>5 DEF Report, mainVars
  <2>2. \A v \in Workers : worker'[v] = IF v = w THEN Idle ELSE worker[v]
    BY <2>1 DEF TypeOK
  <2>3. Sending' = Sending
    BY <2>1, <2>2 DEF Sending, Idle
  <2>4. Sent' = Sent
    BY <2>1, <2>3 DEF Sent, Drawn
  <2> QED
    BY <2>1, <2>4, StoredKept
<1> QED
  BY <1>1, <1>2, <1>3, <1>4, <1>5
  DEF Next, Worker, GetNats, GetNatsFails, Return, Count, vars, mainVars

(* Reports and orders add up. *)
LEMMA CountStep == TypeOK /\ HandsInv /\ CountInv /\ [Next]_vars => CountInv'
<1> SUFFICES ASSUME TypeOK, HandsInv, CountInv, [Next]_vars PROVE CountInv'
  OBVIOUS
<1>0. /\ Len(ch) \in Nat /\ made \in Nat /\ Drawn = made - Len(ch) /\ Drawn \in Int
      /\ sentOds \in Nat /\ ch2 \in Nat /\ wg \in {0, 1} /\ Target \in Nat
      /\ IsFiniteSet(Busy) /\ Cardinality(Busy) \in Nat
  BY Shapes, BusyFinite, IngressAssumption DEF Drawn, TypeOK
<1>1. ASSUME UNCHANGED <<made, ch, worker, ch2, sentOds, wg>> PROVE CountInv'
  BY <1>1 DEF CountInv, Drawn, Busy
<1>2. ASSUME NEW s \in Side, Make(s) PROVE CountInv'
  <2>1. /\ made' = made + 1 /\ ch' = Append(ch, made + 1)
        /\ UNCHANGED <<worker, ch2, sentOds, wg>>
    BY <1>2 DEF Make
  <2>2. Len(ch') = Len(ch) + 1
    BY <2>1 DEF TypeOK
  <2>3. Drawn' = Drawn /\ Busy' = Busy
    BY <1>0, <2>1, <2>2 DEF Drawn, Busy
  <2> QED
    BY <2>1, <2>3 DEF CountInv
<1>3. ASSUME NEW w \in Workers, Take(w) PROVE CountInv'
  <2>1. /\ worker' = [worker EXCEPT ![w] = [step |-> "send", order |-> Head(ch)]]
        /\ ch' = Tail(ch) /\ worker[w] = Idle /\ ch # <<>> /\ UNCHANGED <<made, ch2, sentOds, wg>>
    BY <1>3 DEF Take, mainVars
  <2>2. Drawn' = Drawn + 1
    BY <1>0, <2>1, HeadOrder DEF Drawn
  <2>3. \A v \in Workers :
            worker'[v] = IF v = w THEN [step |-> "send", order |-> Head(ch)] ELSE worker[v]
    BY <2>1 DEF TypeOK
  <2>4. Busy' = Busy \cup {w} /\ w \notin Busy
    BY <2>1, <2>3 DEF Busy, Idle
  <2>5. Cardinality(Busy') = Cardinality(Busy) + 1
    BY <1>0, <2>4, FS_AddElement
  <2> QED
    BY SMTT(30), <1>0, <2>1, <2>2, <2>5 DEF CountInv
<1>4. ASSUME NEW w \in Workers, SendOrderReq(w) \/ SendOrderReqFails(w) PROVE CountInv'
  <2>1. /\ worker' = [worker EXCEPT ![w] = [step |-> "report", order |-> worker[w].order]]
        /\ worker[w].step = "send" /\ UNCHANGED <<made, ch, ch2, sentOds, wg>>
    BY <1>4 DEF SendOrderReq, SendOrderReqFails, AfterSend, mainVars
  <2>2. \A v \in Workers : worker'[v] = IF v = w THEN [step |-> "report", order |-> worker[w].order]
                                                ELSE worker[v]
    BY <2>1 DEF TypeOK
  <2>3. Busy' = Busy /\ Drawn' = Drawn
    BY <2>1, <2>2 DEF Busy, Idle, Drawn
  <2> QED
    BY <2>1, <2>3 DEF CountInv
<1>5. ASSUME NEW w \in Workers, Report(w) PROVE CountInv'
  <2>1. /\ worker' = [worker EXCEPT ![w] = Idle] /\ worker[w].step = "report" /\ ch2' = ch2 + 1
        /\ UNCHANGED <<made, ch, sentOds, wg>>
    BY <1>5 DEF Report, mainVars
  <2>2. \A v \in Workers : worker'[v] = IF v = w THEN Idle ELSE worker[v]
    BY <2>1 DEF TypeOK
  <2>3. Busy' = Busy \ {w} /\ w \in Busy /\ Drawn' = Drawn
    BY <2>1, <2>2 DEF Busy, Idle, Drawn
  <2>4. Cardinality(Busy') = Cardinality(Busy) - 1
    BY <1>0, <2>3, FS_RemoveElement
  <2> QED
    BY <1>0, <2>1, <2>3, <2>4 DEF CountInv
<1>6. CASE Count
  <2>1. /\ ch2' = ch2 - 1 /\ sentOds' = sentOds + 1 /\ UNCHANGED <<made, ch, worker>>
        /\ wg' = IF sentOds' >= Target THEN wg - 1 ELSE wg
    BY <1>6 DEF Count, Enough, mainVars
  <2>2. Drawn' = Drawn /\ Busy' = Busy
    BY <2>1 DEF Drawn, Busy
  <2>3. sentOds < Target
    <3>1. made <= Target /\ ch2 > 0
      BY <1>0, <1>6 DEF TypeOK, Count
    <3>2. sentOds + ch2 + Cardinality(Busy) = made - Len(ch)
      BY <1>0 DEF CountInv
    <3> QED
      BY <1>0, <3>1, <3>2
  <2>4. wg' = IF sentOds' < Target THEN 1 ELSE 0
    BY <1>0, <2>1, <2>3 DEF CountInv
  <2> QED
    BY <1>0, <2>1, <2>2, <2>4 DEF CountInv
<1> QED
  BY <1>1, <1>2, <1>3, <1>4, <1>5, <1>6
  DEF Next, Worker, GetNats, GetNatsFails, Return, vars, mainVars

LEMMA AccountingCorrect == Spec => [](TypeOK /\ Accounting)
<1>1. Init => TypeOK /\ Accounting
  BY TypeInit, AccountingInit
<1>2. TypeOK /\ Accounting /\ [Next]_vars => TypeOK' /\ Accounting'
  BY TypeStep, MainStep, HandsStep, StoredStep, CountStep DEF Accounting
<1> QED
  BY <1>1, <1>2, PTL DEF Spec

-----------------------------------------------------------------------------
(* Theorems. *)

(* Every variable keeps its shape; in particular no more is counted than there
   are orders, so the WaitGroup is released once. *)
THEOREM TypeCorrect == Spec => []TypeOK
BY AccountingCorrect, PTL

(* Each order is in the channel, in the hands of one worker, or sent; the reports
   under way and counted are those of the orders the workers are done with. *)
THEOREM AccountingInvariant == Spec => []Accounting
BY AccountingCorrect, PTL

(* No order gets into the streams twice or into the wrong one (dispatchBank,
   SendOrderReq), for any number of workers. *)
THEOREM OnceInItsBankCorrect == Spec => []OnceInItsBank
<1>1. TypeOK /\ Accounting => OnceInItsBank
  <2> SUFFICES ASSUME TypeOK, Accounting, NEW n \in 1 .. made
               PROVE  /\ Cardinality(Stores(n)) <= 1
                      /\ \A p \in Stores(n) : p[1] = dispatchBank(side[n])
    BY DEF OnceInItsBank, dispatchBank
  <2>1. StoredParts
    BY StoredAs DEF Accounting
  <2>2. ASSUME NEW p \in Stores(n)
        PROVE  /\ p = <<p[1], p[2]>> /\ p[1] \in Coin /\ p[2] \in DOMAIN stream[p[1]]
               /\ stream[p[1]][p[2]] = n /\ p[1] = dispatchBank(side[n])
    <3>1. PICK c \in Coin : p \in {c} \X DOMAIN stream[c]
      BY <2>2 DEF Stores
    <3>2. p = <<p[1], p[2]>> /\ p[1] = c /\ p[2] \in DOMAIN stream[c] /\ stream[p[1]][p[2]] = n
      BY <2>2, <3>1 DEF Stores
    <3> QED
      BY <2>1, <3>2 DEF StoredParts
  <2>3. \A p, q \in Stores(n) : p = q
    <3> SUFFICES ASSUME NEW p \in Stores(n), NEW q \in Stores(n) PROVE p = q
      OBVIOUS
    <3>1. p[1] = q[1] /\ p[2] \in DOMAIN stream[p[1]] /\ q[2] \in DOMAIN stream[p[1]]
          /\ stream[p[1]][p[2]] = stream[p[1]][q[2]] /\ p[1] \in Coin
      BY <2>2
    <3>2. p[2] = q[2]
      BY <2>1, <3>1 DEF StoredParts
    <3> QED
      BY <2>2, <3>1, <3>2
  <2>4. Cardinality(Stores(n)) <= 1
    <3>1. CASE Stores(n) = {}
      BY <3>1, FS_EmptySet
    <3>2. CASE Stores(n) # {}
      <4>1. PICK p : Stores(n) = {p}
        BY <2>3, <3>2
      <4> QED
        BY <4>1, FS_Singleton
    <3> QED
      BY <3>1, <3>2
  <2> QED
    BY <2>2, <2>4
<1> QED
  BY <1>1, AccountingCorrect, PTL

(* When the count releases the main goroutine nothing is left in the channel or in
   a worker's hands: what is not in a stream has failed (sentOds, wg). *)
THEOREM NoneLeftBehindCorrect == Spec => []NoneLeftBehind
<1>1. TypeOK /\ Accounting => NoneLeftBehind
  <2> SUFFICES ASSUME TypeOK, Accounting, pc = "done"
               PROVE  /\ ch = <<>> /\ \A w \in Workers : worker[w] = Idle
                      /\ \A n \in 1 .. Target : Stores(n) # {} \/ n \in failed
    BY DEF NoneLeftBehind
  <2>1. made = Target /\ wg = 0 /\ CountInv /\ StoredInv
    BY DEF Accounting, MainInv
  <2>2. /\ Len(ch) \in Nat /\ sentOds \in Nat /\ ch2 \in Nat /\ Target \in Nat
        /\ IsFiniteSet(Busy) /\ Cardinality(Busy) \in Nat
    BY Shapes, BusyFinite, IngressAssumption DEF TypeOK
  <2>3. sentOds >= Target /\ sentOds + ch2 + Cardinality(Busy) = Target - Len(ch)
    BY <2>1, <2>2 DEF CountInv, Drawn
  <2>4. Len(ch) = 0 /\ Cardinality(Busy) = 0
    BY <2>2, <2>3
  <2>5. ch = <<>>
    BY <2>4 DEF TypeOK
  <2>6. Busy = {}
    BY <2>2, <2>4, FS_EmptySet
  <2>7. \A w \in Workers : worker[w] = Idle
    BY <2>6 DEF Busy
  <2>8. Sending = {}
    BY <2>7 DEF Sending, Idle
  <2>9. Drawn = Target
    BY <2>1, <2>2, <2>4 DEF Drawn
  <2> QED
    BY <2>1, <2>5, <2>7, <2>8, <2>9 DEF StoredInv
<1> QED
  BY <1>1, AccountingCorrect, PTL
=============================================================================
