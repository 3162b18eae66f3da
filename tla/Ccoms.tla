------------------------------- MODULE Ccoms -------------------------------
(***************************************************************************)
(* The whole system for one symbol: ingress sends each order to the bank   *)
(* of the coin it costs (cmd/main, pkg/ingress), the two banks freeze that *)
(* cost and number the order as a ticket (pkg/bank), the engine turns the  *)
(* tickets of both into orders and matches them (pkg/ome), and each match  *)
(* is settled at both banks.                                               *)
(*                                                                         *)
(* A step is a line of a log.  The engine is its specification, Exchange,  *)
(* which Ome implements; the banks do what Bank does between a crash and   *)
(* the next, and the promise of Ledger is what is checked of them here,    *)
(* where the trades are those of the engine and not just any.              *)
(***************************************************************************)
EXTENDS Integers, Sequences, FiniteSetsExt

CONSTANTS
    Owners,      \* the users
    Deposit,     \* what each has free of each coin at first
    Requests,    \* the order requests: who, which side, limit price, quantity
    Unit, Fee,   \* a coin is counted in Unit parts, Fee of which are the fee on it
    MaxOrders    \* bound: orders sent by ingress

ASSUME CcomsAssumption ==
    /\ Deposit \in Nat /\ Fee \in Nat /\ Unit \in Nat \ {0} /\ MaxOrders \in Nat
    /\ Requests \subseteq [owner : Owners, side : {"ask", "bid"},
                           price : Nat \ {0}, qty : Nat \ {0}]

VARIABLES
    sent,      \* sent[c]: the requests in the NATS stream of the bank of coin c
    taken,     \* taken[c]: how many of them are tickets in the log of that bank
    money,     \* money[c][o]: what user o has free and frozen there
    settled,   \* settled[c]: how many trades that bank has settled
    latest,    \* LatestAskTicketID and LatestBidTicketID of the engine
    ticket,    \* ticket[i]: the ticket of the i-th order
    book,      \* the orders of the engine
    tape       \* its trades

bankVars   == <<taken, money, settled>>
engineVars == <<latest, ticket, book, tape>>
vars == <<sent, bankVars, engineVars>>

Side == {"ask", "bid"}
Coin == {"base", "quote"}

(* The coin an order of a side is paid in, as the bank sees it. *)
CoinOf(side) == IF side = "bid" THEN "quote" ELSE "base"

Engine == INSTANCE Exchange WITH
    Requests <- {[price |-> r.price, qty |-> r.qty] : r \in Requests}

-----------------------------------------------------------------------------
Init ==
    /\ sent = [c \in Coin |-> <<>>]
    /\ taken = [c \in Coin |-> 0]
    /\ money = [c \in Coin |-> [o \in Owners |-> [free |-> Deposit, freeze |-> 0]]]
    /\ settled = [c \in Coin |-> 0]
    /\ latest = [s \in Side |-> 0]
    /\ ticket = <<>>
    /\ Engine!Init

(* Ingress picks the stream.  Mutant: the coins the wrong way round. *)
dispatchBank_Swapped(side) == IF side = "bid" THEN "base" ELSE "quote"

dispatchBank(side) == IF side = "bid" THEN "quote" ELSE "base"

SendOrderReq(r) ==
    /\ Len(sent["base"]) + Len(sent["quote"]) < MaxOrders
    /\ sent' = [sent EXCEPT ![dispatchBank(r.side)] = Append(@, r)]
    /\ UNCHANGED <<bankVars, engineVars>>

(* What the order costs at most, without the fee: a bid its amount, an ask its
   quantity.  Mutant: the quantity of either. *)
Value_Quantity(r) == r.qty

Value(r) == IF r.side = "bid" THEN r.price * r.qty ELSE r.qty

Total(r) == Value(r) * (Unit + Fee)

(* A request for another coin ends the bank, now and whenever it comes again:
   the stream stays where it is. *)
CreateOrder(c) ==
    /\ taken[c] < Len(sent[c])
    /\ LET r == sent[c][taken[c] + 1]
       IN  /\ CoinOf(r.side) = c
           /\ money' = [money EXCEPT ![c][r.owner].free = @ - Total(r),
                                     ![c][r.owner].freeze = @ + Total(r)]
    /\ taken' = [taken EXCEPT ![c] = @ + 1]
    /\ UNCHANGED <<sent, settled, engineVars>>

(* PullTickets starts after the latest ticket of the side its coin pays for.
   Mutant: that of the other side. *)
LastID_Other(c) == IF c = "quote" THEN latest["ask"] ELSE latest["bid"]

LastID(c) == IF c = "quote" THEN latest["bid"] ELSE latest["ask"]

(* What the engine takes of a ticket.  Mutant: the value the bank has frozen in
   the place of the quantity. *)
Limits_Value(t) == [price |-> t.price, qty |-> Value(t)]

Limits(t) == [price |-> t.price, qty |-> t.qty]

TicketToMatchEngine(c) ==
    LET n == LastID(c) + 1
    IN  /\ n <= taken[c]
        /\ LET t == sent[c][n]
           IN  /\ n = latest[t.side] + 1
               /\ Engine!Accept(t.side, Limits(t))
               /\ latest' = [latest EXCEPT ![t.side] = n]
               /\ ticket' = Append(ticket, n)
    /\ UNCHANGED <<sent, bankVars>>

TryMatch ==
    /\ \E a, b \in DOMAIN book : Engine!Trade(a, b)
    /\ UNCHANGED <<sent, bankVars, latest, ticket>>

(* The request the i-th order was made from. *)
RequestOf(i) == sent[CoinOf(book[i].side)][ticket[i]]

(* The balance change of a trade at the bank of a coin: the quote coin goes from
   the bidder to the asker, the base coin the other way.  Mutant: the quote coin
   goes the same way. *)
Change_OneWay(c, t) ==
    [payer |-> RequestOf(t.ask).owner, payee |-> RequestOf(t.bid).owner,
     amount |-> Unit * (IF c = "quote" THEN t.price * t.qty ELSE t.qty)]

Change(c, t) ==
    IF c = "quote"
    THEN [payer |-> RequestOf(t.bid).owner, payee |-> RequestOf(t.ask).owner,
          amount |-> t.price * t.qty * Unit]
    ELSE [payer |-> RequestOf(t.ask).owner, payee |-> RequestOf(t.bid).owner,
          amount |-> t.qty * Unit]

(* Which trades are still to be pushed.  Mutant: those of the quote coin only. *)
HasChange_QuoteOnly(c) == c = "quote" /\ settled[c] < Len(tape)

HasChange(c) == settled[c] < Len(tape)

BalanceChanged(c) ==
    /\ HasChange(c)
    /\ LET d == Change(c, tape[settled[c] + 1])
           paid == [money[c] EXCEPT ![d.payer].freeze = @ - d.amount]
       IN  money' = [money EXCEPT ![c] = [paid EXCEPT ![d.payee].free = @ + d.amount]]
    /\ settled' = [settled EXCEPT ![c] = @ + 1]
    /\ UNCHANGED <<sent, taken, engineVars>>

Next ==
    \/ \E r \in Requests : SendOrderReq(r)
    \/ \E c \in Coin : CreateOrder(c)
    \/ \E c \in Coin : TicketToMatchEngine(c)
    \/ TryMatch
    \/ \E c \in Coin : BalanceChanged(c)

Spec == Init /\ [][Next]_vars

(* The main threads and the streams go on; nothing makes ingress send. *)
Fairness ==
    /\ WF_vars(TryMatch)
    /\ \A c \in Coin :
        /\ WF_vars(CreateOrder(c))
        /\ WF_vars(TicketToMatchEngine(c))
        /\ WF_vars(BalanceChanged(c))

FairSpec == Spec /\ Fairness
-----------------------------------------------------------------------------
(* Properties. *)

(* Every variable keeps its shape, and nobody is ahead of the one it reads from. *)
TypeOK ==
    /\ sent \in [Coin -> Seq(Requests)]
    /\ money \in [Coin -> [Owners -> [free : Int, freeze : Nat]]]
    /\ taken \in [Coin -> Nat] /\ \A c \in Coin : taken[c] <= Len(sent[c])
    /\ settled \in [Coin -> Nat] /\ \A c \in Coin : settled[c] <= Len(tape)
    /\ latest \in [Side -> Nat] /\ \A s \in Side : latest[s] <= taken[CoinOf(s)]
    /\ book \in Seq([side : Side, price : Nat, left : Nat])
    /\ ticket \in Seq(Nat) /\ Len(ticket) = Len(book)
    /\ tape \in Seq([ask : DOMAIN book, bid : DOMAIN book, price : Nat, qty : Nat \ {0}])

(* What a ticket can still cost: all of it until the engine has it, then what is
   left of the order, at its limit. *)
OrdersOf(c) == {i \in DOMAIN book : CoinOf(book[i].side) = c}

OpenCost(i) == book[i].left * (IF book[i].side = "bid" THEN book[i].price ELSE 1) * Unit

Owed(c, o) ==
    SumFunction([n \in {m \in 1 .. taken[c] : sent[c][m].owner = o /\ m > LastID(c)} |->
                     Value(sent[c][n]) * Unit])
        + SumFunction([i \in {j \in OrdersOf(c) : RequestOf(j).owner = o} |-> OpenCost(i)])
        + SumFunction([k \in {j \in settled[c] + 1 .. Len(tape) : Change(c, tape[j]).payer = o} |->
                           Change(c, tape[k]).amount])

(* Whatever the engine does next, the bank of each coin has it frozen: tickets
   under way, open orders and trades that are not settled are covered, though
   neither bank sees the other and neither checks a change before it applies it
   (CreateOrder, TryMatch, PushBalanceLogs, BalanceChanged). *)
FrozenCovers == \A c \in Coin, o \in Owners : money[c][o].freeze >= Owed(c, o)

TradesOf(i) == {k \in DOMAIN tape : i \in {tape[k].ask, tape[k].bid}}

(* Every trade is one its two requests agreed to, found again over the engine's
   order, the bank's ticket and the stream of the right coin: neither price is
   worse than the limit, no request is filled beyond its quantity, and none is
   in the book twice. *)
TradesHonourRequests ==
    /\ \A k \in DOMAIN tape :
        /\ RequestOf(tape[k].ask).side = "ask" /\ RequestOf(tape[k].bid).side = "bid"
        /\ RequestOf(tape[k].ask).price <= tape[k].price
        /\ tape[k].price <= RequestOf(tape[k].bid).price
    /\ \A i \in DOMAIN book :
        /\ SumFunction([k \in TradesOf(i) |-> tape[k].qty]) + book[i].left = RequestOf(i).qty
        /\ \A j \in DOMAIN book :
            book[i].side = book[j].side /\ ticket[i] = ticket[j] => i = j

(* A bank on its own promises a ledger if the trades it is sent pay out of what
   their payer has frozen (Ledger!Fill).  The engine's do, at both banks. *)
Charges(c) == [n \in DOMAIN sent[c] |-> [owner |-> sent[c][n].owner, total |-> Total(sent[c][n])]]
Changes(c) == [k \in DOMAIN tape |-> Change(c, tape[k])]
ChargesOf == {[owner |-> r.owner, total |-> Total(r)] : r \in Requests}

Base == INSTANCE Ledger WITH
    Rows <- Owners, Requests <- ChargesOf, sent <- Charges("base"), trades <- Changes("base"),
    taken <- taken["base"], settled <- settled["base"], money <- money["base"]

Quote == INSTANCE Ledger WITH
    Rows <- Owners, Requests <- ChargesOf, sent <- Charges("quote"), trades <- Changes("quote"),
    taken <- taken["quote"], settled <- settled["quote"], money <- money["quote"]

BanksAreLedgers == Base!Spec /\ Quote!Spec

(* When all orders of a user are filled and settled, no more is left frozen than
   the fees, which nothing collects (the comment of OrderMatched: a match shall
   "decrease corresponding frozen money"). *)
Filled(o) ==
    /\ \A c \in Coin : taken[c] = Len(sent[c]) /\ LastID(c) = taken[c] /\ settled[c] = Len(tape)
    /\ \A i \in DOMAIN book : RequestOf(i).owner = o => book[i].left = 0

Fees(c, o) ==
    SumFunction([n \in {m \in 1 .. taken[c] : sent[c][m].owner = o} |->
                     Value(sent[c][n]) * Fee])

OnlyFeesLeftFrozen ==
    \A o \in Owners : Filled(o) => \A c \in Coin : money[c][o].freeze <= Fees(c, o)

(* Every order that is sent gets into the book of the engine: the bank that is
   given it is the one that takes it, and the engine asks each bank for the
   tickets it has (dispatchBank, CreateOrder, PullTickets). *)
OrdersReachTheBook ==
    \A n \in 1 .. MaxOrders :
        (Len(sent["base"]) + Len(sent["quote"]) >= n) ~> (Len(book) >= n)

(* Every trade is settled at both banks (StartBanker, PushBalanceLogs). *)
TradesSettledInBothBanks ==
    \A k \in 1 .. MaxOrders :
        (Len(tape) >= k) ~> \A c \in Coin : settled[c] >= k
=============================================================================
