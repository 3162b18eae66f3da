# CCOMS in TLA+

Formal models of CCOMS (`src/`), an order matching system for cryptocurrencies, the TLC
configurations that check them, and proofs, checked by TLAPS, for any number of users, tickets
and faults: the engine, over all its crashes, is one exchange; the bank, over its, is one
ledger, under the conditions of section 4; ingress loses and repeats no order; and what the
banks have frozen always pays for what the engine trades.

The system's own promise is that *single-threaded services in front of append-only logs*
stay correct over crashes, restarts, broken streams and failed transactions without any
locking or distributed commit. That is what the modules are about: each service with its
crashes, and all of them together. Prices, balances and ids are numbers; JSON, decimals, gorm,
gRPC and etcd are left out wherever the code's decisions do not depend on them.

## 1. Inventory

| Component | Source | State | Operations |
|---|---|---|---|
| matching engine (OME), main thread | `pkg/ome/ome.go`, `structs.go` | asks, bids, latest ticket ids, log id, order id, `w.ch` | `WaitForFiledb`, `LoadAllOrders`, `TicketToMatchEngine`, `NewAsk`/`NewBid`, `TryMatch` |
| OME, writer thread | `pkg/ome/filedb.go` | `SavedLogID`, tail position; tables orders, trades, lastkv | `FiledbToMySQL`, `ParseAndWriteLogs` |
| OME, ticket streams (2) | `pkg/ome/grpc.go` | last ticket received | `PullTickets` |
| OME, balance pushers (2) | `pkg/ome/grpc.go` | first id of the session, tail position | `PushBalanceChanges`, `PushBalanceLogs` |
| bank, main thread | `pkg/bank/bank.go` | assets, ticket id, log id, `LatestMsgSeq`, `OmeReasonIDs`, `w.ch` | `New`, `WaitForFiledb`, `LoadAllAssets`, `HandleOrderReq`/`CreateOrder`, `HandleBalanceChange`/`BalanceChanged`, the ack goroutine |
| bank, writer thread | `pkg/bank/filedb.go` | `SavedLogID`; tables balance_snaps, tickets, balances, lastkv | `FiledbToMySQL`, `ParseAndWriteLogs` |
| bank, NATS and gRPC threads | `pkg/bank/nats.go`, `grpc.go` | the subscription; the session's first id | `SubNats`, `BalanceChanges`, `Tickets` |
| filedb | `pkg/filedb/filedb.go` | the log file | `WriteLine`, `ReadLastLine`, `Tailf`, `ToMySQL` |
| ingress | `cmd/main/main.go`, `pkg/ingress` | the channels of orders and of reports, `sentOds`, `wg` | `startIngress`, `dispatchBank`, `GetNats`, `SendOrderReq` |
| external | NATS JetStream, MySQL, etcd | the request stream and its acks; the tables | |

How they interact:

```
ingress --OrderReq--> NATS --> bank(coin) --Ticket--> OME(symbol)
                                   ^                     |
                                   +---- BalanceChange --+
bank and OME: main thread --line--> filedb --tail--> writer --transaction--> MySQL --at a start--> main thread
```

A bank per coin freezes the cost of an order and numbers it as a *ticket* in its log; the
engine tails the tickets of both its banks over gRPC, numbers them as orders, matches, and
logs one line per order and per match; its pushers tail that log and send each match as a
balance change back to both banks. Nothing is acknowledged between the services: each side
says how far it has got when a stream is opened. After a restart a service waits until its
writer has brought MySQL up to its own log, and loads its memory from MySQL.

What is hard about it:

* three copies of "how far I have got" per service: the log, MySQL (a prefix of it) and
  memory; each is read at another moment and by another thread (`WaitForFiledb` reads the
  writer's watermark, `PullTickets` the main thread's ticket id);
* a process that dies between two lines or inside one, a transaction that is rolled back or
  commits while its answer is lost, batches that hold several changes of one row;
* streams that break while messages wait in `w.ch`, and resume from an id that is behind;
* NATS redelivering what is still in a channel; acks that cover all earlier messages;
* a gap in ticket ids, which stops the engine for good;
* one trade, two banks: each settles it by a stream of its own, and neither looks at the other.

What makes each part correct: the engine's log is the run of one exchange; each ticket is in
it once and in order; MySQL is the log up to its watermark; the book is what the log leaves
open; the bank's log takes each request once, in order, and settles each trade once, in
order; balances are the sum of the log's lines; what is acknowledged is logged; ingress sends
each order once, to the bank that takes it; what is frozen covers whatever may still be
traded; whatever is asked for eventually arrives. `PROJECT.json` lists the hazards one by one, at their lines.

## 2. Modules

| Module | What it is |
|---|---|
| `OrderBook` | price and time order of the book, price, quantity and amount of a match |
| `Ome` | the engine: process, streams, recovery, matching, writer, faults; its properties |
| `Exchange` | what an engine promises, with no log and no process |
| `OmeInv` | the inductive invariant `EngineInv` of the engine, in parts |
| `Bank` | the bank of a coin: NATS, recovery, main thread, settlement stream, writer, faults; its properties |
| `Ledger` | what a bank promises, with no log and no process |
| `BankInv` | the inductive invariant `LogInv` of the bank, in layers |
| `Ccoms` | ingress, two banks and the engine as one system; its properties |
| `CcomsInv` | the inductive invariant `SystemInv` of the composition |
| `Ingress` | the goroutines of the ingress process; its properties |
| `IngressInv` | the inductive invariant `Accounting` (its run needs no MC module) |
| `MCOme`, `MCBank`, `MCCcoms` | the instances for TLC |
| `SetProofs` | lemmas on finite sets: the largest number, ranks, sums |
| `OmeProofs`, `ExchangeProofs` | proofs about `Ome`: types and ids; then channel, tables, book, and that it implements `Exchange` |
| `BankProofs`, `StreamProofs`, `LedgerProofs` | proofs about `Bank` and that it implements `Ledger`, each on top of the one before |
| `IngressProofs`, `CcomsProofs` | proofs about `Ingress` and `Ccoms` |

Definitions have the names of the functions they stand for, and `PROJECT.json` maps each to
its lines. Definitions with a suffix after `_` (`LastKv_NoTickets`) are deliberately wrong
variants of the one they precede; for each property one of them shows that it would notice.

### Ome

`filedb` is the sequence of complete lines and `torn` what a crash inside `WriteLine` left
after them; `orders`, `trades`, `lastkv` are the tables; everything else is memory that
`Halt` clears. `pc` is the main thread: `down`, `wait` (`WaitForFiledb`), `load`
(`LoadAllOrders`), `match` (inside `TryMatch`) and `recv` (blocked on `w.ch`). One action is
one atomic step of the code as other threads can see it:

* `NewTicket` is `TicketToMatchEngine` and `NewAsk`/`NewBid` up to the call of `TryMatch`:
  the ids, the log line and the book change between two points where nothing else that the
  main thread writes is read by others. The latest ticket id is set only by `Matched`, when
  `TryMatch` has returned, because `PullTickets` may read it in between.
* `Match` is one level of `TryMatch`'s recursion: book, log id and line.
* `WriterRound`, `WriterSkips`, `WriterSaves`, `WriterFails` are `FiledbToMySQL`: read the
  watermark, tail the file *from its first line* and hand over batches of any size up to
  `BatchMax`; a batch is one transaction.
* `Connect`, `Pull`, `Break` are a ticket stream, `Issue` the bank behind it.
* Faults (at most `MaxFaults`): `Crash` anywhere, `CrashInWrite`, `Break`,
  `WriterRoundFails`, `WriterFails`. `RejectTorn` is the failing start after a torn write.

One line of JSON without its `\n` still parses: `ReadLastLine` counts it, the tail never
delivers it, and the next start waits for ever (`torn = "whole"`).

The test for an order that is already in the book (`HasId`) looks at the identifier; the
b-tree would find it only on the path of its price. Identifiers are unique
(`OrderIDsInOrder`), so neither ever finds one.

### Bank

`snapLog`, `natsSeq`, `tickets`, `nextTicket`, `balances` are MySQL; `sent`, `delivered`,
`acked` are NATS; `trades` and `session` are the engine as the bank sees it. `session` is
the last trade pushed on the open `BalanceChanges` stream, `Off` when the engine has none,
`Stuck` when the bank's end broke: the goroutine that sends has returned, but
`PushBalanceLogs` goes on tailing, so the engine does not connect again until it restarts.

A balance change is queued when it is pushed; what is still in the buffers of gRPC is taken
as not pushed. That is sound for the order of changes, since a change is only ever pushed
behind its predecessors, of the same session or of an earlier one. `Trade` is the engine seen
from here: a fill of any amount, in any order, out of what its payer's tickets have frozen
and no earlier fill has used (`Spare`). A log line carries the new balances of the users it
touches, as the code's does, and `BalanceRows` writes those and nothing else.

`FaultKinds` says which faults a run has: `crash`, `torn` (in a write), `tx` (rolled back,
or committed with its answer lost), `late` (rolled back after the INSERT into the ticket
table, whose AUTO_INCREMENT values are used up), `swallow` (a write error lost in the data
race on `err`), `redeliver` (NATS), `drop` (the channels are full and the library drops the
message), `ome` (the engine restarts). `Rows` are the users with a
row in `balances`; the repository has no code that creates one, so they are a constant.

### Ingress

`pc` is the main goroutine: connecting to the one bank and the other, making orders, waiting
for `wg`, done. A worker takes an order, sends it, and reports it; `Count` is the goroutine
that adds up reports and releases `wg`. `SendOrderReqFails` is a `Publish` that returns an
error: nothing was stored, or only the answer was lost. The code logs it and goes on, so
`failed` orders count as sent. When main returns, the process ends with all its goroutines:
nothing but what is in the streams is left, which is what `NoneLeftBehind` is about.

### Ccoms

The composition works at the level of log lines. A request goes to the stream of a bank
(`SendOrderReq`), becomes a ticket there (`CreateOrder`), an order of the engine
(`TicketToMatchEngine`) and a party to trades (`TryMatch`), and each trade is settled at both
banks (`BalanceChanged`), all in whatever order. `CoinOf` is the bank's own idea of which
orders it takes, `dispatchBank` that of ingress, `LastID` that of the ticket streams: three
places in the code that have to agree and are never compared.

The services are taken as what the other modules show they are, so that both banks and the
engine fit one instance:

* the engine is `Exchange`, which `Ome` implements across crashes (`ImplementsExchange`);
* a bank takes a request or settles a trade, as `Ledger` does, which `Bank` implements across
  crashes (`ImplementsLedger`). Crashes are stuttering steps here. `Bank` and `Ledger` assume
  that a fill pays out of what its payer has frozen; `BanksAreLedgers` is the other half: the
  fills this engine makes of these banks' tickets meet that assumption, at both banks;
* what is known *not* to implement the promise is in the violation runs of `Bank`: a change
  that is applied twice after the engine restarts, a stream that is never opened again.
  `Ccoms` is the system without those faults.

A coin is counted in `Unit` parts, `Fee` of which are the fee on one coin, so that fees stay
whole numbers: 1 in 2 here for 1 in 100 in the code.

## 3. Runs

All runs have `CHECK_DEADLOCK FALSE`: the bounded number of tickets or requests comes to an
end, and a service with a torn log really stops.

| Run | Bounds | What it shows |
|---|---|---|
| `ome_safety` | 3 tickets on either side, 2 limits, channel 2, batches to 2, 2 faults | log ids are line numbers; tickets and order ids are in order; no gap reaches the engine; MySQL is a prefix of the log, and the book what the log leaves open; asks keep time priority; `ImplementsExchange`: across crashes the log stays the run of one `Exchange` |
| `ome_live` | 2 tickets on either side, 1 limit, 2 quantities, channel 1, 2 faults, `FairSpec` | every ticket becomes a row, every line is saved; `EngineInv` holds |
| `bank_ledger` | 2 users, 2 requests, 2 fills, channel 2, any 2 of `crash`, `torn`, `tx`, `redeliver` | `ImplementsLedger`; requests and ticket ids in order; what is acknowledged is logged; no trade is settled twice; `LogInv` holds |
| `bank_faults` | the same, all kinds of faults | no request is taken twice or overtakes another, balances in memory and MySQL are the sum of the log's lines, whatever else goes wrong |
| `bank_live` | 1 user, 2 requests, 2 fills, `crash`, `torn`, `tx`, `redeliver`, `ome`, `FairSpec` | every request gets its row; trades are settled in order, and all of them while the stream lives |
| `ccoms` | 2 users, 4 orders of 4 kinds (asks at 1 and 2, bids at 2 and 3, quantities 1 and 2), `FairSpec` | what is frozen covers what may still be traded or is not settled; every trade is one its two requests agreed to; both banks are ledgers; every order gets to the book, every trade to both banks; `SystemInv` holds |
| `ingress` | 2 workers, 4 orders, channels of 1, 2 attempts to connect, `FairSpec` | every order is in one stream, the right one, when ingress returns, or failed; it does return; `Accounting` holds |
| `bank_settles_twice`, `bank_settlement_stops`, `bank_new_user`, `bank_ticket_gap`, `ccoms_left_frozen` | the smallest that show it | see section 5 |

Why the bounds are enough for what they are to show. `MaxTickets` counts those of both
sides, and three of them, in any mix, give chains of partial fills over two makers, a maker on
each side, two orders of one price (two tickets with one limit), and a line behind one that is
not saved; quantities 2 and 1 leave remainders, and with
`Exp = 2` amounts are rounded. A batch of two holds an order with its own match. A channel
of two holds duplicates behind the ticket in progress. Two faults are a fault during the
recovery from a fault, or a lost answer and a crash before anyone notices. For the bank, two
users are payer and payee of each other, and the second request can be redelivered behind a
balance change, which has no sequence number. Four orders in `Ccoms` are two trades between
different pairs, a bid filled by two asks at two prices, a user who trades with themselves, and
tickets of unequal number on the two sides. In `Ingress` orders outnumber what both channels
and both workers can hold at once.

Fairness. `FairSpec` asks for weak fairness of the main thread, of the writer, and of
connecting and receiving. The code justifies it: each is a goroutine in an endless loop that
blocks on a channel or sleeps a second and retries (`StartWriter`, `StartPullTickets`,
`StartBanker`, `StartSubNats`, `StartServeGrpc`). A service that is down is started again
(`Start` is part of `Main`), as a supervisor does. Nothing makes ingress publish, a bank
issue, or a fault happen, and faults are finitely many. In `Ccoms` the same threads are fair,
per coin, and ingress is not; in `Ingress` each goroutine is, and each attempt to connect
comes to an end (the code's calls have timeouts).

The liveness properties except a log with a torn line: a service with such a log does not
come back by itself. `SettledUnlessStuck` also excepts a stream the engine has given up on;
`bank_settlement_stops` is the run without that exception.

## 4. Proofs

A theorem holds for every value of the constants that meets the assumptions of its module
(`ExpAssumption` and `OmeAssumption`, `BankAssumption`, `IngressAssumption`,
`CcomsAssumption`): any sets of users, requests and workers, any capacity, batch size, deposit
and fee, any number of tickets, orders, trades and faults. The assumptions only say that prices,
quantities and costs are positive numbers and that a channel or a batch holds at least one
element.

| Theorem | States |
|---|---|
| `OmeProofs!TypeCorrect` | the engine keeps its types; no quantity falls below 0 |
| `OmeProofs!LogIDsCorrect`, `TicketsCorrect`, `OrderIDsCorrect` | log ids are line numbers; tickets and order ids enter the log in order and once |
| `ExchangeProofs!EngineInvariant` | `EngineInv` of `OmeInv` is inductive |
| `ExchangeProofs!NoGapInChannelCorrect` | no ticket in `w.ch` skips one that is missing, whatever streams break |
| `ExchangeProofs!MySQLIsPrefixCorrect`, `BookIsLogCorrect` | MySQL's tables are the effect of a prefix of the log, the book that of all of it |
| `ExchangeProofs!AskTimePriorityCorrect` | among asks of one price the oldest trades first |
| `ExchangeProofs!ImplementsExchangeCorrect` | `Ome`, over all its faults, implements `Exchange` |
| `BankProofs!TypeCorrect` | the bank keeps its types, under all kinds of faults |
| `BankProofs!RequestsAtMostOnceCorrect` | no request becomes two tickets or overtakes another, under all kinds of faults |
| `StreamProofs!TicketIDsCorrect` | ticket ids have no gap; *without* `late` |
| `StreamProofs!RequestsOnceInOrderCorrect`, `AckedIsLoggedCorrect` | every request becomes a ticket, in order, and is acknowledged only then; *without* `drop` and `swallow` |
| `StreamProofs!SettledInOrderCorrect` | no trade is settled before an earlier one; *without* `swallow` |
| `StreamProofs!SettledOnceCorrect` | no trade is settled twice; *without* `ome` |
| `LedgerProofs!AssetsAreLogCorrect` | balances in memory are the sum of the log; *every user has a row* |
| `LedgerProofs!MySQLIsPrefixCorrect` | MySQL is the effect of a prefix of the log, under all kinds of faults |
| `LedgerProofs!ImplementsLedgerCorrect` | `Bank` implements `Ledger`; *every user has a row, without* `drop`, `swallow` *and* `ome` |
| `LedgerProofs!LogInvariant` | `LogInv` of `BankInv` is inductive |
| `IngressProofs!TypeCorrect`, `AccountingInvariant` | types; `Accounting` is inductive |
| `IngressProofs!OnceInItsBankCorrect`, `NoneLeftBehindCorrect` | no order is stored twice or in the wrong stream; none is left when ingress returns |
| `CcomsProofs!TypeCorrect`, `SystemInvariant` | types, nothing frozen falls below 0; `SystemInv` is inductive |
| `CcomsProofs!FrozenCoversCorrect` | what is frozen covers what may still be traded and what is not settled |
| `CcomsProofs!TradesHonourRequestsCorrect` | every trade is within the limits and quantities of its two requests |
| `CcomsProofs!BanksAreLedgersCorrect` | each bank, with this engine, is a `Ledger` |

The conditions in italics are hypotheses of the theorems (`ASSUME Without({...})`,
`ASSUME Owners \subseteq Rows`), and each is a limit of the code: with the fault the property
is false. `bank_new_user` and `bank_settles_twice` are counterexamples for a user without a
row and for an engine that restarts, `bank_ticket_gap` for `late`; a dropped message leaves a
request out by definition, and a failed write that is overlooked undoes its order, which the
next ack covers all the same, or its change, whose id the engine is then told. Every other kind of
fault may happen
any number of times.

### The engine

None of the engine's properties is inductive. `EngineInv` is `LogInv` and four parts on top of it.

`LogInv` is about the ids. That the next line gets the right ones
depends on what the process remembers, which depends on what MySQL had when it started, which
depends on what the writer has saved:

* `WriterInv`: the watermark in memory is never ahead of MySQL's and MySQL's never ahead of
  the log; in a round they agree, and the tail has passed nothing that is not saved. So a
  batch saves exactly the lines after the watermark.
* `TableInv`: the ids in `lastkv` are those of the last order, and of the last order of each
  side, among the lines MySQL has (`LastIs`).
* `MemoryInv`: once the process has waited, MySQL has the whole log, no line is torn, and the
  log id is the number of lines; once it has loaded, its order id and ticket ids are those
  of the whole log. While a ticket is being matched `latest` is one behind, and `Logged` is
  what counts.
* `ChannelInv`: what waits in `w.ch` are tickets of the banks.

`NumberNext` and `NumberAdvance` are the two facts about numberings underneath: a sequence
that is in order stays so when its last number plus one is appended, and the last number of a
longer prefix is that of the last line added to it.

The other parts:

* `PullInv`: all tickets from the latest one to any in `w.ch`, and to the last one the stream
  has sent, are in work or in `w.ch`. `NoGapInChannel` alone does not say where the stream
  stands, and so not what the next `Pull` may append; and since a broken stream resumes from the
  latest ticket processed, `w.ch` may hold copies, of which the ones behind are then stale.
* `LinesInv`: a match is between two orders logged before it and carries what the log leaves of
  both. The writer copies the remaining quantity of the *last* match of an order in a batch, and
  `MySQLIsPrefix` compares with the sum of *all* its matches: this is what makes them equal.
* `RowsInv`: one row per order of the lines MySQL has (`RowOf`). It keeps the columns that
  `LoadAllOrders` reads beside those of `MySQLIsPrefix`, so that the rows that are open become
  the book.
* `BookInv`: `BookIsLog`, and a book that is not crossed when the next ticket is taken.

`ImplementsExchangeCorrect` maps the log to the abstract book, by order id, and its match lines
to the tape. `NewTicket` is `Accept`, whose condition `Quiet` is the uncrossed book of `BookInv`; `Match` is
`Trade`, and its price is the maker's because the older order has the smaller id. A crash
inside a write leaves a torn line, behind which nothing is ever logged, so it is a stutter as
recovery, writer, streams and the other faults are. The lemmas up to `TradeFills`
are about any log `F`, and only then about `filedb`, which keeps crashes and tables
out of them.

In every step proof there is one lemma per action or group of actions, with one step per
conjunct the action can disturb.

### The bank

`LogInv` of `BankInv` is a tower, each layer inductive given those below it, so that a
property needs no more of the code than it rests on, and no fault is excluded earlier than it
has to be:

1. `KnownInv`: messages and lines are copies of requests and trades that exist.
2. `RecoveryInv`: the same chain as the engine's, from the log over the writer's watermark to
   what a process knows after `WaitForFiledb`.
3. `SeqInv`: `LatestMsgSeq`, and `natsSeq` in MySQL, are the last request among the lines they
   stand for, though the last line may be a balance change. `RequestsAtMostOnce` follows.
4. `StreamInv`: between the last request taken and the last one delivered, every request waits
   in `w.ch`, before any later one. A redelivery only adds copies behind.
5. `TicketIDsInv`: the table has as many rows as the saved lines have tickets, so the last row's
   id, the AUTO_INCREMENT counter and the ticket id in memory count the same tickets.
6. `SettlementInv`: every change the bank has been told of is applied or waits, behind those
   before it. `OnceInv` is its counterpart for an engine that does not restart.
7. `MoneyInv` and `RowsInv`: for a user with a row, lines, memory and MySQL carry the effect
   (`Replay`) of the lines up to there; the ticket table has those lines' tickets.
8. `FrozenInv`: what a user has frozen is what no fill has used yet and what is not settled.

`ImplementsLedgerCorrect` maps the log to the ledger's counters and the balances to its money.
A line is `Take` or `Settle`, `Trade` is `Fill`, and everything else, crash, recovery, writer
and streams, is a stutter; `Settle` is enabled because of `FrozenInv`.

Sums are the community modules' `SumFunction`, a fold over a set in the order of a `CHOOSE`.
`SetProofs` shows from its recursive definition that it exists and what it is for a set with an
element more, less or changed, by looking at a smallest counterexample with `WFMin`: a principle about
sets, where the induction theorems of the library take an operator.

### Ingress

`Accounting` says where each order is. The channel holds the last ones made, in order; the
workers hold different ones of those before; an order that a worker is done with is in its
stream or has failed; and reports counted, reports waiting and busy workers add up to the
orders drawn (`CountInv`). When `wg` is released the count is the target, so channel and hands
are empty.

### The system

`SystemInv` has four parts. `RoutedInv`: what ingress puts into a stream is what that
bank takes. `OrdersInv`: each order is one ticket, with its request's side and limit, and no
ticket is two orders. `TradesInv`: a trade is between the limits of a maker and a taker, and an order's
quantity is what is left and what its trades took. `MoneyInv` is the central one: for each coin
and user,

* `Funds - Spent >= OpenTickets + OpenOrders`: what the tickets froze less what the trades take is at
  least what the open tickets and orders may cost at their own limits. A trade pays at the
  maker's price, never above the payer's limit, which is why this is `>=` and why
  `ccoms_left_frozen` finds the rest left over;
* `freeze = Funds - Spent + Unsettled`: a bank that lags behind has that much more frozen.

`FrozenCovers` adds the two up. For `BanksAreLedgers` the first one is the enabling condition
of the ledger's `Fill`: a trade's amount is within the payer's spare money, at both banks, so
the assumption under which `Bank` is proved to implement `Ledger` is met by the engine that
`Ome` implements.

### Only model-checked

* Liveness (`TicketsReachMySQL`, `LogReachesMySQL`, `RequestsReachMySQL`, `SettledUnlessStuck`,
  `OrdersReachTheBook`, `TradesSettledInBothBanks`, `Returns`): it needs `ENABLED`.
* The five properties that a run finds violated: a counterexample settles them.

Every safety property of a passing run, and both refinements, are theorems. The runs remain the
check that the models do what one expects of them: that the proofs are not about a system which
cannot move.

## 5. What the runs found

Each is a run that is expected to fail, with the smallest bounds that show it:

* `bank_settles_twice`: the bank answers a reconnecting engine with the last change its main
  thread has *taken*; changes still in `w.ch` are pushed, and applied, again.
* `bank_settlement_stops`: a broken `BalanceChanges` stream ends the goroutine that sends, not
  the function around it, so settlement does not resume until the engine restarts.
* `bank_new_user`: balances are only ever UPDATEd; what a user without a row has is lost at
  the next restart.
* `bank_ticket_gap`: ticket ids are recovered from AUTO_INCREMENT values, which run ahead of
  them once a transaction was rolled back; the engine then refuses the next ticket.
* `ccoms_left_frozen`: an order freezes its value at its own limit, a match unfreezes what was
  traded at the maker's price, and nothing unfreezes the difference when the order is filled.

Observations without a run of their own:

* `OmeReasonIDs` is read from MySQL at a start, but nothing writes it: a restarted bank would
  ask a reconnecting engine for all changes from the first one again.
* The ack goroutine and the main loop share `err`: a failed log write can be overlooked
  (`swallow`), and the request is acknowledged with the next one. So is one that the NATS
  library has dropped (`drop`). `bank_faults` shows that neither is ever taken twice.
* Ingress counts an order whose sending failed as sent.
* Among bids of one price the youngest trades first (`Bids.Max()` over an order that ascends in
  the identifier).
* `CreateOrder` does not ask whether the user has what it freezes. No code collects a fee: what
  is frozen for it stays frozen.
* The column `orders.amount` ("Current total transaction amount") holds the amount of the last
  match; a reloaded order's fee rate is multiplied by 10000; `xnats.OrderReq` documents the
  side as "0 sell ask, 1 buy bid" where the code uses 1 and 2.
* `handleSignals` sends on an unbuffered channel that only itself receives from: the first
  SIGUSR1 blocks it.
* The bank's ticket feed is not filtered by symbol, which one symbol does not show.

## 6. Not modelled

Several symbols at one bank (the code's list is a constant of one); `CancelOrder`,
`OrderMatched`, `DirectChange` (a stub, and no callers); loss of unsynced file data when the
machine goes down (what is lost is up to the operating system, and the code has no answer to
it); a write that fails after it has stored part of a line, in a process that lives on (a failed
write stores nothing here); lines over 1024 bytes; the creation of tables and of the NATS
stream; Redis, configuration, etcd, logging, build info, generated code (I/O and wiring); the benchmark and monitor commands
(they print); `pkg/ome/tobank.go` and `pkg/ome/nats.go` (commented out).

`Ccoms` has no faults of its own: the engine, the banks and their logs with every fault at once
would be out of TLC's reach, and the refinements stand for them as section 2 says.

## 7. Plan

Done: all modules of section 2 with their runs, and the proofs of section 4.

What could be added:

1. In `Ccoms`, the services with their faults instead of their promises, on a still smaller
   instance, or as a proof that composes `ImplementsExchangeCorrect`, `ImplementsLedgerCorrect`
   and `BanksAreLedgersCorrect` formally; section 2 argues it in words.
2. Several symbols at one bank, once `Tickets` filters by symbol in the code.
