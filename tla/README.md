# A verification project for aqua402

TLA+ models of aqua402, a credit marketplace: borrowers request quotes or run
auctions on an EVM chain, lenders answer, a credit line is opened for the
accepted terms, and lenders' liquidity is kept and reserved in a pool. A Go
backend serves an HTTP API, watches the chain, passes events through RabbitMQ,
keeps a table in ClickHouse, pushes messages to WebSocket clients and hands out
test tokens; a migrator maintains the ClickHouse schema. TLC checks the models
on small instances, TLAPS proves the main results for all values of the
constants. `PROJECT.json` lists components, runs, the source lines behind every
definition, hazards, findings and theorems.

## 1. The system

### Components, their state and operations

| Component | Source | State | Operations |
|---|---|---|---|
| RFQ contract | `contracts_src/rfq/RFQ.sol` | `rfqs`, `quotes`, `acceptedQuote`, `rfqCounter` | createRFQ, submitQuote, acceptQuote, executeRFQ, cancelRFQ |
| Auction contract | `contracts_src/auction/Auction.sol` | `auctions`, `bids`, `winningBid`, `auctionCounter` | createAuction, placeBid, finalizeAuction, settleAuction, cancelAuction |
| x402 credit contract | `interfaces/MockX402Credit.sol` | `creditLines`, `creditLineCounter` | openCreditLine, draw, repay |
| Aqua integration | `aqua/AquaIntegration.sol` | `liquidityProvided`, `liquidityReserved` | connect, withdraw, reserve, release |
| Token | `interfaces/MockERC20.sol` | `balanceOf`, `allowance`, `totalSupply` | mint, transfer, approve, transferFrom |
| AgentFinance | `finance/AgentFinance.sol` | `rfqToCreditLine`, `auctionToCreditLine` | executeRFQWithAqua, settleAuctionWithAqua |
| Event monitor | `services/events/monitor.go` | `lastBlock`, position in a pass | processNewBlocks every 5 s |
| Queues | `queues/rabbitmq.go` | one connection and channel per process; the broker's queues | Publish, Consume |
| Worker | `cmd/worker/main.go` | monitor and four consumers | start, consume, save |
| HTTP API | `cmd/api`, `handlers/*.go`, `services/*` | a goroutine per request, one channel to RabbitMQ | the routes of `setup.go` |
| RFQ service and table | `services/rfq/service.go`, `repositories/clickhouse.go` | rows of `rfqs` | CreateRFQ, SubmitQuote, GetRFQ, ListRFQs |
| Auction service | `services/auction/service.go` | none of its own | CreateAuction, PlaceBid, FinalizeAuction |
| Aqua, x402 services | `services/aqua`, `services/x402` | none | publish to `aqua.liquidity`; placeholders |
| WebSocket hub | `websocket/hub.go`, `handlers/websocket.go` | clients, three channels, one send buffer per client | Run, Register, Broadcast, ReadPump, WritePump |
| Faucet | `services/faucet/service.go` | nonce of one account, kept by the node | RequestTokens |
| Migrator | `clickhouse/clickhouse-migrator` | schema, version table over shards | up, up-to, up-by-one, down, down-to, reset, rerun, reshard, status |
| Frontend | `frontend/src` | stores, WebSocket hook | forms, live view |

### How they interact

* RFQ, Auction and AgentFinance call the credit contract; AgentFinance also
  reads RFQ and Auction and calls Aqua. A transaction is atomic: it happens
  whole or not at all. Interleaving is between transactions.
* Contract events reach the monitor by polling, then a queue, then the worker,
  then the table. The API process writes the same table and publishes to the
  same queues. These are separate processes that fail separately.
* Inside the API process every request has a goroutine; they share the channel,
  the hub and the faucet's account. The hub's goroutine owns its map of
  clients, and two goroutines per client talk to it over channels.
* The migrator runs beside everything else, one command at a time, against
  tables whose rows arrive and disappear later than the statement that asked.
* The frontend sends transactions itself, reads the table through the API, and
  would receive broadcasts of the hub (nothing in the backend calls
  `Broadcast`).

### What is hard, and what makes each component correct

* **Several transactions, several actors.** An acceptance is stored three
  times (flag, index, status), an auction's outcome twice, and other contracts
  read one copy or the other in later transactions. They must agree, and a
  request must get one line on the agreed terms.
* **Two ways to the same line.** RFQ and AgentFinance both open lines for an
  RFQ, with different bookkeeping.
* **Balances spread over contracts.** What is reserved must be staked, what is
  staked must be in the pool.
* **Boundaries.** The end of the bidding window; ties in the selection loop;
  checked arithmetic near 2^256; ids of RFQs that do not exist yet.
* **Failures between steps of the backend.** A query, publication or insert
  fails, a connection is lost, the broker or the worker restarts. The monitor
  must neither skip without cause nor repeat, the table must follow the chain,
  and the API's answers must be true.
* **Goroutines that close, send and wait on shared channels.** A client is
  dropped by a broadcast while its reader unregisters it: the channel must be
  closed once, and never before a send. One slow client must not hold up the
  rest, and must not get a feed with a hole in it.
* **A counter outside the process.** Concurrent faucet requests may read the
  same pending nonce; no transfer may wait for a nonce that
  nobody will send.
* **Pages of a table that grows.** A reader that pages by offset must not lose
  a row to an insert.
* **Two statements that should be one.** A migration is run and recorded
  separately, into a table with delayed inserts and deletions. Schema and
  version table must agree but where a command was cut, or rewrote a row that
  was on its way.

`hazards` in `PROJECT.json` lists each at its line with the properties that
cover it, or the reason none does.

## 2. The modules

```
EVM ── X402Credit ──┬─ RFQ ──────────┬─ RFQ_Request ──── FinancingRequest
                    └─ Auction ──────┼─ Auction_Request ─ FinancingRequest
 BidOrder ── BestBidScan   (Auction uses BidOrder, the mappings RequestOffers)
EVM ── AquaIntegration ──────────────┴─ AgentFinance
Broker ── EventMonitor ── EventPipeline
Faucet ── ApiServer          Hub          Migrator
```

| Module | Models |
|---|---|
| `EVM` | addresses, checked `uint256` arithmetic (`Uint == 0 .. MaxUint`) |
| `X402Credit` | block time and the credit contract: lines opened, drawn, repaid by anyone |
| `RFQ`, `Auction` | the two contracts; each `...Spec` includes time and direct use of the credit contract |
| `BidOrder` | the order on bids and what the best bid is (lowest rate, then highest limit, then earliest) |
| `BestBidScan` | the loop of finalizeAuction, one iteration per step |
| `AquaIntegration` | the pool and the token |
| `AgentFinance` | all contracts composed, with the wrapper's two operations |
| `FinancingRequest` | the abstract promise: offers, one match, at most one funding on its terms |
| `RFQ_Request`, `Auction_Request` | the refinement mappings, over the offers of `RequestOffers` |
| `Broker` | queues, deliveries, channels; publish without confirmation, automatic acknowledgement |
| `EventMonitor` | processNewBlocks step by step, with failures, crashes, restarts |
| `EventPipeline` | monitor, worker's consumers, API service and table together |
| `Faucet` | RequestTokens by concurrent requests, over the node's pool and chain |
| `ApiServer` | the HTTP API: concurrent requests of every route, the table, the channel, and the faucet |
| `Hub` | the hub's goroutine, and for every client its handler and its writer |
| `Migrator` | the commands of clickhouse-migrator over schema and version table |
| `MC_*` | definitions for TLC: symmetry, the messages within the bounds |
| `*_proofs` | theorems |

**Contracts.** A variable is a storage variable, under its name. An action is
an external function: its guard is the conjunction of the `require`s and of the
checked arithmetic that would revert, so a transaction that reverts is not a
step. Mappings are total functions whose unwritten entries read as zero, as in
Solidity: `ZeroRFQ` is Open and borrowed by nobody. Emitted events that name a
credit line are kept as history (`rfqExecuted`, `auctionSettled`), since they
are the only record of which line belongs to which request. Reentrancy is not
modelled: the called contracts of this repository call nothing back.
`FinalizeAuction` uses the reference definition of the best bid; `BestBidScan`
shows that the loop computes it.

**Pipeline.** `chain` is the sequence of event types by block, one event per
block, as a development node mines. A pass of processNewBlocks is five kinds of
steps with mining, crashes and failures between any two. `pending` is what is
left of a pass; `lastBlock` moves only at its end. A failed `BlockNumber` is a
stutter. Publish is one step that reaches the broker, or fails, or loses the
message unnoticed (the last two look the same afterwards). A closed channel
stays closed until its process restarts, as no code reopens one. Messages in the
inbox of a consumer are acknowledged, so a crash loses them. Handling one
message is one step, whose only effect is its insert. `published`, `missed`
(blocks whose own event the monitor left out), `lost` (blocks whose message was
lost behind it) and `faults` are history. Restarting the worker is possible, not
certain: nothing in the repository's compose file restarts it.

**API.** `at[r]` is what the goroutine of request `r` does next, one of
FaucetSteps or a save, a publication or a page, so any other request may act in
between. A row or message is named by the request that made it. The channel is
`nil` when `NewQueue` failed at the start: `Publish` then panics and the
server's Recover middleware answers 500. An insert that fails may have been
executed. Listings are ordered by `createdAt`, seconds of the clock, and rows of
the same second come in any order, differently each time. Single reads change
nothing and are left out.

**Faucet.** The node (external) is a pool of accepted transfers and a chain of
mined ones. The pending nonce is the first that is neither mined nor in the
pool; a transfer replaces one with its nonce if it pays more. A call may fail
after the node accepted it. An underpriced or outdated transfer is refused,
which the request sees as a failed call.

**Hub.** The channels `register`, `unregister` and `broadcast` are unbuffered,
so sending and receiving are one step, possible only while Run is in its select
(`visiting = {}`). A broadcast is taken and then visits the clients one by one,
in any order. `reader[c]` follows the handler of a connection and its ReadPump,
`writer[c]` its WritePump, `closed[c]` counts the closings of its channel: a
second one, or a send after one, is a panic in Go. Messages are numbered, and
`joined` remembers the number at registration.

**Migrator.** `tables` is the schema as the set of migrations whose effect is in
it, `rows` what the version table shows, `sending` and `deleting` the rows that a
Distributed insert has not delivered and a mutation has not removed. `step` is the
position of the running command; every call and every statement is a step before
which the command may be cut. The goose provider that picks the migrations is
external: its planning is modelled from the calls the commands make and the store
they pass it (`ListMigrations` gives it `rows` as they are then). Four variables
are history, each a set of versions, never a switch for the whole run: `torn`, a
cut command ran it or dropped its row without recording it; `crossed`, its row
was on its way, in or out, while a command rewrote it; `stale` and `unseen`, its
row was still or not yet there when the running command looked. A version leaves
`torn` and `crossed` (together `Unsure`) when a command runs and records it
again; `stale` and `unseen` are replaced at every look.
Commands follow one another; the program configures no session locker, so
nothing is promised of two at once, and two are not modelled.

**Mutants.** Most modules hold operators marked MUTANT beside the action they
change: each is a plausible mistake in that function. They are part of no
specification; putting one in the place of the action must break the property
`PROJECT.json` pairs it with.

## 3. The runs

| Run | Shows | Bounds |
|---|---|---|
| `bid_scan` | the loop ends with the best bid, the earliest of equal ones | books of 1–4 bids, two rates, two limits: every tie and order |
| `rfq` | flag, index and status agree; executed once as quoted; quotes, requests and terms of lines never rewritten; drawn ≤ limit; RFQ implements `FinancingRequest` | 1 RFQ, 2 quotes, 2 users, 2 lines opened by it or directly, amounts 1–2, times 1–2; one duration overflows at time 2 |
| `auction` | best bid wins; bids in the window, no decision before its end; settled once as won; outcome fixed; Auction implements `FinancingRequest` | 2 auctions, 2 bids each, times 1–4, duration 2 |
| `aqua` | reserved ≤ staked; pool solvent; supply conserved; a lender's tokens move with the stake and within the allowance, or by the lender's own transfer | 3 lenders, amounts 0–3 |
| `finance` | links name right lines; lines not shared; the wrapper opens a line and reserves its limit for its lender in one transaction, or neither, among direct reservations and releases | 1 RFQ, 1 auction, 2 offers each, 2 lines, 2 callers of reserve and release |
| `pipeline` | in order, no duplicates; an event is left out only by its own failure or a restart; every row has its cause and its place, and only the known duplicate; a running worker reaches every block; every created RFQ gets its row unless its own event or message was lost | 3 blocks of 2 event types, 2 failures, 1 posted RFQ |
| `hub` | channels closed once, on leaving; feeds without a gap; waiters served; only a write that hangs keeps a connection | 2 clients, buffers of 2, 4 broadcasts |
| `api` | no answer claims a row or message that is not there; paging loses no row that is alone in its second; no nonce gap; successes accounted for; the pool drains | 3 requests of any route, 2 seconds, pages of 1 row, 2 gas prices |
| `migrator` | schema and version table agree on all versions but `Unsure` ones; migrations applied and undone in order; an `up` or `rerun` that ends well applied what was missing, `Unsure` and `stale` ones excepted | 3 migrations, any directory of them, 4 commands, 2 of them cut |

Type invariants are proved for every module; the `hub`, `api`, `pipeline`,
`finance` and `migrator` runs check theirs as well.

Why the bounds are enough. For the contracts: two auctions show interference
between ids (for RFQs the proofs cover any number), two offers show a wrong
choice and a rewrite, two users are borrower and lender and can swap roles, two
lines for one request show a second opening. Three blocks put one block before,
in and after a pass, and leave an event that must still arrive when one is lost;
two failures allow one to hide the other. In the `finance` run every pair of
openers meets in two lines. Two clients are the one that stalls and the one that
must not suffer; with buffers of two, a client that writes nothing is dropped by
the third broadcast, or by the fourth when its writer holds one. Three faucet
requests are two that share a nonce and one that reads after them; three
listings and inserts put an insert between two pages of a table that had a row.
Three migrations are one below, one at and one above any target; four commands
allow a cut one, one that meets what it left, and two more. Every bound is a
constant of the module, in the guard of the action it stops. Deadlock checking
is off only where the bounds or the life cycle end the behaviour. `UserSymmetry`
is used only in runs without liveness properties; the refinement is a safety
property there.

### Disagreements between the code and what is said of it

Three are runs that end in a counterexample.

* `rfq_self_quote`: a quote sent to the next id before it is created stays in
  the book when its lender creates that RFQ, against "Cannot quote own RFQ"
  (RFQ.sol:99).
* `finance_one_line`: executeRFQWithAqua leaves the RFQ Closed, so it can be
  executed again, there or in RFQ, against "same logic as RFQ.executeRFQ"
  (AgentFinance.sol:67).
* `pipeline_borrower`: the message of a posted RFQ is read in the monitor's
  format, so it gives a second row with a blank borrower (worker main.go:154).

Others can be read off the models, and the properties allow for them:

* Rows are saved without an id, so all have id 0, and GetRFQ ("retrieves an RFQ
  by ID", clickhouse.go:55) finds any of them for 0 and none otherwise.
* The monitor passes over a failed query or publication for good
  (monitor.go:141), while the form says "Event will be processed by backend"
  (CreateRFQForm.tsx:138). `NothingSkipped` excuses these, event by event
  (`missed`), and the blocks a restarted worker starts after; nothing else.
* Without RabbitMQ at the start the queue stays nil, and "handlers should handle
  this gracefully" (cmd/api/setup.go:57); every publication panics on it
  (rabbitmq.go:50) and is answered 500, for POST /rfq after the row was saved.
  `AnswersTrue` therefore says nothing of rows behind an error.
* POST /auction answers 201 and saves no row; the table of auctions stays empty.
  `AnswersTrue` asks of it, as of every route but POST /rfq, that its message is
  published.
* FinalizeAuction always names auction 0; PlaceBid and SubmitQuote take the id
  from the body, not the path. `aqua.liquidity` has no consumer.
* Two rows of the same second may change places between two pages, which loses
  one of them to a reader: the exception in `PagesComplete`.
* WebSocket writes have no deadline, so one that hangs keeps its connection and
  goroutines: the exception in `EndsUnlessWriteHangs`.
* `reset` goes down to the first migration's version and leaves that migration
  applied, against "reset all migrations" (cmd/reset.go).
* `rerun` "resets and runs migrations" (cmd/rerun.go:18), but goes up while the
  deletions of its own reset, which are mutations, may still be pending: it takes
  those migrations for applied and does not run them (`stale` in `UpApplies`).
* --s is described as "use sequential numbering for new migrations"
  (cmd/root.go:54), and out-of-order migrations are left to --allow-missing
  (cmd/root.go:48, README.md:54 of the migrator). The code passes --s on as
  permission to apply out of order (goose.go:23), and --allow-missing to nothing;
  `StepsInOrder` follows the code.
* `reshard` empties the version table before it writes it back: an error or the
  panic on a row without a file in between loses all rows (`torn`). A row that
  arrives between the reading and the deletion is lost as well, and one that
  was to be deleted is written back for good (`crossed`): both are exceptions in
  `RecordAccuracy`, version by version.

### Fairness

Contracts have none: nobody must send a transaction. In the pipeline there are
three assumptions, each by name. `CallsReturn`: the calls of a pass that has
begun return, with or without an error, so the pass goes on. `NodeAnswers`: of
the passes the ticker starts while there are new blocks, one gets an answer from
`BlockNumber` in the end. This is an assumption about the node, and stronger
than that calls return: an error ends the pass (monitor.go:86-89), and a node
that fails for ever holds the monitor up for ever. `ConsumersGoOn`: the broker's
push per queue and each consumer's next message are weakly fair, as goroutines
of a running process are. `EverySaved` further supposes, in its formula, that in
the end the worker is up and its channel open: no code brings back either.
Mining, posting, failing, crashing and restarting are not fair, so a worker that
died may stay down; the liveness properties allow for that. In the hub the steps
of goroutines are weakly fair; taking a registration or an unregistration is
strongly fair, as Go's select picks at random among the channels that are ready,
so a waiter is not passed over for ever although it is ready only between
broadcasts. Reads and writes return once their connection is closed; before that
a peer may let them wait as long as it likes, so they are not fair. The faucet's
node mines what it can (weakly fair); requests need not finish. The migrator has
no fairness and no liveness property: an operator need not run another command.

## 4. The proofs

Eight modules hold theorems, all checked to the last leaf. Every safety
property of a passing run, invariant or action property, is a theorem for all
values of the constants, and so are the refinements. The theorems assume what
the modules' `ASSUME`s state of the constants (numbers are naturals, special
addresses are not users, there are finitely many users, requests and
migrations, `NoDeal` is no offer, a buffer holds at least one message, gas
prices are positive) and nothing more.

An invariant is proved action by action, and for each action by the conjuncts
it can disturb. What follows is what the invariants add to the properties, and why
they must.

* `X402Credit_proofs`: lemmas about one transaction of the credit contract,
  shared by the contracts.
* `RFQ_proofs`: types, `AcceptanceConsistent`, `ExecutedOnceAsQuoted`,
  `DrawnWithinLimit`, `NothingRewritten`, and `RFQImplementsRequest` (of
  `RfqKeepsPromise`). `RfqInv` adds that the index stays inside the book, that
  ids not created are all zero but for their quotes, and that every line is
  below the counter: without these a step could open a line on a quote that is
  not there, or on the id of an older line.
* `Auction_proofs`: the same for the auction; `AuctionInv` adds that a winner's
  flag is unique and agrees with the stored lender, that ids not created are
  zero, and that no auction is created in the future, which with the monotone
  clock gives the window of its bids. `AuctionImplementsRequest` (of
  `AuctionKeepsPromise`) closes it.
* `Reference_proofs`: the scan of finalizeAuction is correct for every book,
  from the loop invariant that the best so far beats or ties what was read,
  earlier bids strictly; and the abstract promise.
* `AgentFinance_proofs`, on the pool: types, reserved ≤ staked, stakes moving
  with tokens, `Solvent` and `SupplyConserved`. The last two sum over accounts
  with a fold. What is needed of a sum (one summand changes it by as much, the
  order does not matter) cannot be had by the library's induction; it is proved
  by contradiction, from a smallest set of accounts for which it would fail.
  Solvency is kept because stakes and the contract's balance change by the same
  amount in one transaction, and no other takes tokens from the contract.
* `AgentFinance_proofs`, on the composition: types, `LinksRight`,
  `LinesDisjoint`, `ReservedAsOpened`. `FinanceInv` joins the invariants of the
  contracts and adds `CreatedMatched`: a request the wrapper has opened a line
  for is decided for good. Without it the accepted quote or the winning bid that
  a line was compared with could still change. Lines are disjoint as each is
  opened under the counter, below which all recorded ids are.
  `FinanceReservedAsOpened` is about transactions, since anyone may call
  reserveLiquidity and releaseLiquidity and no sum of lines is then reserved:
  every transaction but those two changes what is reserved for a lender by the
  limits of the lines the wrapper opens on that lender in it. It needs that a
  recorded line keeps its limit and that a new one is not among the recorded
  ones. `FinanceKeepsPromises`, `FinanceRecordsKept` and `FinanceSolvent` carry
  the theorems of the single contracts over to the composition, where the
  wrapper acts on their state.
* `EventPipeline_proofs`: types, `PublishedInOrder`, `NothingSkipped` and
  `RowsInOrder`, for any chain and any failures. None is inductive. The
  invariant says which blocks the running monitor has `Passed` (below
  `lastBlock`, or done in this pass) and which are `Behind` it (passed, or any
  once the worker is down): what was published is behind it and earlier than
  what is pending for the same queue; what is passed is published or missed. It
  orders queue and inbox among themselves, messages of the chain by block and
  those of the API as different ones (`Earlier`), and puts every row before
  whatever is still on its way; a posted request has its row before it is
  published, and a row from its message only after (`CountInv`, `RowOK`).
* `ApiServer_proofs`, on the faucet: `NoNonceGap` and `SuccessAccounted`, for
  `FaucetSpec` and again for the whole server. The first speaks of the pool only
  and is not inductive: a gap would enter with a nonce some request has read and
  not yet sent. `NoGapBelow` says of those, too, that all nonces below are mined
  or in the pool; it stays true as the pool loses a nonce only to the chain. The
  second follows because a transfer that replaces another pays more than it, and
  so more than whatever that one had replaced. In the server every step is a
  step of the faucet or leaves the faucet's state alone.
* `ApiServer_proofs`, on the other routes: types, `AnswersTrue`,
  `PagesComplete`. `Progress` says for each position of a request what it has
  done so far: a row before the publication, no message before the answer.
  `PagesInv` follows a row that is alone in its second: it has exactly the later
  rows before it in every listing, an insert can only move it further back, and
  so a reader who has not met it has read no more rows than those.
* `ApiServer_proofs`, on the hub: types, `ClosedOnLeaving` and `NoGap` for any
  number of clients, size of buffers and number of messages. `HubInv` adds where
  the reader of a client in the map can be (without it a broadcast could close
  the channel of a client that is not registered yet), and that nothing is held
  before registration and in between two messages (without it the order of
  written, held and buffered messages could not be kept when the writer takes
  the next).
* `Migrator_proofs`: types, `RecordAccuracy`, `StepsInOrder` and `UpApplies` for
  any finite set of migrations and any commands, cuts and delays.
  `RecordAccuracy` is about the time between commands; `Accurate` says what
  holds meanwhile: schema and settled records differ by what is `Unsure` and by
  the one version that was run and is not yet recorded (`Unrecorded`), while
  reshard has read the rows, by what it read too late or too early (`ReadFits`),
  and while it has emptied the table, the schema differs from what it has to put
  back (`FillFits`). `UpFits` and `DownFits` say that nothing known to be
  applied is later than what is left to go up, or left out of what goes down.

Refinement is proved step by step: each action of a contract maps to one action
of `FinancingRequest` or to a stutter, using the contract's invariant to find the
line that the mapping reads.

Only model-checked are the liveness properties, `MonitorCatchesUp` and
`EverySaved` of the pipeline, `WaitersServed` and `EndsUnlessWriteHangs` of the
hub, and `PoolDrains` of the faucet's node: fairness and ENABLED are out of the
prover's reach. The three runs that end in a counterexample need no proof.

## 5. Not modelled

* Views, events that carry no information a property needs, names and
  descriptions; other spenders of the token; swapViaAqua, which changes nothing.
* Decoding of logs (unknown signatures are ignored by the code); a worker
  without a repository; what the worker does with quote, auction and bid
  messages, which is to log them.
* Requests that only read one object, the health route, middleware but for
  Recover, and the placeholders of the x402 service, which return constants.
* Topics of WebSocket clients, which nothing reads; who calls `Broadcast`, as
  nothing does.
* The migrator's `create` and `fix`, which write files only; two commands at
  once; shards that disagree on the schema (`ON CLUSTER` is taken to reach all);
  the flag --allow-missing, which nothing passes on (--s does).
* The frontend: forms that call the contracts through a wallet and lists in
  memory. AuctionLiveView adds the bids of all messages again with each new one,
  which is read off its effect hook without a model.
* Configuration, container and proxy files, deployment scripts, generated API
  docs.
