---------------------------- MODULE EventMonitor ----------------------------
(***************************************************************************)
(* The event monitor of the worker (monitor.go): every five seconds it     *)
(* reads the height of the chain, asks for the logs of the RFQ contract    *)
(* and then of the auction contract in the blocks since the last pass, and *)
(* publishes one message per log.  Each remote call may fail; the failure  *)
(* is logged, and the pass goes on.  The chain has one log per block, as a *)
(* node that mines each transaction has.                                   *)
(***************************************************************************)
EXTENDS Broker

CONSTANTS
    Types,      \* event types that occur
    MaxBlocks,  \* bound: blocks mined
    MaxFaults   \* bound: failures

VARIABLES
    chain,      \* block number -> type of the event logged in it
    up,         \* the worker process runs
    step,       \* what processNewBlocks does next
    contract,   \* whose logs it does it with
    pending,    \* blocks whose logs are still to be published in this pass
    toBlock,
    lastBlock,
    faults,     \* failures so far (history)
    missed      \* blocks whose event the monitor left out (history)

passVars == <<step, contract, pending, toBlock>>
monitorVars == <<chain, up, passVars, lastBlock, faults, missed>>

(* The queue each handler publishes to; the message keeps type and block.  *)
QueueOf == [rfq_created |-> "rfq.events", quote_submitted |-> "rfq.quotes",
            quote_accepted |-> "rfq.events", rfq_executed |-> "rfq.events",
            auction_created |-> "auction.events", bid_placed |-> "auction.bids",
            auction_finalized |-> "auction.events", auction_settled |-> "auction.events"]

RFQTypes == {"rfq_created", "quote_submitted", "quote_accepted", "rfq_executed"}

ASSUME MonitorAssumption ==
    /\ Types \subseteq DOMAIN QueueOf
    /\ MaxBlocks \in Nat /\ MaxFaults \in Nat
    /\ [from : {"chain"}, type : Types, id : 1 .. MaxBlocks] \subseteq Messages

(* The message for the event in block n: the id is the block number, which *)
(* tells the messages of the monitor apart.                                *)
FromChain(n) == [from |-> "chain", type |-> chain[n], id |-> n]

MonitorTypeOK ==
    /\ chain \in Seq(Types)
    /\ up \in BOOLEAN
    /\ step \in {"idle", "filter", "publish"}
    /\ contract \in {"rfq", "auction"}
    /\ pending \subseteq DOMAIN chain
    /\ missed \subseteq DOMAIN chain
    /\ lastBlock \in 0 .. Len(chain)
    /\ toBlock \in 0 .. Len(chain)
    /\ faults \in Nat

MonitorInit ==
    /\ chain = << >>
    /\ up = TRUE
    /\ step = "idle"
    /\ contract = "rfq"
    /\ pending = {}
    /\ toBlock = 0
    /\ lastBlock = 0
    /\ faults = 0
    /\ missed = {}

Fault == faults < MaxFaults /\ faults' = faults + 1

(* A transaction is mined. *)
Mine ==
    /\ Len(chain) < MaxBlocks
    /\ \E type \in Types : chain' = Append(chain, type)
    /\ UNCHANGED <<up, passVars, lastBlock, faults, missed, brokerVars>>

(* MUTANT: waits for two new blocks. *)
PollBlocksLate ==
    /\ up /\ step = "idle"
    /\ Len(chain) > lastBlock + 1
    /\ toBlock' = Len(chain)
    /\ step' = "filter"
    /\ contract' = "rfq"
    /\ UNCHANGED <<chain, up, pending, lastBlock, faults, missed, brokerVars>>

(* The start of processNewBlocks.  A failed BlockNumber leaves everything  *)
(* to the next tick.                                                       *)
PollBlocks ==
    /\ up /\ step = "idle"
    /\ Len(chain) > lastBlock
    /\ toBlock' = Len(chain)
    /\ step' = "filter"
    /\ contract' = "rfq"
    /\ UNCHANGED <<chain, up, pending, lastBlock, faults, missed, brokerVars>>

LogsOf(c) ==
    {n \in lastBlock + 1 .. toBlock : c = IF chain[n] \in RFQTypes THEN "rfq" ELSE "auction"}

FilterLogs ==
    /\ up /\ step = "filter"
    /\ pending' = LogsOf(contract)
    /\ step' = "publish"
    /\ UNCHANGED <<chain, up, contract, toBlock, lastBlock, faults, missed, brokerVars>>

(* MUTANT: gives the pass up, to be repeated at the next tick. *)
FilterLogsRetried ==
    /\ up /\ step = "filter"
    /\ Fault
    /\ step' = "idle"
    /\ UNCHANGED <<chain, up, contract, pending, toBlock, lastBlock, missed, brokerVars>>

(* "Failed to filter": the pass goes on without the logs. *)
FilterLogsFails ==
    /\ up /\ step = "filter"
    /\ Fault
    /\ pending' = {}
    /\ missed' = missed \cup LogsOf(contract)
    /\ step' = "publish"
    /\ UNCHANGED <<chain, up, contract, toBlock, lastBlock, brokerVars>>

(* The logs are handled in the order of the chain. *)
NextLog(n) ==
    /\ up /\ step = "publish"
    /\ n \in pending
    /\ \A m \in pending : n <= m
    /\ pending' = pending \ {n}
    /\ UNCHANGED <<chain, up, step, contract, toBlock, lastBlock>>

PublishLog ==
    \E n \in pending :
        /\ NextLog(n)
        /\ Accept(Consumer, QueueOf[chain[n]], FromChain(n))
        /\ UNCHANGED <<faults, missed>>

(* Publish returns an error, which is logged, or the message is lost on    *)
(* its way, which nothing notices.                                         *)
PublishLogFails ==
    \E n \in pending :
        /\ NextLog(n)
        /\ IF channelOpen[Consumer] THEN Fault ELSE UNCHANGED faults
        /\ missed' = missed \cup {n}
        /\ UNCHANGED brokerVars

FilterNextContract ==
    /\ up /\ step = "publish" /\ pending = {} /\ contract = "rfq"
    /\ contract' = "auction"
    /\ step' = "filter"
    /\ UNCHANGED <<chain, up, pending, toBlock, lastBlock, faults, missed, brokerVars>>

(* MUTANT: reads the height again. *)
FinishBlocksAtHead ==
    /\ up /\ step = "publish" /\ pending = {} /\ contract = "auction"
    /\ lastBlock' = Len(chain)
    /\ step' = "idle"
    /\ UNCHANGED <<chain, up, contract, pending, toBlock, faults, missed, brokerVars>>

FinishBlocks ==
    /\ up /\ step = "publish" /\ pending = {} /\ contract = "auction"
    /\ lastBlock' = toBlock
    /\ step' = "idle"
    /\ UNCHANGED <<chain, up, contract, pending, toBlock, faults, missed, brokerVars>>

(* A pass of processNewBlocks that has begun, step by step. *)
PassStep ==
    \/ FilterLogs
    \/ FilterLogsFails
    \/ PublishLog
    \/ PublishLogFails
    \/ FilterNextContract
    \/ FinishBlocks

MonitorStep == PollBlocks \/ PassStep

(* The worker dies in the middle of anything. *)
CrashWorker ==
    /\ up
    /\ Fault
    /\ up' = FALSE
    /\ step' = "idle"
    /\ pending' = {}
    /\ DropConnection(Consumer)
    /\ UNCHANGED <<chain, contract, toBlock, lastBlock, missed>>

(* MUTANT: lastBlock is the first block to come. *)
StartWorkerAhead ==
    /\ ~up
    /\ up' = TRUE
    /\ lastBlock' = Len(chain) + 1
    /\ UNCHANGED missed
    /\ NewQueue(Consumer)
    /\ UNCHANGED <<chain, passVars, faults>>

(* NewMonitor starts at the height the chain has by then: the blocks of    *)
(* the pass that was cut, and those mined since, are behind it.            *)
StartWorker ==
    /\ ~up
    /\ up' = TRUE
    /\ lastBlock' = Len(chain)
    /\ missed' = missed \cup (lastBlock + 1 .. lastBlock')
    /\ NewQueue(Consumer)
    /\ UNCHANGED <<chain, passVars, faults>>
=============================================================================
