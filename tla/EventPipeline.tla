--------------------------- MODULE EventPipeline ---------------------------
(***************************************************************************)
(* From events on the chain and requests to the API to the rows of the     *)
(* table rfqs: the monitor and the API service publish, the worker         *)
(* (main.go) consumes and saves (clickhouse.go).  Handlers of the other    *)
(* queues only log.                                                        *)
(***************************************************************************)
EXTENDS EventMonitor

CONSTANTS
    Api,            \* the API process
    MaxRequests     \* bound: RFQs posted to the API

(* The event of the r-th posted RFQ.  (The rfq_id in it is 0 for all.) *)
FromApi(r) == [from |-> "api", type |-> "rfq_created", id |-> r]

ASSUME PipelineAssumption ==
    /\ Processes = {Consumer, Api} /\ Api # Consumer
    /\ MaxRequests \in Nat
    /\ \A r \in 1 .. MaxRequests : FromApi(r) \in Messages

VARIABLES
    rows,       \* the rows of table rfqs, in the order of insertion
    requests,   \* RFQs posted to the API so far
    saved,      \* posted RFQs that are saved and not yet published
    lost        \* blocks whose message was lost on its way to the table (history)

tableVars == <<rows, requests, saved>>
pipelineVars == <<tableVars, lost>>

vars == <<brokerVars, monitorVars, pipelineVars>>

(* The insert gives no id, so the column has its default.  The row of a    *)
(* posted RFQ has the borrower of the request.  The worker takes the       *)
(* borrower from the top level of the message, where only the monitor puts *)
(* one: the API nests it in a payload.                                     *)
Row == [from : {"chain", "api", "post"}, event : Nat, id : {0}, borrower : {"known", "blank"}]

RowOf(message) ==
    [from |-> message.from, event |-> message.id, id |-> 0,
     borrower |-> IF message.from = "chain" THEN "known" ELSE "blank"]

PipelineTypeOK ==
    /\ BrokerTypeOK
    /\ MonitorTypeOK
    /\ rows \in Seq(Row)
    /\ requests \in Nat
    /\ saved \subseteq 1 .. requests
    /\ lost \subseteq DOMAIN chain

Init ==
    /\ BrokerInit
    /\ MonitorInit
    /\ rows = << >>
    /\ requests = 0
    /\ saved = {}
    /\ lost = {}

(* The blocks that the messages of a sequence tell of. *)
BlocksIn(s) == {s[i].id : i \in {k \in DOMAIN s : s[k].from = "chain"}}

(* MUTANT: saves only messages with a payload. *)
HandleRFQEventPayload ==
    /\ up
    /\ Take("rfq.events")
    /\ LET message == Head(inbox["rfq.events"])
       IN  rows' = IF message.type = "rfq_created" /\ message.from = "api"
                     THEN Append(rows, RowOf(message)) ELSE rows
    /\ UNCHANGED <<monitorVars, requests, saved, lost>>

(* The consumer of rfq.events saves what is created and logs the rest. *)
HandleRFQEvent ==
    /\ up
    /\ Take("rfq.events")
    /\ LET message == Head(inbox["rfq.events"])
       IN  rows' = IF message.type = "rfq_created" THEN Append(rows, RowOf(message)) ELSE rows
    /\ UNCHANGED <<monitorVars, requests, saved, lost>>

(* MUTANT: a message that cannot be saved goes to the end. *)
HandleRFQEventRequeued ==
    /\ up
    /\ inbox["rfq.events"] # << >>
    /\ Head(inbox["rfq.events"]).type = "rfq_created"
    /\ inbox' = [inbox EXCEPT !["rfq.events"] = Append(Tail(@), Head(@))]
    /\ Fault
    /\ UNCHANGED <<queue, channelOpen, published, chain, up, passVars, lastBlock, missed, pipelineVars>>

(* The insert fails: the message is already acknowledged. *)
HandleRFQEventFails ==
    /\ up
    /\ Take("rfq.events")
    /\ Head(inbox["rfq.events"]).type = "rfq_created"
    /\ Fault
    /\ lost' = lost \cup BlocksIn(<<Head(inbox["rfq.events"])>>)
    /\ UNCHANGED <<chain, up, passVars, lastBlock, missed, tableVars>>

HandleOther(q) ==
    /\ up
    /\ q # "rfq.events"
    /\ Take(q)
    /\ UNCHANGED <<monitorVars, pipelineVars>>

(* POST /rfq: the row is saved (a failed insert ends the request with      *)
(* nothing done), then the event is published; if that fails the request   *)
(* still succeeds.                                                         *)
PostRFQ ==
    /\ requests < MaxRequests
    /\ requests' = requests + 1
    /\ rows' = Append(rows, [from |-> "post", event |-> requests', id |-> 0, borrower |-> "known"])
    /\ saved' = saved \cup {requests'}
    /\ UNCHANGED <<brokerVars, monitorVars, lost>>

PublishPosted(r) ==
    /\ r \in saved
    /\ saved' = saved \ {r}
    /\ \/ /\ Accept(Api, "rfq.events", FromApi(r))
          /\ UNCHANGED faults
       \/ /\ IF channelOpen[Api] THEN Fault ELSE UNCHANGED faults
          /\ UNCHANGED brokerVars
    /\ UNCHANGED <<chain, up, passVars, lastBlock, missed, rows, requests, lost>>

(* A lost connection, or a broker that restarts. *)
BrokerFails ==
    /\ Fault
    /\ \/ \E p \in Processes : CloseChannel(p) /\ UNCHANGED lost
       \/ RestartBroker /\ lost' = lost \cup BlocksIn(queue["rfq.events"])
    /\ UNCHANGED <<chain, up, passVars, lastBlock, missed, tableVars>>

LoseDeliveries ==
    /\ \E q \in Queues :
          /\ DropDeliveries(q)
          /\ lost' = IF q = "rfq.events" THEN lost \cup BlocksIn(inbox[q]) ELSE lost
    /\ UNCHANGED <<monitorVars, tableVars>>

Consume ==
    \/ \E q \in Queues : up /\ Deliver(q) /\ UNCHANGED <<monitorVars, pipelineVars>>
    \/ HandleRFQEvent
    \/ HandleRFQEventFails
    \/ \E q \in Queues : HandleOther(q)

Next ==
    \/ Mine /\ UNCHANGED pipelineVars
    \/ MonitorStep /\ UNCHANGED pipelineVars
    \/ /\ CrashWorker
       /\ lost' = lost \cup BlocksIn(inbox["rfq.events"])
       /\ UNCHANGED tableVars
    \/ StartWorker /\ UNCHANGED pipelineVars
    \/ Consume
    \/ PostRFQ
    \/ \E r \in 1 .. MaxRequests : PublishPosted(r)
    \/ BrokerFails
    \/ LoseDeliveries

Spec == Init /\ [][Next]_vars

(* What the environment is assumed to do: the node answers a BlockNumber   *)
(* that is asked again at every tick in the end, and the other calls of a  *)
(* pass return, with an error or without.                                  *)
NodeAnswers == WF_vars(PollBlocks /\ UNCHANGED pipelineVars)
CallsReturn == WF_vars(PassStep /\ UNCHANGED pipelineVars)

(* What the program and the broker do: the broker pushes what it holds and *)
(* the goroutine of each consumer goes on.  Nothing restarts a worker.     *)
ConsumersGoOn ==
    /\ \A q \in Queues :
          /\ WF_vars(up /\ Deliver(q) /\ UNCHANGED <<monitorVars, pipelineVars>>)
          /\ WF_vars(HandleOther(q))
    /\ WF_vars(HandleRFQEvent \/ HandleRFQEventFails)

FairSpec == Spec /\ NodeAnswers /\ CallsReturn /\ ConsumersGoOn

-----------------------------------------------------------------------------

(***************************************************************************)
(* The monitor never publishes an event twice, nor out of the order of the *)
(* chain within a queue, whatever fails and wherever it is restarted.      *)
(***************************************************************************)
FromMonitor(q) == {i \in DOMAIN published[q] : published[q][i].from = "chain"}

PublishedInOrder ==
    \A q \in Queues :
        \A i, j \in FromMonitor(q) : i < j => published[q][i].id < published[q][j].id

(***************************************************************************)
(* The monitor leaves out no event but those it is known to lose: every    *)
(* event up to lastBlock is published, unless filtering the logs of its    *)
(* contract failed in its pass, publishing it failed, or a worker started  *)
(* after its block that had not finished it (StartWorker).  A failure in   *)
(* one pass excuses nothing in another.                                    *)
(***************************************************************************)
IsPublished(n) ==
    \E i \in DOMAIN published[QueueOf[chain[n]]] : published[QueueOf[chain[n]]][i] = FromChain(n)

NothingSkipped == \A n \in 1 .. lastBlock : IsPublished(n) \/ n \in missed

(***************************************************************************)
(* The table gets at most one row for each RFQ created on the chain, and   *)
(* those in the order of the chain; one row for each RFQ posted to the API *)
(* and, from the message of that RFQ and after that row, at most one more  *)
(* (the row RowsNameBorrower is about); and no row for anything else.      *)
(***************************************************************************)
RowsInOrder ==
    /\ \A i \in DOMAIN rows :
          \/ /\ rows[i].from = "chain"
             /\ rows[i].event \in DOMAIN chain
             /\ chain[rows[i].event] = "rfq_created"
          \/ rows[i].from = "post" /\ rows[i].event \in 1 .. requests
          \/ /\ rows[i].from = "api"
             /\ \E k \in 1 .. i - 1 : rows[k].from = "post" /\ rows[k].event = rows[i].event
    /\ \A i, j \in DOMAIN rows :
          i < j /\ rows[i].from = rows[j].from =>
              /\ rows[i].event # rows[j].event
              /\ rows[i].from = "chain" => rows[i].event < rows[j].event

(***************************************************************************)
(* Failed calls of a pass do not hold the monitor up: if the node answers  *)
(* BlockNumber in the end (NodeAnswers) and the other calls return, with   *)
(* an error or without (CallsReturn), a worker that keeps running reaches  *)
(* every block.  What it publishes on the way is for NothingSkipped to say. *)
(***************************************************************************)
MonitorCatchesUp ==
    \A n \in 1 .. MaxBlocks : (Len(chain) >= n) ~> (lastBlock >= n \/ ~up)

(***************************************************************************)
(* Under the same assumptions, and if in the end the worker stays up and   *)
(* its channel open: every RFQ created on the chain gets its row, unless   *)
(* the monitor left its event out (missed), or its message was lost when   *)
(* the broker restarted, the worker died or its channel closed while it    *)
(* held the message, or the insert failed (lost).  Other events still      *)
(* arrive after any of these.                                              *)
(***************************************************************************)
HasRow(n) == \E i \in DOMAIN rows : rows[i].from = "chain" /\ rows[i].event = n

EverySaved ==
    \A n \in 1 .. MaxBlocks :
        <>[](up /\ channelOpen[Consumer]) =>
            ((n \in DOMAIN chain /\ chain[n] = "rfq_created")
                ~> (HasRow(n) \/ n \in missed \cup lost))

(***************************************************************************)
(* worker/main.go:154 takes the columns of a row from the message          *)
(* ("Extract RFQ data from event"): every row names its borrower.          *)
(***************************************************************************)
RowsNameBorrower == \A i \in DOMAIN rows : rows[i].borrower = "known"
=============================================================================
