------------------------------- MODULE Broker -------------------------------
(***************************************************************************)
(* The message queues of the backend (rabbitmq.go) on a RabbitMQ broker.   *)
(* Each process has one connection with one channel, opened at its start   *)
(* and never reopened.  Publishing waits for no confirmation.  Consuming   *)
(* acknowledges on delivery: a delivered message is in the memory of the   *)
(* consumer and nowhere else.  Queues are durable, the messages in them    *)
(* are not persistent.                                                     *)
(***************************************************************************)
EXTENDS Naturals, Sequences

CONSTANTS
    Processes,  \* the processes that open a connection
    Consumer,   \* the one that consumes: the worker
    Messages    \* the messages published

ASSUME BrokerAssumption == Consumer \in Processes

VARIABLES
    queue,          \* queue -> messages held by the broker
    inbox,          \* queue -> messages delivered and not handled yet
    channelOpen,    \* process -> its channel works
    published       \* queue -> every message the broker ever took (history)

brokerVars == <<queue, inbox, channelOpen, published>>

(* The queues that have a consumer. *)
Queues == {"rfq.events", "rfq.quotes", "auction.events", "auction.bids"}

BrokerTypeOK ==
    /\ queue \in [Queues -> Seq(Messages)]
    /\ inbox \in [Queues -> Seq(Messages)]
    /\ channelOpen \in [Processes -> BOOLEAN]
    /\ published \in [Queues -> Seq(Messages)]

BrokerInit ==
    /\ queue = [q \in Queues |-> << >>]
    /\ inbox = [q \in Queues |-> << >>]
    /\ channelOpen = [p \in Processes |-> TRUE]
    /\ published = [q \in Queues |-> << >>]

(* The message reaches the broker. *)
Accept(p, q, message) ==
    /\ channelOpen[p]
    /\ queue' = [queue EXCEPT ![q] = Append(@, message)]
    /\ published' = [published EXCEPT ![q] = Append(@, message)]
    /\ UNCHANGED <<inbox, channelOpen>>

(* The broker pushes the head of the queue, which counts as acknowledged.  *)
Deliver(q) ==
    /\ channelOpen[Consumer]
    /\ queue[q] # << >>
    /\ queue' = [queue EXCEPT ![q] = Tail(@)]
    /\ inbox' = [inbox EXCEPT ![q] = Append(@, Head(queue[q]))]
    /\ UNCHANGED <<channelOpen, published>>

(* The consumer's goroutine takes the next delivered message. *)
Take(q) ==
    /\ inbox[q] # << >>
    /\ inbox' = [inbox EXCEPT ![q] = Tail(@)]
    /\ UNCHANGED <<queue, channelOpen, published>>

(* A connection is lost.  Nothing opens another one. *)
CloseChannel(p) ==
    /\ channelOpen[p]
    /\ channelOpen' = [channelOpen EXCEPT ![p] = FALSE]
    /\ UNCHANGED <<queue, inbox, published>>

(* The client library drops the deliveries it has buffered when it finds   *)
(* the channel closed, which may be after it handed over some more.        *)
DropDeliveries(q) ==
    /\ ~channelOpen[Consumer]
    /\ inbox[q] # << >>
    /\ inbox' = [inbox EXCEPT ![q] = << >>]
    /\ UNCHANGED <<queue, channelOpen, published>>

(* The broker restarts: every connection is lost, and every message held.  *)
RestartBroker ==
    /\ channelOpen' = [p \in Processes |-> FALSE]
    /\ queue' = [q \in Queues |-> << >>]
    /\ UNCHANGED <<inbox, published>>

(* A process dies with what it had received. *)
DropConnection(p) ==
    /\ channelOpen' = [channelOpen EXCEPT ![p] = FALSE]
    /\ inbox' = IF p = Consumer THEN [q \in Queues |-> << >>] ELSE inbox
    /\ UNCHANGED <<queue, published>>

(* A process that starts opens its connection and its channel. *)
NewQueue(p) ==
    /\ channelOpen' = [channelOpen EXCEPT ![p] = TRUE]
    /\ UNCHANGED <<queue, inbox, published>>
=============================================================================
