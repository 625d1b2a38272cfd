------------------------ MODULE EventPipeline_proofs ------------------------
(***************************************************************************)
(* Proofs about EventPipeline for any number of blocks, requests and       *)
(* failures.  None of the properties is inductive.  What the monitor will  *)
(* publish next depends on where its pass is, so the invariant says which  *)
(* blocks are behind it: those are the only ones published, and every      *)
(* event still pending comes after the published ones of its queue.  And   *)
(* the order of the rows depends on what is on its way to them, so the     *)
(* invariant orders rows, inbox and queue among themselves, too; of the    *)
(* messages of the API it says that no two there tell the same request.    *)
(***************************************************************************)
EXTENDS EventPipeline, TLAPS

ContractOf(n) == IF chain[n] \in RFQTypes THEN "rfq" ELSE "auction"

(* The worker that runs is done with block n: it is below lastBlock, or    *)
(* the pass has handled its event.                                         *)
Passed(n) ==
    \/ n <= lastBlock
    \/ /\ step # "idle" /\ n <= toBlock
       /\ \/ contract = "auction" /\ ContractOf(n) = "rfq"
          \/ contract = ContractOf(n) /\ step = "publish" /\ n \notin pending

(* The monitor will not publish the event of block n any more: it has      *)
(* passed it, or the worker died, and the next one starts at the head.     *)
Behind(n) == ~up \/ Passed(n)

(* The pass. *)
PassOK ==
    /\ Len(chain) <= MaxBlocks
    /\ step # "idle" => up /\ lastBlock <= toBlock
    /\ step # "publish" => pending = {}
    /\ \A n \in pending : lastBlock < n /\ n <= toBlock /\ ContractOf(n) = contract

MonitorInv == MonitorTypeOK /\ PassOK

(* The requests counted, and those of them still to be published. *)
CountInv == requests \in Nat /\ saved \subseteq 1 .. requests

(* A message of the monitor tells an event of the chain, on its queue; all *)
(* others are the API's and tell a request that is done.                   *)
ToldBy(message, q) ==
    \/ /\ message.from = "chain"
       /\ message.id \in DOMAIN chain
       /\ message = FromChain(message.id)
       /\ QueueOf[chain[message.id]] = q
    \/ message.from = "api" /\ message.id \in 1 .. requests /\ message.id \notin saved

(* What the broker or the consumer holds was published on that queue. *)
Among(s, t) == \A i \in DOMAIN s : \E j \in DOMAIN t : t[j] = s[i]

(* Message m may come before message w: of the monitor's in the order of   *)
(* the chain, of the API's in any order, but none twice.                   *)
Earlier(m, w) ==
    /\ m.from = "chain" /\ w.from = "chain" => m.id < w.id
    /\ m.from = "api" /\ w.from = "api" => m.id # w.id

(* Two sequences of messages, the first entirely before the second. *)
Precedes(s, t) == \A i \in DOMAIN s, j \in DOMAIN t : Earlier(s[i], t[j])

Increasing(s) == \A i, j \in DOMAIN s : i < j => Earlier(s[i], s[j])

InOrder(q) ==
    /\ Increasing(published[q]) /\ Increasing(queue[q]) /\ Increasing(inbox[q])
    /\ Among(queue[q], published[q]) /\ Among(inbox[q], published[q])
    /\ Precedes(inbox[q], queue[q])

BrokerInv == BrokerTypeOK /\ \A q \in Queues : InOrder(q)

(* What the monitor published is behind it, and before what is pending. *)
PublishInv ==
    \A q \in Queues :
        /\ \A i \in DOMAIN published[q] : ToldBy(published[q][i], q)
        /\ \A i \in FromMonitor(q) :
              /\ Behind(published[q][i].id)
              /\ \A n \in pending : QueueOf[chain[n]] = q => published[q][i].id < n

(* What is on its way to the worker. *)
InFlight(q) ==
    {inbox[q][i] : i \in DOMAIN inbox[q]} \cup {queue[q][i] : i \in DOMAIN queue[q]}

(* A row tells a published event or a request, and is before everything    *)
(* that is still on its way.                                               *)
ToldIn(row) == [from |-> row.from, id |-> row.event]

RowOK(row) ==
    /\ \/ /\ row.from = "chain"
          /\ row.event \in DOMAIN chain /\ chain[row.event] = "rfq_created"
          /\ IsPublished(row.event)
       \/ row.from = "post" /\ row.event \in 1 .. requests
       \/ row.from = "api" /\ row.event \in 1 .. requests /\ row.event \notin saved
    /\ \A m \in InFlight("rfq.events") : Earlier(ToldIn(row), m)

PostRow(k, r) == rows[k].from = "post" /\ rows[k].event = r

RowsInv ==
    /\ rows \in Seq(Row)
    /\ \A i \in DOMAIN rows : RowOK(rows[i])
    /\ \A r \in 1 .. requests : \E k \in DOMAIN rows : PostRow(k, r)
    /\ RowsInOrder
    /\ lost \subseteq DOMAIN chain

(* What the running monitor has passed is published, or counted as missed. *)
SkipInv == \A n \in DOMAIN chain : Passed(n) => IsPublished(n) \/ n \in missed

PipelineInv == MonitorInv /\ CountInv /\ BrokerInv /\ PublishInv /\ RowsInv /\ SkipInv

-----------------------------------------------------------------------------
(* The pass of the monitor. *)

(* Failures aside, only the monitor's own steps change what it has. *)
LEMMA OthersKeepPass ==
  ASSUME MonitorInv, Consume \/ PostRFQ \/ (\E r \in 1 .. MaxRequests : PublishPosted(r))
                         \/ BrokerFails \/ LoseDeliveries
  PROVE  UNCHANGED <<chain, up, passVars, lastBlock, missed>> /\ faults' \in Nat
BY DEF MonitorInv, MonitorTypeOK, Consume, HandleRFQEvent, HandleRFQEventFails, HandleOther,
       PostRFQ, PublishPosted, BrokerFails, LoseDeliveries, Fault, monitorVars, passVars

LEMMA MonitorStepInv == MonitorInv /\ [Next]_vars => MonitorInv'
<1> SUFFICES ASSUME MonitorInv, [Next]_vars PROVE MonitorInv'
  OBVIOUS
<1> USE MonitorAssumption DEF MonitorInv, MonitorTypeOK, PassOK, ContractOf
<1>1. CASE Mine
  <2>1. /\ chain' \in Seq(Types) /\ Len(chain') = Len(chain) + 1 /\ Len(chain') <= MaxBlocks
        /\ \A n \in DOMAIN chain : chain'[n] = chain[n]
    BY <1>1 DEF Mine
  <2> QED
    BY <1>1, <2>1 DEF Mine, passVars
<1>2. CASE PollBlocks
  BY <1>2 DEF PollBlocks
<1>3. CASE FilterLogs
  BY <1>3 DEF FilterLogs, LogsOf
<1>4. CASE FilterLogsFails
  BY <1>4 DEF FilterLogsFails, Fault, LogsOf
<1>5. CASE PublishLog \/ PublishLogFails
  BY <1>5 DEF PublishLog, PublishLogFails, NextLog, Fault
<1>6. CASE FilterNextContract
  BY <1>6 DEF FilterNextContract
<1>7. CASE FinishBlocks
  BY <1>7 DEF FinishBlocks
<1>8. CASE CrashWorker
  <2>1. /\ UNCHANGED <<chain, contract, toBlock, lastBlock, missed>> /\ pending' = {}
        /\ up' = FALSE /\ step' = "idle" /\ faults' \in Nat
    BY <1>8 DEF CrashWorker, Fault
  <2> QED
    BY <2>1
<1>9. CASE StartWorker
  BY <1>9 DEF StartWorker, passVars
<1>10. CASE Consume \/ PostRFQ \/ (\E r \in 1 .. MaxRequests : PublishPosted(r))
              \/ BrokerFails \/ LoseDeliveries
  BY <1>10, OthersKeepPass DEF passVars
<1>11. CASE UNCHANGED vars
  BY <1>11 DEF vars, monitorVars, passVars
<1> QED
  BY <1>1, <1>2, <1>3, <1>4, <1>5, <1>6, <1>7, <1>8, <1>9, <1>10, <1>11 DEF Next, MonitorStep, PassStep

(* A request that is done stays so. *)
LEMMA CountStepInv ==
  ASSUME CountInv, [Next]_vars
  PROVE  CountInv' /\ \A r \in (1 .. requests) \ saved : r \in (1 .. requests') \ saved'
<1> USE DEF CountInv
<1>1. CASE PostRFQ
  BY <1>1 DEF PostRFQ
<1>2. CASE requests' = requests /\ saved' \subseteq saved
  BY <1>2
<1>3. PostRFQ \/ (requests' = requests /\ saved' \subseteq saved)
  BY DEF Next, Mine, MonitorStep, PassStep, CrashWorker, StartWorker, Consume, HandleRFQEvent,
     HandleRFQEventFails, HandleOther, PublishPosted, BrokerFails, LoseDeliveries, vars,
     pipelineVars, tableVars
<1> QED
  BY <1>1, <1>2, <1>3

-----------------------------------------------------------------------------
(* The broker, whoever publishes what. *)

LEMMA AppendAt ==
  ASSUME NEW S, NEW s \in Seq(S), NEW m \in S
  PROVE  /\ Append(s, m) \in Seq(S) /\ DOMAIN s \subseteq Nat
         /\ DOMAIN Append(s, m) = DOMAIN s \cup {Len(s) + 1}
         /\ Append(s, m)[Len(s) + 1] = m
         /\ \A i \in DOMAIN s : i < Len(s) + 1 /\ Append(s, m)[i] = s[i]
OBVIOUS

LEMMA TailAt ==
  ASSUME NEW S, NEW s \in Seq(S), s # << >>
  PROVE  /\ Tail(s) \in Seq(S) /\ Head(s) \in S /\ 1 \in DOMAIN s /\ Head(s) = s[1]
         /\ DOMAIN Tail(s) \subseteq Nat
         /\ \A i \in DOMAIN Tail(s) : i + 1 \in DOMAIN s /\ 1 < i + 1 /\ Tail(s)[i] = s[i + 1]
OBVIOUS

(* A message that comes after all those of t does not disturb the order. *)
LEMMA AppendInOrder ==
  ASSUME NEW S, NEW s \in Seq(S), NEW t \in Seq(S), NEW m \in S, Increasing(s), Among(s, t),
         \A j \in DOMAIN t : Earlier(t[j], m)
  PROVE  Increasing(Append(s, m)) /\ Among(Append(s, m), Append(t, m))
<1>1. \A i \in DOMAIN s : Earlier(s[i], m)
  BY DEF Among
<1>2. Increasing(Append(s, m))
  BY <1>1, AppendAt DEF Increasing
<1>3. Among(Append(s, m), Append(t, m))
  <2>1. /\ \A j \in DOMAIN t : j \in DOMAIN Append(t, m) /\ Append(t, m)[j] = t[j]
        /\ Len(t) + 1 \in DOMAIN Append(t, m) /\ Append(t, m)[Len(t) + 1] = m
    BY AppendAt
  <2>2. \A i \in DOMAIN Append(s, m) :
            (i \in DOMAIN s /\ Append(s, m)[i] = s[i]) \/ Append(s, m)[i] = m
    BY AppendAt
  <2> QED
    BY <2>1, <2>2 DEF Among
<1> QED
  BY <1>2, <1>3

LEMMA AppendPrecedes ==
  ASSUME NEW S, NEW s \in Seq(S), NEW t \in Seq(S), NEW u \in Seq(S), NEW m \in S,
         Precedes(u, s), Among(u, t),
         \A j \in DOMAIN t : Earlier(t[j], m)
  PROVE  Precedes(u, Append(s, m)) /\ Among(u, Append(t, m))
<1>1. \A i \in DOMAIN u : Earlier(u[i], m)
  BY DEF Among
<1>2. Precedes(u, Append(s, m))
  BY <1>1, AppendAt DEF Precedes
<1>3. \A j \in DOMAIN t : j \in DOMAIN Append(t, m) /\ Append(t, m)[j] = t[j]
  BY AppendAt
<1> QED
  BY <1>2, <1>3 DEF Among

LEMMA TailInOrder ==
  ASSUME NEW S, NEW s \in Seq(S), NEW t \in Seq(S), NEW u \in Seq(S), s # << >>
  PROVE  /\ Tail(s) \in Seq(S)
         /\ Increasing(s) => Increasing(Tail(s))
         /\ Among(s, t) => Among(Tail(s), t)
         /\ Precedes(s, u) => Precedes(Tail(s), u)
         /\ Precedes(u, s) => Precedes(u, Tail(s))
<1>1. /\ Tail(s) \in Seq(S) /\ DOMAIN Tail(s) \subseteq Nat
      /\ \A i \in DOMAIN Tail(s) : i + 1 \in DOMAIN s /\ Tail(s)[i] = s[i + 1]
  BY TailAt
<1>2. Increasing(s) => Increasing(Tail(s))
  BY <1>1 DEF Increasing
<1>3. Among(s, t) => Among(Tail(s), t)
  BY <1>1 DEF Among
<1> QED
  BY <1>1, <1>2, <1>3 DEF Precedes

(* Moving the head of s to the end of u keeps u before s. *)
LEMMA HeadMoves ==
  ASSUME NEW S, NEW s \in Seq(S), NEW t \in Seq(S), NEW u \in Seq(S), s # << >>,
         Increasing(s), Increasing(u), Precedes(u, s), Among(s, t), Among(u, t)
  PROVE  /\ Append(u, Head(s)) \in Seq(S)
         /\ Increasing(Append(u, Head(s))) /\ Among(Append(u, Head(s)), t)
         /\ Precedes(Append(u, Head(s)), Tail(s))
<1> DEFINE m == Head(s)
<1>1. /\ 1 \in DOMAIN s /\ m = s[1] /\ m \in S
      /\ \A i \in DOMAIN Tail(s) : i + 1 \in DOMAIN s /\ 1 < i + 1 /\ Tail(s)[i] = s[i + 1]
  BY TailAt
<1> HIDE DEF m
<1>2. /\ Append(u, m) \in Seq(S) /\ DOMAIN u \subseteq Nat
      /\ DOMAIN Append(u, m) = DOMAIN u \cup {Len(u) + 1} /\ Append(u, m)[Len(u) + 1] = m
      /\ \A i \in DOMAIN u : i < Len(u) + 1 /\ Append(u, m)[i] = u[i]
  BY <1>1, AppendAt
<1>3. Increasing(Append(u, m))
  BY <1>1, <1>2 DEF Increasing, Precedes
<1>4. Among(Append(u, m), t)
  BY <1>1, <1>2 DEF Among
<1>5. Precedes(Append(u, m), Tail(s))
  BY <1>1, <1>2 DEF Increasing, Precedes
<1> QED
  BY <1>2, <1>3, <1>4, <1>5 DEF m

LEMMA AcceptKeepsOrder ==
  ASSUME BrokerInv, NEW p \in Processes, NEW q \in Queues, NEW m \in Messages, Accept(p, q, m),
         \A j \in DOMAIN published[q] : Earlier(published[q][j], m)
  PROVE  BrokerInv'
<1> USE DEF BrokerInv, BrokerTypeOK, Accept
<1>2. Increasing(Append(published[q], m))
  BY AppendInOrder DEF InOrder, Among
<1>3. /\ Increasing(Append(queue[q], m))
      /\ Among(Append(queue[q], m), Append(published[q], m))
  BY AppendInOrder DEF InOrder
<1>4. Precedes(inbox[q], Append(queue[q], m)) /\ Among(inbox[q], Append(published[q], m))
  BY AppendPrecedes DEF InOrder
<1>5. InOrder(q)'
  BY <1>2, <1>3, <1>4 DEF InOrder
<1>6. \A r \in Queues \ {q} : InOrder(r)'
  BY DEF InOrder
<1> QED
  BY <1>5, <1>6

LEMMA DeliverKeepsOrder ==
  ASSUME BrokerInv, NEW q \in Queues, Deliver(q)
  PROVE  BrokerInv'
<1> USE DEF BrokerInv, BrokerTypeOK, Deliver
<1>1. /\ Tail(queue[q]) \in Seq(Messages)
      /\ Increasing(Tail(queue[q])) /\ Among(Tail(queue[q]), published[q])
  BY TailInOrder DEF InOrder
<1>2. /\ Append(inbox[q], Head(queue[q])) \in Seq(Messages)
      /\ Increasing(Append(inbox[q], Head(queue[q])))
      /\ Among(Append(inbox[q], Head(queue[q])), published[q])
      /\ Precedes(Append(inbox[q], Head(queue[q])), Tail(queue[q]))
  BY HeadMoves DEF InOrder
<1>3. InOrder(q)'
  BY <1>1, <1>2 DEF InOrder
<1>4. \A r \in Queues \ {q} : InOrder(r)'
  BY DEF InOrder
<1> QED
  BY <1>1, <1>2, <1>3, <1>4

LEMMA TakeKeepsOrder ==
  ASSUME BrokerInv, NEW q \in Queues, Take(q)
  PROVE  BrokerInv'
<1> USE DEF BrokerInv, BrokerTypeOK, Take
<1>1. /\ Tail(inbox[q]) \in Seq(Messages)
      /\ Increasing(Tail(inbox[q])) /\ Among(Tail(inbox[q]), published[q])
      /\ Precedes(Tail(inbox[q]), queue[q])
  BY TailInOrder DEF InOrder
<1>2. \A r \in Queues : InOrder(r)'
  BY <1>1 DEF InOrder
<1> QED
  BY <1>1, <1>2

(* Nothing is published or moved; some sequences may be lost. *)
Loss ==
    /\ published' = published /\ channelOpen' \in [Processes -> BOOLEAN]
    /\ queue' \in [Queues -> Seq(Messages)] /\ inbox' \in [Queues -> Seq(Messages)]
    /\ \A q \in Queues : queue'[q] \in {queue[q], << >>} /\ inbox'[q] \in {inbox[q], << >>}

LEMMA LossKeepsOrder ==
  ASSUME BrokerInv, Loss
  PROVE  BrokerInv'
<1> USE DEF BrokerInv, BrokerTypeOK, Loss
<1>1. ASSUME NEW q \in Queues PROVE InOrder(q)'
  <2>1. InOrder(q) /\ published' = published
    OBVIOUS
  <2>2. queue'[q] \in {queue[q], << >>} /\ inbox'[q] \in {inbox[q], << >>}
    OBVIOUS
  <2>3. Increasing(published[q])' /\ Increasing(queue[q])' /\ Increasing(inbox[q])'
    BY <2>1, <2>2 DEF InOrder, Increasing
  <2>4. Among(queue[q], published[q])' /\ Among(inbox[q], published[q])'
    BY <2>1, <2>2 DEF InOrder, Among
  <2>5. Precedes(inbox[q], queue[q])'
    BY <2>1, <2>2 DEF InOrder, Precedes
  <2> QED
    BY <2>3, <2>4, <2>5 DEF InOrder
<1> QED
  BY <1>1

(* What a step of the system does at the broker. *)
PublishesLog(n) == NextLog(n) /\ Accept(Consumer, QueueOf[chain[n]], FromChain(n))
PublishesPosted(r) ==
    r \in saved /\ saved' = saved \ {r} /\ Accept(Api, "rfq.events", FromApi(r))

LEMMA BrokerActions ==
  ASSUME BrokerTypeOK, [Next]_vars
  PROVE  \/ Loss
         \/ \E n \in pending : PublishesLog(n)
         \/ \E r \in 1 .. MaxRequests : PublishesPosted(r)
         \/ \E q \in Queues : Deliver(q) \/ Take(q)
<1> USE DEF BrokerTypeOK, PublishesLog, PublishesPosted
<1>1. CASE UNCHANGED brokerVars
  BY <1>1 DEF brokerVars, Loss
<1>2. CASE MonitorStep
  BY <1>1, <1>2 DEF MonitorStep, PassStep, PollBlocks, FilterLogs, FilterLogsFails, PublishLog,
     PublishLogFails, FilterNextContract, FinishBlocks
<1>3. CASE Consume
  BY <1>3 DEF Consume, HandleRFQEvent, HandleRFQEventFails, HandleOther, Queues
<1>4. CASE \E r \in 1 .. MaxRequests : PublishPosted(r)
  BY <1>1, <1>4 DEF PublishPosted
<1>5. CASE CrashWorker
  <2>1. /\ published' = published /\ queue' = queue /\ inbox' = [q \in Queues |-> << >>]
        /\ channelOpen' = [channelOpen EXCEPT ![Consumer] = FALSE]
    BY <1>5 DEF CrashWorker, DropConnection
  <2>2. inbox' \in [Queues -> Seq(Messages)] /\ \A q \in Queues : inbox'[q] = << >>
    BY <2>1
  <2>3. channelOpen' \in [Processes -> BOOLEAN]
    BY <2>1
  <2> QED
    BY <2>1, <2>2, <2>3 DEF Loss
<1>6. CASE StartWorker
  BY <1>6 DEF StartWorker, NewQueue, Loss
<1>7. CASE BrokerFails
  <2>1. CASE \E p \in Processes : CloseChannel(p)
    BY <2>1 DEF CloseChannel, Loss
  <2>2. CASE RestartBroker
    BY <2>2 DEF RestartBroker, Loss
  <2> QED
    BY <1>7, <2>1, <2>2 DEF BrokerFails
<1>8. CASE LoseDeliveries
  BY <1>8 DEF LoseDeliveries, DropDeliveries, Loss
<1>9. CASE Mine \/ PostRFQ \/ UNCHANGED vars
  BY <1>1, <1>9 DEF Mine, PostRFQ, vars
<1> QED
  BY <1>2, <1>3, <1>4, <1>5, <1>6, <1>7, <1>8, <1>9 DEF Next

-----------------------------------------------------------------------------
(* What the monitor publishes. *)

LEMMA ChainKept ==
  ASSUME MonitorInv, [Next]_vars
  PROVE  /\ chain \in Seq(Types) /\ chain' \in Seq(Types) /\ DOMAIN chain \subseteq Nat
         /\ \A n \in DOMAIN chain : n \in DOMAIN chain' /\ chain'[n] = chain[n]
<1> USE DEF MonitorInv, MonitorTypeOK
<1>1. CASE Mine
  BY <1>1 DEF Mine
<1>2. CASE chain' = chain
  BY <1>2
<1>3. chain' = chain \/ Mine
  BY OthersKeepPass DEF Next, MonitorStep, PassStep, PollBlocks, FilterLogs, FilterLogsFails, PublishLog,
     PublishLogFails, NextLog, FilterNextContract, FinishBlocks, CrashWorker, StartWorker, vars,
     monitorVars
<1> QED
  BY <1>1, <1>2, <1>3

LEMMA QueueOfBlock ==
  ASSUME MonitorInv, NEW n \in DOMAIN chain
  PROVE  /\ QueueOf[chain[n]] \in Queues /\ n \in Nat /\ FromChain(n) \in Messages
         /\ \A m \in DOMAIN chain :
                QueueOf[chain[m]] = QueueOf[chain[n]] => ContractOf(m) = ContractOf(n)
<1> USE MonitorAssumption DEF MonitorInv, MonitorTypeOK, PassOK
<1>1. chain[n] \in Types /\ n \in 1 .. MaxBlocks
  OBVIOUS
<1>2. FromChain(n) \in Messages
  BY <1>1 DEF FromChain
<1>3. \A t \in DOMAIN QueueOf :
          /\ QueueOf[t] \in Queues
          /\ t \in RFQTypes <=> QueueOf[t] \in {"rfq.events", "rfq.quotes"}
  BY DEF QueueOf, Queues, RFQTypes
<1>4. \A m \in DOMAIN chain : chain[m] \in DOMAIN QueueOf
  OBVIOUS
<1> QED
  BY <1>1, <1>2, <1>3, <1>4 DEF ContractOf

LEMMA BehindKept ==
  ASSUME MonitorInv, [Next]_vars, NEW n \in DOMAIN chain, Behind(n)
  PROVE  Behind(n)'
<1> USE DEF MonitorInv, MonitorTypeOK, PassOK, Behind, Passed
<1>1. n \in Nat /\ n <= Len(chain) /\ n \in DOMAIN chain' /\ chain'[n] = chain[n]
  BY ChainKept
<1>2. ContractOf(n)' = ContractOf(n) /\ ContractOf(n) \in {"rfq", "auction"}
  BY <1>1 DEF ContractOf
<1>3. CASE Mine
  BY <1>2, <1>3 DEF Mine, passVars
<1>4. CASE PollBlocks
  BY <1>4 DEF PollBlocks
<1>5. CASE FilterLogs \/ FilterLogsFails
  BY <1>2, <1>5 DEF FilterLogs, FilterLogsFails, LogsOf
<1>6. CASE PublishLog \/ PublishLogFails
  BY <1>2, <1>6 DEF PublishLog, PublishLogFails, NextLog
<1>7. CASE FilterNextContract
  BY <1>2, <1>7 DEF FilterNextContract
<1>8. CASE FinishBlocks
  BY <1>1, <1>8 DEF FinishBlocks
<1>9. CASE CrashWorker
  BY <1>9 DEF CrashWorker
<1>10. CASE StartWorker
  BY <1>1, <1>10 DEF StartWorker
<1>11. CASE Consume \/ PostRFQ \/ (\E r \in 1 .. MaxRequests : PublishPosted(r))
              \/ BrokerFails \/ LoseDeliveries
  BY <1>2, <1>11, OthersKeepPass DEF passVars
<1>12. CASE UNCHANGED vars
  BY <1>2, <1>12 DEF vars, monitorVars, passVars
<1> QED
  BY <1>3, <1>4, <1>5, <1>6, <1>7, <1>8, <1>9, <1>10, <1>11, <1>12 DEF Next, MonitorStep, PassStep

(* What is behind the monitor is before everything it is going to publish  *)
(* on the same queue, also after the next logs are fetched.                *)
LEMMA PendingAhead ==
  ASSUME MonitorInv, [Next]_vars, NEW m \in DOMAIN chain, Behind(m),
         \A n \in pending : QueueOf[chain[n]] = QueueOf[chain[m]] => m < n
  PROVE  \A n \in pending' : QueueOf[chain'[n]] = QueueOf[chain[m]] => m < n
<1> USE DEF MonitorInv, MonitorTypeOK, PassOK
<1>1. CASE FilterLogs
  <2> SUFFICES ASSUME NEW n \in LogsOf(contract), QueueOf[chain[n]] = QueueOf[chain[m]] PROVE m < n
    BY <1>1 DEF FilterLogs
  <2>1. n \in DOMAIN chain /\ m \in Nat /\ lastBlock < n /\ ContractOf(n) = contract
    BY ChainKept DEF LogsOf, ContractOf
  <2>2. ContractOf(m) = contract
    BY <2>1, QueueOfBlock
  <2>3. m <= lastBlock
    BY <1>1, <2>2 DEF Behind, Passed, FilterLogs
  <2> QED
    BY <2>1, <2>3
<1>2. CASE pending' \subseteq pending
  BY <1>2, ChainKept
<1>3. FilterLogs \/ pending' \subseteq pending
  BY OthersKeepPass DEF Next, MonitorStep, PassStep, Mine, PollBlocks, FilterLogsFails, PublishLog,
     PublishLogFails, NextLog, FilterNextContract, FinishBlocks, CrashWorker, StartWorker, vars,
     monitorVars, passVars
<1> QED
  BY <1>1, <1>2, <1>3

(* One message of the history, before and after a step. *)
PublishedOK(q, m) ==
    /\ ToldBy(m, q)
    /\ m.from = "chain" => /\ Behind(m.id)
                           /\ \A n \in pending : QueueOf[chain[n]] = q => m.id < n

LEMMA PublishInvOf ==
  ASSUME NEW q \in Queues
  PROVE  PublishInv => \A i \in DOMAIN published[q] : PublishedOK(q, published[q][i])
BY DEF PublishInv, PublishedOK, FromMonitor

LEMMA PublishedKept ==
  ASSUME MonitorInv, CountInv, [Next]_vars, NEW q, NEW m, PublishedOK(q, m)
  PROVE  PublishedOK(q, m)'
<1>1. CASE m.from = "chain" /\ m.id \in DOMAIN chain /\ m = FromChain(m.id)
           /\ QueueOf[chain[m.id]] = q
  <2>1. Behind(m.id)'
    BY <1>1, BehindKept DEF PublishedOK
  <2>2. \A n \in pending' : QueueOf[chain'[n]] = q => m.id < n
    BY <1>1, PendingAhead DEF PublishedOK
  <2>3. ToldBy(m, q)'
    BY <1>1, ChainKept DEF ToldBy, FromChain
  <2> QED
    BY <2>1, <2>2, <2>3 DEF PublishedOK
<1>2. CASE m.from = "api" /\ m.id \in 1 .. requests /\ m.id \notin saved
  BY <1>2, CountStepInv DEF PublishedOK, ToldBy
<1> QED
  BY <1>1, <1>2 DEF PublishedOK, ToldBy

(* The message that is published is itself behind the monitor then, and    *)
(* before the rest of the pass.                                            *)
LEMMA PublishedNow ==
  ASSUME MonitorInv, [Next]_vars, NEW n \in pending, NextLog(n)
  PROVE  PublishedOK(QueueOf[chain[n]], FromChain(n))'
<1> USE DEF MonitorInv, MonitorTypeOK, PassOK
<1>1. /\ n \in DOMAIN chain /\ n <= toBlock /\ ContractOf(n) = contract
      /\ pending' = pending \ {n} /\ step' = "publish" /\ step = "publish"
      /\ UNCHANGED <<chain, contract, toBlock>> /\ \A k \in pending : n <= k
  BY DEF NextLog
<1>2. Behind(n)'
  BY <1>1 DEF Behind, Passed, ContractOf
<1>3. \A k \in pending' : n < k
  BY <1>1, ChainKept
<1> QED
  BY <1>1, <1>2, <1>3 DEF PublishedOK, ToldBy, FromChain

LEMMA CountsUp ==
  ASSUME CountInv, [Next]_vars
  PROVE  \A r \in 1 .. requests : r \in 1 .. requests'
<1>1. requests' = requests \/ requests' = requests + 1
  BY DEF Next, Mine, MonitorStep, PassStep, CrashWorker, StartWorker, Consume, HandleRFQEvent,
     HandleRFQEventFails, HandleOther, PostRFQ, PublishPosted, BrokerFails, LoseDeliveries, vars,
     pipelineVars, tableVars
<1> QED
  BY <1>1 DEF CountInv

LEMMA PublishStepInv ==
  MonitorInv /\ CountInv /\ BrokerTypeOK /\ PublishInv /\ [Next]_vars => PublishInv'
<1> SUFFICES ASSUME MonitorInv, CountInv, BrokerTypeOK, PublishInv, [Next]_vars,
                    NEW q \in Queues, NEW i \in DOMAIN published'[q]
             PROVE  PublishedOK(q, published[q][i])'
  BY DEF PublishInv, PublishedOK, FromMonitor
<1>1. ASSUME i \in DOMAIN published[q], published'[q][i] = published[q][i]
      PROVE  PublishedOK(q, published[q][i])'
  BY <1>1, PublishInvOf, PublishedKept
<1>2. ASSUME NEW p, NEW r \in Queues, NEW m \in Messages, Accept(p, r, m), PublishedOK(r, m)'
      PROVE  PublishedOK(q, published[q][i])'
  <2>1. CASE q = r
    <3>1. published'[q] = Append(published[q], m)
      BY <1>2, <2>1 DEF Accept, BrokerTypeOK
    <3>2. \/ i \in DOMAIN published[q] /\ published'[q][i] = published[q][i]
          \/ published'[q][i] = m
      BY <3>1, AppendAt DEF BrokerTypeOK
    <3> QED
      BY <1>1, <1>2, <2>1, <3>2
  <2>2. CASE q # r
    BY <1>1, <1>2, <2>2 DEF Accept, BrokerTypeOK
  <2> QED
    BY <2>1, <2>2
<1>3. CASE Loss \/ (\E r \in Queues : Deliver(r) \/ Take(r))
  BY <1>1, <1>3 DEF Loss, Deliver, Take
<1>4. ASSUME NEW n \in pending, PublishesLog(n) PROVE PublishedOK(q, published[q][i])'
  <2> USE <1>4 DEF PublishesLog
  <2>1. n \in DOMAIN chain
    BY DEF MonitorInv, MonitorTypeOK
  <2>2. PublishedOK(QueueOf[chain[n]], FromChain(n))'
    BY PublishedNow
  <2>3. chain' = chain
    BY DEF NextLog
  <2> QED
    BY <1>2, <2>1, <2>2, <2>3, QueueOfBlock DEF FromChain, PublishedOK
<1>5. ASSUME NEW r \in 1 .. MaxRequests, PublishesPosted(r)
      PROVE  PublishedOK(q, published[q][i])'
  <2>1. r \in (1 .. requests') \ saved' /\ FromApi(r) \in Messages
    BY <1>5, PipelineAssumption, CountsUp DEF PublishesPosted, CountInv
  <2>2. FromApi(r).from = "api" /\ FromApi(r).id = r
    BY DEF FromApi
  <2>3. PICK m : m = FromApi(r)
    OBVIOUS
  <2>4. PublishedOK("rfq.events", m)' /\ Accept(Api, "rfq.events", m)
    BY <1>5, <2>1, <2>2, <2>3 DEF PublishedOK, ToldBy, PublishesPosted
  <2> QED
    BY <1>2, <2>1, <2>3, <2>4 DEF Queues
<1> QED
  BY <1>3, <1>4, <1>5, BrokerActions

LEMMA BrokerStepInv ==
  MonitorInv /\ BrokerInv /\ PublishInv /\ [Next]_vars => BrokerInv'
<1> SUFFICES ASSUME MonitorInv, BrokerInv, PublishInv, [Next]_vars PROVE BrokerInv'
  OBVIOUS
<1> USE BrokerAssumption, PipelineAssumption
<1>1. ASSUME NEW n \in pending, PublishesLog(n) PROVE BrokerInv'
  <2> DEFINE q == QueueOf[chain[n]]
  <2>1. n \in DOMAIN chain /\ q \in Queues /\ FromChain(n) \in Messages /\ FromChain(n).id = n
    BY QueueOfBlock DEF MonitorInv, MonitorTypeOK, FromChain
  <2>2. \A j \in DOMAIN published[q] : Earlier(published[q][j], FromChain(n))
    BY <2>1 DEF PublishInv, FromMonitor, FromChain, Earlier
  <2> QED
    BY <1>1, <2>1, <2>2, AcceptKeepsOrder DEF PublishesLog
<1>2. ASSUME NEW r \in 1 .. MaxRequests, PublishesPosted(r) PROVE BrokerInv'
  <2> DEFINE q == "rfq.events"
  <2>1. FromApi(r) \in Messages /\ FromApi(r).from = "api" /\ FromApi(r).id = r /\ q \in Queues
    BY DEF FromApi, Queues
  <2>2. \A j \in DOMAIN published[q] : Earlier(published[q][j], FromApi(r))
    BY <1>2, <2>1 DEF PublishInv, ToldBy, Earlier, PublishesPosted
  <2> QED
    BY <1>2, <2>1, <2>2, AcceptKeepsOrder DEF PublishesPosted
<1> QED
  BY <1>1, <1>2, DeliverKeepsOrder, TakeKeepsOrder, LossKeepsOrder, BrokerActions DEF BrokerInv

(* What was published stays published. *)
LEMMA PublishedStays ==
  ASSUME MonitorInv, BrokerTypeOK, [Next]_vars, NEW n \in DOMAIN chain, IsPublished(n)
  PROVE  IsPublished(n)'
<1> DEFINE q == QueueOf[chain[n]]
<1>1. q \in Queues /\ chain'[n] = chain[n]
  BY QueueOfBlock, ChainKept
<1>2. PICK j \in DOMAIN published[q] : published[q][j] = FromChain(n)
  BY DEF IsPublished
<1>3. j \in DOMAIN published'[q] /\ published'[q][j] = published[q][j]
  <2>1. \A new \in Messages : /\ j \in DOMAIN Append(published[q], new)
                              /\ Append(published[q], new)[j] = published[q][j]
    BY <1>1, <1>2, AppendAt DEF BrokerTypeOK
  <2>2. ASSUME NEW p, NEW r \in Queues, NEW new \in Messages, Accept(p, r, new)
        PROVE  j \in DOMAIN published'[q] /\ published'[q][j] = published[q][j]
    BY <1>1, <1>2, <2>1, <2>2 DEF Accept, BrokerTypeOK
  <2>3. ASSUME NEW k \in pending, PublishesLog(k)
        PROVE  j \in DOMAIN published'[q] /\ published'[q][j] = published[q][j]
    <3>1. QueueOf[chain[k]] \in Queues /\ FromChain(k) \in Messages
      BY QueueOfBlock DEF MonitorInv, MonitorTypeOK
    <3> QED
      BY <2>2, <2>3, <3>1 DEF PublishesLog
  <2>4. \A r \in 1 .. MaxRequests : FromApi(r) \in Messages /\ "rfq.events" \in Queues
    BY PipelineAssumption DEF Queues
  <2> QED
    BY <1>2, <2>2, <2>3, <2>4, BrokerActions DEF Loss, Deliver, Take, PublishesPosted
<1>4. FromChain(n)' = FromChain(n)
  BY <1>1 DEF FromChain
<1> QED
  BY <1>1, <1>2, <1>3, <1>4 DEF IsPublished

-----------------------------------------------------------------------------
(* The rows. *)

LEMMA FlightGrows ==
  ASSUME MonitorInv, BrokerTypeOK, [Next]_vars, NEW q \in Queues, NEW m \in InFlight(q)'
  PROVE  \/ m \in InFlight(q)
         \/ \E r \in 1 .. MaxRequests : r \in saved /\ m = FromApi(r)
         \/ \E n \in pending : NextLog(n) /\ QueueOf[chain[n]] = q /\ m = FromChain(n)
<1> USE DEF BrokerTypeOK
<1>1. ASSUME NEW p, NEW r \in Queues, NEW new \in Messages, Accept(p, r, new)
      PROVE  m \in InFlight(q) \/ (r = q /\ m = new)
  <2>1. inbox' = inbox /\ queue' = [queue EXCEPT ![r] = Append(queue[r], new)]
    BY <1>1 DEF Accept
  <2>2. CASE r = q
    <3>1. queue'[q] = Append(queue[q], new)
      BY <2>1, <2>2
    <3>2. \A i \in DOMAIN queue'[q] :
              (i \in DOMAIN queue[q] /\ queue'[q][i] = queue[q][i]) \/ queue'[q][i] = new
      BY <3>1, AppendAt
    <3> QED
      BY <2>1, <2>2, <3>2 DEF InFlight
  <2>3. CASE r # q
    BY <2>1, <2>3 DEF InFlight
  <2> QED
    BY <2>2, <2>3
<1>2. ASSUME NEW r \in Queues, Deliver(r) PROVE m \in InFlight(q)
  <2>1. CASE r = q
    <3>1. queue[q] # << >> /\ queue'[q] = Tail(queue[q])
          /\ inbox'[q] = Append(inbox[q], Head(queue[q]))
      BY <1>2, <2>1 DEF Deliver
    <3>2. /\ 1 \in DOMAIN queue[q] /\ Head(queue[q]) = queue[q][1] /\ Head(queue[q]) \in Messages
          /\ \A i \in DOMAIN queue'[q] : i + 1 \in DOMAIN queue[q] /\ queue'[q][i] = queue[q][i + 1]
      BY <3>1, TailAt
    <3>3. \A i \in DOMAIN inbox'[q] : \/ i \in DOMAIN inbox[q] /\ inbox'[q][i] = inbox[q][i]
                                     \/ inbox'[q][i] = queue[q][1]
      BY <3>1, <3>2, AppendAt
    <3> QED
      BY <3>2, <3>3 DEF InFlight
  <2>2. CASE r # q
    BY <1>2, <2>2 DEF Deliver, InFlight
  <2> QED
    BY <2>1, <2>2
<1>3. ASSUME NEW r \in Queues, Take(r) PROVE m \in InFlight(q)
  <2>1. CASE r = q
    <3>1. queue'[q] = queue[q] /\ inbox[q] # << >> /\ inbox'[q] = Tail(inbox[q])
      BY <1>3, <2>1 DEF Take
    <3>2. \A i \in DOMAIN inbox'[q] : i + 1 \in DOMAIN inbox[q] /\ inbox'[q][i] = inbox[q][i + 1]
      BY <3>1, TailAt
    <3> QED
      BY <3>1, <3>2 DEF InFlight
  <2>2. CASE r # q
    BY <1>3, <2>2 DEF Take, InFlight
  <2> QED
    BY <2>1, <2>2
<1>4. CASE Loss
  BY <1>4 DEF InFlight, Loss
<1>5. ASSUME NEW n \in pending, PublishesLog(n)
      PROVE  m \in InFlight(q) \/ (NextLog(n) /\ QueueOf[chain[n]] = q /\ m = FromChain(n))
  <2>1. n \in DOMAIN chain
    BY DEF MonitorInv, MonitorTypeOK
  <2>2. QueueOf[chain[n]] \in Queues /\ FromChain(n) \in Messages
    BY <2>1, QueueOfBlock
  <2> QED
    BY <1>1, <1>5, <2>2 DEF PublishesLog
<1>6. ASSUME NEW r \in 1 .. MaxRequests, PublishesPosted(r)
      PROVE  m \in InFlight(q) \/ (r \in saved /\ m = FromApi(r))
  <2>1. FromApi(r) \in Messages /\ "rfq.events" \in Queues
    BY PipelineAssumption DEF Queues
  <2> QED
    BY <1>1, <1>6, <2>1 DEF PublishesPosted
<1> QED
  BY <1>2, <1>3, <1>4, <1>5, <1>6, BrokerActions

LEMMA RowKept ==
  ASSUME MonitorInv, CountInv, BrokerTypeOK, PublishInv, [Next]_vars, NEW row, RowOK(row)
  PROVE  RowOK(row)'
<1> DEFINE q == "rfq.events"
           n == row.event
<1>0. ToldIn(row).from = row.from /\ ToldIn(row).id = n
  BY DEF ToldIn
<1>1. CASE row.from = "chain"
  <2>1. /\ n \in DOMAIN chain /\ chain[n] = "rfq_created" /\ QueueOf[chain[n]] = q /\ q \in Queues
        /\ n \in DOMAIN chain' /\ chain'[n] = chain[n]
    BY <1>1, ChainKept DEF RowOK, QueueOf, Queues
  <2>2. IsPublished(n)'
    BY <1>1, <2>1, PublishedStays DEF RowOK
  <2>3. PICK j \in DOMAIN published[q] : published[q][j] = FromChain(n)
    BY <1>1, <2>1 DEF RowOK, IsPublished
  <2>4. ASSUME NEW m \in InFlight(q)' PROVE Earlier(ToldIn(row), m)
    <3>1. CASE m \in InFlight(q)
      BY <3>1 DEF RowOK
    <3>2. ASSUME NEW k \in pending, NextLog(k), QueueOf[chain[k]] = q, m = FromChain(k)
          PROVE  Earlier(ToldIn(row), m)
      BY <1>0, <1>1, <2>1, <2>3, <3>2 DEF PublishInv, FromMonitor, FromChain, Earlier
    <3>3. ASSUME NEW r \in 1 .. MaxRequests, m = FromApi(r)
          PROVE  Earlier(ToldIn(row), m)
      BY <1>0, <1>1, <3>3 DEF FromApi, Earlier
    <3> QED
      BY <2>1, <3>1, <3>2, <3>3, FlightGrows
  <2> QED
    BY <1>1, <2>1, <2>2, <2>4 DEF RowOK
<1>2. CASE row.from = "post"
  <2>1. n \in 1 .. requests'
    BY <1>2, CountsUp DEF RowOK, CountInv
  <2>2. ASSUME NEW m PROVE Earlier(ToldIn(row), m)
    BY <1>0, <1>2 DEF Earlier
  <2> QED
    BY <1>2, <2>1, <2>2 DEF RowOK
<1>3. CASE row.from = "api"
  <2>1. n \in (1 .. requests) \ saved /\ n \in (1 .. requests') \ saved'
    BY <1>3, CountStepInv DEF RowOK
  <2>2. ASSUME NEW m \in InFlight(q)' PROVE Earlier(ToldIn(row), m)
    <3>1. CASE m \in InFlight(q)
      BY <3>1 DEF RowOK
    <3>2. ASSUME NEW k \in pending, m = FromChain(k)
          PROVE  Earlier(ToldIn(row), m)
      BY <1>0, <1>3, <3>2 DEF FromChain, Earlier
    <3>3. ASSUME NEW r \in 1 .. MaxRequests, r \in saved, m = FromApi(r)
          PROVE  Earlier(ToldIn(row), m)
      BY <1>0, <1>3, <2>1, <3>3 DEF FromApi, Earlier
    <3>4. q \in Queues
      BY DEF Queues
    <3> QED
      BY <3>1, <3>2, <3>3, <3>4, FlightGrows
  <2> QED
    BY <1>3, <2>1, <2>2 DEF RowOK
<1> QED
  BY <1>1, <1>2, <1>3 DEF RowOK

(* The row that the worker inserts comes after the rows before it. *)
Follows(row) ==
    \A i \in DOMAIN rows : rows[i].from = row.from =>
        /\ rows[i].event # row.event
        /\ row.from = "chain" => rows[i].event < row.event

LEMMA RowInserted ==
  ASSUME BrokerInv, PublishInv, CountInv, RowsInv, MonitorInv, [Next]_vars,
         requests' = requests, saved' = saved,
         Take("rfq.events"), NEW m, m = Head(inbox["rfq.events"]), m.type = "rfq_created",
         NEW row, row = RowOf(m)
  PROVE  /\ row \in Row /\ RowOK(row)' /\ Follows(row)
         /\ row.from # "post"
         /\ row.from = "api" => row.event \in 1 .. requests
<1> DEFINE q == "rfq.events"
<1>0. row.from = m.from /\ row.event = m.id /\ ToldIn(row).from = m.from /\ ToldIn(row).id = m.id
  BY DEF RowOf, ToldIn
<1>1. /\ q \in Queues /\ 1 \in DOMAIN inbox[q] /\ m = inbox[q][1] /\ m \in InFlight(q)
      /\ DOMAIN inbox[q] \subseteq Nat
  BY TailAt DEF BrokerInv, BrokerTypeOK, Queues, InFlight, Take
<1>2. PICK j \in DOMAIN published[q] : published[q][j] = m
  BY <1>1 DEF BrokerInv, InOrder, Among
<1>3. ToldBy(m, q)
  BY <1>1, <1>2 DEF PublishInv
<1>4. row \in Row
  BY <1>3, ChainKept DEF ToldBy, RowOf, Row, CountInv
<1>5. Follows(row)
  <2>1. \A i \in DOMAIN rows : Earlier(ToldIn(rows[i]), m)
    BY <1>1 DEF RowsInv, RowOK
  <2>2. \A i \in DOMAIN rows : ToldIn(rows[i]).from = rows[i].from /\ ToldIn(rows[i]).id = rows[i].event
    BY DEF ToldIn
  <2>3. m.from \in {"chain", "api"} /\ m.id \in Nat
    BY <1>3, ChainKept DEF ToldBy, CountInv
  <2>4. \A i \in DOMAIN rows : rows[i].event \in Nat
    <3>1. \A i \in DOMAIN rows : rows[i] \in Row
      BY DEF RowsInv
    <3> QED
      BY <3>1 DEF Row
  <2> QED
    BY <1>0, <2>1, <2>2, <2>3, <2>4 DEF Earlier, Follows
<1>6. ASSUME NEW w \in InFlight(q)' PROVE Earlier(ToldIn(row), w)
  <2>1. queue'[q] = queue[q] /\ inbox'[q] = Tail(inbox[q])
    BY <1>1 DEF Take, BrokerInv, BrokerTypeOK
  <2>2. \A i \in DOMAIN inbox'[q] :
           i + 1 \in DOMAIN inbox[q] /\ 1 < i + 1 /\ inbox'[q][i] = inbox[q][i + 1]
    BY <1>1, <2>1, TailAt DEF BrokerInv, BrokerTypeOK, Take
  <2>3. Increasing(inbox[q]) /\ Precedes(inbox[q], queue[q])
    BY <1>1 DEF BrokerInv, InOrder
  <2>4. Earlier(m, w)
    BY <1>1, <1>6, <2>1, <2>2, <2>3 DEF InFlight, Increasing, Precedes
  <2> QED
    BY <1>0, <2>4 DEF Earlier
<1>7. CASE m.from = "chain"
  <2>1. m.id \in DOMAIN chain /\ m = FromChain(m.id) /\ chain[m.id] = "rfq_created"
    BY <1>3, <1>7 DEF ToldBy, FromChain
  <2>2. m.id \in DOMAIN chain' /\ chain'[m.id] = chain[m.id] /\ published' = published
    BY <2>1, ChainKept DEF Take
  <2>3. IsPublished(m.id)'
    BY <1>2, <2>1, <2>2 DEF IsPublished, FromChain, QueueOf
  <2>4. RowOK(row)'
    BY <1>0, <1>6, <1>7, <2>1, <2>2, <2>3 DEF RowOK
  <2> QED
    BY <1>0, <1>4, <1>5, <1>7, <2>4
<1>8. CASE m.from = "api"
  <2>1. m.id \in 1 .. requests /\ m.id \notin saved
    BY <1>3, <1>8 DEF ToldBy
  <2>2. RowOK(row)'
    BY <1>0, <1>6, <1>8, <2>1 DEF RowOK
  <2> QED
    BY <1>0, <1>4, <1>5, <1>8, <2>1, <2>2
<1> QED
  BY <1>3, <1>7, <1>8 DEF ToldBy

(* Only blocks of the chain are lost on the way. *)
LEMMA LostStep ==
  ASSUME MonitorInv, BrokerInv, PublishInv, [Next]_vars, lost \subseteq DOMAIN chain
  PROVE  lost' \subseteq DOMAIN chain'
<1> DEFINE q == "rfq.events"
<1>1. q \in Queues
  BY DEF Queues
<1>2. ASSUME NEW s, Among(s, published[q]) PROVE BlocksIn(s) \subseteq DOMAIN chain
  BY <1>1, <1>2 DEF BlocksIn, Among, PublishInv, ToldBy
<1>3. /\ BlocksIn(inbox[q]) \subseteq DOMAIN chain /\ BlocksIn(queue[q]) \subseteq DOMAIN chain
      /\ inbox[q] # << >> => BlocksIn(<<Head(inbox[q])>>) \subseteq DOMAIN chain
  <2>1. Among(inbox[q], published[q]) /\ Among(queue[q], published[q])
    BY <1>1 DEF BrokerInv, InOrder
  <2>2. inbox[q] # << >> => Among(<<Head(inbox[q])>>, published[q])
    <3>1. inbox[q] # << >> => 1 \in DOMAIN inbox[q] /\ Head(inbox[q]) = inbox[q][1]
      BY <1>1, TailAt DEF BrokerInv, BrokerTypeOK
    <3>2. PICK m : m = Head(inbox[q])
      OBVIOUS
    <3>3. \A i \in DOMAIN <<m>> : <<m>>[i] = m
      OBVIOUS
    <3> QED
      BY <2>1, <3>1, <3>2, <3>3 DEF Among
  <2> QED
    BY <1>2, <2>1, <2>2
<1>4. \/ lost' = lost
      \/ lost' = lost \cup BlocksIn(inbox[q])
      \/ lost' = lost \cup BlocksIn(queue[q])
      \/ inbox[q] # << >> /\ lost' = lost \cup BlocksIn(<<Head(inbox[q])>>)
  BY DEF Next, Mine, MonitorStep, PassStep, StartWorker, Consume, HandleRFQEvent, Take,
     HandleRFQEventFails, HandleOther, PostRFQ, PublishPosted, BrokerFails, LoseDeliveries, vars,
     pipelineVars
<1>5. DOMAIN chain \subseteq DOMAIN chain'
  BY ChainKept
<1> QED
  BY <1>3, <1>4, <1>5

LEMMA RowsStepInv ==
  MonitorInv /\ CountInv /\ BrokerInv /\ PublishInv /\ RowsInv /\ [Next]_vars => RowsInv'
<1> SUFFICES ASSUME MonitorInv, CountInv, BrokerInv, PublishInv, RowsInv, [Next]_vars
             PROVE  RowsInv'
  OBVIOUS
<1>0. lost' \subseteq DOMAIN chain' /\ DOMAIN rows \subseteq Nat
  BY LostStep DEF RowsInv
<1>1. ASSUME NEW row, RowOK(row) PROVE RowOK(row)'
  BY <1>1, RowKept DEF BrokerInv
<1>2. ASSUME rows' = rows, requests' = requests PROVE RowsInv'
  <2>1. \A i \in DOMAIN rows' : RowOK(rows[i])'
    BY <1>1, <1>2 DEF RowsInv
  <2>2. RowsInOrder'
    BY <1>2, <2>1 DEF RowsInv, RowsInOrder, RowOK
  <2>3. \A r \in 1 .. requests' : \E k \in DOMAIN rows' : PostRow(k, r)'
    BY <1>2 DEF RowsInv, PostRow
  <2> QED
    BY <1>0, <1>2, <2>1, <2>2, <2>3 DEF RowsInv
<1>3. ASSUME NEW row \in Row, RowOK(row)', rows' = Append(rows, row), Follows(row),
             \A r \in 1 .. requests' : \/ r \in 1 .. requests
                                       \/ row.from = "post" /\ row.event = r,
             row.from = "api" => row.event \in 1 .. requests
      PROVE  RowsInv'
  <2>1. /\ rows' \in Seq(Row) /\ DOMAIN rows' = DOMAIN rows \cup {Len(rows) + 1}
        /\ rows'[Len(rows) + 1] = row /\ DOMAIN rows \subseteq Nat /\ Len(rows) \in Nat
        /\ \A i \in DOMAIN rows : i < Len(rows) + 1 /\ 1 <= i /\ rows'[i] = rows[i]
    BY <1>3, AppendAt DEF RowsInv
  <2>2. \A i \in DOMAIN rows' : RowOK(rows[i])'
    <3>1. ASSUME NEW old, NEW i \in DOMAIN rows, old = rows[i] PROVE RowOK(old)'
      BY <1>1, <3>1 DEF RowsInv
    <3>2. ASSUME NEW r, r = row PROVE RowOK(r)'
      BY <1>3, <3>2
    <3> QED
      BY <2>1, <3>1, <3>2 DEF RowOK
  <2>3. \A i, j \in DOMAIN rows' :
           i < j /\ rows'[i].from = rows'[j].from =>
              /\ rows'[i].event # rows'[j].event
              /\ rows'[i].from = "chain" => rows'[i].event < rows'[j].event
    <3> TAKE i, j \in DOMAIN rows'
    <3>1. CASE i \in DOMAIN rows /\ j \in DOMAIN rows
      BY <2>1, <3>1 DEF RowsInv, RowsInOrder
    <3>2. CASE i \in DOMAIN rows /\ j = Len(rows) + 1
      BY <1>3, <2>1, <3>2 DEF Follows
    <3>3. CASE i = Len(rows) + 1
      BY <2>1, <3>3
    <3> QED
      BY <2>1, <3>1, <3>2, <3>3
  <2>4. \A r \in 1 .. requests : \E k \in DOMAIN rows : PostRow(k, r) /\ PostRow(k, r)'
    BY <2>1 DEF RowsInv, PostRow
  <2>5. \A r \in 1 .. requests' : \E k \in DOMAIN rows' : PostRow(k, r)'
    BY <1>3, <2>1, <2>4 DEF PostRow
  <2>6. \A i \in DOMAIN rows' : rows'[i].from = "api" =>
           \E k \in 1 .. i - 1 : rows'[k].from = "post" /\ rows'[k].event = rows'[i].event
    <3> TAKE i \in DOMAIN rows'
    <3>1. CASE i \in DOMAIN rows
      <4>1. rows[i].from = "api" =>
               \E k \in 1 .. i - 1 : rows[k].from = "post" /\ rows[k].event = rows[i].event
        BY <3>1 DEF RowsInv, RowsInOrder
      <4>2. \A k \in 1 .. i - 1 : k \in DOMAIN rows
        BY <2>1, <3>1 DEF RowsInv
      <4> QED
        BY <2>1, <3>1, <4>1, <4>2
    <3>2. CASE i = Len(rows) + 1 /\ row.from = "api"
      <4>1. PICK k \in DOMAIN rows : PostRow(k, row.event)'
        BY <1>3, <2>4, <3>2
      <4>2. k \in 1 .. i - 1
        BY <2>1, <3>2
      <4> QED
        BY <2>1, <3>2, <4>1, <4>2 DEF PostRow
    <3> QED
      BY <2>1, <3>1, <3>2
  <2>7. RowsInOrder'
    BY <2>2, <2>3, <2>6 DEF RowsInOrder, RowOK
  <2> QED
    BY <1>0, <2>1, <2>2, <2>5, <2>7 DEF RowsInv
<1>4. CASE HandleRFQEvent
  <2>1. requests' = requests /\ saved' = saved /\ Take("rfq.events")
    BY <1>4 DEF HandleRFQEvent
  <2>2. PICK m : m = Head(inbox["rfq.events"])
    OBVIOUS
  <2>3. PICK row : row = RowOf(m)
    OBVIOUS
  <2>4. rows' = IF m.type = "rfq_created" THEN Append(rows, row) ELSE rows
    BY <1>4, <2>2, <2>3 DEF HandleRFQEvent
  <2> QED
    BY <1>2, <1>3, <2>1, <2>2, <2>3, <2>4, RowInserted
<1>5. CASE PostRFQ
  <2>1. requests' = requests + 1 /\ requests \in Nat
    BY <1>5 DEF PostRFQ, CountInv
  <2>2. PICK row : row = [from |-> "post", event |-> requests', id |-> 0, borrower |-> "known"]
    OBVIOUS
  <2>3. /\ row \in Row /\ row.from = "post" /\ row.event = requests'
        /\ rows' = Append(rows, row)
    BY <1>5, <2>1, <2>2 DEF PostRFQ, Row
  <2>4. RowOK(row)'
    <3>1. ASSUME NEW m PROVE Earlier(ToldIn(row), m)
      BY <2>3 DEF ToldIn, Earlier
    <3>2. row.event \in 1 .. requests'
      BY <2>1, <2>3
    <3> QED
      BY <2>3, <3>1, <3>2 DEF RowOK
  <2>5. Follows(row)
    BY <2>1, <2>3 DEF Follows, RowsInv, RowOK
  <2> QED
    BY <1>3, <2>1, <2>3, <2>4, <2>5
<1>6. HandleRFQEvent \/ PostRFQ \/ (rows' = rows /\ requests' = requests)
  BY DEF Next, Mine, MonitorStep, PassStep, CrashWorker, StartWorker, Consume,
     HandleRFQEventFails, HandleOther, PublishPosted, BrokerFails, LoseDeliveries, vars,
     pipelineVars, tableVars
<1> QED
  BY <1>2, <1>4, <1>5, <1>6

-----------------------------------------------------------------------------
(* What the monitor leaves out. *)

(* The monitor passes a block by publishing its event or missing it. *)
LEMMA PassedGrows ==
  ASSUME MonitorInv, [Next]_vars, NEW n \in DOMAIN chain', Passed(n)'
  PROVE  /\ n \in DOMAIN chain
         /\ Passed(n) \/ n \in missed' \/ (n \in pending /\ PublishesLog(n))
<1> USE DEF MonitorInv, MonitorTypeOK, PassOK, Passed
<1>1. /\ n \in Nat /\ 0 < n /\ DOMAIN chain = 1 .. Len(chain)
      /\ n \in DOMAIN chain => /\ ContractOf(n)' = ContractOf(n)
                               /\ ContractOf(n) \in {"rfq", "auction"}
  BY ChainKept DEF ContractOf
<1>2. CASE Mine
  <2>1. n \in DOMAIN chain \/ n = Len(chain) + 1
    BY <1>1, <1>2 DEF Mine
  <2> QED
    BY <1>1, <1>2, <2>1 DEF Mine, passVars
<1>3. CASE PollBlocks
  BY <1>3 DEF PollBlocks
<1>4. CASE FilterLogs
  BY <1>1, <1>4 DEF FilterLogs, LogsOf, ContractOf
<1>5. CASE FilterLogsFails
  BY <1>1, <1>5 DEF FilterLogsFails, LogsOf, ContractOf
<1>6. CASE PublishLog \/ PublishLogFails
  <2>1. PICK k \in pending : NextLog(k) /\ (PublishesLog(k) \/ missed' = missed \cup {k})
    BY <1>6 DEF PublishLog, PublishLogFails, PublishesLog
  <2>2. chain' = chain /\ UNCHANGED <<up, step, contract, toBlock, lastBlock>> /\ pending' = pending \ {k}
    BY <2>1 DEF NextLog
  <2> QED
    BY <1>1, <2>1, <2>2
<1>7. CASE FilterNextContract
  BY <1>1, <1>7 DEF FilterNextContract
<1>8. CASE FinishBlocks
  BY <1>1, <1>8 DEF FinishBlocks
<1>9. CASE CrashWorker
  BY <1>1, <1>9 DEF CrashWorker
<1>10. CASE StartWorker
  BY <1>1, <1>10 DEF StartWorker, passVars
<1>11. CASE UNCHANGED <<chain, up, passVars, lastBlock>>
  BY <1>1, <1>11 DEF passVars
<1> QED
  BY <1>2, <1>3, <1>4, <1>5, <1>6, <1>7, <1>8, <1>9, <1>10, <1>11, OthersKeepPass
     DEF Next, MonitorStep, PassStep, vars, monitorVars

LEMMA SkipStepInv ==
  MonitorInv /\ BrokerTypeOK /\ SkipInv /\ [Next]_vars => SkipInv'
<1> SUFFICES ASSUME MonitorInv, BrokerTypeOK, SkipInv, [Next]_vars,
                    NEW n \in DOMAIN chain', Passed(n)'
             PROVE  IsPublished(n)' \/ n \in missed'
  BY DEF SkipInv
<1>1. missed \subseteq missed'
  BY OthersKeepPass DEF Next, MonitorStep, PassStep, Mine, PollBlocks, FilterLogs, FilterLogsFails,
     PublishLog, PublishLogFails, FilterNextContract, FinishBlocks, CrashWorker, StartWorker, vars,
     monitorVars
<1>2. n \in DOMAIN chain /\ (Passed(n) \/ n \in missed' \/ (n \in pending /\ PublishesLog(n)))
  BY PassedGrows
<1>3. CASE Passed(n)
  BY <1>1, <1>2, <1>3, PublishedStays DEF SkipInv
<1>4. CASE PublishesLog(n)
  <2> DEFINE q == QueueOf[chain[n]]
  <2>1. q \in Queues /\ FromChain(n) \in Messages /\ published[q] \in Seq(Messages)
    BY <1>2, QueueOfBlock DEF BrokerTypeOK
  <2>2. published'[q] = Append(published[q], FromChain(n)) /\ chain' = chain
    BY <1>4, <2>1 DEF PublishesLog, Accept, NextLog, BrokerTypeOK
  <2>3. \E i \in DOMAIN published'[q] : published'[q][i] = FromChain(n)
    BY <2>1, <2>2, AppendAt
  <2> QED
    BY <2>2, <2>3 DEF IsPublished, FromChain
<1> QED
  BY <1>2, <1>3, <1>4

-----------------------------------------------------------------------------

(***************************************************************************)
(* The invariant holds always.                                             *)
(***************************************************************************)
LEMMA PipelineAlwaysInv == Spec => []PipelineInv
<1>1. Init => PipelineInv
  <2> SUFFICES ASSUME Init PROVE PipelineInv
    OBVIOUS
  <2> USE BrokerAssumption, MonitorAssumption DEF Init, BrokerInit, MonitorInit
  <2>1. MonitorInv
    BY DEF MonitorInv, MonitorTypeOK, PassOK
  <2>2. BrokerInv
    BY DEF BrokerInv, BrokerTypeOK, InOrder, Increasing, Among, Precedes
  <2>3. PublishInv
    BY DEF PublishInv, FromMonitor
  <2>4. RowsInv /\ CountInv
    BY DEF RowsInv, RowsInOrder, CountInv
  <2>5. SkipInv
    BY DEF SkipInv
  <2> QED
    BY <2>1, <2>2, <2>3, <2>4, <2>5 DEF PipelineInv
<1>2. PipelineInv /\ [Next]_vars => PipelineInv'
  BY MonitorStepInv, CountStepInv, BrokerStepInv, PublishStepInv, RowsStepInv, SkipStepInv
     DEF PipelineInv, BrokerInv
<1> QED
  BY <1>1, <1>2, PTL DEF Spec

(***************************************************************************)
(* The state of broker, monitor and table is well formed: in particular a  *)
(* pass stays within the chain, and rows are made of known messages only.  *)
(***************************************************************************)
THEOREM PipelineTypeCorrect == Spec => []PipelineTypeOK
<1>1. PipelineInv => PipelineTypeOK
  BY DEF PipelineInv, MonitorInv, CountInv, BrokerInv, RowsInv, PipelineTypeOK
<1> QED
  BY PipelineAlwaysInv, <1>1, PTL

(***************************************************************************)
(* monitor.go publishes no event twice, and none out of order within its   *)
(* queue, whatever fails and wherever the worker is restarted.             *)
(***************************************************************************)
THEOREM PipelinePublishedInOrder == Spec => []PublishedInOrder
<1>1. PipelineInv => PublishedInOrder
  BY DEF PipelineInv, BrokerInv, InOrder, Increasing, Earlier, FromMonitor, PublishedInOrder
<1> QED
  BY PipelineAlwaysInv, <1>1, PTL

(***************************************************************************)
(* Every event up to lastBlock of the monitor is published, but those of a *)
(* pass whose FilterLogs failed for their contract, those whose own        *)
(* Publish failed, and those of blocks that a dying worker left behind or  *)
(* that were mined before the next one started.                            *)
(***************************************************************************)
THEOREM PipelineNothingSkipped == Spec => []NothingSkipped
<1>1. PipelineInv => NothingSkipped
  BY DEF PipelineInv, MonitorInv, MonitorTypeOK, SkipInv, Passed, NothingSkipped
<1> QED
  BY PipelineAlwaysInv, <1>1, PTL

(***************************************************************************)
(* The rows that the worker inserts are those of RFQs created on the       *)
(* chain, each at most once and in the order of the chain, and for each    *)
(* posted RFQ at most one after the row of the API service, although queue *)
(* and consumer may lose messages; the table has no other rows.            *)
(***************************************************************************)
THEOREM PipelineRowsInOrder == Spec => []RowsInOrder
<1>1. PipelineInv => RowsInOrder
  BY DEF PipelineInv, RowsInv
<1> QED
  BY PipelineAlwaysInv, <1>1, PTL
=============================================================================
