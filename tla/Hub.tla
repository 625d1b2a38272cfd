-------------------------------- MODULE Hub --------------------------------
(***************************************************************************)
(* The WebSocket hub (hub.go) and its connections (handlers/websocket.go). *)
(* One goroutine, Run, owns the map of clients.  Each client has a buffer, *)
(* the channel send; a goroutine that writes it to the connection; and one *)
(* that reads the connection until it fails.  register, unregister and     *)
(* broadcast are unbuffered: whoever sends on them waits until Run is back *)
(* in its select.  A message is the number of its broadcast.  Topics are   *)
(* left out: they are stored for each client and read by nothing.          *)
(***************************************************************************)
EXTENDS Naturals, Sequences

CONSTANTS
    Clients,
    BufferSize,     \* capacity of send: 256 in the code
    MaxMessages     \* bound: messages broadcast

ASSUME HubAssumption == BufferSize \in Nat \ {0} /\ MaxMessages \in Nat

VARIABLES
    clients,        \* the map of the hub
    visiting,       \* those a broadcast has still to visit
    broadcasts,     \* messages broadcast so far
    reader,         \* client -> where HandleWebSocket and ReadPump are
    writer,         \* client -> where WritePump is
    send,           \* client -> its buffer
    closed,         \* client -> how often its send was closed
    hand,           \* client -> the message WritePump has taken, if any
    written,        \* client -> messages written to its connection
    connOpen,       \* client -> its connection is not closed
    joined          \* client -> broadcasts before it was registered (history)

hubVars == <<clients, visiting, broadcasts, reader, writer, send, closed, hand,
             written, connOpen, joined>>

HubTypeOK ==
    /\ clients \subseteq Clients
    /\ visiting \subseteq clients
    /\ broadcasts \in Nat
    /\ reader \in [Clients -> {"none", "registering", "registered", "reading",
                               "leaving", "left", "done"}]
    /\ writer \in [Clients -> {"none", "waiting", "writing", "closing", "done"}]
    /\ send \in [Clients -> Seq(Nat)]
    /\ \A c \in Clients : Len(send[c]) <= BufferSize
    /\ closed \in [Clients -> Nat]
    /\ hand \in [Clients -> Seq(Nat)]
    /\ written \in [Clients -> Seq(Nat)]
    /\ connOpen \in [Clients -> BOOLEAN]
    /\ joined \in [Clients -> Nat]

HubInit ==
    /\ clients = {}
    /\ visiting = {}
    /\ broadcasts = 0
    /\ reader = [c \in Clients |-> "none"]
    /\ writer = [c \in Clients |-> "none"]
    /\ send = [c \in Clients |-> << >>]
    /\ closed = [c \in Clients |-> 0]
    /\ hand = [c \in Clients |-> << >>]
    /\ written = [c \in Clients |-> << >>]
    /\ connOpen = [c \in Clients |-> FALSE]
    /\ joined = [c \in Clients |-> 0]

Move(c, from, to) == reader[c] = from /\ reader' = [reader EXCEPT ![c] = to]

-----------------------------------------------------------------------------
(* The handler of a client, which runs ReadPump.                           *)

(* The connection is upgraded, and Register waits for the hub. *)
HandleWebSocket(c) ==
    /\ Move(c, "none", "registering")
    /\ connOpen' = [connOpen EXCEPT ![c] = TRUE]
    /\ UNCHANGED <<clients, visiting, broadcasts, writer, send, closed, hand, written, joined>>

(* Register has returned: go client.WritePump(), then client.ReadPump(). *)
StartPumps(c) ==
    /\ Move(c, "registered", "reading")
    /\ writer' = [writer EXCEPT ![c] = "waiting"]
    /\ UNCHANGED <<clients, visiting, broadcasts, send, closed, hand, written, connOpen, joined>>

(* ReadMessage fails: the peer is gone, or WritePump closed the connection. *)
ReadFails(c) ==
    /\ Move(c, "reading", "leaving")
    /\ UNCHANGED <<clients, visiting, broadcasts, writer, send, closed, hand, written,
                   connOpen, joined>>

(* The hub has taken the unregistration: ReadPump closes the connection. *)
ReaderCloses(c) ==
    /\ Move(c, "left", "done")
    /\ connOpen' = [connOpen EXCEPT ![c] = FALSE]
    /\ UNCHANGED <<clients, visiting, broadcasts, writer, send, closed, hand, written, joined>>

-----------------------------------------------------------------------------
(* WritePump.                                                              *)

TakeMessage(c) ==
    /\ writer[c] = "waiting"
    /\ send[c] # << >>
    /\ hand' = [hand EXCEPT ![c] = <<Head(send[c])>>]
    /\ send' = [send EXCEPT ![c] = Tail(@)]
    /\ writer' = [writer EXCEPT ![c] = "writing"]
    /\ UNCHANGED <<clients, visiting, broadcasts, reader, closed, written, connOpen, joined>>

(* send is closed and drained: the last thing to write is a close message. *)
SeeClosed(c) ==
    /\ writer[c] = "waiting"
    /\ send[c] = << >> /\ closed[c] > 0
    /\ writer' = [writer EXCEPT ![c] = "closing"]
    /\ UNCHANGED <<clients, visiting, broadcasts, reader, send, closed, hand, written,
                   connOpen, joined>>

(* WriteMessage succeeds.  It has no deadline, and need never return. *)
WriteMessage(c) ==
    /\ writer[c] = "writing" /\ connOpen[c]
    /\ written' = [written EXCEPT ![c] = @ \o hand[c]]
    /\ hand' = [hand EXCEPT ![c] = << >>]
    /\ writer' = [writer EXCEPT ![c] = "waiting"]
    /\ UNCHANGED <<clients, visiting, broadcasts, reader, send, closed, connOpen, joined>>

(* WriteMessage fails, or the close message is written or fails: WritePump *)
(* ends and closes the connection.                                         *)
WriterCloses(c) ==
    /\ writer[c] \in {"writing", "closing"}
    /\ writer' = [writer EXCEPT ![c] = "done"]
    /\ connOpen' = [connOpen EXCEPT ![c] = FALSE]
    /\ UNCHANGED <<clients, visiting, broadcasts, reader, send, closed, hand, written, joined>>

-----------------------------------------------------------------------------
(* The goroutine Run.  It is in its select when no broadcast is under way. *)

Selecting == visiting = {}

RegisterClient(c) ==
    /\ Selecting
    /\ Move(c, "registering", "registered")
    /\ clients' = clients \cup {c}
    /\ joined' = [joined EXCEPT ![c] = broadcasts]
    /\ UNCHANGED <<visiting, broadcasts, writer, send, closed, hand, written, connOpen>>

(* MUTANT: closes the channel of a client that was dropped before. *)
UnregisterClientAlways(c) ==
    /\ Selecting
    /\ Move(c, "leaving", "left")
    /\ clients' = clients \ {c}
    /\ closed' = [closed EXCEPT ![c] = @ + 1]
    /\ UNCHANGED <<visiting, broadcasts, writer, send, hand, written, connOpen, joined>>

(* MUTANT: the reader removes its client itself, during a broadcast too. *)
UnregisterClientUnlocked(c) ==
    /\ Move(c, "leaving", "left")
    /\ clients' = clients \ {c}
    /\ closed' = [closed EXCEPT ![c] = IF c \in clients THEN @ + 1 ELSE @]
    /\ UNCHANGED <<visiting, broadcasts, writer, send, hand, written, connOpen, joined>>

UnregisterClient(c) ==
    /\ Selecting
    /\ Move(c, "leaving", "left")
    /\ clients' = clients \ {c}
    /\ closed' = [closed EXCEPT ![c] = IF c \in clients THEN @ + 1 ELSE @]
    /\ UNCHANGED <<visiting, broadcasts, writer, send, hand, written, connOpen, joined>>

(* Some caller of Broadcast is served. *)
TakeBroadcast ==
    /\ Selecting
    /\ broadcasts < MaxMessages
    /\ broadcasts' = broadcasts + 1
    /\ visiting' = clients
    /\ UNCHANGED <<clients, reader, writer, send, closed, hand, written, connOpen, joined>>

(* MUTANT: a message that does not fit is skipped. *)
VisitClientSkips(c) ==
    /\ c \in visiting
    /\ visiting' = visiting \ {c}
    /\ send' = [send EXCEPT ![c] = IF Len(@) < BufferSize THEN Append(@, broadcasts) ELSE @]
    /\ UNCHANGED <<clients, closed, broadcasts, reader, writer, hand, written, connOpen, joined>>

(* MUTANT: a plain send, which waits for room in the buffer. *)
VisitClientWaits(c) ==
    /\ c \in visiting
    /\ Len(send[c]) < BufferSize
    /\ visiting' = visiting \ {c}
    /\ send' = [send EXCEPT ![c] = Append(@, broadcasts)]
    /\ UNCHANGED <<clients, closed, broadcasts, reader, writer, hand, written, connOpen, joined>>

(* MUTANT: drops a client and leaves its channel open. *)
VisitClientForgets(c) ==
    /\ c \in visiting
    /\ visiting' = visiting \ {c}
    /\ \/ /\ Len(send[c]) < BufferSize
          /\ send' = [send EXCEPT ![c] = Append(@, broadcasts)]
          /\ UNCHANGED clients
       \/ /\ Len(send[c]) >= BufferSize
          /\ clients' = clients \ {c}
          /\ UNCHANGED send
    /\ UNCHANGED <<closed, broadcasts, reader, writer, hand, written, connOpen, joined>>

(* The next client in the range over the map, in no particular order: it   *)
(* gets the message or, when its buffer is full, is dropped.               *)
VisitClient(c) ==
    /\ c \in visiting
    /\ visiting' = visiting \ {c}
    /\ \/ /\ Len(send[c]) < BufferSize
          /\ send' = [send EXCEPT ![c] = Append(@, broadcasts)]
          /\ UNCHANGED <<clients, closed>>
       \/ /\ Len(send[c]) >= BufferSize
          /\ closed' = [closed EXCEPT ![c] = @ + 1]
          /\ clients' = clients \ {c}
          /\ UNCHANGED send
    /\ UNCHANGED <<broadcasts, reader, writer, hand, written, connOpen, joined>>

HubNext ==
    \/ TakeBroadcast
    \/ \E c \in Clients :
        \/ HandleWebSocket(c)
        \/ StartPumps(c)
        \/ ReadFails(c)
        \/ ReaderCloses(c)
        \/ TakeMessage(c)
        \/ SeeClosed(c)
        \/ WriteMessage(c)
        \/ WriterCloses(c)
        \/ RegisterClient(c)
        \/ UnregisterClient(c)
        \/ VisitClient(c)

HubSpec == HubInit /\ [][HubNext]_hubVars

(* The goroutines of the process run, and select takes any of the channels *)
(* that are ready at random, so none is passed over for ever.  Reads and   *)
(* writes return once the connection is closed; before, they may wait for  *)
(* the peer as long as it likes.                                           *)
HubFairness ==
    \A c \in Clients :
        /\ WF_hubVars(StartPumps(c))
        /\ WF_hubVars(ReadFails(c) /\ ~connOpen[c])
        /\ WF_hubVars(ReaderCloses(c))
        /\ WF_hubVars(TakeMessage(c))
        /\ WF_hubVars(SeeClosed(c))
        /\ WF_hubVars(WriterCloses(c) /\ ~connOpen[c])
        /\ WF_hubVars(VisitClient(c))
        /\ SF_hubVars(RegisterClient(c))
        /\ SF_hubVars(UnregisterClient(c))

FairHubSpec == HubSpec /\ HubFairness

-----------------------------------------------------------------------------

(***************************************************************************)
(* A client is dropped by a broadcast or unregistered by its reader, and   *)
(* both may happen: its channel is closed once, when it leaves the map,    *)
(* and never while a broadcast may still send on it.  Anything else is a   *)
(* panic that ends the process.                                            *)
(***************************************************************************)
HasJoined(c) == reader[c] \notin {"none", "registering"}

ClosedOnLeaving ==
    \A c \in Clients : closed[c] = IF HasJoined(c) /\ c \notin clients THEN 1 ELSE 0

(***************************************************************************)
(* What a client has been sent is every broadcast since it was registered, *)
(* in order and without a gap, up to now or up to its being dropped: a     *)
(* client that cannot keep up loses its connection, never a message in     *)
(* the middle.                                                             *)
(***************************************************************************)
Feed(c) == written[c] \o hand[c] \o send[c]

NoGap ==
    \A c \in Clients :
        /\ \A i \in DOMAIN Feed(c) : Feed(c)[i] = joined[c] + i
        /\ c \in clients =>
             joined[c] + Len(Feed(c)) + (IF c \in visiting THEN 1 ELSE 0) = broadcasts

(***************************************************************************)
(* Whoever waits for the hub is served, whatever the other clients do: one *)
(* that reads nothing cannot hold it up.                                   *)
(***************************************************************************)
WaitersServed ==
    \A c \in Clients :
        /\ (reader[c] = "registering") ~> (reader[c] = "registered")
        /\ (reader[c] = "leaving") ~> (reader[c] = "left")

(***************************************************************************)
(* What is buffered for an open connection is written, and a client that   *)
(* left the map ends, unless a write to it hangs for ever: writes have no  *)
(* deadline, so nothing else can keep a connection and its goroutines.     *)
(***************************************************************************)
Hangs(c) == writer[c] \in {"writing", "closing"} /\ connOpen[c]

Unfinished(c) ==
    \/ send[c] # << >> /\ connOpen[c]
    \/ HasJoined(c) /\ c \notin clients /\ reader[c] # "done"

EndsUnlessWriteHangs ==
    \A c \in Clients : <>[]Unfinished(c) => <>[]Hangs(c)
=============================================================================
