-------------------------------- MODULE WsHub --------------------------------
(***************************************************************************)
(* The WebSocket hub of internal/websocket, as the orchestrator runs it:    *)
(* Hub.Run with its three channels and its ticker, ServeWs, and a client's  *)
(* two pumps.  Each is a goroutine.  One action is one case of the hub's    *)
(* select, or one channel or socket operation of a client's goroutine.  A    *)
(* fan-out is one action: its sends never wait, each touches one client's   *)
(* buffer, and what other goroutines do to different buffers meanwhile       *)
(* commutes with it.                                                        *)
(***************************************************************************)
EXTENDS Naturals, Sequences

CONSTANTS
    Clients,        \* connections; a browser that comes back is a new one
    BroadcastCap,   \* capacity of Hub.broadcast (256 in the code)
    SendCap,        \* capacity of Client.send (256 in the code)
    MaxMessages     \* bound: events emitted; welcomes and heartbeats are not counted

ASSUME WsHubAssumption ==
    /\ BroadcastCap \in Nat \ {0} /\ SendCap \in Nat \ {0} /\ MaxMessages \in Nat

(* Events are numbered as they are emitted; welcomes and heartbeats are alike. *)
Notice == 0
Messages == 0 .. MaxMessages

VARIABLES
    emitted,    \* events emitted so far
    broadcast,  \* Hub.broadcast
    clients,    \* Hub.clients
    handler,    \* ServeWs of each client
    reader, writer,     \* its pumps
    send,       \* Client.send
    closed,     \* clients whose send is closed
    held,       \* the message a writer took and has not written
    evict,      \* clients a goroutine of a fan-out waits to unregister
    open,       \* connections this side has not closed
    here,       \* connections whose peer is there
    crashed,    \* the hub's goroutine panicked, and with it the process
    owed,       \* history: the welcome of a client, and what was fanned out to it until its
                \* eviction was asked for, that its peer, while there, has yet to receive
    missed      \* history: clients whose buffer was full before their welcome was in it

hubVars == <<broadcast, clients>>
pumpVars == <<handler, reader, writer, held>>
connVars == <<open, here>>
history == <<owed, missed>>
vars == <<emitted, broadcast, clients, handler, reader, writer, send,
          closed, held, evict, open, here, crashed, owed, missed>>

(* Closed on this side, or the peer is gone, or stalls for longer than the    *)
(* deadlines of reads and writes allow.                                     *)
Broken(c) == c \notin open \/ c \notin here

Init ==
    /\ emitted = 0 /\ broadcast = <<>> /\ clients = {}
    /\ handler = [c \in Clients |-> "none"]
    /\ reader = [c \in Clients |-> "none"] /\ writer = [c \in Clients |-> "none"]
    /\ send = [c \in Clients |-> <<>>] /\ held = [c \in Clients |-> <<>>]
    /\ closed = {} /\ evict = {} /\ open = {} /\ here = {}
    /\ crashed = FALSE
    /\ owed = [c \in Clients |-> <<>>] /\ missed = {}

-----------------------------------------------------------------------------
(* Broadcast never waits: a message that finds the channel full is dropped.   *)
Offered(m) == IF Len(broadcast) < BroadcastCap THEN Append(broadcast, m) ELSE broadcast

(* The Emit* methods of a charge, and POST /internal/events.                 *)
Emit ==
    /\ emitted < MaxMessages
    /\ emitted' = emitted + 1
    /\ broadcast' = Offered(emitted + 1)
    /\ UNCHANGED <<clients, send, closed, evict, crashed, pumpVars, connVars, history>>

(* ServeWs: upgrade, hand the client to the hub, queue the welcome, start the *)
(* pumps.  The last two wait for nobody but the client's own buffer; a send   *)
(* to a buffer the hub has closed panics, which net/http recovers.          *)
Upgrade(c) ==
    /\ handler[c] = "none"
    /\ handler' = [handler EXCEPT ![c] = "registering"]
    /\ open' = open \cup {c} /\ here' = here \cup {c}
    /\ UNCHANGED <<emitted, reader, writer, held, send, closed, evict, crashed, hubVars, history>>

Welcome(c) ==
    /\ handler[c] = "welcoming" /\ c \notin closed /\ Len(send[c]) < SendCap
    /\ send' = [send EXCEPT ![c] = Append(@, Notice)]
    /\ owed' = IF Broken(c) THEN owed ELSE [owed EXCEPT ![c] = Append(@, Notice)]
    /\ handler' = [handler EXCEPT ![c] = "serving"]
    /\ reader' = [reader EXCEPT ![c] = "reading"]
    /\ writer' = [writer EXCEPT ![c] = "idle"]
    /\ UNCHANGED <<emitted, held, closed, evict, crashed, missed, hubVars, connVars>>

WelcomePanics(c) ==
    /\ handler[c] = "welcoming" /\ c \in closed
    /\ handler' = [handler EXCEPT ![c] = "panicked"]
    /\ UNCHANGED <<emitted, reader, writer, held, send, closed, evict, crashed,
                   hubVars, connVars, history>>

-----------------------------------------------------------------------------
(* Hub.Run.                                                                 *)
Register(c) ==
    /\ ~crashed /\ handler[c] = "registering"
    /\ clients' = clients \cup {c}
    /\ handler' = [handler EXCEPT ![c] = "welcoming"]
    /\ UNCHANGED <<emitted, broadcast, reader, writer, held, send, closed,
                   evict, crashed, connVars, history>>

Registered_Always(c) == TRUE
Registered(c) == c \in clients

Without_ClosesOnly(c) == clients
Without(c) == clients \ {c}

(* What nobody will read any more.                                          *)
Discarded(c) == [send EXCEPT ![c] = <<>>]

(* What a rendezvous on unregister does; closing a closed channel panics.    *)
Drop(c) ==
    /\ ~crashed
    /\ clients' = IF Registered(c) THEN Without(c) ELSE clients
    /\ closed' = IF Registered(c) THEN closed \cup {c} ELSE closed
    /\ crashed' = (Registered(c) /\ c \in closed)
    /\ owed' = [owed EXCEPT ![c] = <<>>]
    /\ send' = IF writer[c] \in {"idle", "writing"} THEN send ELSE Discarded(c)

(* A client's reader leaves, and then closes the connection.                 *)
Unregister(c) ==
    /\ reader[c] = "leaving" /\ Drop(c)
    /\ reader' = [reader EXCEPT ![c] = "done"]
    /\ open' = open \ {c}
    /\ UNCHANGED <<emitted, broadcast, handler, writer, held, evict,
                   here, missed>>

(* A goroutine started by a fan-out asks for it.  If several wait for one    *)
(* client, the first decides and the others find nothing to do.             *)
Evict(c) ==
    /\ c \in evict /\ Drop(c)
    /\ evict' = evict \ {c}
    /\ UNCHANGED <<emitted, broadcast, pumpVars, connVars, missed>>

Marked_Nobody(full) == {}
Marked(full) == full

FanOut ==
    LET m == Head(broadcast)
        full == {c \in clients : Len(send[c]) >= SendCap}
    IN  /\ ~crashed /\ broadcast # <<>>
        /\ broadcast' = Tail(broadcast)
        /\ send' = [c \in Clients |->
                      IF c \in clients \ full THEN Append(send[c], m) ELSE send[c]]
        /\ owed' = [c \in Clients |->
                      IF c \in clients \ evict /\ ~Broken(c) THEN Append(owed[c], m) ELSE owed[c]]
        /\ evict' = evict \cup Marked(full)
        /\ missed' = missed \cup {c \in full : handler[c] = "welcoming"}
        /\ crashed' = (clients \cap closed # {})
        /\ UNCHANGED <<emitted, clients, closed, pumpVars, connVars>>

(* sendHeartbeat goes through Broadcast, and may find the channel full.      *)
Beats_Never == FALSE
Beats == clients # {}

Heartbeat ==
    /\ ~crashed /\ Beats
    /\ broadcast' = Offered(Notice)
    /\ UNCHANGED <<emitted, clients, send, closed, evict, crashed,
                   pumpVars, connVars, history>>

-----------------------------------------------------------------------------
(* WritePump: one message, then whatever else is queued, in one frame.       *)
WriterTake(c) ==
    /\ writer[c] = "idle" /\ send[c] # <<>>
    /\ held' = [held EXCEPT ![c] = <<Head(send[c])>>]
    /\ send' = [send EXCEPT ![c] = Tail(@)]
    /\ writer' = [writer EXCEPT ![c] = "writing"]
    /\ UNCHANGED <<emitted, handler, reader, closed, evict, crashed, hubVars, connVars, history>>

(* What a client's peer has yet to receive.                                  *)
Unwritten(c) == held[c] \o send[c]

(* What is written after the peer went away is lost in the socket.           *)
WriterFlush(c) ==
    /\ writer[c] = "writing" /\ c \in open
    /\ owed' = [owed EXCEPT ![c] = SubSeq(@, Len(Unwritten(c)) + 1, Len(@))]
    /\ send' = [send EXCEPT ![c] = <<>>] /\ held' = [held EXCEPT ![c] = <<>>]
    /\ writer' = [writer EXCEPT ![c] = "idle"]
    /\ UNCHANGED <<emitted, handler, reader, closed, evict, crashed, missed, hubVars, connVars>>

WriterStops(c) ==
    /\ writer' = [writer EXCEPT ![c] = "done"]
    /\ held' = [held EXCEPT ![c] = <<>>]
    /\ send' = IF c \in closed THEN Discarded(c) ELSE send
    /\ open' = open \ {c}
    /\ owed' = [owed EXCEPT ![c] = <<>>]
    /\ UNCHANGED <<emitted, handler, reader, closed, evict, here, crashed, missed, hubVars>>

WriterSeesClose(c) ==
    /\ writer[c] = "idle" /\ c \in closed /\ send[c] = <<>>
    /\ WriterStops(c)

(* A frame or a ping that cannot be written within writeWait.                *)
WriteFails(c) == writer[c] \in {"idle", "writing"} /\ Broken(c) /\ WriterStops(c)

(* ReadPump: any error of the connection, at the latest when no pong has      *)
(* come for pongWait, ends it.                                              *)
AfterRead_Returns == "done"
AfterRead == "leaving"

ReadFails(c) ==
    /\ reader[c] = "reading" /\ Broken(c)
    /\ reader' = [reader EXCEPT ![c] = AfterRead]
    /\ UNCHANGED <<emitted, handler, writer, held, send, closed, evict, crashed,
                   hubVars, connVars, history>>

PeerLeaves(c) ==
    /\ c \in here \cap open
    /\ here' = here \ {c}
    /\ owed' = [owed EXCEPT ![c] = <<>>]
    /\ UNCHANGED <<emitted, send, closed, evict, open, crashed, missed, hubVars, pumpVars>>

-----------------------------------------------------------------------------
Pump(c) ==
    \/ Welcome(c) \/ WelcomePanics(c)
    \/ WriterTake(c) \/ WriterFlush(c) \/ WriterSeesClose(c)

Next ==
    \/ Emit \/ FanOut \/ Heartbeat
    \/ \E c \in Clients :
         \/ Upgrade(c) \/ PeerLeaves(c)
         \/ Register(c) \/ Unregister(c) \/ Evict(c)
         \/ Pump(c) \/ WriteFails(c) \/ ReadFails(c)

Spec == Init /\ [][Next]_vars

(* Whatever case of the hub's select is ready again and again is taken in the *)
(* end: Go chooses among them at random.  A client's goroutines run; a read   *)
(* of a broken connection ends.  Nobody owes an event, a write that fails, or *)
(* a peer that leaves.                                                      *)
Fairness ==
    /\ WF_vars(FanOut) /\ WF_vars(Heartbeat)
    /\ \A c \in Clients :
         /\ WF_vars(Register(c)) /\ WF_vars(Unregister(c)) /\ WF_vars(Evict(c))
         /\ WF_vars(Pump(c)) /\ WF_vars(ReadFails(c))

FairSpec == Spec /\ Fairness

-----------------------------------------------------------------------------
(* Properties.                                                              *)

(* Every variable keeps its type, no buffer exceeds its capacity, and no       *)
(* client is registered after its buffer was closed.                        *)
TypeOK ==
    /\ emitted \in Messages
    /\ broadcast \in Seq(Messages) /\ Len(broadcast) <= BroadcastCap
    /\ clients \subseteq Clients \ closed
    /\ handler \in [Clients -> {"none", "registering", "welcoming", "serving", "panicked"}]
    /\ reader \in [Clients -> {"none", "reading", "leaving", "done"}]
    /\ writer \in [Clients -> {"none", "idle", "writing", "done"}]
    /\ send \in [Clients -> Seq(Messages)] /\ \A c \in Clients : Len(send[c]) <= SendCap
    /\ held \in [Clients -> Seq(Messages)] /\ \A c \in Clients : Len(held[c]) <= 1
    /\ closed \subseteq Clients /\ evict \subseteq Clients
    /\ open \subseteq Clients /\ here \subseteq Clients
    /\ crashed \in BOOLEAN
    /\ owed \in [Clients -> Seq(Messages)]
    /\ missed \subseteq Clients

(* The hub neither sends on a closed channel nor closes one twice, however a  *)
(* client's leaving and its eviction, or several evictions, meet.           *)
HubSurvives == ~crashed

(* A registered client has all that was fanned out since its registration, in  *)
(* order and once: received, being written or queued.  The exceptions are on   *)
(* their way out: a full buffer has asked for its eviction, or the connection  *)
(* is broken.                                                               *)
NoSilentGap ==
    \A c \in clients :
        ~Broken(c) /\ c \notin evict =>
            Unwritten(c) = owed[c]

(* A client that connects is served, unless its buffer overflowed before its  *)
(* welcome was queued: neither the hub nor another client can hold it up.    *)
EveryoneIsServed ==
    \A c \in Clients :
        handler[c] = "registering" ~>
            (handler[c] = "serving" \/ (handler[c] = "panicked" /\ c \in missed))

(* A client whose peer is gone is forgotten for good, even if it went before   *)
(* its pumps ran; when nothing is emitted any more, heartbeats bring that on. *)
DeadClientsLeave ==
    \A c \in Clients : (c \in open /\ c \notin here) ~> [](c \notin clients)
=============================================================================
