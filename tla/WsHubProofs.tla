----------------------------- MODULE WsHubProofs -----------------------------
(***************************************************************************)
(* A proof about WsHub: the hub's goroutine survives, for any number of      *)
(* connections and any capacities.                                          *)
(***************************************************************************)
EXTENDS WsHub, SequenceTheorems, TLAPS

(* A client is registered once: before that its channel is open, and once the  *)
(* channel is closed it is registered no more.  So nobody closes it twice.     *)
HandlerOK == handler \in [Clients -> {"none", "registering", "welcoming", "serving", "panicked"}]

Fresh(c) == handler[c] \in {"none", "registering"}

ChannelInv ==
    /\ HandlerOK
    /\ clients \cap closed = {}
    /\ \A c \in Clients : Fresh(c) => c \notin closed
    /\ ~crashed

LEMMA ChannelInvInit == Init => ChannelInv
BY DEF Init, ChannelInv, HandlerOK, Fresh

(* Whoever asks that a client be dropped, it is closed only while registered,  *)
(* and forgotten with it.                                                   *)
LEMMA DropKeepsChannels ==
    ASSUME ChannelInv, NEW c \in Clients, c \in clients => ~Fresh(c), Drop(c), UNCHANGED handler
    PROVE  ChannelInv'
<1>1. CASE c \in clients
  <2>1. clients' = clients \ {c} /\ closed' = closed \cup {c} /\ crashed' = (c \in closed)
    BY <1>1 DEF Drop, Registered, Without
  <2>2. c \notin closed
    BY <1>1 DEF ChannelInv
  <2> QED
    BY <1>1, <2>1, <2>2 DEF ChannelInv, HandlerOK, Fresh
<1>2. CASE c \notin clients
  <2>1. clients' = clients /\ closed' = closed /\ crashed' = FALSE
    BY <1>2 DEF Drop, Registered
  <2> QED
    BY <2>1 DEF ChannelInv, HandlerOK, Fresh
<1> QED
  BY <1>1, <1>2

(* Who is registered has been through registration.                          *)
PastInv == \A c \in clients : c \in Clients /\ ~Fresh(c)

IInv == ChannelInv /\ PastInv

LEMMA IInvStays == IInv /\ [Next]_vars => IInv'
<1> SUFFICES ASSUME IInv, [Next]_vars PROVE IInv'
  OBVIOUS
<1>0. ChannelInv /\ PastInv
  BY DEF IInv
<1>1. CASE Emit \/ FanOut \/ Heartbeat
  <2>1. UNCHANGED <<handler, clients, closed>>
    BY <1>1 DEF Emit, FanOut, Heartbeat, hubVars, pumpVars
  <2>2. ~crashed'
    BY <1>0, <1>1 DEF Emit, FanOut, Heartbeat, ChannelInv
  <2> QED
    BY <1>0, <2>1, <2>2 DEF IInv, ChannelInv, PastInv, HandlerOK, Fresh
<1>2. ASSUME NEW c \in Clients, Unregister(c) \/ Evict(c)
      PROVE  IInv'
  <2>1. Drop(c) /\ UNCHANGED handler
    BY <1>2 DEF Unregister, Evict, pumpVars
  <2>2. ChannelInv'
    BY <1>0, <2>1, DropKeepsChannels DEF PastInv
  <2>3. clients' \subseteq clients
    BY <2>1 DEF Drop, Without
  <2>4. PastInv'
    BY <1>0, <2>1, <2>3 DEF PastInv, Fresh
  <2> QED
    BY <2>2, <2>4 DEF IInv
<1>3. ASSUME NEW c \in Clients, Register(c)
      PROVE  IInv'
  <2>1. /\ handler[c] = "registering" /\ handler' = [handler EXCEPT ![c] = "welcoming"]
        /\ clients' = clients \cup {c} /\ UNCHANGED <<closed, crashed>>
    BY <1>3 DEF Register
  <2>2. c \notin closed
    BY <1>0, <2>1 DEF ChannelInv, Fresh
  <2> QED
    BY <1>0, <2>1, <2>2 DEF IInv, ChannelInv, PastInv, HandlerOK, Fresh
<1>4. ASSUME NEW c \in Clients, Upgrade(c)
      PROVE  IInv'
  <2>1. /\ handler[c] = "none" /\ handler' = [handler EXCEPT ![c] = "registering"]
        /\ UNCHANGED <<clients, closed, crashed>>
    BY <1>4 DEF Upgrade, hubVars
  <2>2. c \notin clients
    BY <1>0, <2>1 DEF PastInv, Fresh
  <2> QED
    BY <1>0, <2>1, <2>2 DEF IInv, ChannelInv, PastInv, HandlerOK, Fresh
<1>5. ASSUME NEW c \in Clients, Welcome(c) \/ WelcomePanics(c)
      PROVE  IInv'
  <2>1. /\ handler[c] = "welcoming" /\ UNCHANGED <<clients, closed, crashed>>
        /\ \E h \in {"serving", "panicked"} : handler' = [handler EXCEPT ![c] = h]
    BY <1>5 DEF Welcome, WelcomePanics, hubVars
  <2> QED
    BY <1>0, <2>1 DEF IInv, ChannelInv, PastInv, HandlerOK, Fresh
<1>6. ASSUME NEW c \in Clients,
             \/ WriterTake(c) \/ WriterFlush(c) \/ WriterSeesClose(c)
             \/ WriteFails(c) \/ ReadFails(c) \/ PeerLeaves(c)
      PROVE  IInv'
  <2>1. UNCHANGED <<handler, clients, closed, crashed>>
    BY <1>6 DEF WriterTake, WriterFlush, WriterSeesClose, WriteFails, WriterStops, ReadFails,
       PeerLeaves, hubVars, pumpVars
  <2> QED
    BY <1>0, <2>1 DEF IInv, ChannelInv, PastInv, HandlerOK, Fresh
<1>7. CASE UNCHANGED vars
  BY <1>0, <1>7 DEF vars, IInv, ChannelInv, PastInv, HandlerOK, Fresh
<1> QED
  BY <1>1, <1>2, <1>3, <1>4, <1>5, <1>6, <1>7 DEF Next, Pump

(* The hub neither sends on a closed channel nor closes one twice, whatever     *)
(* pumps, evictions and fan-outs meet.                                      *)
THEOREM HubNeverPanics == Spec => []HubSurvives
<1>1. Init => IInv
  BY ChannelInvInit DEF IInv, PastInv, Init
<1>2. IInv => HubSurvives
  BY DEF IInv, ChannelInv, HubSurvives
<1> QED
  BY <1>1, <1>2, IInvStays, PTL DEF Spec

LEMMA IInvHolds == Spec => []IInv
<1>1. Init => IInv
  BY ChannelInvInit DEF IInv, PastInv, Init
<1> QED
  BY <1>1, IInvStays, PTL DEF Spec

-----------------------------------------------------------------------------
(* Types and capacities, one part for what each goroutine writes.              *)
HubTypes ==
    /\ emitted \in Messages
    /\ broadcast \in Seq(Messages) /\ Len(broadcast) <= BroadcastCap
    /\ clients \subseteq Clients
    /\ closed \subseteq Clients /\ evict \subseteq Clients
    /\ missed \subseteq Clients /\ crashed \in BOOLEAN

PumpTypes ==
    /\ handler \in [Clients -> {"none", "registering", "welcoming", "serving", "panicked"}]
    /\ reader \in [Clients -> {"none", "reading", "leaving", "done"}]
    /\ writer \in [Clients -> {"none", "idle", "writing", "done"}]
    /\ open \subseteq Clients /\ here \subseteq Clients

Buffer == {s \in Seq(Messages) : Len(s) <= SendCap}
Held == {s \in Seq(Messages) : Len(s) <= 1}

BufferTypes ==
    /\ send \in [Clients -> Buffer] /\ held \in [Clients -> Held]
    /\ owed \in [Clients -> Seq(Messages)]

Types == HubTypes /\ PumpTypes /\ BufferTypes

LEMMA TypesSuffice == ChannelInv /\ Types => TypeOK
<1> SUFFICES ASSUME ChannelInv, Types PROVE TypeOK
  OBVIOUS
<1>1. send \in [Clients -> Seq(Messages)] /\ \A c \in Clients : Len(send[c]) <= SendCap
  BY DEF Types, BufferTypes, Buffer
<1>2. held \in [Clients -> Seq(Messages)] /\ \A c \in Clients : Len(held[c]) <= 1
  BY DEF Types, BufferTypes, Held
<1>3. clients \subseteq Clients \ closed
  BY DEF ChannelInv, Types, HubTypes
<1> QED
  BY <1>1, <1>2, <1>3 DEF Types, HubTypes, PumpTypes, BufferTypes, TypeOK

LEMMA EmptyBuffers == <<>> \in Buffer /\ <<>> \in Held /\ <<>> \in Seq(Messages)
BY WsHubAssumption DEF Buffer, Held

LEMMA OfferedFits ==
    ASSUME HubTypes, NEW m \in Messages
    PROVE  Offered(m) \in Seq(Messages) /\ Len(Offered(m)) <= BroadcastCap
<1>1. CASE Len(broadcast) < BroadcastCap
  <2>1. Append(broadcast, m) \in Seq(Messages) /\ Len(Append(broadcast, m)) = Len(broadcast) + 1
    BY DEF HubTypes
  <2>2. Len(broadcast) \in Nat /\ BroadcastCap \in Nat
    BY WsHubAssumption DEF HubTypes
  <2> QED
    BY <1>1, <2>1, <2>2 DEF Offered
<1>2. CASE ~(Len(broadcast) < BroadcastCap)
  BY <1>2 DEF Offered, HubTypes
<1> QED
  BY <1>1, <1>2

LEMMA AppendFits ==
    ASSUME NEW s \in Buffer, NEW m \in Messages, Len(s) < SendCap
    PROVE  Append(s, m) \in Buffer
<1>1. Append(s, m) \in Seq(Messages) /\ Len(Append(s, m)) = Len(s) + 1 /\ Len(s) \in Nat
  BY DEF Buffer
<1> QED
  BY <1>1, WsHubAssumption DEF Buffer

LEMMA NoticeIsMessage == Notice \in Messages
BY WsHubAssumption DEF Notice, Messages

LEMMA TypesStay == IInv /\ Types /\ [Next]_vars => Types'
<1> SUFFICES ASSUME IInv, Types, [Next]_vars PROVE Types'
  OBVIOUS
<1>0. HubTypes /\ PumpTypes /\ BufferTypes
      /\ <<>> \in Buffer /\ <<>> \in Held /\ <<>> \in Seq(Messages)
  BY EmptyBuffers DEF Types
<1> USE DEF hubVars, pumpVars, connVars, history
<1>1. CASE Emit
  <2>1. emitted + 1 \in Messages
    BY <1>0, <1>1, WsHubAssumption DEF Emit, HubTypes, Messages
  <2>2. HubTypes'
    BY <1>0, <1>1, <2>1, OfferedFits DEF Emit, HubTypes
  <2> QED
    BY <1>0, <1>1, <2>2 DEF Emit, PumpTypes, BufferTypes, Types
<1>2. CASE Heartbeat
  <2>1. HubTypes'
    BY <1>0, <1>2, OfferedFits, NoticeIsMessage DEF Heartbeat, HubTypes
  <2> QED
    BY <1>0, <1>2, <2>1 DEF Heartbeat, PumpTypes, BufferTypes, Types
<1>3. CASE FanOut
  <2>1. Head(broadcast) \in Messages /\ Tail(broadcast) \in Seq(Messages)
        /\ Len(Tail(broadcast)) <= BroadcastCap
    <3>1. broadcast \in Seq(Messages) /\ broadcast # <<>> /\ Len(broadcast) <= BroadcastCap
      BY <1>0, <1>3 DEF FanOut, HubTypes
    <3>2. Len(Tail(broadcast)) = Len(broadcast) - 1 /\ Len(broadcast) \in Nat
      BY <3>1
    <3> QED
      BY <3>1, <3>2, WsHubAssumption
  <2>2. HubTypes'
    BY <1>0, <1>3, <2>1 DEF FanOut, HubTypes, Marked
  <2>3. send' \in [Clients -> Buffer]
    <3> SUFFICES ASSUME NEW c \in Clients
                 PROVE  (IF c \in clients \ {x \in clients : Len(send[x]) >= SendCap}
                         THEN Append(send[c], Head(broadcast)) ELSE send[c]) \in Buffer
      BY <1>3 DEF FanOut
    <3>1. send[c] \in Buffer /\ Len(send[c]) \in Nat
      BY <1>0 DEF BufferTypes, Buffer
    <3> QED
      BY <2>1, <3>1, AppendFits, WsHubAssumption
  <2>4. owed' \in [Clients -> Seq(Messages)]
    BY <1>0, <1>3, <2>1 DEF FanOut, BufferTypes
  <2> QED
    BY <1>0, <1>3, <2>2, <2>3, <2>4 DEF FanOut, PumpTypes, BufferTypes, Types
<1>4. ASSUME NEW c \in Clients, Unregister(c) \/ Evict(c)
      PROVE  Types'
  <2>1. Drop(c) /\ UNCHANGED <<emitted, broadcast, missed, handler, writer, held, here>>
    BY <1>4 DEF Unregister, Evict
  <2>2. HubTypes'
    <3>1. evict' \subseteq Clients
      BY <1>0, <1>4 DEF Unregister, Evict, HubTypes
    <3> QED
      BY <1>0, <2>1, <3>1 DEF Drop, Without, HubTypes
  <2>3. PumpTypes'
    BY <1>0, <1>4 DEF Unregister, Evict, PumpTypes
  <2>4. BufferTypes'
    BY <1>0, <2>1 DEF Drop, Discarded, BufferTypes
  <2> QED
    BY <2>2, <2>3, <2>4 DEF Types
<1>5. ASSUME NEW c \in Clients, Welcome(c)
      PROVE  Types'
  <2>1. Append(send[c], Notice) \in Buffer /\ Append(owed[c], Notice) \in Seq(Messages)
    BY <1>0, <1>5, AppendFits, NoticeIsMessage DEF Welcome, BufferTypes
  <2>2. BufferTypes'
    BY <1>0, <1>5, <2>1 DEF Welcome, BufferTypes
  <2> QED
    BY <1>0, <1>5, <2>2 DEF Welcome, HubTypes, PumpTypes, Types
<1>6. ASSUME NEW c \in Clients,
             Upgrade(c) \/ WelcomePanics(c) \/ Register(c) \/ ReadFails(c) \/ PeerLeaves(c)
      PROVE  Types'
  <2>1. HubTypes'
    BY <1>0, <1>6 DEF Upgrade, WelcomePanics, Register, ReadFails, PeerLeaves, HubTypes
  <2>2. PumpTypes'
    BY <1>0, <1>6 DEF Upgrade, WelcomePanics, Register, ReadFails, PeerLeaves, PumpTypes, AfterRead
  <2>3. BufferTypes'
    BY <1>0, <1>6 DEF Upgrade, WelcomePanics, Register, ReadFails, PeerLeaves, BufferTypes
  <2> QED
    BY <2>1, <2>2, <2>3 DEF Types
<1>7. ASSUME NEW c \in Clients, WriterTake(c)
      PROVE  Types'
  <2>1. Tail(send[c]) \in Buffer /\ <<Head(send[c])>> \in Held
    <3>1. send[c] \in Seq(Messages) /\ send[c] # <<>> /\ Len(send[c]) <= SendCap
      BY <1>0, <1>7 DEF WriterTake, BufferTypes, Buffer
    <3>2. /\ Tail(send[c]) \in Seq(Messages) /\ Len(Tail(send[c])) = Len(send[c]) - 1
          /\ Len(send[c]) \in Nat /\ Head(send[c]) \in Messages
      BY <3>1
    <3>3. <<Head(send[c])>> \in Seq(Messages) /\ Len(<<Head(send[c])>>) = 1
      BY <3>2
    <3> QED
      BY <3>1, <3>2, <3>3, WsHubAssumption DEF Buffer, Held
  <2>2. BufferTypes'
    BY <1>0, <1>7, <2>1 DEF WriterTake, BufferTypes
  <2> QED
    BY <1>0, <1>7, <2>2 DEF WriterTake, HubTypes, PumpTypes, Types
<1>8. ASSUME NEW c \in Clients, WriterFlush(c)
      PROVE  Types'
  <2>1. SubSeq(owed[c], Len(Unwritten(c)) + 1, Len(owed[c])) \in Seq(Messages)
    <3>1. held[c] \in Seq(Messages) /\ send[c] \in Seq(Messages) /\ owed[c] \in Seq(Messages)
      BY <1>0 DEF BufferTypes, Buffer, Held
    <3>2. Len(Unwritten(c)) \in Nat /\ Len(owed[c]) \in Nat
      BY <3>1, ConcatProperties, LenProperties DEF Unwritten
    <3>3. \A i \in Len(Unwritten(c)) + 1 .. Len(owed[c]) : owed[c][i] \in Messages
      BY <3>1, <3>2
    <3> QED
      BY <3>2, <3>3, SubSeqProperties
  <2>2. BufferTypes'
    BY <1>0, <1>8, <2>1 DEF WriterFlush, BufferTypes
  <2> QED
    BY <1>0, <1>8, <2>2 DEF WriterFlush, HubTypes, PumpTypes, Types
<1>9. ASSUME NEW c \in Clients, WriterSeesClose(c) \/ WriteFails(c)
      PROVE  Types'
  <2>1. WriterStops(c)
    BY <1>9 DEF WriterSeesClose, WriteFails
  <2>2. BufferTypes'
    BY <1>0, <2>1 DEF WriterStops, Discarded, BufferTypes
  <2> QED
    BY <1>0, <2>1, <2>2 DEF WriterStops, HubTypes, PumpTypes, Types
<1>10. CASE UNCHANGED vars
  BY <1>0, <1>10 DEF vars, HubTypes, PumpTypes, BufferTypes, Types
<1> QED
  BY <1>1, <1>2, <1>3, <1>4, <1>5, <1>6, <1>7, <1>8, <1>9, <1>10 DEF Next, Pump

LEMMA TypesHold == Spec => []Types
<1>1. Init => Types
  <2> SUFFICES ASSUME Init PROVE Types
    OBVIOUS
  <2>1. HubTypes
    <3>1. emitted \in Messages
      BY WsHubAssumption DEF Init, Messages
    <3>2. broadcast \in Seq(Messages) /\ Len(broadcast) <= BroadcastCap
      BY EmptyBuffers, WsHubAssumption DEF Init
    <3> QED
      BY <3>1, <3>2 DEF Init, HubTypes
  <2>2. BufferTypes
    BY EmptyBuffers DEF Init, BufferTypes
  <2> QED
    BY <2>1, <2>2 DEF Init, PumpTypes, Types
<1> QED
  BY <1>1, IInvHolds, TypesStay, PTL DEF Spec

(* Every variable keeps its type, no channel holds more than its capacity, and  *)
(* no client is registered after its channel was closed.                     *)
THEOREM TypeCorrect == Spec => []TypeOK
<1>1. IInv /\ Types => TypeOK
  BY TypesSuffice DEF IInv
<1> QED
  BY <1>1, IInvHolds, TypesHold, PTL

-----------------------------------------------------------------------------
(* Putting a message at the end of a buffer, and taking its first out of it.    *)
LEMMA QueueGrows ==
    ASSUME NEW h \in Seq(Messages), NEW s \in Seq(Messages), NEW m \in Messages
    PROVE  h \o Append(s, m) = Append(h \o s, m)
<1>1. <<m>> \in Seq(Messages) /\ h \o s \in Seq(Messages)
  BY ConcatProperties
<1>2. Append(s, m) = s \o <<m>> /\ Append(h \o s, m) = (h \o s) \o <<m>>
  BY <1>1, AppendIsConcat
<1> QED
  BY <1>1, <1>2, ConcatAssociative

LEMMA TakeMovesHead ==
    ASSUME NEW s \in Seq(Messages), s # <<>>
    PROVE  <<Head(s)>> \o Tail(s) = <<>> \o s
<1>1. /\ Head(s) \in Messages /\ Tail(s) \in Seq(Messages) /\ Head(s) = s[1]
      /\ Len(Tail(s)) = Len(s) - 1 /\ Len(s) \in Nat \ {0}
      /\ \A i \in 1 .. Len(Tail(s)) : Tail(s)[i] = s[i + 1]
  BY HeadTailProperties, LenProperties, EmptySeq
<1>2. <<Head(s)>> \in Seq(Messages) /\ Len(<<Head(s)>>) = 1 /\ <<Head(s)>>[1] = s[1]
  BY <1>1
<1> DEFINE t == <<Head(s)>> \o Tail(s)
<1>3. /\ t \in Seq(Messages) /\ Len(t) = Len(s)
      /\ \A i \in 1 .. Len(s) : t[i] = IF i <= 1 THEN <<Head(s)>>[i] ELSE Tail(s)[i - 1]
  BY <1>1, <1>2, ConcatProperties
<1> HIDE DEF t
<1>4. \A i \in 1 .. Len(s) : t[i] = s[i]
  BY <1>1, <1>2, <1>3
<1>5. t = s
  BY <1>3, <1>4, SeqEqual
<1> QED
  BY <1>5, ConcatEmptySeq DEF t

(* What is owed to a client is what its buffer and its writer hold, from its    *)
(* registration until it is on its way out; before that there is nothing.     *)
GapInv ==
    \A c \in Clients :
        /\ Fresh(c) => send[c] = <<>> /\ held[c] = <<>> /\ owed[c] = <<>>
        /\ handler[c] # "serving" => writer[c] = "none"
        /\ writer[c] # "writing" => held[c] = <<>>
        /\ c \in clients /\ ~Broken(c) /\ c \notin evict => Unwritten(c) = owed[c]

(* A step that leaves a client's buffer, writer and connection alone.           *)
LEMMA GapKept ==
    ASSUME GapInv, NEW c \in Clients,
           UNCHANGED <<handler[c], writer[c], send[c], held[c], owed[c]>>,
           Broken(c)' = Broken(c), c \in evict => c \in evict', c \in clients' => c \in clients
    PROVE  GapInv!(c)'
BY DEF GapInv, Fresh, Unwritten

LEMMA GapStays == IInv /\ Types /\ GapInv /\ [Next]_vars => GapInv'
<1> SUFFICES ASSUME IInv, Types, GapInv, [Next]_vars, NEW c \in Clients PROVE GapInv!(c)'
  BY DEF GapInv
<1>0. /\ handler \in [Clients -> {"none", "registering", "welcoming", "serving", "panicked"}]
      /\ reader \in [Clients -> {"none", "reading", "leaving", "done"}]
      /\ writer \in [Clients -> {"none", "idle", "writing", "done"}]
      /\ send \in [Clients -> Buffer] /\ held \in [Clients -> Held]
      /\ owed \in [Clients -> Seq(Messages)]
      /\ c \in clients => ~Fresh(c)
      /\ send[c] \in Seq(Messages) /\ held[c] \in Seq(Messages)
  BY DEF Types, HubTypes, PumpTypes, BufferTypes, IInv, PastInv, Buffer, Held
<1>g. /\ Fresh(c) => send[c] = <<>> /\ held[c] = <<>> /\ owed[c] = <<>>
      /\ handler[c] # "serving" => writer[c] = "none"
      /\ writer[c] # "writing" => held[c] = <<>>
      /\ c \in clients /\ ~Broken(c) /\ c \notin evict => Unwritten(c) = owed[c]
  BY DEF GapInv
<1> USE DEF hubVars, pumpVars, connVars, history
<1>1. CASE Emit \/ Heartbeat \/ UNCHANGED vars
  <2>1. UNCHANGED <<handler, writer, send, held, owed, open, here, evict, clients>>
    BY <1>1 DEF Emit, Heartbeat, vars
  <2> QED
    BY <2>1, GapKept DEF Broken
<1>2. CASE FanOut
  <2> DEFINE m == Head(broadcast)
             full == {x \in clients : Len(send[x]) >= SendCap}
  <2>1. UNCHANGED <<handler, writer, held, open, here, clients>> /\ evict' = evict \cup full
    BY <1>2 DEF FanOut, Marked
  <2>2. /\ send'[c] = IF c \in clients \ full THEN Append(send[c], m) ELSE send[c]
        /\ owed'[c] = IF c \in clients \ evict /\ ~Broken(c) THEN Append(owed[c], m) ELSE owed[c]
    BY <1>2 DEF FanOut
  <2>3. m \in Messages
    BY <1>2 DEF FanOut, Types, HubTypes
  <2>4. ASSUME c \in clients, ~Broken(c), c \notin evict'
        PROVE  Unwritten(c)' = owed'[c]
    <3>1. c \notin full /\ c \notin evict /\ held'[c] = held[c]
      BY <2>1, <2>4
    <3>2. held[c] \o Append(send[c], m) = Append(held[c] \o send[c], m)
      BY <1>0, <2>3, QueueGrows
    <3> HIDE DEF m, full
    <3> QED
      BY <1>g, <2>2, <2>4, <3>1, <3>2 DEF Unwritten
  <2> HIDE DEF m, full
  <2> QED
    BY <1>0, <1>g, <2>1, <2>2, <2>4 DEF Fresh, Broken
<1>3. ASSUME NEW x \in Clients, x # c,
             \/ Upgrade(x) \/ PeerLeaves(x) \/ Register(x) \/ Unregister(x) \/ Evict(x)
             \/ Pump(x) \/ WriteFails(x) \/ ReadFails(x)
      PROVE  GapInv!(c)'
  <2>1. UNCHANGED <<handler[c], writer[c], send[c], held[c], owed[c]>>
    BY <1>0, <1>3 DEF Upgrade, PeerLeaves, Register, Unregister, Evict, Drop, Discarded, Pump,
       Welcome, WelcomePanics, WriterTake, WriterFlush, WriterSeesClose, WriteFails, WriterStops,
       ReadFails
  <2>2. /\ c \in open' <=> c \in open
        /\ c \in here' <=> c \in here
        /\ c \in evict' <=> c \in evict
        /\ c \in clients' <=> c \in clients
    BY <1>3 DEF Upgrade, PeerLeaves, Register, Unregister, Evict, Drop, Without, Pump, Welcome,
       WelcomePanics, WriterTake, WriterFlush, WriterSeesClose, WriteFails, WriterStops, ReadFails
  <2> QED
    BY <2>1, <2>2, GapKept DEF Broken
<1>4. CASE Upgrade(c)
  <2>1. Fresh(c) /\ c \notin clients' /\ UNCHANGED <<writer, send, held, owed>>
    BY <1>0, <1>4 DEF Upgrade, Fresh
  <2> QED
    BY <1>g, <2>1 DEF Fresh
<1>5. CASE Register(c)
  <2>1. Fresh(c) /\ UNCHANGED <<writer, send, held, owed>> /\ handler'[c] = "welcoming"
    BY <1>0, <1>5 DEF Register, Fresh
  <2>2. Unwritten(c)' = owed'[c]
    BY <1>g, <2>1, EmptySeq, ConcatEmptySeq DEF Unwritten
  <2> QED
    BY <1>g, <2>1, <2>2 DEF Fresh
<1>6. CASE Unregister(c) \/ Evict(c)
  <2>1. Drop(c) /\ UNCHANGED <<handler, writer, held>>
    BY <1>6 DEF Unregister, Evict
  <2>2. c \notin clients'
    BY <2>1 DEF Drop, Registered, Without
  <2>3. Fresh(c) => send'[c] = <<>> /\ owed'[c] = <<>>
    BY <1>0, <1>g, <2>1 DEF Drop, Discarded
  <2> QED
    BY <1>g, <2>1, <2>2, <2>3 DEF Fresh
<1>7. CASE Welcome(c)
  <2>1. /\ handler'[c] = "serving" /\ writer'[c] = "idle" /\ send'[c] = Append(send[c], Notice)
        /\ ~Broken(c) => owed'[c] = Append(owed[c], Notice)
        /\ UNCHANGED <<held, evict, clients, open, here>> /\ handler[c] = "welcoming"
    BY <1>0, <1>7 DEF Welcome
  <2>2. held[c] \o Append(send[c], Notice) = Append(held[c] \o send[c], Notice)
    BY <1>0, NoticeIsMessage, QueueGrows
  <2>3. writer[c] = "none"
    BY <1>g, <2>1
  <2> QED
    BY <1>g, <2>1, <2>2, <2>3 DEF Fresh, Broken, Unwritten
<1>8. CASE WelcomePanics(c) \/ ReadFails(c)
  <2>1. /\ UNCHANGED <<writer, send, held, owed, evict, clients, open, here>>
        /\ Fresh(c)' => Fresh(c)
        /\ handler'[c] # "serving" => handler[c] # "serving"
    BY <1>0, <1>8 DEF WelcomePanics, ReadFails, Fresh
  <2> QED
    BY <1>g, <2>1 DEF Broken, Unwritten
<1>9. CASE WriterTake(c)
  <2>1. /\ writer[c] = "idle" /\ send[c] # <<>> /\ held'[c] = <<Head(send[c])>>
        /\ send'[c] = Tail(send[c]) /\ writer'[c] = "writing"
        /\ UNCHANGED <<handler, owed, evict, clients, open, here>>
    BY <1>0, <1>9 DEF WriterTake
  <2>2. held[c] = <<>> /\ handler[c] = "serving"
    BY <1>g, <2>1
  <2>3. Unwritten(c)' = Unwritten(c)
    BY <1>0, <2>1, <2>2, TakeMovesHead DEF Unwritten
  <2> QED
    BY <1>g, <2>1, <2>2, <2>3 DEF Fresh, Broken
<1>10. CASE WriterFlush(c)
  <2>1. /\ writer[c] = "writing" /\ send'[c] = <<>> /\ held'[c] = <<>>
        /\ owed'[c] = SubSeq(owed[c], Len(Unwritten(c)) + 1, Len(owed[c]))
        /\ UNCHANGED <<handler, evict, clients, open, here>>
    BY <1>0, <1>10 DEF WriterFlush
  <2>2. ASSUME Unwritten(c) = owed[c]
        PROVE  owed'[c] = <<>>
    <3>1. Len(owed[c]) \in Nat
      BY <1>0, LenProperties
    <3> QED
      BY <2>1, <2>2, <3>1, SubSeqEmpty
  <2>3. Unwritten(c)' = <<>>
    BY <2>1, EmptySeq, ConcatEmptySeq DEF Unwritten
  <2> QED
    BY <1>g, <2>1, <2>2, <2>3 DEF Fresh, Broken
<1>11. CASE WriterSeesClose(c) \/ WriteFails(c)
  <2>1. WriterStops(c) /\ writer[c] \in {"idle", "writing"}
    BY <1>11 DEF WriterSeesClose, WriteFails
  <2>2. /\ handler[c] = "serving" /\ handler' = handler /\ held'[c] = <<>> /\ c \notin open'
    BY <1>0, <1>g, <2>1 DEF WriterStops
  <2> QED
    BY <2>2 DEF Fresh, Broken
<1>12. CASE PeerLeaves(c)
  <2>1. UNCHANGED <<handler, writer, send, held>> /\ c \notin here' /\ owed'[c] = <<>>
    BY <1>0, <1>12 DEF PeerLeaves
  <2> QED
    BY <1>g, <2>1 DEF Fresh, Broken
<1> QED
  BY <1>1, <1>2, <1>3, <1>4, <1>5, <1>6, <1>7, <1>8, <1>9, <1>10, <1>11, <1>12 DEF Next, Pump

(* Who is registered and not on its way out misses nothing: whatever was fanned *)
(* out to it since its registration is delivered, being written or queued, in   *)
(* order and once.                                                          *)
THEOREM NoGapIsSilent == Spec => []NoSilentGap
<1>1. Init => GapInv
  BY DEF Init, GapInv, Fresh
<1>2. IInv /\ GapInv => NoSilentGap
  BY DEF IInv, PastInv, GapInv, NoSilentGap
<1> QED
  BY <1>1, <1>2, IInvHolds, TypesHold, GapStays, PTL DEF Spec

=============================================================================
