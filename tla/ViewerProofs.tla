---------------------------- MODULE ViewerProofs ----------------------------
(***************************************************************************)
(* Proofs about the viewer and its daemon, for any frame sizes, socket     *)
(* buffer, number of frames and lag of the UI thread.                      *)
(***************************************************************************)
EXTENDS Viewer, TLAPS

(***************************************************************************)
(* Types.                                                                  *)
(***************************************************************************)
Message ==
  {FrameReady, Disconnected, ShutdownMessage} \cup {SessionStart(s) : s \in FrameSizes}

Frame == [type : {"Frame"}, size : FrameSizes, painted : Nat]
UiEvent == [type : {"Waiting", "Shutdown"}] \cup Frame

DaemonState ==
  [ at : {"loop", "resizing", "receiving", "publishing", "failed", "ended"},
    had_host_session : BOOLEAN, committed : FrameSizes \cup {None} ]

ViewerState ==
  [ at : {"gone", "connecting", "reading", "converting", "returned"},
    waiting_sent : BOOLEAN, shared : SharedFramebuffer \cup {None}, began : Nat,
    unmapped : BOOLEAN, resized : BOOLEAN, told : BOOLEAN ]

\* The types of the module's state.
ViewerTypeOK ==
  /\ daemon \in DaemonState
  /\ session \in Session \cup {None}
  /\ file \in [len : Nat, painted : Nat]
  /\ socket \in [state : {None, "backlog", "client", "eof"}, queue : Seq(Message)]
  /\ viewer \in ViewerState
  /\ channel \in Seq(UiEvent)
  /\ ui \in [page : {"waiting", "viewer", "closed"}, picture : Frame \cup {None}]

(***************************************************************************)
(* The inductive invariant.                                                *)
(***************************************************************************)
\* The file is empty while it is resized, and otherwise has the size of the
\* session and the frame that is published or about to be.
FileFollowsSession ==
  /\ daemon.at = "resizing" => file.len = 0 /\ file.painted = 0 /\ daemon.committed # None
  /\ daemon.at \in {"receiving", "publishing"} => session # None
  /\ ~Up => session = None
  /\ session # None /\ daemon.at # "resizing" =>
       /\ file.len = session.size
       /\ file.painted = session.generation + (IF daemon.at = "publishing" THEN 1 ELSE 0)

\* A connection ends with either of its processes.
Connection ==
  /\ viewer.at \in {"gone", "connecting"} => socket.state = None
  /\ ~Up => socket.state \in {None, "eof"}

\* A mapping that was whole stays whole until the file is resized.
Mapping ==
  /\ viewer.at = "converting" => Fits
  /\ Fits /\ ~viewer.resized => file.len >= viewer.shared.size

\* Without a session the last thing a client hears of is the disconnect.
HearsOfTheEnd ==
  /\ socket.queue # <<>> => socket.queue[Len(socket.queue)] = Disconnected
  /\ socket.queue = <<>> =>
       /\ viewer.at # "converting"
       /\ channel # <<>> => channel[Len(channel)].type = "Waiting"
       /\ channel = <<>> => ui.page = "waiting"

\* A client has mapped the session, or is going to: nothing but frames follows
\* its announcement.
MapsSession ==
  \/ \E i \in DOMAIN socket.queue :
       /\ socket.queue[i] = SessionStart(session.size)
       /\ \A j \in DOMAIN socket.queue : j > i => socket.queue[j] = FrameReady
  \/ /\ \A j \in DOMAIN socket.queue : socket.queue[j] = FrameReady
     /\ \/ viewer.unmapped
        \/ viewer.shared = [size |-> session.size, len |-> session.size]

IsNewest(f) ==
  f.type = "Frame" /\ f.size = session.size /\ f.painted = session.generation

\* The newest frame is announced, being converted, on the channel or shown.
SeesNewest ==
  /\ socket.queue # <<>> => socket.queue[Len(socket.queue)] = FrameReady
  /\ socket.queue = <<>> /\ ~viewer.unmapped =>
       IF viewer.at = "converting"
       THEN viewer.began = session.generation
       ELSE /\ channel # <<>> => IsNewest(channel[Len(channel)])
            /\ channel = <<>> => ui.page = "viewer" /\ IsNewest(ui.picture)

\* What a client is going to see.
Client ==
  socket.state = "client" =>
    /\ session = None => HearsOfTheEnd
    /\ session # None /\ daemon.at # "resizing" => MapsSession
    /\ session # None /\ daemon.at = "loop" => SeesNewest

ViewerInv ==
  /\ ViewerTypeOK /\ FileFollowsSession /\ Connection /\ Mapping /\ Client

(***************************************************************************)
(* Messages and connections.                                               *)
(***************************************************************************)
\* A message is known by its type.
LEMMA MessageTypes ==
  /\ FrameReady \in Message /\ Disconnected \in Message /\ ShutdownMessage \in Message
  /\ \A s \in FrameSizes : SessionStart(s) \in Message
  /\ \A s : SessionStart(s).type = "session_start" /\ SessionStart(s).size = s
  /\ \A m \in Message : m.type = "session_start" => m.size \in FrameSizes
  /\ FrameReady.type = "frame_ready" /\ Disconnected.type = "disconnected"
<1>1. /\ FrameReady \in Message /\ Disconnected \in Message /\ ShutdownMessage \in Message
      /\ \A s \in FrameSizes : SessionStart(s) \in Message
  BY DEF Message
<1>2. \A s : SessionStart(s).type = "session_start" /\ SessionStart(s).size = s
  BY DEF SessionStart
<1>3. /\ FrameReady.type = "frame_ready" /\ Disconnected.type = "disconnected"
      /\ ShutdownMessage.type = "shutdown"
  BY DEF FrameReady, Disconnected, ShutdownMessage
<1>4. ASSUME NEW m \in Message, m.type = "session_start" PROVE m.size \in FrameSizes
  <2>1. m \notin {FrameReady, Disconnected, ShutdownMessage}
    BY <1>3, <1>4
  <2>2. PICK s \in FrameSizes : m = SessionStart(s)
    BY <2>1 DEF Message
  <2> QED BY <1>2, <2>2
<1> QED BY <1>1, <1>2, <1>3, <1>4

SocketType == [state : {None, "backlog", "client", "eof"}, queue : Seq(Message)]

\* What the client of a broadcast has in its queue.
LEMMA Broadcasts ==
  ASSUME socket \in SocketType, NEW m \in Message
  PROVE  /\ broadcast(m) \in SocketType
         /\ broadcast(m).state = socket.state
         /\ socket.state = "client" =>
              LET q == socket.queue
                  r == broadcast(m).queue
              IN  /\ Len(r) = Len(q) + 1 /\ r # <<>> /\ r[Len(r)] = m
                  /\ \A i \in DOMAIN q : r[i] = q[i]
                  /\ DOMAIN r = DOMAIN q \cup {Len(r)} /\ Len(r) \notin DOMAIN q
                  /\ \A i \in DOMAIN q : i < Len(r)
<1>1. socket.queue \in Seq(Message)
  BY DEF SocketType
<1>2. CASE socket.state = "client"
  <2>1. broadcast(m) = [socket EXCEPT !.queue = Append(@, m)]
    BY <1>2 DEF broadcast
  <2>2. Append(socket.queue, m) \in Seq(Message)
    BY <1>1
  <2>3. broadcast(m) \in SocketType /\ broadcast(m).state = socket.state
        /\ broadcast(m).queue = Append(socket.queue, m)
    BY <2>1, <2>2 DEF SocketType
  <2> QED BY <1>1, <2>3
<1>3. CASE socket.state # "client"
  BY <1>3 DEF broadcast
<1> QED BY <1>2, <1>3

\* A connection that is hung up.
LEMMA HangsUp ==
  ASSUME NEW s \in SocketType
  PROVE  hung_up(s) \in SocketType /\ hung_up(s).state \in {None, "eof"}
BY DEF hung_up, SocketType

\* The rest of a queue.
LEMMA TailOf ==
  ASSUME NEW S, NEW q \in Seq(S), q # <<>>
  PROVE  /\ Head(q) \in S /\ Tail(q) \in Seq(S)
         /\ Len(Tail(q)) = Len(q) - 1 /\ Head(q) = q[1]
         /\ \A i \in DOMAIN Tail(q) : i + 1 \in DOMAIN q /\ Tail(q)[i] = q[i + 1]
         /\ Tail(q) # <<>> => Tail(q)[Len(Tail(q))] = q[Len(q)]
         /\ Tail(q) = <<>> => q[1] = q[Len(q)]
         /\ \A i \in DOMAIN q : i = 1 \/ i - 1 \in DOMAIN Tail(q)
<1>1. /\ Head(q) \in S /\ Tail(q) \in Seq(S) /\ Head(q) = q[1]
      /\ Len(Tail(q)) = Len(q) - 1 /\ Len(q) \in Nat \ {0}
  OBVIOUS
<1>2. \A i \in DOMAIN Tail(q) : i + 1 \in DOMAIN q /\ Tail(q)[i] = q[i + 1]
  OBVIOUS
<1>3. Tail(q) # <<>> => Tail(q)[Len(Tail(q))] = q[Len(q)]
  <2> SUFFICES ASSUME Tail(q) # <<>> PROVE Tail(q)[Len(Tail(q))] = q[Len(q)]
    OBVIOUS
  <2>1. Len(Tail(q)) \in DOMAIN Tail(q)
    BY <1>1
  <2> QED BY <1>1, <1>2, <2>1
<1>4. ASSUME Tail(q) = <<>> PROVE q[1] = q[Len(q)]
  <2>1. PICK r \in Seq(S) : r = Tail(q)
    BY <1>1
  <2>2. r = <<>>
    BY <1>4, <2>1, Zenon
  <2>3. Len(r) = Len(q) - 1
    BY <1>1, <2>1
  <2>4. Len(<<>>) = 0
    OBVIOUS
  <2>5. 0 = Len(q) - 1
    BY <2>2, <2>3, <2>4, Zenon
  <2>6. Len(q) \in Nat
    BY <1>1
  <2>7. Len(q) = 1
    BY <2>5, <2>6
  <2> QED BY <2>7
<1>5. \A i \in DOMAIN q : i = 1 \/ i - 1 \in DOMAIN Tail(q)
  <2>1. DOMAIN q = 1 .. Len(q) /\ DOMAIN Tail(q) = 1 .. Len(Tail(q))
    BY <1>1
  <2> QED BY <1>1, <2>1
<1> QED BY <1>1, <1>2, <1>3, <1>4, <1>5

\* The channel after Sends.
LEMMA Sent ==
  ASSUME channel \in Seq(UiEvent), NEW e \in UiEvent, Sends(e)
  PROVE  channel' \in Seq(UiEvent) /\ channel' # <<>> /\ channel'[Len(channel')] = e
BY DEF Sends


(***************************************************************************)
(* Types.                                                                  *)
(***************************************************************************)
\* A message is taken from the socket.
LEMMA ReadsType ==
  ASSUME ViewerTypeOK, NEW t, Reads(t)
  PROVE  /\ socket' \in SocketType /\ socket'.state = socket.state
         /\ socket.queue \in Seq(Message) /\ socket.queue # <<>>
         /\ socket'.queue = Tail(socket.queue)
         /\ Head(socket.queue) \in Message /\ Head(socket.queue).type = t
         /\ viewer.at = "reading"
<1>1. socket \in SocketType /\ socket.queue \in Seq(Message) /\ socket.queue # <<>>
  BY DEF ViewerTypeOK, SocketType, Reads
<1>2. socket' = [socket EXCEPT !.queue = Tail(@)]
  BY DEF Reads
<1>3. Head(socket.queue) \in Message /\ Tail(socket.queue) \in Seq(Message)
  BY <1>1
<1>4. socket' \in SocketType /\ socket'.state = socket.state
      /\ socket'.queue = Tail(socket.queue)
  BY <1>1, <1>2, <1>3 DEF SocketType
<1> QED BY <1>1, <1>3, <1>4 DEF Reads

LEMMA GoneType ==
  ASSUME Gone
  PROVE  /\ viewer' \in ViewerState /\ channel' \in Seq(UiEvent) /\ socket' \in SocketType
         /\ ui' \in [page : {"waiting", "viewer", "closed"}, picture : Frame \cup {None}]
         /\ socket'.state = None /\ viewer'.shared = None /\ viewer'.at = "gone"
BY DEF Gone, NoViewer, NoSocket, ViewerState, SocketType

LEMMA DaemonKeepsTypes ==
  ASSUME ViewerTypeOK, FileFollowsSession,
         \/ Start \/ Terminated \/ Interrupted \/ accept_new_clients
         \/ HostRequest \/ (\E s \in FrameSizes : StateCommitted(s)) \/ Lifecycle
         \/ RequestFails \/ HostDisconnected
         \/ Buffer \/ Publish \/ ReceivePayload \/ frame_ready \/ BufferFails
  PROVE  ViewerTypeOK'
<1> USE DEF ViewerTypeOK
<1>0. socket \in SocketType
  BY DEF SocketType
<1>1. \A at \in {"loop", "failed", "ended"} : NoHost(at) \in DaemonState
  BY DEF NoHost, DaemonState
<1>2. \A s \in SocketType : hung_up(s) \in SocketType
  BY HangsUp
<1>3. \A m \in Message : broadcast(m) \in SocketType
  BY <1>0, Broadcasts
<1>4. CASE Start
  BY <1>1, <1>4 DEF Start
<1>5. CASE Terminated
  BY <1>0, <1>1, <1>2, <1>5 DEF Terminated, SocketType
<1>6. CASE Interrupted
  BY <1>1, <1>2, <1>3, <1>6, MessageTypes DEF Interrupted, SocketType
<1>7. CASE accept_new_clients
  <2>1. socket' \in SocketType
    <3>1. CASE session = None
      <4>1. socket' = [state |-> "client", queue |-> <<Disconnected>>]
        BY <1>7, <3>1 DEF accept_new_clients
      <4> QED BY <4>1, MessageTypes DEF SocketType
    <3>2. CASE session # None
      <4>1. socket' = [state |-> "client",
                       queue |-> <<SessionStart(session.size), FrameReady>>]
        BY <1>7, <3>2 DEF accept_new_clients
      <4>2. SessionStart(session.size) \in Message /\ FrameReady \in Message
        BY <3>2, MessageTypes DEF Session
      <4> QED BY <4>1, <4>2 DEF SocketType
    <3> QED BY <3>1, <3>2
  <2> QED BY <1>7, <2>1 DEF accept_new_clients, SocketType
<1>8. CASE HostRequest \/ (\E s \in FrameSizes : StateCommitted(s)) \/ Lifecycle
  <2>1. \A a \in BOOLEAN, c \in FrameSizes \cup {None} :
          Continues(a, c) => daemon' \in DaemonState
    BY DEF Continues, DaemonState
  <2>2. daemon.committed \in FrameSizes \cup {None}
    BY DEF DaemonState
  <2> QED BY <1>8, <2>1, <2>2 DEF HostRequest, StateCommitted, Lifecycle
<1>9. CASE RequestFails \/ BufferFails
  BY <1>0, <1>1, <1>2, <1>9 DEF RequestFails, BufferFails, Fails, SocketType
<1>10. CASE HostDisconnected
  <2>0. broadcast(Disconnected) \in SocketType
        /\ hung_up(broadcast(Disconnected)) \in SocketType
    BY <1>2, <1>3, MessageTypes
  <2>1. daemon' \in DaemonState
    <3>1. CASE daemon.had_host_session
      BY <1>1, <1>10, <3>1 DEF HostDisconnected
    <3>2. CASE ~daemon.had_host_session
      BY <1>10, <3>2 DEF HostDisconnected, Continues, DaemonState
    <3> QED BY <3>1, <3>2
  <2>2. socket' \in SocketType
    BY <1>10, <2>0 DEF HostDisconnected
  <2> QED BY <1>10, <2>1, <2>2 DEF HostDisconnected, SocketType
<1>11. CASE Buffer
  <2>1. daemon' \in DaemonState
    BY <1>11 DEF Buffer, DaemonState
  <2>2. viewer' \in ViewerState
    <3>1. CASE needs_new
      BY <1>11, <3>1 DEF Buffer, Resizes, ViewerState
    <3>2. CASE ~needs_new
      BY <1>11, <3>2 DEF Buffer
    <3> QED BY <3>1, <3>2
  <2>3. file' \in [len : Nat, painted : Nat]
    BY <1>11 DEF Buffer
  <2> QED BY <1>11, <2>1, <2>2, <2>3 DEF Buffer
<1>12. CASE Publish
  <2>1. daemon.committed \in FrameSizes /\ daemon.committed \in Nat
    BY <1>12, ViewerAssumption DEF Publish, FileFollowsSession, DaemonState
  <2>2. daemon' \in DaemonState
    BY <1>12 DEF Publish, DaemonState
  <2>3. session' \in Session /\ file' \in [len : Nat, painted : Nat]
    BY <1>12, <2>1 DEF Publish, Session
  <2>4. socket' \in SocketType
    BY <1>3, <1>12, <2>1, MessageTypes DEF Publish
  <2> QED BY <1>12, <2>2, <2>3, <2>4 DEF Publish, SocketType
<1>13. CASE ReceivePayload
  <2>1. session.generation \in Nat
    BY <1>13 DEF ReceivePayload, FileFollowsSession, Session
  <2>2. file' \in [len : Nat, painted : Nat]
    BY <1>13, <2>1 DEF ReceivePayload
  <2>3. daemon' \in DaemonState
    BY <1>13 DEF ReceivePayload, DaemonState
  <2> QED BY <1>13, <2>2, <2>3 DEF ReceivePayload
<1>14. CASE frame_ready
  <2>1. session \in Session
    BY <1>14 DEF frame_ready, FileFollowsSession
  <2>2. session' \in Session /\ daemon' \in DaemonState
    BY <1>14, <2>1 DEF frame_ready, Session, DaemonState
  <2>3. socket' \in SocketType
    BY <1>3, <1>14, MessageTypes DEF frame_ready
  <2> QED BY <1>14, <2>2, <2>3 DEF frame_ready, SocketType
<1> QED BY <1>4, <1>5, <1>6, <1>7, <1>8, <1>9, <1>10, <1>11, <1>12, <1>13, <1>14

\* A frame of the mapped size.
LEMMA ConvertsFrame ==
  ASSUME ViewerTypeOK, Mapping, rgb565_to_rgba
  PROVE  \E e \in Frame : /\ Sends(e) /\ e.size = viewer.shared.size
                          /\ e.painted \in {viewer.began, file.painted}
<1>1. viewer.shared \in SharedFramebuffer /\ viewer.shared.size \in FrameSizes
  BY DEF ViewerTypeOK, ViewerState, Mapping, rgb565_to_rgba, Fits, SharedFramebuffer
<1>2. PICK p \in {viewer.began, file.painted} :
        Sends([type |-> "Frame", size |-> viewer.shared.size, painted |-> p])
  BY DEF rgb565_to_rgba
<1>3. p \in Nat
  BY <1>2 DEF ViewerTypeOK, ViewerState
<1> DEFINE e == [type |-> "Frame", size |-> viewer.shared.size, painted |-> p]
<1>4. e \in Frame /\ e.size = viewer.shared.size /\ e.painted = p
  BY <1>1, <1>3 DEF Frame
<1> QED BY <1>2, <1>4

\* The events that carry no frame.
LEMMA PlainEvents ==
  /\ [type |-> "Waiting"] \in UiEvent /\ [type |-> "Shutdown"] \in UiEvent
  /\ \A e \in UiEvent : e.type = "Frame" => e \in Frame
  /\ \A e \in Frame : e \in UiEvent /\ e.type = "Frame"
BY DEF UiEvent, Frame

LEMMA ReaderKeepsTypes ==
  ASSUME ViewerTypeOK, Mapping, Reading
  PROVE  ViewerTypeOK'
<1> USE DEF ViewerTypeOK
<1>1. CASE Eof
  BY <1>1 DEF Eof, NoSocket, ViewerState, daemonVars
<1>2. CASE ReadSessionStart
  <2>1. socket' \in SocketType /\ Head(socket.queue).size \in FrameSizes
    BY <1>2, ReadsType, MessageTypes DEF ReadSessionStart
  <2>2. [size |-> Head(socket.queue).size, len |-> file.len] \in SharedFramebuffer
    BY <2>1 DEF SharedFramebuffer
  <2>3. viewer' \in ViewerState
    BY <1>2, <2>2 DEF ReadSessionStart, ViewerState
  <2> QED BY <1>2, <2>1, <2>3 DEF ReadSessionStart, Reads, daemonVars, SocketType
<1>3. CASE ReadSessionStartFails
  <2>1. socket' \in SocketType
    BY <1>3, ReadsType DEF ReadSessionStartFails
  <2>2. viewer' \in ViewerState
    BY <1>3 DEF ReadSessionStartFails, ViewerState
  <2> QED BY <1>3, <2>1, <2>2 DEF ReadSessionStartFails, Reads, daemonVars, SocketType
<1>4. CASE ReadFrameReadyInVain
  <2>1. socket' \in SocketType
    BY <1>4, ReadsType DEF ReadFrameReadyInVain
  <2> QED BY <1>4, <2>1 DEF ReadFrameReadyInVain, Reads, daemonVars, SocketType
<1>5. CASE ReadFrameReady
  <2>1. socket' \in SocketType
    BY <1>5, ReadsType DEF ReadFrameReady
  <2>2. viewer' \in ViewerState
    BY <1>5 DEF ReadFrameReady, ViewerState
  <2> QED BY <1>5, <2>1, <2>2 DEF ReadFrameReady, Reads, daemonVars, SocketType
<1>6. CASE rgb565_to_rgba
  <2>1. PICK e \in Frame : Sends(e)
    BY <1>6, ConvertsFrame
  <2>2. channel' \in Seq(UiEvent)
    BY <2>1, PlainEvents, Sent
  <2>3. viewer' \in ViewerState
    BY <1>6 DEF rgb565_to_rgba, ViewerState
  <2> QED BY <1>6, <2>2, <2>3 DEF rgb565_to_rgba, daemonVars
<1>7. CASE BusError
  BY <1>7, GoneType DEF BusError, daemonVars, SocketType
<1>8. CASE ReadDisconnected
  <2>1. socket' \in SocketType
    BY <1>8, ReadsType DEF ReadDisconnected
  <2>2. viewer' \in ViewerState
    BY <1>8 DEF ReadDisconnected, ViewerState
  <2>3. channel' \in Seq(UiEvent)
    BY <1>8, PlainEvents, Sent DEF ReadDisconnected
  <2> QED BY <1>8, <2>1, <2>2, <2>3 DEF ReadDisconnected, Reads, daemonVars, SocketType
<1>9. CASE ReadShutdown
  <2>1. socket' \in SocketType
    BY <1>9, ReadsType DEF ReadShutdown
  <2>2. viewer' \in ViewerState
    BY <1>9 DEF ReadShutdown, ViewerState
  <2>3. channel' \in Seq(UiEvent)
    BY <1>9, PlainEvents, Sent DEF ReadShutdown
  <2> QED BY <1>9, <2>1, <2>2, <2>3 DEF ReadShutdown, Reads, daemonVars, SocketType
<1> QED BY <1>1, <1>2, <1>3, <1>4, <1>5, <1>6, <1>7, <1>8, <1>9 DEF Reading

\* The rest of the viewer: its start, its connection and its UI thread.
LEMMA WindowKeepsTypes ==
  ASSUME ViewerTypeOK,
         \/ Launch \/ Connect \/ ConnectFails
         \/ ShowFrame \/ ShowWaiting \/ CloseWindow \/ CloseOnShutdown
  PROVE  ViewerTypeOK'
<1> USE DEF ViewerTypeOK
<1>1. CASE Launch
  <2>1. viewer' \in ViewerState
    BY <1>1 DEF Launch, ViewerState
  <2>2. channel' \in Seq(UiEvent)
        /\ ui' \in [page : {"waiting", "viewer", "closed"}, picture : Frame \cup {None}]
    BY <1>1 DEF Launch
  <2> QED BY <1>1, <2>1, <2>2 DEF Launch, daemonVars
<1>2. CASE Connect
  <2>1. viewer' \in ViewerState
    BY <1>2 DEF Connect, ViewerState
  <2>2. socket' \in SocketType
    BY <1>2 DEF Connect, SocketType
  <2> QED BY <1>2, <2>1, <2>2 DEF Connect, daemonVars, SocketType
<1>3. CASE ConnectFails
  <2>1. channel' \in Seq(UiEvent)
    BY <1>3, PlainEvents, Sent DEF ConnectFails
  <2> QED BY <1>3, <2>1 DEF ConnectFails, ViewerState, daemonVars
<1>4. CASE ShowFrame
  <2>1. Head(channel) \in Frame /\ Tail(channel) \in Seq(UiEvent)
    BY <1>4, PlainEvents DEF ShowFrame
  <2> QED BY <1>4, <2>1 DEF ShowFrame, daemonVars
<1>5. CASE ShowWaiting
  <2>1. Tail(channel) \in Seq(UiEvent)
    BY <1>5 DEF ShowWaiting
  <2> QED BY <1>5, <2>1 DEF ShowWaiting, daemonVars
<1>6. CASE CloseWindow \/ CloseOnShutdown
  BY <1>6, GoneType DEF CloseWindow, CloseOnShutdown, daemonVars, SocketType
<1> QED BY <1>1, <1>2, <1>3, <1>4, <1>5, <1>6

(***************************************************************************)
(* File, connection and mapping.                                           *)
(***************************************************************************)
\* What the viewer does, as the daemon sees it.
ViewerActs ==
  \/ Launch \/ Connect \/ ConnectFails \/ Reading
  \/ ShowFrame \/ ShowWaiting \/ CloseWindow \/ CloseOnShutdown

LEMMA ViewerKeepsDaemon ==
  ASSUME ViewerActs
  PROVE  UNCHANGED <<daemon, session, file>>
BY DEF ViewerActs, Launch, Connect, ConnectFails, Reading, ShowFrame, ShowWaiting,
   CloseWindow, CloseOnShutdown, Eof, ReadSessionStart, ReadSessionStartFails,
   ReadFrameReadyInVain, ReadFrameReady, rgb565_to_rgba, BusError, ReadDisconnected,
   ReadShutdown, Reads, daemonVars

\* The daemon, its service and its host.
HostActs ==
  HostRequest \/ (\E s \in FrameSizes : StateCommitted(s)) \/ Lifecycle

Ends ==
  \/ Terminated \/ Interrupted \/ RequestFails \/ BufferFails
  \/ HostDisconnected /\ daemon.had_host_session

DaemonActs ==
  \/ Start \/ Ends \/ HostActs
  \/ HostDisconnected /\ ~daemon.had_host_session
  \/ accept_new_clients \/ Buffer \/ Publish \/ ReceivePayload \/ frame_ready

LEMMA NextIs == ASSUME Next PROVE DaemonActs \/ ViewerActs
<1>1. CASE HostDisconnected
  BY <1>1 DEF DaemonActs, Ends
<1>2. CASE ~HostDisconnected
  BY <1>2 DEF Next, DaemonActs, ViewerActs, HostActs, Ends
<1> QED BY <1>1, <1>2

\* A turn without a frame.
LEMMA HostActsIdly ==
  ASSUME ViewerTypeOK, HostActs
  PROVE  /\ daemon.at = "loop" /\ daemon'.at = "loop"
         /\ UNCHANGED <<session, file, socket, viewer, channel, ui>>
<1>1. ASSUME NEW a, NEW c, Continues(a, c) PROVE daemon'.at = "loop"
  BY <1>1 DEF Continues, ViewerTypeOK, DaemonState
<1> QED BY <1>1 DEF HostActs, HostRequest, StateCommitted, Lifecycle

\* The daemon is gone, and with it its end of the connection.
LEMMA DaemonEnds ==
  ASSUME ViewerTypeOK, Ends
  PROVE  /\ daemon'.at \in {"failed", "ended"} /\ session' = None
         /\ socket'.state \in {None, "eof"}
         /\ UNCHANGED <<file, viewer, channel, ui>>
<1>1. socket \in SocketType
  BY DEF ViewerTypeOK, SocketType
<1>2. \A m \in Message : broadcast(m) \in SocketType
  BY <1>1, Broadcasts
<1>3. hung_up(socket).state \in {None, "eof"}
  BY <1>1, HangsUp
<1>4. hung_up(broadcast(ShutdownMessage)).state \in {None, "eof"}
      /\ hung_up(broadcast(Disconnected)).state \in {None, "eof"}
  BY <1>2, HangsUp, MessageTypes
<1>5. CASE Terminated
  BY <1>3, <1>5 DEF Terminated, NoHost
<1>6. CASE Interrupted
  BY <1>4, <1>6 DEF Interrupted, NoHost
<1>7. CASE RequestFails \/ BufferFails
  BY <1>3, <1>7 DEF RequestFails, BufferFails, Fails, NoHost
<1>8. CASE HostDisconnected /\ daemon.had_host_session
  BY <1>4, <1>8 DEF HostDisconnected, NoHost
<1> QED BY <1>5, <1>6, <1>7, <1>8 DEF Ends

\* A disconnect in a loop that never had a host session.
LEMMA IdleDisconnect ==
  ASSUME ViewerTypeOK, HostDisconnected, ~daemon.had_host_session
  PROVE  /\ daemon.at = "loop" /\ daemon'.at = "loop" /\ session' = None
         /\ socket' = broadcast(Disconnected) /\ socket'.state = socket.state
         /\ UNCHANGED <<file, viewer, channel, ui>>
<1>1. socket \in SocketType
  BY DEF ViewerTypeOK, SocketType
<1>2. daemon'.at = "loop"
  BY DEF HostDisconnected, Continues, ViewerTypeOK, DaemonState
<1>3. socket' = broadcast(Disconnected)
  BY DEF HostDisconnected
<1>4. socket'.state = socket.state
  BY <1>1, <1>3, Broadcasts, MessageTypes
<1> QED BY <1>2, <1>3, <1>4 DEF HostDisconnected

LEMMA FileStep ==
  ASSUME ViewerTypeOK, FileFollowsSession, Next
  PROVE  FileFollowsSession'
<1> USE DEF FileFollowsSession, Up
<1>1. CASE ViewerActs
  BY <1>1, ViewerKeepsDaemon
<1>2. CASE Ends
  BY <1>2, DaemonEnds
<1>3. CASE HostActs
  BY <1>3, HostActsIdly
<1>4. CASE HostDisconnected /\ ~daemon.had_host_session
  BY <1>4, IdleDisconnect
<1>5. CASE Start
  BY <1>5 DEF Start, NoHost
<1>6. CASE accept_new_clients
  BY <1>6 DEF accept_new_clients
<1>7. CASE Buffer
  <2>1. daemon'.at = (IF needs_new THEN "resizing" ELSE "receiving")
        /\ daemon'.committed = daemon.committed /\ session' = session
        /\ daemon.at = "loop" /\ daemon.committed # None
    BY <1>7 DEF Buffer, ViewerTypeOK, DaemonState
  <2>2. CASE needs_new
    BY <1>7, <2>1, <2>2 DEF Buffer
  <2>3. CASE ~needs_new
    BY <1>7, <2>1, <2>3 DEF Buffer, needs_new
  <2> QED BY <2>2, <2>3
<1>8. CASE Publish
  <2>1. /\ daemon'.at = "receiving" /\ daemon.committed \in FrameSizes
        /\ file'.len = daemon.committed /\ file'.painted = 0
        /\ session' = [size |-> daemon.committed, generation |-> 0]
    BY <1>8 DEF Publish, ViewerTypeOK, DaemonState
  <2>2. session' \in Session
    BY <2>1 DEF Session
  <2>3. session' # None
    BY <2>2, ViewerAssumption
  <2> QED BY <2>1, <2>3
<1>9. CASE ReceivePayload
  <2>1. /\ daemon'.at = "publishing" /\ session' = session /\ daemon.at = "receiving"
        /\ file'.len = file.len /\ file'.painted = session.generation + 1
    BY <1>9 DEF ReceivePayload, ViewerTypeOK, DaemonState
  <2> QED BY <2>1
<1>10. CASE frame_ready
  <2>1. session \in Session
    BY <1>10 DEF frame_ready, ViewerTypeOK
  <2>2. /\ daemon'.at = "loop" /\ file' = file /\ daemon.at = "publishing"
        /\ session'.size = session.size /\ session'.generation = session.generation + 1
    BY <1>10, <2>1 DEF frame_ready, ViewerTypeOK, DaemonState, Session
  <2> QED BY <2>1, <2>2 DEF Session
<1> QED BY <1>1, <1>2, <1>3, <1>4, <1>5, <1>6, <1>7, <1>8, <1>9, <1>10, NextIs
        DEF DaemonActs

\* The viewer's side of a connection that its thread still reads.
LEMMA ReaderKeepsConnection ==
  ASSUME ViewerTypeOK, Reading
  PROVE  \/ socket'.state = None
         \/ /\ socket'.state = socket.state /\ viewer.at \in {"reading", "converting"}
            /\ viewer'.at \notin {"gone", "connecting"}
<1> USE DEF ViewerTypeOK, ViewerState
<1>1. CASE Eof
  BY <1>1 DEF Eof, NoSocket
<1>2. CASE BusError
  BY <1>2, GoneType DEF BusError
<1>3. CASE rgb565_to_rgba
  BY <1>3 DEF rgb565_to_rgba
<1>4. CASE ReadSessionStart
  BY <1>4, ReadsType DEF ReadSessionStart
<1>5. CASE ReadSessionStartFails
  BY <1>5, ReadsType DEF ReadSessionStartFails
<1>6. CASE ReadFrameReadyInVain
  BY <1>6, ReadsType DEF ReadFrameReadyInVain
<1>7. CASE ReadFrameReady
  BY <1>7, ReadsType DEF ReadFrameReady
<1>8. CASE ReadDisconnected
  BY <1>8, ReadsType DEF ReadDisconnected
<1>9. CASE ReadShutdown
  BY <1>9, ReadsType DEF ReadShutdown
<1> QED BY <1>1, <1>2, <1>3, <1>4, <1>5, <1>6, <1>7, <1>8, <1>9 DEF Reading

\* The daemon never touches what the thread is doing, only resized.
LEMMA DaemonKeepsViewer ==
  ASSUME ViewerTypeOK, DaemonActs
  PROVE  /\ viewer'.at = viewer.at /\ viewer'.shared = viewer.shared
         /\ viewer'.began = viewer.began /\ viewer'.unmapped = viewer.unmapped
         /\ UNCHANGED <<channel, ui>>
         /\ (Buffer /\ needs_new) \/ viewer' = viewer
<1>1. CASE Buffer
  BY <1>1 DEF Buffer, Resizes, ViewerTypeOK, ViewerState
<1>2. CASE ~Buffer
  <2>1. UNCHANGED <<viewer, channel, ui>>
    BY <1>2 DEF DaemonActs, Start, Ends, Terminated, Interrupted, RequestFails,
         BufferFails, HostDisconnected, HostActs, HostRequest, StateCommitted, Lifecycle,
         accept_new_clients, Publish, ReceivePayload, frame_ready
  <2> QED BY <2>1
<1> QED BY <1>1, <1>2

LEMMA ConnectionStep ==
  ASSUME ViewerTypeOK, Connection, Next
  PROVE  Connection'
<1> USE DEF Connection, Up
<1>1. CASE Reading
  BY <1>1, ReaderKeepsConnection, ViewerKeepsDaemon DEF ViewerActs
<1>2. CASE Launch
  BY <1>2 DEF Launch, ViewerTypeOK, ViewerState, daemonVars
<1>3. CASE Connect
  BY <1>3 DEF Connect, ViewerTypeOK, ViewerState, daemonVars
<1>4. CASE ConnectFails
  BY <1>4 DEF ConnectFails, ViewerTypeOK, ViewerState, daemonVars
<1>5. CASE ShowFrame \/ ShowWaiting
  BY <1>5 DEF ShowFrame, ShowWaiting, daemonVars
<1>6. CASE CloseWindow \/ CloseOnShutdown
  BY <1>6, GoneType DEF CloseWindow, CloseOnShutdown, daemonVars
<1>7. CASE DaemonActs
  <2>0. viewer'.at = viewer.at /\ socket \in SocketType
    BY <1>7, DaemonKeepsViewer DEF ViewerTypeOK, SocketType
  <2>1. CASE Ends
    <3>1. /\ socket.state = None => hung_up(socket) = socket
          /\ socket.state = None => hung_up(broadcast(ShutdownMessage)) = socket
          /\ socket.state = None => hung_up(broadcast(Disconnected)) = socket
      BY ViewerAssumption DEF hung_up, broadcast
    <3>2. \/ socket' = hung_up(socket)
          \/ socket' = hung_up(broadcast(ShutdownMessage))
          \/ socket' = hung_up(broadcast(Disconnected))
      BY <2>1 DEF Ends, Terminated, Interrupted, RequestFails, BufferFails,
           HostDisconnected, Fails
    <3> QED BY <2>0, <2>1, <3>1, <3>2, DaemonEnds
  <2>2. CASE HostActs
    BY <2>0, <2>2, HostActsIdly
  <2>3. CASE HostDisconnected /\ ~daemon.had_host_session
    BY <2>0, <2>3, IdleDisconnect
  <2>4. CASE Start
    BY <2>0, <2>4 DEF Start, NoHost
  <2>5. CASE accept_new_clients
    BY <2>0, <2>5, ViewerAssumption DEF accept_new_clients
  <2>6. CASE Buffer
    BY <2>0, <2>6 DEF Buffer, ViewerTypeOK, DaemonState
  <2>7. CASE Publish
    <3>2. socket'.state = socket.state
      BY <2>7 DEF Publish, broadcast, ViewerTypeOK
    <3> QED BY <2>0, <2>7, <3>2 DEF Publish, ViewerTypeOK, DaemonState
  <2>8. CASE ReceivePayload
    BY <2>0, <2>8 DEF ReceivePayload, ViewerTypeOK, DaemonState
  <2>9. CASE frame_ready
    <3>1. socket'.state = socket.state
      BY <2>9 DEF frame_ready, broadcast, ViewerTypeOK
    <3> QED BY <2>0, <2>9, <3>1 DEF frame_ready, ViewerTypeOK, DaemonState
  <2> QED BY <1>7, <2>1, <2>2, <2>3, <2>4, <2>5, <2>6, <2>7, <2>8, <2>9 DEF DaemonActs
<1> QED BY <1>1, <1>2, <1>3, <1>4, <1>5, <1>6, <1>7, NextIs DEF ViewerActs

\* What the viewer's thread makes of its mapping.
LEMMA ReaderKeepsMapping ==
  ASSUME ViewerTypeOK, Mapping, Reading, file' = file
  PROVE  Mapping'
<1> USE DEF Mapping, Fits, ViewerTypeOK, ViewerState
<1>1. CASE Eof
  BY <1>1 DEF Eof
<1>2. CASE BusError
  BY <1>2, GoneType DEF BusError
<1>3. CASE rgb565_to_rgba
  BY <1>3 DEF rgb565_to_rgba
<1>4. CASE ReadSessionStart
  <2>1. /\ viewer'.shared = [size |-> Head(socket.queue).size, len |-> file.len]
        /\ viewer'.at = viewer.at /\ viewer.at = "reading"
    BY <1>4 DEF ReadSessionStart, Reads
  <2> QED BY <2>1
<1>5. CASE ReadSessionStartFails
  BY <1>5 DEF ReadSessionStartFails, Reads
<1>6. CASE ReadFrameReadyInVain
  BY <1>6 DEF ReadFrameReadyInVain
<1>7. CASE ReadFrameReady
  BY <1>7 DEF ReadFrameReady
<1>8. CASE ReadDisconnected
  BY <1>8 DEF ReadDisconnected, Reads
<1>9. CASE ReadShutdown
  BY <1>9 DEF ReadShutdown
<1> QED BY <1>1, <1>2, <1>3, <1>4, <1>5, <1>6, <1>7, <1>8, <1>9 DEF Reading

LEMMA MappingStep ==
  ASSUME ViewerTypeOK, FileFollowsSession, Mapping, Next
  PROVE  Mapping'
<1> USE DEF Mapping, Fits
<1>1. CASE Reading
  BY <1>1, ReaderKeepsMapping, ViewerKeepsDaemon DEF ViewerActs
<1>2. CASE ViewerActs /\ ~Reading
  <2>0. file' = file
    BY <1>2, ViewerKeepsDaemon
  <2>1. CASE Launch
    BY <2>0, <2>1 DEF Launch, ViewerTypeOK, ViewerState
  <2>2. CASE Connect
    BY <2>0, <2>2 DEF Connect, ViewerTypeOK, ViewerState
  <2>3. CASE ConnectFails
    BY <2>0, <2>3 DEF ConnectFails, ViewerTypeOK, ViewerState
  <2>4. CASE ShowFrame \/ ShowWaiting
    BY <2>0, <2>4 DEF ShowFrame, ShowWaiting
  <2>5. CASE CloseWindow \/ CloseOnShutdown
    BY <2>5, GoneType DEF CloseWindow, CloseOnShutdown
  <2> QED BY <1>2, <2>1, <2>2, <2>3, <2>4, <2>5 DEF ViewerActs
<1>3. CASE DaemonActs
  <2>1. /\ viewer'.at = viewer.at /\ viewer'.shared = viewer.shared
        /\ (Buffer /\ needs_new) \/ viewer' = viewer
    BY <1>3, DaemonKeepsViewer
  <2>2. viewer.shared # None => viewer.shared.size \in Nat
    BY ViewerAssumption DEF ViewerTypeOK, ViewerState, SharedFramebuffer
  <2>3. CASE Buffer /\ needs_new
    <3>1. viewer'.resized = (viewer.shared # None)
      BY <2>3 DEF Buffer, Resizes, needs_new, ViewerTypeOK, ViewerState
    <3> QED BY <2>1, <3>1
  <2>4. CASE Publish
    <3>1. file'.len \in Nat /\ file.len = 0
      BY <2>4, ViewerAssumption DEF Publish, ViewerTypeOK, FileFollowsSession, DaemonState
    <3>2. ~Buffer
      BY <2>4 DEF Publish, Buffer
    <3> QED BY <2>1, <2>2, <3>1, <3>2
  <2>5. CASE ~(Buffer /\ needs_new) /\ ~Publish
    <3>1. file'.len = file.len
      BY <1>3, <2>5 DEF DaemonActs, Start, Ends, Terminated, Interrupted, RequestFails,
         BufferFails, HostDisconnected, HostActs, HostRequest, StateCommitted, Lifecycle,
         accept_new_clients, Buffer, ReceivePayload, frame_ready, ViewerTypeOK
    <3> QED BY <2>1, <2>5, <3>1
  <2> QED BY <2>3, <2>4, <2>5
<1> QED BY <1>1, <1>2, <1>3, NextIs

(***************************************************************************)
(* What a client is going to see.                                          *)
(***************************************************************************)
\* Every step of the daemon.
LEMMA PublisherKeepsClient ==
  ASSUME ViewerTypeOK, FileFollowsSession, Client, DaemonActs
  PROVE  Client'
<1>0. /\ viewer'.at = viewer.at /\ viewer'.shared = viewer.shared
      /\ viewer'.began = viewer.began /\ viewer'.unmapped = viewer.unmapped
      /\ UNCHANGED <<channel, ui>> /\ socket \in SocketType
  BY DaemonKeepsViewer DEF ViewerTypeOK, SocketType
<1>1. CASE Ends
  BY <1>1, DaemonEnds, ViewerAssumption DEF Client
<1>2. CASE HostActs
  <2>1. /\ daemon.at = "loop" /\ daemon'.at = "loop"
        /\ UNCHANGED <<session, file, socket, viewer, channel, ui>>
    BY <1>2, HostActsIdly
  <2> QED BY <2>1 DEF Client, HearsOfTheEnd, MapsSession, SeesNewest, IsNewest
<1>3. CASE HostDisconnected /\ ~daemon.had_host_session
  <2>1. /\ session' = None /\ socket' = broadcast(Disconnected)
        /\ socket'.state = socket.state
    BY <1>3, IdleDisconnect
  <2>2. socket.state = "client" =>
          socket'.queue # <<>> /\ socket'.queue[Len(socket'.queue)] = Disconnected
    BY <1>0, <2>1, Broadcasts, MessageTypes
  <2> QED BY <2>1, <2>2 DEF Client, HearsOfTheEnd
<1>4. CASE Start
  BY <1>4 DEF Start, Client, HearsOfTheEnd, MapsSession, SeesNewest, IsNewest,
     FileFollowsSession, Up
<1>5. CASE accept_new_clients
  <2>1. CASE session = None
    <3>1. socket'.queue = <<Disconnected>> /\ session' = None
      BY <1>5, <2>1 DEF accept_new_clients
    <3> QED BY <3>1 DEF Client, HearsOfTheEnd
  <2>2. CASE session # None
    <3>1. /\ socket'.queue = <<SessionStart(session.size), FrameReady>>
          /\ session' = session
      BY <1>5, <2>2 DEF accept_new_clients
    <3>2. MapsSession'
      BY <3>1 DEF MapsSession
    <3>3. SeesNewest'
      BY <3>1 DEF SeesNewest
    <3> QED BY <2>2, <3>1, <3>2, <3>3 DEF Client
  <2> QED BY <2>1, <2>2
<1>6. CASE Buffer
  <2>1. /\ daemon.at = "loop" /\ daemon'.at \in {"resizing", "receiving"}
        /\ UNCHANGED <<session, socket>>
    BY <1>6 DEF Buffer, ViewerTypeOK, DaemonState
  <2> QED BY <1>0, <2>1 DEF Client, HearsOfTheEnd, MapsSession
<1>7. CASE Publish
  <2>1. /\ daemon'.at = "receiving" /\ session' # None
        /\ session'.size = daemon.committed /\ daemon.committed \in FrameSizes
        /\ socket' = broadcast(SessionStart(daemon.committed))
    <3>1. daemon.committed \in FrameSizes
      BY <1>7 DEF Publish, FileFollowsSession, ViewerTypeOK, DaemonState
    <3>2. session' = [size |-> daemon.committed, generation |-> 0]
      BY <1>7 DEF Publish
    <3>3. session' \in Session
      BY <3>1, <3>2 DEF Session
    <3> QED BY <1>7, <3>1, <3>2, <3>3, ViewerAssumption
            DEF Publish, ViewerTypeOK, DaemonState
  <2>2. SessionStart(daemon.committed) \in Message
    BY <2>1, MessageTypes
  <2>3. socket'.state = socket.state
    BY <1>0, <2>1, <2>2, Broadcasts
  <2>4. ASSUME socket.state = "client" PROVE MapsSession'
    <3> DEFINE r == socket'.queue
    <3>1. /\ r[Len(r)] = SessionStart(daemon.committed) /\ Len(r) \in DOMAIN r
          /\ DOMAIN r = DOMAIN socket.queue \cup {Len(r)}
          /\ \A j \in DOMAIN socket.queue : j < Len(r)
      BY <1>0, <2>1, <2>2, <2>4, Broadcasts
    <3>2. \A j \in DOMAIN r : ~(j > Len(r))
      <4>1. Len(r) \in Nat /\ \A j \in DOMAIN socket.queue : j \in Nat
        BY <1>0, <2>1, <2>2, Broadcasts DEF SocketType
      <4> QED BY <3>1, <4>1
    <3> QED BY <2>1, <3>1, <3>2 DEF MapsSession
  <2> QED BY <2>1, <2>3, <2>4 DEF Client
<1>8. CASE ReceivePayload
  <2>1. /\ daemon.at = "receiving" /\ daemon'.at = "publishing"
        /\ UNCHANGED <<session, socket>>
    BY <1>8 DEF ReceivePayload, ViewerTypeOK, DaemonState
  <2> QED BY <1>0, <2>1 DEF Client, HearsOfTheEnd, MapsSession
<1>9. CASE frame_ready
  <2>1. session \in Session /\ session # None /\ daemon.at = "publishing"
    BY <1>9 DEF frame_ready, FileFollowsSession, ViewerTypeOK
  <2>2. session' \in Session /\ session'.size = session.size
    BY <1>9, <2>1 DEF frame_ready, Session
  <2>3. socket' = broadcast(FrameReady)
    BY <1>9 DEF frame_ready
  <2>4. socket'.state = socket.state
    BY <1>0, <2>3, Broadcasts, MessageTypes
  <2>5. ASSUME socket.state = "client"
        PROVE  /\ socket'.queue # <<>> /\ socket'.queue[Len(socket'.queue)] = FrameReady
               /\ DOMAIN socket'.queue = DOMAIN socket.queue \cup {Len(socket'.queue)}
               /\ \A j \in DOMAIN socket.queue : socket'.queue[j] = socket.queue[j]
    BY <1>0, <2>3, <2>5, Broadcasts, MessageTypes
  <2>6. ASSUME socket.state = "client" PROVE MapsSession'
    <3>1. MapsSession
      BY <2>1, <2>6 DEF Client
    <3>2. CASE \E i \in DOMAIN socket.queue :
                 /\ socket.queue[i] = SessionStart(session.size)
                 /\ \A j \in DOMAIN socket.queue : j > i => socket.queue[j] = FrameReady
      <4>1. PICK i \in DOMAIN socket.queue :
                 /\ socket.queue[i] = SessionStart(session.size)
                 /\ \A j \in DOMAIN socket.queue : j > i => socket.queue[j] = FrameReady
        BY <3>2
      <4>2. /\ i \in DOMAIN socket'.queue
            /\ socket'.queue[i] = SessionStart(session'.size)
            /\ \A j \in DOMAIN socket'.queue : j > i => socket'.queue[j] = FrameReady
        BY <2>2, <2>5, <2>6, <4>1
      <4> QED BY <4>2 DEF MapsSession
    <3>3. CASE /\ \A j \in DOMAIN socket.queue : socket.queue[j] = FrameReady
               /\ \/ viewer.unmapped
                  \/ viewer.shared = [size |-> session.size, len |-> session.size]
      <4>1. \A j \in DOMAIN socket'.queue : socket'.queue[j] = FrameReady
        BY <2>5, <2>6, <3>3
      <4> QED BY <1>0, <2>2, <3>3, <4>1 DEF MapsSession
    <3> QED BY <3>1, <3>2, <3>3 DEF MapsSession
  <2>7. ASSUME socket.state = "client" PROVE SeesNewest'
    BY <2>5, <2>7 DEF SeesNewest
  <2>8. session' # None
    BY <2>2, ViewerAssumption
  <2> QED BY <2>4, <2>6, <2>7, <2>8 DEF Client
<1> QED BY <1>1, <1>2, <1>3, <1>4, <1>5, <1>6, <1>7, <1>8, <1>9 DEF DaemonActs

\* A message is read that is not the last: what the last one says still holds.
\* Of the last one, its reader says what it does.
LEMMA ReadsKeepClient ==
  ASSUME ViewerTypeOK, Client, NEW t, Reads(t), UNCHANGED <<daemon, session, file>>,
         Tail(socket.queue) = <<>> /\ socket.state = "client" =>
           /\ session = None => HearsOfTheEnd'
           /\ session # None /\ daemon.at = "loop" => SeesNewest',
         socket.state = "client" /\ session # None /\ daemon.at # "resizing" =>
           MapsSession'
  PROVE  Client'
<1> DEFINE q == socket.queue
<1>1. /\ q \in Seq(Message) /\ q # <<>> /\ socket'.queue = Tail(q)
      /\ socket'.state = socket.state
  BY ReadsType
<1>2. Tail(q) # <<>> => Tail(q)[Len(Tail(q))] = q[Len(q)]
  BY <1>1, TailOf
<1>3. CASE Tail(q) = <<>>
  BY <1>1, <1>3 DEF Client
<1>4. CASE Tail(q) # <<>>
  <2>1. /\ socket'.queue # <<>>
        /\ socket'.queue[Len(socket'.queue)] = q[Len(q)]
    BY <1>1, <1>2, <1>4
  <2>2. socket.state = "client" /\ session = None => HearsOfTheEnd'
    BY <1>1, <2>1 DEF Client, HearsOfTheEnd
  <2>3. socket.state = "client" /\ session # None /\ daemon.at = "loop" => SeesNewest'
    BY <1>1, <2>1 DEF Client, SeesNewest
  <2> QED BY <1>1, <2>2, <2>3 DEF Client
<1> QED BY <1>3, <1>4

\* The mapping a client is going to have, after any message but a new session.
LEMMA ReadsKeepMapping ==
  ASSUME ViewerTypeOK, MapsSession, NEW t, Reads(t), UNCHANGED session,
         t # "session_start",
         t = "frame_ready" => /\ viewer'.shared = viewer.shared
                              /\ viewer'.unmapped = viewer.unmapped
  PROVE  MapsSession'
<1> DEFINE q == socket.queue
<1>1. /\ q \in Seq(Message) /\ q # <<>> /\ socket'.queue = Tail(q)
      /\ Head(q).type = t
  BY ReadsType
<1>2. /\ Head(q) = q[1] /\ 1 \in DOMAIN q
      /\ \A i \in DOMAIN Tail(q) : i + 1 \in DOMAIN q /\ Tail(q)[i] = q[i + 1]
      /\ \A i \in DOMAIN q : i = 1 \/ i - 1 \in DOMAIN Tail(q)
      /\ DOMAIN q \subseteq Nat /\ DOMAIN Tail(q) \subseteq Nat
  BY <1>1, TailOf
<1>3. CASE \E i \in DOMAIN q :
             /\ q[i] = SessionStart(session.size)
             /\ \A j \in DOMAIN q : j > i => q[j] = FrameReady
  <2>1. PICK i \in DOMAIN q :
             /\ q[i] = SessionStart(session.size)
             /\ \A j \in DOMAIN q : j > i => q[j] = FrameReady
    BY <1>3
  <2>2. i # 1
    BY <1>1, <1>2, <2>1, MessageTypes
  <2>3. i - 1 \in DOMAIN Tail(q) /\ Tail(q)[i - 1] = SessionStart(session.size)
    BY <1>2, <2>1, <2>2
  <2>4. \A j \in DOMAIN Tail(q) : j > i - 1 => Tail(q)[j] = FrameReady
    BY <1>2, <2>1
  <2> QED BY <1>1, <2>3, <2>4 DEF MapsSession
<1>4. CASE /\ \A j \in DOMAIN q : q[j] = FrameReady
           /\ \/ viewer.unmapped
              \/ viewer.shared = [size |-> session.size, len |-> session.size]
  <2>1. t = "frame_ready"
    BY <1>1, <1>2, <1>4, MessageTypes
  <2>2. \A j \in DOMAIN Tail(q) : Tail(q)[j] = FrameReady
    BY <1>2, <1>4
  <2> QED BY <1>1, <1>4, <2>1, <2>2 DEF MapsSession
<1> QED BY <1>3, <1>4 DEF MapsSession

\* A new session is mapped, or it cannot be.
LEMMA SessionIsMapped ==
  ASSUME ViewerTypeOK, FileFollowsSession, MapsSession, Reads("session_start"),
         UNCHANGED session, session # None, daemon.at # "resizing",
         \/ viewer'.unmapped
         \/ viewer'.shared = [size |-> Head(socket.queue).size, len |-> file.len]
  PROVE  MapsSession'
<1> DEFINE q == socket.queue
<1>1. /\ q \in Seq(Message) /\ q # <<>> /\ socket'.queue = Tail(q)
      /\ Head(q).type = "session_start"
  BY ReadsType
<1>2. /\ Head(q) = q[1] /\ 1 \in DOMAIN q
      /\ \A i \in DOMAIN Tail(q) : i + 1 \in DOMAIN q /\ Tail(q)[i] = q[i + 1]
      /\ \A i \in DOMAIN q : i = 1 \/ i - 1 \in DOMAIN Tail(q)
      /\ DOMAIN q \subseteq Nat /\ DOMAIN Tail(q) \subseteq Nat \ {0}
  BY <1>1, TailOf
<1>3. PICK i \in DOMAIN q :
             /\ q[i] = SessionStart(session.size)
             /\ \A j \in DOMAIN q : j > i => q[j] = FrameReady
  BY <1>1, <1>2, MessageTypes DEF MapsSession
<1>4. CASE i = 1
  <2>1. Head(q).size = session.size /\ file.len = session.size
    BY <1>2, <1>3, <1>4, MessageTypes DEF FileFollowsSession
  <2>2. \A j \in DOMAIN Tail(q) : Tail(q)[j] = FrameReady
    BY <1>2, <1>3, <1>4
  <2> QED BY <1>1, <2>1, <2>2 DEF MapsSession
<1>5. CASE i # 1
  <2>1. i - 1 \in DOMAIN Tail(q) /\ Tail(q)[i - 1] = SessionStart(session.size)
    BY <1>2, <1>3, <1>5
  <2>2. \A j \in DOMAIN Tail(q) : j > i - 1 => Tail(q)[j] = FrameReady
    BY <1>2, <1>3
  <2> QED BY <1>1, <2>1, <2>2 DEF MapsSession
<1> QED BY <1>4, <1>5

\* The last message of a client's queue.
LEMMA LastMessage ==
  ASSUME ViewerTypeOK, Client, NEW t, Reads(t), socket.state = "client",
         Tail(socket.queue) = <<>>
  PROVE  /\ session = None => t = "disconnected"
         /\ session # None /\ daemon.at = "loop" => t = "frame_ready"
<1> DEFINE q == socket.queue
<1>1. /\ q \in Seq(Message) /\ q # <<>> /\ Head(q).type = t
  BY ReadsType
<1>2. Head(q) = q[Len(q)]
  BY <1>1, TailOf
<1> QED BY <1>1, <1>2, MessageTypes DEF Client, HearsOfTheEnd, SeesNewest

\* Every step of the socket thread.
LEMMA ReaderKeepsClient ==
  ASSUME ViewerTypeOK, FileFollowsSession, Mapping, Client, Reading
  PROVE  Client'
<1>0. UNCHANGED <<daemon, session, file>>
  BY ViewerKeepsDaemon DEF ViewerActs
<1>1. CASE Eof
  BY <1>1, ViewerAssumption DEF Eof, NoSocket, Client
<1>2. CASE BusError
  BY <1>2, GoneType, ViewerAssumption DEF BusError, Client
<1>3. CASE rgb565_to_rgba
  <2>1. PICK e \in Frame : /\ Sends(e) /\ e.size = viewer.shared.size
                           /\ e.painted \in {viewer.began, file.painted}
    BY <1>3, ConvertsFrame
  <2>2. channel' # <<>> /\ channel'[Len(channel')] = e /\ e.type = "Frame"
    BY <2>1, PlainEvents, Sent DEF ViewerTypeOK
  <2>3. /\ viewer.at = "converting" /\ viewer'.at = "reading" /\ socket' = socket
        /\ viewer'.shared = viewer.shared /\ viewer'.unmapped = viewer.unmapped
    BY <1>3 DEF rgb565_to_rgba, ViewerTypeOK, ViewerState
  <2>4. session = None /\ HearsOfTheEnd => HearsOfTheEnd'
    BY <2>3 DEF HearsOfTheEnd
  <2>5. MapsSession => MapsSession'
    BY <1>0, <2>3 DEF MapsSession
  <2>6. ASSUME session # None, daemon.at = "loop", MapsSession, SeesNewest
        PROVE  SeesNewest'
    <3>1. CASE socket.queue = <<>> /\ ~viewer.unmapped
      <4>1. viewer.shared.size = session.size
        BY <2>6, <3>1 DEF MapsSession
      <4>2. viewer.began = session.generation /\ file.painted = session.generation
        BY <2>3, <2>6, <3>1 DEF SeesNewest, FileFollowsSession, ViewerTypeOK, Session
      <4>3. IsNewest(e)
        BY <2>1, <2>2, <4>1, <4>2 DEF IsNewest
      <4>4. IsNewest(channel[Len(channel)])'
        BY <1>0, <2>2, <4>3 DEF IsNewest
      <4> QED BY <2>2, <2>3, <3>1, <4>4 DEF SeesNewest
    <3>2. CASE ~(socket.queue = <<>> /\ ~viewer.unmapped)
      BY <2>3, <2>6, <3>2 DEF SeesNewest
    <3> QED BY <3>1, <3>2
  <2> QED BY <1>0, <2>3, <2>4, <2>5, <2>6 DEF Client
<1>4. CASE ReadSessionStart \/ ReadSessionStartFails
  <2>1. Reads("session_start")
    BY <1>4 DEF ReadSessionStart, ReadSessionStartFails
  <2>2. \/ viewer'.unmapped
        \/ viewer'.shared = [size |-> Head(socket.queue).size, len |-> file.len]
    BY <1>4 DEF ReadSessionStart, ReadSessionStartFails, ViewerTypeOK, ViewerState
  <2>3. socket.state = "client" /\ session # None /\ daemon.at # "resizing" => MapsSession'
    BY <1>0, <2>1, <2>2, SessionIsMapped DEF Client
  <2>4. Tail(socket.queue) = <<>> /\ socket.state = "client" =>
          ~(session = None) /\ ~(session # None /\ daemon.at = "loop")
    BY <2>1, LastMessage
  <2> QED BY <1>0, <2>1, <2>3, <2>4, ReadsKeepClient
<1>5. CASE ReadFrameReadyInVain \/ ReadFrameReady
  <2>1. Reads("frame_ready") /\ viewer.at = "reading"
    BY <1>5, ReadsType DEF ReadFrameReadyInVain, ReadFrameReady
  <2>2. /\ viewer'.shared = viewer.shared /\ viewer'.unmapped = viewer.unmapped
        /\ UNCHANGED <<channel, ui>>
    BY <1>5 DEF ReadFrameReadyInVain, ReadFrameReady, ViewerTypeOK, ViewerState
  <2>3. socket.state = "client" /\ session # None /\ daemon.at # "resizing" => MapsSession'
    BY <1>0, <2>1, <2>2, ReadsKeepMapping DEF Client
  <2>4. ASSUME Tail(socket.queue) = <<>>, socket.state = "client",
               session # None, daemon.at = "loop"
        PROVE  SeesNewest'
    <3>1. CASE viewer.unmapped
      <4>1. socket'.queue = <<>>
        BY <2>1, <2>4, ReadsType
      <4> QED BY <2>2, <3>1, <4>1 DEF SeesNewest
    <3>2. CASE ~viewer.unmapped
      <4>1. socket'.queue = <<>>
        BY <2>1, <2>4, ReadsType
      <4>2. MapsSession'
        BY <2>3, <2>4
      <4>3. viewer.shared = [size |-> session.size, len |-> session.size]
        BY <1>0, <2>2, <3>2, <4>1, <4>2 DEF MapsSession
      <4>4. session.size \in FrameSizes /\ session.size \in Nat
        BY <2>4, ViewerAssumption DEF ViewerTypeOK, Session
      <4>5. viewer.shared \in SharedFramebuffer
        BY <4>3, <4>4 DEF SharedFramebuffer
      <4>6. Fits
        BY <4>3, <4>4, <4>5, ViewerAssumption DEF Fits
      <4>7. viewer'.at = "converting" /\ viewer'.began = file.painted
        BY <1>5, <4>6 DEF ReadFrameReadyInVain, ReadFrameReady, ViewerTypeOK, ViewerState
      <4>8. file.painted = session.generation
        BY <2>4 DEF FileFollowsSession, ViewerTypeOK, Session
      <4> QED BY <1>0, <4>1, <4>7, <4>8 DEF SeesNewest
    <3> QED BY <3>1, <3>2
  <2>5. Tail(socket.queue) = <<>> /\ socket.state = "client" => session # None
    BY <2>1, LastMessage
  <2> QED BY <1>0, <2>1, <2>3, <2>4, <2>5, ReadsKeepClient
<1>6. CASE ReadDisconnected
  <2>1. Reads("disconnected") /\ viewer.at = "reading"
    BY <1>6, ReadsType DEF ReadDisconnected
  <2>2. viewer'.at = "reading"
    BY <1>6, <2>1 DEF ReadDisconnected, ViewerTypeOK, ViewerState
  <2>3. channel' # <<>> /\ channel'[Len(channel')] = [type |-> "Waiting"]
    BY <1>6, PlainEvents, Sent DEF ReadDisconnected, ViewerTypeOK
  <2>4. ASSUME Tail(socket.queue) = <<>> PROVE HearsOfTheEnd'
    <3>1. socket'.queue = <<>>
      BY <2>1, <2>4, ReadsType
    <3>2. channel'[Len(channel')].type = "Waiting"
      BY <2>3
    <3> QED BY <2>2, <2>3, <3>1, <3>2 DEF HearsOfTheEnd
  <2>5. socket.state = "client" /\ session # None /\ daemon.at # "resizing" => MapsSession'
    BY <1>0, <2>1, ReadsKeepMapping DEF Client
  <2>6. Tail(socket.queue) = <<>> /\ socket.state = "client" =>
          ~(session # None /\ daemon.at = "loop")
    BY <2>1, LastMessage
  <2> QED BY <1>0, <2>1, <2>4, <2>5, <2>6, ReadsKeepClient
<1>7. CASE ReadShutdown
  <2>1. Reads("shutdown")
    BY <1>7 DEF ReadShutdown
  <2>2. socket.state = "client" /\ session # None /\ daemon.at # "resizing" => MapsSession'
    BY <1>0, <2>1, ReadsKeepMapping DEF Client
  <2>3. Tail(socket.queue) = <<>> /\ socket.state = "client" =>
          ~(session = None) /\ ~(session # None /\ daemon.at = "loop")
    BY <2>1, LastMessage
  <2> QED BY <1>0, <2>1, <2>2, <2>3, ReadsKeepClient
<1> QED BY <1>1, <1>2, <1>3, <1>4, <1>5, <1>6, <1>7 DEF Reading

\* The UI thread takes an event from the channel.
LEMMA WindowKeepsClient ==
  ASSUME ViewerTypeOK, Client, ShowFrame \/ ShowWaiting
  PROVE  Client'
<1>1. /\ UNCHANGED <<daemon, session, file, socket, viewer>>
      /\ channel # <<>> /\ channel' = Tail(channel) /\ channel \in Seq(UiEvent)
  BY DEF ShowFrame, ShowWaiting, daemonVars, ViewerTypeOK
<1>2. channel' # <<>> => channel'[Len(channel')] = channel[Len(channel)]
  BY <1>1, TailOf
<1>3. channel' = <<>> => Head(channel) = channel[Len(channel)]
  BY <1>1, TailOf
<1>4. channel' = <<>> /\ channel[Len(channel)].type = "Waiting" => ui'.page = "waiting"
  BY <1>3 DEF ShowFrame, ShowWaiting
<1>5. ASSUME channel' = <<>>, IsNewest(channel[Len(channel)])
      PROVE  ui'.page = "viewer" /\ IsNewest(ui.picture)'
  <2>1. Head(channel).type = "Frame"
    BY <1>3, <1>5 DEF IsNewest
  <2>2. ui' = [page |-> "viewer", picture |-> Head(channel)]
    BY <2>1 DEF ShowFrame, ShowWaiting
  <2> QED BY <1>1, <1>3, <1>5, <2>2 DEF IsNewest
<1>6. HearsOfTheEnd => HearsOfTheEnd'
  BY <1>1, <1>2, <1>4 DEF HearsOfTheEnd
<1>7. MapsSession => MapsSession'
  BY <1>1 DEF MapsSession
<1>8. SeesNewest => SeesNewest'
  <2>1. channel' # <<>> /\ IsNewest(channel[Len(channel)])
          => IsNewest(channel[Len(channel)])'
    BY <1>1, <1>2 DEF IsNewest
  <2> QED BY <1>1, <1>5, <2>1 DEF SeesNewest
<1> QED BY <1>1, <1>6, <1>7, <1>8 DEF Client

LEMMA ClientStep ==
  ASSUME ViewerTypeOK, FileFollowsSession, Connection, Mapping, Client, Next
  PROVE  Client'
<1>1. CASE DaemonActs
  BY <1>1, PublisherKeepsClient
<1>2. CASE Reading
  BY <1>2, ReaderKeepsClient
<1>3. CASE ShowFrame \/ ShowWaiting
  BY <1>3, WindowKeepsClient
<1>4. CASE Launch \/ ConnectFails
  <2>1. socket' = socket /\ viewer.at \in {"gone", "connecting"}
    BY <1>4 DEF Launch, ConnectFails
  <2> QED BY <2>1, ViewerAssumption DEF Client, Connection
<1>5. CASE Connect
  BY <1>5 DEF Connect, Client
<1>6. CASE CloseWindow \/ CloseOnShutdown
  BY <1>6, GoneType, ViewerAssumption DEF CloseWindow, CloseOnShutdown, Client
<1> QED BY <1>1, <1>2, <1>3, <1>4, <1>5, <1>6, NextIs DEF ViewerActs

(***************************************************************************)
(* The theorems.                                                           *)
(***************************************************************************)
LEMMA ViewerInitial == Init => ViewerInv
<1> SUFFICES ASSUME Init PROVE ViewerInv
  OBVIOUS
<1>1. ViewerTypeOK
  BY DEF Init, NoHost, NoSocket, NoViewer, ViewerTypeOK, DaemonState, ViewerState
<1>2. FileFollowsSession /\ Connection /\ Mapping
  BY DEF Init, NoHost, NoSocket, NoViewer, FileFollowsSession, Connection, Mapping,
     Fits, Up
<1>3. Client
  BY ViewerAssumption DEF Init, NoSocket, Client
<1> QED BY <1>1, <1>2, <1>3 DEF ViewerInv

LEMMA ViewerStep == ViewerInv /\ [Next]_vars => ViewerInv'
<1> SUFFICES ASSUME ViewerInv, [Next]_vars PROVE ViewerInv'
  OBVIOUS
<1>1. CASE Next
  <2>1. ViewerTypeOK'
    BY <1>1, DaemonKeepsTypes, ReaderKeepsTypes, WindowKeepsTypes DEF Next, ViewerInv
  <2> QED BY <1>1, <2>1, FileStep, ConnectionStep, MappingStep, ClientStep DEF ViewerInv
<1>2. CASE UNCHANGED vars
  BY <1>2 DEF vars, ViewerInv, ViewerTypeOK, FileFollowsSession, Connection, Mapping,
     Fits, Up, Client, HearsOfTheEnd, MapsSession, SeesNewest, IsNewest
<1> QED BY <1>1, <1>2

LEMMA ViewerInvariant == Spec => []ViewerInv
BY ViewerInitial, ViewerStep, PTL DEF Spec

\* A viewer that has read everything it was sent shows the newest frame of the
\* session in its geometry, or the waiting page when there is no session,
\* however viewerd's resizes and restarts and the viewer's reads interleave.
THEOREM ViewersCatchUp == Spec => []CaughtUp
<1>1. ViewerInv => CaughtUp
  <2> SUFFICES ASSUME ViewerInv, daemon.at = "loop", viewer.at = "reading",
                      ~viewer.unmapped, channel = <<>>,
                      socket = [state |-> "client", queue |-> <<>>]
               PROVE  IF session = None
                      THEN ui.page = "waiting"
                      ELSE /\ ui.page = "viewer"
                           /\ ui.picture.size = session.size
                           /\ ui.picture.painted = session.generation
    BY DEF CaughtUp
  <2>1. socket.state = "client" /\ socket.queue = <<>>
    OBVIOUS
  <2> QED BY <2>1 DEF ViewerInv, Client, HearsOfTheEnd, SeesNewest, IsNewest
<1> QED BY <1>1, ViewerInvariant, PTL

\* The conversion of a frame reads past the end of the shared file only when a
\* mode change or a restart of viewerd resized it under the mapping.
THEOREM SameModeStaysSafe == Spec => []SameModeIsSafe
<1>1. ViewerInv => SameModeIsSafe
  <2> SUFFICES ASSUME ViewerInv, viewer.at = "converting", file.len < viewer.shared.size,
                      ~viewer.resized
               PROVE  FALSE
    BY DEF SameModeIsSafe
  <2>1. Fits /\ file.len >= viewer.shared.size
    BY DEF ViewerInv, Mapping
  <2>2. file.len \in Nat /\ viewer.shared.size \in Nat
    BY <2>1, ViewerAssumption
       DEF ViewerInv, ViewerTypeOK, ViewerState, Fits, SharedFramebuffer
  <2> QED BY <2>1, <2>2
<1> QED BY <1>1, ViewerInvariant, PTL
=============================================================================
