------------------------------- MODULE Viewer -------------------------------
(***************************************************************************)
(* The windowed viewer: the daemon that owns the gadget (viewerd), the     *)
(* messages it publishes (viewer-ipc) and the GTK application that shows   *)
(* them (viewer-gtk).  The daemon's event loop, the application's socket   *)
(* thread and its UI thread run concurrently; the pixels are shared        *)
(* through one file that the daemon truncates and resizes in place.        *)
(*                                                                         *)
(* A frame size stands for its width, height and stride and is measured in *)
(* bytes.  Pixels are abstracted to the generation of the frame that was   *)
(* painted last; 0 are the zeros of a new file.  The greeting Hello, which *)
(* the viewer skips, is left out, and so is the stream of a viewer that is *)
(* gone, which the daemon drops at its next broadcast.                     *)
(***************************************************************************)
EXTENDS Naturals, Sequences

CONSTANTS
  FrameSizes,   \* the sizes of the advertised modes
  None,         \* stands for Option::None
  QueueLimit,   \* messages that fit into a socket buffer
  MaxFrames,    \* bound: frames of one session
  MaxEvents     \* bound: events the UI thread lags behind

\* PublishedSession, and the viewer's mapping of the file.
Session == [size : FrameSizes, generation : Nat]
SharedFramebuffer == [size : FrameSizes, len : Nat]

ASSUME ViewerAssumption ==
  /\ FrameSizes \subseteq Nat \ {0}
  /\ None \notin Nat \cup Session \cup SharedFramebuffer
  /\ None \notin {"backlog", "client", "eof"}
  /\ QueueLimit \in Nat \ {0, 1}
  /\ {MaxFrames, MaxEvents} \subseteq Nat

VARIABLES
  daemon,    \* where its loop is, had_host_session, the committed size
  session,   \* current_session: its size and generation, or None
  file,      \* the shared framebuffer: its length and what is painted
  socket,    \* the viewer's connection and the messages in it
  viewer,    \* the socket thread
  channel,   \* the UiEvents between the viewer's threads
  ui         \* the page of the stack and the picture

vars == <<daemon, session, file, socket, viewer, channel, ui>>

daemonVars == <<daemon, session, file>>
viewerVars == <<viewer, channel, ui>>

\* "loop" is the top of the loop, with its accept, up to the poll; the others
\* are inside the Buffer arm.  A failed daemon is restarted by its service,
\* an ended one is not.
Up == daemon.at \in {"loop", "resizing", "receiving", "publishing"}
Alive == viewer.at # "gone"

NoSocket == [state |-> None, queue |-> <<>>]
SessionStart(s) == [type |-> "session_start", size |-> s]
FrameReady == [type |-> "frame_ready"]  \* the viewer ignores its fields
Disconnected == [type |-> "disconnected"]
ShutdownMessage == [type |-> "shutdown"]

NoViewer == [at |-> "gone", waiting_sent |-> FALSE, shared |-> None, began |-> 0,
             unmapped |-> FALSE, resized |-> FALSE, told |-> FALSE]

\* A daemon that has no host session.
NoHost(at) == [at |-> at, had_host_session |-> FALSE, committed |-> None]

Init ==
  /\ daemon = NoHost("failed")
  /\ session = None
  /\ file = [len |-> 0, painted |-> 0]
  /\ socket = NoSocket
  /\ viewer = NoViewer
  /\ channel = <<>>
  /\ ui = [page |-> "waiting", picture |-> None]

(***************************************************************************)
(* The publisher.  The accepted streams are blocking: a broadcast waits    *)
(* for room in the socket buffer.                                          *)
(***************************************************************************)
HasRoom(n) == socket.state = "client" => Len(socket.queue) + n <= QueueLimit

\* What a broadcast of m makes of the connection.
broadcast(m) ==
  IF socket.state = "client" THEN [socket EXCEPT !.queue = Append(@, m)] ELSE socket

\* The process ends: messages in the socket can still be read.
hung_up(s) == IF s.state = None THEN s ELSE [s EXCEPT !.state = "eof"]

\* main returns an error and nobody is told.
Fails ==
  /\ daemon' = NoHost("failed")
  /\ session' = None
  /\ socket' = hung_up(socket)

Start ==
  /\ daemon.at = "failed"
  /\ daemon' = NoHost("loop")
  /\ UNCHANGED <<session, file, socket, viewer, channel, ui>>

\* SIGTERM, which the daemon does not handle: the service is stopped.
Terminated ==
  /\ Up
  /\ daemon' = NoHost("ended")
  /\ session' = None
  /\ socket' = hung_up(socket)
  /\ UNCHANGED <<file, viewer, channel, ui>>

\* SIGINT, seen at the top of the loop.
Interrupted ==
  /\ daemon.at = "loop" /\ HasRoom(1)
  /\ daemon' = NoHost("ended")
  /\ session' = None
  /\ socket' = hung_up(broadcast(ShutdownMessage))
  /\ UNCHANGED <<file, viewer, channel, ui>>

\* A viewer that waits in the backlog is told where the session stands.  (An
\* accept may fail, and is then tried again in a later turn.)
accept_new_clients ==
  /\ daemon.at = "loop" /\ socket.state = "backlog"
  /\ socket' = [ state |-> "client",
                 queue |-> IF session = None
                           THEN <<Disconnected>>
                           ELSE <<SessionStart(session.size), FrameReady>> ]
  /\ UNCHANGED <<daemon, session, file, viewer, channel, ui>>

(***************************************************************************)
(* The event loop.                                                         *)
(***************************************************************************)
\* The end of a turn after host activity, or without.  A poll that times out
\* or fails changes nothing.
Continues(active, committed) ==
  daemon' = [daemon EXCEPT !.at = "loop", !.committed = committed,
                           !.had_host_session = @ \/ active]

\* A request of the host that is answered, or checks a mode.
HostRequest ==
  /\ daemon.at = "loop"
  /\ Continues(TRUE, daemon.committed)
  /\ UNCHANGED <<session, file, socket, viewer, channel, ui>>

StateCommitted(s) ==
  /\ daemon.at = "loop"
  /\ Continues(TRUE, s)
  /\ UNCHANGED <<session, file, socket, viewer, channel, ui>>

\* BIND, ENABLE, SUSPEND, RESUME and UNBIND reset the protocol only.
Lifecycle ==
  /\ daemon.at = "loop"
  /\ Continues(FALSE, None)
  /\ UNCHANGED <<session, file, socket, viewer, channel, ui>>

\* An answer cannot be sent.
RequestFails ==
  /\ daemon.at = "loop"
  /\ Fails
  /\ UNCHANGED <<file, viewer, channel, ui>>

\* DISABLE, or a poll that finds the UDC detached after a host session.
HostDisconnected ==
  /\ daemon.at = "loop" /\ HasRoom(1)
  /\ session' = None
  /\ IF daemon.had_host_session
     THEN /\ daemon' = NoHost("failed")
          /\ socket' = hung_up(broadcast(Disconnected))
     ELSE /\ Continues(FALSE, None)
          /\ socket' = broadcast(Disconnected)
  /\ UNCHANGED <<file, viewer, channel, ui>>

\* Mutation: every buffer gets a new session.
needs_new_always == TRUE

needs_new == session = None \/ session.size # daemon.committed

\* Whether the file changes under a mapping because the mode changed or the
\* daemon was restarted.  (Recorded for SameModeIsSafe.)
Resizes ==
  viewer' = [viewer EXCEPT !.resized =
    viewer.shared # None
      /\ (@ \/ session = None \/ session.size # daemon.committed)]

\* SET_BUFFER: a new size truncates the file.
Buffer ==
  /\ daemon.at = "loop" /\ daemon.committed # None
  /\ session # None => session.generation < MaxFrames
  /\ daemon' = [daemon EXCEPT !.had_host_session = TRUE,
                              !.at = IF needs_new THEN "resizing" ELSE "receiving"]
  /\ IF needs_new
     THEN file' = [len |-> 0, painted |-> 0] /\ Resizes
     ELSE UNCHANGED <<file, viewer>>
  /\ UNCHANGED <<session, socket, channel, ui>>

\* Mutation: the session is announced before the file has its length.
PublishAnnouncesFirst ==
  /\ daemon.at = "resizing" /\ HasRoom(1)
  /\ session' = [size |-> daemon.committed, generation |-> 0]
  /\ daemon' = [daemon EXCEPT !.at = "receiving"]
  /\ socket' = broadcast(SessionStart(daemon.committed))
  /\ UNCHANGED <<file, viewer, channel, ui>>

\* The rest of PublishedSession::new, and its announcement.
Publish ==
  /\ daemon.at = "resizing" /\ HasRoom(1)
  /\ file' = [file EXCEPT !.len = daemon.committed]
  /\ session' = [size |-> daemon.committed, generation |-> 0]
  /\ daemon' = [daemon EXCEPT !.at = "receiving"]
  /\ socket' = broadcast(SessionStart(daemon.committed))
  /\ UNCHANGED <<viewer, channel, ui>>

\* The payload arrives and is copied.
ReceivePayload ==
  /\ daemon.at = "receiving"
  /\ file' = [file EXCEPT !.painted = session.generation + 1]
  /\ daemon' = [daemon EXCEPT !.at = "publishing"]
  /\ UNCHANGED <<session, socket, viewer, channel, ui>>

frame_ready ==
  /\ daemon.at = "publishing" /\ HasRoom(1)
  /\ session' = [session EXCEPT !.generation = @ + 1]
  /\ daemon' = [daemon EXCEPT !.at = "loop"]
  /\ socket' = broadcast(FrameReady)
  /\ UNCHANGED <<file, viewer, channel, ui>>

\* The file, the payload or the copy fails.
BufferFails ==
  /\ daemon.at \in {"resizing", "receiving"}
  /\ Fails
  /\ UNCHANGED <<file, viewer, channel, ui>>

(***************************************************************************)
(* The socket thread.                                                      *)
(***************************************************************************)
Sends(event) ==
  /\ Len(channel) < MaxEvents
  /\ channel' = Append(channel, event)

Launch ==
  /\ viewer.at = "gone"
  /\ viewer' = [viewer EXCEPT !.at = "connecting"]
  /\ channel' = <<>>
  /\ ui' = [page |-> "waiting", picture |-> None]
  /\ UNCHANGED <<daemonVars, socket>>

\* The process is gone, and with it its end of the connection.
Gone ==
  /\ viewer' = NoViewer
  /\ channel' = <<>>
  /\ ui' = [page |-> "closed", picture |-> None]
  /\ socket' = NoSocket

\* Mutation: the flag is never reset.
ConnectKeepsFlag ==
  /\ viewer.at = "connecting" /\ Up
  /\ viewer' = [viewer EXCEPT !.at = "reading", !.told = FALSE]
  /\ socket' = [state |-> "backlog", queue |-> <<>>]
  /\ UNCHANGED <<daemonVars, channel, ui>>

Connect ==
  /\ viewer.at = "connecting" /\ Up
  /\ viewer' = [viewer EXCEPT !.at = "reading", !.waiting_sent = FALSE, !.told = FALSE]
  /\ socket' = [state |-> "backlog", queue |-> <<>>]
  /\ UNCHANGED <<daemonVars, channel, ui>>

ConnectFails ==
  /\ viewer.at = "connecting" /\ ~Up
  /\ ~viewer.waiting_sent
  /\ Sends([type |-> "Waiting"])
  /\ viewer' = [viewer EXCEPT !.waiting_sent = TRUE]
  /\ UNCHANGED <<daemonVars, socket, ui>>

\* End of file.
Eof ==
  /\ viewer.at = "reading"
  /\ socket.state = "eof" /\ socket.queue = <<>>
  /\ viewer' = [viewer EXCEPT !.at = "connecting", !.shared = None, !.unmapped = FALSE,
                              !.resized = FALSE]
  /\ socket' = NoSocket
  /\ UNCHANGED <<daemonVars, channel, ui>>

\* The thread takes the next message, of this type.
Reads(type) ==
  /\ viewer.at = "reading"
  /\ socket.queue # <<>> /\ Head(socket.queue).type = type
  /\ socket' = [socket EXCEPT !.queue = Tail(@)]
  /\ UNCHANGED daemonVars

\* The mapping has the length the file has now, whatever the message says.
ReadSessionStart ==
  /\ Reads("session_start")
  /\ viewer' = [viewer EXCEPT
       !.shared = [size |-> Head(socket.queue).size, len |-> file.len],
       !.unmapped = FALSE, !.resized = FALSE]
  /\ UNCHANGED <<channel, ui>>

\* A failure leaves the old mapping in place.
ReadSessionStartFails ==
  /\ Reads("session_start")
  /\ viewer' = [viewer EXCEPT !.unmapped = TRUE]
  /\ UNCHANGED <<channel, ui>>

\* The length check of rgb565_to_rgba.
Fits == viewer.shared # None /\ viewer.shared.len >= viewer.shared.size

\* Mutation: the message is not taken from the socket.
ReadFrameReadyStuck ==
  /\ viewer.at = "reading"
  /\ socket.queue # <<>> /\ Head(socket.queue).type = "frame_ready"
  /\ ~Fits
  /\ UNCHANGED vars

ReadFrameReadyInVain ==
  /\ Reads("frame_ready")
  /\ ~Fits
  /\ UNCHANGED <<viewer, channel, ui>>

\* The conversion starts; it ends with what was painted then or is now.
ReadFrameReady ==
  /\ Reads("frame_ready")
  /\ Fits
  /\ viewer' = [viewer EXCEPT !.at = "converting", !.began = file.painted]
  /\ UNCHANGED <<channel, ui>>

rgb565_to_rgba ==
  /\ viewer.at = "converting"
  /\ \E p \in {viewer.began, file.painted} :
       Sends([type |-> "Frame", size |-> viewer.shared.size, painted |-> p])
  /\ viewer' = [viewer EXCEPT !.at = "reading", !.began = 0]
  /\ UNCHANGED <<daemonVars, socket, ui>>

\* The conversion touches a page the file no longer has: SIGBUS.
BusError ==
  /\ viewer.at = "converting" /\ file.len < viewer.shared.size
  /\ Gone
  /\ UNCHANGED daemonVars

\* (told is recorded for NoFrozenFrame.)
ReadDisconnected ==
  /\ Reads("disconnected")
  /\ viewer' = [viewer EXCEPT !.shared = None, !.waiting_sent = TRUE, !.told = TRUE]
  /\ Sends([type |-> "Waiting"])
  /\ UNCHANGED ui

\* The thread returns.
ReadShutdown ==
  /\ Reads("shutdown")
  /\ viewer' = [viewer EXCEPT !.at = "returned"]
  /\ Sends([type |-> "Shutdown"])
  /\ UNCHANGED ui

(***************************************************************************)
(* The UI thread.                                                          *)
(***************************************************************************)
ShowFrame ==
  /\ channel # <<>> /\ Head(channel).type = "Frame"
  /\ ui' = [page |-> "viewer", picture |-> Head(channel)]
  /\ channel' = Tail(channel)
  /\ UNCHANGED <<daemonVars, socket, viewer>>

ShowWaiting ==
  /\ channel # <<>> /\ Head(channel).type = "Waiting"
  /\ ui' = [page |-> "waiting", picture |-> None]
  /\ channel' = Tail(channel)
  /\ UNCHANGED <<daemonVars, socket, viewer>>

\* The window closes, told by the daemon or by the user.
CloseWindow ==
  /\ Alive
  /\ Gone
  /\ UNCHANGED daemonVars

\* The last event of a Shutdown.
CloseOnShutdown ==
  /\ channel # <<>> /\ Head(channel).type = "Shutdown"
  /\ Gone
  /\ UNCHANGED daemonVars

Reading ==
  \/ Eof \/ ReadSessionStart \/ ReadSessionStartFails \/ ReadFrameReadyInVain
  \/ ReadFrameReady \/ rgb565_to_rgba \/ BusError \/ ReadDisconnected \/ ReadShutdown

Next ==
  \/ Start \/ Terminated \/ Interrupted \/ accept_new_clients
  \/ HostRequest \/ (\E s \in FrameSizes : StateCommitted(s)) \/ Lifecycle
  \/ RequestFails \/ HostDisconnected
  \/ Buffer \/ Publish \/ ReceivePayload \/ frame_ready \/ BufferFails
  \/ Launch \/ Connect \/ ConnectFails \/ Reading
  \/ ShowFrame \/ ShowWaiting \/ CloseWindow \/ CloseOnShutdown

\* The daemon's broadcasts go on when there is room, the viewer's threads run,
\* and a failed connect is tried again every second.  Nothing is assumed of
\* the host, the service, signals or the user.
Fairness ==
  /\ WF_vars(Publish) /\ WF_vars(frame_ready)
  /\ WF_vars(Connect \/ ConnectFails) /\ WF_vars(Reading)
  /\ WF_vars(ShowFrame \/ ShowWaiting \/ CloseOnShutdown)

Spec == Init /\ [][Next]_vars /\ Fairness

(***************************************************************************)
(* Properties.                                                             *)
(***************************************************************************)

\* A viewer that has caught up shows what there is to see, however resizes,
\* restarts and reconnects were interleaved with its reads: the waiting page
\* without a session, and otherwise the newest frame in the geometry of the
\* session.  (Unless the file could not be mapped.)
CaughtUp ==
  /\ daemon.at = "loop"
  /\ viewer.at = "reading" /\ ~viewer.unmapped
  /\ socket = [state |-> "client", queue |-> <<>>] /\ channel = <<>>
  =>
  IF session = None
  THEN ui.page = "waiting"
  ELSE /\ ui.page = "viewer"
       /\ ui.picture.size = session.size /\ ui.picture.painted = session.generation

\* While the host keeps its mode and the daemon runs, no conversion reads past
\* the end of the shared file: only a resize can overtake a mapping.
SameModeIsSafe ==
  viewer.at = "converting" /\ file.len < viewer.shared.size => viewer.resized

\* A slow viewer delays the daemon's blocking broadcasts, and with them EP0,
\* but it does not hold them up for ever.
BroadcastEnds ==
  daemon.at \in {"resizing", "publishing"} ~> daemon.at \notin {"resizing", "publishing"}

\* When the daemon has ended for good, with or without a farewell, no window
\* goes on showing its last frame.  (Unless that connection was told of a
\* disconnect before its first frame: waiting_sent is still set then.)
NoFrozenFrame == <>[](daemon.at = "ended" => ui.page # "viewer" \/ viewer.told)
=============================================================================
