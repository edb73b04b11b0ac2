---------------------------- MODULE Presentation ----------------------------
(***************************************************************************)
(* What the panel shows (drm/src/main.rs, production mode: no test         *)
(* pattern).  The scanout moves the way ScanoutContract says.  A frame of  *)
(* a mode the panel runs itself is copied into the front buffer of the     *)
(* active slot; a frame of another mode goes through a shadow that is      *)
(* scaled into the back buffer, which is then flipped.  visible_surface is *)
(* what the daemon believes to be on screen.                               *)
(*                                                                         *)
(* One USB session, any one, is watched.  Of a raster only this is kept:   *)
(* whether it holds traces, pixels painted in the watched session.         *)
(***************************************************************************)
EXTENDS ScanoutContract

CONSTANTS
  ScaledModes,   \* the advertised modes the panel cannot run
  Size,          \* the size of each mode
  None,          \* stands for Option::None
  DisplayFails   \* whether a DRM call may fail

AllModes == Physical \cup ScaledModes
Sizes == { Size[m] : m \in AllModes }
Frame == [area : {"full", "partial"}, size : Sizes]

ASSUME PresentationAssumption ==
  /\ Physical \cap ScaledModes = {}
  /\ None \notin AllModes \cup Frame
  /\ DisplayFails \in BOOLEAN

VARIABLES
  running,
  watch,            \* the current USB session is "before" the watched one,
                    \* "during" it or "after" it
  mode,             \* the committed mode, or None
  route,            \* presentation_route: None, "Direct" or "Scaled"
  frame,            \* the frame that owns the receive path, or None
  contained,        \* the receive path is contained: no frame is admitted
  visible_surface,
  screen,           \* the framebuffer the CRTC is set to
  front,            \* the front buffer of each slot
  traces,           \* whether each buffer of each slot holds traces
  shadow,           \* the source shadow
  blemishes         \* what has happened to the panel that should not

vars == <<slot, physical, running, watch, mode, route, frame, contained,
          visible_surface, screen, front, traces, shadow, blemishes>>

VisibleSurface ==
  {"Content", "WaitingStartup", "WaitingSuspended", "WaitingDisconnected"}

Buffers == 0 .. 1
Content == Slots \X Buffers
WaitingFb == <<3, 0>>
NoShadow == [identity |-> None, valid |-> FALSE, traces |-> FALSE]
Clean == [b \in Buffers |-> FALSE]

PresentationInit ==
  /\ ContractInit
  /\ running = TRUE /\ watch = "before" /\ mode = None /\ route = None
  /\ frame = None /\ contained = FALSE
  /\ visible_surface = "WaitingStartup" /\ screen = WaitingFb
  /\ front = [s \in Slots |-> 0] /\ traces = [s \in Slots |-> Clean]
  /\ shadow = NoShadow
  /\ blemishes = {}

is_waiting == visible_surface # "Content"
surface_after_suspend ==
  IF visible_surface = "Content" THEN "WaitingSuspended" ELSE visible_surface
surface_after_resume ==
  IF visible_surface = "WaitingSuspended" THEN "Content" ELSE visible_surface

\* Content is on screen, or comes back with a RESUME.
Restorable == visible_surface \in {"Content", "WaitingSuspended"}

(***************************************************************************)
(* STATE_COMMIT.  Which outcome a mode has depends on the plan and on the  *)
(* DRM calls (ScanoutPool); here it is any the contract allows.            *)
(***************************************************************************)
\* The shadow keeps its pixels under the same identity, or is zeroed.
activate_scaled(m) ==
  LET is_active == shadow.valid /\ shadow.identity = Size[m]
  IN  shadow' = [identity |-> Size[m], valid |-> TRUE,
                 traces |-> is_active /\ shadow.traces]

\* The pixels stay, and nothing reads them before they are zeroed.
invalidate_content == shadow' = NoShadow

Commits(m) ==
  /\ running /\ ~contained
  /\ mode' = m
  /\ UNCHANGED <<watch, frame, contained, visible_surface>>

Direct == route' = "Direct" /\ invalidate_content
Scaled(m) == route' = "Scaled" /\ activate_scaled(m)

Stays == KeepScanout /\ UNCHANGED <<front, traces>>

\* A slot other than the baseline is created black for a switch to it, and
\* destroyed by a switch away from it.
Moves ==
  /\ front' = [s \in Slots |-> IF s # 0 /\ s \in {slot, slot'} THEN 0 ELSE front[s]]
  /\ traces' = [s \in Slots |-> IF s # 0 /\ s \in {slot, slot'} THEN Clean
                                                               ELSE traces[s]]

\* The commit has left the CRTC at `now`: a waiting surface is presented again.
\* A failure to do that, or to remove a framebuffer, ends the daemon.
Settles(now) ==
  \/ screen' = (IF is_waiting THEN WaitingFb ELSE now) /\ UNCHANGED running
  \/ DisplayFails /\ screen' = now /\ running' = FALSE

CommitKeepsDirect ==
  /\ Commits(physical)
  /\ Direct /\ Stays
  /\ Settles(screen)
  /\ UNCHANGED blemishes

\* The mode is not the panel's own, or the switch to it failed.
CommitKeepsScaled(m) ==
  /\ Commits(m)
  /\ m # physical
  /\ Scaled(m) /\ Stays
  /\ Settles(screen)
  /\ UNCHANGED blemishes

\* No plan of this snapshot, which takes a failed DRM call at STATE_CHECK:
\* nothing is presented again.
CommitWithoutPlan(m) ==
  /\ DisplayFails
  /\ Commits(m)
  /\ Scaled(m) /\ Stays
  /\ UNCHANGED <<running, screen, blemishes>>

CommitSwitches(m) ==
  /\ Commits(m)
  /\ SwitchExact(m)
  /\ Direct /\ Moves
  /\ Settles(<<slot', front'[slot']>>)
  /\ UNCHANGED blemishes

\* The baseline comes back with the pixels it was left with.
CommitReturns(m) ==
  /\ Commits(m)
  /\ m \in ScaledModes /\ SwitchBaseline
  /\ Scaled(m) /\ Moves
  /\ Settles(<<slot', front'[slot']>>)
  /\ blemishes' = blemishes \cup (IF Restorable THEN {"returned"} ELSE {})

(***************************************************************************)
(* A frame.  The mode is looked up again when it is processed: it may have *)
(* changed since the frame was admitted, or been reset by a suspend.       *)
(***************************************************************************)
AdmitFrame(area) ==
  /\ running
  /\ mode # None /\ frame = None /\ ~contained
  /\ frame' = [area |-> area, size |-> Size[mode]]
  /\ UNCHANGED <<slot, physical, running, watch, mode, route, contained,
                 visible_surface, screen, front, traces, shadow, blemishes>>

Contains == frame' = None /\ contained' = TRUE
Finishes == frame' = None /\ UNCHANGED contained

\* A timeout or a wrong completion; a shadow that is not active for the
\* looked-up mode; a waiting scanout or a copy that fails.
LoseFrame ==
  /\ running /\ frame # None
  /\ Contains
  /\ UNCHANGED <<slot, physical, running, watch, mode, route, visible_surface,
                 screen, front, traces, shadow, blemishes>>

source == Size[IF mode = None THEN Baseline ELSE mode]
raster == IF route = "Scaled" THEN source ELSE Size[physical]

\* The rectangle was made for one size, judged by another and copied into a
\* third.
mixed == frame.size # source \/ source # raster

\* Mutation: any update will do.
is_any_update(covers, full) == TRUE

\* Whether the rectangle, which covers the raster or not, is taken for a
\* complete frame: it has the size that was looked up.
is_full_frame_update(covers, full) ==
  /\ frame.size = source => (full <=> frame.area = "full")
  /\ frame.size = raster => (covers <=> frame.area = "full")
  /\ full => frame.size = source \/ frame.area = "partial"
  /\ full /\ source = raster => covers

\* What is left of the traces; one that misses the raster counts as painting.
Painted(held, covers) ==
  IF watch = "during" THEN {TRUE} ELSE { h \in BOOLEAN : h => held /\ ~covers }

Processes ==
  /\ running /\ frame # None
  /\ UNCHANGED <<slot, physical, running, watch, mode, route>>

Notes(what) ==
  blemishes' = blemishes \cup what \cup (IF mixed THEN {"mixed"} ELSE {})

front_framebuffer == <<slot, front[slot]>>
back == 1 - front[slot]

CopiesDirect(covers) ==
  /\ Processes
  /\ route = "Direct"
  /\ \E h \in Painted(traces[slot][front[slot]], covers) :
       traces' = [traces EXCEPT ![slot][front[slot]] = h]
  /\ Notes({})
  /\ UNCHANGED <<front, shadow>>

\* The waiting scanout stays until a complete frame.
ProcessDirect ==
  \E covers, full \in BOOLEAN :
    /\ CopiesDirect(covers)
    /\ is_full_frame_update(covers, full)
    /\ ~is_waiting \/ ~full
    /\ Finishes
    /\ UNCHANGED <<visible_surface, screen>>

\* The first complete frame; showing it may fail.
ProcessFirstDirect ==
  \E covers, full \in BOOLEAN :
    /\ CopiesDirect(covers)
    /\ is_full_frame_update(covers, full)
    /\ is_waiting /\ full
    /\ \/ /\ Finishes
          /\ visible_surface' = "Content" /\ screen' = front_framebuffer
       \/ /\ DisplayFails /\ Contains
          /\ UNCHANGED <<visible_surface, screen>>

\* The shadow is painted and scaled over the whole back buffer.
Scales(covers) ==
  /\ Processes
  /\ route = "Scaled" /\ shadow.valid /\ shadow.identity = source
  /\ \E h \in Painted(shadow.traces, covers) :
       /\ shadow' = [shadow EXCEPT !.traces = h]
       /\ traces' = [traces EXCEPT ![slot][back] = h]

Flips == screen' = <<slot, back>> /\ front' = [front EXCEPT ![slot] = back]

\* Mutation: the flip is not recorded.
ProcessScaledUnrecorded ==
  \E covers, full \in BOOLEAN :
    /\ Scales(covers) /\ screen' = <<slot, back>>
    /\ is_full_frame_update(covers, full)
    /\ ~is_waiting \/ full
    /\ visible_surface' = "Content"
    /\ Finishes
    /\ Notes({})
    /\ UNCHANGED front

ProcessScaled ==
  \E covers, full \in BOOLEAN :
    /\ Scales(covers) /\ Flips
    /\ is_full_frame_update(covers, full)
    /\ ~is_waiting \/ full
    /\ visible_surface' = "Content"
    /\ Finishes
    /\ Notes({})

\* The back buffer is flipped whatever surface is visible, and then the update
\* is not complete, or the second flip of the first complete one fails.
ProcessHalfShown ==
  \E covers, full \in BOOLEAN :
    /\ Scales(covers) /\ Flips
    /\ is_full_frame_update(covers, full)
    /\ is_waiting
    /\ (~full /\ Finishes) \/ (full /\ DisplayFails /\ Contains)
    /\ Notes({"half shown"})
    /\ UNCHANGED visible_surface

\* Neither page_flip nor set_crtc shows the back buffer.
FlipFails ==
  \E covers, full \in BOOLEAN :
    /\ DisplayFails
    /\ Scales(covers)
    /\ is_full_frame_update(covers, full)
    /\ Contains
    /\ Notes({})
    /\ UNCHANGED <<visible_surface, screen, front>>

(***************************************************************************)
(* FunctionFS events.  Each resets the protocol's committed mode, and not  *)
(* the route; a terminal one also destroys the session that owned the      *)
(* frame.                                                                  *)
(***************************************************************************)
\* Mutation: the surface is not remembered.
PresentWaitingUnrecorded(next) ==
  screen' = WaitingFb /\ UNCHANGED <<visible_surface, blemishes>>

\* present_waiting_surface, and the surface it stands for; a failure is only
\* logged.
PresentWaiting(next) ==
  \/ screen' = WaitingFb /\ visible_surface' = next /\ UNCHANGED blemishes
  \/ /\ DisplayFails /\ blemishes' = blemishes \cup {"failed"}
     /\ UNCHANGED <<screen, visible_surface>>

Resets ==
  /\ running
  /\ mode' = None
  /\ UNCHANGED <<slot, physical, running, route, front, traces, shadow>>

Destroys == frame' = None /\ contained' = FALSE

Boundary(next) == Resets /\ Destroys /\ PresentWaiting(next)

\* A new USB session; the watched one is any one.
Enable ==
  /\ Boundary("WaitingStartup")
  /\ watch' \in IF watch = "before" THEN {"before", "during"} ELSE {"after"}

Disable == Boundary("WaitingDisconnected") /\ UNCHANGED watch
Bind == Boundary("WaitingStartup") /\ UNCHANGED watch

\* UNBIND of an owned path; of an idle one it ends the loop (ScanoutPool's
\* Shutdown), and the panel is left as it is.
Unbind ==
  /\ Resets
  /\ frame # None \/ contained
  /\ Destroys
  /\ UNCHANGED <<watch, visible_surface, screen, blemishes>>

Suspend ==
  /\ Resets
  /\ PresentWaiting(surface_after_suspend)
  /\ UNCHANGED <<watch, frame, contained>>

\* Only content hidden by a suspend comes back.
Resume ==
  /\ Resets
  /\ \/ /\ surface_after_resume # visible_surface
        /\ screen' = front_framebuffer /\ visible_surface' = surface_after_resume
     \/ /\ surface_after_resume = visible_surface \/ DisplayFails
        /\ UNCHANGED <<screen, visible_surface>>
  /\ UNCHANGED <<watch, frame, contained, blemishes>>

PresentationNext ==
  \/ CommitKeepsDirect
  \/ \E m \in AllModes : CommitKeepsScaled(m) \/ CommitWithoutPlan(m)
  \/ \E m \in Physical : CommitSwitches(m)
  \/ \E m \in ScaledModes : CommitReturns(m)
  \/ \E area \in {"full", "partial"} : AdmitFrame(area)
  \/ LoseFrame \/ ProcessDirect \/ ProcessFirstDirect
  \/ ProcessScaled \/ ProcessHalfShown \/ FlipFails
  \/ Enable \/ Disable \/ Bind \/ Unbind \/ Suspend \/ Resume

PresentationSpec == PresentationInit /\ [][PresentationNext]_vars

(***************************************************************************)
(* Properties.                                                             *)
(***************************************************************************)

\* Every variable has its type.
PresentationTypeOK ==
  /\ slot \in Slots /\ physical \in Physical
  /\ running \in BOOLEAN /\ contained \in BOOLEAN
  /\ watch \in {"before", "during", "after"}
  /\ mode \in AllModes \cup {None}
  /\ route \in {None, "Direct", "Scaled"}
  /\ frame \in Frame \cup {None}
  /\ visible_surface \in VisibleSurface
  /\ screen \in Content \cup {WaitingFb}
  /\ front \in [Slots -> Buffers]
  /\ traces \in [Slots -> [Buffers -> BOOLEAN]]
  /\ shadow \in [identity : Sizes \cup {None}, valid : BOOLEAN, traces : BOOLEAN]
  /\ blemishes \subseteq {"returned", "mixed", "half shown", "failed"}

\* The buffer that is scaled into is never the one the CRTC is set to: through
\* failed flips, mode switches, suspends and reconnects, content on screen is
\* the front buffer of the active slot.
ContentIsFront == running => screen \in {WaitingFb, front_framebuffer}

\* visible_surface tells the truth: it is Content exactly when a content
\* buffer is scanned out, until a scaled frame is half shown.
SurfaceTellsTruth ==
  running /\ "half shown" \notin blemishes => ((screen = WaitingFb) <=> is_waiting)

\* "Do not expose their stale regions when a new session starts with a legal
\* partial update": nothing painted in an earlier USB session is on screen.
NoStaleContent ==
  running /\ screen # WaitingFb =>
    ~(watch = "after" /\ traces[screen[1]][screen[2]])

\* There are four ways for an earlier session to reach the screen and no
\* other: a scaled frame half shown, a return to the baseline with content
\* visible, a frame that was processed under a size it was not made for, and
\* a waiting scanout the display refused.
StaleOnlyIfBlemished == blemishes = {} => NoStaleContent
=============================================================================
