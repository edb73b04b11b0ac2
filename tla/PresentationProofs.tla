------------------------- MODULE PresentationProofs -------------------------
(***************************************************************************)
(* Proofs about the panel, for any set of modes, any sizes and any watched *)
(* session, whether the display obeys or not.                              *)
(***************************************************************************)
EXTENDS Presentation, TLAPS

(***************************************************************************)
(* Types and double buffering.                                             *)
(***************************************************************************)
Buffering == PresentationTypeOK /\ ContentIsFront

\* Painting leaves traces or it does not.
LEMMA PaintedIsBoolean ==
  ASSUME NEW held, NEW covers, NEW h \in Painted(held, covers)
  PROVE  h \in BOOLEAN
  BY DEF Painted

\* A commit leaves the shadow well typed.
LEMMA ShadowIsTyped ==
  ASSUME PresentationTypeOK, NEW m \in AllModes, Direct \/ Scaled(m)
  PROVE  /\ shadow' \in [identity : Sizes \cup {None}, valid : BOOLEAN, traces : BOOLEAN]
         /\ route' \in {None, "Direct", "Scaled"}
<1>1. CASE Direct
  BY <1>1 DEF Direct, invalidate_content, NoShadow
<1>2. CASE Scaled(m)
  <2>1. Size[m] \in Sizes
    BY DEF Sizes
  <2>2. (shadow.valid /\ shadow.identity = Size[m] /\ shadow.traces) \in BOOLEAN
    BY DEF PresentationTypeOK
  <2>3. shadow' = [identity |-> Size[m], valid |-> TRUE,
                   traces |-> shadow.valid /\ shadow.identity = Size[m] /\ shadow.traces]
    BY <1>2 DEF Scaled, activate_scaled
  <2> QED
    BY <1>2, <2>1, <2>2, <2>3 DEF Scaled
<1> QED
  BY <1>1, <1>2

\* A switch leaves the buffers well typed, and the new scanout at its front.
LEMMA MovesIsTyped ==
  ASSUME PresentationTypeOK, Moves, slot' \in Slots
  PROVE  /\ front' \in [Slots -> Buffers]
         /\ traces' \in [Slots -> [Buffers -> BOOLEAN]]
         /\ <<slot', front'[slot']>> \in Content
<1>1. Clean \in [Buffers -> BOOLEAN] /\ 0 \in Buffers
  BY DEF Clean, Buffers
<1>2. front' \in [Slots -> Buffers]
  BY <1>1 DEF Moves, PresentationTypeOK
<1>3. traces' \in [Slots -> [Buffers -> BOOLEAN]]
  BY <1>1 DEF Moves, PresentationTypeOK
<1> QED
  BY <1>2, <1>3 DEF Content

\* The end of a commit leaves the CRTC where the switch left it, or waiting.
LEMMA SettlesIsTyped ==
  ASSUME NEW now, Settles(now), running \in BOOLEAN
  PROVE  screen' \in {now, WaitingFb} /\ running' \in BOOLEAN
  BY DEF Settles

\* The front and the back buffer of the active slot are content.
LEMMA FrontIsContent ==
  ASSUME PresentationTypeOK
  PROVE  /\ front[slot] \in Buffers /\ back \in Buffers
         /\ front_framebuffer \in Content /\ <<slot, back>> \in Content
<1>1. front[slot] \in Buffers /\ slot \in Slots
  BY DEF PresentationTypeOK
<1>2. back \in Buffers
  BY <1>1 DEF back, Buffers
<1> QED
  BY <1>1, <1>2 DEF front_framebuffer, Content

LEMMA BufferingCommit ==
  ASSUME Buffering, NEW m \in AllModes,
         \/ CommitKeepsDirect \/ CommitKeepsScaled(m) \/ CommitWithoutPlan(m)
         \/ (m \in Physical /\ CommitSwitches(m)) \/ CommitReturns(m)
  PROVE  Buffering'
<1>1. physical \in AllModes
  BY DEF Buffering, PresentationTypeOK, AllModes
<1>2. /\ mode' \in AllModes \cup {None}
      /\ UNCHANGED <<watch, frame, contained, visible_surface>>
  BY <1>1 DEF CommitKeepsDirect, CommitKeepsScaled, CommitWithoutPlan,
              CommitSwitches, CommitReturns, Commits
<1>3. /\ shadow' \in [identity : Sizes \cup {None}, valid : BOOLEAN, traces : BOOLEAN]
      /\ route' \in {None, "Direct", "Scaled"}
  BY ShadowIsTyped DEF CommitKeepsDirect, CommitKeepsScaled, CommitWithoutPlan,
              CommitSwitches, CommitReturns, Buffering
<1>4. blemishes' \subseteq {"returned", "mixed", "half shown", "failed"}
  BY DEF CommitKeepsDirect, CommitKeepsScaled, CommitWithoutPlan,
         CommitSwitches, CommitReturns, Buffering, PresentationTypeOK
<1>5. CASE CommitKeepsDirect \/ CommitKeepsScaled(m) \/ CommitWithoutPlan(m)
  <2>1. UNCHANGED <<slot, physical, front, traces>>
    BY <1>5 DEF CommitKeepsDirect, CommitKeepsScaled, CommitWithoutPlan, Stays,
                KeepScanout
  <2>2. screen' \in {screen, WaitingFb} /\ running' \in BOOLEAN
    BY <1>5, SettlesIsTyped
    DEF CommitKeepsDirect, CommitKeepsScaled, CommitWithoutPlan, Buffering,
        PresentationTypeOK
  <2>3. ~running' \/ screen' \in {WaitingFb, front_framebuffer'}
    BY <1>5, <2>1, <2>2
    DEF CommitKeepsDirect, CommitKeepsScaled, CommitWithoutPlan, Commits,
        Buffering, ContentIsFront, front_framebuffer
  <2> QED
    BY <1>2, <1>3, <1>4, <2>1, <2>2, <2>3
    DEF Buffering, PresentationTypeOK, ContentIsFront
<1>6. CASE (m \in Physical /\ CommitSwitches(m)) \/ CommitReturns(m)
  <2>1. slot' \in Slots /\ physical' \in Physical /\ Moves
    BY <1>6, ContractAssumption
    DEF CommitSwitches, CommitReturns, SwitchExact, SwitchBaseline, Slots
  <2>2. /\ front' \in [Slots -> Buffers]
        /\ traces' \in [Slots -> [Buffers -> BOOLEAN]]
        /\ <<slot', front'[slot']>> \in Content
    BY <2>1, MovesIsTyped DEF Buffering
  <2>3. screen' \in {<<slot', front'[slot']>>, WaitingFb} /\ running' \in BOOLEAN
    BY <1>6, SettlesIsTyped
    DEF CommitSwitches, CommitReturns, Buffering, PresentationTypeOK
  <2> QED
    BY <1>2, <1>3, <1>4, <2>1, <2>2, <2>3
    DEF Buffering, PresentationTypeOK, ContentIsFront, front_framebuffer
<1> QED
  BY <1>5, <1>6

\* The surfaces a FunctionFS event may lead to.
LEMMA NextSurfaceIsTyped ==
  ASSUME PresentationTypeOK
  PROVE  /\ surface_after_suspend \in VisibleSurface
         /\ surface_after_resume \in VisibleSurface
         /\ {"WaitingStartup", "WaitingDisconnected", "Content"} \subseteq VisibleSurface
  BY DEF surface_after_suspend, surface_after_resume, PresentationTypeOK,
         VisibleSurface

LEMMA BufferingLifecycle ==
  ASSUME Buffering,
         Enable \/ Disable \/ Bind \/ Unbind \/ Suspend \/ Resume
  PROVE  Buffering'
<1>1. Resets /\ front_framebuffer' = front_framebuffer
  BY DEF Enable, Disable, Bind, Unbind, Suspend, Resume, Boundary, Resets,
         front_framebuffer
<1>2. watch' \in {"before", "during", "after"}
  BY DEF Enable, Disable, Bind, Unbind, Suspend, Resume, Buffering,
         PresentationTypeOK
<1>3. frame' \in Frame \cup {None} /\ contained' \in BOOLEAN
  BY DEF Enable, Disable, Bind, Unbind, Suspend, Resume, Boundary, Destroys,
         Buffering, PresentationTypeOK
<1>4. /\ screen' \in {screen, WaitingFb, front_framebuffer}
      /\ visible_surface' \in VisibleSurface
      /\ blemishes' \subseteq blemishes \cup {"failed"}
  BY NextSurfaceIsTyped
  DEF Enable, Disable, Bind, Unbind, Suspend, Resume, Boundary, PresentWaiting,
      Buffering, PresentationTypeOK
<1>5. front_framebuffer \in Content /\ running
  BY <1>1, FrontIsContent DEF Buffering, Resets
<1> QED
  BY <1>1, <1>2, <1>3, <1>4, <1>5
  DEF Buffering, PresentationTypeOK, ContentIsFront, Resets

\* What a frame does to the pixels: one buffer, and the shadow, are painted.
LEMMA BufferingFrame ==
  ASSUME Buffering,
         ProcessDirect \/ ProcessFirstDirect \/ ProcessScaled
           \/ ProcessHalfShown \/ FlipFails
  PROVE  Buffering'
<1>1. Processes
  BY DEF ProcessDirect, ProcessFirstDirect, ProcessScaled, ProcessHalfShown,
         FlipFails, CopiesDirect, Scales
<1>2. frame' = None /\ contained' \in BOOLEAN
  BY DEF ProcessDirect, ProcessFirstDirect, ProcessScaled, ProcessHalfShown,
         FlipFails, Finishes, Contains, Buffering, PresentationTypeOK
<1>3. visible_surface' \in VisibleSurface
  BY NextSurfaceIsTyped
  DEF ProcessDirect, ProcessFirstDirect, ProcessScaled, ProcessHalfShown,
      FlipFails, Buffering, PresentationTypeOK
<1>4. blemishes' \subseteq {"returned", "mixed", "half shown", "failed"}
  BY DEF ProcessDirect, ProcessFirstDirect, ProcessScaled, ProcessHalfShown,
         FlipFails, CopiesDirect, Notes, Buffering, PresentationTypeOK
<1>5. /\ front[slot] \in Buffers /\ back \in Buffers
      /\ front_framebuffer \in Content /\ <<slot, back>> \in Content
  BY FrontIsContent DEF Buffering
<1>6. CASE ProcessDirect \/ ProcessFirstDirect
  <2>1. PICK covers \in BOOLEAN : CopiesDirect(covers)
    BY <1>6 DEF ProcessDirect, ProcessFirstDirect
  <2>2. PICK h \in Painted(traces[slot][front[slot]], covers) :
          traces' = [traces EXCEPT ![slot][front[slot]] = h]
    BY <2>1 DEF CopiesDirect
  <2>3. traces' \in [Slots -> [Buffers -> BOOLEAN]]
    BY <1>5, <2>2, PaintedIsBoolean DEF Buffering, PresentationTypeOK
  <2>4. UNCHANGED <<front, shadow>> /\ front_framebuffer' = front_framebuffer
    BY <1>1, <2>1 DEF CopiesDirect, Processes, front_framebuffer
  <2>5. screen' \in {screen, front_framebuffer}
    BY <1>6 DEF ProcessDirect, ProcessFirstDirect
  <2> QED
    BY <1>1, <1>2, <1>3, <1>4, <1>5, <2>3, <2>4, <2>5
    DEF Buffering, PresentationTypeOK, ContentIsFront, Processes
<1>7. CASE ProcessScaled \/ ProcessHalfShown \/ FlipFails
  <2>1. PICK covers \in BOOLEAN : Scales(covers)
    BY <1>7 DEF ProcessScaled, ProcessHalfShown, FlipFails
  <2>2. PICK h \in Painted(shadow.traces, covers) :
          /\ shadow' = [shadow EXCEPT !.traces = h]
          /\ traces' = [traces EXCEPT ![slot][back] = h]
    BY <2>1 DEF Scales
  <2>3. /\ traces' \in [Slots -> [Buffers -> BOOLEAN]]
        /\ shadow' \in [identity : Sizes \cup {None}, valid : BOOLEAN, traces : BOOLEAN]
    BY <1>5, <2>2, PaintedIsBoolean DEF Buffering, PresentationTypeOK
  <2>4. CASE Flips
    <3>1. /\ front' \in [Slots -> Buffers] /\ front'[slot] = back
          /\ screen' = <<slot, back>>
      BY <1>5, <2>4 DEF Flips, Buffering, PresentationTypeOK
    <3>2. screen' = front_framebuffer'
      BY <1>1, <3>1 DEF front_framebuffer, Processes
    <3> QED
      BY <1>1, <1>2, <1>3, <1>4, <1>5, <2>3, <3>1, <3>2
      DEF Buffering, PresentationTypeOK, ContentIsFront, Processes
  <2>5. CASE UNCHANGED <<screen, front>>
    <3>1. front_framebuffer' = front_framebuffer
      BY <1>1, <2>5 DEF front_framebuffer, Processes
    <3> QED
      BY <1>1, <1>2, <1>3, <1>4, <2>3, <2>5, <3>1
      DEF Buffering, PresentationTypeOK, ContentIsFront, Processes
  <2> QED
    BY <1>7, <2>4, <2>5 DEF ProcessScaled, ProcessHalfShown, FlipFails
<1> QED
  BY <1>6, <1>7

\* The actions that touch nothing but the receive path.
LEMMA BufferingReceive ==
  ASSUME Buffering,
         \/ \E area \in {"full", "partial"} : AdmitFrame(area)
         \/ LoseFrame \/ UNCHANGED vars
  PROVE  Buffering'
<1>1. /\ UNCHANGED <<slot, physical, running, watch, mode, route, visible_surface,
                     screen, front, traces, shadow, blemishes>>
      /\ contained' \in BOOLEAN
  BY DEF AdmitFrame, LoseFrame, Contains, vars, Buffering, PresentationTypeOK
<1>2. frame' \in Frame \cup {None}
  <2>1. ASSUME NEW area \in {"full", "partial"}, AdmitFrame(area)
        PROVE  frame' \in Frame \cup {None}
    <3>1. mode \in AllModes /\ Size[mode] \in Sizes
      BY <2>1 DEF AdmitFrame, Buffering, PresentationTypeOK, Sizes
    <3> QED
      BY <2>1, <3>1 DEF AdmitFrame, Frame
  <2>2. ASSUME LoseFrame \/ UNCHANGED vars
        PROVE  frame' \in Frame \cup {None}
    BY <2>2 DEF LoseFrame, Contains, vars, Buffering, PresentationTypeOK
  <2> QED
    BY <2>1, <2>2
<1> QED
  BY <1>1, <1>2
  DEF Buffering, PresentationTypeOK, ContentIsFront, front_framebuffer

\* Every step keeps the types and never scans out the back buffer.
LEMMA BufferingStep ==
  Buffering /\ [PresentationNext]_vars => Buffering'
<1> SUFFICES ASSUME Buffering, [PresentationNext]_vars
             PROVE  Buffering'
  OBVIOUS
<1>1. ASSUME CommitKeepsDirect PROVE Buffering'
  <2>1. physical \in AllModes
    BY DEF Buffering, PresentationTypeOK, AllModes
  <2> QED
    BY <1>1, <2>1, BufferingCommit
<1>2. ASSUME NEW m \in AllModes, CommitKeepsScaled(m) \/ CommitWithoutPlan(m)
      PROVE  Buffering'
  BY <1>2, BufferingCommit
<1>3. ASSUME NEW m \in Physical, CommitSwitches(m) PROVE Buffering'
  BY <1>3, BufferingCommit DEF AllModes
<1>4. ASSUME NEW m \in ScaledModes, CommitReturns(m) PROVE Buffering'
  BY <1>4, BufferingCommit DEF AllModes
<1> QED
  BY <1>1, <1>2, <1>3, <1>4, BufferingFrame, BufferingLifecycle,
     BufferingReceive
  DEF PresentationNext

LEMMA BufferingInit ==
  PresentationInit => Buffering
<1> SUFFICES ASSUME PresentationInit PROVE Buffering
  OBVIOUS
<1>1. slot \in Slots /\ physical \in Physical
  BY ContractAssumption DEF PresentationInit, ContractInit, Slots
<1>2. front \in [Slots -> Buffers] /\ traces \in [Slots -> [Buffers -> BOOLEAN]]
  BY DEF PresentationInit, Buffers, Clean
<1>3. shadow \in [identity : Sizes \cup {None}, valid : BOOLEAN, traces : BOOLEAN]
  BY DEF PresentationInit, NoShadow
<1> QED
  BY <1>1, <1>2, <1>3
  DEF PresentationInit, Buffering, PresentationTypeOK, ContentIsFront,
      VisibleSurface

\* Whatever the host, the bus and the display do, the buffer being scaled
\* into is never the one the CRTC is set to.
THEOREM ContentIsAlwaysFront ==
  PresentationSpec => [](PresentationTypeOK /\ ContentIsFront)
<1>1. PresentationInit => Buffering
  BY BufferingInit
<1>2. Buffering /\ [PresentationNext]_vars => Buffering'
  BY BufferingStep
<1> QED
  BY <1>1, <1>2, PTL DEF PresentationSpec, Buffering

(***************************************************************************)
(* The surface.                                                            *)
(***************************************************************************)
TruthInv == Buffering /\ SurfaceTellsTruth

\* No content buffer is the waiting one.
LEMMA WaitingIsNotContent ==
  WaitingFb \notin Content
  BY DEF WaitingFb, Content, Slots, Buffers

LEMMA TruthStep ==
  TruthInv /\ [PresentationNext]_vars => TruthInv'
<1> SUFFICES ASSUME TruthInv, [PresentationNext]_vars
             PROVE  TruthInv'
  OBVIOUS
<1>1. Buffering /\ Buffering'
  BY BufferingStep DEF TruthInv
<1>2. /\ front_framebuffer \in Content /\ <<slot, back>> \in Content
      /\ front_framebuffer' \in Content
  <2>1. front_framebuffer' \in Content
    BY <1>1, FrontIsContent DEF Buffering, PresentationTypeOK, front_framebuffer, Content
  <2> QED
    BY <1>1, <2>1, FrontIsContent DEF Buffering
<1>3. ASSUME NEW m, CommitKeepsDirect \/ CommitKeepsScaled(m) \/ CommitWithoutPlan(m)
      PROVE  SurfaceTellsTruth'
  BY <1>3
  DEF CommitKeepsDirect, CommitKeepsScaled, CommitWithoutPlan, Commits, Settles,
      TruthInv, SurfaceTellsTruth, is_waiting
<1>4. ASSUME NEW m, CommitSwitches(m) \/ CommitReturns(m)
      PROVE  SurfaceTellsTruth'
  <2>1. Settles(front_framebuffer') /\ UNCHANGED visible_surface
    BY <1>4 DEF CommitSwitches, CommitReturns, Commits, front_framebuffer
  <2> QED
    BY <1>2, <2>1, WaitingIsNotContent DEF Settles, SurfaceTellsTruth, is_waiting
<1>5. ASSUME \/ \E area \in {"full", "partial"} : AdmitFrame(area)
             \/ LoseFrame \/ Unbind \/ UNCHANGED vars
      PROVE  SurfaceTellsTruth'
  BY <1>5 DEF AdmitFrame, LoseFrame, Unbind, Resets, vars, TruthInv,
              SurfaceTellsTruth, is_waiting
<1>6. ASSUME ProcessDirect \/ ProcessFirstDirect PROVE SurfaceTellsTruth'
  <2>1. UNCHANGED running /\ blemishes \subseteq blemishes'
    BY <1>6 DEF ProcessDirect, ProcessFirstDirect, CopiesDirect, Processes, Notes
  <2>2. \/ UNCHANGED <<visible_surface, screen>>
        \/ visible_surface' = "Content" /\ screen' = front_framebuffer
    BY <1>6 DEF ProcessDirect, ProcessFirstDirect
  <2> QED
    BY <1>2, <2>1, <2>2, WaitingIsNotContent
    DEF TruthInv, SurfaceTellsTruth, is_waiting
<1>7. ASSUME ProcessScaled PROVE SurfaceTellsTruth'
  <2>1. visible_surface' = "Content" /\ screen' = <<slot, back>>
    BY <1>7 DEF ProcessScaled, Flips
  <2> QED
    BY <1>2, <2>1, WaitingIsNotContent DEF SurfaceTellsTruth, is_waiting
<1>8. ASSUME ProcessHalfShown PROVE SurfaceTellsTruth'
  BY <1>8 DEF ProcessHalfShown, Notes, SurfaceTellsTruth
<1>9. ASSUME FlipFails PROVE SurfaceTellsTruth'
  BY <1>9 DEF FlipFails, Scales, Processes, Notes, TruthInv, SurfaceTellsTruth,
              is_waiting
<1>10. ASSUME Enable \/ Disable \/ Bind \/ Suspend PROVE SurfaceTellsTruth'
  BY <1>10
  DEF Enable, Disable, Bind, Suspend, Boundary, Resets, PresentWaiting,
      surface_after_suspend, TruthInv, SurfaceTellsTruth, is_waiting
<1>11. ASSUME Resume PROVE SurfaceTellsTruth'
  <2>1. \/ UNCHANGED <<visible_surface, screen>>
        \/ visible_surface' = "Content" /\ screen' = front_framebuffer
    BY <1>11 DEF Resume, surface_after_resume
  <2> QED
    BY <1>2, <1>11, <2>1, WaitingIsNotContent
    DEF Resume, Resets, TruthInv, SurfaceTellsTruth, is_waiting
<1> QED
  BY <1>1, <1>3, <1>4, <1>5, <1>6, <1>7, <1>8, <1>9, <1>10, <1>11
  DEF PresentationNext, TruthInv

LEMMA TruthInit ==
  PresentationInit => TruthInv
  BY BufferingInit DEF PresentationInit, TruthInv, SurfaceTellsTruth, is_waiting

\* Through failed presentations, mode switches and restored content the daemon
\* knows whether the panel shows content, unless a scaled frame was half shown.
THEOREM SurfaceAlwaysTellsTruth ==
  PresentationSpec => []SurfaceTellsTruth
<1>1. PresentationInit => TruthInv
  BY TruthInit
<1>2. TruthInv /\ [PresentationNext]_vars => TruthInv'
  BY TruthStep
<1>3. TruthInv => SurfaceTellsTruth
  BY DEF TruthInv
<1> QED
  BY <1>1, <1>2, <1>3, PTL DEF PresentationSpec

(***************************************************************************)
(* Stale content.  StaleOnlyIfBlemished is not inductive: content hidden   *)
(* by a suspend is restored without being painted again, and a scaled      *)
(* frame shows all of the shadow, so both have to be fresh while content   *)
(* is visible or hidden.  A direct frame that makes content visible leaves *)
(* the shadow alone, so it must not be active then.                        *)
(***************************************************************************)
FrontIsFresh == Restorable => ~(watch = "after" /\ traces[slot][front[slot]])

ShadowIsFresh ==
  Restorable => ~(watch = "after" /\ shadow.valid /\ shadow.traces)

DirectHasNoShadow == route = "Direct" => ~shadow.valid

StaleInv ==
  /\ TruthInv
  /\ DirectHasNoShadow
  /\ running /\ blemishes = {} => FrontIsFresh /\ ShadowIsFresh

\* What a frame leaves of traces, once the watched session is over.
LEMMA PaintedIsFresh ==
  ASSUME NEW held \in BOOLEAN, NEW covers \in BOOLEAN,
         NEW h \in Painted(held, covers), watch = "after"
  PROVE  h => held /\ ~covers
  BY DEF Painted

\* The shadow of a commit is fresh if the one before it was.
LEMMA CommitShadow ==
  ASSUME PresentationTypeOK, NEW m, Direct \/ Scaled(m),
         UNCHANGED <<watch, visible_surface>>
  PROVE  /\ DirectHasNoShadow'
         /\ ShadowIsFresh => ShadowIsFresh'
<1>1. CASE Direct
  BY <1>1 DEF Direct, invalidate_content, NoShadow, DirectHasNoShadow, ShadowIsFresh
<1>2. CASE Scaled(m)
  <2>1. route' = "Scaled" /\ (shadow'.traces => shadow.valid /\ shadow.traces)
    BY <1>2 DEF Scaled, activate_scaled
  <2> QED
    BY <2>1 DEF DirectHasNoShadow, ShadowIsFresh, Restorable
<1> QED
  BY <1>1, <1>2

LEMMA StaleCommit ==
  ASSUME StaleInv, TruthInv', NEW m,
         \/ CommitKeepsDirect \/ CommitKeepsScaled(m) \/ CommitWithoutPlan(m)
         \/ CommitSwitches(m) \/ CommitReturns(m)
  PROVE  StaleInv'
<1>1. PresentationTypeOK /\ PresentationTypeOK'
  BY DEF StaleInv, TruthInv, Buffering
<1>2. running /\ UNCHANGED <<watch, visible_surface>>
  BY DEF CommitKeepsDirect, CommitKeepsScaled, CommitWithoutPlan, CommitSwitches,
         CommitReturns, Commits
<1>3. DirectHasNoShadow' /\ (ShadowIsFresh => ShadowIsFresh')
  BY <1>1, <1>2, CommitShadow
  DEF CommitKeepsDirect, CommitKeepsScaled, CommitWithoutPlan, CommitSwitches,
      CommitReturns
<1>4. ASSUME blemishes' = {} PROVE FrontIsFresh' /\ ShadowIsFresh'
  <2>1. blemishes = {} /\ FrontIsFresh /\ ShadowIsFresh
    BY <1>2, <1>4
    DEF CommitKeepsDirect, CommitKeepsScaled, CommitWithoutPlan, CommitSwitches,
        CommitReturns, StaleInv
  <2>2. CASE CommitKeepsDirect \/ CommitKeepsScaled(m) \/ CommitWithoutPlan(m)
    BY <1>2, <1>3, <2>1, <2>2
    DEF CommitKeepsDirect, CommitKeepsScaled, CommitWithoutPlan, Stays,
        KeepScanout, FrontIsFresh, Restorable
  <2>3. CASE CommitSwitches(m)
    <3>1. slot' \in Slots /\ slot' # 0 /\ Moves
      BY <2>3 DEF CommitSwitches, SwitchExact
    <3>2. traces'[slot'] = Clean /\ front'[slot'] \in Buffers
      BY <1>1, <3>1 DEF Moves, PresentationTypeOK
    <3>3. ~traces'[slot'][front'[slot']]
      BY <3>2 DEF Clean
    <3> QED
      BY <1>3, <2>1, <3>3 DEF FrontIsFresh
  <2>4. CASE CommitReturns(m)
    BY <1>2, <1>3, <1>4, <2>1, <2>4 DEF CommitReturns, FrontIsFresh, Restorable
  <2> QED
    BY <2>2, <2>3, <2>4
<1> QED
  BY <1>3, <1>4 DEF StaleInv

LEMMA StaleLifecycle ==
  ASSUME StaleInv, TruthInv',
         Enable \/ Disable \/ Bind \/ Unbind \/ Suspend \/ Resume
  PROVE  StaleInv'
<1>1. Resets
  BY DEF Enable, Disable, Bind, Unbind, Suspend, Resume, Boundary
<1>2. DirectHasNoShadow'
  BY <1>1 DEF Resets, StaleInv, DirectHasNoShadow
<1>3. ASSUME blemishes' = {} PROVE FrontIsFresh' /\ ShadowIsFresh'
  <2>1. blemishes = {} /\ FrontIsFresh /\ ShadowIsFresh
    BY <1>1, <1>3
    DEF Enable, Disable, Bind, Unbind, Suspend, Resume, Boundary, PresentWaiting,
        Resets, StaleInv
  <2>2. CASE Enable \/ Disable \/ Bind
    <3>1. visible_surface' \in {"WaitingStartup", "WaitingDisconnected"}
      BY <1>3, <2>2 DEF Enable, Disable, Bind, Boundary, PresentWaiting
    <3> QED
      BY <3>1 DEF FrontIsFresh, ShadowIsFresh, Restorable
  <2>3. CASE Unbind \/ Suspend \/ Resume
    <3>1. UNCHANGED watch /\ (Restorable' => Restorable)
      BY <2>3 DEF Unbind, Suspend, Resume, PresentWaiting, surface_after_suspend,
                  surface_after_resume, Restorable
    <3> QED
      BY <1>1, <2>1, <3>1 DEF Resets, FrontIsFresh, ShadowIsFresh
  <2> QED
    BY <2>2, <2>3
<1> QED
  BY <1>2, <1>3 DEF StaleInv

LEMMA StaleDirect ==
  ASSUME StaleInv, TruthInv', ProcessDirect \/ ProcessFirstDirect
  PROVE  StaleInv'
<1>1. PresentationTypeOK /\ front[slot] \in Buffers
  BY FrontIsContent DEF StaleInv, TruthInv, Buffering
<1>2. PICK covers \in BOOLEAN, full \in BOOLEAN :
        /\ is_full_frame_update(covers, full) /\ CopiesDirect(covers)
        /\ \/ UNCHANGED visible_surface
           \/ full /\ visible_surface' = "Content"
  BY DEF ProcessDirect, ProcessFirstDirect
<1>3. /\ UNCHANGED <<slot, watch, route, front, shadow>> /\ running
      /\ route = "Direct" /\ blemishes' = blemishes \cup (IF mixed THEN {"mixed"} ELSE {})
  BY <1>2 DEF CopiesDirect, Processes, Notes
<1>4. DirectHasNoShadow' /\ ShadowIsFresh'
  BY <1>3 DEF StaleInv, DirectHasNoShadow, ShadowIsFresh
<1>5. ASSUME blemishes' = {}, Restorable', watch = "after"
      PROVE  ~traces'[slot][front[slot]]
  <2>1. PICK h \in Painted(traces[slot][front[slot]], covers) :
          traces' = [traces EXCEPT ![slot][front[slot]] = h]
    BY <1>2 DEF CopiesDirect
  <2>2. traces'[slot][front[slot]] = h
    <3>1. /\ slot \in DOMAIN traces
          /\ front[slot] \in DOMAIN traces[slot]
      BY <1>1 DEF PresentationTypeOK
    <3> QED
      BY <2>1, <3>1
  <2>3. traces[slot][front[slot]] \in BOOLEAN
    <3>1. slot \in Slots /\ traces \in [Slots -> [Buffers -> BOOLEAN]]
      BY <1>1 DEF PresentationTypeOK
    <3>2. traces[slot] \in [Buffers -> BOOLEAN]
      BY <3>1
    <3> QED
      BY <1>1, <3>2
  <2>4. h => traces[slot][front[slot]] /\ ~covers
    BY <1>5, <2>1, <2>3, PaintedIsFresh
  <2>5. CASE UNCHANGED visible_surface
    BY <1>3, <1>5, <2>2, <2>4, <2>5
    DEF StaleInv, FrontIsFresh, Restorable
  <2>6. CASE full
    BY <1>2, <1>3, <1>5, <2>2, <2>4, <2>6 DEF is_full_frame_update, mixed
  <2> QED
    BY <1>2, <2>5, <2>6
<1>6. blemishes' = {} => FrontIsFresh'
  BY <1>3, <1>5 DEF FrontIsFresh
<1> QED
  BY <1>4, <1>6 DEF StaleInv

LEMMA StaleScaled ==
  ASSUME StaleInv, TruthInv', ProcessScaled \/ ProcessHalfShown \/ FlipFails
  PROVE  StaleInv'
<1>1. PresentationTypeOK /\ front[slot] \in Buffers /\ back \in Buffers
      /\ back # front[slot]
  <2>1. PresentationTypeOK /\ front[slot] \in Buffers /\ back \in Buffers
    BY FrontIsContent DEF StaleInv, TruthInv, Buffering
  <2> QED
    BY <2>1 DEF back, Buffers
<1>2. PICK covers \in BOOLEAN : Scales(covers)
  BY DEF ProcessScaled, ProcessHalfShown, FlipFails
<1>3. PICK h \in Painted(shadow.traces, covers) :
        /\ shadow' = [shadow EXCEPT !.traces = h]
        /\ traces' = [traces EXCEPT ![slot][back] = h]
  BY <1>2 DEF Scales
<1>4. /\ UNCHANGED <<slot, watch, route>> /\ running /\ route = "Scaled"
      /\ shadow.valid
  BY <1>2 DEF Scales, Processes
<1>5. /\ shadow'.traces = h /\ shadow.traces \in BOOLEAN
      /\ traces'[slot][back] = h
      /\ traces'[slot][front[slot]] = traces[slot][front[slot]]
  BY <1>1, <1>3 DEF PresentationTypeOK
<1>6. DirectHasNoShadow'
  BY <1>4 DEF DirectHasNoShadow
<1>7. CASE ProcessHalfShown
  <2>1. blemishes' # {}
    BY <1>7 DEF ProcessHalfShown, Notes
  <2> QED
    BY <1>6, <2>1 DEF StaleInv
<1>8. CASE FlipFails
  <2>1. UNCHANGED <<visible_surface, front>> /\ blemishes \subseteq blemishes'
    BY <1>8 DEF FlipFails, Notes
  <2>2. watch = "after" => (h => shadow.traces)
    BY <1>3, <1>5, PaintedIsFresh
  <2>3. blemishes' = {} => FrontIsFresh' /\ ShadowIsFresh'
    BY <1>4, <1>5, <2>1, <2>2
    DEF StaleInv, FrontIsFresh, ShadowIsFresh, Restorable
  <2> QED
    BY <1>6, <2>3 DEF StaleInv
<1>9. CASE ProcessScaled
  <2>1. PICK c \in BOOLEAN, full \in BOOLEAN :
          /\ Scales(c) /\ is_full_frame_update(c, full) /\ Flips
          /\ ~is_waiting \/ full
    BY <1>9 DEF ProcessScaled
  <2>2. blemishes \subseteq blemishes' /\ front'[slot] = back
    BY <1>1, <1>9, <2>1 DEF ProcessScaled, Notes, Flips, PresentationTypeOK
  <2>3. PICK g \in Painted(shadow.traces, c) :
          shadow' = [shadow EXCEPT !.traces = g]
    BY <2>1 DEF Scales
  <2>4. g = h
    BY <1>1, <1>5, <2>3 DEF PresentationTypeOK
  <2>5. full => c
    BY <1>4, <2>1 DEF is_full_frame_update, raster
  <2>6. ASSUME blemishes' = {}, watch = "after" PROVE ~h
    <3>1. g => shadow.traces /\ ~c
      BY <1>5, <2>3, <2>6, PaintedIsFresh
    <3>2. CASE ~is_waiting
      BY <1>4, <2>2, <2>4, <2>6, <3>1, <3>2
      DEF StaleInv, ShadowIsFresh, Restorable, is_waiting
    <3>3. CASE full
      BY <2>4, <2>5, <3>1, <3>3
    <3> QED
      BY <2>1, <3>2, <3>3
  <2>7. blemishes' = {} => FrontIsFresh' /\ ShadowIsFresh'
    BY <1>4, <1>5, <2>2, <2>6 DEF FrontIsFresh, ShadowIsFresh
  <2> QED
    BY <1>6, <2>7 DEF StaleInv
<1> QED
  BY <1>7, <1>8, <1>9

LEMMA StaleStep ==
  StaleInv /\ [PresentationNext]_vars => StaleInv'
<1> SUFFICES ASSUME StaleInv, [PresentationNext]_vars
             PROVE  StaleInv'
  OBVIOUS
<1>1. TruthInv'
  BY TruthStep DEF StaleInv
<1>2. ASSUME \/ \E area \in {"full", "partial"} : AdmitFrame(area)
             \/ LoseFrame \/ UNCHANGED vars
      PROVE  StaleInv'
  BY <1>1, <1>2 DEF AdmitFrame, LoseFrame, vars, StaleInv, DirectHasNoShadow,
                    FrontIsFresh, ShadowIsFresh, Restorable
<1>3. ASSUME \/ CommitKeepsDirect
             \/ \E m \in AllModes : CommitKeepsScaled(m) \/ CommitWithoutPlan(m)
             \/ \E m \in Physical : CommitSwitches(m)
             \/ \E m \in ScaledModes : CommitReturns(m)
      PROVE  StaleInv'
  BY <1>1, <1>3, StaleCommit
<1> QED
  BY <1>1, <1>2, <1>3, StaleLifecycle, StaleDirect, StaleScaled
  DEF PresentationNext

\* Unless a scaled frame is half shown, the baseline returns with content
\* visible, a frame is processed under a size it was not made for or the
\* waiting scanout is refused, nothing an earlier USB session painted is on
\* screen.
THEOREM StaleContentStaysHidden ==
  PresentationSpec => []StaleOnlyIfBlemished
<1>1. PresentationInit => StaleInv
  BY TruthInit
  DEF PresentationInit, StaleInv, DirectHasNoShadow, FrontIsFresh,
      ShadowIsFresh, Restorable, NoShadow
<1>2. StaleInv /\ [PresentationNext]_vars => StaleInv'
  BY StaleStep
<1>3. StaleInv => StaleOnlyIfBlemished
  <2> SUFFICES ASSUME StaleInv, blemishes = {}, running, screen # WaitingFb
               PROVE  ~(watch = "after" /\ traces[screen[1]][screen[2]])
    BY DEF StaleOnlyIfBlemished, NoStaleContent
  <2>1. screen = <<slot, front[slot]>> /\ visible_surface = "Content"
    BY DEF StaleInv, TruthInv, Buffering, ContentIsFront, SurfaceTellsTruth,
           is_waiting, front_framebuffer
  <2>2. FrontIsFresh /\ Restorable
    BY <2>1 DEF StaleInv, Restorable
  <2>3. screen[1] = slot /\ screen[2] = front[slot]
    BY <2>1
  <2> QED
    BY <2>2, <2>3 DEF FrontIsFresh
<1> QED
  BY <1>1, <1>2, <1>3, PTL DEF PresentationSpec
=============================================================================
