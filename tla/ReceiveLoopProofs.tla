-------------------------- MODULE ReceiveLoopProofs --------------------------
(***************************************************************************)
(* Proofs about the receive loop, for every host, every set of modes and   *)
(* every bound, in production and in the bounded diagnostic.               *)
(***************************************************************************)
EXTENDS ReceiveLoop, GudProtocolProofs

(***************************************************************************)
(* The inductive invariant, in parts.                                      *)
(***************************************************************************)
\* Types of the loop's control state.
ControlType ==
  /\ usb \in UsbSessionState
  /\ guard \in DiagnosticGuard
  /\ drain \in CleanupDrain \cup {NoDrain}
  /\ overdue \in BOOLEAN /\ shutdown \in BOOLEAN
  /\ boundary \in EpochBoundary

\* Types of the receive path.
PathType ==
  /\ pc \in {"top", "poll", "cleanup"} \cup LoopEnds
  /\ exact \in ExactAioTransaction
  /\ session \in BulkReceiveSession
  /\ pending \in Nat /\ ready \in Nat
  /\ aio \in AioSlot

\* Types of the event queue, the link and the host.
BusType ==
  /\ ep0 \in Seq(Events)
  /\ link \in {"disabled", "enabled", "suspended", "lost", "unbound"}
  /\ host \in Host

\* What the layers and the books need of each other: nobody is left in
\* Arming, an unowned path records no operation, the slot is free unless a
\* request is in flight or contained, and only a finished process is
\* ShuttingDown.
PathFacts ==
  /\ exact.state # "Arming"
  /\ exact.state \in Unowned => exact.operation = 0
  /\ exact.state \notin {"InFlight", "Poisoned"} => aio.slot = "free"
  /\ session.state = "ShuttingDown" => pc = "exited"
  /\ pc = "exited" => aio.slot = "free"

PathInv == PathType /\ PathFacts /\ LayersAgree /\ BooksBalance

LEMMA PathInitial == LoopInit => PathInv
<1> SUFFICES ASSUME LoopInit PROVE PathInv
  OBVIOUS
<1> USE DEF LoopInit, InitialExactAio, InitialSession, InitialAio
<1>1. exact \in ExactAioTransaction /\ aio \in AioSlot
  BY DEF ExactAioTransaction, ExactAioState, AioSlot
<1>2. session \in BulkReceiveSession
  BY DEF BulkReceiveSession, BulkReceiveState
<1>3. PathFacts /\ LayersAgree /\ BooksBalance
  BY DEF PathFacts, LayersAgree, BooksBalance, Unowned, Running
<1> QED BY <1>1, <1>2, <1>3 DEF PathInv, PathType

\* The loop moves and the path does not.
LEMMA PathUntouched ==
  ASSUME PathInv, UNCHANGED <<exact, session, pending, ready, aio>>,
         pc' = pc \/ (Running /\ pc' \in {"top", "poll", "cleanup", "failed",
                                          "suppressed"})
  PROVE  PathInv'
BY DEF PathInv, PathType, PathFacts, LayersAgree, BooksBalance, Running,
       LoopEnds, Unowned

\* Both layers are poisoned.  Whatever happens to the pending receive, the
\* ready payload and the slot, the slot is only freed by harvesting it.
LEMMA PathPoisoned ==
  ASSUME PathInv, Running, Running',
         exact' = poison(exact), session' = EnterState(session, "Poisoned"),
         pc' \in {"top", "poll"},
         pending' \in {pending, 0}, ready' \in {ready, 0}, aio' \in AioSlot,
         aio'.op = aio.op, pending' # 0 => aio'.slot # "free",
         ready' # 0 => aio'.slot = "free"
  PROVE  PathInv'
<1> USE DEF PathInv, PathType, poison, EnterState
<1>1. exact' \in ExactAioTransaction
  BY DEF ExactAioTransaction, ExactAioState
<1>2. session' \in BulkReceiveSession
  BY DEF BulkReceiveSession, BulkReceiveState
<1>3. PathType'
  BY <1>1, <1>2
<1>4. /\ exact'.state = "Poisoned" /\ session'.state = "Poisoned"
      /\ exact'.sequence = exact.sequence /\ exact'.operation = exact.operation
      /\ exact'.epoch_id = exact.epoch_id
      /\ session'.epoch_id = session.epoch_id
  BY DEF ExactAioTransaction, BulkReceiveSession
<1>5. PathFacts' /\ LayersAgree' /\ BooksBalance'
  BY <1>4 DEF PathFacts, LayersAgree, BooksBalance, Running, LoopEnds, Unowned
<1> QED BY <1>3, <1>5

\* The endpoint's record when it claims a request, ...
LEMMA ExactClaims ==
  ASSUME NEW x \in ExactAioTransaction, NEW n \in Nat, NEW b, b = begin_arm(x, n)
  PROVE  /\ b \in ExactAioTransaction
         /\ b.sequence = x.sequence + 1 /\ b.epoch_id = x.epoch_id
         /\ b.operation = x.operation
<1>1. x.sequence \in Nat /\ x.sequence + 1 \in Nat
  BY DEF ExactAioTransaction
<1> QED
  BY <1>1 DEF begin_arm, ExactAioTransaction, ExactAioState

\* ... when the kernel accepts it ...
LEMMA ExactAccepted ==
  ASSUME NEW b \in ExactAioTransaction, NEW op \in Nat,
         NEW a, a = submission_accepted_operation(b, op)
  PROVE  /\ a \in ExactAioTransaction /\ a.state = "InFlight"
         /\ a.operation = op
         /\ a.sequence = b.sequence /\ a.epoch_id = b.epoch_id
  BY DEF submission_accepted_operation, ExactAioTransaction, ExactAioState

\* ... and when the kernel refuses it.
LEMMA ExactRefused ==
  ASSUME NEW b \in ExactAioTransaction, NEW r, r = submission_rejected(b)
  PROVE  /\ r \in ExactAioTransaction /\ r.state = "Idle"
         /\ r.operation = b.operation
         /\ r.sequence = b.sequence /\ r.epoch_id = b.epoch_id
  BY DEF submission_rejected, ExactAioTransaction, ExactAioState

LEMMA ExactRetired ==
  ASSUME NEW x \in ExactAioTransaction, NEW n \in Nat
  PROVE  LET r == retire_after_session_destruction(x)
             f == begin_usb_epoch(r, n)
         IN  /\ r \in ExactAioTransaction /\ f \in ExactAioTransaction
             /\ r.state = "AbortedBySessionDestruction" /\ f.state = "Idle"
             /\ r.operation = 0 /\ f.operation = 0
             /\ r.epoch_id = x.epoch_id /\ f.epoch_id = n
<1> DEFINE r == retire_after_session_destruction(x)
<1>1. /\ r \in ExactAioTransaction /\ r.operation = 0
      /\ r.state = "AbortedBySessionDestruction" /\ r.epoch_id = x.epoch_id
  BY DEF retire_after_session_destruction, Released, ExactAioTransaction,
         ExactAioState
<1> HIDE DEF r
<1>2. /\ begin_usb_epoch(r, n) \in ExactAioTransaction
      /\ begin_usb_epoch(r, n).state = "Idle"
      /\ begin_usb_epoch(r, n).operation = r.operation
      /\ begin_usb_epoch(r, n).epoch_id = n
  BY <1>1 DEF begin_usb_epoch, ExactAioTransaction, ExactAioState
<1> QED BY <1>1, <1>2 DEF r

\* The daemon's session when it changes state or epoch.
LEMMA SessionMoves ==
  ASSUME NEW s \in BulkReceiveSession, NEW t \in BulkReceiveState, NEW n \in Nat
  PROVE  /\ EnterState(s, t) \in BulkReceiveSession
         /\ EnterState(s, t).state = t
         /\ EnterState(s, t).epoch_id = s.epoch_id
         /\ begin_session_epoch(s, n) \in BulkReceiveSession
         /\ begin_session_epoch(s, n).state = "Idle"
         /\ begin_session_epoch(s, n).epoch_id = n
BY DEF EnterState, begin_session_epoch, BulkReceiveSession, BulkReceiveState

LEMMA RetireKeepsPath ==
  ASSUME PathInv, ControlType, RetireEpoch PROVE PathInv'
<1> USE DEF RetireEpoch, RetireReady
<1>1. /\ boundary.epoch \in Nat
      /\ exact \in ExactAioTransaction /\ session \in BulkReceiveSession
      /\ "AbortedBySessionDestruction" \in BulkReceiveState
  BY DEF ControlType, EpochBoundary, PathInv, PathType, BulkReceiveState
<1>2. /\ exact' \in ExactAioTransaction /\ session' \in BulkReceiveSession
      /\ exact'.state = session'.state /\ exact'.state \in Unowned
      /\ exact'.operation = 0
      /\ exact.epoch_id = session.epoch_id => exact'.epoch_id = session'.epoch_id
  <2>1. CASE boundary.epoch = 0
    BY <1>1, <2>1, ExactRetired, SessionMoves DEF Unowned
  <2>2. CASE boundary.epoch # 0
    BY <1>1, <2>2, ExactRetired, SessionMoves DEF Unowned
  <2> QED BY <2>1, <2>2
<1>3. PathType'
  BY <1>2 DEF PathInv, PathType, kernelVars
<1>4. PathFacts' /\ LayersAgree' /\ BooksBalance'
  BY <1>2 DEF PathInv, PathFacts, LayersAgree, BooksBalance, Running, LoopEnds,
              Unowned, kernelVars
<1> QED BY <1>3, <1>4 DEF PathInv

LEMMA HarvestKeepsPath == ASSUME PathInv, HarvestPayload PROVE PathInv'
<1> USE DEF PathInv, PathType, HarvestPayload, AtHarvest, Completed,
            completion_for_operation, EnterState, Harvest
<1>1. exact' \in ExactAioTransaction /\ aio' \in AioSlot
  BY DEF ExactAioTransaction, ExactAioState, AioSlot
<1>2. session' \in BulkReceiveSession
  BY DEF BulkReceiveSession, BulkReceiveState
<1>3. PathFacts' /\ LayersAgree' /\ BooksBalance'
  BY DEF PathFacts, LayersAgree, BooksBalance, Running, LoopEnds, Unowned,
         ExactAioTransaction, BulkReceiveSession, AioSlot
<1> QED BY <1>1, <1>2, <1>3

LEMMA ProcessKeepsPath ==
  ASSUME PathInv, ProcessPayload \/ ProcessContained PROVE PathInv'
<1> USE DEF PathInv, PathType, PayloadReady, Polling
<1>1. CASE ProcessPayload
  <2> USE <1>1 DEF ProcessPayload, CanFinish, CanFinishProcessing,
                   finish_processing, Released, EnterState
  <2>1. pc' \in {"top", "cleanup"}
    BY DEF FinishProduction, FinishDiagnostic, AfterDrained
  <2>2. exact' \in ExactAioTransaction
    BY DEF ExactAioTransaction, ExactAioState
  <2>3. session' \in BulkReceiveSession
    BY DEF BulkReceiveSession, BulkReceiveState
  <2>4. PathFacts' /\ LayersAgree' /\ BooksBalance'
    BY <2>1 DEF PathFacts, LayersAgree, BooksBalance, Running, LoopEnds,
                Unowned, ExactAioTransaction, BulkReceiveSession, kernelVars
  <2> QED BY <2>1, <2>2, <2>3, <2>4 DEF kernelVars
<1>2. CASE ProcessContained
  BY <1>2 DEF ProcessContained, PathFacts, LayersAgree, BooksBalance, Running,
              LoopEnds, Unowned, kernelVars
<1> QED BY <1>1, <1>2

LEMMA StatusKeepsPath == ASSUME PathInv, StatusNoted PROVE PathInv'
<1> USE DEF PathInv, PathType, StatusNoted, ServesStatus, Receives, Polling,
            status_sent, AwaitsStatus
<1>1. pc' \in {"top", "cleanup"}
  BY DEF AfterDrained
<1>2. /\ exact' \in ExactAioTransaction
      /\ exact'.state = exact.state /\ exact'.sequence = exact.sequence
      /\ exact'.operation = exact.operation /\ exact'.epoch_id = exact.epoch_id
  BY DEF ExactAioTransaction, ExactAioState
<1>3. PathFacts' /\ LayersAgree' /\ BooksBalance'
  BY <1>1, <1>2 DEF PathFacts, LayersAgree, BooksBalance, Running, LoopEnds,
                    Unowned
<1> QED BY <1>1, <1>2, <1>3

LEMMA ArmKeepsPath ==
  ASSUME PathInv, WellFormed(gud), ArmAccepted PROVE PathInv'
<1>1. /\ aio.op \in Nat /\ aio.op + 1 \in Nat /\ gud.activation \in Nat
      /\ exact \in ExactAioTransaction /\ session \in BulkReceiveSession
      /\ exact.sequence \in Nat /\ "InFlight" \in BulkReceiveState
  BY DEF PathInv, PathType, AioSlot, ExactAioTransaction, WellFormed,
         ProtocolState, BulkReceiveState
<1>2. aio' \in AioSlot /\ aio'.slot = "queued" /\ aio'.op = aio.op + 1
  BY <1>1 DEF ArmAccepted, Submit, AioSlot
<1>3. /\ session' \in BulkReceiveSession /\ session'.state = "InFlight"
      /\ session'.epoch_id = session.epoch_id
  BY <1>1, SessionMoves DEF ArmAccepted
<1>4. /\ exact' \in ExactAioTransaction
      /\ exact'.state = "InFlight" /\ exact'.operation = aio.op + 1
      /\ exact'.sequence = exact.sequence + 1
      /\ exact'.epoch_id = exact.epoch_id
  <2> DEFINE b == begin_arm(exact, gud.activation)
  <2>1. /\ aio.op + 1 \in Nat
        /\ exact' = submission_accepted_operation(b, aio.op + 1)
    BY <1>1 DEF ArmAccepted, Armed
  <2>2. /\ b \in ExactAioTransaction
        /\ b.sequence = exact.sequence + 1 /\ b.epoch_id = exact.epoch_id
    BY <1>1, ExactClaims
  <2> HIDE DEF b
  <2> QED BY <2>1, <2>2, ExactAccepted
<1>5. /\ pc' \in {"top", "failed"} /\ pc = "poll" /\ ready' = ready
      /\ pc' = "top" => pending' = exact'.sequence
      /\ pc' = "failed" => pending' = pending
      /\ exact.state = "Idle" /\ pending = 0
  BY DEF ArmAccepted, Admits, Admissible, Serves, Receives, Polling, CanBeginArm
<1>6. ready = 0
  BY <1>5 DEF PathInv, BooksBalance
<1>7. PathFacts' /\ LayersAgree' /\ BooksBalance'
  BY <1>1, <1>2, <1>3, <1>4, <1>5, <1>6
     DEF PathInv, PathFacts, LayersAgree, BooksBalance, Running, LoopEnds,
         Unowned
<1>8. PathType'
  BY <1>1, <1>2, <1>3, <1>4, <1>5, <1>6 DEF PathInv, PathType, LoopEnds
<1> QED BY <1>7, <1>8 DEF PathInv

LEMMA RejectKeepsPath ==
  ASSUME PathInv, WellFormed(gud), Admissible, pc = "poll", pc' = "top",
         exact' = submission_rejected(begin_arm(exact, gud.activation)),
         UNCHANGED <<session, pending, ready, aio>>
  PROVE  PathInv'
<1>1. /\ gud.activation \in Nat /\ exact \in ExactAioTransaction
      /\ exact.sequence \in Nat
  BY DEF PathInv, PathType, ExactAioTransaction, WellFormed, ProtocolState
<1>2. /\ exact' \in ExactAioTransaction
      /\ exact'.state = "Idle" /\ exact'.operation = exact.operation
      /\ exact'.epoch_id = exact.epoch_id
  <2> DEFINE b == begin_arm(exact, gud.activation)
  <2>1. exact' = submission_rejected(b)
    OBVIOUS
  <2>2. /\ b \in ExactAioTransaction
        /\ b.operation = exact.operation /\ b.epoch_id = exact.epoch_id
    BY <1>1, ExactClaims
  <2> HIDE DEF b
  <2> QED BY <2>1, <2>2, ExactRefused
<1>3. exact.state = "Idle" /\ pending = 0
  BY DEF Admissible, CanBeginArm
<1>4. PathFacts' /\ LayersAgree' /\ BooksBalance'
  BY <1>2, <1>3 DEF PathInv, PathFacts, LayersAgree, BooksBalance, Running,
                    LoopEnds, Unowned
<1> QED BY <1>2, <1>3, <1>4 DEF PathInv, PathType

LEMMA IdleLifecycleKeepsPath ==
  ASSUME PathInv, WellFormed(gud), WellFormed(gud'),
         NEW e \in LifecycleEvents, LifecycleIdle(e)
  PROVE  PathInv'
<1> USE DEF LifecycleIdle, ObservesLifecycle, Receives, Polling
<1>1. CASE UNCHANGED <<exact, session>>
  BY <1>1, PathUntouched DEF Running, LoopEnds
<1>2. CASE ~UNCHANGED <<exact, session>>
  <2>1. /\ exact' = begin_usb_epoch(exact, gud'.activation)
        /\ session' = begin_session_epoch(session, gud'.activation)
        /\ gud'.activation \in Nat
    BY <1>2 DEF WellFormed, ProtocolState
  <2>2. exact.state \in Unowned /\ session.state \in Unowned
    BY DEF observe_aio_lifecycle, ProvenIdle, classify_usb_lifecycle,
           ClassifyOwned, ClassifyContained, ClassifyIdle, Verdict, Boundaries,
           LifecycleEvents
  <2> USE DEF PathInv, PathType, begin_usb_epoch, begin_session_epoch
  <2>3. exact' \in ExactAioTransaction
    BY <2>1 DEF ExactAioTransaction, ExactAioState
  <2>4. session' \in BulkReceiveSession
    BY <2>1 DEF BulkReceiveSession, BulkReceiveState
  <2>5. /\ exact'.state = "Idle" /\ session'.state = "Idle"
        /\ exact'.operation = exact.operation
        /\ exact'.epoch_id = session'.epoch_id
    BY <2>1 DEF ExactAioTransaction, BulkReceiveSession
  <2>6. PathFacts' /\ LayersAgree' /\ BooksBalance'
    BY <2>2, <2>5 DEF PathFacts, LayersAgree, BooksBalance, Running, LoopEnds,
                      Unowned
  <2> QED BY <2>3, <2>4, <2>6
<1> QED BY <1>1, <1>2

LEMMA TearDownKeepsPath == ASSUME PathInv, TearDown PROVE PathInv'
<1> USE DEF PathInv, PathType, TearDown, ProvenIdle, EnterState, kernelVars
<1>1. /\ session' \in BulkReceiveSession
      /\ session'.state = "ShuttingDown" /\ session'.epoch_id = session.epoch_id
  BY DEF BulkReceiveSession, BulkReceiveState
<1>2. PathFacts' /\ LayersAgree' /\ BooksBalance'
  BY <1>1 DEF PathFacts, LayersAgree, BooksBalance, Running, LoopEnds, Unowned
<1> QED BY <1>1, <1>2 DEF LoopEnds

\* The kernel moves a request through its slot; it never frees the slot, and
\* never fills it.
LEMMA KernelKeepsPath ==
  ASSUME PathInv, UNCHANGED <<pc, exact, session, pending, ready>>,
         aio' \in {aio, Flush(aio), Land(aio, "bad"), Land(aio, "exact"),
                   Deliver(aio)},
         aio.slot = "free" => aio' = aio
  PROVE  PathInv'
<1> USE DEF PathInv, PathType
<1>1. /\ aio' \in AioSlot /\ aio'.op = aio.op
      /\ aio'.slot = "free" <=> aio.slot = "free"
  BY DEF Flush, Land, Deliver, AioSlot
<1>2. PathFacts' /\ LayersAgree' /\ BooksBalance'
  BY <1>1 DEF PathFacts, LayersAgree, BooksBalance, Running, LoopEnds, Unowned
<1> QED BY <1>1, <1>2

\* The protocol record stays well-formed: the loop applies the helpers of
\* lib.rs, and on top of them only the latch of a contained session.
LEMMA PoisonKeepsGud ==
  ASSUME NEW g, WellFormed(g), PoisonBoth(g) PROVE WellFormed(gud')
<1>1. "BUSY" \in StatusCode
  BY DEF StatusCode
<1> QED BY <1>1, LatchPreserves DEF PoisonBoth

LEMMA InvalidationKeepsGud ==
  ASSUME NEW g, WellFormed(g), Invalidates(g) PROVE WellFormed(gud')
BY PoisonKeepsGud DEF Invalidates

LEMMA LifecycleKeepsGud ==
  ASSUME WellFormed(gud), NEW e \in LifecycleEvents,
         LifecycleIdle(e) \/ LifecyclePreserves(e) \/ LifecycleBoundary(e)
         \/ LifecycleUnbind
  PROVE  WellFormed(gud')
<1>1. WellFormed(LifecycleReset(gud, e))
  BY LifecyclePreservesRecord
<1>2. CASE LifecycleIdle(e)
  BY <1>1, <1>2 DEF LifecycleIdle
<1>3. CASE LifecyclePreserves(e)
  BY <1>1, <1>3 DEF LifecyclePreserves
<1>4. CASE LifecycleBoundary(e)
  BY <1>1, <1>4, PoisonKeepsGud DEF LifecycleBoundary
<1>5. CASE LifecycleUnbind
  BY <1>5, LifecyclePreservesRecord DEF LifecycleUnbind
<1> QED BY <1>2, <1>3, <1>4, <1>5

LEMMA RequestsKeepGud ==
  ASSUME WellFormed(gud), ServesSomething PROVE WellFormed(gud')
<1> USE LatchPreserves DEF StatusCode
<1>1. CASE SuppressSetup \/ StatusEndsDiagnostic \/ StatusNoted
  BY <1>1 DEF SuppressSetup, StatusEndsDiagnostic, StatusNoted
<1>2. ASSUME NEW r \in Requests, SetupFails(r) PROVE WellFormed(gud')
  <2> DEFINE g == IF r = "GET_CONNECTOR_STATUS"
                  THEN [gud EXCEPT !.connector_changed = FALSE] ELSE gud
  <2>1. WellFormed(g)
    BY ResetPreserves
  <2>2. PoisonBoth(g) \/ gud' = g
    BY <1>2 DEF SetupFails
  <2> QED BY <2>1, <2>2, PoisonKeepsGud
<1>3. CASE ServeInformation \/ ServeUnsupported
  BY <1>3 DEF ServeInformation, ServeUnsupported, GetInformation,
              UnsupportedRequest
<1>4. CASE ServeConnectorStatus
  BY <1>4, ResetPreserves DEF ServeConnectorStatus, GetConnectorStatus
<1>5. CASE ServeStateCheck
  BY <1>5, StatePreserves DEF ServeStateCheck, SetStateCheck
<1>6. CASE ServeStateCommit
  <2>1. PICK m : m \in Modes
    BY ProtocolAssumption
  <2> QED BY <1>6, <2>1, StatePreserves DEF ServeStateCommit, SetStateCommit
<1>7. CASE ServeControllerEnable
  BY <1>7, EnablePreserves
     DEF ServeControllerEnable, SetControllerEnable, SetEnableMalformed
<1>8. CASE ServeDisplayEnable
  BY <1>8, EnablePreserves
     DEF ServeDisplayEnable, SetDisplayEnable, SetEnableMalformed
<1>9. CASE StatusContains \/ StatusRejectsArm
  BY <1>9, PoisonKeepsGud DEF StatusContains, StatusRejectsArm
<1>10. CASE \/ SetBufferBusy \/ SetBufferRejected \/ ArmAccepted \/ ArmRejected
            \/ SetBufferMalformed \/ ArmRefusedSilently
  BY <1>10 DEF SetBufferBusy, SetBufferRejected, SetBufferInvalid, ArmAccepted,
               ArmRejected, SetBufferMalformed, ArmRefusedSilently, LeavesUnarmed
<1>11. CASE StateCheckInvalidates \/ StateCommitInvalidates
  BY <1>11, RejectPreserves, InvalidationKeepsGud
     DEF StateCheckInvalidates, StateCommitInvalidates
<1>12. ASSUME NEW e \in LifecycleEvents,
              LifecycleIdle(e) \/ LifecyclePreserves(e) \/ LifecycleBoundary(e)
       PROVE  WellFormed(gud')
  BY <1>12, LifecycleKeepsGud
<1>13. CASE LifecycleUnbind
  BY <1>13, LifecyclePreservesRecord DEF LifecycleUnbind
<1> QED BY <1>1, <1>2, <1>3, <1>4, <1>5, <1>6, <1>7, <1>8, <1>9, <1>10,
          <1>11, <1>12, <1>13 DEF ServesSomething

LEMMA GudStep == ASSUME WellFormed(gud), [Next]_vars PROVE WellFormed(gud')
<1>1. CASE Loop
  <2>1. CASE ServesSomething
    BY <2>1, RequestsKeepGud
  <2>2. CASE HarvestRejected \/ MissDeadline \/ PollFails \/ ProcessFails
    BY <2>2, PoisonKeepsGud
       DEF HarvestRejected, MissDeadline, PollFails, ProcessFails
  <2>3. CASE \/ RetireEpoch \/ RetireFails \/ DrainTimesOut \/ LeaveLoop
             \/ HarvestPayload \/ NothingToHarvest \/ HoldEp0 \/ PollEmpty
             \/ ProcessPayload \/ ProcessContained \/ TearDown
             \/ SuppressTeardown
    BY <2>3 DEF RetireEpoch, RetireFails, DrainTimesOut, LeaveLoop,
         HarvestPayload, NothingToHarvest, HoldEp0, PollEmpty, ProcessPayload,
         ProcessContained, TearDown, SuppressTeardown
  <2> QED BY <1>1, <2>1, <2>2, <2>3 DEF Loop
<1>2. CASE Environment
  BY <1>2 DEF Environment, UsbEnable, UsbDisable, BusSuspend, BusResume,
       CableLost, UdcUnbind, UdcBind, AioFails, AioDelivered, DeadlinePasses,
       RequestShutdown, HostPosts, HostTimesOut, HostBulk, HostAbandons
<1>3. CASE Ended \/ UNCHANGED vars
  BY <1>3 DEF Ended, vars
<1> QED BY <1>1, <1>2, <1>3 DEF Next

\* A step that poisons both layers and touches neither the slot nor the books,
\* or gives up the pending receive.
LEMMA ContainKeepsPath ==
  ASSUME PathInv, NEW g, PoisonBoth(g), UNCHANGED <<ready, aio>>,
         pending' = pending \/ pending' = 0,
         pc \in {"top", "poll"}, pc' \in {"top", "poll"}
  PROVE  PathInv'
<1>1. Running /\ Running'
  BY DEF Running, LoopEnds
<1>2. pending' # 0 => aio'.slot # "free"
  BY DEF PathInv, BooksBalance
<1>3. ready' # 0 => aio'.slot = "free"
  BY DEF PathInv, BooksBalance
<1>4. aio' \in AioSlot /\ aio'.op = aio.op
  BY DEF PathInv, PathType
<1> QED BY <1>1, <1>2, <1>3, <1>4, PathPoisoned DEF PoisonBoth

LEMMA HarvestRejectedKeepsPath ==
  ASSUME PathInv, HarvestRejected PROVE PathInv'
<1> USE DEF HarvestRejected, AtHarvest, Completed
<1>1. Running /\ Running' /\ pc' \in {"top", "poll"}
  BY DEF Running, LoopEnds
<1>2. aio' \in AioSlot /\ aio'.op = aio.op /\ aio'.slot = "free"
  BY DEF PathInv, PathType, AioSlot, Harvest
<1> QED BY <1>1, <1>2, PathPoisoned DEF PoisonBoth

LEMMA ProcessFailsKeepsPath == ASSUME PathInv, ProcessFails PROVE PathInv'
<1> USE DEF ProcessFails, PayloadReady, Polling
<1>1. Running /\ Running' /\ pc' \in {"top", "poll"}
  BY DEF Running, LoopEnds
<1>2. UNCHANGED <<pending, aio>> /\ aio' \in AioSlot
  BY DEF kernelVars, PathInv, PathType
<1>3. pending' # 0 => aio'.slot # "free"
  BY <1>2 DEF PathInv, BooksBalance
<1> QED BY <1>1, <1>2, <1>3, PathPoisoned DEF PoisonBoth

LEMMA RequestsKeepPath ==
  ASSUME PathInv, WellFormed(gud), WellFormed(gud'), ServesSomething
  PROVE  PathInv'
<1> USE DEF Receives, Polling, receiveVars
<1>1. CASE SuppressSetup \/ SetBufferBusy \/ SetBufferMalformed \/ SetBufferRejected
  BY <1>1, PathUntouched DEF SuppressSetup, SetBufferBusy, SetBufferMalformed,
       LeavesUnarmed, SetBufferRejected, ServesControl, Serves, Running, LoopEnds
<1>2. ASSUME NEW r \in Requests, SetupFails(r) PROVE PathInv'
  <2> DEFINE g == IF r = "GET_CONNECTOR_STATUS"
                  THEN [gud EXCEPT !.connector_changed = FALSE] ELSE gud
  <2>1. CASE PoisonBoth(g)
    BY <1>2, <2>1, ContainKeepsPath DEF SetupFails
  <2>2. CASE UNCHANGED <<exact, session>>
    BY <1>2, <2>2, PathUntouched DEF SetupFails, Running, LoopEnds
  <2> QED BY <1>2, <2>1, <2>2 DEF SetupFails
<1>3. CASE \/ ServeInformation \/ ServeConnectorStatus \/ ServeUnsupported
           \/ ServeStateCheck \/ ServeStateCommit \/ ServeControllerEnable
           \/ ServeDisplayEnable
  <2>1. \E r \in Requests : ServesControl(r)
    BY <1>3 DEF ServeInformation, ServeConnectorStatus, ServeUnsupported,
         ServeStateCheck, ServeStateCommit, ServeControllerEnable,
         ServeDisplayEnable, Requests
  <2> QED BY <2>1, PathUntouched DEF ServesControl, Serves, Running, LoopEnds
<1>4. CASE StatusContains \/ StatusRejectsArm
  BY <1>4, ContainKeepsPath DEF StatusContains, StatusRejectsArm, ServesStatus
<1>5. CASE StatusEndsDiagnostic
  BY <1>5, PathUntouched DEF StatusEndsDiagnostic, ServesStatus, Running, LoopEnds
<1>6. CASE StatusNoted
  BY <1>6, StatusKeepsPath
<1>7. CASE ArmAccepted
  BY <1>7, ArmKeepsPath
<1>8. CASE ArmRejected
  BY <1>8, RejectKeepsPath DEF ArmRejected, Admits, Serves
<1>9. CASE StateCheckInvalidates \/ StateCommitInvalidates
  <2>1. PICK g : Invalidates(g)
    BY <1>9 DEF StateCheckInvalidates, StateCommitInvalidates
  <2>2. pc = "poll" /\ pc' = "top" /\ UNCHANGED <<pending, ready, aio>>
    BY <1>9 DEF StateCheckInvalidates, StateCommitInvalidates, Serves,
                Invalidates
  <2>3. CASE PoisonBoth(g)
    BY <2>2, <2>3, ContainKeepsPath
  <2>4. CASE UNCHANGED <<exact, session>>
    BY <2>2, <2>4, PathUntouched DEF Running, LoopEnds
  <2> QED BY <2>1, <2>3, <2>4 DEF Invalidates
<1>10. ASSUME NEW e \in LifecycleEvents, LifecycleIdle(e) PROVE PathInv'
  BY <1>10, IdleLifecycleKeepsPath
<1>11. ASSUME NEW e \in LifecycleEvents, LifecyclePreserves(e) PROVE PathInv'
  BY <1>11, PathUntouched DEF LifecyclePreserves, ObservesLifecycle, Running,
       LoopEnds
<1>12. ASSUME NEW e \in LifecycleEvents, LifecycleBoundary(e) PROVE PathInv'
  <2>1. pc = "poll" /\ pc' = "top" /\ UNCHANGED <<pending, ready, aio>>
    BY <1>12 DEF LifecycleBoundary, ObservesLifecycle
  <2>2. CASE PoisonBoth(LifecycleReset(gud, e))
    BY <2>1, <2>2, ContainKeepsPath
  <2>3. CASE UNCHANGED <<exact, session>>
    BY <2>1, <2>3, PathUntouched DEF Running, LoopEnds
  <2> QED BY <1>12, <2>2, <2>3 DEF LifecycleBoundary
<1>13. CASE LifecycleUnbind
  BY <1>13, PathUntouched DEF LifecycleUnbind, ObservesLifecycle, Running,
       LoopEnds
<1>14. CASE ArmRefusedSilently
  <2>1. /\ Admissible /\ pc = "poll" /\ pc' = "top"
        /\ UNCHANGED <<session, pending, ready, aio>>
    BY <1>14 DEF ArmRefusedSilently, LeavesUnarmed
  <2>2. CASE UNCHANGED exact
    BY <2>1, <2>2, PathUntouched DEF Running, LoopEnds
  <2>3. CASE exact' = submission_rejected(begin_arm(exact, gud.activation))
    BY <2>1, <2>3, RejectKeepsPath
  <2> QED BY <1>14, <2>2, <2>3 DEF ArmRefusedSilently
<1> QED BY <1>1, <1>2, <1>3, <1>4, <1>5, <1>6, <1>7, <1>8, <1>9, <1>10,
          <1>11, <1>12, <1>13, <1>14 DEF ServesSomething

LEMMA EnvironmentKeepsPath == ASSUME PathInv, Environment PROVE PathInv'
<1> USE DEF loopVars, receiveVars, kernelVars
<1>1. UNCHANGED <<pc, exact, session, pending, ready>>
  BY DEF Environment, UsbEnable, UsbDisable, BusSuspend, BusResume, CableLost,
       UdcUnbind, UdcBind, AioFails, AioDelivered, DeadlinePasses,
       RequestShutdown, HostPosts, HostTimesOut, HostBulk, HostAbandons
<1>2. /\ aio' \in {aio, Flush(aio), Land(aio, "bad"), Land(aio, "exact"),
                  Deliver(aio)}
      /\ aio.slot = "free" => aio' = aio
  BY DEF Environment, UsbEnable, UsbDisable, BusSuspend, BusResume, CableLost,
       UdcUnbind, UdcBind, AioFails, AioDelivered, DeadlinePasses,
       RequestShutdown, HostPosts, HostTimesOut, HostBulk, HostAbandons, Flush
<1> QED BY <1>1, <1>2, KernelKeepsPath

\* Every step of the loop and of everything around it keeps the receive
\* path's invariant.
LEMMA PathStep ==
  ASSUME PathInv, ControlType, WellFormed(gud), [Next]_vars PROVE PathInv'
<1> USE DEF receiveVars, kernelVars, Polling
<1>0. WellFormed(gud')
  BY GudStep
<1>1. CASE Loop
  <2>1. CASE RetireEpoch
    BY <2>1, RetireKeepsPath
  <2>2. CASE RetireFails \/ DrainTimesOut \/ LeaveLoop \/ NothingToHarvest
    BY <2>2, PathUntouched DEF RetireFails, DrainTimesOut, LeaveLoop,
         NothingToHarvest, AtHarvest, Running, LoopEnds
  <2>3. CASE HoldEp0 \/ PollEmpty
    BY <2>3, PathUntouched DEF HoldEp0, PollEmpty, Running, LoopEnds
  <2>4. CASE HarvestPayload
    BY <2>4, HarvestKeepsPath
  <2>5. CASE HarvestRejected
    BY <2>5, HarvestRejectedKeepsPath
  <2>6. CASE MissDeadline
    BY <2>6, ContainKeepsPath DEF MissDeadline, AtHarvest
  <2>7. CASE PollFails
    <3>1. CASE PoisonBoth(gud)
      BY <2>7, <3>1, ContainKeepsPath DEF PollFails
    <3>2. CASE UNCHANGED <<exact, session>>
      BY <2>7, <3>2, PathUntouched DEF PollFails, Running, LoopEnds
    <3> QED BY <2>7, <3>1, <3>2 DEF PollFails
  <2>8. CASE ProcessPayload \/ ProcessContained
    BY <2>8, ProcessKeepsPath
  <2>9. CASE ProcessFails
    BY <2>9, ProcessFailsKeepsPath
  <2>10. CASE ServesSomething
    BY <2>10, <1>0, RequestsKeepPath
  <2>11. CASE TearDown
    BY <2>11, TearDownKeepsPath
  <2>12. CASE SuppressTeardown
    BY <2>12, PathUntouched DEF SuppressTeardown, Running, LoopEnds
  <2> QED BY <1>1, <2>1, <2>2, <2>3, <2>4, <2>5, <2>6, <2>7, <2>8, <2>9,
            <2>10, <2>11, <2>12 DEF Loop
<1>2. CASE Environment
  BY <1>2, EnvironmentKeepsPath
<1>3. CASE Ended \/ UNCHANGED vars
  BY <1>3, PathUntouched DEF Ended, vars, loopVars
<1> QED BY <1>1, <1>2, <1>3 DEF Next

\* What the classification answers.
LEMMA VerdictType ==
  ASSUME NEW u \in UsbSessionState, NEW input, NEW idle \in BOOLEAN
  PROVE  classify_usb_lifecycle(u, input, idle).next \in UsbSessionState
BY DEF classify_usb_lifecycle, ClassifyOwned, ClassifyContained, ClassifyIdle,
       Verdict, AfterBoundary, UsbSessionState

\* The diagnostic's guard and drain stay within the two transactions they
\* count.
LEMMA GuardMoves ==
  ASSUME NEW g \in DiagnosticGuard
  PROVE  /\ release_after_cleanup(g) \in DiagnosticGuard
         /\ set_buffer_permitted(g) =>
              /\ begin_after_aio_acceptance(g) \in DiagnosticGuard
              /\ new_drain(begin_after_aio_acceptance(g).started) \in CleanupDrain
<1>1. release_after_cleanup(g) \in DiagnosticGuard
  BY DEF DiagnosticGuard, release_after_cleanup
<1>2. ASSUME set_buffer_permitted(g)
      PROVE  /\ begin_after_aio_acceptance(g) \in DiagnosticGuard
             /\ new_drain(begin_after_aio_acceptance(g).started) \in CleanupDrain
  <2> DEFINE n == begin_after_aio_acceptance(g).started
  <2>1. g.started \in 0 .. 2
    BY DEF DiagnosticGuard
  <2>2. n \in 0 .. 2
    BY <1>2, <2>1, LimitAssumption
       DEF set_buffer_permitted, begin_after_aio_acceptance
  <2>3. begin_after_aio_acceptance(g) = [active |-> TRUE, started |-> n]
    BY DEF begin_after_aio_acceptance
  <2> HIDE DEF n
  <2>4. new_drain(n) \in CleanupDrain
    BY <2>2 DEF new_drain, CleanupDrain, CleanupStatusCount
  <2>5. begin_after_aio_acceptance(g) \in DiagnosticGuard
    BY <2>2, <2>3 DEF DiagnosticGuard
  <2> QED BY <2>4, <2>5 DEF n
<1> QED BY <1>1, <1>2

LEMMA DrainMoves ==
  ASSUME NEW d \in CleanupDrain, NEW s
  PROVE  /\ payload_processed(d) \in CleanupDrain
         /\ [d EXCEPT !.phase = "TimedOut"] \in CleanupDrain
         /\ StatusExpected(d, s) => note_status(d) \in CleanupDrain
<1> USE DEF CleanupDrain, CleanupStatusCount
<1>1. payload_processed(d) \in CleanupDrain
  BY DEF payload_processed
<1>2. [d EXCEPT !.phase = "TimedOut"] \in CleanupDrain
  OBVIOUS
<1>3. ASSUME StatusExpected(d, s) PROVE note_status(d) \in CleanupDrain
  <2>1. CASE d.phase = "AwaitingInitial"
    BY <2>1 DEF note_status
  <2>2. CASE d.phase # "AwaitingInitial"
    <3> DEFINE n == d.trailing + 1
               p == IF d.phase = "AwaitingTrailing" /\ n = CleanupStatusCount
                    THEN "Drained" ELSE d.phase
    <3>1. n \in 0 .. 2
      BY <1>3, <2>2 DEF StatusExpected
    <3>2. note_status(d) = [d EXCEPT !.trailing = n, !.phase = p]
      BY <2>2 DEF note_status
    <3>3. p \in {"AwaitingInitial", "Receiving", "AwaitingTrailing", "Drained",
                 "TimedOut"}
      OBVIOUS
    <3> HIDE DEF n, p
    <3> QED BY <3>1, <3>2, <3>3
  <2> QED BY <2>1, <2>2
<1> QED BY <1>1, <1>2, <1>3

LEMMA RequestsKeepControl ==
  ASSUME ControlType, WellFormed(gud), ServesSomething PROVE ControlType'
<1> USE DEF ControlType, receiveVars
<1>1. CASE \/ SuppressSetup \/ SetBufferBusy \/ SetBufferRejected
           \/ SetBufferMalformed \/ ArmRefusedSilently
  BY <1>1 DEF SuppressSetup, SetBufferBusy, SetBufferRejected, ServesControl,
       Serves, SetBufferMalformed, ArmRefusedSilently, LeavesUnarmed
<1>2. ASSUME NEW r \in Requests, SetupFails(r) PROVE ControlType'
  BY <1>2 DEF SetupFails
<1>3. CASE \/ ServeInformation \/ ServeConnectorStatus \/ ServeUnsupported
           \/ ServeStateCheck \/ ServeStateCommit \/ ServeControllerEnable
           \/ ServeDisplayEnable
  BY <1>3 DEF ServeInformation, ServeConnectorStatus, ServeUnsupported,
       ServeStateCheck, ServeStateCommit, ServeControllerEnable,
       ServeDisplayEnable, ServesControl, Serves
<1>4. CASE StatusContains \/ StatusRejectsArm \/ StatusEndsDiagnostic
  BY <1>4 DEF StatusContains, StatusRejectsArm, StatusEndsDiagnostic,
       ServesStatus
<1>5. CASE StatusNoted
  <2>1. UNCHANGED <<usb, overdue, shutdown, boundary>>
    BY <1>5 DEF StatusNoted, ServesStatus
  <2>2. guard' \in DiagnosticGuard
    BY <1>5, GuardMoves DEF StatusNoted
  <2>3. drain' \in CleanupDrain \cup {NoDrain}
    BY <1>5, DrainMoves DEF StatusNoted, StatusOutOfTurn, AfterDrained
  <2> QED BY <2>1, <2>2, <2>3
<1>6. CASE ArmAccepted
  BY <1>6, GuardMoves DEF ArmAccepted, Admits, Admissible, Serves
<1>7. CASE ArmRejected
  BY <1>7 DEF ArmRejected, Admits, Serves
<1>8. CASE StateCheckInvalidates \/ StateCommitInvalidates
  <2>1. PICK g : Invalidates(g)
    BY <1>8 DEF StateCheckInvalidates, StateCommitInvalidates
  <2>2. usb' \in UsbSessionState
    BY <2>1, VerdictType DEF Invalidates, observe_aio_lifecycle
  <2> QED BY <1>8, <2>1, <2>2
          DEF StateCheckInvalidates, StateCommitInvalidates, Serves, Invalidates
<1>9. ASSUME NEW e \in LifecycleEvents,
             LifecycleIdle(e) \/ LifecyclePreserves(e) \/ LifecycleBoundary(e)
      PROVE  ControlType'
  <2>1. usb' \in UsbSessionState
    BY <1>9, VerdictType DEF LifecycleIdle, LifecyclePreserves,
         LifecycleBoundary, observe_aio_lifecycle
  <2>2. LifecycleReset(gud, e).activation \in Nat
    BY LifecyclePreservesRecord DEF WellFormed, ProtocolState
  <2>3. boundary' \in EpochBoundary
    <3>1. CASE LifecycleBoundary(e)
      <4> DEFINE n == IF e = "Enable" THEN LifecycleReset(gud, e).activation
                                      ELSE 0
      <4>1. n \in Nat /\ boundary' = [open |-> TRUE, epoch |-> n]
        BY <2>2, <3>1 DEF LifecycleBoundary
      <4> HIDE DEF n
      <4> QED BY <4>1 DEF EpochBoundary
    <3>2. CASE UNCHANGED boundary
      BY <3>2
    <3> QED BY <1>9, <3>1, <3>2 DEF LifecycleIdle, LifecyclePreserves
  <2> QED BY <1>9, <2>1, <2>3 DEF LifecycleIdle, LifecyclePreserves,
            LifecycleBoundary, ObservesLifecycle
<1>10. CASE LifecycleUnbind
  BY <1>10 DEF LifecycleUnbind, ObservesLifecycle
<1> QED BY <1>1, <1>2, <1>3, <1>4, <1>5, <1>6, <1>7, <1>8, <1>9, <1>10
        DEF ServesSomething

LEMMA ControlStep ==
  ASSUME ControlType, WellFormed(gud), [Next]_vars PROVE ControlType'
<1> USE DEF ControlType, receiveVars
<1>1. CASE Loop
  <2>1. CASE RetireEpoch
    BY <2>1, GuardMoves DEF RetireEpoch, UsbSessionState, NoBoundary,
         EpochBoundary
  <2>2. CASE DrainTimesOut
    BY <2>2, DrainMoves DEF DrainTimesOut
  <2>3. CASE ProcessPayload
    <3>1. guard' \in DiagnosticGuard
      BY <2>3, GuardMoves DEF ProcessPayload, FinishProduction, FinishDiagnostic
    <3>2. drain' \in CleanupDrain \cup {NoDrain}
      <4>1. CASE FinishProduction
        BY <4>1 DEF FinishProduction
      <4>2. CASE FinishDiagnostic /\ drain \in CleanupDrain
        BY <4>2, DrainMoves DEF FinishDiagnostic, AfterDrained
      <4>3. FinishDiagnostic => drain \in CleanupDrain
        BY <2>3 DEF ProcessPayload, CanFinish, FinishDiagnostic
      <4> QED BY <2>3, <4>1, <4>2, <4>3 DEF ProcessPayload
    <3> QED BY <2>3, <3>1, <3>2 DEF ProcessPayload
  <2>4. CASE ServesSomething
    BY <2>4, RequestsKeepControl
  <2>5. CASE \/ RetireFails \/ LeaveLoop \/ NothingToHarvest \/ HoldEp0
             \/ PollEmpty \/ SuppressTeardown \/ HarvestPayload
             \/ HarvestRejected \/ MissDeadline \/ PollFails
             \/ ProcessContained \/ ProcessFails \/ TearDown
    BY <2>5 DEF RetireFails, LeaveLoop, NothingToHarvest, HoldEp0, PollEmpty,
         SuppressTeardown, HarvestPayload, HarvestRejected, MissDeadline,
         PollFails, ProcessContained, ProcessFails, TearDown
  <2> QED BY <1>1, <2>1, <2>2, <2>3, <2>4, <2>5 DEF Loop
<1>2. CASE Environment
  BY <1>2 DEF Environment, UsbEnable, UsbDisable, BusSuspend, BusResume,
       CableLost, UdcUnbind, UdcBind, AioFails, AioDelivered, DeadlinePasses,
       RequestShutdown, HostPosts, HostTimesOut, HostBulk, HostAbandons, loopVars
<1>3. CASE Ended \/ UNCHANGED vars
  BY <1>3 DEF Ended, vars, loopVars
<1> QED BY <1>1, <1>2, <1>3 DEF Next

\* The kernel's queue discipline keeps a sequence of events.
LEMMA EnqueueType ==
  ASSUME NEW q \in Seq(Events), NEW e \in Events
  PROVE  Enqueue(q, e) \in Seq(Events)
<1> DEFINE K == Survivors(e)
<1>1. ASSUME NEW i PROVE KeepAt(q, i, K) \in Seq(Events)
  <2>1. CASE i \in DOMAIN q /\ q[i] \in K
    <3>1. q[i] \in Events
      BY <2>1
    <3>2. <<q[i]>> \in Seq(Events)
      BY <3>1
    <3> QED BY <2>1, <3>2 DEF KeepAt
  <2>2. CASE ~(i \in DOMAIN q /\ q[i] \in K)
    BY <2>2 DEF KeepAt
  <2> QED BY <2>1, <2>2
<1> HIDE DEF K
<1>2. Keep(q, K) \in Seq(Events)
  BY <1>1 DEF Keep
<1> QED BY <1>2 DEF Enqueue, K

LEMMA LoopKeepsBus == ASSUME BusType, Loop PROVE BusType'
<1> USE DEF BusType, kernelVars
<1>0. ep0 # <<>> => Tail(ep0) \in Seq(Events)
  OBVIOUS
<1>1. CASE ServesSomething
  <2>1. ep0' \in Seq(Events) /\ link' = link
    BY <1>0, <1>1 DEF ServesSomething, SuppressSetup, SetupFails,
         ServeInformation, ServeConnectorStatus, ServeUnsupported,
         ServeStateCheck, ServeStateCommit, ServeControllerEnable,
         ServeDisplayEnable, StatusContains, StatusEndsDiagnostic,
         StatusRejectsArm, StatusNoted, SetBufferBusy, SetBufferRejected,
         ArmAccepted, ArmRejected, Admits, StateCheckInvalidates,
         StateCommitInvalidates, LifecycleIdle, LifecyclePreserves,
         LifecycleBoundary, LifecycleUnbind, ObservesLifecycle, ServesStatus,
         ServesControl, Serves, Receives, SetBufferMalformed,
         ArmRefusedSilently, LeavesUnarmed
  <2>2. CASE ServesStatus
    <3> DEFINE b == host.bulk \/ (host.buffer /\ gud.status = "OK")
    <3>1. host' = [host EXCEPT !.ctrl = "idle", !.buffer = FALSE, !.bulk = b]
      BY <2>2 DEF ServesStatus
    <3>2. b \in BOOLEAN
      BY DEF Host
    <3> HIDE DEF b
    <3> QED BY <2>1, <3>1, <3>2 DEF Host
  <2>3. CASE ~ServesStatus
    <3>1. \/ host' = host
          \/ host' = [host EXCEPT !.ctrl = "idle", !.buffer = FALSE]
          \/ \E r \in Requests :
               host' = [host EXCEPT !.ctrl = IF r \in GetRequests THEN "idle"
                                                                 ELSE "owes"]
          \/ host' = [host EXCEPT !.ctrl = "owes", !.unarmed = TRUE]
      BY <1>1, <2>3 DEF ServesSomething, SuppressSetup, SetupFails,
           ServeInformation, ServeConnectorStatus, ServeUnsupported,
           ServeStateCheck, ServeStateCommit, ServeControllerEnable,
           ServeDisplayEnable, StatusContains, StatusEndsDiagnostic,
           StatusRejectsArm, StatusNoted, SetBufferBusy, SetBufferRejected,
           ArmAccepted, ArmRejected, Admits, StateCheckInvalidates,
           StateCommitInvalidates, LifecycleIdle, LifecyclePreserves,
           LifecycleBoundary, LifecycleUnbind, ObservesLifecycle,
           ServesControl, Serves, Requests, SetBufferMalformed,
           ArmRefusedSilently, LeavesUnarmed
    <3> QED BY <2>1, <3>1 DEF Host
  <2> QED BY <2>2, <2>3
<1>2. CASE ~ServesSomething
  BY <1>2 DEF Loop, RetireEpoch, RetireFails, DrainTimesOut, LeaveLoop,
       HarvestPayload, HarvestRejected, MissDeadline, NothingToHarvest,
       HoldEp0, PollFails, PollEmpty, ProcessPayload, ProcessContained,
       ProcessFails, TearDown, SuppressTeardown
<1> QED BY <1>1, <1>2

LEMMA EnvironmentKeepsBus == ASSUME BusType, Environment PROVE BusType'
<1> USE DEF BusType, kernelVars, loopVars, receiveVars, Announces
<1>1. CASE UsbEnable \/ UsbDisable \/ BusSuspend \/ BusResume \/ CableLost
           \/ UdcUnbind \/ UdcBind
  <2>1. \A e \in PowerEvents \cup SessionEvents : Enqueue(ep0, e) \in Seq(Events)
    BY EnqueueType DEF Events
  <2>2. ep0' \in Seq(Events)
    BY <1>1, <2>1 DEF UsbEnable, UsbDisable, BusSuspend, BusResume, CableLost,
         UdcUnbind, UdcBind, PowerEvents, SessionEvents
  <2>3. QuietHost \in Host
    BY DEF Host, QuietHost
  <2>4. /\ link' \in {"disabled", "enabled", "suspended", "lost", "unbound"}
        /\ host' \in {host, QuietHost}
    BY <1>1 DEF UsbEnable, UsbDisable, BusSuspend, BusResume, CableLost,
         UdcUnbind, UdcBind
  <2> QED BY <2>2, <2>3, <2>4
<1>2. CASE AioFails \/ AioDelivered \/ DeadlinePasses \/ RequestShutdown
           \/ HostTimesOut \/ HostBulk \/ HostAbandons
  BY <1>2 DEF AioFails, AioDelivered, DeadlinePasses, RequestShutdown,
       HostTimesOut, HostBulk, HostAbandons, Host
<1>3. ASSUME NEW r \in Requests, HostPosts(r) PROVE BusType'
  <2>1. ep0' \in Seq(Events) /\ link' = link
    BY <1>3, EnqueueType DEF HostPosts, Events
  <2>2. host' \in Host
    BY <1>3 DEF HostPosts, Host
  <2> QED BY <2>1, <2>2
<1> QED BY <1>1, <1>2, <1>3 DEF Environment

(***************************************************************************)
(* The theorems that hold for every mode of operation.                     *)
(***************************************************************************)
LoopInv == PathInv /\ ControlType /\ BusType /\ WellFormed(gud)

LEMMA LoopInitial == LoopInit => LoopInv
<1> SUFFICES ASSUME LoopInit PROVE LoopInv
  OBVIOUS
<1>1. ControlType
  <2>1. InitialGuard \in DiagnosticGuard
    BY DEF InitialGuard, DiagnosticGuard
  <2>2. NoBoundary \in EpochBoundary
    BY DEF NoBoundary, EpochBoundary
  <2> QED BY <2>1, <2>2 DEF LoopInit, ControlType, UsbSessionState
<1>2. BusType
  BY DEF LoopInit, BusType, QuietHost, Host, Events, SessionEvents
<1>3. WellFormed(gud)
  BY ProtocolInitial DEF LoopInit, ProtocolInit, ProtocolInv
<1> QED BY <1>1, <1>2, <1>3, PathInitial DEF LoopInv

LEMMA LoopStep == LoopInv /\ [Next]_vars => LoopInv'
<1> SUFFICES ASSUME LoopInv, [Next]_vars PROVE LoopInv'
  OBVIOUS
<1>1. BusType'
  <2>1. CASE Loop
    BY <2>1, LoopKeepsBus DEF LoopInv
  <2>2. CASE Environment
    BY <2>2, EnvironmentKeepsBus DEF LoopInv
  <2>3. CASE Ended \/ UNCHANGED vars
    BY <2>3 DEF Ended, vars, kernelVars, LoopInv, BusType
  <2> QED BY <2>1, <2>2, <2>3 DEF Next
<1>2. WellFormed(gud')
  BY GudStep DEF LoopInv
<1> QED BY <1>1, <1>2, PathStep, ControlStep DEF LoopInv

\* Every variable keeps its type, for every host and in every mode: the kernel
\* event queue, the diagnostic's counters and the epochs included.
THEOREM TypesHold == Spec => []TypeOK
<1>1. LoopInv => TypeOK
  BY DEF LoopInv, PathInv, PathType, ControlType, BusType, WellFormed, TypeOK
<1> QED BY <1>1, LoopInitial, LoopStep, PTL DEF Spec

\* The endpoint layer and the daemon's session never disagree about who owns
\* the receive path or about the USB epoch, whatever the host, the kernel and
\* the clock do.
THEOREM LayersAlwaysAgree == Spec => []LayersAgree
<1>1. LoopInv => LayersAgree
  BY DEF LoopInv, PathInv
<1> QED BY <1>1, LoopInitial, LoopStep, PTL DEF Spec

\* The pending receive, the ready payload and the AIO slot always account for
\* one and the same request.
THEOREM BooksAlwaysBalance == Spec => []BooksBalance
<1>1. LoopInv => BooksBalance
  BY DEF LoopInv, PathInv
<1> QED BY <1>1, LoopInitial, LoopStep, PTL DEF Spec

(***************************************************************************)
(* Containment.                                                            *)
(***************************************************************************)
ContainmentStep ==
  session.state = "Poisoned" /\ session'.state # "Poisoned" =>
    boundary.open /\ aio.slot = "free" /\ pending = 0

LEMMA ContainmentSteps == LoopInv /\ [Next]_vars => ContainmentStep
<1> SUFFICES ASSUME LoopInv, [Next]_vars, session.state = "Poisoned"
             PROVE  \/ session'.state = "Poisoned"
                    \/ boundary.open /\ aio.slot = "free" /\ pending = 0
  BY DEF ContainmentStep
<1> USE DEF receiveVars
<1>0. /\ session \in BulkReceiveSession
      /\ EnterState(session, "Poisoned").state = "Poisoned"
  BY DEF LoopInv, PathInv, PathType, EnterState, BulkReceiveSession
<1>1. CASE Loop
  <2>1. CASE RetireEpoch
    BY <2>1 DEF RetireEpoch, RetireReady
  <2>2. CASE HarvestPayload \/ ProcessPayload \/ TearDown
    BY <2>2 DEF HarvestPayload, ProcessPayload, CanFinish, TearDown, ProvenIdle,
         Unowned
  <2>3. CASE \/ RetireFails \/ DrainTimesOut \/ LeaveLoop \/ HarvestRejected
             \/ MissDeadline \/ NothingToHarvest \/ HoldEp0 \/ PollFails
             \/ PollEmpty \/ ProcessContained \/ ProcessFails
             \/ SuppressTeardown
    BY <1>0, <2>3 DEF RetireFails, DrainTimesOut, LeaveLoop, HarvestRejected,
         MissDeadline, NothingToHarvest, HoldEp0, PollFails, PollEmpty,
         ProcessContained, ProcessFails, SuppressTeardown, PoisonBoth
  <2>4. CASE ServesSomething
    <3>1. CASE SuppressSetup \/ LifecycleUnbind
      BY <3>1 DEF SuppressSetup, LifecycleUnbind
    <3>2. CASE StateCheckInvalidates \/ StateCommitInvalidates
      BY <3>2 DEF StateCheckInvalidates, StateCommitInvalidates, Serves
    <3>3. ASSUME NEW e \in LifecycleEvents,
                 LifecycleIdle(e) \/ LifecyclePreserves(e) \/ LifecycleBoundary(e)
          PROVE  session'.state = "Poisoned"
      <4>1. CASE LifecycleIdle(e)
        BY <4>1 DEF LifecycleIdle, ObservesLifecycle, observe_aio_lifecycle,
             ProvenIdle, classify_usb_lifecycle, ClassifyOwned,
             ClassifyContained, Verdict, Boundaries, Unowned
      <4>2. CASE LifecyclePreserves(e) \/ LifecycleBoundary(e)
        BY <1>0, <4>2 DEF LifecyclePreserves, LifecycleBoundary, PoisonBoth
      <4> QED BY <3>3, <4>1, <4>2
    <3> QED BY <2>4, <3>1, <3>2, <3>3 DEF ServesSomething, SetupFails,
              ServeInformation, ServeConnectorStatus, ServeUnsupported,
              ServeStateCheck, ServeStateCommit, ServeControllerEnable,
              ServeDisplayEnable, StatusContains, StatusEndsDiagnostic,
              StatusRejectsArm, StatusNoted, SetBufferBusy, SetBufferRejected,
              ArmAccepted, ArmRejected, Admits, ServesStatus, ServesControl,
              Serves, SetBufferMalformed, ArmRefusedSilently, LeavesUnarmed
  <2> QED BY <1>1, <2>1, <2>2, <2>3, <2>4 DEF Loop
<1>2. CASE Environment
  BY <1>2 DEF Environment, UsbEnable, UsbDisable, BusSuspend, BusResume,
       CableLost, UdcUnbind, UdcBind, AioFails, AioDelivered, DeadlinePasses,
       RequestShutdown, HostPosts, HostTimesOut, HostBulk, HostAbandons,
       loopVars
<1>3. CASE Ended \/ UNCHANGED vars
  BY <1>3 DEF Ended, vars, loopVars
<1> QED BY <1>1, <1>2, <1>3 DEF Next

\* Containment is final until the endpoint generation is gone and its AIO slot
\* harvested: no request, completion, retry or lifecycle event before that
\* lets the path be used again.
THEOREM ContainmentIsHeld == Spec => ContainmentHolds
<1>1. LoopInv /\ [Next]_vars => [ContainmentStep]_vars
  BY ContainmentSteps
<1> QED BY <1>1, LoopInitial, LoopStep, PTL
        DEF Spec, ContainmentHolds, ContainmentStep
(***************************************************************************)
(* The kernel's event queue.  What may stand in front of an event is what  *)
(* survives its arrival: hence at most one request, one session event and  *)
(* one of each power event, and the four places of the kernel suffice.     *)
(***************************************************************************)
QueueOrder(q) ==
  \A i, j \in DOMAIN q : i < j => q[i] \in Survivors(q[j])

Holds(q, K) == \E i \in DOMAIN q : q[i] \in K

\* p is what the first n places of q leave of K.
Sifted(p, q, n, K) ==
  /\ p \in Seq(Events)
  /\ QueueOrder(p)
  /\ \A i \in DOMAIN p : \E k \in DOMAIN q : k <= n /\ p[i] = q[k] /\ q[k] \in K
  /\ \A k \in DOMAIN q : k <= n /\ q[k] \in K => \E i \in DOMAIN p : p[i] = q[k]

\* An event may follow a queue of events it lets survive.
LEMMA AppendOrdered ==
  ASSUME NEW p \in Seq(Events), NEW e \in Events, QueueOrder(p),
         \A i \in DOMAIN p : p[i] \in Survivors(e)
  PROVE  /\ Append(p, e) \in Seq(Events)
         /\ Len(Append(p, e)) = Len(p) + 1
         /\ DOMAIN Append(p, e) = 1 .. Len(p) + 1
         /\ \A i \in DOMAIN p : Append(p, e)[i] = p[i]
         /\ Append(p, e)[Len(p) + 1] = e
         /\ QueueOrder(Append(p, e))
<1>1. /\ Append(p, e) \in Seq(Events)
      /\ Len(Append(p, e)) = Len(p) + 1
      /\ DOMAIN Append(p, e) = 1 .. Len(p) + 1
      /\ DOMAIN p = 1 .. Len(p) /\ Len(p) \in Nat
      /\ \A i \in DOMAIN p : Append(p, e)[i] = p[i]
      /\ Append(p, e)[Len(p) + 1] = e
  OBVIOUS
<1>2. ASSUME NEW i \in DOMAIN Append(p, e), NEW j \in DOMAIN Append(p, e), i < j
      PROVE  Append(p, e)[i] \in Survivors(Append(p, e)[j])
  <2>1. i \in DOMAIN p
    BY <1>1, <1>2
  <2>2. j \in DOMAIN p \/ j = Len(p) + 1
    BY <1>1
  <2> QED BY <1>1, <1>2, <2>1, <2>2 DEF QueueOrder
<1> QED BY <1>1, <1>2 DEF QueueOrder

LEMMA SiftOne ==
  ASSUME NEW q \in Seq(Events), QueueOrder(q), NEW K, NEW n \in Nat,
         NEW p, Sifted(p, q, n, K)
  PROVE  Sifted(p \o KeepAt(q, n + 1, K), q, n + 1, K)
<1>0. p \in Seq(Events) /\ DOMAIN q = 1 .. Len(q) /\ Len(q) \in Nat
  BY DEF Sifted
<1>1. CASE ~(n + 1 \in DOMAIN q /\ q[n + 1] \in K)
  <2>1. p \o KeepAt(q, n + 1, K) = p
    BY <1>0, <1>1 DEF KeepAt
  <2>2. \A k \in DOMAIN q : k <= n + 1 /\ q[k] \in K => k <= n
    BY <1>0, <1>1
  <2>3. \A k \in DOMAIN q : k <= n => k <= n + 1
    BY <1>0
  <2> QED BY <2>1, <2>2, <2>3 DEF Sifted
<1>2. CASE n + 1 \in DOMAIN q /\ q[n + 1] \in K
  <2> DEFINE e == q[n + 1]
             r == Append(p, e)
  <2>1. e \in Events
    BY <1>0, <1>2
  <2>2. p \o KeepAt(q, n + 1, K) = r
    BY <1>0, <1>2, <2>1 DEF KeepAt
  <2>3. \A i \in DOMAIN p : p[i] \in Survivors(e)
    BY <1>0, <1>2 DEF Sifted, QueueOrder
  <2>4. /\ r \in Seq(Events) /\ QueueOrder(r)
        /\ DOMAIN r = 1 .. Len(p) + 1 /\ DOMAIN p = 1 .. Len(p) /\ Len(p) \in Nat
        /\ \A i \in DOMAIN p : r[i] = p[i]
        /\ r[Len(p) + 1] = e
    BY <1>0, <2>1, <2>3, AppendOrdered DEF Sifted
  <2> HIDE DEF r
  <2>5. ASSUME NEW i \in DOMAIN r
        PROVE  \E k \in DOMAIN q : k <= n + 1 /\ r[i] = q[k] /\ q[k] \in K
    <3>1. CASE i = Len(p) + 1
      BY <1>2, <2>4, <3>1
    <3>2. CASE i \in DOMAIN p
      <4>1. PICK k \in DOMAIN q : k <= n /\ p[i] = q[k] /\ q[k] \in K
        BY <3>2 DEF Sifted
      <4> QED BY <1>0, <2>4, <3>2, <4>1
    <3> QED BY <2>4, <2>5, <3>1, <3>2
  <2>6. ASSUME NEW k \in DOMAIN q, k <= n + 1, q[k] \in K
        PROVE  \E i \in DOMAIN r : r[i] = q[k]
    <3>1. CASE k = n + 1
      BY <2>4, <3>1
    <3>2. CASE k <= n
      <4>1. PICK i \in DOMAIN p : p[i] = q[k]
        BY <2>6, <3>2 DEF Sifted
      <4> QED BY <2>4, <4>1
    <3> QED BY <1>0, <2>6, <3>1, <3>2
  <2>7. Sifted(r, q, n + 1, K)
    BY <2>4, <2>5, <2>6 DEF Sifted
  <2> QED BY <2>2, <2>7
<1> QED BY <1>1, <1>2

\* A queue in order has at most four events.
LEMMA QueueIsShort ==
  ASSUME NEW q \in Seq(Events), QueueOrder(q)
  PROVE  Len(q) <= 4
<1> SUFFICES ASSUME Len(q) > 4 PROVE FALSE
  <2>1. Len(q) \in Nat
    OBVIOUS
  <2> QED BY <2>1
<1>1. {1, 2, 3, 4, 5} \subseteq DOMAIN q
  OBVIOUS
<1>2. \A i, j \in {1, 2, 3, 4, 5} : i < j =>
        /\ q[i] \in Events /\ q[j] \in Events
        /\ q[j] \in SessionEvents => q[i] \in PowerEvents
        /\ q[j] \in Requests => q[i] \notin Requests
        /\ q[j] = "Resume" => q[i] \notin PowerEvents
        /\ q[j] = "Suspend" => q[i] # "Suspend"
  BY <1>1 DEF QueueOrder, Survivors, SessionEvents, PowerEvents, Requests, Events
<1>3. \A i \in {1, 2, 3, 4, 5} :
        \/ q[i] \in SessionEvents \/ q[i] \in Requests
        \/ q[i] = "Resume" \/ q[i] = "Suspend"
  BY <1>1 DEF Events, PowerEvents
<1>4. /\ SessionEvents \cap PowerEvents = {} /\ SessionEvents \cap Requests = {}
      /\ Requests \cap PowerEvents = {}
      /\ "Resume" \in PowerEvents /\ "Suspend" \in PowerEvents
  BY DEF SessionEvents, PowerEvents, Requests
<1>5. \A i, j \in {1, 2, 3, 4, 5} : i < j =>
        /\ ~(q[i] \in SessionEvents /\ q[j] \in SessionEvents)
        /\ ~(q[i] \in Requests /\ q[j] \in Requests)
        /\ ~(q[i] = "Resume" /\ q[j] = "Resume")
        /\ ~(q[i] = "Suspend" /\ q[j] = "Suspend")
  BY <1>2, <1>4
<1> QED BY <1>3, <1>5

\* r is the queue q after the kernel has announced e.
Grown(q, e, r) ==
  /\ r \in Seq(Events) /\ QueueOrder(r)
  /\ Len(r) \in Nat /\ Len(r) > 0 /\ r[Len(r)] = e
  /\ q = <<>> => Len(r) = 1
  /\ \A i \in DOMAIN r : i # Len(r) =>
       r[i] \in Survivors(e) /\ \E k \in DOMAIN q : r[i] = q[k]
  /\ \A k \in DOMAIN q : q[k] \in Survivors(e) =>
       \E i \in DOMAIN r : r[i] = q[k]

LEMMA Announced ==
  ASSUME NEW q \in Seq(Events), QueueOrder(q), NEW e \in Events
  PROVE  Grown(q, e, Enqueue(q, e))
<1> DEFINE K  == Survivors(e)
           p1 == <<>> \o KeepAt(q, 1, K)
           p2 == p1 \o KeepAt(q, 2, K)
           p3 == p2 \o KeepAt(q, 3, K)
           p4 == p3 \o KeepAt(q, 4, K)
           r  == Enqueue(q, e)
<1>0. Sifted(<<>>, q, 0, K)
  <2>1. <<>> \in Seq(Events) /\ DOMAIN <<>> = {} /\ DOMAIN q = 1 .. Len(q)
        /\ Len(q) \in Nat
    OBVIOUS
  <2> QED BY <2>1 DEF Sifted, QueueOrder
<1> HIDE DEF K
<1>1. Sifted(p1, q, 1, K)
  <2>1. Sifted(<<>> \o KeepAt(q, 0 + 1, K), q, 0 + 1, K)
    BY <1>0, SiftOne
  <2> QED BY <2>1
<1> HIDE DEF p1
<1>2. Sifted(p2, q, 2, K)
  <2>1. Sifted(p1 \o KeepAt(q, 1 + 1, K), q, 1 + 1, K)
    BY <1>1, SiftOne
  <2> QED BY <2>1
<1> HIDE DEF p2
<1>3. Sifted(p3, q, 3, K)
  <2>1. Sifted(p2 \o KeepAt(q, 2 + 1, K), q, 2 + 1, K)
    BY <1>2, SiftOne
  <2> QED BY <2>1
<1> HIDE DEF p3
<1>4. Sifted(p4, q, 4, K)
  <2>1. Sifted(p3 \o KeepAt(q, 3 + 1, K), q, 3 + 1, K)
    BY <1>3, SiftOne
  <2> QED BY <2>1
<1>5. Keep(q, K) = p4
  <2>1. KeepAt(q, 1, K) \in Seq(Events)
    BY DEF KeepAt
  <2>2. p1 = KeepAt(q, 1, K)
    BY <2>1 DEF p1
  <2> QED BY <2>2 DEF Keep, p2, p3
<1> HIDE DEF p4
<1>6. Len(q) <= 4 /\ DOMAIN q = 1 .. Len(q) /\ Len(q) \in Nat
  BY QueueIsShort
<1>7. /\ p4 \in Seq(Events) /\ QueueOrder(p4)
      /\ \A i \in DOMAIN p4 : p4[i] \in K /\ \E k \in DOMAIN q : p4[i] = q[k]
      /\ \A k \in DOMAIN q : q[k] \in K => \E i \in DOMAIN p4 : p4[i] = q[k]
  BY <1>4, <1>6 DEF Sifted
<1>8. r = Append(p4, e)
  BY <1>5 DEF Enqueue, K
<1> HIDE DEF r
<1>9. /\ r \in Seq(Events) /\ QueueOrder(r)
      /\ Len(r) = Len(p4) + 1 /\ DOMAIN r = 1 .. Len(p4) + 1
      /\ \A i \in DOMAIN p4 : r[i] = p4[i]
      /\ r[Len(p4) + 1] = e /\ Len(p4) \in Nat /\ DOMAIN p4 = 1 .. Len(p4)
  BY <1>7, <1>8, AppendOrdered DEF K
<1>10. q = <<>> => Len(p4) = 0
  <2> SUFFICES ASSUME q = <<>>, Len(p4) # 0 PROVE FALSE
    OBVIOUS
  <2>1. 1 \in DOMAIN p4 /\ DOMAIN q = {}
    BY <1>9
  <2> QED BY <1>7, <2>1
<1>11. ASSUME NEW i \in DOMAIN r, i # Len(r)
       PROVE  r[i] \in K /\ \E k \in DOMAIN q : r[i] = q[k]
  <2>1. i \in DOMAIN p4
    BY <1>9, <1>11
  <2> QED BY <1>7, <1>9, <2>1
<1>12. ASSUME NEW k \in DOMAIN q, q[k] \in K
       PROVE  \E i \in DOMAIN r : r[i] = q[k]
  <2>1. PICK i \in DOMAIN p4 : p4[i] = q[k]
    BY <1>7, <1>12
  <2>2. i \in DOMAIN r /\ r[i] = q[k]
    BY <1>9, <2>1
  <2> QED BY <2>2
<1>13. Grown(q, e, r)
  BY <1>9, <1>10, <1>11, <1>12 DEF K, Grown
<1> QED BY <1>13 DEF r

\* r is what is left of the queue q after its first event has been read.
Shrunk(q, r) ==
  /\ r \in Seq(Events) /\ QueueOrder(r)
  /\ \A i \in DOMAIN r : \E k \in DOMAIN q : r[i] = q[k]
  /\ \A k \in DOMAIN q : k = 1 \/ \E i \in DOMAIN r : r[i] = q[k]
  /\ Head(q) \in Requests /\ q[Len(q)] \in Requests =>
       Len(q) = 1 /\ r = <<>> /\ q[Len(q)] = Head(q)
  /\ Head(q) \in SessionEvents => ~Holds(r, SessionEvents)
  /\ Head(q) # q[Len(q)] => r # <<>> /\ r[Len(r)] = q[Len(q)]

LEMMA Delivered ==
  ASSUME NEW q \in Seq(Events), QueueOrder(q), q # <<>>
  PROVE  Shrunk(q, Tail(q))
<1> DEFINE r == Tail(q)
<1>1. /\ Len(q) \in Nat /\ Len(q) > 0 /\ Len(r) = Len(q) - 1
      /\ DOMAIN q = 1 .. Len(q) /\ DOMAIN r = 1 .. Len(q) - 1
      /\ \A i \in DOMAIN r : r[i] = q[i + 1]
      /\ r \in Seq(Events) /\ Head(q) = q[1] /\ q[1] \in Events
  OBVIOUS
<1> HIDE DEF r
<1>2. QueueOrder(r)
  <2>1. ASSUME NEW i \in DOMAIN r, NEW j \in DOMAIN r, i < j
        PROVE  r[i] \in Survivors(r[j])
    <3>1. i + 1 \in DOMAIN q /\ j + 1 \in DOMAIN q /\ i + 1 < j + 1
      BY <1>1, <2>1
    <3> QED BY <1>1, <3>1 DEF QueueOrder
  <2> QED BY <2>1 DEF QueueOrder
<1>3. \A i \in DOMAIN r : \E k \in DOMAIN q : r[i] = q[k]
  <2>1. ASSUME NEW i \in DOMAIN r PROVE i + 1 \in DOMAIN q
    BY <1>1
  <2> QED BY <1>1, <2>1
<1>4. ASSUME NEW k \in DOMAIN q, k # 1 PROVE \E i \in DOMAIN r : r[i] = q[k]
  <2>1. k - 1 \in DOMAIN r /\ r[k - 1] = q[k]
    BY <1>1, <1>4
  <2> QED BY <2>1
<1>5. ASSUME Head(q) \in Requests, q[Len(q)] \in Requests
      PROVE  Len(q) = 1 /\ r = <<>> /\ q[Len(q)] = Head(q)
  <2>1. ASSUME Len(q) # 1 PROVE FALSE
    <3>1. q[1] \in Survivors(q[Len(q)])
      BY <1>1, <2>1 DEF QueueOrder
    <3> QED BY <1>1, <1>5, <3>1 DEF Survivors, Requests, SessionEvents
  <2>2. Len(q) = 1 /\ Len(r) = 0
    BY <1>1, <2>1
  <2> QED BY <1>1, <2>2
<1>6. ASSUME Head(q) \in SessionEvents, NEW i \in DOMAIN r, r[i] \in SessionEvents
      PROVE  FALSE
  <2>1. q[1] \in Survivors(q[i + 1]) /\ q[i + 1] = r[i]
    BY <1>1 DEF QueueOrder
  <2> QED BY <1>1, <1>6, <2>1 DEF Survivors, PowerEvents, SessionEvents
<1>7. ASSUME Head(q) # q[Len(q)] PROVE r # <<>> /\ r[Len(r)] = q[Len(q)]
  <2>1. Len(r) \in DOMAIN r /\ Len(r) + 1 = Len(q)
    BY <1>1, <1>7
  <2> QED BY <1>1, <2>1
<1>8. \A k \in DOMAIN q : k = 1 \/ \E i \in DOMAIN r : r[i] = q[k]
  BY <1>4
<1>9. Shrunk(q, r)
  BY <1>1, <1>2, <1>3, <1>5, <1>6, <1>7, <1>8 DEF Holds, Shrunk
<1> QED BY <1>9 DEF r

(***************************************************************************)
(* The queue invariant: EP0 is in order, and no request outlives the link  *)
(* it came over.                                                           *)
(***************************************************************************)
QueueInv ==
  /\ QueueOrder(ep0)
  /\ Holds(ep0, Requests) => link \notin {"disabled", "unbound"}

\* Serving takes the head of EP0; nothing else the loop does touches the bus.
LEMMA ServingTakesHead ==
  ASSUME ServesSomething
  PROVE  /\ Polling /\ ep0 # <<>> /\ ep0' = Tail(ep0) /\ link' = link
         /\ shutdown' = shutdown
BY DEF ServesSomething, SuppressSetup, SetupFails, ServeInformation,
       ServeConnectorStatus, ServeUnsupported, ServeStateCheck,
       ServeStateCommit, ServeControllerEnable, ServeDisplayEnable,
       StatusContains, StatusEndsDiagnostic, StatusRejectsArm, StatusNoted,
       SetBufferBusy, SetBufferRejected, ArmAccepted, ArmRejected, Admits,
       StateCheckInvalidates, StateCommitInvalidates, LifecycleIdle,
       LifecyclePreserves, LifecycleBoundary, LifecycleUnbind,
       ObservesLifecycle, ServesStatus, ServesControl, Serves, Receives,
       SetBufferMalformed, ArmRefusedSilently, LeavesUnarmed

LEMMA OthersKeepBus ==
  ASSUME Loop, ~ServesSomething
  PROVE  UNCHANGED <<ep0, link, host>>
BY DEF Loop, RetireEpoch, RetireFails, DrainTimesOut, LeaveLoop,
       HarvestPayload, HarvestRejected, MissDeadline, NothingToHarvest,
       HoldEp0, PollFails, PollEmpty, ProcessPayload, ProcessContained,
       ProcessFails, TearDown, SuppressTeardown, kernelVars

\* The kernel and the host add at most one event, and a request only over an
\* enabled link; the link goes down with a session event.
LEMMA BusMoves ==
  ASSUME Environment
  PROVE  \/ UNCHANGED <<ep0, link>>
         \/ /\ link = "enabled" /\ link' = link
            /\ \E r \in Requests : ep0' = Enqueue(ep0, r)
         \/ /\ link' \notin {"disabled", "unbound"}
            /\ link \notin {"disabled", "unbound"}
            /\ \E e \in PowerEvents : ep0' = Enqueue(ep0, e)
         \/ \E e \in SessionEvents : ep0' = Enqueue(ep0, e)
<1> USE DEF Announces, kernelVars, PowerEvents, SessionEvents
<1>1. CASE UsbEnable \/ UsbDisable \/ UdcUnbind \/ UdcBind
  BY <1>1 DEF UsbEnable, UsbDisable, UdcUnbind, UdcBind
<1>2. CASE BusSuspend \/ BusResume \/ CableLost
  BY <1>2 DEF BusSuspend, BusResume, CableLost
<1>3. CASE AioFails \/ AioDelivered \/ DeadlinePasses \/ RequestShutdown
           \/ HostTimesOut \/ HostBulk \/ HostAbandons
  BY <1>3 DEF AioFails, AioDelivered, DeadlinePasses, RequestShutdown,
       HostTimesOut, HostBulk, HostAbandons
<1>4. ASSUME NEW r \in Requests, HostPosts(r)
      PROVE  /\ link = "enabled" /\ link' = link
             /\ ep0' = Enqueue(ep0, r)
  BY <1>4 DEF HostPosts
<1> QED BY <1>1, <1>2, <1>3, <1>4 DEF Environment

\* What each kind of event leaves in front of it.
LEMMA SurvivorSets ==
  /\ \A e \in SessionEvents : Survivors(e) = PowerEvents /\ e \in Events
                              /\ e \notin Requests
  /\ \A e \in Requests : Survivors(e) = Events \ Requests /\ e \in Events
                         /\ e \notin SessionEvents
  /\ \A e \in PowerEvents :
       /\ e \in Events /\ e \notin Requests /\ e \notin SessionEvents
       /\ SessionEvents \subseteq Survivors(e)
  /\ SessionEvents \cap Requests = {} /\ PowerEvents \cap Requests = {}
  /\ SessionEvents \subseteq Events \ Requests
BY DEF Survivors, Events, SessionEvents, PowerEvents, Requests

\* Announcing an event and the kinds of events a queue holds.
LEMMA AnnouncedKinds ==
  ASSUME NEW q, NEW e \in Events, NEW r, Grown(q, e, r)
  PROVE  /\ e \in SessionEvents => Holds(r, SessionEvents) /\ ~Holds(r, Requests)
         /\ e \notin SessionEvents =>
              (Holds(r, SessionEvents) <=> Holds(q, SessionEvents))
         /\ e \in PowerEvents /\ Holds(r, Requests) => Holds(q, Requests)
<1>1. /\ r[Len(r)] = e /\ Len(r) \in DOMAIN r /\ r \in Seq(Events)
      /\ \A i \in DOMAIN r : i # Len(r) =>
           r[i] \in Survivors(e) /\ \E k \in DOMAIN q : r[i] = q[k]
      /\ \A k \in DOMAIN q : q[k] \in Survivors(e) =>
           \E i \in DOMAIN r : r[i] = q[k]
  <2>1. r \in Seq(Events) /\ Len(r) \in Nat /\ Len(r) > 0
    BY DEF Grown
  <2>2. Len(r) \in DOMAIN r
    BY <2>1
  <2> QED BY <2>2 DEF Grown
<1>2. ASSUME e \in SessionEvents
      PROVE  Holds(r, SessionEvents) /\ ~Holds(r, Requests)
  BY <1>1, <1>2, SurvivorSets DEF Holds
<1>3. ASSUME e \notin SessionEvents
      PROVE  Holds(r, SessionEvents) <=> Holds(q, SessionEvents)
  <2>1. SessionEvents \subseteq Survivors(e)
    BY <1>3, SurvivorSets DEF Events
  <2> QED BY <1>1, <1>3, <2>1 DEF Holds
<1>4. ASSUME e \in PowerEvents, Holds(r, Requests) PROVE Holds(q, Requests)
  BY <1>1, <1>4, SurvivorSets DEF Holds
<1> QED BY <1>2, <1>3, <1>4

LEMMA QueueStep == ASSUME LoopInv, QueueInv, [Next]_vars PROVE QueueInv'
<1>0. ep0 \in Seq(Events)
  BY DEF LoopInv, BusType
<1>1. CASE ServesSomething
  <2>1. Shrunk(ep0, ep0') /\ link' = link
    BY <1>0, <1>1, ServingTakesHead, Delivered DEF QueueInv
  <2>2. Holds(ep0', Requests) => Holds(ep0, Requests)
    BY <2>1 DEF Holds, Shrunk
  <2> QED BY <2>1, <2>2 DEF QueueInv, Shrunk
<1>2. CASE UNCHANGED <<ep0, link>>
  BY <1>2 DEF QueueInv
<1>3. CASE Environment /\ ~UNCHANGED <<ep0, link>>
  <2>1. ASSUME NEW e \in Events, ep0' = Enqueue(ep0, e)
        PROVE  Grown(ep0, e, ep0')
    BY <1>0, <2>1, Announced DEF QueueInv
  <2>2. CASE \E r \in Requests : ep0' = Enqueue(ep0, r) /\ link = "enabled"
                                 /\ link' = link
    BY <2>1, <2>2, SurvivorSets DEF QueueInv, Grown
  <2>3. ASSUME NEW e \in PowerEvents, ep0' = Enqueue(ep0, e),
               link' \notin {"disabled", "unbound"}
        PROVE  QueueInv'
    BY <2>1, <2>3, SurvivorSets DEF QueueInv, Grown
  <2>4. ASSUME NEW e \in SessionEvents, ep0' = Enqueue(ep0, e)
        PROVE  QueueInv'
    <3>1. Grown(ep0, e, ep0') /\ e \in Events
      BY <2>1, <2>4, SurvivorSets
    <3>2. ~Holds(ep0', Requests)
      BY <2>4, <3>1, AnnouncedKinds
    <3> QED BY <3>1, <3>2 DEF QueueInv, Grown
  <2> QED BY <1>3, <2>2, <2>3, <2>4, BusMoves
<1>4. CASE Ended \/ UNCHANGED vars
  BY <1>2, <1>4 DEF Ended, vars, kernelVars
<1> QED BY <1>1, <1>2, <1>3, <1>4, OthersKeepBus DEF Next

LEMMA QueueInitial == LoopInit => QueueInv
<1> SUFFICES ASSUME LoopInit PROVE QueueInv
  OBVIOUS
<1>1. ep0 = <<"Bind">>
  BY DEF LoopInit
<1>2. DOMAIN ep0 = {1} /\ ep0[1] = "Bind"
  BY <1>1
<1> QED BY <1>2 DEF QueueInv, QueueOrder, Holds, Requests

\* The kernel's event queue never holds more than the four events FunctionFS
\* keeps, whatever the host sends and however slowly the loop reads: no DISABLE
\* is lost to an overflow, only to a newer session event.
THEOREM EventsNeverOverflow == Spec => [](Len(ep0) <= 4)
<1>1. LoopInv /\ QueueInv => Len(ep0) <= 4
  BY QueueIsShort DEF LoopInv, BusType, QueueInv
<1>2. LoopInv /\ QueueInv /\ [Next]_vars => QueueInv'
  BY QueueStep
<1> QED BY <1>1, <1>2, LoopInitial, LoopStep, QueueInitial, PTL DEF Spec

(***************************************************************************)
(* The bounded STATUS_ON_SET diagnostic, for a limit of one and of two     *)
(* transactions: no request beyond the limit is accepted, and the guard    *)
(* outlasts the trailing statuses.                                         *)
(*                                                                         *)
(* The inductive invariant.  The guard counts what the kernel accepted,    *)
(* which is what its comparison with the limit is good for; and there is   *)
(* no drain in production, where the guard is released without one.        *)
(***************************************************************************)
AcceptedAreCounted ==
  TransactionLimit > 0 =>
    aio.op = guard.started /\ guard.started <= TransactionLimit

DiagnosticInv ==
  /\ AcceptedAreCounted
  /\ DrainKeepsGuard
  /\ TransactionLimit = 0 => drain = NoDrain

LEMMA DiagnosticInitial == LoopInit => DiagnosticInv
<1> SUFFICES ASSUME LoopInit PROVE DiagnosticInv
  OBVIOUS
<1>1. TransactionLimit \in Nat
  BY LimitAssumption
<1>2. aio.op = 0 /\ guard.started = 0 /\ drain = NoDrain
  BY DEF LoopInit, InitialAio, InitialGuard
<1> QED
  BY <1>1, <1>2 DEF DiagnosticInv, AcceptedAreCounted, DrainKeepsGuard

\* The steps that move the guard or the drain.
MovesDiagnostic ==
  RetireEpoch \/ DrainTimesOut \/ ProcessPayload \/ StatusNoted \/ ArmAccepted

\* Every other step leaves both alone, and comes from the top of the loop or
\* from the poll if it leads there.
LEMMA OthersKeepDiagnostic ==
  ASSUME [Next]_vars, ~MovesDiagnostic
  PROVE  /\ UNCHANGED <<guard, drain>>
         /\ pc' \in {"top", "poll"} => pc \in {"top", "poll"}
<1> USE DEF receiveVars
<1>1. CASE Loop
  <2>1. CASE ServesSomething
    BY <2>1 DEF MovesDiagnostic, ServesSomething, SuppressSetup, SetupFails,
         ServeInformation, ServeConnectorStatus, ServeUnsupported,
         ServeStateCheck, ServeStateCommit, ServeControllerEnable,
         ServeDisplayEnable, StatusContains, StatusEndsDiagnostic,
         StatusRejectsArm, SetBufferBusy, SetBufferRejected, ArmRejected,
         StateCheckInvalidates, StateCommitInvalidates, Invalidates,
         LifecycleIdle, LifecyclePreserves, LifecycleBoundary,
         LifecycleUnbind, ObservesLifecycle, ServesStatus, ServesControl,
         Admits, Serves, Receives, Polling, SetBufferMalformed,
         ArmRefusedSilently, LeavesUnarmed
  <2>2. CASE ~ServesSomething
    BY <1>1, <2>2 DEF MovesDiagnostic, Loop, RetireFails, LeaveLoop, AtHarvest,
         HarvestPayload, HarvestRejected, MissDeadline, NothingToHarvest,
         HoldEp0, PollFails, PollEmpty, Polling, PayloadReady,
         ProcessContained, ProcessFails, TearDown, SuppressTeardown
  <2> QED BY <2>1, <2>2
<1>2. CASE Environment
  BY <1>2 DEF Environment, UsbEnable, UsbDisable, BusSuspend, BusResume,
       CableLost, UdcUnbind, UdcBind, AioFails, AioDelivered, DeadlinePasses,
       RequestShutdown, HostPosts, HostTimesOut, HostBulk, HostAbandons,
       loopVars
<1>3. CASE Ended \/ UNCHANGED vars
  BY <1>3 DEF Ended, vars, loopVars
<1> QED BY <1>1, <1>2, <1>3 DEF Next

\* Only an accepted submission starts a kernel operation.
LEMMA OthersKeepOperation ==
  ASSUME aio \in AioSlot, [Next]_vars, ~ArmAccepted
  PROVE  aio'.op = aio.op
<1> USE DEF kernelVars
<1>1. /\ Harvest(aio).op = aio.op /\ Deliver(aio).op = aio.op
      /\ Flush(aio).op = aio.op
      /\ Land(aio, "bad").op = aio.op /\ Land(aio, "exact").op = aio.op
  BY DEF AioSlot, Harvest, Deliver, Flush, Land
<1>2. CASE Loop
  <2>1. CASE HarvestPayload \/ HarvestRejected
    BY <1>1, <2>1 DEF HarvestPayload, HarvestRejected
  <2>2. CASE ServesSomething
    BY <2>2 DEF ServesSomething, SuppressSetup, SetupFails,
         ServeInformation, ServeConnectorStatus, ServeUnsupported,
         ServeStateCheck, ServeStateCommit, ServeControllerEnable,
         ServeDisplayEnable, StatusContains, StatusEndsDiagnostic,
         StatusRejectsArm, StatusNoted, SetBufferBusy, SetBufferRejected,
         ArmRejected, StateCheckInvalidates, StateCommitInvalidates,
         Invalidates, LifecycleIdle, LifecyclePreserves, LifecycleBoundary,
         LifecycleUnbind, ObservesLifecycle, ServesStatus, ServesControl,
         SetBufferMalformed, ArmRefusedSilently, LeavesUnarmed
  <2>3. CASE ~ServesSomething /\ ~HarvestPayload /\ ~HarvestRejected
    BY <1>2, <2>3 DEF Loop, RetireEpoch, RetireFails, DrainTimesOut, LeaveLoop,
         MissDeadline, NothingToHarvest, HoldEp0, PollFails, PollEmpty,
         ProcessPayload, ProcessContained, ProcessFails, TearDown,
         SuppressTeardown
  <2> QED BY <2>1, <2>2, <2>3
<1>3. CASE Environment
  BY <1>1, <1>3 DEF Environment, UsbEnable, UsbDisable, BusSuspend, BusResume,
       CableLost, UdcUnbind, UdcBind, AioFails, AioDelivered, DeadlinePasses,
       RequestShutdown, HostPosts, HostTimesOut, HostBulk, HostAbandons
<1>4. CASE Ended \/ UNCHANGED vars
  BY <1>4 DEF Ended, vars
<1> QED BY <1>2, <1>3, <1>4 DEF Next

\* A release keeps the count, and a drain its transaction.
LEMMA CountsStay ==
  ASSUME ControlType
  PROVE  /\ release_after_cleanup(guard).started = guard.started
         /\ drain # NoDrain =>
              /\ note_status(drain).transaction = drain.transaction
              /\ payload_processed(drain).transaction = drain.transaction
  BY DEF ControlType, DiagnosticGuard, CleanupDrain, release_after_cleanup,
         note_status, payload_processed

LEMMA AcceptKeepsDiagnostic ==
  ASSUME DiagnosticInv, LoopInv, ArmAccepted PROVE DiagnosticInv'
<1>1. /\ TransactionLimit \in 0 .. 2
      /\ guard \in DiagnosticGuard /\ aio \in AioSlot
      /\ guard.started \in Nat /\ aio.op \in Nat
  BY LimitAssumption DEF LoopInv, PathInv, PathType, ControlType,
       DiagnosticGuard, AioSlot
<1>2. /\ aio'.op = aio.op + 1
      /\ guard' = begin_after_aio_acceptance(guard)
      /\ TransactionLimit = 0 \/ guard.started < TransactionLimit
  BY DEF ArmAccepted, Admits, Admissible, set_buffer_permitted, Submit
<1>3. guard'.active /\ (TransactionLimit > 0 => guard'.started = guard.started + 1)
  BY <1>1, <1>2 DEF begin_after_aio_acceptance
<1>4. AcceptedAreCounted'
  BY <1>1, <1>2, <1>3 DEF DiagnosticInv, AcceptedAreCounted
<1>5. \/ pc' = "failed" /\ drain' = drain
      \/ drain' = IF TransactionLimit > 0 THEN new_drain(guard'.started) ELSE drain
  BY DEF ArmAccepted
<1>6. TransactionLimit = 0 => drain' = NoDrain
  BY <1>1, <1>5 DEF DiagnosticInv
<1>7. DrainKeepsGuard'
  BY <1>1, <1>3, <1>5, <1>6 DEF DrainKeepsGuard, new_drain
<1> QED BY <1>4, <1>6, <1>7 DEF DiagnosticInv

LEMMA DiagnosticStep ==
  DiagnosticInv /\ LoopInv /\ [Next]_vars => DiagnosticInv'
<1> SUFFICES ASSUME DiagnosticInv, LoopInv, [Next]_vars PROVE DiagnosticInv'
  OBVIOUS
<1>1. ControlType /\ aio \in AioSlot
  BY DEF LoopInv, PathInv, PathType
<1>2. CASE ArmAccepted
  BY <1>2, AcceptKeepsDiagnostic
<1>3. CASE ~ArmAccepted
  <2>1. guard'.started = guard.started
    BY <1>1, <1>3, CountsStay, OthersKeepDiagnostic
    DEF MovesDiagnostic, RetireEpoch, DrainTimesOut, ProcessPayload,
        FinishProduction, FinishDiagnostic, StatusNoted
  <2>2. AcceptedAreCounted'
    BY <1>1, <1>3, <2>1, OthersKeepOperation
    DEF DiagnosticInv, AcceptedAreCounted
  <2>3. CASE RetireEpoch \/ DrainTimesOut
    BY <2>2, <2>3 DEF RetireEpoch, DrainTimesOut, DiagnosticInv, DrainKeepsGuard
  <2>4. CASE ProcessPayload
    <3>1. CASE FinishProduction
      BY <2>2, <3>1 DEF FinishProduction, DiagnosticInv, DrainKeepsGuard
    <3>2. CASE FinishDiagnostic
      <4>1. drain # NoDrain /\ pc = "poll" /\ TransactionLimit > 0
        BY <2>4, <3>2 DEF ProcessPayload, CanFinish, PayloadReady, Polling,
             FinishDiagnostic
      <4>2. \/ pc' = "cleanup" \/ drain' = NoDrain
            \/ drain' = payload_processed(drain) /\ guard' = guard
        BY <3>2 DEF FinishDiagnostic, AfterDrained
      <4>3. DrainKeepsGuard'
        BY <1>1, <4>1, <4>2, CountsStay DEF DiagnosticInv, DrainKeepsGuard
      <4> QED BY <2>2, <4>1, <4>3, LimitAssumption DEF DiagnosticInv
    <3> QED BY <2>4, <3>1, <3>2 DEF ProcessPayload
  <2>5. CASE StatusNoted
    <3>1. \/ drain' = NoDrain
          \/ pc' = "cleanup" /\ drain # NoDrain
          \/ drain # NoDrain /\ drain' = note_status(drain) /\ guard' = guard
      <4>1. \/ drain = NoDrain /\ drain' = drain
            \/ drain # NoDrain /\ drain' = note_status(drain) /\ guard' = guard
            \/ drain # NoDrain /\ AfterDrained(note_status(drain))
        BY <2>5 DEF StatusNoted
      <4> QED
        BY <4>1 DEF AfterDrained
    <3>2. pc = "poll"
      BY <2>5 DEF StatusNoted, ServesStatus, Receives, Polling
    <3>3. DrainKeepsGuard'
      BY <1>1, <3>1, <3>2, CountsStay DEF DiagnosticInv, DrainKeepsGuard
    <3> QED BY <2>2, <3>1, <3>3 DEF DiagnosticInv
  <2>6. CASE ~MovesDiagnostic
    BY <2>2, <2>6, OthersKeepDiagnostic DEF DiagnosticInv, DrainKeepsGuard
  <2> QED BY <1>3, <2>3, <2>4, <2>5, <2>6 DEF MovesDiagnostic
<1> QED BY <1>2, <1>3

\* The kernel never accepts more requests than the diagnostic's limit, however
\* many are refused, lost with their session or replayed by the host.
THEOREM DiagnosticIsBounded == Spec => []BoundedDiagnostic
<1>1. DiagnosticInv => BoundedDiagnostic
  BY LimitAssumption DEF DiagnosticInv, AcceptedAreCounted, BoundedDiagnostic
<1> QED
  BY <1>1, LoopInitial, LoopStep, DiagnosticInitial, DiagnosticStep, PTL DEF Spec

\* The admission guard is held for as long as a transaction of the diagnostic
\* drains, and the drain is the one of the transaction that holds it.
THEOREM GuardOutlastsDrain == Spec => []DrainKeepsGuard
<1>1. DiagnosticInv => DrainKeepsGuard
  BY DEF DiagnosticInv
<1> QED
  BY <1>1, LoopInitial, LoopStep, DiagnosticInitial, DiagnosticStep, PTL DEF Spec
=============================================================================
