-------------------------- MODULE ProductionProofs --------------------------
(***************************************************************************)
(* What holds in production, where TransactionLimit is 0 and the bounded   *)
(* diagnostic never starts: the admission guard follows ownership, a       *)
(* terminal USB event never ends the process, no error leaves a buffer     *)
(* with the kernel, the loop implements ReceiveOwnership, and a payload on *)
(* its way to the screen is fresh.  For a host that waits for its answers, *)
(* OK means armed and every request in the kernel has a harvester.         *)
(***************************************************************************)
EXTENDS ReceiveLoopProofs

(***************************************************************************)
(* The inductive invariant, on top of LoopInv.  Containment is the hinge:  *)
(* the USB session is Contained only over a contained receive path, an     *)
(* open boundary waits on a contained path that is no longer Contained on  *)
(* the bus, and epochs never run ahead of the activation counter.          *)
(***************************************************************************)
EpochsOrdered ==
  /\ exact.epoch_id <= gud.activation
  /\ boundary.epoch <= gud.activation
  /\ boundary.epoch # 0 => boundary.open /\ boundary.epoch > exact.epoch_id

ProductionInv ==
  /\ drain = NoDrain
  /\ GuardFollowsOwnership
  /\ usb = "Contained" => session.state = "Poisoned"
  /\ boundary.open => session.state = "Poisoned" /\ usb # "Contained"
  /\ EpochsOrdered
  /\ pc = "failed" => aio.slot = "free" /\ ~boundary.open

LEMMA ProductionInitial == LoopInit => ProductionInv
<1> SUFFICES ASSUME LoopInit PROVE ProductionInv
  OBVIOUS
<1>1. /\ exact.epoch_id = 0 /\ gud.activation = 0 /\ boundary.epoch = 0
      /\ ~boundary.open /\ session.state = "Idle" /\ ~guard.active
  BY DEF LoopInit, InitialExactAio, InitialProtocolState, NoBoundary,
         InitialSession, InitialGuard
<1> QED BY <1>1 DEF LoopInit, ProductionInv, GuardFollowsOwnership, EpochsOrdered

\* In production the gate is open exactly when nobody owns the path.
LEMMA IdleIsUnowned ==
  ASSUME TransactionLimit = 0, LoopInv, ProductionInv
  PROVE  /\ ProvenIdle <=> session.state \in Unowned
         /\ ~DiagnosticStarted
<1>1. session.state \in Unowned => ProvenIdle
  BY DEF LoopInv, PathInv, PathType, PathFacts, LayersAgree, BooksBalance,
         ProductionInv, GuardFollowsOwnership, ProvenIdle, Unowned
<1>2. ProvenIdle => session.state \in Unowned
  BY DEF ProvenIdle
<1> QED BY <1>1, <1>2 DEF DiagnosticStarted

(***************************************************************************)
(* The activation counter only grows.                                      *)
(***************************************************************************)
LEMMA KeepsActivation ==
  ASSUME NEW g, g \in ProtocolState, NEW s, NEW m, NEW e, NEW b
  PROVE  /\ latch_status(g, s).activation = g.activation
         /\ mark_success(g).activation = g.activation
         /\ store_pending_state(g, m).activation = g.activation
         /\ clear_pending_state(g).activation = g.activation
         /\ commit_pending_state(g).activation = g.activation
         /\ update_controller_enabled(g, b).activation = g.activation
         /\ LifecycleReset(g, e).activation =
              IF e = "Enable" THEN g.activation + 1 ELSE g.activation
<1> USE DEF ProtocolState, latch_status, mark_success
<1>1. LifecycleReset(g, e).activation =
        IF e = "Enable" THEN g.activation + 1 ELSE g.activation
  BY DEF LifecycleReset, handle_resume_transition, handle_suspend_transition,
         reset_status, reset_protocol_state, reset_connector_status_changed,
         usb_activation_transition
<1> QED BY <1>1 DEF store_pending_state, clear_pending_state,
                    commit_pending_state, update_controller_enabled

\* A step that latches BUSY over a record keeps that record's activation.
LEMMA PoisonActivation ==
  ASSUME NEW g, g \in ProtocolState, PoisonBoth(g)
  PROVE  gud'.activation = g.activation
BY KeepsActivation DEF PoisonBoth

\* Requests leave the activation alone.
LEMMA RequestActivation ==
  ASSUME WellFormed(gud), ServesSomething,
         ~LifecycleUnbind,
         ~\E e \in LifecycleEvents :
            LifecycleIdle(e) \/ LifecyclePreserves(e) \/ LifecycleBoundary(e)
  PROVE  gud'.activation = gud.activation
<1>0. gud \in ProtocolState
  BY DEF WellFormed
<1>1. CASE SuppressSetup \/ StatusEndsDiagnostic \/ StatusNoted
  BY <1>1 DEF SuppressSetup, StatusEndsDiagnostic, StatusNoted
<1>2. ASSUME NEW r \in Requests, SetupFails(r)
      PROVE  gud'.activation = gud.activation
  <2> DEFINE g == IF r = "GET_CONNECTOR_STATUS"
                  THEN [gud EXCEPT !.connector_changed = FALSE] ELSE gud
  <2>1. g \in ProtocolState /\ g.activation = gud.activation
    BY <1>0 DEF ProtocolState
  <2>2. PoisonBoth(g) \/ gud' = g
    BY <1>2 DEF SetupFails
  <2> QED BY <2>1, <2>2, PoisonActivation
<1>3. CASE ServeInformation \/ ServeUnsupported
  BY <1>0, <1>3, KeepsActivation DEF ServeInformation, ServeUnsupported,
       GetInformation, UnsupportedRequest
<1>4. CASE ServeConnectorStatus
  <2> DEFINE g == [gud EXCEPT !.connector_changed = FALSE]
  <2>1. g \in ProtocolState /\ g.activation = gud.activation
    BY <1>0 DEF ProtocolState
  <2> QED BY <1>4, <2>1, KeepsActivation
          DEF ServeConnectorStatus, GetConnectorStatus
<1>5. CASE ServeStateCheck
  <2>1. PICK m \in Modes : gud' = mark_success(store_pending_state(gud, m))
    BY <1>5 DEF ServeStateCheck, SetStateCheck
  <2>2. store_pending_state(gud, m) \in ProtocolState
    BY StatePreserves DEF WellFormed
  <2> QED BY <1>0, <2>1, <2>2, KeepsActivation
<1>6. CASE ServeStateCommit
  <2>1. PICK m : m \in Modes
    BY ProtocolAssumption
  <2>2. commit_pending_state(gud) \in ProtocolState
    BY <1>6, <2>1, StatePreserves DEF ServeStateCommit, SetStateCommit, WellFormed
  <2> QED BY <1>0, <1>6, <2>2, KeepsActivation DEF ServeStateCommit, SetStateCommit
<1>7. CASE ServeControllerEnable
  <2>1. CASE SetEnableMalformed
    BY <1>0, <2>1, KeepsActivation DEF SetEnableMalformed
  <2>2. ASSUME NEW b \in BOOLEAN, SetControllerEnable(b)
        PROVE  gud'.activation = gud.activation
    <3>1. update_controller_enabled(gud, b) \in ProtocolState
      BY <1>0 DEF update_controller_enabled, ProtocolState
    <3> QED BY <1>0, <2>2, <3>1, KeepsActivation DEF SetControllerEnable
  <2> QED BY <1>7, <2>1, <2>2 DEF ServeControllerEnable
<1>8. CASE ServeDisplayEnable
  <2>1. CASE SetEnableMalformed
    BY <1>0, <2>1, KeepsActivation DEF SetEnableMalformed
  <2>2. ASSUME NEW b \in BOOLEAN, SetDisplayEnable(b)
        PROVE  gud'.activation = gud.activation
    <3> DEFINE h == [gud EXCEPT !.display_enabled = b]
    <3>1. h \in ProtocolState /\ h.activation = gud.activation
      BY <1>0 DEF ProtocolState
    <3>2. gud' = mark_success(h) \/ gud' = latch_status(gud, "INVALID_PARAMETER")
      BY <2>2 DEF SetDisplayEnable
    <3> HIDE DEF h
    <3> QED BY <1>0, <3>1, <3>2, KeepsActivation
  <2> QED BY <1>8, <2>1, <2>2 DEF ServeDisplayEnable
<1>9. CASE StatusContains \/ StatusRejectsArm
  BY <1>0, <1>9, PoisonActivation DEF StatusContains, StatusRejectsArm
<1>10. CASE \/ SetBufferBusy \/ SetBufferRejected \/ ArmAccepted \/ ArmRejected
            \/ SetBufferMalformed \/ ArmRefusedSilently
  BY <1>0, <1>10, KeepsActivation DEF SetBufferBusy, SetBufferRejected,
       SetBufferInvalid, ArmAccepted, ArmRejected, SetBufferMalformed,
       ArmRefusedSilently, LeavesUnarmed
<1>11. CASE StateCheckInvalidates \/ StateCommitInvalidates
  <2>1. /\ clear_pending_state(gud) \in ProtocolState
        /\ reject_state_check(gud) \in ProtocolState
        /\ reject_state_commit(gud) \in ProtocolState
    BY <1>0, RejectPreserves DEF WellFormed, clear_pending_state, ProtocolState
  <2>2. /\ reject_state_check(gud).activation = gud.activation
        /\ reject_state_commit(gud).activation = gud.activation
    BY <1>0, <2>1, KeepsActivation DEF reject_state_check, reject_state_commit
  <2> QED BY <1>11, <2>1, <2>2, PoisonActivation
          DEF StateCheckInvalidates, StateCommitInvalidates, Invalidates
<1> QED BY <1>1, <1>2, <1>3, <1>4, <1>5, <1>6, <1>7, <1>8, <1>9, <1>10, <1>11
        DEF ServesSomething

(***************************************************************************)
(* One step of the loop, by what it does to the ownership of the path.     *)
(***************************************************************************)
\* Ownership, bus session and boundary are left alone.
LEMMA ProductionUntouched ==
  ASSUME ProductionInv,
         UNCHANGED <<session, guard, drain, usb, boundary>>,
         exact'.epoch_id = exact.epoch_id, gud'.activation = gud.activation,
         pc' = "failed" => aio'.slot = "free" /\ ~boundary.open
  PROVE  ProductionInv'
BY DEF ProductionInv, GuardFollowsOwnership, EpochsOrdered

\* An owned path is contained.
LEMMA ProductionPoisoned ==
  ASSUME LoopInv, ProductionInv, PoisonBoth(gud),
         UNCHANGED <<guard, drain, usb, boundary>>,
         session.state \notin Unowned, pc \in {"top", "poll"},
         pc' \in {"top", "poll"}
  PROVE  ProductionInv'
<1>1. session'.state = "Poisoned" /\ exact'.epoch_id = exact.epoch_id
  BY DEF LoopInv, PathInv, PathType, PoisonBoth, poison, EnterState,
         BulkReceiveSession, ExactAioTransaction
<1>2. gud'.activation = gud.activation
  BY PoisonActivation DEF LoopInv, WellFormed
<1>3. session.state # "ShuttingDown"
  BY DEF LoopInv, PathInv, PathFacts
<1> QED BY <1>1, <1>2, <1>3
        DEF ProductionInv, GuardFollowsOwnership, EpochsOrdered, Unowned

\* A pending receive or a ready payload is an owned path.
LEMMA BusyIsOwned ==
  ASSUME LoopInv, pc \in {"top", "poll"},
         pending # 0 \/ ready # 0 \/ exact.state = "InFlight"
  PROVE  session.state \notin Unowned
BY DEF LoopInv, PathInv, PathFacts, LayersAgree, BooksBalance, Unowned

LEMMA RetireInProduction ==
  ASSUME LoopInv, ProductionInv, RetireEpoch PROVE ProductionInv'
<1>1. /\ exact \in ExactAioTransaction /\ session \in BulkReceiveSession
      /\ guard \in DiagnosticGuard /\ boundary.epoch \in Nat
      /\ "AbortedBySessionDestruction" \in BulkReceiveState
  BY DEF LoopInv, PathInv, PathType, ControlType, EpochBoundary,
         BulkReceiveState
<1>2. ~guard'.active /\ session'.state \in Unowned
  <2>1. ~guard'.active
    BY <1>1 DEF RetireEpoch, release_after_cleanup, DiagnosticGuard
  <2> QED BY <1>1, <2>1, SessionMoves DEF RetireEpoch, Unowned
<1>3. exact'.epoch_id = IF boundary.epoch = 0 THEN exact.epoch_id
                                              ELSE boundary.epoch
  BY <1>1, ExactRetired DEF RetireEpoch
<1>4. ~boundary'.open /\ boundary'.epoch = 0
  BY DEF RetireEpoch, NoBoundary
<1>5. /\ gud' = gud /\ drain' = NoDrain /\ pc' = "top"
      /\ usb' # "Contained"
  BY DEF RetireEpoch, RetireReady, ProductionInv
<1>6. gud.activation \in Nat
  BY DEF LoopInv, WellFormed, ProtocolState
<1> QED BY <1>2, <1>3, <1>4, <1>5, <1>6
        DEF ProductionInv, GuardFollowsOwnership, EpochsOrdered, Unowned

\* A boundary that is ready to retire can retire.
LEMMA AlwaysRetirable ==
  ASSUME LoopInv, ProductionInv, RetireReady PROVE EpochRetirable
<1>1. session.state = "Poisoned" /\ exact.state = "Poisoned"
  BY DEF ProductionInv, RetireReady, LoopInv, PathInv, LayersAgree
<1>2. exact.epoch_id = session.epoch_id
  BY DEF LoopInv, PathInv, LayersAgree
<1> QED BY <1>1, <1>2
        DEF EpochRetirable, CanRetire, CanRetireSession, ProductionInv,
            EpochsOrdered

LEMMA LifecycleInProduction ==
  ASSUME TransactionLimit = 0, LoopInv, ProductionInv,
         NEW e \in LifecycleEvents,
         LifecycleIdle(e) \/ LifecyclePreserves(e) \/ LifecycleBoundary(e)
  PROVE  ProductionInv'
<1> DEFINE g == LifecycleReset(gud, e)
<1>0. /\ gud \in ProtocolState /\ g \in ProtocolState
      /\ gud.activation \in Nat
      /\ exact \in ExactAioTransaction /\ session \in BulkReceiveSession
      /\ exact.epoch_id \in Nat /\ session.epoch_id = exact.epoch_id
  BY LifecyclePreservesRecord DEF LoopInv, WellFormed, ProtocolState, PathInv,
     PathType, ExactAioTransaction, LayersAgree
<1>1. g.activation = IF e = "Enable" THEN gud.activation + 1 ELSE gud.activation
  BY <1>0, KeepsActivation
<1> HIDE DEF g
<1>2. /\ UNCHANGED <<guard, drain>> /\ pc = "poll" /\ pc' = "top"
      /\ ~boundary.open
  BY DEF LifecycleIdle, LifecyclePreserves, LifecycleBoundary,
         ObservesLifecycle, Receives, Polling
<1>3. boundary.epoch = 0 /\ session.state # "ShuttingDown"
  BY <1>2 DEF ProductionInv, EpochsOrdered, LoopInv, PathInv, PathFacts
<1>4. CASE LifecycleIdle(e)
  <2>1. session.state \in Unowned
    BY <1>4 DEF LifecycleIdle, ObservesLifecycle, observe_aio_lifecycle,
         ProvenIdle, classify_usb_lifecycle, ClassifyOwned, ClassifyContained,
         Verdict, Boundaries
  <2>2. usb' # "Contained"
    BY <1>4, <2>1, IdleIsUnowned DEF LifecycleIdle, observe_aio_lifecycle,
         classify_usb_lifecycle, ClassifyIdle, Verdict, LifecycleEvents,
         ProductionInv, Unowned
  <2>3. gud' = g /\ UNCHANGED boundary
    BY <1>4 DEF LifecycleIdle, g
  <2>4. /\ session'.state \in Unowned
        /\ exact'.epoch_id \in {exact.epoch_id, g.activation}
    <3>1. CASE UNCHANGED <<exact, session>>
      BY <2>1, <3>1
    <3>2. CASE /\ exact' = begin_usb_epoch(exact, gud'.activation)
               /\ session' = begin_session_epoch(session, gud'.activation)
      BY <1>0, <2>3, <3>2 DEF begin_usb_epoch, begin_session_epoch,
           ExactAioTransaction, BulkReceiveSession, Unowned
    <3> QED BY <1>4, <3>1, <3>2 DEF LifecycleIdle
  <2>5. exact'.epoch_id <= gud'.activation /\ boundary'.epoch <= gud'.activation
    BY <1>0, <1>1, <1>3, <2>3, <2>4 DEF ProductionInv, EpochsOrdered
  <2> QED BY <1>2, <1>3, <2>1, <2>2, <2>3, <2>4, <2>5
          DEF ProductionInv, GuardFollowsOwnership, EpochsOrdered, Unowned
<1>5. CASE LifecyclePreserves(e)
  <2>1. gud' = g /\ UNCHANGED <<exact, session, boundary>>
    BY <1>5 DEF LifecyclePreserves, g
  <2>2. usb' # "Contained" \/ usb = "Contained"
    BY <1>5 DEF LifecyclePreserves, observe_aio_lifecycle, ObservesLifecycle,
         classify_usb_lifecycle, ClassifyOwned, ClassifyContained,
         ClassifyIdle, Verdict, Boundaries
  <2>3. exact.epoch_id <= g.activation /\ boundary.epoch <= g.activation
    BY <1>0, <1>1, <1>3 DEF ProductionInv, EpochsOrdered
  <2> QED BY <1>2, <1>3, <2>1, <2>2, <2>3
          DEF ProductionInv, GuardFollowsOwnership, EpochsOrdered
<1>6. CASE LifecycleBoundary(e)
  <2>1. session.state \notin Unowned
    BY <1>6, IdleIsUnowned DEF LifecycleBoundary, ObservesLifecycle,
         observe_aio_lifecycle, classify_usb_lifecycle, ClassifyIdle, Verdict,
         ProductionInv, Unowned, UsbSessionState
  <2>2. PoisonBoth(g)
    BY <1>6, <2>1 DEF LifecycleBoundary, currently_owned, g
  <2>3. /\ session'.state = "Poisoned" /\ exact'.epoch_id = exact.epoch_id
        /\ gud'.activation = g.activation
    BY <1>0, <2>2, PoisonActivation DEF PoisonBoth, poison, EnterState,
         BulkReceiveSession, ExactAioTransaction
  <2>4. usb' # "Contained"
    BY <1>6 DEF LifecycleBoundary, ObservesLifecycle, observe_aio_lifecycle,
         classify_usb_lifecycle, ClassifyOwned, ClassifyContained,
         ClassifyIdle, Verdict, AfterBoundary, Boundaries
  <2>5. /\ boundary'.open
        /\ boundary'.epoch = IF e = "Enable" THEN g.activation ELSE 0
    BY <1>6 DEF LifecycleBoundary, g
  <2>6. /\ exact.epoch_id <= g.activation
        /\ boundary'.epoch <= g.activation
        /\ boundary'.epoch # 0 => boundary'.epoch > exact.epoch_id
    BY <1>0, <1>1, <2>5 DEF ProductionInv, EpochsOrdered
  <2> QED BY <1>2, <1>3, <2>1, <2>3, <2>4, <2>5, <2>6
          DEF ProductionInv, GuardFollowsOwnership, EpochsOrdered, Unowned
<1> QED BY <1>4, <1>5, <1>6

LEMMA RequestsInProduction ==
  ASSUME TransactionLimit = 0, LoopInv, ProductionInv, ServesSomething
  PROVE  ProductionInv'
<1> USE DEF Receives, Polling, receiveVars
<1>0. CASE \E e \in LifecycleEvents :
             LifecycleIdle(e) \/ LifecyclePreserves(e) \/ LifecycleBoundary(e)
  BY <1>0, LifecycleInProduction
<1>1. CASE LifecycleUnbind
  <2>1. gud'.activation = gud.activation
    BY <1>1, KeepsActivation DEF LifecycleUnbind, LoopInv, WellFormed
  <2> QED BY <1>1, <2>1, ProductionUntouched DEF LifecycleUnbind,
            ObservesLifecycle
<1>2. ASSUME ~LifecycleUnbind,
             ~\E e \in LifecycleEvents :
               LifecycleIdle(e) \/ LifecyclePreserves(e) \/ LifecycleBoundary(e)
      PROVE  ProductionInv'
  <2>0. gud'.activation = gud.activation
    BY <1>2, RequestActivation DEF LoopInv
  <2>1. CASE \/ SuppressSetup \/ SetBufferBusy \/ SetBufferRejected
             \/ ServeInformation \/ ServeConnectorStatus \/ ServeUnsupported
             \/ ServeStateCheck \/ ServeStateCommit \/ ServeControllerEnable
             \/ ServeDisplayEnable \/ SetBufferMalformed
    <3>1. /\ UNCHANGED <<session, guard, drain, usb, boundary, exact>>
          /\ pc' = "top"
      BY <2>1 DEF SuppressSetup, SetBufferBusy, SetBufferRejected,
           ServeInformation, ServeConnectorStatus, ServeUnsupported,
           ServeStateCheck, ServeStateCommit, ServeControllerEnable,
           ServeDisplayEnable, ServesControl, Serves, SetBufferMalformed,
           LeavesUnarmed
    <3> QED BY <2>0, <3>1, ProductionUntouched
  <2>2. ASSUME NEW r \in Requests, SetupFails(r) PROVE ProductionInv'
    <3> DEFINE g == IF r = "GET_CONNECTOR_STATUS"
                    THEN [gud EXCEPT !.connector_changed = FALSE] ELSE gud
    <3>1. CASE pending = 0
      BY <2>0, <2>2, <3>1, ProductionUntouched DEF SetupFails
    <3>2. CASE pending # 0
      <4>1. session.state \notin Unowned /\ session.state # "ShuttingDown"
        BY <2>2, <3>2, BusyIsOwned DEF SetupFails, LoopInv, PathInv, PathFacts
      <4>2. PoisonBoth(g)
        BY <2>2, <3>2 DEF SetupFails
      <4>3. session'.state = "Poisoned" /\ exact'.epoch_id = exact.epoch_id
        BY <4>2 DEF LoopInv, PathInv, PathType, PoisonBoth, poison,
             EnterState, BulkReceiveSession, ExactAioTransaction
      <4> QED BY <2>0, <2>2, <4>1, <4>3 DEF SetupFails, ProductionInv,
                GuardFollowsOwnership, EpochsOrdered, Unowned
    <3> QED BY <3>1, <3>2
  <2>3. CASE StatusContains \/ StatusEndsDiagnostic
    BY <2>3 DEF StatusContains, StatusEndsDiagnostic, StatusOutOfTurn,
         ProductionInv
  <2>4. CASE StatusRejectsArm
    BY <2>4, BusyIsOwned, ProductionPoisoned
       DEF StatusRejectsArm, ServesStatus, AwaitsStatus
  <2>5. CASE StatusNoted
    <3>1. exact'.epoch_id = exact.epoch_id
      BY <2>5 DEF StatusNoted, status_sent, LoopInv, PathInv, PathType,
           ExactAioTransaction
    <3> QED BY <2>0, <2>5, <3>1, ProductionUntouched
            DEF StatusNoted, ServesStatus, ProductionInv
  <2>6. CASE ArmAccepted
    <3>1. session'.state = "InFlight" /\ guard'.active
      BY <2>6 DEF ArmAccepted, EnterState, begin_after_aio_acceptance, LoopInv,
           PathInv, PathType, BulkReceiveSession
    <3>2. exact'.epoch_id = exact.epoch_id
      BY <2>6 DEF ArmAccepted, Armed, submission_accepted_operation, begin_arm,
           LoopInv, PathInv, PathType, ExactAioTransaction
    <3>3. /\ UNCHANGED <<usb, boundary>> /\ drain' = drain /\ pc' = "top"
          /\ session.state = "Idle" /\ ~boundary.open
      BY <2>6 DEF ArmAccepted, Admits, Admissible, Serves
    <3> QED BY <2>0, <3>1, <3>2, <3>3 DEF ProductionInv, GuardFollowsOwnership,
              EpochsOrdered
  <2>7. CASE ArmRejected \/ ArmRefusedSilently
    <3>1. exact'.epoch_id = exact.epoch_id
      BY <2>7 DEF ArmRejected, ArmRefusedSilently, submission_rejected,
           begin_arm, LoopInv, PathInv, PathType, ExactAioTransaction
    <3> QED BY <2>0, <2>7, <3>1, ProductionUntouched
            DEF ArmRejected, ArmRefusedSilently, LeavesUnarmed, Admits, Serves
  <2>8. CASE StateCheckInvalidates \/ StateCommitInvalidates
    <3>1. PICK g : Invalidates(g)
      BY <2>8 DEF StateCheckInvalidates, StateCommitInvalidates
    <3>2. /\ pc' = "top" /\ UNCHANGED <<boundary, guard, drain>>
          /\ ~boundary.open /\ session.state # "ShuttingDown"
      BY <2>8, <3>1 DEF StateCheckInvalidates, StateCommitInvalidates, Serves,
           Invalidates, LoopInv, PathInv, PathFacts
    <3>3. CASE session.state \in Unowned
      <4>1. usb' = usb /\ UNCHANGED <<exact, session>>
        BY <3>1, <3>3, IdleIsUnowned DEF Invalidates, observe_aio_lifecycle,
             classify_usb_lifecycle, ClassifyIdle, Verdict, ProductionInv,
             Unowned
      <4> QED BY <2>0, <3>2, <4>1, ProductionUntouched
    <3>4. CASE session.state \notin Unowned
      <4>1. PoisonBoth(g)
        BY <3>1, <3>4, IdleIsUnowned DEF Invalidates, observe_aio_lifecycle,
             classify_usb_lifecycle, ClassifyOwned, Verdict, Boundaries
      <4>2. session'.state = "Poisoned" /\ exact'.epoch_id = exact.epoch_id
        BY <4>1 DEF LoopInv, PathInv, PathType, PoisonBoth, poison,
             EnterState, BulkReceiveSession, ExactAioTransaction
      <4> QED BY <2>0, <3>2, <3>4, <4>2 DEF ProductionInv,
                GuardFollowsOwnership, EpochsOrdered, Unowned
    <3> QED BY <3>3, <3>4
  <2> QED BY <1>2, <2>1, <2>2, <2>3, <2>4, <2>5, <2>6, <2>7, <2>8
          DEF ServesSomething
<1> QED BY <1>0, <1>1, <1>2

LEMMA ProductionStep ==
  ASSUME TransactionLimit = 0
  PROVE  LoopInv /\ ProductionInv /\ [Next]_vars => ProductionInv'
<1> SUFFICES ASSUME LoopInv, ProductionInv, [Next]_vars PROVE ProductionInv'
  OBVIOUS
<1> USE DEF receiveVars, kernelVars
<1>1. CASE Loop
  <2>1. CASE RetireEpoch
    BY <2>1, RetireInProduction
  <2>2. CASE RetireFails
    BY <2>2, AlwaysRetirable DEF RetireFails
  <2>3. CASE DrainTimesOut
    BY <2>3 DEF DrainTimesOut, ProductionInv
  <2>4. CASE LeaveLoop \/ NothingToHarvest \/ HoldEp0 \/ PollEmpty
             \/ SuppressTeardown
    BY <2>4, ProductionUntouched DEF LeaveLoop, NothingToHarvest, AtHarvest,
         HoldEp0, PollEmpty, SuppressTeardown
  <2>5. CASE HarvestPayload
    <3>1. /\ session.state = "InFlight" /\ session'.state = "Processing"
          /\ exact'.epoch_id = exact.epoch_id
      BY <2>5 DEF HarvestPayload, EnterState, completion_for_operation, LoopInv,
           PathInv, PathType, BulkReceiveSession, ExactAioTransaction
    <3> QED BY <2>5, <3>1 DEF HarvestPayload, ProductionInv,
              GuardFollowsOwnership, EpochsOrdered
  <2>6. CASE HarvestRejected
    BY <2>6, BusyIsOwned, ProductionPoisoned
       DEF HarvestRejected, AtHarvest, Completed
  <2>7. CASE MissDeadline
    BY <2>7, BusyIsOwned, ProductionPoisoned DEF MissDeadline, AtHarvest
  <2>8. CASE PollFails
    <3>1. CASE pending # 0
      BY <2>8, <3>1, BusyIsOwned, ProductionPoisoned DEF PollFails, Polling
    <3>2. CASE pending = 0
      BY <2>8, <3>2, ProductionUntouched DEF PollFails, Polling
    <3> QED BY <3>1, <3>2
  <2>9. CASE ProcessPayload
    <3>1. /\ session.state = "Processing" /\ session'.state = "Idle"
          /\ ~guard'.active /\ exact'.epoch_id = exact.epoch_id
      BY <2>9 DEF ProcessPayload, CanFinish, FinishProduction,
           FinishDiagnostic, EnterState, finish_processing, Released,
           release_after_cleanup, LoopInv, PathInv, PathType, ControlType,
           BulkReceiveSession, ExactAioTransaction, DiagnosticGuard
    <3> QED BY <2>9, <3>1 DEF ProcessPayload, FinishProduction,
              FinishDiagnostic, ProductionInv, GuardFollowsOwnership,
              EpochsOrdered
  <2>10. CASE ProcessContained
    BY <2>10, ProductionUntouched DEF ProcessContained, PayloadReady, Polling,
         LoopInv, PathInv, BooksBalance
  <2>11. CASE ProcessFails
    BY <2>11, BusyIsOwned, ProductionPoisoned DEF ProcessFails, PayloadReady,
         Polling
  <2>12. CASE ServesSomething
    BY <2>12, RequestsInProduction
  <2>13. CASE TearDown
    <3>1. session'.state = "ShuttingDown" /\ session.state \in Unowned
      BY <2>13 DEF TearDown, ProvenIdle, EnterState, LoopInv, PathInv,
           PathType, BulkReceiveSession
    <3> QED BY <2>13, <3>1 DEF TearDown, ProductionInv, GuardFollowsOwnership,
              EpochsOrdered, Unowned
  <2> QED BY <1>1, <2>1, <2>2, <2>3, <2>4, <2>5, <2>6, <2>7, <2>8, <2>9,
            <2>10, <2>11, <2>12, <2>13 DEF Loop
<1>2. CASE Environment
  <2>1. /\ UNCHANGED <<session, guard, drain, usb, boundary, exact, gud, pc>>
        /\ aio.slot = "free" => aio' = aio
    BY <1>2 DEF Environment, UsbEnable, UsbDisable, BusSuspend, BusResume,
         CableLost, UdcUnbind, UdcBind, AioFails, AioDelivered, DeadlinePasses,
         RequestShutdown, HostPosts, HostTimesOut, HostBulk, HostAbandons,
         loopVars, Flush
  <2>2. pc' = "failed" => aio'.slot = "free" /\ ~boundary.open
    BY <2>1 DEF ProductionInv
  <2> QED BY <2>1, <2>2, ProductionUntouched
<1>3. CASE Ended \/ UNCHANGED vars
  BY <1>3 DEF Ended, vars, loopVars, ProductionInv, GuardFollowsOwnership,
       EpochsOrdered
<1> QED BY <1>1, <1>2, <1>3 DEF Next

(***************************************************************************)
(* The theorems of production.                                             *)
(***************************************************************************)
\* In production the STATUS_ON_SET admission guard is held exactly while the
\* receive path is owned, for every host and every interleaving.
THEOREM GuardAlwaysFollows ==
  ASSUME TransactionLimit = 0 PROVE Spec => []GuardFollowsOwnership
<1>1. ProductionInv => GuardFollowsOwnership
  BY DEF ProductionInv
<1> QED BY <1>1, LoopInitial, LoopStep, ProductionInitial, ProductionStep, PTL
        DEF Spec

\* In production no retirement of a destroyed endpoint generation fails, so a
\* terminal USB event never ends the process.
THEOREM BoundariesNeverFail ==
  ASSUME TransactionLimit = 0 PROVE Spec => []BoundaryNeverFails
<1>1. ProductionInv => BoundaryNeverFails
  BY DEF ProductionInv, BoundaryNeverFails
<1> QED BY <1>1, LoopInitial, LoopStep, ProductionInitial, ProductionStep, PTL
        DEF Spec

\* In production main never returns, by teardown or by an error, while the
\* kernel owns the receive buffer.
THEOREM AioNeverAbandoned ==
  ASSUME TransactionLimit = 0 PROVE Spec => []NoAbandonedAio
<1>1. LoopInv /\ ProductionInv => NoAbandonedAio
  BY DEF LoopInv, PathInv, PathFacts, ProductionInv, NoAbandonedAio
<1> QED BY <1>1, LoopInitial, LoopStep, ProductionInitial, ProductionStep, PTL
        DEF Spec

(***************************************************************************)
(* The loop implements ReceiveOwnership.                                   *)
(***************************************************************************)
OwnershipStep == [Ownership!OwnershipNext]_(Ownership!ovars)

\* The owner as the session's state tells it.
LEMMA OwnerIs ==
  /\ session.state \in Unowned => Owner = "free"
  /\ session.state = "InFlight" => Owner = "receiving"
  /\ session.state = "Processing" => Owner = "processing"
  /\ session.state = "Poisoned" => Owner = "contained"
  /\ session.state = "ShuttingDown" => Owner = "closed"
BY DEF Owner, Unowned

LEMMA OwnerIsNext ==
  /\ session'.state \in Unowned => Owner' = "free"
  /\ session'.state = "InFlight" => Owner' = "receiving"
  /\ session'.state = "Processing" => Owner' = "processing"
  /\ session'.state = "Poisoned" => Owner' = "contained"
  /\ session'.state = "ShuttingDown" => Owner' = "closed"
BY DEF Owner, Unowned

LEMMA OwnershipStutters ==
  ASSUME session' = session, aio'.slot = "free" <=> aio.slot = "free"
  PROVE  OwnershipStep
BY DEF OwnershipStep, Ownership!ovars, Owner

LEMMA OwnershipContains ==
  ASSUME LoopInv, NEW g, PoisonBoth(g), session.state \notin Unowned,
         pc \in {"top", "poll"},
         \/ aio'.slot = "free" <=> aio.slot = "free"
         \/ aio.slot # "free" /\ aio'.slot = "free"
  PROVE  OwnershipStep
<1>1. session'.state = "Poisoned"
  BY DEF LoopInv, PathInv, PathType, PoisonBoth, EnterState, BulkReceiveSession
<1>2. session.state \in {"InFlight", "Processing", "Poisoned"}
  BY DEF LoopInv, PathInv, PathType, PathFacts, LayersAgree,
         BulkReceiveSession, BulkReceiveState, Unowned
<1> QED BY <1>1, <1>2, OwnerIs, OwnerIsNext
        DEF OwnershipStep, Ownership!ovars, Ownership!OwnershipNext,
            Ownership!Contain, Ownership!Reclaim

LEMMA RequestsOwn ==
  ASSUME TransactionLimit = 0, LoopInv, ProductionInv, ServesSomething
  PROVE  OwnershipStep
<1> USE DEF Receives, Polling, receiveVars
<1>1. CASE \/ SuppressSetup \/ SetBufferBusy \/ SetBufferRejected
           \/ ServeInformation \/ ServeConnectorStatus \/ ServeUnsupported
           \/ ServeStateCheck \/ ServeStateCommit \/ ServeControllerEnable
           \/ ServeDisplayEnable \/ SetBufferMalformed
  <2>1. UNCHANGED <<session, aio>>
    BY <1>1 DEF SuppressSetup, SetBufferBusy, SetBufferRejected,
         ServeInformation, ServeConnectorStatus, ServeUnsupported,
         ServeStateCheck, ServeStateCommit, ServeControllerEnable,
         ServeDisplayEnable, ServesControl, Serves, SetBufferMalformed,
         LeavesUnarmed
  <2> QED BY <2>1, OwnershipStutters
<1>2. ASSUME NEW r \in Requests, SetupFails(r) PROVE OwnershipStep
  <2> DEFINE g == IF r = "GET_CONNECTOR_STATUS"
                  THEN [gud EXCEPT !.connector_changed = FALSE] ELSE gud
  <2>1. CASE pending # 0
    BY <1>2, <2>1, BusyIsOwned, OwnershipContains DEF SetupFails
  <2>2. CASE pending = 0
    BY <1>2, <2>2, OwnershipStutters DEF SetupFails
  <2> QED BY <2>1, <2>2
<1>3. CASE StatusEndsDiagnostic \/ StatusNoted \/ ArmRejected \/ ArmRefusedSilently
  BY <1>3, OwnershipStutters DEF StatusEndsDiagnostic, StatusNoted, ArmRejected,
       ArmRefusedSilently, LeavesUnarmed, ServesStatus
<1>4. CASE StatusContains \/ StatusRejectsArm
  BY <1>4, BusyIsOwned, OwnershipContains DEF StatusContains, StatusRejectsArm,
       ServesStatus, AwaitsStatus
<1>5. CASE ArmAccepted
  <2>1. /\ session.state = "Idle" /\ session'.state = "InFlight"
        /\ aio'.slot = "queued"
    BY <1>5 DEF ArmAccepted, Admits, Admissible, EnterState, Submit, LoopInv,
         PathInv, PathType, BulkReceiveSession
  <2>2. aio.slot = "free"
    BY <2>1 DEF LoopInv, PathInv, PathFacts, LayersAgree
  <2> QED BY <2>1, <2>2, OwnerIs, OwnerIsNext DEF Unowned, OwnershipStep,
            Ownership!OwnershipNext, Ownership!Lend
<1>6. CASE StateCheckInvalidates \/ StateCommitInvalidates
  <2>1. PICK g : Invalidates(g)
    BY <1>6 DEF StateCheckInvalidates, StateCommitInvalidates
  <2>2. pc = "poll" /\ aio' = aio
    BY <1>6, <2>1 DEF StateCheckInvalidates, StateCommitInvalidates, Serves,
         Invalidates
  <2>3. CASE session.state \in Unowned
    <3>1. session' = session
      BY <2>1, <2>3, IdleIsUnowned DEF Invalidates, observe_aio_lifecycle,
           classify_usb_lifecycle, ClassifyIdle, Verdict, ProductionInv, Unowned
    <3> QED BY <2>2, <3>1, OwnershipStutters
  <2>4. CASE session.state \notin Unowned
    <3>1. PoisonBoth(g)
      BY <2>1, <2>4, IdleIsUnowned DEF Invalidates, observe_aio_lifecycle,
           classify_usb_lifecycle, ClassifyOwned, Verdict, Boundaries
    <3> QED BY <2>2, <2>4, <3>1, OwnershipContains
  <2> QED BY <2>3, <2>4
<1>7. ASSUME NEW e \in LifecycleEvents, LifecycleIdle(e) PROVE OwnershipStep
  <2>1. session.state \in Unowned
    BY <1>7 DEF LifecycleIdle, ObservesLifecycle, observe_aio_lifecycle,
         ProvenIdle, classify_usb_lifecycle, ClassifyOwned, ClassifyContained,
         Verdict, Boundaries
  <2>2. session'.state \in Unowned /\ aio' = aio
    BY <1>7, <2>1 DEF LifecycleIdle, ObservesLifecycle, begin_session_epoch,
         LoopInv, PathInv, PathType, BulkReceiveSession, Unowned
  <2> QED BY <2>1, <2>2, OwnerIs, OwnerIsNext DEF OwnershipStep, Ownership!ovars
<1>8. ASSUME NEW e \in LifecycleEvents, LifecyclePreserves(e) \/ LifecycleUnbind
      PROVE  OwnershipStep
  BY <1>8, OwnershipStutters DEF LifecyclePreserves, LifecycleUnbind,
       ObservesLifecycle
<1>9. ASSUME NEW e \in LifecycleEvents, LifecycleBoundary(e) PROVE OwnershipStep
  <2>1. pc = "poll" /\ aio' = aio
    BY <1>9 DEF LifecycleBoundary, ObservesLifecycle
  <2>2. CASE session.state \in Unowned
    BY <1>9, <2>1, <2>2, OwnershipStutters DEF LifecycleBoundary,
         currently_owned
  <2>3. CASE session.state \notin Unowned
    BY <1>9, <2>1, <2>3, OwnershipContains DEF LifecycleBoundary,
         currently_owned
  <2> QED BY <2>2, <2>3
<1>10. CASE LifecycleUnbind
  BY <1>10, OwnershipStutters DEF LifecycleUnbind, ObservesLifecycle
<1> QED BY <1>1, <1>2, <1>3, <1>4, <1>5, <1>6, <1>7, <1>8, <1>9, <1>10
        DEF ServesSomething

LEMMA OwnershipSteps ==
  ASSUME TransactionLimit = 0
  PROVE  LoopInv /\ ProductionInv /\ [Next]_vars => OwnershipStep
<1> SUFFICES ASSUME LoopInv, ProductionInv, [Next]_vars PROVE OwnershipStep
  OBVIOUS
<1> USE DEF receiveVars, kernelVars
<1>0. session \in BulkReceiveSession /\ aio \in AioSlot
  BY DEF LoopInv, PathInv, PathType
<1>1. CASE Loop
  <2>1. CASE RetireEpoch
    <3>1. /\ session.state = "Poisoned" /\ aio.slot = "free" /\ aio' = aio
          /\ boundary.epoch \in Nat
          /\ "AbortedBySessionDestruction" \in BulkReceiveState
      BY <2>1 DEF RetireEpoch, RetireReady, ProductionInv, LoopInv, ControlType,
           EpochBoundary, BulkReceiveState
    <3>2. session'.state \in Unowned
      BY <1>0, <2>1, <3>1, SessionMoves DEF RetireEpoch, Unowned
    <3> QED BY <3>1, <3>2, OwnerIs, OwnerIsNext DEF OwnershipStep,
              Ownership!OwnershipNext, Ownership!Retire
  <2>2. CASE RetireFails \/ DrainTimesOut \/ LeaveLoop \/ NothingToHarvest
             \/ HoldEp0 \/ PollEmpty \/ SuppressTeardown \/ ProcessContained
    BY <2>2, OwnershipStutters DEF RetireFails, DrainTimesOut, LeaveLoop,
         NothingToHarvest, HoldEp0, PollEmpty, SuppressTeardown,
         ProcessContained
  <2>3. CASE HarvestPayload
    <3>1. /\ session.state = "InFlight" /\ session'.state = "Processing"
          /\ aio.slot = "delivered" /\ aio'.slot = "free"
      BY <1>0, <2>3 DEF HarvestPayload, Completed, EnterState, Harvest,
           BulkReceiveSession, AioSlot
    <3> QED BY <3>1, OwnerIs, OwnerIsNext DEF OwnershipStep,
              Ownership!OwnershipNext, Ownership!Fill
  <2>4. CASE HarvestRejected
    <3>1. aio.slot # "free" /\ aio'.slot = "free"
      BY <1>0, <2>4 DEF HarvestRejected, Completed, Harvest, AioSlot
    <3> QED BY <2>4, <3>1, BusyIsOwned, OwnershipContains
            DEF HarvestRejected, AtHarvest, Completed
  <2>5. CASE MissDeadline
    BY <2>5, BusyIsOwned, OwnershipContains DEF MissDeadline, AtHarvest
  <2>6. CASE PollFails
    <3>1. CASE pending # 0
      BY <2>6, <3>1, BusyIsOwned, OwnershipContains DEF PollFails, Polling
    <3>2. CASE pending = 0
      BY <2>6, <3>2, OwnershipStutters DEF PollFails
    <3> QED BY <3>1, <3>2
  <2>7. CASE ProcessPayload
    <3>1. /\ session.state = "Processing" /\ session'.state = "Idle"
          /\ aio' = aio
      BY <1>0, <2>7 DEF ProcessPayload, CanFinish, EnterState,
           BulkReceiveSession
    <3> QED BY <3>1, OwnerIs, OwnerIsNext DEF Unowned, OwnershipStep,
              Ownership!OwnershipNext, Ownership!Show
  <2>8. CASE ProcessFails
    BY <2>8, BusyIsOwned, OwnershipContains DEF ProcessFails, PayloadReady,
         Polling
  <2>9. CASE ServesSomething
    BY <2>9, RequestsOwn
  <2>10. CASE TearDown
    <3>1. /\ session.state \in Unowned /\ session'.state = "ShuttingDown"
          /\ aio.slot = "free" /\ aio' = aio
      BY <1>0, <2>10 DEF TearDown, ProvenIdle, EnterState, BulkReceiveSession
    <3> QED BY <3>1, OwnerIs, OwnerIsNext DEF OwnershipStep,
              Ownership!OwnershipNext, Ownership!Close
  <2> QED BY <1>1, <2>1, <2>2, <2>3, <2>4, <2>5, <2>6, <2>7, <2>8, <2>9, <2>10
          DEF Loop
<1>2. CASE Environment
  <2>1. /\ session' = session
        /\ aio' \in {aio, Flush(aio), Land(aio, "bad"), Land(aio, "exact"),
                    Deliver(aio)}
        /\ aio.slot = "free" => aio' = aio
    BY <1>2 DEF Environment, UsbEnable, UsbDisable, BusSuspend, BusResume,
         CableLost, UdcUnbind, UdcBind, AioFails, AioDelivered, DeadlinePasses,
         RequestShutdown, HostPosts, HostTimesOut, HostBulk, HostAbandons,
         loopVars, Flush
  <2>2. aio'.slot = "free" <=> aio.slot = "free"
    BY <1>0, <2>1 DEF Flush, Land, Deliver, AioSlot
  <2> QED BY <2>1, <2>2, OwnershipStutters
<1>3. CASE Ended \/ UNCHANGED vars
  BY <1>3, OwnershipStutters DEF Ended, vars, loopVars
<1> QED BY <1>1, <1>2, <1>3 DEF Next

\* In production the event loop, with every error, timeout and lifecycle path,
\* implements the lending discipline of ReceiveOwnership.
THEOREM LoopImplementsOwnership ==
  ASSUME TransactionLimit = 0 PROVE Spec => ImplementsOwnership
<1>1. LoopInit => Ownership!OwnershipInit
  BY OwnerIs DEF LoopInit, InitialSession, InitialAio, Unowned,
       Ownership!OwnershipInit
<1> QED BY <1>1, LoopInitial, LoopStep, ProductionInitial, ProductionStep,
          OwnershipSteps, PTL
        DEF Spec, ImplementsOwnership, Ownership!OwnershipSpec, OwnershipStep

(***************************************************************************)
(* A payload on its way to the screen is fresh.  While no boundary is open *)
(* the receive path is in the epoch of the newest ENABLE the loop has seen, *)
(* and while it is owned over a link that is down, the session event that  *)
(* says so is still in the queue: the loop reads it before the payload.    *)
(***************************************************************************)
FreshInv ==
  /\ ready # 0 => exact.status_ready
  /\ ready # 0 /\ ~boundary.open => exact.generation = gud.activation
  /\ ~boundary.open \/ boundary.epoch = 0 => exact.epoch_id = gud.activation
  /\ boundary.epoch # 0 => boundary.epoch = gud.activation
  /\ /\ link \in {"disabled", "unbound"}
     /\ exact.state \notin Unowned
     /\ ~boundary.open
     => Holds(ep0, SessionEvents)

LEMMA FreshInitial == LoopInit => FreshInv
<1> SUFFICES ASSUME LoopInit PROVE FreshInv
  OBVIOUS
<1>1. /\ exact.epoch_id = 0 /\ gud.activation = 0 /\ boundary.epoch = 0
      /\ ready = 0 /\ exact.state = "Idle"
  BY DEF LoopInit, InitialExactAio, InitialProtocolState, NoBoundary
<1> QED BY <1>1 DEF FreshInv, Unowned

\* The fields a step may not disturb, and the way it may.
LEMMA FreshKept ==
  ASSUME FreshInv,
         exact'.epoch_id = exact.epoch_id,
         exact'.generation = exact.generation,
         exact.status_ready => exact'.status_ready,
         exact.state \notin Unowned \/ exact'.state \in Unowned,
         ready' \in {ready, 0}, boundary' = boundary,
         gud'.activation = gud.activation, link' = link,
         Holds(ep0, SessionEvents) => Holds(ep0', SessionEvents)
  PROVE  FreshInv'
BY DEF FreshInv

\* Poisoning an owned path keeps its epoch, generation and status.
LEMMA PoisonKeepsFresh ==
  ASSUME LoopInv, NEW g, PoisonBoth(g)
  PROVE  /\ exact'.epoch_id = exact.epoch_id
         /\ exact'.generation = exact.generation
         /\ exact'.status_ready = exact.status_ready
         /\ exact'.state = "Poisoned"
BY DEF LoopInv, PathInv, PathType, PoisonBoth, poison, ExactAioTransaction

LEMMA OwnedLayers ==
  ASSUME LoopInv, session.state \notin Unowned, pc \in {"top", "poll"}
  PROVE  exact.state \notin Unowned
BY DEF LoopInv, PathInv, PathFacts, LayersAgree

\* Serving anything but a session event leaves the queued ones in place.
LEMMA ServingKeepsSession ==
  ASSUME LoopInv, QueueInv, ServesSomething
  PROVE  /\ Shrunk(ep0, ep0')
         /\ Holds(ep0', SessionEvents) => Holds(ep0, SessionEvents)
         /\ Head(ep0) \notin SessionEvents /\ Holds(ep0, SessionEvents) =>
              Holds(ep0', SessionEvents)
<1>1. ep0 \in Seq(Events) /\ ep0 # <<>>
  BY ServingTakesHead DEF LoopInv, BusType
<1>2. Shrunk(ep0, ep0')
  BY <1>1, ServingTakesHead, Delivered DEF QueueInv
<1>3. Head(ep0) = ep0[1]
  BY <1>1
<1>4. /\ \A i \in DOMAIN ep0' : \E k \in DOMAIN ep0 : ep0'[i] = ep0[k]
      /\ \A k \in DOMAIN ep0 : k = 1 \/ \E i \in DOMAIN ep0' : ep0'[i] = ep0[k]
  BY <1>2 DEF Shrunk
<1>5. Holds(ep0', SessionEvents) => Holds(ep0, SessionEvents)
  BY <1>4 DEF Holds
<1>6. Head(ep0) \notin SessionEvents /\ Holds(ep0, SessionEvents) =>
        Holds(ep0', SessionEvents)
  BY <1>3, <1>4 DEF Holds
<1> QED BY <1>2, <1>5, <1>6

IsLifecycle ==
  \/ LifecycleUnbind
  \/ \E e \in LifecycleEvents :
       LifecycleIdle(e) \/ LifecyclePreserves(e) \/ LifecycleBoundary(e)

\* Everything else that is served is a request.
LEMMA RequestHead ==
  ASSUME ServesSomething, ~IsLifecycle
  PROVE  Head(ep0) \in Requests
BY DEF ServesSomething, IsLifecycle, SuppressSetup, SetupFails,
       ServeInformation, ServeConnectorStatus, ServeUnsupported,
       ServeStateCheck, ServeStateCommit, ServeControllerEnable,
       ServeDisplayEnable, StatusContains, StatusEndsDiagnostic,
       StatusRejectsArm, StatusNoted, SetBufferBusy, SetBufferRejected,
       ArmAccepted, ArmRejected, Admits, StateCheckInvalidates,
       StateCommitInvalidates, ServesStatus, ServesControl, Serves, Receives,
       SetBufferMalformed, ArmRefusedSilently, LeavesUnarmed, Requests

\* In production a request leaves the endpoint's record alone, contains an
\* owned path, answers the SET_BUFFER, or arms.
LEMMA RequestMoves ==
  ASSUME TransactionLimit = 0, LoopInv, ProductionInv, ServesSomething,
         ~IsLifecycle
  PROVE  /\ UNCHANGED <<boundary, ready, link>>
         /\ gud'.activation = gud.activation
         /\ \/ UNCHANGED exact
            \/ session.state \notin Unowned /\ \E g : PoisonBoth(g)
            \/ StatusNoted
            \/ ArmAccepted \/ ArmRejected \/ ArmRefusedSilently
<1> USE DEF Receives, Polling, receiveVars
<1>0. gud'.activation = gud.activation /\ link' = link
  BY RequestActivation, ServingTakesHead DEF LoopInv, IsLifecycle
<1>1. CASE \/ SuppressSetup \/ SetBufferBusy \/ SetBufferRejected
           \/ ServeInformation \/ ServeConnectorStatus \/ ServeUnsupported
           \/ ServeStateCheck \/ ServeStateCommit \/ ServeControllerEnable
           \/ ServeDisplayEnable \/ SetBufferMalformed
  <2>1. UNCHANGED <<boundary, ready, exact>>
    BY <1>1 DEF SuppressSetup, SetBufferBusy, SetBufferRejected,
         ServeInformation, ServeConnectorStatus, ServeUnsupported,
         ServeStateCheck, ServeStateCommit, ServeControllerEnable,
         ServeDisplayEnable, ServesControl, Serves, SetBufferMalformed,
         LeavesUnarmed
  <2> QED BY <1>0, <2>1
<1>2. ASSUME NEW r \in Requests, SetupFails(r)
      PROVE  /\ UNCHANGED <<boundary, ready>>
             /\ \/ UNCHANGED exact
                \/ session.state \notin Unowned /\ \E g : PoisonBoth(g)
  BY <1>2, BusyIsOwned DEF SetupFails
<1>3. CASE StatusContains \/ StatusEndsDiagnostic
  BY <1>3 DEF StatusContains, StatusEndsDiagnostic, StatusOutOfTurn,
       ProductionInv
<1>4. CASE StatusRejectsArm
  BY <1>0, <1>4, BusyIsOwned DEF StatusRejectsArm, ServesStatus, AwaitsStatus
<1>5. CASE StatusNoted
  BY <1>0, <1>5 DEF StatusNoted, ServesStatus
<1>6. CASE ArmAccepted \/ ArmRejected \/ ArmRefusedSilently
  BY <1>0, <1>6 DEF ArmAccepted, ArmRejected, Admits, ArmRefusedSilently,
       LeavesUnarmed
<1>7. CASE StateCheckInvalidates \/ StateCommitInvalidates
  <2>1. PICK g : Invalidates(g)
    BY <1>7 DEF StateCheckInvalidates, StateCommitInvalidates
  <2>2. UNCHANGED <<boundary, ready>>
    BY <2>1 DEF Invalidates
  <2>3. CASE session.state \in Unowned
    BY <1>0, <2>1, <2>2, <2>3, IdleIsUnowned DEF Invalidates,
         observe_aio_lifecycle, classify_usb_lifecycle, ClassifyIdle, Verdict,
         ProductionInv, Unowned
  <2>4. CASE session.state \notin Unowned
    <3>1. UNCHANGED exact \/ PoisonBoth(g)
      BY <2>1 DEF Invalidates
    <3> QED BY <1>0, <2>2, <2>4, <3>1
  <2> QED BY <2>3, <2>4
<1> QED BY <1>0, <1>1, <1>2, <1>3, <1>4, <1>5, <1>6, <1>7
        DEF ServesSomething, IsLifecycle

LEMMA RequestsKeepFresh ==
  ASSUME TransactionLimit = 0, LoopInv, ProductionInv, QueueInv, FreshInv,
         ServesSomething, ~IsLifecycle
  PROVE  FreshInv'
<1>0. /\ UNCHANGED <<boundary, ready, link>> /\ gud'.activation = gud.activation
      /\ pc = "poll" /\ exact \in ExactAioTransaction
  BY RequestMoves, ServingTakesHead DEF Polling, LoopInv, PathInv, PathType
<1>1. Holds(ep0, SessionEvents) => Holds(ep0', SessionEvents)
  BY RequestHead, ServingKeepsSession, SurvivorSets
<1>2. CASE UNCHANGED exact
  BY <1>0, <1>1, <1>2, FreshKept
<1>3. ASSUME session.state \notin Unowned, NEW g, PoisonBoth(g) PROVE FreshInv'
  BY <1>0, <1>1, <1>3, PoisonKeepsFresh, OwnedLayers, FreshKept
<1>4. CASE StatusNoted
  <2>1. /\ exact'.epoch_id = exact.epoch_id
        /\ exact'.generation = exact.generation
        /\ exact.status_ready => exact'.status_ready
        /\ exact'.state = exact.state
    BY <1>0, <1>4 DEF StatusNoted, status_sent, ExactAioTransaction
  <2> QED BY <1>0, <1>1, <2>1, FreshKept
<1>5. CASE ArmAccepted
  <2>1. ready = 0
    BY <1>5 DEF ArmAccepted, Admits, Admissible, CanBeginArm, LoopInv, PathInv,
         BooksBalance
  <2>2. exact'.epoch_id = exact.epoch_id
    BY <1>0, <1>5 DEF ArmAccepted, Armed, submission_accepted_operation,
         begin_arm, ExactAioTransaction
  <2>3. link \notin {"disabled", "unbound"}
    <3>1. 1 \in DOMAIN ep0 /\ ep0[1] \in Requests
      BY RequestHead, ServingTakesHead DEF LoopInv, BusType
    <3> QED BY <3>1 DEF QueueInv, Holds
  <2> QED BY <1>0, <2>1, <2>2, <2>3 DEF FreshInv
<1>6. CASE ArmRejected \/ ArmRefusedSilently
  <2>1. ready = 0 /\ exact.state = "Idle"
    BY <1>6 DEF ArmRejected, ArmRefusedSilently, Admits, Admissible,
         CanBeginArm, LoopInv, PathInv, BooksBalance
  <2>2. exact'.epoch_id = exact.epoch_id /\ exact'.state = "Idle"
    BY <1>0, <1>6, <2>1 DEF ArmRejected, ArmRefusedSilently,
         submission_rejected, begin_arm, ExactAioTransaction
  <2> QED BY <1>0, <2>1, <2>2 DEF FreshInv, Unowned
<1> QED BY <1>2, <1>3, <1>4, <1>5, <1>6, RequestMoves

LEMMA LifecycleKeepsFresh ==
  ASSUME TransactionLimit = 0, LoopInv, ProductionInv, QueueInv, FreshInv,
         ServesSomething, IsLifecycle
  PROVE  FreshInv'
<1>0. /\ pc = "poll" /\ ~boundary.open /\ link' = link /\ ready' = ready
      /\ exact \in ExactAioTransaction /\ session.epoch_id = exact.epoch_id
      /\ gud \in ProtocolState /\ gud.activation \in Nat
      /\ boundary.epoch = 0 /\ exact.epoch_id = gud.activation
  <2>1. pc = "poll" /\ ~boundary.open /\ link' = link
    BY ServingTakesHead DEF Polling
  <2>2. ready' = ready
    BY DEF IsLifecycle, LifecycleUnbind, LifecycleIdle, LifecyclePreserves,
           LifecycleBoundary, ObservesLifecycle
  <2> QED BY <2>1, <2>2 DEF LoopInv, PathInv, PathType, LayersAgree, WellFormed,
            ProtocolState, ProductionInv, EpochsOrdered, FreshInv
<1>1. CASE LifecycleUnbind
  <2>1. ready = 0 /\ exact.state \in Unowned
    BY <1>1 DEF LifecycleUnbind, ObservesLifecycle, observe_aio_lifecycle,
         ProvenIdle, classify_usb_lifecycle, ClassifyOwned, ClassifyContained,
         Verdict, Boundaries
  <2>2. gud'.activation = gud.activation /\ UNCHANGED <<exact, boundary>>
    BY <1>0, <1>1, KeepsActivation DEF LifecycleUnbind
  <2> QED BY <1>0, <2>1, <2>2 DEF FreshInv
<1>2. ASSUME NEW e \in LifecycleEvents, LifecycleIdle(e) PROVE FreshInv'
  <2>1. ready = 0 /\ exact.state \in Unowned
    BY <1>2 DEF LifecycleIdle, ObservesLifecycle, observe_aio_lifecycle,
         ProvenIdle, classify_usb_lifecycle, ClassifyOwned, ClassifyContained,
         Verdict, Boundaries
  <2>2. /\ gud'.activation = IF e = "Enable" THEN gud.activation + 1
                                             ELSE gud.activation
        /\ boundary' = boundary
    BY <1>0, <1>2, KeepsActivation DEF LifecycleIdle
  <2>3. CASE e = "Enable"
    <3>1. exact' = begin_usb_epoch(exact, gud'.activation)
      BY <1>0, <1>2, <2>2, <2>3 DEF LifecycleIdle
    <3>2. exact'.epoch_id = gud'.activation /\ exact'.state = "Idle"
      BY <1>0, <3>1 DEF begin_usb_epoch, ExactAioTransaction
    <3> QED BY <1>0, <2>1, <2>2, <3>2 DEF FreshInv, Unowned
  <2>4. CASE e # "Enable"
    BY <1>0, <1>2, <2>1, <2>2, <2>4 DEF LifecycleIdle, FreshInv
  <2> QED BY <2>3, <2>4
<1>3. ASSUME NEW e \in LifecycleEvents, LifecyclePreserves(e) PROVE FreshInv'
  <2>1. e \in PowerEvents
    BY <1>3 DEF LifecyclePreserves, ObservesLifecycle, observe_aio_lifecycle,
         classify_usb_lifecycle, ClassifyOwned, ClassifyContained,
         ClassifyIdle, Verdict, Boundaries, PowerEvents, LifecycleEvents
  <2>2. Head(ep0) = e
    BY <1>3 DEF LifecyclePreserves, ObservesLifecycle, Receives
  <2>3. Holds(ep0, SessionEvents) => Holds(ep0', SessionEvents)
    BY <2>1, <2>2, ServingKeepsSession, SurvivorSets
  <2>4. gud'.activation = gud.activation
    BY <1>0, <1>3, <2>1, KeepsActivation DEF LifecyclePreserves, PowerEvents
  <2>5. UNCHANGED <<exact, boundary>>
    BY <1>3 DEF LifecyclePreserves
  <2> QED BY <1>0, <2>3, <2>4, <2>5, FreshKept
<1>4. ASSUME NEW e \in LifecycleEvents, LifecycleBoundary(e) PROVE FreshInv'
  <2> DEFINE g == LifecycleReset(gud, e)
  <2>1. /\ g \in ProtocolState
        /\ g.activation = IF e = "Enable" THEN gud.activation + 1
                                          ELSE gud.activation
    BY <1>0, KeepsActivation, LifecyclePreservesRecord DEF LoopInv, WellFormed
  <2>2. session.state \notin Unowned
    BY <1>4, IdleIsUnowned DEF LifecycleBoundary, ObservesLifecycle,
         observe_aio_lifecycle, classify_usb_lifecycle, ClassifyIdle, Verdict,
         ProductionInv, Unowned, UsbSessionState
  <2>3. PoisonBoth(g)
    BY <1>4, <2>2 DEF LifecycleBoundary, currently_owned
  <2>4. /\ boundary'.open
        /\ boundary'.epoch = IF e = "Enable" THEN g.activation ELSE 0
    BY <1>4 DEF LifecycleBoundary
  <2> HIDE DEF g
  <2>5. /\ gud'.activation = g.activation
        /\ exact'.epoch_id = exact.epoch_id
        /\ exact'.status_ready = exact.status_ready
    BY <2>1, <2>3, PoisonActivation, PoisonKeepsFresh
  <2> QED BY <1>0, <2>1, <2>4, <2>5 DEF FreshInv
<1> QED BY <1>1, <1>2, <1>3, <1>4 DEF IsLifecycle

LEMMA FreshStep ==
  ASSUME TransactionLimit = 0, LoopInv, ProductionInv, QueueInv, FreshInv,
         [Next]_vars
  PROVE  FreshInv'
<1> USE DEF receiveVars, kernelVars
<1>0. /\ exact \in ExactAioTransaction /\ boundary \in EpochBoundary
      /\ exact.epoch_id \in Nat /\ boundary.epoch \in Nat
  BY DEF LoopInv, PathInv, PathType, ControlType, EpochBoundary,
         ExactAioTransaction
<1>1. CASE ServesSomething
  BY <1>1, RequestsKeepFresh, LifecycleKeepsFresh
<1>2. CASE RetireEpoch
  <2>1. exact'.epoch_id = IF boundary.epoch = 0 THEN exact.epoch_id
                                                ELSE boundary.epoch
    BY <1>0, <1>2, ExactRetired DEF RetireEpoch
  <2>2. exact'.state \in Unowned
    BY <1>0, <1>2, ExactRetired DEF RetireEpoch, Unowned
  <2>3. ~boundary'.open /\ boundary'.epoch = 0 /\ ready' = 0 /\ gud' = gud
    BY <1>2 DEF RetireEpoch, NoBoundary
  <2> QED BY <2>1, <2>2, <2>3 DEF FreshInv
<1>3. CASE HarvestPayload
  <2>1. /\ exact.status_ready /\ exact.generation = gud.activation
        /\ exact.state = "InFlight"
        /\ UNCHANGED <<gud, boundary, ep0, link>>
    BY <1>3 DEF HarvestPayload, CompletionValid, CompletionMatches
  <2>2. /\ exact'.status_ready = exact.status_ready
        /\ exact'.generation = exact.generation
        /\ exact'.epoch_id = exact.epoch_id
    BY <1>0, <1>3 DEF HarvestPayload, completion_for_operation,
         ExactAioTransaction
  <2> QED BY <2>1, <2>2 DEF FreshInv, Unowned
<1>4. CASE ProcessPayload
  <2>1. exact'.epoch_id = exact.epoch_id /\ exact'.state = "Idle"
    BY <1>0, <1>4 DEF ProcessPayload, finish_processing, Released,
         ExactAioTransaction
  <2> QED BY <1>4, <2>1 DEF ProcessPayload, FreshInv, Unowned
<1>5. CASE HarvestRejected \/ MissDeadline \/ PollFails \/ ProcessFails
  <2>1. CASE UNCHANGED <<exact, gud>>
    BY <1>5, <2>1, FreshKept DEF HarvestRejected, MissDeadline, PollFails,
         ProcessFails
  <2>2. CASE PoisonBoth(gud)
    <3>1. UNCHANGED exact \/ (session.state \notin Unowned /\ pc \in {"top", "poll"})
      BY <1>5, BusyIsOwned DEF HarvestRejected, MissDeadline, PollFails,
           ProcessFails, AtHarvest, Completed, Polling, PayloadReady
    <3>2. gud'.activation = gud.activation
      BY <2>2, PoisonActivation DEF LoopInv, WellFormed
    <3>3. /\ UNCHANGED <<boundary, link, ep0>> /\ ready' \in {ready, 0}
      BY <1>5 DEF HarvestRejected, MissDeadline, PollFails, ProcessFails
    <3> QED BY <2>2, <3>1, <3>2, <3>3, PoisonKeepsFresh, OwnedLayers, FreshKept
  <2> QED BY <1>5, <2>1, <2>2 DEF HarvestRejected, MissDeadline, PollFails,
            ProcessFails
<1>6. CASE \/ RetireFails \/ DrainTimesOut \/ LeaveLoop \/ NothingToHarvest
           \/ HoldEp0 \/ PollEmpty \/ ProcessContained \/ TearDown
           \/ SuppressTeardown
  <2>1. UNCHANGED <<gud, exact, boundary, ep0, link>> /\ ready' \in {ready, 0}
    BY <1>6 DEF RetireFails, DrainTimesOut, LeaveLoop, NothingToHarvest,
         HoldEp0, PollEmpty, ProcessContained, TearDown, SuppressTeardown
  <2> QED BY <2>1, FreshKept
<1>7. CASE Environment
  <2>1. UNCHANGED <<gud, exact, boundary, ready>>
    BY <1>7 DEF Environment, UsbEnable, UsbDisable, BusSuspend, BusResume,
         CableLost, UdcUnbind, UdcBind, AioFails, AioDelivered, DeadlinePasses,
         RequestShutdown, HostPosts, HostTimesOut, HostBulk, HostAbandons,
         loopVars
  <2>2. CASE UNCHANGED <<ep0, link>>
    BY <2>1, <2>2, FreshKept
  <2>3. CASE link' \notin {"disabled", "unbound"}
    BY <2>1, <2>3 DEF FreshInv
  <2>4. ASSUME NEW e \in SessionEvents, ep0' = Enqueue(ep0, e) PROVE FreshInv'
    <3>1. e \in Events /\ Grown(ep0, e, ep0')
      BY <2>4, Announced, SurvivorSets DEF LoopInv, BusType, QueueInv
    <3>2. Holds(ep0', SessionEvents)
      BY <2>4, <3>1, AnnouncedKinds
    <3> QED BY <2>1, <3>2 DEF FreshInv
  <2> QED BY <1>7, <2>2, <2>3, <2>4, BusMoves
<1>8. CASE Ended \/ UNCHANGED vars
  BY <1>8 DEF Ended, vars, loopVars, FreshInv
<1> QED BY <1>1, <1>2, <1>3, <1>4, <1>5, <1>6, <1>7, <1>8 DEF Next, Loop

\* A payload about to be shown was announced by an acknowledged SET_BUFFER of
\* the endpoint generation that is still enabled: no interleaving of the
\* kernel's events, the completion and the loop shows a frame of a session
\* that is gone, whatever the host sends.
THEOREM PayloadsAlwaysFresh ==
  ASSUME TransactionLimit = 0 PROVE Spec => []FreshPayload
<1>1. LoopInv /\ FreshInv => FreshPayload
  <2> SUFFICES ASSUME LoopInv, FreshInv, PayloadReady
               PROVE  /\ exact.status_ready
                      /\ exact.generation = gud.activation
                      /\ exact.epoch_id = gud.activation
                      /\ link \notin {"disabled", "unbound"}
    BY DEF FreshPayload
  <2>1. ready # 0 /\ ~boundary.open /\ ep0 = <<>>
    BY DEF PayloadReady, Polling
  <2>2. exact.state \notin Unowned
    BY <2>1 DEF LoopInv, PathInv, BooksBalance, Unowned
  <2>3. ~Holds(ep0, SessionEvents)
    BY <2>1 DEF Holds
  <2> QED BY <2>1, <2>2, <2>3 DEF FreshInv
<1>2. LoopInv /\ QueueInv /\ [Next]_vars => QueueInv'
  BY QueueStep
<1>3. LoopInv /\ ProductionInv /\ QueueInv /\ FreshInv /\ [Next]_vars => FreshInv'
  BY FreshStep
<1> QED BY <1>1, <1>2, <1>3, LoopInitial, LoopStep, ProductionInitial,
          ProductionStep, QueueInitial, FreshInitial, PTL DEF Spec

(***************************************************************************)
(* A host that keeps to the protocol: it waits for every answer, asks      *)
(* GET_STATUS after every SET, and sends a payload only when told OK.      *)
(*                                                                         *)
(* Manners is about the host and the bus alone: a request under way is the *)
(* last event in the queue, a SET that was served leaves the queue empty   *)
(* until its GET_STATUS, and a host whose link is down is silent.          *)
(***************************************************************************)
Quiet == host.ctrl = "idle" /\ ~host.buffer /\ ~host.bulk

\* A SET_BUFFER has been served and its GET_STATUS has not.
Answering == host.buffer /\ host.ctrl \in {"owes", "get"}

Asks(q) ==
  /\ q # <<>> /\ q[Len(q)] \in Requests
  /\ host.ctrl = "get" => q[Len(q)] \in GetRequests
  /\ host.ctrl = "set" => /\ q[Len(q)] \notin GetRequests
                          /\ host.buffer <=> q[Len(q)] = "SET_BUFFER"

Manners ==
  /\ link \in {"disabled", "unbound", "lost"} => Quiet
  /\ link = "suspended" => host.ctrl = "idle"
  /\ host.ctrl # "gaveup"
  /\ host.buffer => host.ctrl # "idle"
  /\ ~(host.buffer /\ host.bulk)
  /\ host.ctrl = "owes" => ep0 = <<>>
  /\ host.ctrl \in {"set", "get"} => Asks(ep0)
  /\ host.ctrl = "get" /\ host.buffer => ep0 = <<"GET_STATUS">>

(***************************************************************************)
(* Promises ties the conversation to the receive path: the endpoint waits  *)
(* for a status only while the host is about to be told OK or the session  *)
(* is going down, and a host that is told OK has its payload taken, unless *)
(* its SET_BUFFER was dropped without a latched error.                     *)
(***************************************************************************)
Taken ==
  \/ aio.slot = "queued"
  \/ aio.slot # "free" /\ aio.result = "bad"
  \/ session.state = "Poisoned"

Promises ==
  /\ host.bulk => ~boundary.open /\ ~Holds(ep0, SessionEvents)
  /\ host.bulk /\ ~host.unarmed => Taken
  /\ Answering => ~boundary.open
  /\ Answering /\ gud.status = "OK" /\ ~host.unarmed => Taken
  /\ AwaitsStatus(exact) => \/ Answering /\ gud.status = "OK"
                            \/ Holds(ep0, SessionEvents)
                            \/ link = "lost"
  /\ SlotHasHarvester

PacedInv == Manners /\ Promises

LEMMA PacedInitial == LoopInit => PacedInv
<1> SUFFICES ASSUME LoopInit PROVE PacedInv
  OBVIOUS
<1>1. /\ host.ctrl = "idle" /\ ~host.buffer /\ ~host.bulk
      /\ exact.state = "Idle" /\ aio.slot = "free" /\ link = "disabled"
  BY DEF LoopInit, QuietHost, InitialExactAio, InitialAio
<1> QED BY <1>1 DEF PacedInv, Manners, Promises, Quiet, Answering, AwaitsStatus,
            SlotHasHarvester

\* A GET_STATUS that is answered.
AnswersStatus ==
  StatusContains \/ StatusEndsDiagnostic \/ StatusRejectsArm \/ StatusNoted

\* A SET_BUFFER that is dropped without a latched error.
LeavesSomethingUnarmed == SetBufferMalformed \/ ArmRefusedSilently

\* What serving does to the host.
LEMMA HostServed ==
  ASSUME LoopInv, ServesSomething, ~IsLifecycle
  PROVE  \/ /\ SuppressSetup \/ \E r \in Requests : SetupFails(r)
            /\ host'.ctrl = "idle" /\ ~host'.buffer /\ host'.bulk = host.bulk
            /\ host'.unarmed = host.unarmed
         \/ /\ AnswersStatus
            /\ host'.ctrl = "idle" /\ ~host'.buffer
            /\ host'.bulk = (host.bulk \/ (host.buffer /\ gud.status = "OK"))
         \/ \E r \in Requests \ {"GET_STATUS"} :
              /\ Serves(r) \/ (r = "SET_BUFFER" /\ LeavesSomethingUnarmed)
              /\ host'.buffer = host.buffer /\ host'.bulk = host.bulk
              /\ host'.ctrl = IF r \in GetRequests THEN "idle" ELSE "owes"
<1>0. host \in Host
  BY DEF LoopInv, BusType
<1>1. CASE SuppressSetup \/ \E r \in Requests : SetupFails(r)
  <2>1. host' = [host EXCEPT !.ctrl = "idle", !.buffer = FALSE]
    BY <1>1 DEF SuppressSetup, SetupFails
  <2> QED BY <1>0, <1>1, <2>1 DEF Host
<1>2. CASE AnswersStatus
  <2> DEFINE b == host.bulk \/ (host.buffer /\ gud.status = "OK")
  <2>1. host' = [host EXCEPT !.ctrl = "idle", !.buffer = FALSE, !.bulk = b]
    BY <1>2 DEF AnswersStatus, StatusContains, StatusEndsDiagnostic,
         StatusRejectsArm, StatusNoted, ServesStatus
  <2> HIDE DEF b
  <2>2. host'.ctrl = "idle" /\ ~host'.buffer /\ host'.bulk = b
    BY <1>0, <2>1 DEF Host
  <2> QED BY <1>2, <2>2 DEF b
<1>3. ASSUME NEW r \in Requests \ {"GET_STATUS"}, Serves(r)
      PROVE  /\ host'.buffer = host.buffer /\ host'.bulk = host.bulk
             /\ host'.ctrl = IF r \in GetRequests THEN "idle" ELSE "owes"
  <2>1. host' = [host EXCEPT !.ctrl = IF r \in GetRequests THEN "idle" ELSE "owes"]
    BY <1>3 DEF Serves
  <2> QED BY <1>0, <2>1 DEF Host
<1>4. \/ SuppressSetup \/ \E r \in Requests : SetupFails(r)
      \/ AnswersStatus
      \/ \E r \in Requests \ {"GET_STATUS"} : Serves(r)
      \/ LeavesSomethingUnarmed
  BY DEF ServesSomething, IsLifecycle, ServeInformation, ServeConnectorStatus,
       ServeUnsupported, ServeStateCheck, ServeStateCommit,
       ServeControllerEnable, ServeDisplayEnable, AnswersStatus,
       SetBufferBusy, SetBufferRejected, ArmAccepted, ArmRejected, Admits,
       StateCheckInvalidates, StateCommitInvalidates, ServesControl, Requests,
       LeavesSomethingUnarmed
<1>5. CASE LeavesSomethingUnarmed
  <2>1. host' = [host EXCEPT !.ctrl = "owes", !.unarmed = TRUE]
    BY <1>5 DEF LeavesSomethingUnarmed, SetBufferMalformed, ArmRefusedSilently,
         LeavesUnarmed
  <2>2. /\ "SET_BUFFER" \in Requests \ {"GET_STATUS"}
        /\ "SET_BUFFER" \notin GetRequests
    BY DEF Requests, GetRequests
  <2> QED BY <1>0, <1>5, <2>1, <2>2 DEF Host
<1> QED BY <1>1, <1>2, <1>3, <1>4, <1>5

\* A request that is served is all there is in the queue: the host that waits
\* for its answer sent nothing after it, and the kernel would have dropped it
\* for a session event.
LEMMA ServedAlone ==
  ASSUME LoopInv, QueueInv, Manners, ServesSomething,
         NEW r \in Requests, Head(ep0) = r, host.ctrl \in {"set", "get"}
  PROVE  /\ ep0' = <<>> /\ ~Holds(ep0, SessionEvents)
         /\ link = "enabled"
         /\ r # "GET_STATUS" => ~Answering
         /\ r \in GetRequests => host.ctrl = "get"
         /\ r \notin GetRequests =>
              host.ctrl = "set" /\ (host.buffer <=> r = "SET_BUFFER")
<1>1. Shrunk(ep0, ep0') /\ ep0 \in Seq(Events) /\ ep0 # <<>>
  BY ServingKeepsSession, ServingTakesHead DEF LoopInv, BusType
<1>2. Asks(ep0)
  BY DEF Manners
<1>3. ep0' = <<>> /\ Len(ep0) = 1 /\ ep0[Len(ep0)] = r
  BY <1>1, <1>2 DEF Shrunk, Asks
<1>4. ~Holds(ep0, SessionEvents)
  <2>1. DOMAIN ep0 = {1} /\ ep0[1] = r
    BY <1>1, <1>3
  <2> QED BY <2>1, SurvivorSets DEF Holds
<1>5. link = "enabled"
  BY DEF Manners, Quiet, LoopInv, BusType
<1>6. ASSUME r # "GET_STATUS" PROVE ~Answering
  <2> SUFFICES ASSUME Answering PROVE FALSE
    OBVIOUS
  <2>1. ep0 = <<"GET_STATUS">>
    BY DEF Manners, Answering
  <2> QED BY <1>6, <2>1
<1> QED BY <1>2, <1>3, <1>4, <1>5, <1>6 DEF Asks

LEMMA ServingKeepsManners ==
  ASSUME LoopInv, QueueInv, Manners, ServesSomething
  PROVE  Manners'
<1>0. /\ link' = link /\ ep0 \in Seq(Events) /\ ep0 # <<>>
      /\ Shrunk(ep0, ep0')
  BY ServingTakesHead, ServingKeepsSession DEF LoopInv, BusType
<1>1. CASE IsLifecycle
  <2>1. host' = host /\ Head(ep0) \in LifecycleEvents
    BY <1>1 DEF IsLifecycle, LifecycleUnbind, LifecycleIdle, LifecyclePreserves,
         LifecycleBoundary, ObservesLifecycle, Receives, LifecycleEvents
  <2>2. Head(ep0) \notin Requests
    BY <2>1 DEF LifecycleEvents, Requests
  <2>3. host.ctrl # "owes"
    BY <1>0 DEF Manners
  <2>4. ~(host.ctrl = "get" /\ host.buffer)
    <3>1. ep0 = <<"GET_STATUS">> => Head(ep0) \in Requests
      BY DEF Requests
    <3> QED BY <2>2, <3>1 DEF Manners
  <2>5. ASSUME host.ctrl \in {"set", "get"} PROVE Asks(ep0)'
    <3>1. Asks(ep0)
      BY <2>5 DEF Manners
    <3>2. ep0' # <<>> /\ ep0'[Len(ep0')] = ep0[Len(ep0)]
      BY <1>0, <2>2, <3>1 DEF Asks, Shrunk
    <3> QED BY <2>1, <3>1, <3>2 DEF Asks
  <2>6. Quiet' <=> Quiet
    BY <2>1 DEF Quiet
  <2> QED BY <1>0, <2>1, <2>3, <2>4, <2>5, <2>6 DEF Manners
<1>2. CASE host'.ctrl = "idle" /\ ~host'.buffer
  <2>1. ~IsLifecycle => host'.bulk = host.bulk \/ link = "enabled"
    <3>1. ASSUME AnswersStatus PROVE link = "enabled"
      <4>1. host.ctrl \in {"set", "get"}
        BY <3>1 DEF AnswersStatus, StatusContains, StatusEndsDiagnostic,
             StatusRejectsArm, StatusNoted, ServesStatus
      <4> QED BY <4>1 DEF Manners, Quiet, LoopInv, BusType
    <3> QED BY <3>1, HostServed
  <2>2. ~IsLifecycle /\ Quiet => Quiet' \/ link = "enabled"
    BY <1>2, <2>1 DEF Quiet
  <2>3. CASE ~IsLifecycle
    BY <1>0, <1>2, <2>2, <2>3 DEF Manners
  <2> QED BY <1>1, <2>3
<1>3. ASSUME NEW r \in Requests \ {"GET_STATUS"},
             Serves(r) \/ (r = "SET_BUFFER" /\ LeavesSomethingUnarmed),
             host'.buffer = host.buffer, host'.bulk = host.bulk,
             host'.ctrl = IF r \in GetRequests THEN "idle" ELSE "owes"
      PROVE  Manners'
  <2>1. Head(ep0) = r /\ host.ctrl \in {"set", "get"}
    BY <1>3 DEF Serves, Receives, LeavesSomethingUnarmed, SetBufferMalformed,
         ArmRefusedSilently, LeavesUnarmed
  <2>2. /\ ep0' = <<>> /\ link = "enabled" /\ ~Answering
        /\ r \in GetRequests => host.ctrl = "get"
    BY <2>1, ServedAlone
  <2>3. r \in GetRequests => ~host.buffer
    BY <2>2 DEF Answering
  <2> QED BY <1>0, <1>3, <2>2, <2>3 DEF Manners
<1> QED BY <1>1, <1>2, <1>3, HostServed

(***************************************************************************)
(* What serving does to the promises.                                      *)
(***************************************************************************)
\* Both layers are contained, and nothing new is promised.
LEMMA PoisonKeepsPromises ==
  ASSUME LoopInv, Promises, NEW g, PoisonBoth(g),
         host'.bulk => host.bulk, Answering' => Answering,
         boundary' = boundary, pc \in {"top", "poll"}, pc' \in {"top", "poll"},
         Holds(ep0, SessionEvents)' => Holds(ep0, SessionEvents),
         aio'.slot # "free" => aio.slot # "free" /\ pending' = pending
  PROVE  Promises'
<1>1. exact'.state = "Poisoned" /\ session'.state = "Poisoned"
  BY PoisonKeepsFresh DEF LoopInv, PathInv, PathType, PoisonBoth, EnterState,
     BulkReceiveSession
<1>2. ~AwaitsStatus(exact)' /\ Taken'
  BY <1>1 DEF AwaitsStatus, Taken
<1>3. SlotHasHarvester'
  BY DEF Promises, SlotHasHarvester, Running, LoopEnds
<1> QED BY <1>2, <1>3 DEF Promises

\* The path stays as it is, and nothing new is promised.
LEMMA StillKeepsPromises ==
  ASSUME Promises, UNCHANGED <<session, aio, boundary, pending>>,
         Running, ~AwaitsStatus(exact)',
         host'.bulk => host.bulk, host'.unarmed = host.unarmed,
         Answering' => Answering /\ gud' = gud,
         Holds(ep0, SessionEvents)' => Holds(ep0, SessionEvents)
  PROVE  Promises'
BY DEF Promises, Taken, SlotHasHarvester

LEMMA StatusKeepsPromises ==
  ASSUME TransactionLimit = 0, LoopInv, ProductionInv, QueueInv, PacedInv,
         ServesSomething, AnswersStatus
  PROVE  Promises'
<1>0. /\ Head(ep0) = "GET_STATUS" /\ host.ctrl = "get" /\ Polling
      /\ UNCHANGED <<boundary, aio, link>>
  BY DEF AnswersStatus, StatusContains, StatusEndsDiagnostic,
       StatusRejectsArm, StatusNoted, ServesStatus, Receives
<1>1. /\ ep0' = <<>> /\ ~Holds(ep0, SessionEvents) /\ link = "enabled"
  BY <1>0, ServedAlone DEF PacedInv, Requests
<1>2. /\ host'.ctrl = "idle" /\ ~host'.buffer
      /\ host'.bulk = (host.bulk \/ (host.buffer /\ gud.status = "OK"))
      /\ host'.unarmed = host.unarmed
  <2> DEFINE b == host.bulk \/ (host.buffer /\ gud.status = "OK")
  <2>1. host' = [host EXCEPT !.ctrl = "idle", !.buffer = FALSE, !.bulk = b]
    BY DEF AnswersStatus, StatusContains, StatusEndsDiagnostic,
         StatusRejectsArm, StatusNoted, ServesStatus
  <2> HIDE DEF b
  <2>2. /\ host'.ctrl = "idle" /\ ~host'.buffer /\ host'.bulk = b
        /\ host'.unarmed = host.unarmed
    BY <2>1 DEF Host, LoopInv, BusType
  <2> QED BY <2>2 DEF b
<1>3. AwaitsStatus(exact) => gud.status = "OK"
  BY <1>0, <1>1 DEF PacedInv, Promises
<1>4. StatusNoted
  BY <1>3 DEF AnswersStatus, StatusContains, StatusEndsDiagnostic,
     StatusRejectsArm, StatusOutOfTurn, ProductionInv
<1>5. UNCHANGED <<session, pending>> /\ Running
  BY <1>0, <1>4 DEF StatusNoted, Polling, Running, LoopEnds
<1>6. ~AwaitsStatus(exact)'
  <2>1. exact' = status_sent(exact) /\ exact \in ExactAioTransaction
    BY <1>4 DEF StatusNoted, LoopInv, PathInv, PathType
  <2> QED BY <2>1 DEF status_sent, AwaitsStatus, ExactAioTransaction
<1>7. Taken' <=> Taken
  BY <1>0, <1>5 DEF Taken
<1>8. host'.bulk /\ ~host'.unarmed => Taken
  BY <1>0, <1>2 DEF PacedInv, Promises, Answering
<1>9. ~Holds(ep0, SessionEvents)' /\ ~Answering'
  BY <1>1, <1>2 DEF Holds, Answering
<1> QED BY <1>0, <1>5, <1>6, <1>7, <1>8, <1>9
        DEF PacedInv, Promises, Polling, SlotHasHarvester

\* A request other than GET_STATUS is served only while the endpoint waits for
\* no status, and only a SET_BUFFER leaves a host to be answered.
LEMMA ServedQuietly ==
  ASSUME LoopInv, QueueInv, PacedInv, ServesSomething,
         NEW r \in Requests \ {"GET_STATUS"}, Serves(r)
  PROVE  /\ ~AwaitsStatus(exact) /\ ~Answering
         /\ host'.bulk = host.bulk /\ host'.unarmed = host.unarmed
         /\ Answering' <=> r = "SET_BUFFER"
         /\ ~Holds(ep0, SessionEvents)'
<1>0. host \in Host
  BY DEF LoopInv, BusType
<1>1. /\ ep0' = <<>> /\ ~Holds(ep0, SessionEvents) /\ link = "enabled"
      /\ ~Answering
      /\ r \notin GetRequests => (host.buffer <=> r = "SET_BUFFER")
  BY ServedAlone DEF PacedInv, Serves, Receives
<1>2. ~AwaitsStatus(exact)
  BY <1>1 DEF PacedInv, Promises
<1>3. /\ host'.buffer = host.buffer /\ host'.bulk = host.bulk
      /\ host'.unarmed = host.unarmed
      /\ host'.ctrl = IF r \in GetRequests THEN "idle" ELSE "owes"
  <2>1. host' = [host EXCEPT !.ctrl = IF r \in GetRequests THEN "idle" ELSE "owes"]
    BY DEF Serves
  <2> QED BY <1>0, <2>1 DEF Host
<1>4. Answering' <=> r = "SET_BUFFER"
  <2>1. "SET_BUFFER" \notin GetRequests
    BY DEF GetRequests
  <2> QED BY <1>1, <1>3, <2>1 DEF Answering
<1>5. ~Holds(ep0, SessionEvents)'
  BY <1>1 DEF Holds
<1> QED BY <1>1, <1>2, <1>3, <1>4, <1>5

LEMMA LatchedStatus ==
  ASSUME NEW g, WellFormed(g), NEW s
  PROVE  /\ latch_status(g, s).status = s
         /\ mark_success(g).status = "OK"
BY DEF WellFormed, ProtocolState, latch_status, mark_success

LEMMA RequestsKeepPromises ==
  ASSUME TransactionLimit = 0, LoopInv, ProductionInv, QueueInv, PacedInv,
         ServesSomething, ~IsLifecycle
  PROVE  Promises'
<1>0. /\ Polling /\ pc = "poll" /\ Running /\ ~boundary.open
      /\ exact \in ExactAioTransaction /\ session \in BulkReceiveSession
      /\ session.state # "ShuttingDown"
      /\ Holds(ep0, SessionEvents)' => Holds(ep0, SessionEvents)
  BY ServingTakesHead, ServingKeepsSession DEF Polling, Running, LoopEnds,
     LoopInv, PathInv, PathType, PathFacts
<1> USE DEF PacedInv
<1>1. CASE SuppressSetup
  <2>1. ~AwaitsStatus(exact)
    BY <1>1 DEF SuppressSetup, AwaitsStatus, LoopInv, PathInv, LayersAgree
  <2>2. host'.bulk = host.bulk /\ ~host'.buffer /\ host'.unarmed = host.unarmed
    BY <1>1 DEF SuppressSetup, LoopInv, BusType, Host
  <2>3. UNCHANGED <<gud, exact, session, aio, boundary, pending>>
    BY <1>1 DEF SuppressSetup, receiveVars
  <2>4. ~AwaitsStatus(exact)'
    BY <2>1, <2>3
  <2> QED BY <1>0, <2>2, <2>3, <2>4, StillKeepsPromises DEF Answering
<1>2. ASSUME NEW r \in Requests, SetupFails(r) PROVE Promises'
  <2>1. host'.bulk = host.bulk /\ ~host'.buffer /\ host'.unarmed = host.unarmed
    BY <1>2 DEF SetupFails, LoopInv, BusType, Host
  <2>2. UNCHANGED <<aio, boundary, pending>> /\ pc' = "top"
    BY <1>2 DEF SetupFails
  <2>3. ASSUME NEW g, PoisonBoth(g) PROVE Promises'
    BY <1>0, <2>1, <2>2, <2>3, PoisonKeepsPromises DEF Answering
  <2>4. CASE pending = 0
    <3>1. UNCHANGED <<exact, session>>
      BY <1>2, <2>4 DEF SetupFails
    <3>2. ~AwaitsStatus(exact)
      BY <1>0, <2>4 DEF AwaitsStatus, LoopInv, PathInv, BooksBalance
    <3>3. ~AwaitsStatus(exact)'
      BY <3>1, <3>2
    <3> QED BY <1>0, <2>1, <2>2, <3>1, <3>3, StillKeepsPromises DEF Answering
  <2> QED BY <1>2, <2>3, <2>4 DEF SetupFails
<1>3. CASE AnswersStatus
  BY <1>3, StatusKeepsPromises
<1>4. CASE ServeInformation \/ ServeConnectorStatus \/ ServeUnsupported
           \/ ServeStateCheck \/ ServeStateCommit \/ ServeControllerEnable
           \/ ServeDisplayEnable
  <2>1. PICK r \in Requests \ {"GET_STATUS", "SET_BUFFER"} : ServesControl(r)
    BY <1>4 DEF ServeInformation, ServeConnectorStatus, ServeUnsupported,
         ServeStateCheck, ServeStateCommit, ServeControllerEnable,
         ServeDisplayEnable, Requests
  <2>2. Serves(r) /\ UNCHANGED <<exact, session, aio, boundary, pending>>
    BY <2>1 DEF ServesControl, receiveVars
  <2>3. /\ ~AwaitsStatus(exact) /\ host'.bulk = host.bulk /\ ~Answering'
        /\ host'.unarmed = host.unarmed
    BY <2>1, <2>2, ServedQuietly
  <2>4. ~AwaitsStatus(exact)'
    BY <2>2, <2>3
  <2> QED BY <1>0, <2>2, <2>3, <2>4, StillKeepsPromises
<1>5. CASE SetBufferBusy \/ SetBufferRejected \/ ArmRejected
  <2>1. /\ Serves("SET_BUFFER") /\ UNCHANGED <<session, aio, boundary, pending>>
    BY <1>5 DEF SetBufferBusy, SetBufferRejected, ArmRejected, Admits,
         ServesControl, receiveVars
  <2>2. "SET_BUFFER" \in Requests \ {"GET_STATUS"}
    BY DEF Requests
  <2>3. /\ ~AwaitsStatus(exact) /\ host'.bulk = host.bulk
        /\ host'.unarmed = host.unarmed
        /\ ~Holds(ep0, SessionEvents)'
    BY <2>1, <2>2, ServedQuietly
  <2>4. gud'.status # "OK"
    <3>1. \E s \in {"BUSY", "INVALID_PARAMETER", "ERROR"} : gud' = latch_status(gud, s)
      BY <1>5 DEF SetBufferBusy, SetBufferRejected, SetBufferInvalid,
           ArmRejected
    <3> QED BY <3>1, LatchedStatus DEF LoopInv
  <2>5. ~AwaitsStatus(exact)'
    <3>1. CASE ArmRejected
      BY <1>0, <3>1 DEF ArmRejected, submission_rejected, begin_arm,
           AwaitsStatus, ExactAioTransaction
    <3>2. CASE SetBufferBusy \/ SetBufferRejected
      <4>1. exact' = exact
        BY <3>2 DEF SetBufferBusy, SetBufferRejected, ServesControl, receiveVars
      <4> QED BY <2>3, <4>1
    <3> QED BY <1>5, <3>1, <3>2
  <2>6. Taken' <=> Taken
    BY <2>1 DEF Taken
  <2> QED BY <1>0, <2>1, <2>3, <2>4, <2>5, <2>6
          DEF Promises, SlotHasHarvester
<1>6. CASE ArmAccepted
  <2>1. /\ Serves("SET_BUFFER") /\ boundary' = boundary
        /\ aio' = Submit(aio) /\ gud' = mark_success(gud)
        /\ pending' = exact'.sequence
    BY <1>6 DEF ArmAccepted, Admits
  <2>2. "SET_BUFFER" \in Requests \ {"GET_STATUS"}
    BY DEF Requests
  <2>3. Answering' /\ ~Holds(ep0, SessionEvents)'
    BY <2>1, <2>2, ServedQuietly
  <2>4. gud'.status = "OK" /\ aio'.slot = "queued"
    BY <2>1, LatchedStatus DEF LoopInv, Submit
  <2>5. pending' # 0
    <3>1. exact'.sequence = exact.sequence + 1 /\ exact.sequence \in Nat
      BY <1>0, <1>6 DEF ArmAccepted, Armed, submission_accepted_operation,
           begin_arm, ExactAioTransaction
    <3> QED BY <2>1, <3>1
  <2> QED BY <1>0, <2>1, <2>3, <2>4, <2>5 DEF Promises, Taken, SlotHasHarvester
<1>7. CASE StateCheckInvalidates \/ StateCommitInvalidates
  <2>1. PICK r, g : /\ r \in {"SET_STATE_CHECK", "SET_STATE_COMMIT"}
                    /\ Serves(r) /\ Invalidates(g)
    BY <1>7 DEF StateCheckInvalidates, StateCommitInvalidates
  <2>2. r \in Requests \ {"GET_STATUS", "SET_BUFFER"}
    BY <2>1 DEF Requests
  <2>3. /\ ~AwaitsStatus(exact) /\ host'.bulk = host.bulk /\ ~Answering'
        /\ host'.unarmed = host.unarmed
    BY <2>1, <2>2, ServedQuietly
  <2>4. UNCHANGED <<aio, boundary, pending>> /\ pc' = "top"
    BY <2>1 DEF Invalidates
  <2>5. CASE PoisonBoth(g)
    BY <1>0, <2>3, <2>4, <2>5, PoisonKeepsPromises
  <2>6. CASE UNCHANGED <<exact, session>>
    <3>1. ~AwaitsStatus(exact)'
      BY <2>3, <2>6
    <3> QED BY <1>0, <2>3, <2>4, <2>6, <3>1, StillKeepsPromises
  <2> QED BY <2>1, <2>5, <2>6 DEF Invalidates
<1>8. CASE LeavesSomethingUnarmed
  <2>1. /\ UNCHANGED <<session, aio, boundary, pending>>
        /\ host'.bulk = host.bulk /\ host'.unarmed
    <3>1. /\ host' = [host EXCEPT !.ctrl = "owes", !.unarmed = TRUE]
          /\ UNCHANGED <<session, aio, boundary, pending>>
      BY <1>8 DEF LeavesSomethingUnarmed, SetBufferMalformed,
           ArmRefusedSilently, LeavesUnarmed
    <3> QED BY <3>1 DEF Host, LoopInv, BusType
  <2>2. ~AwaitsStatus(exact)'
    <3>1. exact.state # "InFlight"
      BY <1>0, <1>8 DEF LeavesSomethingUnarmed, SetBufferMalformed,
           ArmRefusedSilently, Admissible, LoopInv, PathInv, BooksBalance
    <3>2. exact'.state # "InFlight"
      BY <1>0, <1>8, <3>1 DEF LeavesSomethingUnarmed, SetBufferMalformed,
           ArmRefusedSilently, submission_rejected, begin_arm,
           ExactAioTransaction
    <3> QED BY <3>2 DEF AwaitsStatus
  <2> QED BY <1>0, <2>1, <2>2 DEF Promises, SlotHasHarvester
<1> QED BY <1>1, <1>2, <1>3, <1>4, <1>5, <1>6, <1>7, <1>8
        DEF ServesSomething, IsLifecycle, AnswersStatus, LeavesSomethingUnarmed

LEMMA LifecycleKeepsPromises ==
  ASSUME TransactionLimit = 0, LoopInv, ProductionInv, QueueInv, PacedInv,
         ServesSomething, IsLifecycle
  PROVE  Promises'
<1>0. /\ pc = "poll" /\ Running /\ ~boundary.open /\ link' = link
      /\ ep0 # <<>> /\ ep0 \in Seq(Events)
      /\ exact \in ExactAioTransaction /\ session \in BulkReceiveSession
      /\ Holds(ep0, SessionEvents)' => Holds(ep0, SessionEvents)
  BY ServingTakesHead, ServingKeepsSession DEF Polling, Running, LoopEnds,
     LoopInv, PathInv, PathType, BusType
<1> USE DEF PacedInv
<1>1. /\ host' = host /\ UNCHANGED <<aio, pending>>
      /\ Head(ep0) \in LifecycleEvents
  BY DEF IsLifecycle, LifecycleUnbind, LifecycleIdle, LifecyclePreserves,
         LifecycleBoundary, ObservesLifecycle, Receives, LifecycleEvents
<1>2. ~Answering /\ ~Answering'
  <2>1. host.ctrl # "owes"
    BY <1>0 DEF Manners
  <2>2. ep0 = <<"GET_STATUS">> => Head(ep0) \notin LifecycleEvents
    BY DEF LifecycleEvents
  <2> QED BY <1>1, <2>1, <2>2 DEF Manners, Answering
<1>3. CASE LifecycleUnbind \/ \E e \in LifecycleEvents : LifecycleIdle(e)
  <2>1. session.state \in Unowned /\ exact.state \in Unowned /\ boundary' = boundary
    BY <1>3 DEF LifecycleUnbind, LifecycleIdle, ObservesLifecycle,
         observe_aio_lifecycle, ProvenIdle, classify_usb_lifecycle,
         ClassifyOwned, ClassifyContained, Verdict, Boundaries
  <2>2. exact'.state \in Unowned
    BY <1>0, <1>3, <2>1 DEF LifecycleUnbind, LifecycleIdle, begin_usb_epoch,
         ExactAioTransaction, Unowned
  <2>3. ~AwaitsStatus(exact)'
    BY <2>2 DEF AwaitsStatus, Unowned
  <2>4. Taken => Taken'
    BY <1>1, <2>1 DEF Taken, Unowned
  <2> QED BY <1>0, <1>1, <1>2, <2>1, <2>3, <2>4 DEF Promises, SlotHasHarvester
<1>4. ASSUME NEW e \in LifecycleEvents, LifecyclePreserves(e) PROVE Promises'
  <2>1. e \in PowerEvents
    BY <1>4 DEF LifecyclePreserves, ObservesLifecycle, observe_aio_lifecycle,
         classify_usb_lifecycle, ClassifyOwned, ClassifyContained,
         ClassifyIdle, Verdict, Boundaries, PowerEvents, LifecycleEvents
  <2>2. Holds(ep0, SessionEvents) => Holds(ep0, SessionEvents)'
    <3>1. Head(ep0) = e
      BY <1>4 DEF LifecyclePreserves, ObservesLifecycle, Receives
    <3> QED BY <2>1, <3>1, ServingKeepsSession, SurvivorSets
  <2>3. UNCHANGED <<exact, session, boundary>>
    BY <1>4 DEF LifecyclePreserves
  <2>4. Taken' <=> Taken
    BY <1>1, <2>3 DEF Taken
  <2>5. AwaitsStatus(exact)' <=> AwaitsStatus(exact)
    BY <2>3
  <2> QED BY <1>0, <1>1, <1>2, <2>2, <2>3, <2>4, <2>5
          DEF Promises, SlotHasHarvester
<1>5. ASSUME NEW e \in LifecycleEvents, LifecycleBoundary(e) PROVE Promises'
  <2>1. e \in SessionEvents /\ Head(ep0) = e
    BY <1>5 DEF LifecycleBoundary, ObservesLifecycle, observe_aio_lifecycle,
         classify_usb_lifecycle, ClassifyOwned, ClassifyContained,
         ClassifyIdle, Verdict, Boundaries, SessionEvents, LifecycleEvents,
         Receives
  <2>2. Holds(ep0, SessionEvents)
    <3>1. 1 \in DOMAIN ep0 /\ ep0[1] = e
      BY <1>0, <2>1
    <3> QED BY <2>1, <3>1 DEF Holds
  <2>3. ~host.bulk
    BY <2>2 DEF Promises
  <2>4. session.state \notin Unowned
    BY <1>5, IdleIsUnowned DEF LifecycleBoundary, ObservesLifecycle,
         observe_aio_lifecycle, classify_usb_lifecycle, ClassifyIdle, Verdict,
         ProductionInv, Unowned, UsbSessionState
  <2>5. PICK g : PoisonBoth(g)
    BY <1>5, <2>4 DEF LifecycleBoundary, currently_owned
  <2>6. exact'.state = "Poisoned" /\ pc' = "top"
    BY <1>5, <2>5, PoisonKeepsFresh DEF LifecycleBoundary
  <2>7. ~AwaitsStatus(exact)'
    BY <2>6 DEF AwaitsStatus
  <2> QED BY <1>0, <1>1, <1>2, <2>3, <2>6, <2>7 DEF Promises, SlotHasHarvester
<1> QED BY <1>3, <1>4, <1>5 DEF IsLifecycle

\* The steps of the loop that take no event.
LEMMA OthersKeepPromises ==
  ASSUME TransactionLimit = 0, LoopInv, ProductionInv, PacedInv,
         Loop, ~ServesSomething
  PROVE  Promises'
<1>0. /\ exact \in ExactAioTransaction /\ session \in BulkReceiveSession
      /\ aio \in AioSlot
      /\ UNCHANGED <<ep0, link, host>>
      /\ (Answering' <=> Answering)
      /\ (Holds(ep0, SessionEvents)' <=> Holds(ep0, SessionEvents))
  BY OthersKeepBus DEF LoopInv, PathInv, PathType, Answering, Holds
<1> USE DEF PacedInv, receiveVars, kernelVars
<1>1. CASE RetireEpoch
  <2>1. boundary.open /\ ~boundary'.open /\ UNCHANGED <<pending, aio, pc>>
    BY <1>1 DEF RetireEpoch, RetireReady, NoBoundary
  <2>2. exact'.state \in Unowned
    BY <1>0, <1>1, ExactRetired DEF RetireEpoch, Unowned, LoopInv, ControlType,
         EpochBoundary
  <2>3. ~AwaitsStatus(exact)'
    BY <2>2 DEF AwaitsStatus, Unowned
  <2> QED BY <1>0, <2>1, <2>3 DEF Promises, SlotHasHarvester, Running
<1>2. CASE HarvestPayload
  <2>1. /\ ~Taken /\ UNCHANGED <<gud, boundary>>
    BY <1>2 DEF HarvestPayload, Completed, CompletionValid, CompletionMatches,
         Taken
  <2>2. exact'.state = "Processing" /\ aio'.slot = "free"
    BY <1>0, <1>2 DEF HarvestPayload, completion_for_operation, Harvest,
         ExactAioTransaction, AioSlot
  <2>3. ~AwaitsStatus(exact)'
    BY <2>2 DEF AwaitsStatus
  <2> QED BY <1>0, <2>1, <2>2, <2>3 DEF Promises, SlotHasHarvester
<1>3. CASE HarvestRejected
  <2>1. /\ aio'.slot = "free" /\ PoisonBoth(gud) /\ boundary' = boundary
        /\ pc = "top" /\ pc' = "top"
    BY <1>0, <1>3 DEF HarvestRejected, Harvest, AioSlot, AtHarvest
  <2> QED BY <1>0, <2>1, PoisonKeepsPromises
<1>4. CASE MissDeadline \/ PollFails \/ ProcessFails
  <2>1. /\ UNCHANGED <<aio, pending, boundary>> /\ pc \in {"top", "poll"}
        /\ pc' \in {"top", "poll"}
    BY <1>4 DEF MissDeadline, PollFails, ProcessFails, AtHarvest, Polling,
         PayloadReady
  <2>2. CASE PoisonBoth(gud)
    BY <1>0, <2>1, <2>2, PoisonKeepsPromises
  <2>3. CASE UNCHANGED <<gud, exact, session>>
    <3>1. (Taken' <=> Taken) /\ (AwaitsStatus(exact)' <=> AwaitsStatus(exact))
      BY <2>1, <2>3 DEF Taken, AwaitsStatus
    <3> QED BY <1>0, <2>1, <2>3, <3>1
            DEF Promises, SlotHasHarvester, Running, LoopEnds
  <2> QED BY <1>4, <2>2, <2>3 DEF MissDeadline, PollFails, ProcessFails
<1>5. CASE ProcessPayload
  <2>1. /\ UNCHANGED <<gud, aio, pending, boundary>> /\ pc = "poll"
        /\ ready # 0 /\ session.state = "Processing"
    BY <1>5 DEF ProcessPayload, PayloadReady, Polling, CanFinish
  <2>2. aio.slot = "free" /\ ~Taken
    BY <2>1 DEF LoopInv, PathInv, BooksBalance, Taken
  <2>3. exact'.state = "Idle"
    BY <1>0, <1>5 DEF ProcessPayload, finish_processing, Released,
         ExactAioTransaction
  <2>4. ~AwaitsStatus(exact)'
    BY <2>3 DEF AwaitsStatus
  <2> QED BY <1>0, <2>1, <2>2, <2>4 DEF Promises, SlotHasHarvester
<1>6. CASE \/ RetireFails \/ DrainTimesOut \/ LeaveLoop \/ NothingToHarvest
           \/ HoldEp0 \/ PollEmpty \/ ProcessContained \/ TearDown
           \/ SuppressTeardown
  <2>1. UNCHANGED <<gud, exact, boundary, aio, pending>> /\ Running
    BY <1>6 DEF RetireFails, DrainTimesOut, LeaveLoop, NothingToHarvest,
         HoldEp0, PollEmpty, ProcessContained, TearDown, SuppressTeardown,
         AtHarvest, Polling, PayloadReady, Running, LoopEnds
  <2>2. session' = session \/ session.state # "Poisoned"
    BY <1>6 DEF RetireFails, DrainTimesOut, LeaveLoop, NothingToHarvest,
         HoldEp0, PollEmpty, ProcessContained, TearDown, SuppressTeardown,
         ProvenIdle, Unowned
  <2>3. (Taken => Taken') /\ (AwaitsStatus(exact)' <=> AwaitsStatus(exact))
    BY <2>1, <2>2 DEF Taken, AwaitsStatus
  <2> QED BY <1>0, <2>1, <2>3 DEF Promises, SlotHasHarvester
<1> QED BY <1>1, <1>2, <1>3, <1>4, <1>5, <1>6 DEF Loop

(***************************************************************************)
(* The bus, the kernel and the host.                                       *)
(***************************************************************************)
\* What a host's request does to its conversation.
LEMMA HostAsks ==
  ASSUME HostKind = "paced", LoopInv, QueueInv, Manners,
         NEW r \in Requests, HostPosts(r)
  PROVE  /\ Manners' /\ host'.bulk = host.bulk
         /\ host'.bulk \/ Answering => host'.unarmed = host.unarmed
         /\ (Holds(ep0, SessionEvents)' <=> Holds(ep0, SessionEvents))
         /\ (Answering' <=> Answering)
<1>0. /\ host \in Host /\ ep0 \in Seq(Events) /\ link = "enabled" /\ link' = link
      /\ host.ctrl \in {"idle", "owes"}
      /\ host.ctrl = "owes" => r = "GET_STATUS"
      /\ r = "SET_BUFFER" => ~host.bulk
  BY DEF HostPosts, Disciplined, Manners, LoopInv, BusType
<1>1. r \in Events /\ Grown(ep0, r, ep0')
  BY <1>0, Announced, SurvivorSets DEF HostPosts, Announces, QueueInv
<1>2. Holds(ep0, SessionEvents)' <=> Holds(ep0, SessionEvents)
  BY <1>1, AnnouncedKinds, SurvivorSets
<1>3. /\ host'.ctrl = IF r \in GetRequests THEN "get" ELSE "set"
      /\ host'.buffer = (r = "SET_BUFFER" \/ (r = "GET_STATUS" /\ host.buffer))
      /\ host'.bulk = host.bulk
      /\ host'.unarmed = (host.unarmed /\ r # "SET_BUFFER")
  <2> DEFINE b == r = "SET_BUFFER" \/ (r = "GET_STATUS" /\ host.buffer)
             c == IF r \in GetRequests THEN "get" ELSE "set"
             u == host.unarmed /\ r # "SET_BUFFER"
  <2>1. host' = [host EXCEPT !.ctrl = c, !.buffer = b, !.unarmed = u]
    BY DEF HostPosts
  <2> HIDE DEF b, c, u
  <2>2. /\ host'.ctrl = c /\ host'.buffer = b /\ host'.bulk = host.bulk
        /\ host'.unarmed = u
    BY <1>0, <2>1 DEF Host
  <2> QED BY <2>2 DEF b, c, u
<1>4. /\ "SET_BUFFER" \notin GetRequests /\ "GET_STATUS" \in GetRequests
  BY DEF GetRequests
<1>5. host.buffer => host.ctrl = "owes"
  BY <1>0 DEF Manners
<1>6. Answering' <=> Answering
  BY <1>0, <1>3, <1>4, <1>5 DEF Answering
<1>7. Asks(ep0)'
  <2>1. Len(ep0') > 0 /\ ep0'[Len(ep0')] = r
    BY <1>1 DEF Grown
  <2>2. ep0' # <<>>
    BY <2>1
  <2> QED BY <1>3, <1>4, <2>1, <2>2 DEF Asks
<1>8. host'.ctrl = "get" /\ host'.buffer => ep0' = <<"GET_STATUS">>
  <2> SUFFICES ASSUME host'.ctrl = "get", host'.buffer
               PROVE  ep0' = <<"GET_STATUS">>
    OBVIOUS
  <2>1. r = "GET_STATUS" /\ ep0 = <<>>
    BY <1>3, <1>4, <1>5 DEF Manners
  <2>2. ep0' \in Seq(Events) /\ Len(ep0') = 1 /\ ep0'[Len(ep0')] = "GET_STATUS"
    BY <1>1, <2>1 DEF Grown
  <2>3. ep0' \in Seq(Events) /\ Len(ep0') = 1 /\ ep0'[1] = "GET_STATUS"
    BY <2>2
  <2> QED BY <2>3
<1>9. ~(host'.buffer /\ host'.bulk)
  BY <1>0, <1>3 DEF Manners
<1>10. Manners'
  BY <1>0, <1>3, <1>7, <1>8, <1>9 DEF Manners
<1>11. Answering => r = "GET_STATUS"
  BY <1>0 DEF Answering
<1>12. host'.bulk \/ Answering => host'.unarmed = host.unarmed
  <2>1. host.unarmed \in BOOLEAN
    BY <1>0 DEF Host
  <2>2. host'.bulk \/ Answering => r # "SET_BUFFER"
    BY <1>0, <1>3, <1>11
  <2> QED BY <1>3, <2>1, <2>2
<1> QED BY <1>2, <1>3, <1>6, <1>10, <1>12

\* A session event silences the host and is queued.
LEMMA SessionEventKeeps ==
  ASSUME LoopInv, QueueInv, PacedInv,
         UsbEnable \/ UsbDisable \/ UdcUnbind \/ UdcBind
  PROVE  PacedInv'
<1> USE DEF PacedInv
<1>1. PICK e \in SessionEvents : ep0' = Enqueue(ep0, e)
  BY DEF UsbEnable, UsbDisable, UdcUnbind, UdcBind, Announces, SessionEvents
<1>2. e \in Events /\ Grown(ep0, e, ep0')
  BY <1>1, Announced, SurvivorSets DEF LoopInv, BusType, QueueInv
<1>3. Holds(ep0, SessionEvents)'
  BY <1>1, <1>2, AnnouncedKinds
<1>4. Quiet'
  <2>1. CASE UsbEnable \/ UdcBind
    BY <2>1 DEF UsbEnable, UdcBind, Manners, Quiet
  <2>2. CASE UsbDisable \/ UdcUnbind
    BY <2>2 DEF UsbDisable, UdcUnbind, QuietHost, Quiet
  <2> QED BY <2>1, <2>2
<1>5. /\ UNCHANGED <<gud, exact, boundary, pending, pc>>
      /\ aio' \in {aio, Flush(aio)}
      /\ link' \in {"disabled", "enabled", "unbound"}
  BY DEF UsbEnable, UsbDisable, UdcUnbind, UdcBind, loopVars, receiveVars
<1>6. aio'.slot = "free" <=> aio.slot = "free"
  BY <1>5 DEF LoopInv, PathInv, PathType, AioSlot, Flush, Land
<1>7. Manners'
  BY <1>4, <1>5 DEF Manners, Quiet
<1>8. Promises'
  BY <1>3, <1>4, <1>5, <1>6 DEF Promises, Quiet, Answering, SlotHasHarvester,
     Running
<1> QED BY <1>7, <1>8

\* So does a power event, unless the host was between two requests.
LEMMA PowerEventKeeps ==
  ASSUME LoopInv, QueueInv, PacedInv, BusSuspend \/ BusResume \/ CableLost
  PROVE  PacedInv'
<1> USE DEF PacedInv
<1>1. PICK e \in PowerEvents : ep0' = Enqueue(ep0, e)
  BY DEF BusSuspend, BusResume, CableLost, Announces, PowerEvents
<1>2. e \in Events /\ Grown(ep0, e, ep0')
  BY <1>1, Announced, SurvivorSets DEF LoopInv, BusType, QueueInv
<1>3. Holds(ep0, SessionEvents)' <=> Holds(ep0, SessionEvents)
  BY <1>1, <1>2, AnnouncedKinds, SurvivorSets
<1>4. UNCHANGED <<gud, exact, session, boundary, pending, pc, aio>>
  BY DEF BusSuspend, BusResume, CableLost, loopVars, receiveVars
<1>5. (Taken' <=> Taken) /\ (AwaitsStatus(exact)' <=> AwaitsStatus(exact))
  BY <1>4 DEF Taken, AwaitsStatus
<1>6. CASE BusSuspend \/ BusResume
  <2>1. /\ host' = host /\ host.ctrl = "idle" /\ ~host.buffer
        /\ link \in {"enabled", "suspended"} /\ link' \in {"enabled", "suspended"}
    BY <1>6 DEF BusSuspend, BusResume, Manners
  <2>2. Manners'
    BY <2>1 DEF Manners
  <2>3. Promises'
    BY <1>3, <1>4, <1>5, <2>1 DEF Promises, Answering, SlotHasHarvester, Running
  <2> QED BY <2>2, <2>3
<1>7. CASE CableLost
  <2>1. Quiet' /\ link' = "lost"
    BY <1>7 DEF CableLost, QuietHost, Quiet
  <2>2. Manners'
    BY <2>1 DEF Manners, Quiet
  <2>3. Promises'
    BY <1>3, <1>4, <1>5, <2>1 DEF Promises, Quiet, Answering, SlotHasHarvester,
       Running
  <2> QED BY <2>2, <2>3
<1> QED BY <1>6, <1>7

LEMMA EnvironmentKeepsPaced ==
  ASSUME HostKind = "paced", LoopInv, QueueInv, PacedInv, Environment
  PROVE  PacedInv'
<1> USE DEF PacedInv
<1>0. host \in Host /\ aio \in AioSlot
  BY DEF LoopInv, BusType, PathInv, PathType
<1>1. CASE \/ UsbEnable \/ UsbDisable \/ UdcUnbind \/ UdcBind
           \/ BusSuspend \/ BusResume \/ CableLost
  BY <1>1, SessionEventKeeps, PowerEventKeeps
<1>2. CASE \/ AioFails \/ AioDelivered \/ DeadlinePasses \/ RequestShutdown
           \/ HostBulk \/ HostAbandons
  <2>1. /\ UNCHANGED <<gud, exact, session, boundary, pending, pc, ep0, link>>
    BY <1>2 DEF AioFails, AioDelivered, DeadlinePasses, RequestShutdown,
         HostBulk, HostAbandons, loopVars, receiveVars, kernelVars
  <2>2. /\ host'.ctrl = host.ctrl /\ host'.buffer = host.buffer
        /\ host'.bulk => host.bulk
    BY <1>0, <1>2 DEF AioFails, AioDelivered, DeadlinePasses, RequestShutdown,
         HostBulk, HostAbandons, Host
  <2>3. Manners'
    <3>1. (Asks(ep0)' <=> Asks(ep0)) /\ (Quiet => Quiet')
      BY <2>1, <2>2 DEF Asks, Quiet
    <3> QED BY <2>1, <2>2, <3>1 DEF Manners
  <2>4. /\ (Answering' <=> Answering)
        /\ (AwaitsStatus(exact)' <=> AwaitsStatus(exact))
        /\ (Holds(ep0, SessionEvents)' <=> Holds(ep0, SessionEvents))
    BY <2>1, <2>2 DEF Answering, AwaitsStatus, Holds
  <2>5. aio'.slot = "free" <=> aio.slot = "free"
    BY <1>0, <1>2 DEF AioFails, AioDelivered, DeadlinePasses, RequestShutdown,
         HostBulk, HostAbandons, Land, Deliver, AioSlot, kernelVars
  <2>6. (Answering \/ host'.bulk) /\ Taken => Taken'
    <3>1. CASE AioFails \/ AioDelivered \/ DeadlinePasses \/ RequestShutdown
               \/ HostAbandons
      BY <1>0, <2>1, <3>1 DEF AioFails, AioDelivered, DeadlinePasses,
           RequestShutdown, HostAbandons, Land, Deliver, AioSlot, kernelVars,
           Taken
    <3>2. CASE HostBulk
      <4>1. host.bulk /\ ~host'.bulk
        BY <1>0, <3>2 DEF HostBulk, Host
      <4>2. ~Answering
        BY <4>1 DEF Manners, Answering
      <4> QED BY <4>1, <4>2
    <3> QED BY <1>2, <3>1, <3>2
  <2>7. /\ host'.bulk => host'.unarmed = host.unarmed
        /\ Answering => host'.unarmed = host.unarmed \/ Taken'
    <3>1. CASE AioDelivered \/ DeadlinePasses \/ RequestShutdown
      BY <3>1 DEF AioDelivered, DeadlinePasses, RequestShutdown
    <3>2. CASE HostBulk \/ HostAbandons
      <4>1. host.bulk /\ ~host'.bulk
        BY <1>0, <3>2 DEF HostBulk, HostAbandons, Host
      <4> QED BY <4>1 DEF Manners, Answering
    <3>3. CASE AioFails
      <4>1. aio'.slot = "landed" /\ aio'.result = "bad" /\ ~host'.bulk
        BY <1>0, <3>3 DEF AioFails, Land, AioSlot, Host
      <4> QED BY <4>1 DEF Taken
    <3> QED BY <1>2, <3>1, <3>2, <3>3
  <2>8. Promises'
    BY <2>1, <2>2, <2>4, <2>5, <2>6, <2>7
       DEF Promises, SlotHasHarvester, Running
  <2> QED BY <2>3, <2>8
<1>3. ASSUME NEW r \in Requests, HostPosts(r) PROVE PacedInv'
  <2>1. UNCHANGED <<gud, exact, session, boundary, pending, pc, link, aio>>
    BY <1>3 DEF HostPosts, loopVars, receiveVars
  <2>2. (Taken' <=> Taken) /\ (AwaitsStatus(exact)' <=> AwaitsStatus(exact))
    BY <2>1 DEF Taken, AwaitsStatus
  <2>3. /\ Manners' /\ host'.bulk = host.bulk
        /\ host'.bulk \/ Answering => host'.unarmed = host.unarmed
        /\ (Holds(ep0, SessionEvents)' <=> Holds(ep0, SessionEvents))
        /\ (Answering' <=> Answering)
    BY <1>3, HostAsks
  <2> QED BY <2>1, <2>2, <2>3 DEF Promises, SlotHasHarvester, Running
<1>4. CASE HostTimesOut
  BY <1>4 DEF HostTimesOut
<1> QED BY <1>1, <1>2, <1>3, <1>4 DEF Environment

LEMMA PacedStep ==
  ASSUME TransactionLimit = 0, HostKind = "paced", LoopInv, ProductionInv,
         QueueInv, PacedInv, [Next]_vars
  PROVE  PacedInv'
<1>1. CASE ServesSomething
  BY <1>1, ServingKeepsManners, RequestsKeepPromises, LifecycleKeepsPromises
     DEF PacedInv
<1>2. CASE Loop /\ ~ServesSomething
  <2>1. UNCHANGED <<ep0, link, host>>
    BY <1>2, OthersKeepBus
  <2>2. Manners'
    BY <2>1 DEF PacedInv, Manners, Asks, Quiet
  <2> QED BY <1>2, <2>2, OthersKeepPromises DEF PacedInv
<1>3. CASE Environment
  BY <1>3, EnvironmentKeepsPaced
<1>4. CASE Ended \/ UNCHANGED vars
  <2>1. UNCHANGED vars
    BY <1>4 DEF Ended
  <2> USE DEF vars, loopVars, receiveVars, kernelVars
  <2>2. Manners'
    BY <2>1 DEF PacedInv, Manners, Asks, Quiet
  <2>3. Promises'
    BY <2>1 DEF PacedInv, Promises, Answering, Taken, AwaitsStatus,
       SlotHasHarvester, Running, Holds
  <2> QED BY <2>2, <2>3 DEF PacedInv
<1> QED BY <1>1, <1>2, <1>3, <1>4 DEF Next

LEMMA PacedInvariant ==
  ASSUME TransactionLimit = 0, HostKind = "paced"
  PROVE  Spec => []PacedInv
<1>1. LoopInv /\ QueueInv /\ [Next]_vars => QueueInv'
  BY QueueStep
<1>2. LoopInv /\ ProductionInv /\ QueueInv /\ PacedInv /\ [Next]_vars => PacedInv'
  BY PacedStep
<1> QED BY <1>1, <1>2, LoopInitial, LoopStep, ProductionInitial,
          ProductionStep, QueueInitial, PacedInitial, PTL DEF Spec

\* A host that keeps to the protocol and is told OK for a SET_BUFFER never
\* sends its payload into an idle path, across timeouts, rejected submissions,
\* containment, suspend and re-enumeration, unless its SET_BUFFER could not be
\* parsed or was refused by the endpoint layer before io_submit.
THEOREM OkAlwaysMeansArmed ==
  ASSUME TransactionLimit = 0, HostKind = "paced"
  PROVE  Spec => []OkMeansArmed
<1>1. PacedInv => OkMeansArmed
  BY DEF PacedInv, Promises, Taken, OkMeansArmed
<1> QED BY <1>1, PacedInvariant, PTL

\* Under such a host every request in the AIO slot keeps the pending receive
\* that will harvest it: the error path of the first GET_STATUS after an arm,
\* which drops the pending receive with the request in flight, is never taken.
THEOREM HarvesterNeverLost ==
  ASSUME TransactionLimit = 0, HostKind = "paced"
  PROVE  Spec => []SlotHasHarvester
<1>1. PacedInv => SlotHasHarvester
  BY DEF PacedInv, Promises
<1> QED BY <1>1, PacedInvariant, PTL
=============================================================================
