----------------------------- MODULE ReceiveLoop -----------------------------
(***************************************************************************)
(* The event loop of the display daemon (drm/src/main.rs) in its           *)
(* production receive mode: one exact AIO request per SET_BUFFER, owned    *)
(* from admission to the end of framebuffer processing, across USB         *)
(* suspend, disconnect, re-enumeration, timeouts and shutdown.             *)
(*                                                                         *)
(* It composes the EP0 protocol (GudProtocol), the endpoint layer's        *)
(* transaction (ExactAio), the daemon's own session (BulkSession) and the  *)
(* kernel (FunctionFs) with a USB host.                                    *)
(*                                                                         *)
(* An iteration of the loop is two steps.  From "top" it retires a         *)
(* destroyed epoch, leaves on shutdown, or harvests the AIO slot; from     *)
(* "poll" it takes one EP0 event, or processes a ready payload.  The       *)
(* kernel, the completion thread, the host, the signal handler and the     *)
(* clock interleave between the two.                                       *)
(***************************************************************************)
EXTENDS GudProtocol, ExactAio, BulkSession, FunctionFs

CONSTANTS
  HostKind,      \* "paced": GET_STATUS after every SET, waits for answers;
                 \* "impatient": the same, but requests may time out;
                 \* "any": requests and bulk data in any order
  HostRequests,  \* the requests this host issues
  MaxSequence    \* bound: SET_BUFFERs that reach the endpoint

ASSUME LoopAssumption ==
  /\ HostKind \in {"paced", "impatient", "any"}
  /\ HostRequests \subseteq Requests
  /\ MaxSequence \in Nat

VARIABLES
  pc,        \* where the loop is, or how the process ended
  usb,       \* usb_session
  exact,     \* gud_data.exact_aio
  session,   \* bulk_receive_session
  guard,     \* the STATUS_ON_SET admission guard
  drain,     \* status_on_set_cleanup_drain
  pending,   \* sequence in pending_exact_receive, 0 for None
  overdue,   \* the pending receive is past its deadline
  ready,     \* sequence in ready_exact_payload, 0 for None
  boundary,  \* pending_epoch_boundary
  shutdown,  \* shutdown_requested
  ep0,       \* undelivered FunctionFS events
  aio,       \* the bulk-OUT endpoint's AIO slot
  link,      \* the kernel's view of the USB function
  host       \* what the host's driver is doing

receiveVars == <<exact, session, guard, drain, pending, overdue, ready>>
loopVars    == <<pc, usb, boundary, receiveVars>>
kernelVars  == <<ep0, aio, link>>
vars        == <<gud, loopVars, shutdown, kernelVars, host>>

Host == [ctrl    : {"idle", "set", "get", "owes", "gaveup"},
         buffer  : BOOLEAN,  \* the SET under way is a SET_BUFFER
         bulk    : BOOLEAN,  \* told OK for it: bulk data may be sent
         unarmed : BOOLEAN]  \* the daemon dropped it without latching an
                             \* error; recorded for OkMeansArmed only

QuietHost ==
  [ctrl |-> "idle", buffer |-> FALSE, bulk |-> FALSE, unarmed |-> FALSE]

EpochBoundary == [open : BOOLEAN, epoch : Nat]
NoBoundary == [open |-> FALSE, epoch |-> 0]

LoopInit ==
  /\ gud = InitialProtocolState
  /\ pc = "top"
  /\ usb = "WaitingForHost"
  /\ exact = InitialExactAio
  /\ session = InitialSession
  /\ guard = InitialGuard
  /\ drain = NoDrain
  /\ pending = 0 /\ overdue = FALSE /\ ready = 0
  /\ boundary = NoBoundary
  /\ shutdown = FALSE
  /\ ep0 = <<"Bind">>
  /\ aio = InitialAio
  /\ link = "disabled"
  /\ host = QuietHost

(***************************************************************************)
(* The gate: everything that may still own the receive path is idle.       *)
(***************************************************************************)
\* Mutation: a gate that asks only for the finished payload.
IdleIgnoringReceive == ready = 0 /\ drain = NoDrain

ProvenIdle ==
  /\ session.state \in Unowned
  /\ exact.state \in Unowned
  /\ exact.operation = 0
  /\ aio.slot = "free"
  /\ pending = 0
  /\ ready = 0
  /\ drain = NoDrain
  /\ ~guard.active

\* Mutation: the endpoint layer is contained and the session is not.
PoisonEndpointOnly(g) ==
  /\ exact' = poison(exact)
  /\ gud' = latch_status(g, "BUSY")
  /\ UNCHANGED session

\* gud_data.poison_exact_payload_aio together with the session's poison:
\* both layers are contained and GET_STATUS reports BUSY.
PoisonBoth(g) ==
  /\ exact' = poison(exact)
  /\ session' = EnterState(session, "Poisoned")
  /\ gud' = latch_status(g, "BUSY")

(***************************************************************************)
(* Top of the loop.                                                        *)
(***************************************************************************)
\* Mutation: retirement does not wait for the old completion.
RetireAtOnce == boundary.open

RetireReady == boundary.open /\ pending = 0 /\ aio.slot = "free"

EpochRetirable ==
  /\ CanRetire(exact) /\ CanRetireSession(session)
  /\ boundary.epoch # 0 =>
       boundary.epoch > exact.epoch_id /\ boundary.epoch > session.epoch_id

RetireEpoch ==
  /\ pc = "top" /\ RetireReady /\ EpochRetirable
  /\ \/ /\ boundary.epoch = 0
        /\ exact' = retire_after_session_destruction(exact)
        /\ session' = EnterState(session, "AbortedBySessionDestruction")
        /\ UNCHANGED usb
     \/ /\ boundary.epoch # 0
        /\ exact' = begin_usb_epoch(retire_after_session_destruction(exact),
                                    boundary.epoch)
        /\ session' = begin_session_epoch(session, boundary.epoch)
        /\ usb' = "Active"
  /\ guard' = release_after_cleanup(guard)
  /\ drain' = NoDrain
  /\ ready' = 0
  /\ boundary' = NoBoundary
  /\ UNCHANGED <<gud, pc, pending, overdue, shutdown, kernelVars, host>>

\* One of the `?` operators of the retirement returns from main.
RetireFails ==
  /\ pc = "top" /\ RetireReady /\ ~EpochRetirable
  /\ pc' = "failed"
  /\ UNCHANGED <<gud, usb, boundary, receiveVars, shutdown, kernelVars, host>>

\* The diagnostic's trailing GET_STATUS did not come in time.
DrainTimesOut ==
  /\ pc = "top" /\ ~RetireReady
  /\ drain # NoDrain /\ drain.phase = "AwaitingTrailing"
  /\ drain' = [drain EXCEPT !.phase = "TimedOut"]
  /\ pc' = "cleanup"
  /\ UNCHANGED <<gud, usb, boundary, exact, session, guard, pending, overdue,
                 ready, shutdown, kernelVars, host>>

\* Mutation: an epoch retired without a successor is not taken for idle.
LeavesFromIdleOnly == shutdown /\ ProvenIdle /\ session.state = "Idle"

LeavesOnShutdown == shutdown /\ ProvenIdle

LeaveLoop ==
  /\ pc = "top" /\ ~RetireReady /\ LeavesOnShutdown
  /\ pc' = "cleanup"
  /\ UNCHANGED <<gud, usb, boundary, receiveVars, shutdown, kernelVars, host>>

AtHarvest == pc = "top" /\ ~RetireReady /\ ~LeavesOnShutdown

\* Mutation: a contained request is not harvested.
CompletedInFlight ==
  pending # 0 /\ aio.slot = "delivered" /\ exact.state = "InFlight"

\* try_complete_exact_payload_aio finds a completion for the pending receive.
Completed == /\ pending # 0
             /\ aio.slot = "delivered"
             /\ exact.state \in {"InFlight", "Poisoned"}

CompletionValid ==
  CompletionMatches(exact, aio.op, gud.activation, aio.result = "exact")

HarvestPayload ==
  /\ AtHarvest /\ Completed /\ CompletionValid
  /\ ~overdue /\ session.state = "InFlight"
  /\ exact' = completion_for_operation(exact)
  /\ session' = EnterState(session, "Processing")
  /\ ready' = pending
  /\ pending' = 0
  /\ aio' = Harvest(aio)
  /\ pc' = "poll"
  /\ UNCHANGED <<gud, usb, boundary, guard, drain, overdue, shutdown,
                 ep0, link, host>>

\* The completion is invalid, late, or meets a session that has moved on: the
\* slot is free again but both layers stay contained.
HarvestRejected ==
  /\ AtHarvest /\ Completed
  /\ ~(CompletionValid /\ ~overdue /\ session.state = "InFlight")
  /\ PoisonBoth(gud)
  /\ pending' = 0
  /\ aio' = Harvest(aio)
  /\ UNCHANGED <<pc, usb, boundary, guard, drain, overdue, ready, shutdown,
                 ep0, link, host>>

\* Mutation: the timeout drops the pending receive with its request in flight.
MissDeadlineDrops ==
  /\ AtHarvest /\ pending # 0 /\ ~Completed
  /\ session.state # "Poisoned" /\ overdue
  /\ PoisonBoth(gud)
  /\ pending' = 0
  /\ UNCHANGED <<pc, usb, boundary, guard, drain, overdue, ready, shutdown,
                 kernelVars, host>>

\* No completion by the deadline: contain, and keep waiting for the slot.
MissDeadline ==
  /\ AtHarvest /\ pending # 0 /\ ~Completed
  /\ session.state # "Poisoned" /\ overdue
  /\ PoisonBoth(gud)
  /\ UNCHANGED <<pc, usb, boundary, guard, drain, pending, overdue, ready,
                 shutdown, kernelVars, host>>

\* Mutation: the deadline is not looked at.
KeepsWaiting ==
  /\ AtHarvest /\ ~Completed
  /\ pc' = "poll"
  /\ UNCHANGED <<gud, usb, boundary, receiveVars, shutdown, kernelVars, host>>

NothingToHarvest ==
  /\ AtHarvest /\ ~Completed
  /\ pending # 0 => session.state = "Poisoned" \/ ~overdue
  /\ pc' = "poll"
  /\ UNCHANGED <<gud, usb, boundary, receiveVars, shutdown, kernelVars, host>>

(***************************************************************************)
(* Polling EP0.                                                            *)
(***************************************************************************)
HoldEp0 ==
  /\ pc = "poll" /\ boundary.open
  /\ pc' = "top"
  /\ UNCHANGED <<gud, usb, boundary, receiveVars, shutdown, kernelVars, host>>

Polling == pc = "poll" /\ ~boundary.open

\* event_timeout returns an error.
PollFails ==
  /\ Polling
  /\ \/ pending # 0 /\ PoisonBoth(gud)
     \/ pending = 0 /\ UNCHANGED <<gud, exact, session>>
  /\ pc' = "top"
  /\ UNCHANGED <<usb, boundary, guard, drain, pending, overdue, ready,
                 shutdown, kernelVars, host>>

PollEmpty ==
  /\ Polling /\ ep0 = <<>> /\ ready = 0
  /\ pc' = "top"
  /\ UNCHANGED <<gud, usb, boundary, receiveVars, shutdown, kernelVars, host>>

(***************************************************************************)
(* A ready payload, processed only when no EP0 event is waiting.           *)
(***************************************************************************)
\* Mutation: a ready payload goes ahead of the queued EP0 events.
PayloadFirst == Polling /\ ready # 0

PayloadReady == Polling /\ ep0 = <<>> /\ ready # 0

CanFinish ==
  /\ CanFinishProcessing(exact) /\ session.state = "Processing"
  /\ TransactionLimit > 0 => drain # NoDrain /\ drain.phase = "Receiving"

\* What follows a drained diagnostic transaction: after the last one the loop
\* is left with the drain still in place, otherwise the next may start.
AfterDrained(d) ==
  IF d.transaction = TransactionLimit
  THEN pc' = "cleanup" /\ drain' = d
  ELSE pc' = "top" /\ drain' = NoDrain

\* Production: the payload on the screen frees everything at once.
FinishProduction ==
  /\ TransactionLimit = 0
  /\ guard' = release_after_cleanup(guard)
  /\ pc' = "top"
  /\ UNCHANGED drain

\* Mutation: the guard is released before the trailing statuses.
FinishDiagnosticEarly ==
  /\ TransactionLimit > 0
  /\ guard' = release_after_cleanup(guard)
  /\ drain' = payload_processed(drain)
  /\ pc' = "top"

\* Diagnostic: the guard is kept until the trailing statuses have been sent.
FinishDiagnostic ==
  /\ TransactionLimit > 0
  /\ LET d == payload_processed(drain)
     IN  \/ /\ is_drained(d)
            /\ guard' = release_after_cleanup(guard)
            /\ AfterDrained(d)
         \/ /\ ~is_drained(d)
            /\ drain' = d
            /\ pc' = "top"
            /\ UNCHANGED guard

ProcessPayload ==
  /\ PayloadReady /\ CanFinish
  /\ ready' = 0
  /\ exact' = finish_processing(exact)
  /\ session' = EnterState(session, "Idle")
  /\ FinishProduction \/ FinishDiagnostic
  /\ UNCHANGED <<gud, usb, boundary, pending, overdue, shutdown, kernelVars,
                 host>>

\* A payload that was ready when the session was contained is still shown;
\* then a `?` of the finish calls returns from main.
ProcessContained ==
  /\ PayloadReady /\ ~CanFinish
  /\ ready' = 0
  /\ pc' = "failed"
  /\ UNCHANGED <<gud, usb, boundary, exact, session, guard, drain, pending,
                 overdue, shutdown, kernelVars, host>>

\* Decompression, copy or presentation fails: contained, never returned to
\* Idle by itself.
ProcessFails ==
  /\ PayloadReady
  /\ PoisonBoth(gud)
  /\ ready' = 0
  /\ pc' = "top"
  /\ UNCHANGED <<usb, boundary, guard, drain, pending, overdue, shutdown,
                 kernelVars, host>>

(***************************************************************************)
(* EP0 requests.                                                           *)
(***************************************************************************)
\* The loop takes event e from EP0.
Receives(e) ==
  /\ Polling
  /\ ep0 # <<>> /\ Head(ep0) = e
  /\ ep0' = Tail(ep0)

\* While contained, a request is dropped unanswered.
SuppressSetup ==
  /\ \E r \in Requests : Receives(r)
  /\ session.state = "Poisoned"
  /\ host' = [host EXCEPT !.ctrl = "idle", !.buffer = FALSE]
  /\ pc' = "top"
  /\ UNCHANGED <<gud, usb, boundary, receiveVars, shutdown, aio, link>>

\* event() returns an error before the request is complete on the bus: the
\* data stage failed, or the host is gone.
SetupFails(r) ==
  /\ Receives(r) /\ session.state # "Poisoned"
  /\ r # "UNSUPPORTED"
  /\ LET g == IF r = "GET_CONNECTOR_STATUS"
              THEN [gud EXCEPT !.connector_changed = FALSE] ELSE gud
     IN  \/ pending # 0 /\ PoisonBoth(g)
         \/ pending = 0 /\ gud' = g /\ UNCHANGED <<exact, session>>
  /\ host' = [host EXCEPT !.ctrl = "idle", !.buffer = FALSE]
  /\ pc' = "top"
  /\ UNCHANGED <<usb, boundary, guard, drain, pending, overdue, ready,
                 shutdown, aio, link>>

\* The request reaches its handler and the host sees it answered.
Serves(r) ==
  /\ Receives(r) /\ session.state # "Poisoned"
  /\ host.ctrl \in {"set", "get"}
  /\ host' = [host EXCEPT !.ctrl = IF r \in GetRequests THEN "idle" ELSE "owes"]
  /\ UNCHANGED <<shutdown, link>>

\* The requests that touch only the protocol record.
ServesControl(r) ==
  /\ Serves(r)
  /\ pc' = "top"
  /\ UNCHANGED <<usb, boundary, receiveVars, aio>>

ServeInformation == ServesControl("GET_INFORMATION") /\ GetInformation
ServeConnectorStatus ==
  ServesControl("GET_CONNECTOR_STATUS") /\ GetConnectorStatus
ServeUnsupported == ServesControl("UNSUPPORTED") /\ UnsupportedRequest
ServeStateCheck ==
  ServesControl("SET_STATE_CHECK") /\ \E m \in Modes : SetStateCheck(m)
ServeStateCommit == ServesControl("SET_STATE_COMMIT") /\ SetStateCommit
ServeControllerEnable ==
  /\ ServesControl("SET_CONTROLLER_ENABLE")
  /\ (\E b \in BOOLEAN : SetControllerEnable(b)) \/ SetEnableMalformed
ServeDisplayEnable ==
  /\ ServesControl("SET_DISPLAY_ENABLE")
  /\ (\E b \in BOOLEAN : SetDisplayEnable(b)) \/ SetEnableMalformed

(***************************************************************************)
(* GET_STATUS: the answer to the SET before it, and for an armed SET_BUFFER*)
(* the moment from which its payload is acceptable.                        *)
(***************************************************************************)
ServesStatus ==
  /\ Receives("GET_STATUS") /\ session.state # "Poisoned"
  /\ host.ctrl = "get"
  /\ host' = [host EXCEPT
                !.ctrl = "idle", !.buffer = FALSE,
                !.bulk = @ \/ (host.buffer /\ gud.status = "OK")]
  /\ UNCHANGED <<usb, boundary, overdue, ready, shutdown, aio, link>>

StatusOutOfTurn == drain # NoDrain /\ ~StatusExpected(drain, gud.status)

\* The diagnostic did not expect this status, and a receive is pending.
StatusContains ==
  /\ ServesStatus /\ StatusOutOfTurn /\ pending # 0
  /\ PoisonBoth(gud)
  /\ pending' = 0
  /\ pc' = "top"
  /\ UNCHANGED <<guard, drain>>

\* The diagnostic did not expect this status, and nothing is pending.
StatusEndsDiagnostic ==
  /\ ServesStatus /\ StatusOutOfTurn /\ pending = 0
  /\ pc' = "cleanup"
  /\ UNCHANGED <<gud, exact, session, guard, drain, pending>>

\* The first status after an arm is an error: contained.
StatusRejectsArm ==
  /\ ServesStatus /\ drain = NoDrain
  /\ AwaitsStatus(exact) /\ gud.status # "OK"
  /\ PoisonBoth(gud)
  /\ pending' = 0
  /\ pc' = "top"
  /\ UNCHANGED <<guard, drain>>

StatusNoted ==
  /\ ServesStatus /\ ~StatusOutOfTurn
  /\ ~(AwaitsStatus(exact) /\ gud.status # "OK")
  /\ exact' = status_sent(exact)
  /\ \/ /\ drain = NoDrain
        /\ pc' = "top"
        /\ UNCHANGED <<guard, drain>>
     \/ /\ drain # NoDrain /\ ~is_drained(note_status(drain))
        /\ drain' = note_status(drain)
        /\ pc' = "top"
        /\ UNCHANGED guard
     \/ /\ drain # NoDrain /\ is_drained(note_status(drain))
        /\ guard' = release_after_cleanup(guard)
        /\ AfterDrained(note_status(drain))
  /\ UNCHANGED <<gud, session, pending>>

(***************************************************************************)
(* SET_BUFFER.                                                             *)
(***************************************************************************)
SetBufferBusy ==
  /\ ServesControl("SET_BUFFER")
  /\ ~set_buffer_permitted(guard)
  /\ gud' = latch_status(gud, "BUSY")

SetBufferRejected ==
  /\ ServesControl("SET_BUFFER")
  /\ set_buffer_permitted(guard)
  /\ SetBufferInvalid

\* The host sees its SET_BUFFER complete, but nothing is armed for it and no
\* status is latched: GET_STATUS will answer whatever was latched before.
LeavesUnarmed ==
  /\ Receives("SET_BUFFER") /\ session.state # "Poisoned"
  /\ host.ctrl \in {"set", "get"}
  /\ set_buffer_permitted(guard)
  /\ host' = [host EXCEPT !.ctrl = "owes", !.unarmed = TRUE]
  /\ pc' = "top"
  /\ UNCHANGED <<gud, usb, boundary, session, guard, drain, pending, overdue,
                 ready, shutdown, aio, link>>

\* The data stage is complete and its bytes are no SET_BUFFER.  A pending
\* receive would hold the guard, so none is contained by this error.
SetBufferMalformed ==
  /\ LeavesUnarmed
  /\ pending = 0
  /\ UNCHANGED exact

\* A valid SET_BUFFER meets a receive path in Idle.
Admissible ==
  /\ set_buffer_permitted(guard) /\ buffer_state_ready(gud)
  /\ pending = 0 /\ session.state = "Idle" /\ CanBeginArm(exact)

Admits ==
  /\ Serves("SET_BUFFER") /\ Admissible
  /\ UNCHANGED <<usb, boundary, ready>>

Armed == submission_accepted_operation(begin_arm(exact, gud.activation),
                                       aio.op + 1)

\* The kernel accepts the request: it owns the buffer from here on.  The
\* diagnostic numbers its transactions from the guard and insists that they
\* match the endpoint's sequence.
ArmAccepted ==
  /\ Admits
  /\ aio' = Submit(aio)
  /\ exact' = Armed
  /\ session' = EnterState(session, "InFlight")
  /\ gud' = mark_success(gud)
  /\ guard' = begin_after_aio_acceptance(guard)
  /\ \/ /\ TransactionLimit > 0 /\ guard'.started # exact'.sequence
        /\ pc' = "failed"
        /\ UNCHANGED <<drain, pending, overdue>>
     \/ /\ TransactionLimit > 0 => guard'.started = exact'.sequence
        /\ drain' = IF TransactionLimit > 0 THEN new_drain(guard'.started)
                                            ELSE drain
        /\ pending' = exact'.sequence
        /\ overdue' = FALSE
        /\ pc' = "top"

\* Mutation: a refused submission is reported as a success.
ArmRejectedAsSuccess ==
  /\ Admits
  /\ exact' = submission_rejected(begin_arm(exact, gud.activation))
  /\ gud' = mark_success(gud)
  /\ pc' = "top"
  /\ UNCHANGED <<session, guard, drain, pending, overdue, aio>>

\* io_submit refuses: nothing is owned, but the sequence number is used up.
ArmRejected ==
  /\ Admits
  /\ exact' = submission_rejected(begin_arm(exact, gud.activation))
  /\ gud' = latch_status(gud, "ERROR")
  /\ pc' = "top"
  /\ UNCHANGED <<session, guard, drain, pending, overdue, aio>>

\* The endpoint layer refuses before io_submit, and latches nothing: the
\* payload is over the guarded maximum, or its buffer has the wrong capacity,
\* by when the sequence number is used up.
ArmRefusedSilently ==
  /\ LeavesUnarmed /\ Admissible
  /\ \/ UNCHANGED exact
     \/ exact' = submission_rejected(begin_arm(exact, gud.activation))

(***************************************************************************)
(* Invalidations: rejected state requests and FunctionFS lifecycle events. *)
(* The protocol record is reset first; then the event is classified, by    *)
(* what the receive path owns, not by what the record says.                *)
(***************************************************************************)
DiagnosticStarted == TransactionLimit > 0 /\ guard.started > 0

observe_aio_lifecycle(input) ==
  classify_usb_lifecycle(usb, input, ProvenIdle /\ ~DiagnosticStarted)

\* A rejected STATE_CHECK or STATE_COMMIT leaves an idle session alone and
\* contains an owned one.
Invalidates(g) ==
  LET v == observe_aio_lifecycle("ProtocolInvalidation")
  IN  /\ \/ v.kind = "Continue" /\ gud' = g /\ UNCHANGED <<exact, session>>
         \/ v.kind = "Contained" /\ PoisonBoth(g)
      /\ usb' = v.next
      /\ pc' = "top"
      /\ UNCHANGED <<boundary, guard, drain, pending, overdue, ready, aio>>

StateCheckInvalidates ==
  Serves("SET_STATE_CHECK") /\ Invalidates(reject_state_check(gud))

StateCommitInvalidates ==
  /\ Serves("SET_STATE_COMMIT")
  /\ gud.pending_state = NoState
  /\ Invalidates(reject_state_commit(gud))

ObservesLifecycle(e, kind) ==
  /\ Receives(e)
  /\ observe_aio_lifecycle(e).kind = kind
  /\ UNCHANGED <<guard, drain, pending, overdue, ready, shutdown, aio, link,
                 host>>

\* Idle: the session follows the bus, and an ENABLE opens a new epoch.
LifecycleIdle(e) ==
  /\ ObservesLifecycle(e, "Continue")
  /\ gud' = LifecycleReset(gud, e)
  /\ usb' = observe_aio_lifecycle(e).next
  /\ \/ /\ e = "Enable" /\ gud'.activation > session.epoch_id
        /\ exact' = begin_usb_epoch(exact, gud'.activation)
        /\ session' = begin_session_epoch(session, gud'.activation)
     \/ /\ ~(e = "Enable" /\ gud'.activation > session.epoch_id)
        /\ UNCHANGED <<exact, session>>
  /\ pc' = "top"
  /\ UNCHANGED boundary

\* SUSPEND and RESUME keep an accepted request alive.
LifecyclePreserves(e) ==
  /\ ObservesLifecycle(e, "PreserveOwned")
  /\ gud' = LifecycleReset(gud, e)
  /\ usb' = observe_aio_lifecycle(e).next
  /\ pc' = "top"
  /\ UNCHANGED <<exact, session, boundary>>

\* The endpoint generation is gone: contain, and hold EP0 until the AIO slot
\* has been harvested and the epoch can retire.
LifecycleBoundary(e) ==
  LET g == LifecycleReset(gud, e)
  IN  /\ ObservesLifecycle(e, "SessionBoundary")
      /\ \/ currently_owned(session) /\ PoisonBoth(g)
         \/ ~currently_owned(session) /\ gud' = g /\ UNCHANGED <<exact, session>>
      /\ usb' = observe_aio_lifecycle(e).next
      /\ boundary' = [open  |-> TRUE,
                      epoch |-> IF e = "Enable" THEN g.activation ELSE 0]
      /\ pc' = "top"

\* Administrative removal from Idle ends the loop.
LifecycleUnbind ==
  /\ ObservesLifecycle("Unbind", "FatalUnbind")
  /\ gud' = LifecycleReset(gud, "Unbind")
  /\ pc' = "cleanup"
  /\ UNCHANGED <<usb, exact, session, boundary>>

(***************************************************************************)
(* After the loop: teardown only from proven Idle.                         *)
(***************************************************************************)
TearDown ==
  /\ pc = "cleanup" /\ ProvenIdle
  /\ session' = EnterState(session, "ShuttingDown")
  /\ pc' = "exited"
  /\ UNCHANGED <<gud, usb, boundary, exact, guard, drain, pending, overdue,
                 ready, shutdown, kernelVars, host>>

SuppressTeardown ==
  /\ pc = "cleanup" /\ ~ProvenIdle
  /\ pc' = "suppressed"
  /\ UNCHANGED <<gud, usb, boundary, receiveVars, shutdown, kernelVars, host>>

LoopEnds == {"exited", "suppressed", "failed"}
Running == pc \notin LoopEnds

Ended == pc \in LoopEnds /\ UNCHANGED vars

ServesSomething ==
  \/ SuppressSetup
  \/ \E r \in Requests : SetupFails(r)
  \/ ServeInformation \/ ServeConnectorStatus \/ ServeUnsupported
  \/ ServeStateCheck \/ ServeStateCommit
  \/ ServeControllerEnable \/ ServeDisplayEnable
  \/ StatusContains \/ StatusEndsDiagnostic \/ StatusRejectsArm \/ StatusNoted
  \/ SetBufferBusy \/ SetBufferMalformed \/ SetBufferRejected
  \/ ArmAccepted \/ ArmRejected \/ ArmRefusedSilently
  \/ StateCheckInvalidates \/ StateCommitInvalidates
  \/ \E e \in LifecycleEvents :
       LifecycleIdle(e) \/ LifecyclePreserves(e) \/ LifecycleBoundary(e)
  \/ LifecycleUnbind

Loop ==
  \/ RetireEpoch \/ RetireFails \/ DrainTimesOut \/ LeaveLoop
  \/ HarvestPayload \/ HarvestRejected \/ MissDeadline \/ NothingToHarvest
  \/ HoldEp0 \/ PollFails \/ PollEmpty
  \/ ProcessPayload \/ ProcessContained \/ ProcessFails
  \/ ServesSomething
  \/ TearDown \/ SuppressTeardown

(***************************************************************************)
(* The kernel, the bus and the signal handler.  None of them waits for the *)
(* loop.                                                                   *)
(***************************************************************************)
Announces(e) == ep0' = Enqueue(ep0, e)

QueuedEnables == IF \E i \in DOMAIN ep0 : ep0[i] = "Enable" THEN 1 ELSE 0

\* SET_CONFIGURATION: a fresh endpoint generation.
UsbEnable ==
  /\ Running /\ link = "disabled"
  /\ gud.activation + QueuedEnables < MaxActivation
  /\ Announces("Enable")
  /\ link' = "enabled"
  /\ UNCHANGED <<gud, loopVars, shutdown, aio, host>>

\* Reset or disconnect: the endpoint is disabled and its request completes
\* with an error.
UsbDisable ==
  /\ Running /\ link \in {"enabled", "suspended", "lost"}
  /\ Announces("Disable")
  /\ aio' = Flush(aio)
  /\ link' = "disabled"
  /\ host' = QuietHost
  /\ UNCHANGED <<gud, loopVars, shutdown>>

BusSuspend ==
  /\ Running /\ link = "enabled" /\ host.ctrl = "idle"
  /\ Announces("Suspend")
  /\ link' = "suspended"
  /\ UNCHANGED <<gud, loopVars, shutdown, aio, host>>

BusResume ==
  /\ Running /\ link = "suspended"
  /\ Announces("Resume")
  /\ link' = "enabled"
  /\ UNCHANGED <<gud, loopVars, shutdown, aio, host>>

\* An unplugged cable looks like a suspend until the controller resets.
CableLost ==
  /\ Running /\ link = "enabled"
  /\ Announces("Suspend")
  /\ link' = "lost"
  /\ host' = QuietHost
  /\ UNCHANGED <<gud, loopVars, shutdown, aio>>

UdcUnbind ==
  /\ Running /\ link # "unbound"
  /\ Announces("Unbind")
  /\ aio' = Flush(aio)
  /\ link' = "unbound"
  /\ host' = QuietHost
  /\ UNCHANGED <<gud, loopVars, shutdown>>

UdcBind ==
  /\ Running /\ link = "unbound"
  /\ Announces("Bind")
  /\ link' = "disabled"
  /\ UNCHANGED <<gud, loopVars, shutdown, aio, host>>

\* The endpoint fails on its own, or with the wrong length.
AioFails ==
  /\ aio.slot = "queued" /\ link = "enabled"
  /\ aio' = Land(aio, "bad")
  /\ host' = [host EXCEPT !.bulk = FALSE, !.unarmed = FALSE]
  /\ UNCHANGED <<gud, loopVars, shutdown, ep0, link>>

\* The completion thread hands the completion to the daemon.
AioDelivered ==
  /\ Running /\ aio.slot = "landed"
  /\ aio' = Deliver(aio)
  /\ UNCHANGED <<gud, loopVars, shutdown, ep0, link, host>>

DeadlinePasses ==
  /\ Running /\ pending # 0 /\ ~overdue
  /\ overdue' = TRUE
  /\ UNCHANGED <<gud, pc, usb, boundary, exact, session, guard, drain, pending,
                 ready, shutdown, kernelVars, host>>

\* SIGINT or SIGTERM.
RequestShutdown ==
  /\ Running /\ ~shutdown
  /\ shutdown' = TRUE
  /\ UNCHANGED <<gud, loopVars, kernelVars, host>>

(***************************************************************************)
(* The host's GUD driver.                                                  *)
(***************************************************************************)
\* The order in which the driver asks: a SET is followed by GET_STATUS, and
\* no SET_BUFFER is sent while bulk data is still owed to an earlier one.
Disciplined(r) ==
  /\ host.ctrl \in {"idle", "owes", "gaveup"}
  /\ host.ctrl = "owes" => r = "GET_STATUS"
  /\ r = "SET_BUFFER" => ~host.bulk

HostPosts(r) ==
  /\ Running /\ link = "enabled" /\ r \in HostRequests
  /\ r = "SET_BUFFER" => exact.sequence < MaxSequence
  /\ r = "SET_STATE_CHECK" => gud.next_generation < MaxGeneration
  /\ Disciplined(r) \/ HostKind = "any"
  /\ Announces(r)
  /\ host' = [host EXCEPT !.ctrl = IF r \in GetRequests THEN "get" ELSE "set",
                          !.buffer = r = "SET_BUFFER"
                                     \/ (r = "GET_STATUS" /\ @),
                          !.unarmed = @ /\ r # "SET_BUFFER"]
  /\ UNCHANGED <<gud, loopVars, shutdown, aio, link>>

\* A control request that was not answered in time.
HostTimesOut ==
  /\ HostKind # "paced"
  /\ Running /\ host.ctrl \in {"set", "get"}
  /\ host' = [host EXCEPT !.ctrl = "gaveup"]
  /\ UNCHANGED <<gud, loopVars, shutdown, kernelVars>>

\* The payload announced by an acknowledged SET_BUFFER.  A host that keeps to
\* no protocol sends it whenever it likes.
HostBulk ==
  /\ link = "enabled" /\ aio.slot = "queued"
  /\ host.bulk \/ HostKind = "any"
  /\ aio' = Land(aio, "exact")
  /\ host' = [host EXCEPT !.bulk = FALSE, !.unarmed = FALSE]
  /\ UNCHANGED <<gud, loopVars, shutdown, ep0, link>>

\* The driver gives up its bulk transfer.
HostAbandons ==
  /\ host.bulk
  /\ host' = [host EXCEPT !.bulk = FALSE, !.unarmed = FALSE]
  /\ UNCHANGED <<gud, loopVars, shutdown, kernelVars>>

Environment ==
  \/ UsbEnable \/ UsbDisable \/ BusSuspend \/ BusResume \/ CableLost
  \/ UdcUnbind \/ UdcBind
  \/ AioFails \/ AioDelivered \/ DeadlinePasses \/ RequestShutdown
  \/ (\E r \in Requests : HostPosts(r))
  \/ HostTimesOut \/ HostBulk \/ HostAbandons

Next == Loop \/ Environment \/ Ended

Spec == LoopInit /\ [][Next]_vars

\* The loop keeps running, and the completion thread and the clock keep up
\* with it.  Nothing is assumed of the host or of the bus.
FairSpec ==
  Spec /\ WF_vars(Loop) /\ WF_vars(AioDelivered) /\ WF_vars(DeadlinePasses)

(***************************************************************************)
(* Properties.                                                             *)
(***************************************************************************)

\* Every variable of the loop, the kernel and the host has its type.
TypeOK ==
  /\ gud \in ProtocolState
  /\ pc \in {"top", "poll", "cleanup"} \cup LoopEnds
  /\ usb \in UsbSessionState
  /\ exact \in ExactAioTransaction
  /\ session \in BulkReceiveSession
  /\ guard \in DiagnosticGuard
  /\ drain \in CleanupDrain \cup {NoDrain}
  /\ pending \in Nat /\ ready \in Nat
  /\ overdue \in BOOLEAN /\ shutdown \in BOOLEAN
  /\ boundary \in EpochBoundary
  /\ ep0 \in Seq(Events)
  /\ aio \in AioSlot
  /\ link \in {"disabled", "enabled", "suspended", "lost", "unbound"}
  /\ host \in Host

\* The endpoint layer and the daemon's aggregate session are two records of
\* one ownership.  They never disagree between two steps of the loop, so no
\* `?` or ensure! that compares them can fire, and they are in the same USB
\* epoch.
LayersAgree ==
  /\ session.epoch_id = exact.epoch_id
  /\ \/ session.state = exact.state
     \/ session.state = "ShuttingDown" /\ exact.state \in Unowned

\* The receive path's books balance: a pending receive is the endpoint's
\* newest sequence and its request is still in the AIO slot; a ready payload
\* is that sequence harvested; never both.
BooksBalance ==
  /\ pending # 0 => /\ aio.slot # "free"
                    /\ exact.state \in {"InFlight", "Poisoned"}
                    /\ pending = exact.sequence
                    /\ exact.operation = aio.op
                    /\ ready = 0
  /\ ready # 0 => /\ aio.slot = "free"
                  /\ exact.state \in {"Processing", "Poisoned"}
                  /\ ready = exact.sequence
  /\ exact.state = "InFlight" /\ Running => pending # 0
  /\ exact.state = "Processing" /\ Running => ready # 0

\* In production the STATUS_ON_SET admission guard is held exactly while the
\* path is owned: a second SET_BUFFER is answered BUSY for as long as the
\* first is anywhere between the kernel and the screen, and the guard never
\* stays behind to refuse every later frame.
GuardFollowsOwnership ==
  guard.active <=>
    session.state \notin {"Idle", "AbortedBySessionDestruction", "ShuttingDown"}

\* "A queued DISABLE must win over a completed bulk payload": a payload about
\* to be shown belongs to the endpoint generation that is current in the
\* kernel, its SET_BUFFER was acknowledged, and the function is still enabled.
FreshPayload ==
  PayloadReady =>
    /\ exact.status_ready
    /\ exact.generation = gud.activation
    /\ exact.epoch_id = gud.activation
    /\ link \notin {"disabled", "unbound"}

\* The process never ends, by teardown or by an error returned from main,
\* while the kernel still owns a buffer.
NoAbandonedAio == pc \in {"exited", "failed"} => aio.slot = "free"

\* "Only a proven `Idle` state may close endpoints, drop the AIO driver,
\* unbind/recreate the gadget": returning from main drops all of them.
OnlyIdleMayClose ==
  pc \in {"exited", "failed"} => session.state \in Unowned \cup {"ShuttingDown"}

\* A host told OK for a SET_BUFFER never sends its payload into an idle path:
\* the request that takes it is queued in the kernel, unless the endpoint has
\* failed it, which the loop has yet to harvest or has contained.  The two
\* silent error paths are the only exceptions: a SET_BUFFER that could not be
\* parsed, and one the endpoint layer refused before io_submit, of which the
\* loop logs that "GET_STATUS will report an error".
OkMeansArmed ==
  host.bulk /\ ~host.unarmed =>
    \/ aio.slot = "queued"
    \/ aio.slot # "free" /\ aio.result = "bad"
    \/ session.state = "Poisoned"

\* While the loop runs, a request in the AIO slot has a pending receive that
\* will harvest it.
SlotHasHarvester == aio.slot # "free" /\ Running => pending # 0

\* Containment is left only by retiring a destroyed endpoint generation whose
\* AIO slot has been harvested.
ContainmentHolds ==
  [][ session.state = "Poisoned" /\ session'.state # "Poisoned" =>
        boundary.open /\ aio.slot = "free" /\ pending = 0 ]_vars

\* "lifecycle invalidation is contained rather than resetting diagnostic
\* state": a terminal USB event never ends the process through an error.
BoundaryNeverFails == ~(pc = "failed" /\ boundary.open)

\* The bounded diagnostic never has more requests accepted than its limit,
\* whatever is rejected, replayed or contained in between.
BoundedDiagnostic == TransactionLimit > 0 => aio.op <= TransactionLimit

\* The diagnostic's admission guard is held until both trailing GET_STATUS of
\* the transaction in the drain have been sent: the next SET_BUFFER cannot
\* overtake the cleanup of the one before.
DrainKeepsGuard ==
  pc \in {"top", "poll"} /\ drain # NoDrain =>
    guard.active /\ drain.transaction = guard.started

\* The ownership the abstract specification talks about.
Owner ==
  CASE session.state \in Unowned        -> "free"
    [] session.state = "InFlight"       -> "receiving"
    [] session.state = "Processing"     -> "processing"
    [] session.state = "Poisoned"       -> "contained"
    [] session.state = "ShuttingDown"   -> "closed"
    [] session.state = "Arming"         -> "free"

Ownership == INSTANCE ReceiveOwnership WITH owner <- Owner,
                                            lent  <- aio.slot # "free"

\* The loop, with all its error paths, implements the lending discipline.
ImplementsOwnership == Ownership!OwnershipSpec

\* "Hold EP0 briefly ... until the old one-slot AIO completion is harvested
\* and the epoch can retire": a terminal boundary is always resolved.
BoundaryRetires == boundary.open ~> ~boundary.open

\* A pending receive is resolved by its payload, its deadline or a boundary,
\* whatever the host does on EP0.
ReceiveResolves ==
  pending # 0 ~> pending = 0 \/ session.state = "Poisoned"

\* A requested shutdown ends the process, or meets a contained session that
\* must not be torn down, once EP0 falls quiet and its reads stop failing in
\* front of a ready payload.
ShutdownResolves ==
  (<>[](ep0 = <<>>) /\ <>[][ready # 0 => ~PollFails]_vars) =>
    (shutdown ~> pc \in LoopEnds \/ session.state = "Poisoned")
=============================================================================
