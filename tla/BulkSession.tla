----------------------------- MODULE BulkSession -----------------------------
(***************************************************************************)
(* The display daemon's own view of who owns the receive path (drm/src/    *)
(* main.rs): the aggregate BulkReceiveSession, the STATUS_ON_SET admission *)
(* guard of gadget/src/lib.rs, the bounded diagnostic's cleanup drain and  *)
(* the classification of USB lifecycle events.                             *)
(***************************************************************************)
EXTENDS Naturals

CONSTANTS
  TransactionLimit,  \* 0 in production; 1 or 2 in the bounded diagnostic
  NoDrain            \* stands for Option::None of the cleanup drain

ASSUME LimitAssumption == TransactionLimit \in 0 .. 2

(***************************************************************************)
(* BulkReceiveSession.                                                     *)
(***************************************************************************)
BulkReceiveState ==
  {"Idle", "Arming", "InFlight", "Processing", "Poisoned", "ShuttingDown",
   "AbortedBySessionDestruction"}

BulkReceiveSession == [state : BulkReceiveState, epoch_id : Nat]

InitialSession == [state |-> "Idle", epoch_id |-> 0]

\* Idle is where an exact transaction starts; both are free of ownership.
Unowned == {"Idle", "AbortedBySessionDestruction"}

currently_owned(s) == s.state \notin Unowned

EnterState(s, next) == [s EXCEPT !.state = next]

CanRetireSession(s) == s.state \in {"Arming", "InFlight", "Poisoned"}

CanBeginSessionEpoch(s, epoch) ==
  /\ s.state \in Unowned
  /\ epoch > s.epoch_id

begin_session_epoch(s, epoch) ==
  [s EXCEPT !.epoch_id = epoch, !.state = "Idle"]

(***************************************************************************)
(* StatusOnSetDiagnosticGuard: one transaction at a time, and at most      *)
(* TransactionLimit of them when the limit is not zero.                    *)
(***************************************************************************)
DiagnosticGuard == [active : BOOLEAN, started : 0 .. 2]

InitialGuard == [active |-> FALSE, started |-> 0]

\* Mutation: one transaction too many.
set_buffer_permitted_late(g) ==
  /\ ~g.active
  /\ TransactionLimit = 0 \/ g.started <= TransactionLimit

set_buffer_permitted(g) ==
  /\ ~g.active
  /\ TransactionLimit = 0 \/ g.started < TransactionLimit

begin_after_aio_acceptance(g) ==
  [active  |-> TRUE,
   started |-> IF TransactionLimit > 0 THEN g.started + 1 ELSE g.started]

\* Mutation: the guard is never released.
release_forgotten(g) == g

release_after_cleanup(g) == [g EXCEPT !.active = FALSE]

(***************************************************************************)
(* StatusOnSetCleanupDrain: after the SET_BUFFER's own status the          *)
(* diagnostic waits for exactly two trailing GET_STATUS, before or after   *)
(* the payload has been processed.                                         *)
(***************************************************************************)
CleanupStatusCount == 2

CleanupDrain ==
  [ phase       : {"AwaitingInitial", "Receiving", "AwaitingTrailing",
                   "Drained", "TimedOut"},
    trailing    : 0 .. CleanupStatusCount,
    transaction : 0 .. 2 ]

new_drain(transaction) ==
  [phase |-> "AwaitingInitial", trailing |-> 0, transaction |-> transaction]

\* note_status succeeds: the status is OK and the phase expects one more.
StatusExpected(d, status) ==
  /\ status = "OK"
  /\ \/ d.phase = "AwaitingInitial"
     \/ /\ d.phase \in {"Receiving", "AwaitingTrailing"}
        /\ d.trailing < CleanupStatusCount

note_status(d) ==
  IF d.phase = "AwaitingInitial"
  THEN [d EXCEPT !.phase = "Receiving"]
  ELSE [d EXCEPT !.trailing = @ + 1,
                 !.phase = IF @ = "AwaitingTrailing"
                               /\ d.trailing + 1 = CleanupStatusCount
                           THEN "Drained" ELSE @]

payload_processed(d) ==
  [d EXCEPT !.phase = IF d.trailing = CleanupStatusCount
                      THEN "Drained" ELSE "AwaitingTrailing"]

is_drained(d) == d # NoDrain /\ d.phase = "Drained"

(***************************************************************************)
(* UsbSessionState and classify_usb_lifecycle.                             *)
(***************************************************************************)
UsbSessionState == {"WaitingForHost", "Active", "Suspended", "Contained"}

Verdict(kind, next) == [kind |-> kind, next |-> next]

\* Where each terminal boundary leaves the USB session.
AfterBoundary(input) == IF input = "Enable" THEN "Active" ELSE "WaitingForHost"

Boundaries == {"Bind", "Enable", "Disable", "Unbind"}

\* Mutation: an ENABLE over an owned path is an ordinary one.
ClassifyOwnedEnable(input) ==
  CASE input = "Enable"     -> Verdict("Continue", "Active")
    [] input \in Boundaries -> Verdict("SessionBoundary", AfterBoundary(input))
    [] input = "Suspend"    -> Verdict("PreserveOwned", "Suspended")
    [] input = "Resume"     -> Verdict("PreserveOwned", "Active")
    [] OTHER                -> Verdict("Contained", "Contained")

ClassifyOwned(input) ==
  CASE input \in Boundaries -> Verdict("SessionBoundary", AfterBoundary(input))
    [] input = "Suspend"    -> Verdict("PreserveOwned", "Suspended")
    [] input = "Resume"     -> Verdict("PreserveOwned", "Active")
    [] OTHER                -> Verdict("Contained", "Contained")

ClassifyContained(input) ==
  CASE input \in Boundaries -> Verdict("SessionBoundary", AfterBoundary(input))
    [] input \in {"Suspend", "Resume"} -> Verdict("PreserveOwned", "Contained")
    [] OTHER                -> Verdict("Contained", "Contained")

ClassifyIdle(state, input) ==
  CASE input = "ProtocolInvalidation" -> Verdict("Continue", state)
    [] input \in {"Enable", "Resume"} -> Verdict("Continue", "Active")
    [] input = "Suspend"              -> Verdict("Continue", "Suspended")
    [] input = "Unbind"               -> Verdict("FatalUnbind", state)
    [] OTHER                          -> Verdict("Continue", "WaitingForHost")

classify_usb_lifecycle(state, input, proven_idle) ==
  CASE ~proven_idle        -> ClassifyOwned(input)
    [] proven_idle /\ state = "Contained" -> ClassifyContained(input)
    [] OTHER               -> ClassifyIdle(state, input)
=============================================================================
