---------------------------- MODULE GudProtocol ----------------------------
(***************************************************************************)
(* The EP0 control-plane state of the GUD gadget (gadget/src/lib.rs): the  *)
(* status latch read by GET_STATUS, the checked and committed display      *)
(* states, the controller and display enables, the one-shot "connector     *)
(* changed" flag and the USB activation generation.                        *)
(*                                                                         *)
(* All of it is one record, gud.  Each Rust helper is an operator from a   *)
(* record to a record, so that the receive loop can apply two of them in   *)
(* sequence in one step, as the code does.  Each request or FunctionFS     *)
(* event handled by `event()` is an action.                                *)
(***************************************************************************)
EXTENDS Naturals

CONSTANTS
  Modes,          \* the display modes the gadget advertises
  NoState,        \* stands for Option::None of a display state
  MaxGeneration,  \* bound: accepted STATE_CHECKs
  MaxActivation   \* bound: FunctionFS ENABLE events

ASSUME ProtocolAssumption ==
  /\ Modes # {}
  /\ NoState \notin [mode : Modes, generation : Nat]
  /\ MaxGeneration \in Nat
  /\ MaxActivation \in Nat

VARIABLE gud

StatusCode ==
  {"OK", "BUSY", "REQUEST_NOT_SUPPORTED", "INVALID_PARAMETER", "ERROR"}

DisplayStateSnapshot == [mode : Modes, generation : Nat]

ProtocolState ==
  [ status              : StatusCode,
    clear_on_success    : BOOLEAN,
    connector_changed   : BOOLEAN,
    pending_state       : DisplayStateSnapshot \cup {NoState},
    committed_state     : DisplayStateSnapshot \cup {NoState},
    next_generation     : Nat,
    controller_enabled  : BOOLEAN,
    display_enabled     : BOOLEAN,
    activation          : Nat ]

InitialProtocolState ==
  [ status              |-> "OK",
    clear_on_success    |-> FALSE,
    connector_changed   |-> TRUE,
    pending_state       |-> NoState,
    committed_state     |-> NoState,
    next_generation     |-> 0,
    controller_enabled  |-> FALSE,
    display_enabled     |-> FALSE,
    activation          |-> 0 ]

(***************************************************************************)
(* The helpers of lib.rs.                                                  *)
(***************************************************************************)
reset_status(g) == [g EXCEPT !.status = "OK", !.clear_on_success = FALSE]

latch_status(g, s) ==
  [g EXCEPT !.status = s, !.clear_on_success = (s # "OK")]

mark_success(g) ==
  IF g.clear_on_success
  THEN [g EXCEPT !.status = "OK", !.clear_on_success = FALSE]
  ELSE g

reset_protocol_state(g) ==
  [g EXCEPT !.pending_state      = NoState,
            !.committed_state    = NoState,
            !.controller_enabled = FALSE,
            !.display_enabled    = FALSE]

reset_connector_status_changed(g) == [g EXCEPT !.connector_changed = TRUE]

handle_suspend_transition(g) == reset_status(reset_protocol_state(g))

handle_resume_transition(g) ==
  reset_status(reset_protocol_state(reset_connector_status_changed(g)))

usb_activation_transition(g) == [g EXCEPT !.activation = @ + 1]

store_pending_state(g, m) ==
  [g EXCEPT !.next_generation = @ + 1,
            !.pending_state   = [mode       |-> m,
                                 generation |-> g.next_generation + 1]]

clear_pending_state(g) == [g EXCEPT !.pending_state = NoState]

commit_pending_state(g) ==
  [g EXCEPT !.committed_state = g.pending_state, !.pending_state = NoState]

\* Mutation: disabling the controller leaves the display enabled.
update_controller_only(g, enable) == [g EXCEPT !.controller_enabled = enable]

update_controller_enabled(g, enable) ==
  [g EXCEPT !.controller_enabled = enable,
            !.display_enabled    = @ /\ enable]

\* The two conditions of update_display_enabled.
display_enable_permitted(g, enable) ==
  enable => g.controller_enabled /\ g.committed_state # NoState

\* The state part of validate_buffer_request; the geometry part depends only
\* on the request.
buffer_state_ready(g) ==
  /\ g.committed_state # NoState
  /\ g.controller_enabled
  /\ g.display_enabled

(***************************************************************************)
(* What a lifecycle event does to the record before the event loop sees it *)
(* (the Enable, Bind, Unbind, Suspend, Resume and Disable arms of event).  *)
(***************************************************************************)
LifecycleReset(g, e) ==
  CASE e = "Enable" ->
         reset_protocol_state(reset_status(reset_connector_status_changed(
           usb_activation_transition(g))))
    [] e = "Bind"   ->
         reset_protocol_state(reset_status(reset_connector_status_changed(g)))
    [] e = "Resume" -> handle_resume_transition(g)
    [] OTHER        -> handle_suspend_transition(g)

\* A STATE_CHECK the validation refuses, and a STATE_COMMIT with nothing to
\* commit: both are reported to the loop as a protocol invalidation.
reject_state_check(g) ==
  latch_status(clear_pending_state(g), "INVALID_PARAMETER")
reject_state_commit(g) == latch_status(g, "INVALID_PARAMETER")

(***************************************************************************)
(* The requests that leave the receive path alone.                         *)
(***************************************************************************)
\* GET_STATUS reads the latch and changes nothing.
GetStatus == UNCHANGED gud

\* Descriptor, formats, properties, connectors, modes, EDID, force-detect.
GetInformation == gud' = mark_success(gud)

GetConnectorStatus ==
  gud' = mark_success([gud EXCEPT !.connector_changed = FALSE])

UnsupportedRequest == gud' = latch_status(gud, "REQUEST_NOT_SUPPORTED")

SetStateCheck(m) ==
  /\ gud.next_generation < MaxGeneration
  /\ gud' = mark_success(store_pending_state(gud, m))

SetStateCommit ==
  /\ gud.pending_state # NoState
  /\ gud' = mark_success(commit_pending_state(gud))

SetControllerEnable(enable) ==
  gud' = mark_success(update_controller_enabled(gud, enable))

SetDisplayEnable(enable) ==
  \/ /\ display_enable_permitted(gud, enable)
     /\ gud' = mark_success([gud EXCEPT !.display_enabled = enable])
  \/ /\ ~display_enable_permitted(gud, enable)
     /\ gud' = latch_status(gud, "INVALID_PARAMETER")

\* A malformed enable payload.
SetEnableMalformed == gud' = latch_status(gud, "INVALID_PARAMETER")

\* SET_BUFFER refused by the validation.
SetBufferInvalid == gud' = latch_status(gud, "INVALID_PARAMETER")

(***************************************************************************)
(* The requests that reach the loop as an invalidation, on their own.      *)
(***************************************************************************)
SetStateCheckRejected == gud' = reject_state_check(gud)

SetStateCommitRejected ==
  /\ gud.pending_state = NoState
  /\ gud' = reject_state_commit(gud)

LifecycleEvents == {"Bind", "Unbind", "Enable", "Disable", "Suspend", "Resume"}

Lifecycle(e) ==
  /\ e = "Enable" => gud.activation < MaxActivation
  /\ gud' = LifecycleReset(gud, e)

(***************************************************************************)
(* The protocol on its own, driven by an arbitrary host.                   *)
(***************************************************************************)
ProtocolInit == gud = InitialProtocolState

ProtocolNext ==
  \/ GetStatus
  \/ GetInformation
  \/ GetConnectorStatus
  \/ UnsupportedRequest
  \/ \E m \in Modes : SetStateCheck(m)
  \/ SetStateCheckRejected
  \/ SetStateCommit
  \/ SetStateCommitRejected
  \/ \E b \in BOOLEAN : SetControllerEnable(b)
  \/ \E b \in BOOLEAN : SetDisplayEnable(b)
  \/ SetEnableMalformed
  \/ SetBufferInvalid
  \/ \E e \in LifecycleEvents : Lifecycle(e)

ProtocolSpec == ProtocolInit /\ [][ProtocolNext]_gud

(***************************************************************************)
(* Properties.                                                             *)
(***************************************************************************)

\* Every field of the protocol record has its type.
ProtocolTypeOK == gud \in ProtocolState

\* SET_DISPLAY_ENABLE is only ever in force over an enabled controller and a
\* committed mode, however enables, commits and resets are interleaved: a
\* SET_BUFFER admitted on display_enabled always has a mode to validate with.
DisplayNeedsMode ==
  gud.display_enabled =>
    gud.controller_enabled /\ gud.committed_state # NoState

\* An error shown by GET_STATUS is always one the next success may clear:
\* no sequence of latches, resets and successes leaves an error stuck.
ErrorsAreClearable == (gud.status # "OK") <=> gud.clear_on_success

\* Generations identify checks: a pending check is the newest generation, it
\* is newer than the committed one, and no commit outruns the counter.  The
\* dynamic mode planner matches a commit to its plan by this number alone.
GenerationsOrdered ==
  /\ gud.pending_state # NoState =>
       gud.pending_state.generation = gud.next_generation
  /\ gud.committed_state # NoState =>
       gud.committed_state.generation \in 1 .. gud.next_generation
  /\ gud.pending_state # NoState /\ gud.committed_state # NoState =>
       gud.committed_state.generation < gud.pending_state.generation

\* A committed mode is never replaced by an older or equal generation, and
\* what is committed is exactly the check that was pending.
CommitMovesForward ==
  [][ gud'.committed_state \notin {gud.committed_state, NoState} =>
        /\ gud'.committed_state = gud.pending_state
        /\ gud.committed_state # NoState =>
             gud'.committed_state.generation > gud.committed_state.generation
    ]_gud
=============================================================================
