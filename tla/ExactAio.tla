------------------------------ MODULE ExactAio ------------------------------
(***************************************************************************)
(* The endpoint layer's record of its single exact bulk-OUT AIO request:   *)
(* ExactAioTransaction of gadget/src/lib.rs.  An operator per method, from *)
(* record to record; a method that can fail has a Can... predicate for its *)
(* ensure!s.  Zero stands for None in the operation and in the activation  *)
(* generation: the model numbers accepted operations from 1 (the driver    *)
(* counts every submission from 0), and a request can only be armed after  *)
(* an ENABLE, that is from generation 1 on.  Payload bytes are abstracted  *)
(* to "the completion has the expected length".                            *)
(***************************************************************************)
EXTENDS Naturals

ExactAioState ==
  {"Idle", "Arming", "InFlight", "Processing", "Poisoned",
   "AbortedBySessionDestruction"}

ExactAioTransaction ==
  [ state        : ExactAioState,
    epoch_id     : Nat,
    sequence     : Nat,
    operation    : Nat,
    generation   : Nat,
    status_ready : BOOLEAN ]

InitialExactAio ==
  [ state |-> "Idle", epoch_id |-> 0, sequence |-> 0, operation |-> 0,
    generation |-> 0, status_ready |-> FALSE ]

CanBeginArm(x) == x.state = "Idle"

\* Mutation: the sequence number is not advanced.
begin_arm_same_sequence(x, activation) ==
  [x EXCEPT !.generation = activation, !.state = "Arming"]

begin_arm(x, activation) ==
  [x EXCEPT !.sequence = @ + 1, !.generation = activation, !.state = "Arming"]

submission_accepted_operation(x, op) ==
  [x EXCEPT !.operation = op, !.status_ready = FALSE, !.state = "InFlight"]

submission_rejected(x) ==
  [x EXCEPT !.state = "Idle", !.generation = 0, !.status_ready = FALSE]

\* status_sent: the first GET_STATUS after acceptance answers the SET_BUFFER;
\* every other one is ignored, and a non-OK first one is an error.
AwaitsStatus(x) == x.state = "InFlight" /\ ~x.status_ready

status_sent(x) == IF AwaitsStatus(x) THEN [x EXCEPT !.status_ready = TRUE] ELSE x

\* Mutation: a payload is accepted before its SET_BUFFER was answered.
CompletionUnanswered(x, op, activation, exact_length) ==
  /\ x.state = "InFlight"
  /\ x.operation = op
  /\ x.generation = activation
  /\ exact_length

\* The five tests of completion_for_operation, in any order: failing one of
\* them poisons the transaction.
CompletionMatches(x, op, activation, exact_length) ==
  /\ x.state = "InFlight"
  /\ x.operation = op
  /\ x.generation = activation
  /\ x.status_ready
  /\ exact_length

completion_for_operation(x) == [x EXCEPT !.state = "Processing"]

CanFinishProcessing(x) == x.state = "Processing"

Released(x, next) ==
  [x EXCEPT !.state = next, !.operation = 0, !.generation = 0,
            !.status_ready = FALSE]

finish_processing(x) == Released(x, "Idle")

poison(x) == [x EXCEPT !.state = "Poisoned"]

\* Mutation: a contained transaction cannot be retired.
CanRetireUnpoisoned(x) == x.state \in {"Arming", "InFlight"}

CanRetire(x) == x.state \in {"Arming", "InFlight", "Poisoned"}

retire_after_session_destruction(x) == Released(x, "AbortedBySessionDestruction")

CanBeginUsbEpoch(x, epoch) ==
  /\ x.state \in {"Idle", "AbortedBySessionDestruction"}
  /\ epoch > x.epoch_id

begin_usb_epoch(x, epoch) == [x EXCEPT !.epoch_id = epoch, !.state = "Idle"]
=============================================================================
