----------------------------- MODULE AioDriver -----------------------------
(***************************************************************************)
(* The Linux AIO driver of the vendored usb-gadget crate (function/custom/ *)
(* aio/mod.rs): the daemon's thread submits operations and harvests        *)
(* completions, a driver thread sleeps on a semaphore eventfd, drains the  *)
(* command channel, fetches the kernel's events and forwards them.  The    *)
(* three run concurrently, and a completion may reach the driver thread    *)
(* before the command that announces its operation.                        *)
(*                                                                         *)
(* FunctionFs abstracts a driver of one place to one AIO slot; SlotOrder,  *)
(* SpaceIsConserved and CompletionDelivered are what that relies on.       *)
(***************************************************************************)
EXTENDS Naturals, Sequences, FiniteSets

CONSTANTS
  QueueLength,  \* 1 for the bulk-OUT endpoint
  MaxOps        \* bound: operations the daemon submits

ASSUME DriverAssumption == QueueLength \in Nat \ {0} /\ MaxOps \in Nat

VARIABLES
  caller,       \* where the daemon's thread is inside submit or drop
  space,        \* free places in the queue
  next_id,
  cmds,         \* the command channel
  closed,       \* the command sender has been dropped
  eventfd,      \* the semaphore's value
  inflight,     \* operations the kernel owns
  cancelled,    \* those of them it has been asked to give back
  ring,         \* the kernel's completed events
  thread,       \* where the driver thread is
  active,       \* operations the driver thread knows
  event_queue,  \* events fetched and not yet forwarded
  done          \* the completion channel

callerVars == <<caller, space, next_id, closed>>
kernelVars == <<inflight, cancelled, ring>>
threadVars == <<thread, active, event_queue>>
vars == <<callerVars, cmds, eventfd, kernelVars, threadVars, done>>

Ids == 0 .. MaxOps - 1
Cmd == [kind : {"Insert", "Remove", "CancelAll"}, id : Ids \cup {MaxOps}]

DriverInit ==
  /\ caller = "idle" /\ space = QueueLength /\ next_id = 0
  /\ cmds = <<>> /\ closed = FALSE /\ eventfd = 0
  /\ inflight = {} /\ cancelled = {} /\ ring = <<>>
  /\ thread = "waiting" /\ active = {} /\ event_queue = <<>> /\ done = <<>>

Send(kind, id) == cmds' = Append(cmds, [kind |-> kind, id |-> id])

(***************************************************************************)
(* submit, in the daemon's thread: announce the operation, hand it to the  *)
(* kernel, then wake the driver thread.                                    *)
(***************************************************************************)
\* The operation under way.
current == next_id - 1

\* Mutation: the operation is not announced before the kernel has it.
SubmitUnannounced ==
  /\ caller = "idle" /\ space > 0 /\ next_id < MaxOps
  /\ next_id' = next_id + 1
  /\ caller' = "announced"
  /\ UNCHANGED <<space, closed, cmds, eventfd, kernelVars, threadVars, done>>

\* Mutation: a full queue is not refused.
SubmitOverfull ==
  /\ caller = "idle" /\ next_id < MaxOps
  /\ Send("Insert", next_id)
  /\ next_id' = next_id + 1
  /\ caller' = "announced"
  /\ UNCHANGED <<space, closed, eventfd, kernelVars, threadVars, done>>

SubmitAnnounces ==
  /\ caller = "idle" /\ space > 0 /\ next_id < MaxOps
  /\ Send("Insert", next_id)
  /\ next_id' = next_id + 1
  /\ caller' = "announced"
  /\ UNCHANGED <<space, closed, eventfd, kernelVars, threadVars, done>>

KernelAccepts ==
  /\ caller = "announced"
  /\ inflight' = inflight \cup {current}
  /\ caller' = "accepted"
  /\ UNCHANGED <<space, next_id, closed, cmds, eventfd, cancelled, ring,
                 threadVars, done>>

\* Mutation: the driver thread is not woken.
SubmitUnwoken ==
  /\ caller = "accepted"
  /\ space' = space - 1
  /\ caller' = "idle"
  /\ UNCHANGED <<next_id, closed, cmds, eventfd, kernelVars, threadVars, done>>

SubmitWakes ==
  /\ caller = "accepted"
  /\ space' = space - 1
  /\ eventfd' = eventfd + 1
  /\ caller' = "idle"
  /\ UNCHANGED <<next_id, closed, cmds, kernelVars, threadVars, done>>

\* io_submit refuses: the announcement is withdrawn.
KernelRefuses ==
  /\ caller = "announced"
  /\ Send("Remove", current)
  /\ caller' = "withdrawn"
  /\ UNCHANGED <<space, next_id, closed, eventfd, kernelVars, threadVars, done>>

WithdrawWakes ==
  /\ caller = "withdrawn"
  /\ eventfd' = eventfd + 1
  /\ caller' = "idle"
  /\ UNCHANGED <<space, next_id, closed, cmds, kernelVars, threadVars, done>>

\* Mutation: the place in the queue is not given back.
CompletedKeepsSpace ==
  /\ caller = "idle" /\ done # <<>>
  /\ done' = Tail(done)
  /\ UNCHANGED <<callerVars, cmds, eventfd, kernelVars, threadVars>>

try_completed ==
  /\ caller = "idle" /\ done # <<>>
  /\ done' = Tail(done)
  /\ space' = space + 1
  /\ UNCHANGED <<caller, next_id, closed, cmds, eventfd, kernelVars, threadVars>>

(***************************************************************************)
(* Drop: cancel_all, and only then is the channel closed.                  *)
(***************************************************************************)
\* Mutation: nothing is cancelled.
DropOnly ==
  /\ caller = "idle"
  /\ caller' = "cancelling"
  /\ UNCHANGED <<space, next_id, closed, cmds, eventfd, kernelVars, threadVars,
                 done>>

DropCancels ==
  /\ caller = "idle"
  /\ Send("CancelAll", MaxOps)
  /\ caller' = "cancelling"
  /\ UNCHANGED <<space, next_id, closed, eventfd, kernelVars, threadVars, done>>

DropWakes ==
  /\ caller = "cancelling"
  /\ eventfd' = eventfd + 1
  /\ caller' = "closing"
  /\ UNCHANGED <<space, next_id, closed, cmds, kernelVars, threadVars, done>>

DropCloses ==
  /\ caller = "closing"
  /\ closed' = TRUE
  /\ caller' = "dropped"
  /\ UNCHANGED <<space, next_id, cmds, eventfd, kernelVars, threadVars, done>>

(***************************************************************************)
(* The kernel completes an operation and signals the eventfd.              *)
(***************************************************************************)
KernelCompletes(id) ==
  /\ id \in inflight
  /\ inflight' = inflight \ {id}
  /\ cancelled' = cancelled \ {id}
  /\ ring' = Append(ring, id)
  /\ eventfd' = eventfd + 1
  /\ UNCHANGED <<callerVars, cmds, threadVars, done>>

(***************************************************************************)
(* The driver thread.                                                      *)
(***************************************************************************)
ThreadWakes ==
  /\ thread = "waiting" /\ eventfd > 0
  /\ eventfd' = eventfd - 1
  /\ thread' = "commands"
  /\ UNCHANGED <<callerVars, cmds, kernelVars, active, event_queue, done>>

\* The thread takes the next command of this kind.
Takes(kind) ==
  /\ thread = "commands" /\ cmds # <<>>
  /\ Head(cmds).kind = kind
  /\ cmds' = Tail(cmds)

\* The two panics: a duplicate insertion and an unknown removal.
Inserts ==
  /\ Takes("Insert")
  /\ \/ Head(cmds).id \notin active /\ UNCHANGED thread
     \/ Head(cmds).id \in active /\ thread' = "panicked"
  /\ active' = active \cup {Head(cmds).id}
  /\ UNCHANGED <<callerVars, eventfd, kernelVars, event_queue, done>>

Removes ==
  /\ Takes("Remove")
  /\ \/ Head(cmds).id \in active /\ UNCHANGED thread
     \/ Head(cmds).id \notin active /\ thread' = "panicked"
  /\ active' = active \ {Head(cmds).id}
  /\ UNCHANGED <<callerVars, eventfd, kernelVars, event_queue, done>>

\* io_cancel fails for an operation already completed.  For the others it
\* returns its event at once, or the kernel completes the operation soon.
CancelsAll ==
  /\ Takes("CancelAll")
  /\ \E order \in UNION {[1 .. n -> active \cap inflight] :
                           n \in 0 .. Cardinality(active \cap inflight)} :
       LET now == {order[i] : i \in DOMAIN order}
       IN  /\ Cardinality(now) = Len(order)
           /\ done' = done \o order
           /\ active' = active \ now
           /\ inflight' = inflight \ now
           /\ cancelled' = (active \cap inflight) \ now
  /\ UNCHANGED <<callerVars, eventfd, ring, thread, event_queue>>

CommandsDrained ==
  /\ thread = "commands" /\ cmds = <<>>
  /\ thread' = IF closed /\ active = {} THEN "exited" ELSE "events"
  /\ UNCHANGED <<callerVars, cmds, eventfd, kernelVars, active, event_queue,
                 done>>

FetchEvents ==
  /\ thread = "events"
  /\ event_queue' = event_queue \o ring
  /\ ring' = <<>>
  /\ thread' = "forwarding"
  /\ UNCHANGED <<callerVars, cmds, eventfd, inflight, cancelled, active, done>>

ForwardEvent ==
  /\ thread = "forwarding"
  /\ event_queue # <<>> /\ Head(event_queue) \in active
  /\ active' = active \ {Head(event_queue)}
  /\ done' = Append(done, Head(event_queue))
  /\ event_queue' = Tail(event_queue)
  /\ UNCHANGED <<callerVars, cmds, eventfd, kernelVars, thread>>

\* Mutation: an event whose operation is not known yet is thrown away.
ForwardingForgets ==
  /\ thread = "forwarding"
  /\ event_queue # <<>> => Head(event_queue) \notin active
  /\ event_queue' = <<>>
  /\ thread' = "waiting"
  /\ UNCHANGED <<callerVars, cmds, eventfd, kernelVars, active, done>>

\* An event whose operation is not known yet waits for the next round.
ForwardingStops ==
  /\ thread = "forwarding"
  /\ event_queue # <<>> => Head(event_queue) \notin active
  /\ thread' = "waiting"
  /\ UNCHANGED <<callerVars, cmds, eventfd, kernelVars, active, event_queue,
                 done>>

Caller ==
  \/ SubmitAnnounces \/ KernelAccepts \/ SubmitWakes
  \/ KernelRefuses \/ WithdrawWakes
  \/ try_completed
  \/ DropCancels \/ DropWakes \/ DropCloses

Thread ==
  \/ ThreadWakes \/ Inserts \/ Removes \/ CancelsAll \/ CommandsDrained
  \/ FetchEvents \/ ForwardEvent \/ ForwardingStops

DriverNext ==
  \/ Caller
  \/ Thread
  \/ \E id \in inflight : KernelCompletes(id)

DriverSpec == DriverInit /\ [][DriverNext]_vars

\* The driver thread runs, a call of the daemon returns, and the kernel gives
\* a cancelled operation back.  An operation that is not cancelled may stay in
\* the kernel for ever.
FairDriverSpec ==
  /\ DriverSpec
  /\ WF_vars(Thread)
  /\ WF_vars(caller # "idle" /\ Caller)
  /\ \A id \in Ids : WF_vars(id \in cancelled /\ KernelCompletes(id))

(***************************************************************************)
(* Properties.                                                             *)
(***************************************************************************)

\* Every variable has its type.
DriverTypeOK ==
  /\ caller \in {"idle", "announced", "accepted", "withdrawn", "cancelling",
                 "closing", "dropped"}
  /\ space \in 0 .. QueueLength
  /\ next_id \in 0 .. MaxOps
  /\ cmds \in Seq(Cmd)
  /\ closed \in BOOLEAN
  /\ eventfd \in Nat
  /\ inflight \subseteq Ids /\ cancelled \subseteq inflight
  /\ active \subseteq Ids
  /\ ring \in Seq(Ids) /\ event_queue \in Seq(Ids) /\ done \in Seq(Ids)
  /\ thread \in {"waiting", "commands", "events", "forwarding", "exited",
                 "panicked"}

\* No interleaving of submissions, refusals and completions makes the driver
\* thread meet a duplicate insertion or an unknown removal.
ThreadNeverPanics == thread # "panicked"

\* The driver thread never sleeps on an eventfd nobody will signal while it
\* has a command to obey or an event to forward.
NoLostWakeup ==
  thread = "waiting" /\ eventfd = 0 /\ caller \in {"idle", "dropped"} =>
    cmds = <<>> /\ ring = <<>> /\ event_queue = <<>>

\* Every place taken in the queue is an operation that is in the kernel, on
\* its way through the driver thread, or waiting to be harvested.
SpaceIsConserved ==
  QueueLength - space + (IF caller = "accepted" THEN 1 ELSE 0)
    = Cardinality(inflight) + Len(ring) + Len(event_queue) + Len(done)

\* Where an operation is, in the terms of FunctionFs's AIO slot.
Held(queue, id) == \E i \in DOMAIN queue : queue[i] = id

Stage(id) ==
  CASE id \in inflight                              -> "queued"
    [] Held(ring, id) \/ Held(event_queue, id)      -> "landed"
    [] Held(done, id)                               -> "delivered"
    [] OTHER                                        -> "free"

\* The steps FunctionFs lets its slot take; io_cancel may deliver at once.
SlotSteps ==
  {<<"free", "queued">>, <<"queued", "landed">>, <<"landed", "delivered">>,
   <<"delivered", "free">>, <<"queued", "delivered">>}

\* Every operation goes through the stages of the AIO slot in their order, and
\* one that enters finds a place: what the daemon's one-slot picture of a
\* bulk receive rests on.
SlotOrder ==
  [][ /\ \A id \in Ids : Stage(id)' # Stage(id) =>
                           (<<Stage(id), Stage(id)'>> \in SlotSteps)
      /\ inflight' \subseteq inflight \/ space > 0 ]_vars

\* A completion the kernel has posted reaches the daemon's channel.
CompletionDelivered ==
  \A id \in Ids : Held(ring, id) ~> Held(done, id)

\* "All outstanding operations are cancelled when this is dropped."
DropReturnsBuffers == (caller = "dropped") ~> (inflight = {})
=============================================================================
