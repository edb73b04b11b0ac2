----------------------------- MODULE FunctionFs -----------------------------
(***************************************************************************)
(* What the daemon relies on below it: the FunctionFS EP0 event queue of   *)
(* the kernel and the one-slot AIO queue of the bulk-OUT endpoint.  The    *)
(* kernel is not in the repository and is modelled from how the daemon     *)
(* uses it; the AIO slot abstracts the driver AioDriver models in detail.  *)
(*                                                                         *)
(* The kernel keeps at most four undelivered events.  A new SETUP replaces *)
(* an unread one; SUSPEND and RESUME replace older power events; BIND,     *)
(* UNBIND, ENABLE and DISABLE discard everything but power events, so a    *)
(* DISABLE may never be seen when an ENABLE follows it quickly.            *)
(***************************************************************************)
EXTENDS Naturals, Sequences

PowerEvents == {"Suspend", "Resume"}
SessionEvents == {"Bind", "Unbind", "Enable", "Disable"}

Requests ==
  {"GET_STATUS", "GET_INFORMATION", "GET_CONNECTOR_STATUS",
   "SET_STATE_CHECK", "SET_STATE_COMMIT", "SET_CONTROLLER_ENABLE",
   "SET_DISPLAY_ENABLE", "SET_BUFFER", "UNSUPPORTED"}

GetRequests == {"GET_STATUS", "GET_INFORMATION", "GET_CONNECTOR_STATUS"}

Events == PowerEvents \cup SessionEvents \cup Requests

\* Position i of q if it holds an event of K, otherwise nothing.
KeepAt(q, i, K) == IF i \in DOMAIN q /\ q[i] \in K THEN <<q[i]>> ELSE <<>>

\* The events of q that are in K, in order.
Keep(q, K) ==
  KeepAt(q, 1, K) \o KeepAt(q, 2, K) \o KeepAt(q, 3, K) \o KeepAt(q, 4, K)

Survivors(e) ==
  CASE e \in SessionEvents -> PowerEvents
    [] e = "Resume"        -> Events \ PowerEvents
    [] e = "Suspend"       -> Events \ {"Suspend"}
    [] OTHER               -> Events \ Requests

Enqueue(q, e) == Append(Keep(q, Survivors(e)), e)

(***************************************************************************)
(* The AIO slot: queued in the kernel, landed (the kernel is done with it) *)
(* and delivered by the completion thread to the daemon's channel.  The    *)
(* slot is only free again once the daemon has harvested the completion.   *)
(***************************************************************************)
AioSlot ==
  [ slot   : {"free", "queued", "landed", "delivered"},
    op     : Nat,
    result : {"exact", "bad"} ]

InitialAio == [slot |-> "free", op |-> 0, result |-> "bad"]

Submit(a) == [slot |-> "queued", op |-> a.op + 1, result |-> "bad"]

Land(a, result) == [a EXCEPT !.slot = "landed", !.result = result]

\* Disabling the endpoint completes a queued request with an error.
Flush(a) == IF a.slot = "queued" THEN Land(a, "bad") ELSE a

Deliver(a) == [a EXCEPT !.slot = "delivered"]

Harvest(a) == [a EXCEPT !.slot = "free", !.result = "bad"]
=============================================================================
