----------------------------- MODULE ScanoutPool -----------------------------
(***************************************************************************)
(* Which framebuffers exist and which one the CRTC scans out               *)
(* (drm/src/scanout.rs and the STATE_CHECK, STATE_COMMIT and lifecycle     *)
(* arms of the event loop in drm/src/main.rs).                             *)
(*                                                                         *)
(* The daemon keeps three slots of two content buffers each and one        *)
(* waiting buffer.  Slot 0 is the baseline.  A STATE_CHECK prepares a      *)
(* plan, and for an exact route a candidate in a free slot; the            *)
(* STATE_COMMIT of the same snapshot carries the plan out.  Any DRM call   *)
(* may fail, and a removal may be refused.                                 *)
(*                                                                         *)
(* A snapshot is told from another one by its generation, which is never   *)
(* used again: a plan only remembers whether its snapshot is still the     *)
(* pending one.                                                            *)
(***************************************************************************)
EXTENDS RouteCatalog, FiniteSets

CONSTANTS
  Connectors,   \* the mode lists the connector may report at start-up
  Bytes,        \* the size in bytes of one buffer, for every frame size
  None,         \* stands for Option::None
  MaxRefusals   \* bound: refused removals

\* The plan of a snapshot, which is fresh while that snapshot is the pending
\* one.  Only an exact candidate has a slot.
PendingPlan ==
  [ fresh : BOOLEAN,
    kind  : {"ExactActiveNoOp", "ExactCandidate", "ScaledBaseline",
             "ScaledBaselineSwitch", "ScaledCurrentAfterFailure"},
    slot  : {0, 1, 2, None},
    key   : Key ]

ASSUME PoolAssumption ==
  /\ Connectors \subseteq Seq(ConnectorMode) \ {<<>>}
  /\ Bytes \in [Sizes -> Nat \ {0}]
  /\ MaxRefusals \in Nat
  /\ None \notin Key \cup Nat \cup PendingPlan

VARIABLES
  modes,            \* the connector's modes
  running,          \* main has not returned
  proto,            \* gud-gadget: the pending snapshot's key, a committed mode
  receive,          \* the receive path: "Idle", "Owned" or "Contained"
  pool,             \* the ScanoutManager
  routes,           \* the DynamicRouteState
  crtc,             \* the framebuffer it is set to, the one it still scans
                    \* out, and its mode
  visible_surface

vars == <<modes, running, proto, receive, pool, routes, crtc, visible_surface>>

Slots == 0 .. 2
Waiting == 3    \* stands for the waiting scanout where an owner is meant

\* DRM objects: a buffer and a framebuffer for each of an owner's buffers.
ContentObjects == 4
WaitingObjects == 2

catalog == build(modes)
SizeOf(m) == modes[m].timing.size
ContentBytes(m) == 2 * Bytes[SizeOf(m)]
WaitingBytes(m) == Bytes[SizeOf(m)]
ActiveMode == pool.slots[pool.active]
is_waiting == visible_surface # "Content"

(***************************************************************************)
(* ScanoutAllocation and WaitingScanout.  A release goes on after a        *)
(* refusal; the refused object stays in the kernel and nobody knows it any *)
(* more.                                                                   *)
(***************************************************************************)
Refused(p, n) ==
  { r \in 0 .. n : p.refusals + r <= MaxRefusals }

release(p, n, r) ==
  [p EXCEPT !.objects = @ - (n - r), !.refusals = @ + r]

\* Mutation: what was made before the failure is kept.
create_fails_dirty(p, n) == { [p EXCEPT !.objects = @ + c] : c \in 0 .. n }

\* One of the calls that make, map and check the n objects fails, and what
\* was made before is released.
create_fails(p, n) ==
  UNION { { release([p EXCEPT !.objects = @ + c], c, r) : r \in Refused(p, c) } :
          c \in 0 .. n }

\* Stages an allocation for mode m as the candidate, in slot s.
stage_candidate(p, s, m) ==
  [p EXCEPT !.slots[s] = m, !.candidate = s,
            !.objects = @ + ContentObjects, !.live_bytes = @ + ContentBytes(m)]

\* Empties slot s.
release_slot(p, s, r) ==
  release([p EXCEPT !.slots[s] = None, !.live_bytes = @ - ContentBytes(p.slots[s])],
          ContentObjects, r)

release_candidate(p, r) ==
  IF p.candidate = None
  THEN p
  ELSE [release_slot(p, p.candidate, r) EXCEPT !.candidate = None]

CandidateRefused(p) ==
  IF p.candidate = None THEN {0} ELSE Refused(p, ContentObjects)

activate_slot(p, s) ==
  [p EXCEPT !.active = s,
            !.candidate = IF @ = s THEN None ELSE @]

InactiveRefused(p, s) == IF s = 0 THEN {0} ELSE Refused(p, ContentObjects)

\* Mutation: the replaced slot is kept.
release_inactive_never(p, s, r) == p

\* The slot the panel has just left; the baseline stays.
release_inactive(p, s, r) == IF s = 0 THEN p ELSE release_slot(p, s, r)

(***************************************************************************)
(* ensure_waiting_mode: the waiting scanout is replaced when its mode is   *)
(* not m.  The replacement is made and rendered first; that the old one    *)
(* cannot be removed is only logged.                                       *)
(***************************************************************************)
replaced(p, m) ==
  [p EXCEPT !.waiting = m, !.objects = @ + WaitingObjects,
            !.live_bytes = @ - WaitingBytes(p.waiting) + WaitingBytes(m)]

ensure_waiting_mode(p, m) ==
  IF p.waiting = m
  THEN {p}
  ELSE { release(replaced(p, m), WaitingObjects, r) : r \in Refused(p, WaitingObjects) }

ensure_waiting_mode_fails(p, m) ==
  IF p.waiting = m THEN {} ELSE create_fails(p, WaitingObjects)

\* set_crtc takes effect before it returns.
set_crtc(owner, m) == crtc' = [set |-> owner, scanned |-> owner, mode |-> m]

\* page_flip returns before the vertical blank; the set_crtc it falls back to
\* does not.
page_flip(owner) ==
  crtc' \in { [crtc EXCEPT !.set = owner, !.scanned = o] : o \in {crtc.scanned, owner} }

(***************************************************************************)
(* Start-up: the baseline slot and the waiting scanout in the connector's  *)
(* first mode, with the waiting scanout on screen before the gadget is     *)
(* bound.                                                                  *)
(***************************************************************************)
Init ==
  /\ modes \in Connectors
  /\ running = TRUE
  /\ proto = [pending |-> None, committed |-> FALSE]
  /\ receive = "Idle"
  /\ pool = [ slots      |-> [s \in Slots |-> IF s = 0 THEN 1 ELSE None],
              active     |-> 0, candidate |-> None, waiting |-> 1,
              live_bytes |-> ContentBytes(1) + WaitingBytes(1),
              objects    |-> ContentObjects + WaitingObjects, refusals |-> 0 ]
  /\ routes = [ plan |-> None, failed |-> {}, route |-> None,
                current_physical_key |-> ModeKey(modes[1]),
                candidate_key |-> None ]
  /\ crtc = [set |-> Waiting, scanned |-> Waiting, mode |-> 1]
  /\ visible_surface = "WaitingStartup"

(***************************************************************************)
(* STATE_CHECK.  EP0 is not served while the receive path is contained.    *)
(***************************************************************************)
ServesEP0 == running /\ receive # "Contained"

Exact(k) == catalog[k].route # ScaledFallback

\* The plan of an older snapshot.
Stale(plan) == IF plan = None THEN None ELSE [plan EXCEPT !.fresh = FALSE]

failed_key(k) == <<k, routes.current_physical_key>>

IsActive(k) == Exact(k) /\ k = routes.current_physical_key
IsCandidate(k) ==
  /\ Exact(k) /\ ~IsActive(k)
  /\ routes.candidate_key = k /\ pool.candidate # None

\* Mutation: the cache of failures is not consulted.
IsCachedNever(k) == FALSE

IsCached(k) ==
  Exact(k) /\ ~IsActive(k) /\ ~IsCandidate(k) /\ failed_key(k) \in routes.failed

\* The keys of the modes a host may ask for and the validation lets it.
CheckedKeys ==
  { ModeKey(wire) : wire \in { w \in DisplayMode : validate_state_check(catalog, w) } }

Checks(k) ==
  /\ ServesEP0
  /\ proto' = [proto EXCEPT !.pending = k]
  /\ UNCHANGED <<modes, running, receive, crtc, visible_surface>>

Plans(kind, s, k, candidate_key) ==
  routes' = [routes EXCEPT
    !.plan = [fresh |-> TRUE, kind |-> kind, slot |-> s, key |-> k],
    !.candidate_key = candidate_key]

\* The free slot next to the active one.
candidate_slot == IF pool.active = 1 THEN 2 ELSE 1

\* Mutation: the active slot is not looked at.
PlanKindStays(k) ==
  CASE IsActive(k) -> "ExactActiveNoOp"
    [] IsCached(k) -> "ScaledCurrentAfterFailure"
    [] OTHER       -> "ScaledBaseline"

\* The plans that need no allocation.
PlanKind(k) ==
  CASE IsActive(k)     -> "ExactActiveNoOp"
    [] IsCached(k)     -> "ScaledCurrentAfterFailure"
    [] pool.active = 0 -> "ScaledBaseline"
    [] OTHER           -> "ScaledBaselineSwitch"

CheckWithoutAllocation(k) ==
  /\ Checks(k)
  /\ k \in DOMAIN catalog
  /\ IsActive(k) \/ IsCached(k) \/ ~Exact(k)
  /\ pool' = release_candidate(pool, 0)
  /\ Plans(PlanKind(k), None, k, None)

CheckKeepsCandidate(k) ==
  /\ Checks(k)
  /\ k \in DOMAIN catalog /\ IsCandidate(k)
  /\ Plans("ExactCandidate", pool.candidate, k, k)
  /\ UNCHANGED pool

NeedsCandidate(k) ==
  k \in DOMAIN catalog /\ Exact(k) /\ ~IsActive(k) /\ ~IsCandidate(k) /\ ~IsCached(k)

CheckStages(k) ==
  /\ Checks(k)
  /\ NeedsCandidate(k)
  /\ pool' = stage_candidate(release_candidate(pool, 0), candidate_slot, catalog[k].route)
  /\ Plans("ExactCandidate", candidate_slot, k, k)

CheckCannotStage(k) ==
  /\ Checks(k)
  /\ NeedsCandidate(k)
  /\ pool' \in create_fails(release_candidate(pool, 0), ContentObjects)
  /\ routes' = [routes EXCEPT
       !.plan = [fresh |-> TRUE, kind |-> "ScaledCurrentAfterFailure",
                 slot |-> None, key |-> k],
       !.failed = @ \cup {failed_key(k)}, !.candidate_key = None]

\* The preparation ends with an error, which is only logged: the mode has no
\* route, or the old candidate is not released cleanly.
CheckErrs(k) ==
  /\ Checks(k)
  /\ \E r \in CandidateRefused(pool) :
       LET unrouted == k \notin DOMAIN catalog
       IN  /\ unrouted \/ (r > 0 /\ ~IsCandidate(k))
           /\ pool' = IF unrouted THEN pool ELSE release_candidate(pool, r)
           /\ routes' = [routes EXCEPT
                !.plan = Stale(@), !.candidate_key = IF unrouted THEN @ ELSE None]

(***************************************************************************)
(* STATE_COMMIT of the pending snapshot.                                   *)
(***************************************************************************)
Commits ==
  /\ ServesEP0
  /\ proto.pending # None
  /\ proto' = [pending |-> None, committed |-> TRUE]
  /\ UNCHANGED <<modes, receive, visible_surface>>

PlanIs(kind) == routes.plan # None /\ routes.plan.fresh /\ routes.plan.kind = kind

\* Mutation: the key of the new mode is not recorded.
RecordsRouteOnly(route, key, failed) ==
  routes' = [routes EXCEPT !.plan = None, !.route = route, !.failed = @ \cup failed,
                           !.candidate_key = None]

\* record_committed_route.
Records(route, key, failed) ==
  routes' = [routes EXCEPT !.plan = None, !.route = route, !.failed = @ \cup failed,
                           !.current_physical_key = key, !.candidate_key = None]

current == routes.current_physical_key

\* Mutation: the waiting surface is left as it was.
SettlesOnly(p, c) == pool' = p /\ crtc' = c /\ UNCHANGED running

\* The end of a commit that left the pool p and the CRTC c: a waiting surface
\* is presented again, and a failure to do so ends the daemon.
Settles(p, c) ==
  LET m == p.slots[p.active]
  IN  \/ /\ ~is_waiting
         /\ pool' = p /\ crtc' = c /\ UNCHANGED running
      \/ /\ is_waiting
         /\ pool' \in ensure_waiting_mode(p, m)
         /\ set_crtc(Waiting, m)
         /\ UNCHANGED running
      \/ /\ is_waiting
         /\ pool' \in ensure_waiting_mode(p, m) \cup ensure_waiting_mode_fails(p, m)
         /\ crtc' = c /\ running' = FALSE

\* No plan of this snapshot: the scanout is kept and the mode is scaled to it.
CommitWithoutPlan ==
  /\ Commits
  /\ routes.plan = None \/ ~routes.plan.fresh
  /\ \E r \in CandidateRefused(pool) : pool' = release_candidate(pool, r)
  /\ Records("ScaledCurrentAfterFailure", current, {})
  /\ UNCHANGED <<running, crtc>>

CommitKeeps ==
  /\ Commits
  /\ \/ PlanIs("ExactActiveNoOp") /\ Records("DirectExact", current, {})
     \/ PlanIs("ScaledCurrentAfterFailure")
        /\ Records("ScaledCurrentAfterFailure", current, {})
     \/ PlanIs("ScaledBaseline")
        /\ Records("ScaledBaseline", ModeKey(modes[pool.slots[0]]), {})
  /\ Settles(pool, crtc)

\* attempt_mapped_switch to slot s succeeds, and the slot it leaves is
\* released; a refused removal ends the daemon before the route is recorded.
Switches(s, route, key) ==
  LET m    == pool.slots[s]
      c    == [set |-> s, scanned |-> s, mode |-> m]
      left == pool.active
      next == activate_slot(pool, s)
  IN  \/ /\ Settles(release_inactive(next, left, 0), c)
         /\ Records(route, key, {})
      \/ /\ \E r \in InactiveRefused(next, left) \ {0} :
              pool' = release_inactive(next, left, r)
         /\ crtc' = c /\ running' = FALSE
         /\ routes' = [routes EXCEPT !.plan = None]

CommitSwitches ==
  /\ Commits
  /\ PlanIs("ExactCandidate")
  /\ Switches(routes.plan.slot, "DirectExact", routes.plan.key)

CommitReturns ==
  /\ Commits
  /\ PlanIs("ScaledBaselineSwitch")
  /\ Switches(0, "ScaledBaseline", ModeKey(modes[pool.slots[0]]))

\* The target cannot be mapped or set: the old scanout is retained.
CommitCannotSwitch ==
  /\ Commits
  /\ PlanIs("ExactCandidate")
  /\ \/ /\ Settles(release_candidate(pool, 0), crtc)
        /\ Records("ScaledCurrentAfterFailure", current, {failed_key(routes.plan.key)})
     \/ /\ \E r \in CandidateRefused(pool) \ {0} : pool' = release_candidate(pool, r)
        /\ running' = FALSE
        /\ routes' = [routes EXCEPT !.plan = None, !.candidate_key = None]
        /\ UNCHANGED crtc

\* Mutation: the role moves before the CRTC is set.
CommitReturnsEarly ==
  /\ Commits
  /\ PlanIs("ScaledBaselineSwitch")
  /\ Settles(activate_slot(pool, 0), crtc)
  /\ Records("ScaledCurrentAfterFailure", current, {})

CommitCannotReturn ==
  /\ Commits
  /\ PlanIs("ScaledBaselineSwitch")
  /\ Settles(pool, crtc)
  /\ Records("ScaledCurrentAfterFailure", current, {})

(***************************************************************************)
(* A frame.  What it paints is the subject of Presentation; here it may    *)
(* replace the waiting scanout and flip to the active slot.                *)
(***************************************************************************)
Frames == running /\ UNCHANGED <<modes, running, proto, routes>>

AdmitFrame ==
  /\ Frames
  /\ receive = "Idle" /\ proto.committed
  /\ receive' = "Owned"
  /\ UNCHANGED <<pool, crtc, visible_surface>>

\* A timeout or a wrong completion.
LoseFrame ==
  /\ Frames
  /\ receive = "Owned"
  /\ receive' = "Contained"
  /\ UNCHANGED <<pool, crtc, visible_surface>>

\* ensure_waiting_mode comes before anything else.
Processes == Frames /\ receive = "Owned" /\ pool' \in ensure_waiting_mode(pool, ActiveMode)

scaled_mode == routes.route \in {"ScaledBaseline", "ScaledCurrentAfterFailure"}

\* The waiting scanout cannot be prepared, the shadow has another identity, or
\* the copy fails, and nothing is flipped.
ProcessFails ==
  /\ Frames
  /\ receive = "Owned" /\ receive' = "Contained"
  /\ pool' \in ensure_waiting_mode(pool, ActiveMode)
             \cup ensure_waiting_mode_fails(pool, ActiveMode)
  /\ UNCHANGED <<crtc, visible_surface>>

\* A direct frame that is not the first complete one.
ProcessInPlace ==
  /\ Processes
  /\ ~scaled_mode
  /\ receive' = "Idle"
  /\ UNCHANGED <<crtc, visible_surface>>

\* A scaled frame is flipped whatever surface is visible.
ProcessFlips ==
  /\ Processes
  /\ scaled_mode
  /\ receive' = "Idle"
  /\ page_flip(pool.active)
  /\ UNCHANGED visible_surface

\* A complete frame replaces the waiting scanout.
ProcessFirstContent ==
  /\ Processes
  /\ is_waiting
  /\ receive' = "Idle"
  /\ page_flip(pool.active)
  /\ visible_surface' = "Content"

\* As ProcessFirstContent, but only the flip of a scaled frame succeeds.
ProcessHalfShown ==
  /\ Processes
  /\ scaled_mode /\ is_waiting
  /\ receive' = "Contained"
  /\ page_flip(pool.active)
  /\ UNCHANGED visible_surface

\* The page flip takes effect.
VBlank ==
  /\ crtc.scanned # crtc.set
  /\ crtc' = [crtc EXCEPT !.scanned = crtc.set]
  /\ UNCHANGED <<modes, running, proto, receive, pool, routes, visible_surface>>

(***************************************************************************)
(* Invalidations.  The pending plan and its candidate are given up only    *)
(* when the receive path is idle: with an owned one the arm ends first.    *)
(***************************************************************************)
\* What an idle path gives up, starting from the pool p.  A refused removal
\* is logged, and the plan is kept.
InvalidatesFrom(p) ==
  \E r \in CandidateRefused(p) :
    /\ pool' = release_candidate(p, r)
    /\ routes' = [routes EXCEPT
         !.plan = IF r = 0 THEN None ELSE Stale(@), !.candidate_key = None]

Invalidates(p) ==
  \/ receive = "Idle" /\ InvalidatesFrom(p)
  \/ /\ receive # "Idle"
     /\ pool' = p /\ routes' = [routes EXCEPT !.plan = Stale(@)]

\* A refused STATE_CHECK, or a STATE_COMMIT with nothing pending.
Rejects ==
  /\ ServesEP0
  /\ proto' = [proto EXCEPT !.pending = None]
  /\ Invalidates(pool)
  /\ receive' = IF receive = "Idle" THEN "Idle" ELSE "Contained"
  /\ UNCHANGED <<modes, running, crtc, visible_surface>>

surface_after_suspend ==
  IF visible_surface = "Content" THEN "WaitingSuspended" ELSE visible_surface

NextSurface(e) ==
  CASE e = "Suspend" -> surface_after_suspend
    [] e = "Disable" -> "WaitingDisconnected"
    [] OTHER         -> "WaitingStartup"

\* present_waiting_surface leaves the pool p; a failure is logged.
Presents(p, next) ==
  \/ /\ p \in ensure_waiting_mode(pool, ActiveMode)
     /\ set_crtc(Waiting, ActiveMode)
     /\ visible_surface' = next
  \/ /\ p \in ensure_waiting_mode(pool, ActiveMode)
           \cup ensure_waiting_mode_fails(pool, ActiveMode)
     /\ UNCHANGED <<crtc, visible_surface>>

Resets ==
  /\ running
  /\ proto' = [pending |-> None, committed |-> FALSE]
  /\ UNCHANGED <<modes, running>>

\* An owned path survives a SUSPEND and a RESUME; the other events destroy its
\* session, and it is idle again once the old request is harvested.
Destroys(e) ==
  receive' = IF e \in {"Suspend", "Resume"} THEN receive ELSE "Idle"

Lifecycle(e) ==
  /\ Resets
  /\ \E p \in ensure_waiting_mode(pool, ActiveMode)
              \cup ensure_waiting_mode_fails(pool, ActiveMode) :
       Presents(p, NextSurface(e)) /\ Invalidates(p)
  /\ Destroys(e)

\* Content hidden by a suspend comes back, unless the CRTC cannot be set.
Resume ==
  /\ Resets
  /\ \/ /\ visible_surface = "WaitingSuspended"
        /\ set_crtc(pool.active, ActiveMode)
        /\ visible_surface' = "Content"
     \/ UNCHANGED <<crtc, visible_surface>>
  /\ Invalidates(pool)
  /\ Destroys("Resume")

\* UNBIND while the path is owned.
Unbind ==
  /\ Resets
  /\ receive # "Idle"
  /\ Invalidates(pool)
  /\ Destroys("Unbind")
  /\ UNCHANGED <<crtc, visible_surface>>

Occupied(p) == { s \in Slots : p.slots[s] # None }

owned_objects(p) ==
  ContentObjects * Cardinality(Occupied(p))
    + (IF p.waiting = None THEN 0 ELSE WaitingObjects)

release_all(p, r) ==
  release([p EXCEPT !.slots = [s \in Slots |-> None], !.candidate = None,
                    !.waiting = None, !.live_bytes = 0],
          owned_objects(p), r)

\* A signal, or the UNBIND of an idle path, ends the loop.
Shutdown ==
  /\ running /\ receive = "Idle"
  /\ \E r \in Refused(pool, owned_objects(pool)) : pool' = release_all(pool, r)
  /\ running' = FALSE
  /\ UNCHANGED <<modes, proto, receive, routes, crtc, visible_surface>>

Next ==
  \/ \E k \in CheckedKeys : CheckWithoutAllocation(k) \/ CheckKeepsCandidate(k)
                            \/ CheckStages(k) \/ CheckCannotStage(k) \/ CheckErrs(k)
  \/ CommitWithoutPlan \/ CommitKeeps \/ CommitSwitches \/ CommitReturns
  \/ CommitCannotSwitch \/ CommitCannotReturn
  \/ AdmitFrame \/ LoseFrame \/ ProcessFails \/ ProcessInPlace \/ ProcessFlips
  \/ ProcessFirstContent \/ ProcessHalfShown \/ VBlank
  \/ Rejects
  \/ \E e \in {"Enable", "Bind", "Disable", "Suspend"} : Lifecycle(e)
  \/ Resume \/ Unbind \/ Shutdown

Spec == Init /\ [][Next]_vars

(***************************************************************************)
(* Properties.                                                             *)
(***************************************************************************)

\* The CRTC never scans out a framebuffer that was removed: what it is set to,
\* and what it still shows until the vertical blank, is the active slot or
\* the waiting scanout, and each was made for the mode the CRTC runs.  A
\* waiting scanout that is believed visible has that mode too, so a frame
\* that arrives then does not have to replace and present it again.
ScanoutIsLive ==
  running =>
    /\ ActiveMode = crtc.mode
    /\ \A owner \in {crtc.set, crtc.scanned} :
         \/ owner = pool.active
         \/ owner = Waiting /\ pool.waiting = crtc.mode
    /\ is_waiting => pool.waiting = crtc.mode

\* What was planned at STATE_CHECK can be carried out at STATE_COMMIT,
\* whatever happened in between: the candidate is still there in the mode of
\* the plan, an exact no-op still names the active mode, and a switch to the
\* baseline still starts elsewhere.  None of the commit's ensure! and bail!
\* can fire.
PlanFitsPool ==
  running /\ routes.plan # None /\ routes.plan.fresh =>
    LET plan == routes.plan
    IN  CASE plan.kind = "ExactCandidate" ->
               /\ plan.slot = pool.candidate /\ plan.slot # pool.active
               /\ pool.slots[plan.slot] = catalog[plan.key].route
               /\ routes.candidate_key = plan.key
          [] plan.kind = "ExactActiveNoOp" ->
               /\ plan.key = current /\ catalog[plan.key].route = ActiveMode
          [] plan.kind = "ScaledBaseline" -> pool.active = 0
          [] plan.kind = "ScaledBaselineSwitch" -> pool.active # 0
          [] OTHER -> TRUE

\* The key the planner calls current is the key of the mode on screen, after
\* any mix of switches, returns, failures and interrupted commits.
KeyFollowsSlot == running => current = ModeKey(modes[ActiveMode])

\* A slot beside the baseline holds an allocation exactly when it is active or
\* the candidate: nothing is stranded where no later release would find it,
\* and the slot next to the active one is free when a candidate needs it.
NoOrphanSlot ==
  running => Occupied(pool) = {0, pool.active} \cup ({pool.candidate} \ {None})

SlotBytes(p, s) == IF p.slots[s] = None THEN 0 ELSE ContentBytes(p.slots[s])

OwnedBytes(p) ==
  SlotBytes(p, 0) + SlotBytes(p, 1) + SlotBytes(p, 2)
    + (IF p.waiting = None THEN 0 ELSE WaitingBytes(p.waiting))

\* Every DRM object the daemon made and nobody refused to remove is held by a
\* slot or by the waiting scanout, and current_live_bytes is their size; at
\* the end nothing is left but what was refused.
ObjectsAccounted ==
  /\ pool.objects = owned_objects(pool) + pool.refusals
  /\ pool.live_bytes = OwnedBytes(pool)

\* A route that failed from the current physical mode is not tried again from
\* it: no candidate is ever prepared for it.
FailedStaysFailed ==
  running /\ routes.candidate_key # None =>
    failed_key(routes.candidate_key) \notin routes.failed

\* The catalog has a route for every mode the validation accepts: only a
\* refused removal leaves an accepted STATE_CHECK without a plan.
EveryCheckIsPlanned ==
  running /\ proto.pending # None /\ pool.refusals = 0 =>
    routes.plan # None /\ routes.plan.fresh /\ routes.plan.key = proto.pending

ModeIndices == UNION { DOMAIN c : c \in Connectors }

Contract == INSTANCE ScanoutContract WITH
  slot <- pool.active, physical <- crtc.mode, Physical <- ModeIndices, Baseline <- 1

\* The mode of the CRTC and the active slot move together, and only the way
\* the contract says: a failed or interrupted switch moves neither.
ImplementsContract == Contract!ContractSpec
=============================================================================
