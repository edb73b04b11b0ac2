-------------------------- MODULE ScanoutPoolProofs --------------------------
(***************************************************************************)
(* Proofs about the scanout pool, for any connector, any size of a buffer  *)
(* and any number of refused removals.                                     *)
(***************************************************************************)
EXTENDS ScanoutPool, FiniteSetTheorems, WellFoundedInduction, TLAPS

(***************************************************************************)
(* The inductive invariant.                                                *)
(***************************************************************************)
ModeIndex == DOMAIN modes

PoolRecord ==
  [ slots : [Slots -> ModeIndex \cup {None}], active : Slots,
    candidate : {1, 2, None}, waiting : ModeIndex \cup {None},
    live_bytes : Int, objects : Int, refusals : Nat ]

RouteState ==
  [ plan : PendingPlan \cup {None}, failed : SUBSET (Key \X Key),
    route : {None, "DirectExact", "ScaledBaseline", "ScaledCurrentAfterFailure"},
    current_physical_key : Key, candidate_key : Key \cup {None} ]

CrtcState ==
  [set : Slots \cup {Waiting}, scanned : Slots \cup {Waiting}, mode : ModeIndex]

ProtoState == [pending : Key \cup {None}, committed : BOOLEAN]

Surfaces == {"Content", "WaitingStartup", "WaitingSuspended", "WaitingDisconnected"}

\* The types of the module's state.
PoolTypeOK ==
  /\ modes \in Connectors
  /\ running \in BOOLEAN
  /\ proto \in ProtoState
  /\ receive \in {"Idle", "Owned", "Contained"}
  /\ pool \in PoolRecord
  /\ routes \in RouteState
  /\ crtc \in CrtcState
  /\ visible_surface \in Surfaces

\* The baseline is in the first mode for ever, the candidate is not active,
\* and a slot is occupied exactly when one of the three roles is its.
Roles(p) ==
  /\ p.slots[0] = 1 /\ p.waiting # None
  /\ p.candidate # p.active
  /\ \A s \in Slots : p.slots[s] # None <=> s \in {0, p.active, p.candidate}

Accounted(p) ==
  /\ p.objects = owned_objects(p) + p.refusals
  /\ p.live_bytes = OwnedBytes(p)

\* No connector mode before mode i has its key: the catalog routes the key to i.
Canonical(i) == \A j \in ModeIndex : ModeKey(modes[j]) = ModeKey(modes[i]) => i <= j

\* The active slot was made for the mode its key is routed to.
ActiveIsRouted(p, key) ==
  LET m == p.slots[p.active]
  IN  m \in ModeIndex /\ Canonical(m) /\ key = ModeKey(modes[m])

\* A remembered candidate was made for the mode its key is routed to, which
\* is not the current one, and its route has not failed.
CandidateFits(p, r) ==
  r.candidate_key # None =>
    /\ <<r.candidate_key, r.current_physical_key>> \notin r.failed
    /\ p.candidate # None =>
         /\ r.candidate_key \in PhysicalKeys(modes)
         /\ r.candidate_key # r.current_physical_key
         /\ p.slots[p.candidate] = catalog[r.candidate_key].route

\* What a fresh plan may count on.
PlanFits(p, r) ==
  r.plan # None /\ r.plan.fresh =>
    LET plan == r.plan
    IN  /\ plan.kind = "ExactCandidate" =>
             /\ plan.slot = p.candidate /\ p.candidate # None
             /\ r.candidate_key = plan.key
        /\ plan.kind = "ExactActiveNoOp" => plan.key = r.current_physical_key
        /\ plan.kind = "ScaledBaseline" => p.active = 0
        /\ plan.kind = "ScaledBaselineSwitch" => p.active # 0

\* The CRTC runs the mode of the active slot, and shows that slot or a waiting
\* scanout of the same mode.
Shows(p, c) ==
  /\ p.slots[p.active] = c.mode
  /\ \A owner \in {c.set, c.scanned} :
       owner = p.active \/ (owner = Waiting /\ p.waiting = c.mode)

\* An accepted STATE_CHECK has a plan until n, the refusals, is not zero.
Planned(q, n, r) ==
  q.pending # None /\ n = 0 =>
    r.plan # None /\ r.plan.fresh /\ r.plan.key = q.pending

\* What holds while the daemon runs, of the protocol state, the pool, the
\* routes, the CRTC and the surface that is believed visible.
Consistent(q, p, r, c, surface) ==
  /\ Roles(p)
  /\ ActiveIsRouted(p, r.current_physical_key)
  /\ CandidateFits(p, r)
  /\ PlanFits(p, r)
  /\ Shows(p, c)
  /\ surface # "Content" => p.waiting = c.mode
  /\ Planned(q, p.refusals, r)

\* The inductive invariant.
PoolInv ==
  /\ PoolTypeOK
  /\ Accounted(pool)
  /\ running => Consistent(proto, pool, routes, crtc, visible_surface)

(***************************************************************************)
(* The catalog.                                                            *)
(***************************************************************************)
\* A set of mode indices that is not empty has a first one.
LEMMA FirstIsLeast ==
  ASSUME NEW S, S \subseteq Nat, S # {}
  PROVE  First(S) \in S /\ \A j \in S : First(S) <= j
<1>1. PICK i \in S : \A j \in S : ~(<<j, i>> \in OpToRel(<, Nat))
  BY NatLessThanWellFounded, WFMin
<1>2. \A j \in S : j \in Nat /\ i \in Nat
  OBVIOUS
<1>3. ASSUME NEW j \in S PROVE i <= j
  <2>1. <<j, i>> \in Nat \X Nat => ~(<<j, i>>[1] < <<j, i>>[2])
    BY <1>1, Zenon DEF OpToRel
  <2> QED
    BY <1>2, <2>1
<1> QED
  BY <1>3, Zenon DEF First

\* The connector has at least one mode, and each is a ConnectorMode.
LEMMA ConnectorModes ==
  ASSUME modes \in Connectors
  PROVE  /\ ModeIndex \subseteq Nat \ {0} /\ 1 \in ModeIndex
         /\ \A i \in ModeIndex : modes[i] \in ConnectorMode /\ ModeKey(modes[i]) \in Key
<1>1. modes \in Seq(ConnectorMode) /\ modes # <<>>
  BY PoolAssumption
<1>2. ModeIndex = 1 .. Len(modes) /\ Len(modes) \in Nat /\ Len(modes) # 0
  BY <1>1 DEF ModeIndex
<1>3. \A i \in ModeIndex : modes[i] \in ConnectorMode
  BY <1>1, <1>2
<1> QED
  BY <1>2, <1>3 DEF ConnectorMode, ModeKey, Key

\* The keys of the connector's modes are routed exactly, each to the first
\* mode that has it, and no other key is.
LEMMA CatalogRoutes ==
  ASSUME modes \in Connectors, NEW k \in DOMAIN catalog
  PROVE  /\ k \in Key
         /\ Exact(k) <=> k \in PhysicalKeys(modes)
         /\ Exact(k) => /\ catalog[k].route \in ModeIndex
                        /\ ModeKey(modes[catalog[k].route]) = k
                        /\ Canonical(catalog[k].route)
<1> DEFINE keys == PhysicalKeys(modes)
           At == { i \in ModeIndex : ModeKey(modes[i]) = k }
<1>1. /\ k \in keys \cup { ModeKey(m) : m \in synthetic_modes(modes) }
      /\ catalog[k].route = IF k \in keys THEN First(At) ELSE ScaledFallback
  BY DEF catalog, build, ModeIndex
<1>2. k \in Key
  <2>1. CASE k \in keys
    BY <2>1, ConnectorModes DEF PhysicalKeys, ModeIndex
  <2>2. CASE k \in { ModeKey(m) : m \in synthetic_modes(modes) }
    BY <2>2, CatalogAssumption
       DEF synthetic_modes, derive_mode_from_native, ModeKey, Key, Timing
  <2> QED
    BY <1>1, <2>1, <2>2
<1>3. CASE k \in keys
  <2>1. At # {} /\ At \subseteq Nat
    BY <1>3, ConnectorModes DEF PhysicalKeys, ModeIndex
  <2>2. First(At) \in At /\ \A j \in At : First(At) <= j
    BY <2>1, FirstIsLeast
  <2>3. catalog[k].route = First(At) /\ catalog[k].route # 0
    BY <1>1, <1>3, <2>2, ConnectorModes
  <2> QED
    BY <1>2, <1>3, <2>2, <2>3 DEF Canonical, Exact, ScaledFallback
<1>4. CASE k \notin keys
  BY <1>1, <1>2, <1>4 DEF Exact
<1> QED
  BY <1>3, <1>4

\* The key of a mode the validation accepts is in the catalog.
LEMMA CheckedIsRouted ==
  ASSUME modes \in Connectors, NEW k \in CheckedKeys
  PROVE  k \in DOMAIN catalog
<1>1. PICK wire \in DisplayMode :
        k = ModeKey(wire) /\ validate_state_check(catalog, wire)
  BY DEF CheckedKeys
<1>2. PICK l \in DOMAIN catalog :
        modes_have_same_user_timing(catalog[l].advertised, wire)
  BY <1>1 DEF validate_state_check
<1>3. l \in Key
  BY CatalogRoutes
<1>4. \E p \in BOOLEAN : catalog[l].advertised = normalize_advertised_mode(l, p)
  BY <1>2 DEF catalog, build
<1>5. catalog[l].advertised.timing = l.timing
      /\ catalog[l].advertised.flags \cap UserFlags = l.flags
  BY <1>3, <1>4, CatalogAssumption DEF normalize_advertised_mode, Key
<1>6. k = l
  BY <1>1, <1>2, <1>3, <1>5 DEF modes_have_same_user_timing, ModeKey, Key
<1> QED
  BY <1>2, <1>6

(***************************************************************************)
(* The operations of the pool.                                             *)
(***************************************************************************)
\* The size of an allocation is a number.
LEMMA BytesAreNumbers ==
  ASSUME modes \in Connectors
  PROVE  \A m \in ModeIndex : ContentBytes(m) \in Int /\ WaitingBytes(m) \in Int
<1>1. \A m \in ModeIndex : modes[m].timing.size \in Sizes
  BY ConnectorModes DEF ConnectorMode, Timing
<1>2. \A z \in Sizes : Bytes[z] \in Nat
  BY PoolAssumption
<1> QED
  BY <1>1, <1>2 DEF ContentBytes, WaitingBytes, SizeOf

\* None is no mode index and no slot.
LEMMA NoneIsNoIndex ==
  ASSUME modes \in Connectors
  PROVE  None \notin ModeIndex /\ None \notin Slots
<1>1. ModeIndex \subseteq Nat
  BY ConnectorModes
<1>2. None \notin Nat
  BY PoolAssumption, Zenon
<1>3. Slots \subseteq Nat
  BY DEF Slots
<1> QED
  BY <1>1, <1>2, <1>3, Zenon

\* The objects of the slots follow their number.
LEMMA OccupiedIsFinite ==
  ASSUME NEW p
  PROVE  IsFiniteSet(Occupied(p)) /\ Cardinality(Occupied(p)) \in Int
<1>1. IsFiniteSet(Slots)
  <2>1. 0 \in Int /\ 2 \in Int
    OBVIOUS
  <2> QED
    BY <2>1, FS_Interval, Zenon DEF Slots
<1>2. Occupied(p) \in SUBSET Slots
  BY DEF Occupied
<1>3. IsFiniteSet(Occupied(p))
  BY <1>1, <1>2, FS_Subset
<1> QED
  BY <1>3, FS_CardinalityType

\* Slot s of q is emptied and the others are those of p.
LEMMA EmptiedSlot ==
  ASSUME NEW p, NEW q, NEW s \in Slots, p.slots[s] # None, q.slots[s] = None,
         \A t \in Slots \ {s} : q.slots[t] = p.slots[t]
  PROVE  Cardinality(Occupied(q)) = Cardinality(Occupied(p)) - 1
<1>1. Occupied(q) = Occupied(p) \ {s} /\ s \in Occupied(p)
  BY DEF Occupied
<1> QED
  BY <1>1, OccupiedIsFinite, FS_RemoveElement

\* Slot s of q is filled and the others are those of p.
LEMMA FilledSlot ==
  ASSUME NEW p, NEW q, NEW s \in Slots, p.slots[s] = None, q.slots[s] # None,
         \A t \in Slots \ {s} : q.slots[t] = p.slots[t]
  PROVE  Cardinality(Occupied(q)) = Cardinality(Occupied(p)) + 1
<1>1. Occupied(q) = Occupied(p) \cup {s} /\ s \notin Occupied(p)
  BY DEF Occupied
<1> QED
  BY <1>1, OccupiedIsFinite, FS_AddElement

\* Slots with the same allocations hold the same objects and bytes.
LEMMA SameSlots ==
  ASSUME NEW p, NEW q, q.slots = p.slots
  PROVE  /\ Cardinality(Occupied(q)) = Cardinality(Occupied(p))
         /\ \A s \in Slots : SlotBytes(q, s) = SlotBytes(p, s)
  BY DEF Occupied, SlotBytes

\* The parts of what the pool owns are numbers.
LEMMA OwnedIsNumber ==
  ASSUME modes \in Connectors, NEW p \in PoolRecord
  PROVE  /\ owned_objects(p) \in Int
         /\ \A s \in Slots : SlotBytes(p, s) \in Int
         /\ (IF p.waiting = None THEN 0 ELSE WaitingBytes(p.waiting)) \in Int
<1>1. \A s \in Slots : p.slots[s] \in ModeIndex \cup {None}
  BY DEF PoolRecord
<1>2. p.waiting \in ModeIndex \cup {None}
  BY DEF PoolRecord
<1>3. owned_objects(p) \in Int
  BY OccupiedIsFinite DEF owned_objects, ContentObjects, WaitingObjects
<1> QED
  BY <1>1, <1>2, <1>3, BytesAreNumbers DEF SlotBytes

\* A slot is emptied: its objects are gone but for the refused ones.
LEMMA ReleaseSlot ==
  ASSUME modes \in Connectors, NEW p \in PoolRecord, Accounted(p),
         NEW s \in Slots, p.slots[s] # None, NEW r \in Nat,
         NEW q, q = release_slot(p, s, r)
  PROVE  /\ q \in PoolRecord /\ Accounted(q)
         /\ q.slots = [p.slots EXCEPT ![s] = None]
         /\ q.active = p.active /\ q.candidate = p.candidate
         /\ q.waiting = p.waiting /\ q.refusals = p.refusals + r
<1>1. p.slots[s] \in ModeIndex
  BY DEF PoolRecord
<1>2. ContentBytes(p.slots[s]) \in Int
  BY <1>1, BytesAreNumbers
<1>3. q = [p EXCEPT !.slots = [p.slots EXCEPT ![s] = None],
                    !.live_bytes = p.live_bytes - ContentBytes(p.slots[s]),
                    !.objects = p.objects - (4 - r),
                    !.refusals = p.refusals + r]
  BY DEF release_slot, release, ContentObjects, PoolRecord
<1>4. /\ q.slots = [p.slots EXCEPT ![s] = None]
      /\ q.live_bytes = p.live_bytes - ContentBytes(p.slots[s])
      /\ q.objects = p.objects - (4 - r) /\ q.refusals = p.refusals + r
      /\ q.active = p.active /\ q.candidate = p.candidate /\ q.waiting = p.waiting
  BY <1>3 DEF PoolRecord
<1>5. q \in PoolRecord
  <2>1. [p.slots EXCEPT ![s] = None] \in [Slots -> ModeIndex \cup {None}]
    BY DEF PoolRecord
  <2>2. /\ p.live_bytes - ContentBytes(p.slots[s]) \in Int
        /\ p.objects - (4 - r) \in Int /\ p.refusals + r \in Nat
    BY <1>2 DEF PoolRecord
  <2> QED
    BY <1>3, <2>1, <2>2 DEF PoolRecord
<1>6. q.slots[s] = None /\ \A t \in Slots \ {s} : q.slots[t] = p.slots[t]
  BY <1>4 DEF PoolRecord
<1>7. owned_objects(q) = owned_objects(p) - 4
  <2>1. Cardinality(Occupied(q)) = Cardinality(Occupied(p)) - 1
    BY <1>6, EmptiedSlot
  <2>2. Cardinality(Occupied(p)) \in Int
    BY OccupiedIsFinite
  <2> QED
    BY <1>4, <2>1, <2>2 DEF owned_objects, ContentObjects, WaitingObjects
<1>8. OwnedBytes(q) = OwnedBytes(p) - ContentBytes(p.slots[s])
  <2>1. SlotBytes(q, s) = 0 /\ SlotBytes(p, s) = ContentBytes(p.slots[s])
    BY <1>6 DEF SlotBytes
  <2>2. \A t \in Slots \ {s} : SlotBytes(q, t) = SlotBytes(p, t)
    BY <1>6 DEF SlotBytes
  <2>3. \A t \in {0, 1, 2} : SlotBytes(p, t) \in Int
    BY OwnedIsNumber DEF Slots
  <2>4. (IF p.waiting = None THEN 0 ELSE WaitingBytes(p.waiting)) \in Int
    BY OwnedIsNumber
  <2> DEFINE w == IF p.waiting = None THEN 0 ELSE WaitingBytes(p.waiting)
             a == SlotBytes(p, 0)
             b == SlotBytes(p, 1)
             c == SlotBytes(p, 2)
  <2>5. OwnedBytes(p) = a + b + c + w
    BY DEF OwnedBytes
  <2>6. OwnedBytes(q) = SlotBytes(q, 0) + SlotBytes(q, 1) + SlotBytes(q, 2) + w
    BY <1>4 DEF OwnedBytes
  <2>7. s \in {0, 1, 2}
    BY DEF Slots
  <2>8. w \in Int /\ a \in Int /\ b \in Int /\ c \in Int
    BY <2>3, <2>4
  <2> HIDE DEF w, a, b, c
  <2>9. CASE s = 0
    BY <2>1, <2>2, <2>5, <2>6, <2>8, <2>9 DEF a, b, c, Slots
  <2>10. CASE s = 1
    BY <2>1, <2>2, <2>5, <2>6, <2>8, <2>10 DEF a, b, c, Slots
  <2>11. CASE s = 2
    BY <2>1, <2>2, <2>5, <2>6, <2>8, <2>11 DEF a, b, c, Slots
  <2> QED
    BY <2>7, <2>9, <2>10, <2>11
<1>9. p.objects \in Int /\ p.live_bytes \in Int /\ p.refusals \in Int
  BY DEF PoolRecord
<1>10. Accounted(q)
  BY <1>2, <1>4, <1>7, <1>8, <1>9, OwnedIsNumber DEF Accounted
<1> QED
  BY <1>4, <1>5, <1>10

\* A pool of a running daemon.
Sound(p) == p \in PoolRecord /\ Accounted(p) /\ Roles(p)

\* The candidate is given up, the active slot and the waiting scanout stay.
LEMMA ReleaseCandidate ==
  ASSUME modes \in Connectors, NEW p, Sound(p), NEW r \in Nat,
         NEW q, q = release_candidate(p, r)
  PROVE  /\ Sound(q) /\ q.candidate = None
         /\ q.active = p.active /\ q.slots[q.active] = p.slots[p.active]
         /\ q.waiting = p.waiting
         /\ q.refusals = IF p.candidate = None THEN p.refusals ELSE p.refusals + r
<1>1. CASE p.candidate = None
  BY <1>1 DEF release_candidate, Sound
<1>2. CASE p.candidate # None
  <2> DEFINE s == p.candidate
             e == release_slot(p, s, r)
  <2>1. s \in Slots /\ s # 0 /\ s # p.active /\ p.active \in Slots
    BY <1>2 DEF Sound, Roles, PoolRecord, Slots
  <2>2. p.slots[s] # None
    BY <2>1 DEF Sound, Roles
  <2>3. /\ e \in PoolRecord /\ Accounted(e)
        /\ e.slots = [p.slots EXCEPT ![s] = None]
        /\ e.active = p.active /\ e.candidate = p.candidate
        /\ e.waiting = p.waiting /\ e.refusals = p.refusals + r
    BY <2>1, <2>2, ReleaseSlot DEF Sound
  <2>4. q = [e EXCEPT !.candidate = None]
    BY <1>2 DEF release_candidate
  <2> HIDE DEF e
  <2>5. /\ q \in PoolRecord /\ q.candidate = None
        /\ q.slots = e.slots /\ q.active = e.active /\ q.waiting = e.waiting
        /\ q.refusals = e.refusals /\ q.objects = e.objects
        /\ q.live_bytes = e.live_bytes
    BY <2>3, <2>4 DEF PoolRecord
  <2>6. Accounted(q)
    BY <2>3, <2>5, SameSlots DEF Accounted, owned_objects, OwnedBytes, Slots
  <2>7. q.slots[s] = None /\ \A t \in Slots \ {s} : q.slots[t] = p.slots[t]
    BY <2>1, <2>3, <2>5 DEF Sound, PoolRecord
  <2>8. None \notin Slots /\ 0 \in Slots
    BY NoneIsNoIndex DEF Slots
  <2>9. Roles(q)
    BY <2>1, <2>3, <2>5, <2>7, <2>8 DEF Roles, Sound
  <2> QED
    BY <1>2, <2>1, <2>3, <2>5, <2>6, <2>7, <2>9 DEF Sound
<1> QED
  BY <1>1, <1>2

\* A refused removal is counted.
LEMMA RefusedIsCounted ==
  ASSUME NEW p, NEW n \in Nat, NEW r \in Refused(p, n)
  PROVE  r \in Nat
  BY DEF Refused

\* Without a candidate nothing can be refused.
LEMMA CandidateRefusedIsCounted ==
  ASSUME NEW p, NEW r \in CandidateRefused(p)
  PROVE  r \in Nat /\ (p.candidate = None => r = 0)
  BY RefusedIsCounted DEF CandidateRefused, ContentObjects

\* Only the number of objects and of refusals may differ.
SameRoles(p, q) ==
  /\ q.slots = p.slots /\ q.active = p.active /\ q.candidate = p.candidate
  /\ q.waiting = p.waiting

LEMMA SameRolesKeep ==
  ASSUME NEW p, NEW q, Roles(p), SameRoles(p, q)
  PROVE  Roles(q)
  BY DEF Roles, SameRoles

\* A failed allocation leaves nothing behind but what the kernel refused to
\* remove.
LEMMA CreateFails ==
  ASSUME modes \in Connectors, NEW p, Sound(p), NEW n \in Nat,
         NEW q \in create_fails(p, n)
  PROVE  Sound(q) /\ SameRoles(p, q) /\ q.refusals >= p.refusals
<1>1. PICK c \in 0 .. n : \E r \in Refused(p, c) :
        q = release([p EXCEPT !.objects = @ + c], c, r)
  BY DEF create_fails
<1>2. PICK r \in Refused(p, c) : q = release([p EXCEPT !.objects = @ + c], c, r)
  BY <1>1
<1>3. c \in Nat /\ r \in Nat
  BY <1>2, RefusedIsCounted
<1>4. p.objects \in Int /\ p.refusals \in Nat
  BY DEF Sound, PoolRecord
<1>5. q = [p EXCEPT !.objects = (p.objects + c) - (c - r), !.refusals = p.refusals + r]
  BY <1>2 DEF release, Sound, PoolRecord
<1>6. /\ (p.objects + c) - (c - r) = p.objects + r
      /\ p.objects + r \in Int /\ p.refusals + r \in Nat
  BY <1>3, <1>4
<1>7. q = [p EXCEPT !.objects = p.objects + r, !.refusals = p.refusals + r]
  BY <1>5, <1>6, Zenon
<1>8. /\ q \in PoolRecord /\ SameRoles(p, q) /\ q.live_bytes = p.live_bytes
      /\ q.objects = p.objects + r /\ q.refusals = p.refusals + r
  BY <1>6, <1>7 DEF Sound, PoolRecord, SameRoles
<1>9. owned_objects(q) = owned_objects(p) /\ OwnedBytes(q) = OwnedBytes(p)
  BY <1>8, SameSlots DEF SameRoles, owned_objects, OwnedBytes, Slots
<1>10. Accounted(q)
  BY <1>3, <1>4, <1>8, <1>9, OwnedIsNumber DEF Accounted, Sound
<1> QED
  BY <1>3, <1>4, <1>8, <1>10, SameRolesKeep DEF Sound

\* A candidate is staged in a slot that is free.
LEMMA StageCandidate ==
  ASSUME modes \in Connectors, NEW p, Sound(p), p.candidate = None,
         NEW s \in {1, 2}, s # p.active, NEW m \in ModeIndex,
         NEW q, q = stage_candidate(p, s, m)
  PROVE  /\ Sound(q) /\ q.candidate = s /\ q.slots[s] = m
         /\ q.active = p.active /\ q.slots[q.active] = p.slots[p.active]
         /\ q.waiting = p.waiting /\ q.refusals = p.refusals
<1>1. s \in Slots /\ s # 0 /\ p.active \in Slots /\ None \notin Slots /\ m # None
  BY NoneIsNoIndex DEF Sound, PoolRecord, Slots
<1>2. p.slots[s] = None
  BY <1>1 DEF Sound, Roles
<1>3. ContentBytes(m) \in Int /\ p.objects \in Int /\ p.live_bytes \in Int
      /\ p.refusals \in Int
  BY BytesAreNumbers DEF Sound, PoolRecord
<1>4. q = [p EXCEPT !.slots = [p.slots EXCEPT ![s] = m], !.candidate = s,
                    !.objects = p.objects + 4,
                    !.live_bytes = p.live_bytes + ContentBytes(m)]
  BY DEF stage_candidate, ContentObjects, Sound, PoolRecord
<1>5. /\ q.slots = [p.slots EXCEPT ![s] = m] /\ q.candidate = s
      /\ q.objects = p.objects + 4 /\ q.live_bytes = p.live_bytes + ContentBytes(m)
      /\ q.active = p.active /\ q.waiting = p.waiting /\ q.refusals = p.refusals
  BY <1>4 DEF Sound, PoolRecord
<1>6. q \in PoolRecord
  <2>1. [p.slots EXCEPT ![s] = m] \in [Slots -> ModeIndex \cup {None}]
    BY DEF Sound, PoolRecord
  <2>2. p.objects + 4 \in Int /\ p.live_bytes + ContentBytes(m) \in Int
    BY <1>3
  <2> QED
    BY <1>4, <2>1, <2>2 DEF Sound, PoolRecord
<1>7. q.slots[s] = m /\ \A t \in Slots \ {s} : q.slots[t] = p.slots[t]
  BY <1>1, <1>5 DEF Sound, PoolRecord
<1>8. owned_objects(q) = owned_objects(p) + 4
  <2>1. Cardinality(Occupied(q)) = Cardinality(Occupied(p)) + 1
    BY <1>1, <1>2, <1>7, FilledSlot
  <2>2. Cardinality(Occupied(p)) \in Int
    BY OccupiedIsFinite
  <2> QED
    BY <1>5, <2>1, <2>2 DEF owned_objects, ContentObjects, WaitingObjects
<1>9. OwnedBytes(q) = OwnedBytes(p) + ContentBytes(m)
  <2> DEFINE w == IF p.waiting = None THEN 0 ELSE WaitingBytes(p.waiting)
             a == SlotBytes(p, 0)
             b == SlotBytes(p, 1)
             c == SlotBytes(p, 2)
  <2>1. SlotBytes(q, s) = ContentBytes(m) /\ SlotBytes(p, s) = 0
    BY <1>1, <1>2, <1>7 DEF SlotBytes
  <2>2. \A t \in Slots \ {s} : SlotBytes(q, t) = SlotBytes(p, t)
    BY <1>7 DEF SlotBytes
  <2>3. w \in Int /\ a \in Int /\ b \in Int /\ c \in Int
    BY OwnedIsNumber DEF Sound, Slots
  <2>4. OwnedBytes(p) = a + b + c + w
    BY DEF OwnedBytes
  <2>5. OwnedBytes(q) = SlotBytes(q, 0) + SlotBytes(q, 1) + SlotBytes(q, 2) + w
    BY <1>5 DEF OwnedBytes
  <2> HIDE DEF w, a, b, c
  <2>6. CASE s = 1
    BY <1>3, <2>1, <2>2, <2>3, <2>4, <2>5, <2>6 DEF a, b, c, Slots
  <2>7. CASE s = 2
    BY <1>3, <2>1, <2>2, <2>3, <2>4, <2>5, <2>7 DEF a, b, c, Slots
  <2> QED
    BY <2>6, <2>7
<1>10. Accounted(q)
  BY <1>3, <1>5, <1>8, <1>9, OwnedIsNumber DEF Accounted, Sound
<1>11. Roles(q)
  BY <1>1, <1>5, <1>7 DEF Roles, Sound, Slots
<1> QED
  BY <1>1, <1>5, <1>6, <1>7, <1>10, <1>11 DEF Sound

\* What ensure_waiting_mode never touches.
SameContent(p, q) ==
  q.slots = p.slots /\ q.active = p.active /\ q.candidate = p.candidate

\* The waiting scanout is replaced when its mode is another one.
LEMMA EnsureWaiting ==
  ASSUME modes \in Connectors, NEW p, Sound(p), NEW m \in ModeIndex,
         NEW q \in ensure_waiting_mode(p, m)
  PROVE  Sound(q) /\ SameContent(p, q) /\ q.waiting = m /\ q.refusals >= p.refusals
<1>1. CASE p.waiting = m
  <2>1. q = p /\ p.refusals \in Nat
    BY <1>1 DEF ensure_waiting_mode, Sound, PoolRecord
  <2> QED
    BY <1>1, <2>1 DEF SameContent
<1>2. CASE p.waiting # m
  <2> DEFINE old == WaitingBytes(p.waiting)
             new == WaitingBytes(m)
  <2>1. PICK r \in Refused(p, WaitingObjects) : q = release(replaced(p, m), WaitingObjects, r)
    BY <1>2 DEF ensure_waiting_mode
  <2>2. r \in Nat /\ p.objects \in Int /\ p.live_bytes \in Int /\ p.refusals \in Nat
    BY RefusedIsCounted DEF WaitingObjects, Sound, PoolRecord
  <2>3. p.waiting \in ModeIndex /\ p.waiting # None /\ m # None
    BY NoneIsNoIndex DEF Sound, Roles, PoolRecord
  <2>4. old \in Int /\ new \in Int
    BY <2>3, BytesAreNumbers
  <2>5. q = [p EXCEPT !.waiting = m, !.objects = (p.objects + 2) - (2 - r),
                      !.live_bytes = p.live_bytes - old + new,
                      !.refusals = p.refusals + r]
    BY <2>1 DEF release, replaced, WaitingObjects, Sound, PoolRecord
  <2> HIDE DEF old, new
  <2>6. /\ (p.objects + 2) - (2 - r) \in Int /\ p.live_bytes - old + new \in Int
        /\ p.refusals + r \in Nat
        /\ (p.objects + 2) - (2 - r) = p.objects + r
    BY <2>2, <2>4
  <2>7. /\ q.slots = p.slots /\ q.active = p.active /\ q.candidate = p.candidate
        /\ q.waiting = m /\ q.objects = (p.objects + 2) - (2 - r)
        /\ q.live_bytes = p.live_bytes - old + new /\ q.refusals = p.refusals + r
    BY <2>5 DEF Sound, PoolRecord
  <2>8. q \in PoolRecord
    BY <2>5, <2>6 DEF Sound, PoolRecord
  <2>9. owned_objects(q) = owned_objects(p)
    BY <2>3, <2>7, SameSlots DEF owned_objects
  <2>10. OwnedBytes(q) = OwnedBytes(p) - old + new
    <3> DEFINE a == SlotBytes(p, 0)
               b == SlotBytes(p, 1)
               c == SlotBytes(p, 2)
    <3>1. SlotBytes(q, 0) = a /\ SlotBytes(q, 1) = b /\ SlotBytes(q, 2) = c
      BY <2>7, SameSlots DEF Slots
    <3>2. a \in Int /\ b \in Int /\ c \in Int
      BY OwnedIsNumber DEF Sound, Slots
    <3>3. OwnedBytes(p) = a + b + c + old
      BY <2>3 DEF OwnedBytes, old
    <3>4. OwnedBytes(q) = a + b + c + new
      BY <2>3, <2>7, <3>1 DEF OwnedBytes, new
    <3> HIDE DEF a, b, c
    <3> QED
      BY <2>4, <3>2, <3>3, <3>4
  <2>11. Accounted(q)
    BY <2>2, <2>4, <2>6, <2>7, <2>9, <2>10, OwnedIsNumber DEF Accounted, Sound
  <2>12. Roles(q)
    BY <2>3, <2>7 DEF Roles, Sound
  <2> QED
    BY <2>2, <2>7, <2>8, <2>11, <2>12 DEF Sound, SameContent
<1> QED
  BY <1>1, <1>2

\* A waiting scanout that could not be replaced is the one before.
LEMMA EnsureWaitingFails ==
  ASSUME modes \in Connectors, NEW p, Sound(p), NEW m \in ModeIndex,
         NEW q \in ensure_waiting_mode_fails(p, m)
  PROVE  Sound(q) /\ SameRoles(p, q) /\ q.refusals >= p.refusals
<1>1. q \in create_fails(p, WaitingObjects) /\ WaitingObjects \in Nat
  BY DEF ensure_waiting_mode_fails, WaitingObjects
<1> QED
  BY <1>1, CreateFails

\* Slot s takes over from the active slot, which is emptied unless it is the
\* baseline.
LEMMA SwitchSlot ==
  ASSUME modes \in Connectors, NEW p, Sound(p),
         NEW s \in Slots, s = 0 \/ s = p.candidate, s # p.active, NEW r \in Nat,
         NEW q, q = release_inactive(activate_slot(p, s), p.active, r)
  PROVE  /\ Sound(q) /\ q.active = s /\ q.slots[s] = p.slots[s]
         /\ q.waiting = p.waiting /\ q.refusals >= p.refusals
<1> DEFINE left == p.active
           next == activate_slot(p, s)
<1>1. /\ p.active \in Slots /\ 0 \in Slots /\ None \notin Slots
      /\ p.candidate \in Slots \cup {None} /\ p.refusals \in Nat
  BY NoneIsNoIndex DEF Sound, PoolRecord, Slots
<1>2. /\ next \in PoolRecord /\ next.slots = p.slots /\ next.active = s
      /\ next.candidate = (IF p.candidate = s THEN None ELSE p.candidate)
      /\ next.waiting = p.waiting /\ next.refusals = p.refusals
      /\ next.objects = p.objects /\ next.live_bytes = p.live_bytes
  BY DEF activate_slot, Sound, PoolRecord
<1> HIDE DEF next
<1>3. Accounted(next)
  BY <1>2, SameSlots DEF Accounted, owned_objects, OwnedBytes, Sound, Slots
<1>4. p.slots[left] # None /\ p.slots[0] = 1 /\ p.slots[s] # None
  BY <1>1 DEF Sound, Roles
<1>5. CASE left = 0
  <2>1. q = next
    BY <1>5 DEF release_inactive, next
  <2>2. Roles(q)
    BY <1>1, <1>2, <1>4, <1>5, <2>1 DEF Roles, Sound
  <2> QED
    BY <1>1, <1>2, <1>3, <2>1, <2>2 DEF Sound
<1>6. CASE left # 0
  <2>1. q = release_slot(next, left, r)
    BY <1>6 DEF release_inactive, next
  <2>2. /\ q \in PoolRecord /\ Accounted(q)
        /\ q.slots = [next.slots EXCEPT ![left] = None]
        /\ q.active = next.active /\ q.candidate = next.candidate
        /\ q.waiting = next.waiting /\ q.refusals = next.refusals + r
    BY <1>1, <1>2, <1>3, <1>4, <2>1, ReleaseSlot
  <2>3. q.slots[left] = None /\ \A t \in Slots \ {left} : q.slots[t] = p.slots[t]
    BY <1>1, <1>2, <2>2 DEF Sound, PoolRecord
  <2>4. Roles(q)
    BY <1>1, <1>2, <1>4, <1>6, <2>2, <2>3 DEF Roles, Sound
  <2> QED
    BY <1>1, <1>2, <2>2, <2>3, <2>4 DEF Sound
<1> QED
  BY <1>5, <1>6

\* At the end only the refused objects are left.
LEMMA ReleaseAll ==
  ASSUME modes \in Connectors, NEW p, Sound(p), NEW r \in Nat,
         NEW q, q = release_all(p, r)
  PROVE  q \in PoolRecord /\ Accounted(q) /\ q.active = p.active
<1>1. owned_objects(p) \in Int /\ p.objects \in Int /\ p.refusals \in Nat
  BY OwnedIsNumber DEF Sound, PoolRecord
<1>2. q = [p EXCEPT !.slots = [s \in Slots |-> None], !.candidate = None,
                    !.waiting = None, !.live_bytes = 0,
                    !.objects = p.objects - (owned_objects(p) - r),
                    !.refusals = p.refusals + r]
  BY DEF release_all, release, Sound, PoolRecord
<1>3. /\ p.objects - (owned_objects(p) - r) = p.refusals + r
      /\ p.refusals + r \in Nat
  BY <1>1 DEF Sound, Accounted
<1>4. [s \in Slots |-> None] \in [Slots -> ModeIndex \cup {None}]
  OBVIOUS
<1>5. /\ q \in PoolRecord /\ q.slots = [s \in Slots |-> None] /\ q.waiting = None
      /\ q.live_bytes = 0 /\ q.active = p.active
      /\ q.objects = p.refusals + r /\ q.refusals = p.refusals + r
  <2>1. q = [p EXCEPT !.slots = [s \in Slots |-> None], !.candidate = None,
                      !.waiting = None, !.live_bytes = 0,
                      !.objects = p.refusals + r, !.refusals = p.refusals + r]
    BY <1>2, <1>3, Zenon
  <2>2. p.refusals + r \in Int /\ 0 \in Int
    BY <1>1
  <2> QED
    BY <1>3, <1>4, <2>1, <2>2 DEF Sound, PoolRecord
<1>6. Occupied(q) = {}
  BY <1>5 DEF Occupied
<1>7. Cardinality(Occupied(q)) = 0
  BY <1>6, FS_EmptySet
<1>8. owned_objects(q) = 0
  BY <1>5, <1>7 DEF owned_objects, ContentObjects
<1>9. OwnedBytes(q) = 0
  BY <1>5 DEF OwnedBytes, SlotBytes, Slots
<1> QED
  BY <1>1, <1>3, <1>5, <1>8, <1>9 DEF Accounted

(***************************************************************************)
(* Every step keeps the invariant.                                         *)
(***************************************************************************)
\* The connector's modes never change, so what a step leaves is judged with
\* the modes of before.
LEMMA InvariantAfter ==
  ASSUME modes' = modes, modes \in Connectors, running' \in BOOLEAN,
         proto' \in ProtoState, receive' \in {"Idle", "Owned", "Contained"},
         pool' \in PoolRecord, routes' \in RouteState, crtc' \in CrtcState,
         visible_surface' \in Surfaces, Accounted(pool'),
         running' => Consistent(proto', pool', routes', crtc', visible_surface')
  PROVE  PoolInv'
<1>1. ModeIndex' = ModeIndex /\ catalog' = catalog
  BY DEF ModeIndex, catalog
<1>2. PoolTypeOK'
  BY <1>1 DEF PoolTypeOK, PoolRecord, CrtcState
<1>3. Accounted(pool)'
  BY DEF Accounted, OwnedBytes, SlotBytes, ContentBytes, WaitingBytes, SizeOf,
         owned_objects, Occupied
<1>4. ASSUME running' PROVE Consistent(proto, pool, routes, crtc, visible_surface)'
  <2>1. Consistent(proto', pool', routes', crtc', visible_surface')
    BY <1>4
  <2>2. Roles(pool)'
    BY <2>1 DEF Consistent, Roles
  <2>3. ActiveIsRouted(pool, routes.current_physical_key)'
    BY <1>1, <2>1 DEF Consistent, ActiveIsRouted, Canonical
  <2>4. CandidateFits(pool, routes)'
    BY <1>1, <2>1 DEF Consistent, CandidateFits
  <2>5. PlanFits(pool, routes)'
    BY <2>1 DEF Consistent, PlanFits
  <2>6. Shows(pool, crtc)'
    BY <2>1 DEF Consistent, Shows
  <2> QED
    BY <2>1, <2>2, <2>3, <2>4, <2>5, <2>6 DEF Consistent, Planned
<1> QED
  BY <1>2, <1>3, <1>4 DEF PoolInv

\* What the steps of a running daemon start from.
LEMMA RunningPool ==
  ASSUME PoolInv, running
  PROVE  /\ modes \in Connectors /\ Sound(pool)
         /\ Consistent(proto, pool, routes, crtc, visible_surface)
         /\ ActiveMode \in ModeIndex /\ ActiveMode = crtc.mode
         /\ pool.refusals \in Nat
  BY DEF PoolInv, PoolTypeOK, Sound, Consistent, ActiveMode, ActiveIsRouted, Shows,
         PoolRecord

\* A pool with the same slots and roles fits the same routes.
LEMMA SameContentFits ==
  ASSUME NEW p, NEW q, SameContent(p, q), NEW r, NEW key
  PROVE  /\ ActiveIsRouted(p, key) => ActiveIsRouted(q, key)
         /\ CandidateFits(p, r) => CandidateFits(q, r)
         /\ PlanFits(p, r) => PlanFits(q, r)
  BY DEF SameContent, ActiveIsRouted, CandidateFits, PlanFits

\* A commit ends with the CRTC in the mode the switch left it in.
LEMMA SettlesLeaves ==
  ASSUME modes \in Connectors, NEW p, Sound(p), NEW c \in CrtcState, Shows(p, c),
         visible_surface \in Surfaces, running, Settles(p, c)
  PROVE  /\ Sound(pool') /\ SameContent(p, pool') /\ pool'.refusals >= p.refusals
         /\ crtc' \in CrtcState /\ crtc'.mode = c.mode /\ running' \in BOOLEAN
         /\ running' => /\ Shows(pool', crtc')
                        /\ visible_surface # "Content" => pool'.waiting = crtc'.mode
<1>1. p.slots[p.active] \in ModeIndex /\ p.slots[p.active] = c.mode /\ p.refusals \in Nat
  BY DEF Shows, CrtcState, Sound, PoolRecord
<1>2. CASE ~is_waiting /\ pool' = p /\ crtc' = c /\ UNCHANGED running
  BY <1>1, <1>2 DEF is_waiting, SameContent
<1>3. CASE pool' \in ensure_waiting_mode(p, p.slots[p.active])
           /\ set_crtc(Waiting, p.slots[p.active]) /\ UNCHANGED running
  <2>1. /\ Sound(pool') /\ SameContent(p, pool') /\ pool'.waiting = p.slots[p.active]
        /\ pool'.refusals >= p.refusals
    BY <1>1, <1>3, EnsureWaiting
  <2>2. crtc' = [set |-> Waiting, scanned |-> Waiting, mode |-> p.slots[p.active]]
    BY <1>3 DEF set_crtc
  <2>3. crtc' \in CrtcState /\ crtc'.mode = c.mode
    BY <1>1, <2>2 DEF CrtcState
  <2>4. Shows(pool', crtc')
    BY <1>1, <2>1, <2>2 DEF Shows, SameContent
  <2> QED
    BY <1>1, <1>3, <2>1, <2>2, <2>3, <2>4
<1>4. CASE /\ pool' \in ensure_waiting_mode(p, p.slots[p.active])
                   \cup ensure_waiting_mode_fails(p, p.slots[p.active])
           /\ crtc' = c /\ running' = FALSE
  <2>1. Sound(pool') /\ SameContent(p, pool') /\ pool'.refusals >= p.refusals
    BY <1>1, <1>4, EnsureWaiting, EnsureWaitingFails DEF SameContent, SameRoles
  <2> QED
    BY <1>4, <2>1
<1> QED
  BY <1>2, <1>3, <1>4 DEF Settles

\* The active slot and the CRTC's mode are left alone.
Still == pool'.active = pool.active /\ crtc'.mode = crtc.mode

\* A step that leaves the CRTC, the active slot and the waiting scanout alone.
LEMMA StepKeepsScanout ==
  ASSUME PoolInv, running, modes' = modes, UNCHANGED <<running, crtc, visible_surface>>,
         proto' \in ProtoState, receive' \in {"Idle", "Owned", "Contained"},
         Sound(pool'), pool'.active = pool.active, pool'.waiting = pool.waiting,
         pool'.slots[pool'.active] = pool.slots[pool.active],
         routes' \in RouteState,
         routes'.current_physical_key = routes.current_physical_key,
         CandidateFits(pool', routes'), PlanFits(pool', routes'),
         Planned(proto', pool'.refusals, routes')
  PROVE  PoolInv' /\ Still
<1>1. Consistent(proto, pool, routes, crtc, visible_surface)
  BY RunningPool
<1>2. ActiveIsRouted(pool', routes'.current_physical_key)
  BY <1>1 DEF Consistent, ActiveIsRouted
<1>3. Shows(pool', crtc') /\ (visible_surface' # "Content" => pool'.waiting = crtc'.mode)
  BY <1>1 DEF Consistent, Shows
<1>4. Consistent(proto', pool', routes', crtc', visible_surface')
  BY <1>2, <1>3 DEF Consistent, Sound
<1>5. /\ modes \in Connectors /\ running' \in BOOLEAN /\ crtc' \in CrtcState
      /\ visible_surface' \in Surfaces /\ pool' \in PoolRecord /\ Accounted(pool')
  BY DEF PoolInv, PoolTypeOK, Sound
<1>6. PoolInv'
  BY <1>4, <1>5, InvariantAfter
<1> QED
  BY <1>6 DEF Still

\* A STATE_CHECK that is not refused.
LEMMA CheckedState ==
  ASSUME PoolInv, NEW k \in CheckedKeys, Checks(k)
  PROVE  /\ running /\ k \in DOMAIN catalog /\ k \in Key
         /\ modes' = modes /\ UNCHANGED <<running, receive, crtc, visible_surface>>
         /\ proto' \in ProtoState /\ proto'.pending = k
         /\ receive' \in {"Idle", "Owned", "Contained"}
<1>1. running /\ proto' = [proto EXCEPT !.pending = k]
      /\ UNCHANGED <<modes, running, receive, crtc, visible_surface>>
  BY DEF Checks, ServesEP0
<1>2. modes \in Connectors /\ proto \in ProtoState
      /\ receive \in {"Idle", "Owned", "Contained"}
  BY DEF PoolInv, PoolTypeOK
<1>3. k \in DOMAIN catalog /\ k \in Key
  BY <1>2, CheckedIsRouted, CatalogRoutes
<1> QED
  BY <1>1, <1>2, <1>3 DEF ProtoState

\* A plan is not None.
LEMMA PlanIsThere == \A plan \in PendingPlan : plan # None
  BY PoolAssumption, Zenon

WithPlan(r, plan, ck) == [r EXCEPT !.plan = plan, !.candidate_key = ck]

\* The fields of the routes after a plan was made.
LEMMA PlansFields ==
  ASSUME NEW r \in RouteState, NEW plan \in PendingPlan, NEW ck \in Key \cup {None},
         NEW q, q = WithPlan(r, plan, ck)
  PROVE  /\ q \in RouteState /\ q.plan = plan /\ q.plan # None /\ q.candidate_key = ck
         /\ q.current_physical_key = r.current_physical_key
         /\ q.failed = r.failed
<1>1. /\ q \in RouteState /\ q.plan = plan /\ q.candidate_key = ck
      /\ q.current_physical_key = r.current_physical_key
      /\ q.failed = r.failed
  BY DEF RouteState, WithPlan
<1> QED
  BY <1>1, PlanIsThere

\* A check that plans without an allocation gives the candidate up.
LEMMA CheckWithoutAllocationStep ==
  ASSUME PoolInv, NEW k \in CheckedKeys, CheckWithoutAllocation(k)
  PROVE  PoolInv' /\ Still
<1>1. /\ running /\ k \in DOMAIN catalog /\ k \in Key
      /\ modes' = modes /\ UNCHANGED <<running, receive, crtc, visible_surface>>
      /\ proto' \in ProtoState /\ proto'.pending = k
      /\ receive' \in {"Idle", "Owned", "Contained"}
  BY CheckedState DEF CheckWithoutAllocation
<1>2. modes \in Connectors /\ Sound(pool) /\ routes \in RouteState
  BY <1>1, RunningPool DEF PoolInv, PoolTypeOK
<1>3. /\ Sound(pool') /\ pool'.candidate = None
      /\ pool'.active = pool.active /\ pool'.waiting = pool.waiting
      /\ pool'.slots[pool'.active] = pool.slots[pool.active]
  BY <1>2, ReleaseCandidate DEF CheckWithoutAllocation
<1>4. PlanKind(k) \in {"ExactActiveNoOp", "ScaledCurrentAfterFailure",
                       "ScaledBaseline", "ScaledBaselineSwitch"}
  BY DEF PlanKind
<1>5. /\ routes' \in RouteState
      /\ routes'.plan = [fresh |-> TRUE, kind |-> PlanKind(k), slot |-> None, key |-> k]
      /\ routes'.plan # None /\ routes'.candidate_key = None
      /\ routes'.current_physical_key = routes.current_physical_key
  <2> DEFINE plan == [fresh |-> TRUE, kind |-> PlanKind(k), slot |-> None, key |-> k]
  <2>1. plan \in PendingPlan
    BY <1>1, <1>4 DEF PendingPlan
  <2>2. routes' = WithPlan(routes, plan, None)
    BY DEF CheckWithoutAllocation, Plans, WithPlan
  <2> HIDE DEF plan
  <2>3. /\ routes' \in RouteState /\ routes'.plan = plan
        /\ routes'.plan # None /\ routes'.candidate_key = None
        /\ routes'.current_physical_key = routes.current_physical_key
    BY <1>2, <2>1, <2>2, PlansFields
  <2> QED
    BY <2>3 DEF plan
<1>6. CandidateFits(pool', routes')
  BY <1>5 DEF CandidateFits
<1>7. PlanFits(pool', routes')
  <2>1. PlanKind(k) = "ExactActiveNoOp" => k = routes.current_physical_key
    BY DEF PlanKind, IsActive
  <2>2. PlanKind(k) = "ScaledBaseline" => pool.active = 0
    BY DEF PlanKind
  <2>3. PlanKind(k) = "ScaledBaselineSwitch" => pool.active # 0
    BY DEF PlanKind
  <2> QED
    BY <1>3, <1>4, <1>5, <2>1, <2>2, <2>3 DEF PlanFits
<1>8. Planned(proto', pool'.refusals, routes')
  BY <1>1, <1>5 DEF Planned
<1> QED
  BY <1>1, <1>3, <1>5, <1>6, <1>7, <1>8, StepKeepsScanout

\* A check of the candidate's key plans for the candidate that is there.
LEMMA CheckKeepsCandidateStep ==
  ASSUME PoolInv, NEW k \in CheckedKeys, CheckKeepsCandidate(k)
  PROVE  PoolInv' /\ Still
<1>1. /\ running /\ k \in DOMAIN catalog /\ k \in Key
      /\ modes' = modes /\ UNCHANGED <<running, receive, crtc, visible_surface>>
      /\ proto' \in ProtoState /\ proto'.pending = k
      /\ receive' \in {"Idle", "Owned", "Contained"}
  BY CheckedState DEF CheckKeepsCandidate
<1>2. modes \in Connectors /\ Sound(pool) /\ routes \in RouteState
      /\ Consistent(proto, pool, routes, crtc, visible_surface)
  BY <1>1, RunningPool DEF PoolInv, PoolTypeOK
<1>3. pool' = pool /\ IsCandidate(k) /\ Plans("ExactCandidate", pool.candidate, k, k)
  BY DEF CheckKeepsCandidate
<1>4. pool.candidate \in {0, 1, 2, None}
  BY <1>2 DEF Sound, PoolRecord
<1>5. /\ routes' \in RouteState
      /\ routes'.plan = [fresh |-> TRUE, kind |-> "ExactCandidate",
                         slot |-> pool.candidate, key |-> k]
      /\ routes'.plan # None /\ routes'.candidate_key = k
      /\ routes'.current_physical_key = routes.current_physical_key
      /\ routes'.failed = routes.failed
  <2> DEFINE plan == [fresh |-> TRUE, kind |-> "ExactCandidate",
                      slot |-> pool.candidate, key |-> k]
  <2>1. plan \in PendingPlan
    BY <1>1, <1>4 DEF PendingPlan
  <2>2. routes' = WithPlan(routes, plan, k)
    BY <1>3 DEF Plans, WithPlan
  <2> HIDE DEF plan
  <2>3. /\ routes' \in RouteState /\ routes'.plan = plan
        /\ routes'.plan # None /\ routes'.candidate_key = k
        /\ routes'.current_physical_key = routes.current_physical_key
        /\ routes'.failed = routes.failed
    BY <1>1, <1>2, <2>1, <2>2, PlansFields
  <2> QED
    BY <2>3 DEF plan
<1>6. routes.candidate_key = k /\ pool.candidate # None
  BY <1>3 DEF IsCandidate
<1>7. CandidateFits(pool', routes')
  BY <1>2, <1>3, <1>5, <1>6 DEF CandidateFits, Consistent
<1>8. PlanFits(pool', routes')
  BY <1>3, <1>5, <1>6 DEF PlanFits
<1>9. Planned(proto', pool'.refusals, routes')
  BY <1>1, <1>5 DEF Planned
<1> QED
  BY <1>1, <1>2, <1>3, <1>5, <1>7, <1>8, <1>9, StepKeepsScanout

\* A key that needs a candidate is routed to a mode that is not on screen.
LEMMA NeededRoute ==
  ASSUME PoolInv, NEW k, NeedsCandidate(k)
  PROVE  /\ k \in PhysicalKeys(modes) /\ k # routes.current_physical_key
         /\ catalog[k].route \in ModeIndex
         /\ <<k, routes.current_physical_key>> \notin routes.failed
<1>1. modes \in Connectors /\ k \in DOMAIN catalog /\ Exact(k)
  BY DEF PoolInv, PoolTypeOK, NeedsCandidate
<1>2. k \in PhysicalKeys(modes) /\ catalog[k].route \in ModeIndex
  BY <1>1, CatalogRoutes
<1> QED
  BY <1>2 DEF NeedsCandidate, IsActive, IsCached, failed_key

\* A new candidate is staged where nothing is active.
LEMMA CheckStagesStep ==
  ASSUME PoolInv, NEW k \in CheckedKeys, CheckStages(k)
  PROVE  PoolInv' /\ Still
<1> DEFINE mid == release_candidate(pool, 0)
           s == candidate_slot
           m == catalog[k].route
<1>1. /\ running /\ k \in DOMAIN catalog /\ k \in Key
      /\ modes' = modes /\ UNCHANGED <<running, receive, crtc, visible_surface>>
      /\ proto' \in ProtoState /\ proto'.pending = k
      /\ receive' \in {"Idle", "Owned", "Contained"}
  BY CheckedState DEF CheckStages
<1>2. modes \in Connectors /\ Sound(pool) /\ routes \in RouteState
  BY <1>1, RunningPool DEF PoolInv, PoolTypeOK
<1>3. /\ k \in PhysicalKeys(modes) /\ k # routes.current_physical_key
      /\ m \in ModeIndex /\ <<k, routes.current_physical_key>> \notin routes.failed
  BY NeededRoute DEF CheckStages
<1>4. /\ Sound(mid) /\ mid.candidate = None
      /\ mid.active = pool.active /\ mid.slots[mid.active] = pool.slots[pool.active]
      /\ mid.waiting = pool.waiting
  BY <1>2, ReleaseCandidate
<1>5. s \in {1, 2} /\ s # pool.active /\ s # None
  BY <1>2, NoneIsNoIndex DEF candidate_slot, Slots
<1>6. pool' = stage_candidate(mid, s, m)
  BY DEF CheckStages
<1> HIDE DEF mid, s, m
<1>7. /\ Sound(pool') /\ pool'.candidate = s /\ pool'.slots[s] = m
      /\ pool'.active = pool.active /\ pool'.waiting = pool.waiting
      /\ pool'.slots[pool'.active] = pool.slots[pool.active]
  BY <1>2, <1>3, <1>4, <1>5, <1>6, StageCandidate
<1> DEFINE plan == [fresh |-> TRUE, kind |-> "ExactCandidate", slot |-> s, key |-> k]
<1>8. plan \in PendingPlan
  BY <1>1, <1>5 DEF PendingPlan
<1>9. routes' = WithPlan(routes, plan, k)
  BY DEF CheckStages, Plans, WithPlan, s
<1> HIDE DEF plan
<1>10. /\ routes' \in RouteState /\ routes'.plan = plan
       /\ routes'.plan # None /\ routes'.candidate_key = k
       /\ routes'.current_physical_key = routes.current_physical_key
       /\ routes'.failed = routes.failed
  BY <1>1, <1>2, <1>8, <1>9, PlansFields
<1>11. CandidateFits(pool', routes')
  BY <1>3, <1>7, <1>10 DEF CandidateFits, m
<1>12. PlanFits(pool', routes')
  BY <1>5, <1>7, <1>10 DEF PlanFits, plan
<1>13. Planned(proto', pool'.refusals, routes')
  BY <1>1, <1>10 DEF Planned, plan
<1> QED
  BY <1>1, <1>7, <1>10, <1>11, <1>12, <1>13, StepKeepsScanout

\* A candidate that cannot be made is remembered as failed.
LEMMA CheckCannotStageStep ==
  ASSUME PoolInv, NEW k \in CheckedKeys, CheckCannotStage(k)
  PROVE  PoolInv' /\ Still
<1> DEFINE mid == release_candidate(pool, 0)
           plan == [fresh |-> TRUE, kind |-> "ScaledCurrentAfterFailure",
                    slot |-> None, key |-> k]
<1>1. /\ running /\ k \in DOMAIN catalog /\ k \in Key
      /\ modes' = modes /\ UNCHANGED <<running, receive, crtc, visible_surface>>
      /\ proto' \in ProtoState /\ proto'.pending = k
      /\ receive' \in {"Idle", "Owned", "Contained"}
  BY CheckedState DEF CheckCannotStage
<1>2. modes \in Connectors /\ Sound(pool) /\ routes \in RouteState
  BY <1>1, RunningPool DEF PoolInv, PoolTypeOK
<1>3. /\ Sound(mid) /\ mid.candidate = None
      /\ mid.active = pool.active /\ mid.slots[mid.active] = pool.slots[pool.active]
      /\ mid.waiting = pool.waiting
  BY <1>2, ReleaseCandidate
<1>4. pool' \in create_fails(mid, ContentObjects) /\ ContentObjects \in Nat
  BY DEF CheckCannotStage, ContentObjects
<1> HIDE DEF mid
<1>5. Sound(pool') /\ SameRoles(mid, pool')
  BY <1>2, <1>3, <1>4, CreateFails
<1>6. plan \in PendingPlan /\ plan # None
  BY <1>1, PlanIsThere DEF PendingPlan
<1>7. routes' = [routes EXCEPT !.plan = plan,
                   !.failed = routes.failed \cup {<<k, routes.current_physical_key>>},
                   !.candidate_key = None]
  BY <1>2 DEF CheckCannotStage, failed_key, RouteState
<1>8. routes.failed \cup {<<k, routes.current_physical_key>>} \in SUBSET (Key \X Key)
  BY <1>1, <1>2 DEF RouteState
<1> HIDE DEF plan
<1>9. /\ routes' \in RouteState /\ routes'.plan = plan /\ routes'.candidate_key = None
      /\ routes'.current_physical_key = routes.current_physical_key
  BY <1>2, <1>6, <1>7, <1>8 DEF RouteState
<1>10. CandidateFits(pool', routes')
  BY <1>9 DEF CandidateFits
<1>11. PlanFits(pool', routes')
  BY <1>9 DEF PlanFits, plan
<1>12. Planned(proto', pool'.refusals, routes')
  BY <1>1, <1>6, <1>9 DEF Planned, plan
<1>13. /\ pool'.active = pool.active /\ pool'.waiting = pool.waiting
       /\ pool'.slots[pool'.active] = pool.slots[pool.active]
  BY <1>3, <1>5 DEF SameRoles
<1> QED
  BY <1>1, <1>5, <1>9, <1>10, <1>11, <1>12, <1>13, StepKeepsScanout

\* A stale plan is well typed and never fresh.
LEMMA StaleIsTyped ==
  ASSUME NEW plan \in PendingPlan \cup {None}
  PROVE  /\ Stale(plan) \in PendingPlan \cup {None}
         /\ Stale(plan) # None => ~Stale(plan).fresh
<1>1. CASE plan = None
  BY <1>1 DEF Stale
<1>2. CASE plan # None
  <2>1. Stale(plan) = [plan EXCEPT !.fresh = FALSE] /\ plan \in PendingPlan
    BY <1>2 DEF Stale
  <2> QED
    BY <2>1 DEF PendingPlan
<1> QED
  BY <1>1, <1>2

\* A plan that is not fresh asks nothing of the pool.
LEMMA StalePlanFits ==
  ASSUME NEW p, NEW r, r.plan = None \/ ~r.plan.fresh
  PROVE  PlanFits(p, r)
  BY DEF PlanFits

\* A check only goes without a plan once a removal was refused.
LEMMA CheckErrsStep ==
  ASSUME PoolInv, NEW k \in CheckedKeys, CheckErrs(k)
  PROVE  PoolInv' /\ Still
<1>1. /\ running /\ k \in DOMAIN catalog /\ k \in Key
      /\ modes' = modes /\ UNCHANGED <<running, receive, crtc, visible_surface>>
      /\ proto' \in ProtoState /\ proto'.pending = k
      /\ receive' \in {"Idle", "Owned", "Contained"}
  BY CheckedState DEF CheckErrs
<1>2. modes \in Connectors /\ Sound(pool) /\ routes \in RouteState /\ pool.refusals \in Nat
  BY <1>1, RunningPool DEF PoolInv, PoolTypeOK
<1>3. PICK r \in CandidateRefused(pool) :
        /\ r > 0 /\ pool' = release_candidate(pool, r)
        /\ routes' = [routes EXCEPT !.plan = Stale(@), !.candidate_key = None]
  BY <1>1 DEF CheckErrs
<1>4. r \in Nat /\ pool.candidate # None
  BY <1>3, CandidateRefusedIsCounted
<1>5. /\ Sound(pool') /\ pool'.active = pool.active /\ pool'.waiting = pool.waiting
      /\ pool'.slots[pool'.active] = pool.slots[pool.active]
      /\ pool'.refusals = pool.refusals + r
  BY <1>2, <1>3, <1>4, ReleaseCandidate
<1>6. /\ routes' \in RouteState /\ routes'.plan = Stale(routes.plan)
      /\ routes'.candidate_key = None
      /\ routes'.current_physical_key = routes.current_physical_key
      /\ Stale(routes.plan) # None => ~Stale(routes.plan).fresh
  BY <1>2, <1>3, StaleIsTyped DEF RouteState
<1>7. CandidateFits(pool', routes') /\ PlanFits(pool', routes')
  BY <1>6, StalePlanFits DEF CandidateFits
<1>8. Planned(proto', pool'.refusals, routes')
  BY <1>2, <1>3, <1>4, <1>5 DEF Planned
<1> QED
  BY <1>1, <1>5, <1>6, <1>7, <1>8, StepKeepsScanout

\* A STATE_COMMIT of a pending snapshot.
LEMMA CommittedState ==
  ASSUME PoolInv, Commits
  PROVE  /\ running /\ modes' = modes /\ UNCHANGED <<receive, visible_surface>>
         /\ proto' \in ProtoState /\ proto'.pending = None
         /\ modes \in Connectors /\ routes \in RouteState /\ crtc \in CrtcState
         /\ receive' \in {"Idle", "Owned", "Contained"} /\ visible_surface \in Surfaces
<1>1. /\ running /\ modes' = modes /\ UNCHANGED <<receive, visible_surface>>
      /\ proto' = [pending |-> None, committed |-> TRUE]
  BY DEF Commits, ServesEP0
<1> QED
  BY <1>1 DEF PoolInv, PoolTypeOK, ProtoState

Recorded(r, route, key, failed) ==
  [r EXCEPT !.plan = None, !.route = route, !.failed = @ \cup failed,
            !.current_physical_key = key, !.candidate_key = None]

\* What record_committed_route leaves.
LEMMA RecordsFields ==
  ASSUME NEW r \in RouteState, NEW key \in Key, NEW failed \in SUBSET (Key \X Key),
         NEW route \in {"DirectExact", "ScaledBaseline", "ScaledCurrentAfterFailure"},
         NEW q, q = Recorded(r, route, key, failed)
  PROVE  /\ q \in RouteState /\ q.plan = None /\ q.candidate_key = None
         /\ q.current_physical_key = key
<1>1. r.failed \cup failed \in SUBSET (Key \X Key)
  BY DEF RouteState
<1> QED
  BY <1>1 DEF RouteState, Recorded

\* A commit that left the pool p and the CRTC c, and ended well or while the
\* waiting surface was presented again.
LEMMA CommitEnds ==
  ASSUME PoolInv, Commits, NEW p, Sound(p), NEW c \in CrtcState, Shows(p, c),
         Settles(p, c), NEW key \in Key, ActiveIsRouted(p, key),
         NEW route \in {"DirectExact", "ScaledBaseline", "ScaledCurrentAfterFailure"},
         NEW failed \in SUBSET (Key \X Key),
         routes' = Recorded(routes, route, key, failed)
  PROVE  PoolInv' /\ pool'.active = p.active /\ crtc'.mode = c.mode
<1>1. /\ running /\ modes' = modes /\ UNCHANGED <<receive, visible_surface>>
      /\ proto' \in ProtoState /\ proto'.pending = None
      /\ modes \in Connectors /\ routes \in RouteState
      /\ receive' \in {"Idle", "Owned", "Contained"} /\ visible_surface \in Surfaces
  BY CommittedState
<1>2. /\ Sound(pool') /\ SameContent(p, pool')
      /\ crtc' \in CrtcState /\ crtc'.mode = c.mode /\ running' \in BOOLEAN
      /\ running' => /\ Shows(pool', crtc')
                     /\ visible_surface # "Content" => pool'.waiting = crtc'.mode
  BY <1>1, SettlesLeaves
<1>3. /\ routes' \in RouteState /\ routes'.plan = None /\ routes'.candidate_key = None
      /\ routes'.current_physical_key = key
  BY <1>1, RecordsFields
<1>4. /\ CandidateFits(pool', routes') /\ PlanFits(pool', routes')
      /\ Planned(proto', pool'.refusals, routes')
  BY <1>1, <1>3 DEF CandidateFits, PlanFits, Planned
<1>5. ActiveIsRouted(pool', routes'.current_physical_key)
  BY <1>2, <1>3, SameContentFits
<1>6. running' => Consistent(proto', pool', routes', crtc', visible_surface')
  BY <1>1, <1>2, <1>4, <1>5 DEF Consistent, Sound
<1>7. PoolInv'
  BY <1>1, <1>2, <1>3, <1>6, InvariantAfter DEF Sound
<1> QED
  BY <1>2, <1>7 DEF SameContent

\* A commit that ends the daemon.
LEMMA CommitStops ==
  ASSUME PoolInv, Commits, running' = FALSE, pool' \in PoolRecord, Accounted(pool'),
         crtc' \in CrtcState, routes' \in RouteState
  PROVE  PoolInv'
<1>1. /\ modes' = modes /\ modes \in Connectors /\ UNCHANGED <<receive, visible_surface>>
      /\ proto' \in ProtoState /\ receive' \in {"Idle", "Owned", "Contained"}
      /\ visible_surface \in Surfaces
  BY CommittedState
<1>2. visible_surface' \in Surfaces /\ running' \in BOOLEAN /\ ~running'
  BY <1>1
<1> QED
  BY <1>1, <1>2, InvariantAfter

\* The active mode's key is the current one.
LEMMA CurrentIsActive ==
  ASSUME PoolInv, running
  PROVE  /\ ActiveIsRouted(pool, current) /\ current \in Key
         /\ Sound(pool) /\ Shows(pool, crtc)
  BY RunningPool DEF Consistent, current, PoolInv, PoolTypeOK, RouteState

\* The baseline is in the mode its key is routed to.
LEMMA BaselineIsRouted ==
  ASSUME PoolInv, running
  PROVE  /\ pool.slots[0] = 1 /\ 1 \in ModeIndex /\ Canonical(1)
         /\ ModeKey(modes[1]) \in Key
<1>1. modes \in Connectors /\ Sound(pool)
  BY RunningPool
<1>2. /\ ModeIndex \subseteq Nat \ {0} /\ 1 \in ModeIndex
      /\ ModeKey(modes[1]) \in Key
  BY <1>1, ConnectorModes
<1>3. Canonical(1)
  BY <1>2 DEF Canonical
<1> QED
  BY <1>1, <1>2, <1>3 DEF Sound, Roles

\* A commit without a plan keeps the scanout.
LEMMA CommitWithoutPlanStep ==
  ASSUME PoolInv, CommitWithoutPlan
  PROVE  PoolInv' /\ Still
<1>1. Commits /\ UNCHANGED <<running, crtc>>
  BY DEF CommitWithoutPlan
<1>2. /\ running /\ modes' = modes /\ UNCHANGED <<receive, visible_surface>>
      /\ proto' \in ProtoState /\ proto'.pending = None
      /\ modes \in Connectors /\ routes \in RouteState
      /\ receive' \in {"Idle", "Owned", "Contained"}
  BY <1>1, CommittedState
<1>3. PICK r \in CandidateRefused(pool) : pool' = release_candidate(pool, r)
  BY DEF CommitWithoutPlan
<1>4. r \in Nat
  BY CandidateRefusedIsCounted
<1>5. /\ Sound(pool') /\ pool'.active = pool.active /\ pool'.waiting = pool.waiting
      /\ pool'.slots[pool'.active] = pool.slots[pool.active]
  BY <1>2, <1>3, <1>4, RunningPool, ReleaseCandidate
<1>6. routes' = Recorded(routes, "ScaledCurrentAfterFailure", current, {})
  BY DEF CommitWithoutPlan, Records, Recorded
<1>7. current \in Key /\ {} \in SUBSET (Key \X Key) /\ "ScaledCurrentAfterFailure"
        \in {"DirectExact", "ScaledBaseline", "ScaledCurrentAfterFailure"}
  BY <1>2 DEF current, RouteState
<1>8. /\ routes' \in RouteState /\ routes'.plan = None /\ routes'.candidate_key = None
      /\ routes'.current_physical_key = current
  BY <1>2, <1>6, <1>7, RecordsFields
<1>9. /\ CandidateFits(pool', routes') /\ PlanFits(pool', routes')
      /\ Planned(proto', pool'.refusals, routes')
  BY <1>2, <1>8 DEF CandidateFits, PlanFits, Planned
<1> QED
  BY <1>1, <1>2, <1>5, <1>8, <1>9, StepKeepsScanout DEF current

\* A commit that keeps the scanout and records key, the key of its mode.
LEMMA CommitKeepsScanout ==
  ASSUME PoolInv, Commits, Settles(pool, crtc), NEW key \in Key,
         ActiveIsRouted(pool, key),
         NEW route \in {"DirectExact", "ScaledBaseline", "ScaledCurrentAfterFailure"},
         routes' = Recorded(routes, route, key, {})
  PROVE  PoolInv' /\ Still
<1>1. running /\ crtc \in CrtcState
  BY CommittedState
<1>2. Sound(pool) /\ Shows(pool, crtc) /\ {} \in SUBSET (Key \X Key)
  BY <1>1, CurrentIsActive
<1> QED
  BY <1>1, <1>2, CommitEnds DEF Still

\* The plans that keep the scanout record the key of its mode.
LEMMA CommitKeepsStep ==
  ASSUME PoolInv, CommitKeeps
  PROVE  PoolInv' /\ Still
<1>1. Commits /\ Settles(pool, crtc)
  BY DEF CommitKeeps
<1>2. running /\ routes \in RouteState
  BY <1>1, CommittedState
<1>3. ActiveIsRouted(pool, current) /\ current \in Key
  BY <1>2, CurrentIsActive
<1>4. CASE Records("DirectExact", current, {})
  <2>1. routes' = Recorded(routes, "DirectExact", current, {})
    BY <1>4 DEF Records, Recorded
  <2> QED
    BY <1>1, <1>3, <2>1, CommitKeepsScanout
<1>5. CASE Records("ScaledCurrentAfterFailure", current, {})
  <2>1. routes' = Recorded(routes, "ScaledCurrentAfterFailure", current, {})
    BY <1>5 DEF Records, Recorded
  <2> QED
    BY <1>1, <1>3, <2>1, CommitKeepsScanout
<1>6. CASE PlanIs("ScaledBaseline")
           /\ Records("ScaledBaseline", ModeKey(modes[pool.slots[0]]), {})
  <2>1. pool.active = 0
    BY <1>2, <1>6, RunningPool DEF PlanIs, Consistent, PlanFits
  <2>2. ModeKey(modes[pool.slots[0]]) = current
    BY <1>3, <2>1 DEF ActiveIsRouted
  <2>3. routes' = Recorded(routes, "ScaledBaseline", current, {})
    BY <1>6, <2>2 DEF Records, Recorded
  <2> QED
    BY <1>1, <1>3, <2>3, CommitKeepsScanout
<1> QED
  BY <1>4, <1>5, <1>6 DEF CommitKeeps

\* A failed return to the baseline moves nothing.
LEMMA CommitCannotReturnStep ==
  ASSUME PoolInv, CommitCannotReturn
  PROVE  PoolInv' /\ Still
<1>1. Commits /\ Settles(pool, crtc)
  BY DEF CommitCannotReturn
<1>2. running
  BY <1>1, CommittedState
<1>3. ActiveIsRouted(pool, current) /\ current \in Key
  BY <1>2, CurrentIsActive
<1>4. routes' = Recorded(routes, "ScaledCurrentAfterFailure", current, {})
  BY DEF CommitCannotReturn, Records, Recorded
<1> QED
  BY <1>1, <1>3, <1>4, CommitKeepsScanout

\* A switch to slot s, whose allocation is in the mode key is routed to.
LEMMA SwitchesStep ==
  ASSUME PoolInv, Commits, NEW s \in Slots, s = 0 \/ s = pool.candidate, s # pool.active,
         NEW key \in Key, pool.slots[s] \in ModeIndex, Canonical(pool.slots[s]),
         key = ModeKey(modes[pool.slots[s]]),
         NEW route \in {"DirectExact", "ScaledBaseline"}, Switches(s, route, key)
  PROVE  PoolInv' /\ pool'.active = s /\ crtc'.mode = pool.slots[s]
<1> DEFINE m    == pool.slots[s]
           c    == [set |-> s, scanned |-> s, mode |-> m]
           next == activate_slot(pool, s)
<1>1. /\ running /\ modes \in Connectors /\ routes \in RouteState
      /\ visible_surface \in Surfaces
  BY CommittedState
<1>2. Sound(pool)
  BY <1>1, RunningPool
<1>3. c \in CrtcState
  BY DEF CrtcState
<1>4. CASE /\ Settles(release_inactive(next, pool.active, 0), c)
           /\ Records(route, key, {})
  <2> DEFINE p == release_inactive(next, pool.active, 0)
  <2>1. Sound(p) /\ p.active = s /\ p.slots[s] = m
    BY <1>1, <1>2, SwitchSlot
  <2>2. routes' = Recorded(routes, route, key, {})
    BY <1>4 DEF Records, Recorded
  <2>3. Settles(p, c)
    BY <1>4
  <2> HIDE DEF p
  <2>4. ActiveIsRouted(p, key) /\ Shows(p, c)
    BY <2>1 DEF ActiveIsRouted, Shows
  <2>5. c.mode = m /\ {} \in SUBSET (Key \X Key)
        /\ route \in {"DirectExact", "ScaledBaseline", "ScaledCurrentAfterFailure"}
    OBVIOUS
  <2> HIDE DEF c, m
  <2>6. PoolInv' /\ pool'.active = p.active /\ crtc'.mode = c.mode
    BY <1>3, <2>1, <2>2, <2>3, <2>4, <2>5, CommitEnds
  <2> QED
    BY <2>1, <2>5, <2>6 DEF m
<1>5. CASE /\ \E r \in InactiveRefused(next, pool.active) \ {0} :
                pool' = release_inactive(next, pool.active, r)
           /\ crtc' = c /\ running' = FALSE
           /\ routes' = [routes EXCEPT !.plan = None]
  <2>1. PICK r \in InactiveRefused(next, pool.active) :
          pool' = release_inactive(next, pool.active, r)
    BY <1>5
  <2>2. r \in Nat
    BY RefusedIsCounted DEF InactiveRefused, ContentObjects
  <2>3. Sound(pool') /\ pool'.active = s
    BY <1>1, <1>2, <2>1, <2>2, SwitchSlot
  <2>4. routes' \in RouteState
    BY <1>1, <1>5 DEF RouteState
  <2>5. PoolInv'
    BY <1>3, <1>5, <2>3, <2>4, CommitStops DEF Sound
  <2> QED
    BY <1>5, <2>3, <2>5
<1> QED
  BY <1>4, <1>5 DEF Switches

\* The slot of an exact plan is the candidate, in another mode than the one on
\* screen, the mode the plan's key is routed to.
LEMMA PlannedCandidate ==
  ASSUME PoolInv, running, PlanIs("ExactCandidate")
  PROVE  /\ routes.plan.slot = pool.candidate
         /\ pool.candidate \in Slots \ {0, pool.active}
         /\ routes.plan.key \in Key
         /\ pool.slots[pool.candidate] \in ModeIndex /\ Canonical(pool.slots[pool.candidate])
         /\ routes.plan.key = ModeKey(modes[pool.slots[pool.candidate]])
         /\ pool.slots[pool.candidate] = catalog[routes.plan.key].route
         /\ pool.slots[pool.candidate] # crtc.mode
         /\ routes.candidate_key = routes.plan.key
<1> DEFINE k == routes.plan.key
<1>1. /\ modes \in Connectors /\ Sound(pool)
      /\ CandidateFits(pool, routes) /\ PlanFits(pool, routes)
      /\ ActiveIsRouted(pool, routes.current_physical_key) /\ Shows(pool, crtc)
  BY RunningPool DEF Consistent
<1>2. /\ routes.plan.slot = pool.candidate /\ pool.candidate # None
      /\ routes.candidate_key = k
  BY <1>1 DEF PlanIs, PlanFits
<1>3. k \in Key /\ k # None
  <2>1. routes.plan \in PendingPlan
    BY DEF PoolInv, PoolTypeOK, RouteState, PlanIs
  <2>2. k \in Key
    BY <2>1 DEF PendingPlan
  <2> QED
    BY <2>2, PoolAssumption, Zenon
<1>4. /\ k \in PhysicalKeys(modes) /\ k # routes.current_physical_key
      /\ pool.slots[pool.candidate] = catalog[k].route
  BY <1>1, <1>2, <1>3 DEF CandidateFits
<1>5. k \in DOMAIN catalog
  BY <1>4 DEF catalog, build
<1>6. /\ catalog[k].route \in ModeIndex /\ ModeKey(modes[catalog[k].route]) = k
      /\ Canonical(catalog[k].route)
  BY <1>1, <1>4, <1>5, CatalogRoutes
<1>7. pool.candidate \in Slots \ {0, pool.active}
  BY <1>1, <1>2 DEF Sound, Roles, PoolRecord, Slots
<1>8. crtc.mode = pool.slots[pool.active]
      /\ routes.current_physical_key = ModeKey(modes[pool.slots[pool.active]])
  BY <1>1 DEF Shows, ActiveIsRouted
<1>9. pool.slots[pool.candidate] # crtc.mode
  BY <1>4, <1>6, <1>8
<1> QED
  BY <1>2, <1>3, <1>4, <1>6, <1>7, <1>9

\* The CRTC's mode and the active slot move to slot s together.
Moves(s) == pool'.active = s /\ crtc'.mode = pool.slots[s]

\* A switch moves slot and mode to those of the candidate.
LEMMA CommitSwitchesStep ==
  ASSUME PoolInv, CommitSwitches
  PROVE  PoolInv' /\ \E s \in Slots \ {0, pool.active} :
                       Moves(s) /\ pool.slots[s] \in ModeIndex /\ pool.slots[s] # crtc.mode
<1> DEFINE s == routes.plan.slot
           k == routes.plan.key
<1>1. Commits /\ PlanIs("ExactCandidate") /\ Switches(s, "DirectExact", k)
  BY DEF CommitSwitches
<1>2. running
  BY <1>1, CommittedState
<1>3. /\ s = pool.candidate /\ s \in Slots /\ s # 0 /\ s # pool.active /\ k \in Key
      /\ pool.slots[s] \in ModeIndex /\ Canonical(pool.slots[s])
      /\ k = ModeKey(modes[pool.slots[s]]) /\ pool.slots[s] # crtc.mode
  BY <1>1, <1>2, PlannedCandidate
<1> HIDE DEF s, k
<1>4. PoolInv' /\ pool'.active = s /\ crtc'.mode = pool.slots[s]
  BY <1>1, <1>3, SwitchesStep
<1> QED
  BY <1>3, <1>4 DEF Moves

\* A return moves slot and mode to those of the baseline.
LEMMA CommitReturnsStep ==
  ASSUME PoolInv, CommitReturns
  PROVE  PoolInv' /\ Moves(0) /\ pool.active # 0 /\ pool.slots[0] = 1
<1> DEFINE k == ModeKey(modes[pool.slots[0]])
<1>1. Commits /\ PlanIs("ScaledBaselineSwitch") /\ Switches(0, "ScaledBaseline", k)
  BY DEF CommitReturns
<1>2. running
  BY <1>1, CommittedState
<1>3. pool.active # 0
  BY <1>1, <1>2, RunningPool DEF PlanIs, Consistent, PlanFits
<1>4. /\ 0 \in Slots /\ k \in Key /\ pool.slots[0] \in ModeIndex
      /\ Canonical(pool.slots[0]) /\ pool.slots[0] = 1
  BY <1>2, BaselineIsRouted DEF Slots
<1>5. k = ModeKey(modes[pool.slots[0]])
  OBVIOUS
<1> HIDE DEF k
<1>6. PoolInv' /\ pool'.active = 0 /\ crtc'.mode = pool.slots[0]
  BY <1>1, <1>3, <1>4, <1>5, SwitchesStep
<1> QED
  BY <1>3, <1>4, <1>6 DEF Moves

\* A failed switch gives the candidate up and moves nothing.
LEMMA CommitCannotSwitchStep ==
  ASSUME PoolInv, CommitCannotSwitch
  PROVE  PoolInv' /\ Still
<1>1. Commits /\ PlanIs("ExactCandidate")
  BY DEF CommitCannotSwitch
<1>2. /\ running /\ modes \in Connectors /\ routes \in RouteState /\ crtc \in CrtcState
  BY <1>1, CommittedState
<1>3. /\ ActiveIsRouted(pool, current) /\ current \in Key
      /\ Sound(pool) /\ Shows(pool, crtc)
  BY <1>2, CurrentIsActive
<1>4. routes.plan.key \in Key
  BY <1>1, <1>2, PlannedCandidate
<1>5. CASE /\ Settles(release_candidate(pool, 0), crtc)
           /\ Records("ScaledCurrentAfterFailure", current, {failed_key(routes.plan.key)})
  <2> DEFINE p == release_candidate(pool, 0)
             failed == {failed_key(routes.plan.key)}
  <2>1. /\ Sound(p) /\ p.active = pool.active /\ p.slots[p.active] = pool.slots[pool.active]
        /\ p.waiting = pool.waiting
    BY <1>2, <1>3, ReleaseCandidate
  <2>2. routes' = Recorded(routes, "ScaledCurrentAfterFailure", current, failed)
    BY <1>5 DEF Records, Recorded
  <2>3. failed \in SUBSET (Key \X Key)
    BY <1>3, <1>4 DEF failed_key, current
  <2>4. Settles(p, crtc)
    BY <1>5
  <2> HIDE DEF p, failed
  <2>5. ActiveIsRouted(p, current) /\ Shows(p, crtc)
    BY <1>3, <2>1 DEF ActiveIsRouted, Shows
  <2>6. PoolInv' /\ pool'.active = p.active /\ crtc'.mode = crtc.mode
    BY <1>1, <1>2, <1>3, <2>1, <2>2, <2>3, <2>4, <2>5, CommitEnds
  <2> QED
    BY <2>1, <2>6 DEF Still
<1>6. CASE /\ \E r \in CandidateRefused(pool) \ {0} : pool' = release_candidate(pool, r)
           /\ running' = FALSE
           /\ routes' = [routes EXCEPT !.plan = None, !.candidate_key = None]
           /\ UNCHANGED crtc
  <2>1. PICK r \in CandidateRefused(pool) : pool' = release_candidate(pool, r)
    BY <1>6
  <2>2. r \in Nat
    BY CandidateRefusedIsCounted
  <2>3. Sound(pool') /\ pool'.active = pool.active
    BY <1>2, <1>3, <2>1, <2>2, ReleaseCandidate
  <2>4. routes' \in RouteState
    BY <1>2, <1>6 DEF RouteState
  <2>5. PoolInv'
    BY <1>1, <1>2, <1>6, <2>3, <2>4, CommitStops DEF Sound
  <2> QED
    BY <1>6, <2>3, <2>5 DEF Still
<1> QED
  BY <1>5, <1>6 DEF CommitCannotSwitch

\* A step that keeps the active slot and the mode, and may replace the waiting
\* scanout, flip to the active slot or set the CRTC to the waiting scanout.
LEMMA StepKeepsMode ==
  ASSUME PoolInv, running, modes' = modes, running' = running,
         proto' \in ProtoState, receive' \in {"Idle", "Owned", "Contained"},
         Sound(pool'), pool'.active = pool.active,
         pool'.slots[pool'.active] = pool.slots[pool.active],
         pool'.waiting = pool.waiting \/ pool'.waiting = ActiveMode,
         crtc' \in CrtcState, crtc'.mode = crtc.mode,
         \A owner \in {crtc'.set, crtc'.scanned} :
           \/ owner \in {crtc.set, crtc.scanned, pool.active}
           \/ owner = Waiting /\ pool'.waiting = ActiveMode,
         visible_surface' \in Surfaces,
         visible_surface' \in {"Content", visible_surface} \/ pool'.waiting = ActiveMode,
         routes' \in RouteState,
         routes'.current_physical_key = routes.current_physical_key,
         CandidateFits(pool', routes'), PlanFits(pool', routes'),
         Planned(proto', pool'.refusals, routes')
  PROVE  PoolInv' /\ Still
<1>1. Consistent(proto, pool, routes, crtc, visible_surface) /\ ActiveMode = crtc.mode
  BY RunningPool
<1>2. ActiveIsRouted(pool', routes'.current_physical_key)
  BY <1>1 DEF Consistent, ActiveIsRouted
<1>3. Shows(pool', crtc')
  BY <1>1 DEF Consistent, Shows
<1>4. visible_surface' # "Content" => pool'.waiting = crtc'.mode
  BY <1>1 DEF Consistent
<1>5. Consistent(proto', pool', routes', crtc', visible_surface')
  BY <1>2, <1>3, <1>4 DEF Consistent, Sound
<1>6. /\ modes \in Connectors /\ running' \in BOOLEAN
      /\ pool' \in PoolRecord /\ Accounted(pool')
  BY DEF PoolInv, PoolTypeOK, Sound
<1>7. PoolInv'
  BY <1>5, <1>6, InvariantAfter
<1> QED
  BY <1>7 DEF Still

\* Preparing the waiting scanout for the active mode, whether it succeeds or
\* not, leaves the slots alone.
LEMMA PreparedWaiting ==
  ASSUME PoolInv, running,
         NEW p \in ensure_waiting_mode(pool, ActiveMode)
                   \cup ensure_waiting_mode_fails(pool, ActiveMode)
  PROVE  /\ Sound(p) /\ SameContent(pool, p) /\ p.refusals >= pool.refusals
         /\ p.waiting = pool.waiting \/ p.waiting = ActiveMode
         /\ p \in ensure_waiting_mode(pool, ActiveMode) => p.waiting = ActiveMode
<1>1. modes \in Connectors /\ Sound(pool) /\ ActiveMode \in ModeIndex
  BY RunningPool
<1>2. CASE p \in ensure_waiting_mode(pool, ActiveMode)
  BY <1>1, <1>2, EnsureWaiting
<1>3. CASE p \notin ensure_waiting_mode(pool, ActiveMode)
  <2>1. p \in ensure_waiting_mode_fails(pool, ActiveMode)
    BY <1>3
  <2>2. Sound(p) /\ SameRoles(pool, p) /\ p.refusals >= pool.refusals
    BY <1>1, <2>1, EnsureWaitingFails
  <2> QED
    BY <1>3, <2>2 DEF SameRoles, SameContent
<1> QED
  BY <1>2, <1>3

\* The steps of a frame.
FrameStep ==
  AdmitFrame \/ LoseFrame \/ ProcessFails \/ ProcessInPlace \/ ProcessFlips
    \/ ProcessFirstContent \/ ProcessHalfShown

\* A frame may replace the waiting scanout and flip to the active slot.
LEMMA FrameStepKeeps ==
  ASSUME PoolInv, FrameStep
  PROVE  PoolInv' /\ Still
<1>1. /\ running /\ modes' = modes /\ running' = running /\ proto' = proto
      /\ routes' = routes /\ receive' \in {"Idle", "Owned", "Contained"}
  BY DEF FrameStep, AdmitFrame, LoseFrame, ProcessFails, ProcessInPlace, ProcessFlips,
         ProcessFirstContent, ProcessHalfShown, Processes, Frames
<1>2. \/ pool' = pool
      \/ pool' \in ensure_waiting_mode(pool, ActiveMode)
                   \cup ensure_waiting_mode_fails(pool, ActiveMode)
  BY DEF FrameStep, AdmitFrame, LoseFrame, ProcessFails, ProcessInPlace, ProcessFlips,
         ProcessFirstContent, ProcessHalfShown, Processes
<1>3. \/ crtc' = crtc
      \/ crtc' \in { [crtc EXCEPT !.set = pool.active, !.scanned = o] :
                       o \in {crtc.scanned, pool.active} }
  BY DEF FrameStep, AdmitFrame, LoseFrame, ProcessFails, ProcessInPlace, ProcessFlips,
         ProcessFirstContent, ProcessHalfShown, page_flip
<1>4. visible_surface' \in {"Content", visible_surface}
  BY DEF FrameStep, AdmitFrame, LoseFrame, ProcessFails, ProcessInPlace, ProcessFlips,
         ProcessFirstContent, ProcessHalfShown
<1>5. /\ Sound(pool) /\ pool.refusals \in Nat
      /\ Consistent(proto, pool, routes, crtc, visible_surface)
  BY <1>1, RunningPool
<1>6. /\ proto \in ProtoState /\ routes \in RouteState /\ crtc \in CrtcState
      /\ visible_surface \in Surfaces
  BY DEF PoolInv, PoolTypeOK
<1>7. /\ Sound(pool') /\ SameContent(pool, pool') /\ pool'.refusals >= pool.refusals
      /\ pool'.waiting = pool.waiting \/ pool'.waiting = ActiveMode
  <2>1. CASE pool' = pool
    BY <1>5, <2>1 DEF SameContent
  <2>2. CASE pool' \in ensure_waiting_mode(pool, ActiveMode)
                       \cup ensure_waiting_mode_fails(pool, ActiveMode)
    BY <1>1, <2>2, PreparedWaiting
  <2> QED
    BY <1>2, <2>1, <2>2
<1>8. /\ crtc' \in CrtcState /\ crtc'.mode = crtc.mode
      /\ \A owner \in {crtc'.set, crtc'.scanned} :
           owner \in {crtc.set, crtc.scanned, pool.active}
  <2>1. pool.active \in Slots
    BY <1>5 DEF Sound, PoolRecord
  <2> QED
    BY <1>3, <1>6, <2>1 DEF CrtcState
<1>9. CandidateFits(pool', routes') /\ PlanFits(pool', routes')
  BY <1>1, <1>5, <1>7, SameContentFits DEF Consistent
<1>10. Planned(proto', pool'.refusals, routes')
  <2>1. pool'.refusals \in Nat
    BY <1>7 DEF Sound, PoolRecord
  <2>2. pool'.refusals = 0 => pool.refusals = 0
    BY <1>5, <1>7, <2>1
  <2> QED
    BY <1>1, <1>5, <2>2 DEF Consistent, Planned
<1>11. pool'.active = pool.active /\ pool'.slots[pool'.active] = pool.slots[pool.active]
  BY <1>7 DEF SameContent
<1>12. visible_surface' \in Surfaces
  BY <1>4, <1>6 DEF Surfaces
<1> QED
  BY <1>1, <1>4, <1>6, <1>7, <1>8, <1>9, <1>10, <1>11, <1>12, StepKeepsMode

\* What an event that invalidates the plan leaves, starting from a pool p with
\* the slots of the current one.
LEMMA Invalidated ==
  ASSUME PoolInv, running, NEW p, Sound(p), SameContent(pool, p), Invalidates(p)
  PROVE  /\ Sound(pool') /\ pool'.active = pool.active /\ pool'.waiting = p.waiting
         /\ pool'.slots[pool'.active] = pool.slots[pool.active]
         /\ routes' \in RouteState
         /\ routes'.current_physical_key = routes.current_physical_key
         /\ CandidateFits(pool', routes') /\ PlanFits(pool', routes')
<1>1. /\ modes \in Connectors /\ routes \in RouteState
      /\ Consistent(proto, pool, routes, crtc, visible_surface)
  BY RunningPool DEF PoolInv, PoolTypeOK
<1>2. CASE InvalidatesFrom(p)
  <2>1. PICK r \in CandidateRefused(p) :
          /\ pool' = release_candidate(p, r)
          /\ routes' = [routes EXCEPT !.plan = IF r = 0 THEN None ELSE Stale(@),
                                      !.candidate_key = None]
    BY <1>2 DEF InvalidatesFrom
  <2>2. r \in Nat
    BY CandidateRefusedIsCounted
  <2>3. /\ Sound(pool') /\ pool'.active = p.active /\ pool'.waiting = p.waiting
        /\ pool'.slots[pool'.active] = p.slots[p.active]
    BY <1>1, <2>1, <2>2, ReleaseCandidate
  <2>4. /\ Stale(routes.plan) \in PendingPlan \cup {None}
        /\ Stale(routes.plan) # None => ~Stale(routes.plan).fresh
    BY <1>1, StaleIsTyped DEF RouteState
  <2>5. /\ routes' \in RouteState /\ routes'.candidate_key = None
        /\ routes'.current_physical_key = routes.current_physical_key
        /\ routes'.plan = None \/ routes'.plan = Stale(routes.plan)
    BY <1>1, <2>1, <2>4 DEF RouteState
  <2>6. CandidateFits(pool', routes') /\ PlanFits(pool', routes')
    BY <2>4, <2>5, StalePlanFits DEF CandidateFits
  <2> QED
    BY <2>3, <2>5, <2>6 DEF SameContent
<1>3. CASE pool' = p /\ routes' = [routes EXCEPT !.plan = Stale(@)]
  <2>1. /\ Stale(routes.plan) \in PendingPlan \cup {None}
        /\ Stale(routes.plan) # None => ~Stale(routes.plan).fresh
    BY <1>1, StaleIsTyped DEF RouteState
  <2>2. /\ routes' \in RouteState /\ routes'.candidate_key = routes.candidate_key
        /\ routes'.current_physical_key = routes.current_physical_key
        /\ routes'.plan = Stale(routes.plan) /\ routes'.failed = routes.failed
    BY <1>1, <1>3, <2>1 DEF RouteState
  <2>3. PlanFits(pool', routes')
    BY <2>1, <2>2, StalePlanFits
  <2>4. CandidateFits(p, routes)
    BY <1>1, SameContentFits DEF Consistent
  <2>5. CandidateFits(pool', routes')
    BY <1>3, <2>2, <2>4 DEF CandidateFits
  <2> QED
    BY <1>3, <2>2, <2>3, <2>5 DEF SameContent
<1> QED
  BY <1>2, <1>3 DEF Invalidates

\* The pending snapshot is gone.
LEMMA NothingPending ==
  ASSUME NEW q, q.pending = None, NEW n, NEW r
  PROVE  Planned(q, n, r)
  BY DEF Planned

\* A refused request takes the plan back.
LEMMA RejectsStep ==
  ASSUME PoolInv, Rejects
  PROVE  PoolInv' /\ Still
<1>1. /\ running /\ proto' = [proto EXCEPT !.pending = None] /\ Invalidates(pool)
      /\ receive' \in {"Idle", "Contained"}
      /\ modes' = modes /\ UNCHANGED <<running, crtc, visible_surface>>
  BY DEF Rejects, ServesEP0
<1>2. proto' \in ProtoState /\ proto'.pending = None
  BY <1>1 DEF PoolInv, PoolTypeOK, ProtoState
<1>3. Sound(pool) /\ SameContent(pool, pool)
  BY <1>1, RunningPool DEF SameContent
<1>4. /\ Sound(pool') /\ pool'.active = pool.active /\ pool'.waiting = pool.waiting
      /\ pool'.slots[pool'.active] = pool.slots[pool.active]
      /\ routes' \in RouteState
      /\ routes'.current_physical_key = routes.current_physical_key
      /\ CandidateFits(pool', routes') /\ PlanFits(pool', routes')
  BY <1>1, <1>3, Invalidated
<1>5. Planned(proto', pool'.refusals, routes')
  BY <1>2, NothingPending
<1> QED
  BY <1>1, <1>2, <1>4, <1>5, StepKeepsScanout

\* A lifecycle event resets the protocol state.
LEMMA ResetState ==
  ASSUME PoolInv, Resets
  PROVE  /\ running /\ modes' = modes /\ running' = running
         /\ proto' \in ProtoState /\ proto'.pending = None
  BY DEF Resets, ProtoState

\* A lifecycle event presents the waiting scanout, or fails to.
LEMMA LifecycleStep ==
  ASSUME PoolInv, NEW e \in {"Enable", "Bind", "Disable", "Suspend"}, Lifecycle(e)
  PROVE  PoolInv' /\ Still
<1>1. /\ running /\ modes' = modes /\ running' = running
      /\ proto' \in ProtoState /\ proto'.pending = None
  BY ResetState DEF Lifecycle
<1>2. PICK p \in ensure_waiting_mode(pool, ActiveMode)
                 \cup ensure_waiting_mode_fails(pool, ActiveMode) :
        Presents(p, NextSurface(e)) /\ Invalidates(p)
  BY DEF Lifecycle
<1>3. /\ Sound(p) /\ SameContent(pool, p)
      /\ p.waiting = pool.waiting \/ p.waiting = ActiveMode
      /\ p \in ensure_waiting_mode(pool, ActiveMode) => p.waiting = ActiveMode
  BY <1>1, PreparedWaiting
<1>4. /\ Sound(pool') /\ pool'.active = pool.active /\ pool'.waiting = p.waiting
      /\ pool'.slots[pool'.active] = pool.slots[pool.active]
      /\ routes' \in RouteState
      /\ routes'.current_physical_key = routes.current_physical_key
      /\ CandidateFits(pool', routes') /\ PlanFits(pool', routes')
  BY <1>1, <1>2, <1>3, Invalidated
<1>5. receive' \in {"Idle", "Owned", "Contained"}
  BY DEF Lifecycle, Destroys, PoolInv, PoolTypeOK
<1>6. crtc \in CrtcState /\ visible_surface \in Surfaces
  BY DEF PoolInv, PoolTypeOK
<1>7. Planned(proto', pool'.refusals, routes')
  BY <1>1, NothingPending
<1>8. CASE /\ p \in ensure_waiting_mode(pool, ActiveMode)
           /\ set_crtc(Waiting, ActiveMode) /\ visible_surface' = NextSurface(e)
  <2>1. ActiveMode \in ModeIndex /\ ActiveMode = crtc.mode /\ pool'.waiting = ActiveMode
    BY <1>1, <1>3, <1>4, <1>8, RunningPool
  <2>2. crtc' = [set |-> Waiting, scanned |-> Waiting, mode |-> ActiveMode]
    BY <1>8 DEF set_crtc
  <2>3. /\ crtc' \in CrtcState /\ crtc'.mode = crtc.mode
        /\ \A owner \in {crtc'.set, crtc'.scanned} : owner = Waiting
    BY <2>1, <2>2 DEF CrtcState
  <2>4. visible_surface' \in Surfaces
    BY <1>6, <1>8 DEF NextSurface, surface_after_suspend, Surfaces
  <2> QED
    BY <1>1, <1>4, <1>5, <1>7, <2>1, <2>3, <2>4, StepKeepsMode
<1>9. CASE UNCHANGED <<crtc, visible_surface>>
  <2>1. /\ crtc' \in CrtcState /\ crtc'.mode = crtc.mode
        /\ \A owner \in {crtc'.set, crtc'.scanned} :
             owner \in {crtc.set, crtc.scanned, pool.active}
        /\ visible_surface' \in Surfaces /\ visible_surface' \in {"Content", visible_surface}
    BY <1>6, <1>9
  <2>2. pool'.waiting = pool.waiting \/ pool'.waiting = ActiveMode
    BY <1>3, <1>4
  <2> QED
    BY <1>1, <1>4, <1>5, <1>7, <2>1, <2>2, StepKeepsMode
<1> QED
  BY <1>2, <1>8, <1>9 DEF Presents

\* A resume brings the active slot back.
LEMMA ResumeStep ==
  ASSUME PoolInv, Resume
  PROVE  PoolInv' /\ Still
<1>1. /\ running /\ modes' = modes /\ running' = running
      /\ proto' \in ProtoState /\ proto'.pending = None
  BY ResetState DEF Resume
<1>2. Sound(pool) /\ SameContent(pool, pool) /\ Invalidates(pool)
  BY <1>1, RunningPool DEF SameContent, Resume
<1>3. /\ Sound(pool') /\ pool'.active = pool.active /\ pool'.waiting = pool.waiting
      /\ pool'.slots[pool'.active] = pool.slots[pool.active]
      /\ routes' \in RouteState
      /\ routes'.current_physical_key = routes.current_physical_key
      /\ CandidateFits(pool', routes') /\ PlanFits(pool', routes')
  BY <1>1, <1>2, Invalidated
<1>4. receive' \in {"Idle", "Owned", "Contained"}
  BY DEF Resume, Destroys, PoolInv, PoolTypeOK
<1>5. Planned(proto', pool'.refusals, routes')
  BY <1>1, NothingPending
<1>6. crtc \in CrtcState /\ visible_surface \in Surfaces /\ pool.active \in Slots
  BY <1>2 DEF PoolInv, PoolTypeOK, Sound, PoolRecord
<1>7. ActiveMode \in ModeIndex /\ ActiveMode = crtc.mode
  BY <1>1, RunningPool
<1>8. /\ crtc' \in CrtcState /\ crtc'.mode = crtc.mode
      /\ \A owner \in {crtc'.set, crtc'.scanned} :
           owner \in {crtc.set, crtc.scanned, pool.active}
      /\ visible_surface' \in Surfaces /\ visible_surface' \in {"Content", visible_surface}
  <2>1. CASE set_crtc(pool.active, ActiveMode) /\ visible_surface' = "Content"
    <3>1. crtc' = [set |-> pool.active, scanned |-> pool.active, mode |-> ActiveMode]
      BY <2>1 DEF set_crtc
    <3> QED
      BY <1>6, <1>7, <2>1, <3>1 DEF CrtcState, Surfaces
  <2>2. CASE UNCHANGED <<crtc, visible_surface>>
    BY <1>6, <2>2
  <2> QED
    BY <2>1, <2>2 DEF Resume
<1> QED
  BY <1>1, <1>3, <1>4, <1>5, <1>8, StepKeepsMode

\* An UNBIND of an owned path takes the plan back.
LEMMA UnbindStep ==
  ASSUME PoolInv, Unbind
  PROVE  PoolInv' /\ Still
<1>1. /\ running /\ modes' = modes /\ running' = running
      /\ proto' \in ProtoState /\ proto'.pending = None
  BY ResetState DEF Unbind
<1>2. Sound(pool) /\ SameContent(pool, pool) /\ Invalidates(pool)
  BY <1>1, RunningPool DEF SameContent, Unbind
<1>3. /\ Sound(pool') /\ pool'.active = pool.active /\ pool'.waiting = pool.waiting
      /\ pool'.slots[pool'.active] = pool.slots[pool.active]
      /\ routes' \in RouteState
      /\ routes'.current_physical_key = routes.current_physical_key
      /\ CandidateFits(pool', routes') /\ PlanFits(pool', routes')
  BY <1>1, <1>2, Invalidated
<1>4. receive' \in {"Idle", "Owned", "Contained"} /\ UNCHANGED <<crtc, visible_surface>>
  BY DEF Unbind, Destroys, PoolInv, PoolTypeOK
<1>5. Planned(proto', pool'.refusals, routes')
  BY <1>1, NothingPending
<1> QED
  BY <1>1, <1>3, <1>4, <1>5, StepKeepsScanout

\* The end of the daemon releases everything.
LEMMA ShutdownStep ==
  ASSUME PoolInv, Shutdown
  PROVE  PoolInv' /\ Still
<1>1. /\ running /\ running' = FALSE
      /\ UNCHANGED <<modes, proto, receive, routes, crtc, visible_surface>>
  BY DEF Shutdown
<1>2. modes \in Connectors /\ Sound(pool)
  BY <1>1, RunningPool
<1>3. PICK r \in Refused(pool, owned_objects(pool)) : pool' = release_all(pool, r)
  BY DEF Shutdown
<1>4. r \in Nat
  <2>1. owned_objects(pool) \in Int
    BY <1>2, OwnedIsNumber DEF Sound
  <2> QED
    BY <2>1 DEF Refused
<1>5. pool' \in PoolRecord /\ Accounted(pool') /\ pool'.active = pool.active
  BY <1>2, <1>3, <1>4, ReleaseAll
<1>6. /\ modes' = modes /\ running' \in BOOLEAN /\ ~running' /\ proto' \in ProtoState
      /\ receive' \in {"Idle", "Owned", "Contained"} /\ routes' \in RouteState
      /\ crtc' \in CrtcState /\ visible_surface' \in Surfaces
  BY <1>1 DEF PoolInv, PoolTypeOK
<1>7. PoolInv'
  BY <1>2, <1>5, <1>6, InvariantAfter
<1> QED
  BY <1>1, <1>5, <1>7 DEF Still

\* The vertical blank catches up with the last flip.
LEMMA VBlankStep ==
  ASSUME PoolInv, VBlank
  PROVE  PoolInv' /\ Still
<1>1. /\ crtc' = [crtc EXCEPT !.scanned = crtc.set]
      /\ UNCHANGED <<modes, running, proto, receive, pool, routes, visible_surface>>
  BY DEF VBlank
<1>2. /\ modes \in Connectors /\ running \in BOOLEAN /\ proto \in ProtoState
      /\ receive \in {"Idle", "Owned", "Contained"} /\ pool \in PoolRecord
      /\ routes \in RouteState /\ crtc \in CrtcState /\ visible_surface \in Surfaces
      /\ Accounted(pool)
      /\ running => Consistent(proto, pool, routes, crtc, visible_surface)
  BY DEF PoolInv, PoolTypeOK
<1>3. crtc' \in CrtcState /\ crtc'.mode = crtc.mode
      /\ crtc'.set = crtc.set /\ crtc'.scanned = crtc.set
  BY <1>1, <1>2 DEF CrtcState
<1>4. running' => Consistent(proto', pool', routes', crtc', visible_surface')
  BY <1>1, <1>2, <1>3 DEF Consistent, Shows
<1>5. PoolInv'
  BY <1>1, <1>2, <1>3, <1>4, InvariantAfter
<1> QED
  BY <1>1, <1>3, <1>5 DEF Still

\* Start-up establishes the invariant.
LEMMA PoolInitial == Init => PoolInv
<1> SUFFICES ASSUME Init PROVE PoolInv
  OBVIOUS
<1>1. modes \in Connectors /\ running = TRUE
  BY DEF Init
<1>2. /\ ModeIndex \subseteq Nat \ {0} /\ 1 \in ModeIndex /\ ModeKey(modes[1]) \in Key
      /\ None \notin ModeIndex /\ None \notin Slots /\ 0 \in Slots
      /\ ContentBytes(1) \in Int /\ WaitingBytes(1) \in Int
  BY <1>1, ConnectorModes, NoneIsNoIndex, BytesAreNumbers DEF Slots
<1> DEFINE slots == [s \in Slots |-> IF s = 0 THEN 1 ELSE None]
<1>3. /\ pool.slots = slots /\ pool.active = 0 /\ pool.candidate = None
      /\ pool.waiting = 1 /\ pool.live_bytes = ContentBytes(1) + WaitingBytes(1)
      /\ pool.objects = 6 /\ pool.refusals = 0
  BY DEF Init, ContentObjects, WaitingObjects
<1>4. slots \in [Slots -> ModeIndex \cup {None}]
  BY <1>2
<1>5. pool \in PoolRecord
  <2>1. 6 \in Int /\ 0 \in Nat /\ ContentBytes(1) + WaitingBytes(1) \in Int
    BY <1>2
  <2>2. pool = [ slots |-> slots, active |-> 0, candidate |-> None, waiting |-> 1,
                 live_bytes |-> ContentBytes(1) + WaitingBytes(1),
                 objects |-> 6, refusals |-> 0 ]
    BY DEF Init, ContentObjects, WaitingObjects
  <2> HIDE DEF slots
  <2> QED
    BY <1>2, <1>4, <2>1, <2>2 DEF PoolRecord
<1>6. /\ pool.slots[0] = 1 /\ \A s \in Slots \ {0} : pool.slots[s] = None
  BY <1>2, <1>3
<1> HIDE DEF slots
<1>7. Roles(pool)
  BY <1>2, <1>3, <1>6 DEF Roles
<1>8. Accounted(pool)
  <2>1. Occupied(pool) = {} \cup {0}
    BY <1>2, <1>6 DEF Occupied
  <2>2. Cardinality(Occupied(pool)) = 1
    BY <2>1, FS_EmptySet, FS_AddElement
  <2>3. owned_objects(pool) = 6
    BY <1>2, <1>3, <2>2 DEF owned_objects, ContentObjects, WaitingObjects
  <2>4. SlotBytes(pool, 0) = ContentBytes(1) /\ SlotBytes(pool, 1) = 0
        /\ SlotBytes(pool, 2) = 0
    BY <1>2, <1>6 DEF SlotBytes, Slots
  <2>5. OwnedBytes(pool) = ContentBytes(1) + WaitingBytes(1)
    BY <1>2, <1>3, <2>4 DEF OwnedBytes
  <2> QED
    BY <1>3, <2>3, <2>5 DEF Accounted
<1>9. /\ routes.plan = None /\ routes.candidate_key = None
      /\ routes.current_physical_key = ModeKey(modes[1])
      /\ routes \in RouteState
  BY <1>2 DEF Init, RouteState
<1>10. /\ crtc.set = Waiting /\ crtc.scanned = Waiting /\ crtc.mode = 1
       /\ crtc \in CrtcState
  BY <1>2 DEF Init, CrtcState
<1>11. PoolTypeOK
  BY <1>1, <1>5, <1>9, <1>10 DEF PoolTypeOK, Init, ProtoState, Surfaces
<1>12. Canonical(1)
  BY <1>2 DEF Canonical
<1>13. ActiveIsRouted(pool, routes.current_physical_key)
  BY <1>2, <1>3, <1>6, <1>9, <1>12 DEF ActiveIsRouted
<1>14. CandidateFits(pool, routes) /\ PlanFits(pool, routes)
  BY <1>9 DEF CandidateFits, PlanFits
<1>15. Shows(pool, crtc) /\ pool.waiting = crtc.mode
  BY <1>3, <1>6, <1>10 DEF Shows
<1>16. Planned(proto, pool.refusals, routes)
  BY DEF Planned, Init
<1> QED
  BY <1>7, <1>8, <1>11, <1>13, <1>14, <1>15, <1>16 DEF PoolInv, Consistent

\* Every step keeps the invariant, and moves the scanout only to a prepared
\* slot of another mode or back to the baseline.
LEMMA PoolStep ==
  ASSUME PoolInv, [Next]_vars
  PROVE  /\ PoolInv'
         /\ \/ Still
            \/ \E s \in Slots \ {0, pool.active} :
                 Moves(s) /\ pool.slots[s] \in ModeIndex /\ pool.slots[s] # crtc.mode
            \/ Moves(0) /\ pool.active # 0 /\ pool.slots[0] = 1
<1>1. ASSUME NEW k \in CheckedKeys,
             CheckWithoutAllocation(k) \/ CheckKeepsCandidate(k)
               \/ CheckStages(k) \/ CheckCannotStage(k) \/ CheckErrs(k)
      PROVE  PoolInv' /\ Still
  BY <1>1, CheckWithoutAllocationStep, CheckKeepsCandidateStep, CheckStagesStep,
     CheckCannotStageStep, CheckErrsStep
<1>2. CASE CommitWithoutPlan
  BY <1>2, CommitWithoutPlanStep
<1>3. CASE CommitKeeps
  BY <1>3, CommitKeepsStep
<1>4. CASE CommitSwitches
  BY <1>4, CommitSwitchesStep
<1>5. CASE CommitReturns
  BY <1>5, CommitReturnsStep
<1>6. CASE CommitCannotSwitch
  BY <1>6, CommitCannotSwitchStep
<1>7. CASE CommitCannotReturn
  BY <1>7, CommitCannotReturnStep
<1>8. CASE FrameStep
  BY <1>8, FrameStepKeeps
<1>9. CASE VBlank
  BY <1>9, VBlankStep
<1>10. CASE Rejects
  BY <1>10, RejectsStep
<1>11. ASSUME NEW e \in {"Enable", "Bind", "Disable", "Suspend"}, Lifecycle(e)
       PROVE  PoolInv' /\ Still
  BY <1>11, LifecycleStep
<1>12. CASE Resume
  BY <1>12, ResumeStep
<1>13. CASE Unbind
  BY <1>13, UnbindStep
<1>14. CASE Shutdown
  BY <1>14, ShutdownStep
<1>15. CASE UNCHANGED vars
  <2>1. /\ modes' = modes /\ running' = running /\ proto' = proto /\ receive' = receive
        /\ pool' = pool /\ routes' = routes /\ crtc' = crtc
        /\ visible_surface' = visible_surface
    BY <1>15 DEF vars
  <2>2. PoolInv'
    BY <2>1, InvariantAfter DEF PoolInv, PoolTypeOK
  <2> QED
    BY <2>1, <2>2 DEF Still
<1> QED
  BY <1>1, <1>2, <1>3, <1>4, <1>5, <1>6, <1>7, <1>8, <1>9, <1>10, <1>11, <1>12, <1>13,
     <1>14, <1>15 DEF Next, FrameStep

\* The scanout pool is well typed and consistent in every reachable state.
THEOREM PoolConsistent == Spec => []PoolInv
<1>1. PoolInv /\ [Next]_vars => PoolInv'
  BY PoolStep
<1> QED
  BY <1>1, PoolInitial, PTL DEF Spec

(***************************************************************************)
(* The properties of the runs, for every value of the constants.           *)
(***************************************************************************)
\* The CRTC never scans out a removed framebuffer: no switch, failed switch,
\* replacement of the waiting scanout or release in scanout.rs takes away what
\* is set or still shown.
THEOREM ScanoutAlwaysLive == Spec => []ScanoutIsLive
<1>1. PoolInv => ScanoutIsLive
  <2> SUFFICES ASSUME PoolInv, running
               PROVE  /\ ActiveMode = crtc.mode
                      /\ \A owner \in {crtc.set, crtc.scanned} :
                           \/ owner = pool.active
                           \/ owner = Waiting /\ pool.waiting = crtc.mode
                      /\ is_waiting => pool.waiting = crtc.mode
    BY DEF ScanoutIsLive
  <2>1. Consistent(proto, pool, routes, crtc, visible_surface)
    BY RunningPool
  <2> QED
    BY <2>1 DEF Consistent, Shows, ActiveMode, is_waiting
<1> QED
  BY <1>1, PoolConsistent, PTL

\* A slot beside the baseline is occupied exactly when it is active or the
\* candidate: no check, commit or event of main.rs strands an allocation.
THEOREM SlotsNeverOrphaned == Spec => []NoOrphanSlot
<1>1. PoolInv => NoOrphanSlot
  <2> SUFFICES ASSUME PoolInv, running
               PROVE  Occupied(pool) = {0, pool.active} \cup ({pool.candidate} \ {None})
    BY DEF NoOrphanSlot
  <2>1. modes \in Connectors /\ Sound(pool)
    BY RunningPool
  <2>2. /\ pool.active \in Slots /\ 0 \in Slots /\ None \notin Slots
        /\ pool.candidate \in Slots \cup {None}
    BY <2>1, NoneIsNoIndex DEF Sound, PoolRecord, Slots
  <2>3. \A s \in Slots : pool.slots[s] # None <=> s \in {0, pool.active, pool.candidate}
    BY <2>1 DEF Sound, Roles
  <2> QED
    BY <2>2, <2>3 DEF Occupied
<1> QED
  BY <1>1, PoolConsistent, PTL

\* current_physical_key is the key of the mode on screen, after any mix of
\* commits that switch, return, fail or are interrupted.
THEOREM CurrentKeyIsActive == Spec => []KeyFollowsSlot
<1>1. PoolInv => KeyFollowsSlot
  BY CurrentIsActive DEF KeyFollowsSlot, ActiveIsRouted, ActiveMode
<1> QED
  BY <1>1, PoolConsistent, PTL

\* The exact route of the current key is the active mode.
LEMMA CurrentRoute ==
  ASSUME PoolInv, running
  PROVE  catalog[current].route = ActiveMode
<1>1. modes \in Connectors /\ ActiveIsRouted(pool, current)
  BY RunningPool, CurrentIsActive
<1>2. ActiveMode \in ModeIndex /\ Canonical(ActiveMode) /\ current = ModeKey(modes[ActiveMode])
  BY <1>1 DEF ActiveIsRouted, ActiveMode
<1>3. current \in PhysicalKeys(modes)
  BY <1>2 DEF PhysicalKeys, ModeIndex
<1>4. current \in DOMAIN catalog
  BY <1>3 DEF catalog, build
<1>5. /\ catalog[current].route \in ModeIndex /\ Canonical(catalog[current].route)
      /\ ModeKey(modes[catalog[current].route]) = current
  BY <1>1, <1>3, <1>4, CatalogRoutes
<1>6. ModeIndex \subseteq Nat
  BY <1>1, ConnectorModes
<1>7. catalog[current].route <= ActiveMode
  BY <1>2, <1>5 DEF Canonical
<1>8. ActiveMode <= catalog[current].route
  BY <1>2, <1>5 DEF Canonical
<1>9. ActiveMode \in Nat /\ catalog[current].route \in Nat
  BY <1>2, <1>5, <1>6
<1> QED
  BY <1>7, <1>8, <1>9

\* A plan made at STATE_CHECK can be carried out at its STATE_COMMIT: none of
\* the ensure! and bail! of the commit arm in main.rs fires.
THEOREM PlansAlwaysFit == Spec => []PlanFitsPool
<1>1. PoolInv => PlanFitsPool
  <2> SUFFICES ASSUME PoolInv, running, routes.plan # None, routes.plan.fresh
               PROVE  PlanFitsPool
    BY DEF PlanFitsPool
  <2>1. PlanFits(pool, routes)
    BY RunningPool DEF Consistent
  <2>2. routes.plan.kind = "ExactCandidate" =>
          /\ routes.plan.slot = pool.candidate /\ routes.plan.slot # pool.active
          /\ pool.slots[routes.plan.slot] = catalog[routes.plan.key].route
          /\ routes.candidate_key = routes.plan.key
    BY PlannedCandidate DEF PlanIs
  <2>3. routes.plan.kind = "ExactActiveNoOp" =>
          routes.plan.key = current /\ catalog[routes.plan.key].route = ActiveMode
    BY <2>1, CurrentRoute DEF PlanFits, current
  <2>4. /\ routes.plan.kind = "ScaledBaseline" => pool.active = 0
        /\ routes.plan.kind = "ScaledBaselineSwitch" => pool.active # 0
    BY <2>1 DEF PlanFits
  <2> QED
    BY <2>2, <2>3, <2>4 DEF PlanFitsPool
<1> QED
  BY <1>1, PoolConsistent, PTL

\* Every DRM object and every byte of current_live_bytes belongs to a slot or
\* to the waiting scanout, but for the refused removals, in every state and
\* after the daemon has ended.
THEOREM ObjectsAlwaysAccounted == Spec => []ObjectsAccounted
<1>1. PoolInv => ObjectsAccounted
  BY DEF PoolInv, Accounted, ObjectsAccounted
<1> QED
  BY <1>1, PoolConsistent, PTL

\* No candidate is kept for a route that failed from the current mode.
THEOREM FailuresAreRemembered == Spec => []FailedStaysFailed
<1>1. PoolInv => FailedStaysFailed
  BY RunningPool DEF FailedStaysFailed, Consistent, CandidateFits, failed_key
<1> QED
  BY <1>1, PoolConsistent, PTL

\* An accepted STATE_CHECK leaves a plan for its own snapshot, unless a
\* removal was refused.
THEOREM ChecksArePlanned == Spec => []EveryCheckIsPlanned
<1>1. PoolInv => EveryCheckIsPlanned
  BY RunningPool DEF EveryCheckIsPlanned, Consistent, Planned
<1> QED
  BY <1>1, PoolConsistent, PTL

\* The scanout pool implements ScanoutContract: the active slot and the CRTC's
\* mode move together, to a prepared slot of another mode or back to the
\* baseline, and no failure, event or frame moves either.
THEOREM PoolImplementsContract == Spec => ImplementsContract
<1>1. Init => Contract!ContractInit
  BY DEF Init, Contract!ContractInit
<1>2. PoolInv /\ [Next]_vars =>
        [Contract!ContractNext]_<<pool.active, crtc.mode>>
  <2> SUFFICES ASSUME PoolInv, [Next]_vars
               PROVE  [Contract!ContractNext]_<<pool.active, crtc.mode>>
    OBVIOUS
  <2>1. CASE Still
    BY <2>1 DEF Still
  <2>2. CASE \E s \in Slots \ {0, pool.active} :
               Moves(s) /\ pool.slots[s] \in ModeIndex /\ pool.slots[s] # crtc.mode
    <3>1. PICK s \in Slots \ {0, pool.active} :
            Moves(s) /\ pool.slots[s] \in ModeIndex /\ pool.slots[s] # crtc.mode
      BY <2>2
    <3>2. pool.slots[s] \in ModeIndices
      BY <3>1 DEF ModeIndices, ModeIndex, PoolInv, PoolTypeOK
    <3>3. Contract!SwitchExact(pool.slots[s])
      BY <3>1 DEF Contract!SwitchExact, Contract!Slots, Moves, Slots
    <3> QED
      BY <3>2, <3>3 DEF Contract!ContractNext
  <2>3. CASE Moves(0) /\ pool.active # 0 /\ pool.slots[0] = 1
    BY <2>3 DEF Contract!ContractNext, Contract!SwitchBaseline, Moves
  <2> QED
    BY <2>1, <2>2, <2>3, PoolStep
<1> QED
  BY <1>1, <1>2, PoolConsistent, PTL DEF Spec, ImplementsContract, Contract!ContractSpec
=============================================================================
