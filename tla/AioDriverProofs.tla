--------------------------- MODULE AioDriverProofs ---------------------------
(***************************************************************************)
(* Proofs about the AIO driver, for a queue of any length and any number   *)
(* of operations.                                                          *)
(***************************************************************************)
EXTENDS AioDriver, FiniteSetTheorems, SequenceTheorems, TLAPS

(***************************************************************************)
(* The inductive invariant.                                                *)
(***************************************************************************)
\* The operations the kernel took and the daemon has not harvested.
Fetching == inflight \cup Range(ring) \cup Range(event_queue)
Out == Fetching \cup Range(done)

Command(kind, id) == [kind |-> kind, id |-> id]

\* The thread knows operation id or will, from a command on its way.
Known(id) == id \in active \/ \E i \in DOMAIN cmds : cmds[i] = Command("Insert", id)

\* What is on the command channel: an operation is announced once and
\* withdrawn once, after its announcement, and only if the kernel never had it.
Commands ==
  /\ \A i \in DOMAIN cmds : cmds[i].kind # "CancelAll" => cmds[i].id < next_id
  /\ \A i, j \in DOMAIN cmds :
       cmds[i].kind # "CancelAll" /\ cmds[i] = cmds[j] => i = j
  /\ \A i \in DOMAIN cmds : cmds[i].kind = "Insert" => cmds[i].id \notin active
  /\ \A i, j \in DOMAIN cmds :
       cmds[i].kind = "Insert" /\ cmds[j].kind = "Remove" /\ cmds[i].id = cmds[j].id
         => i < j
  /\ \A i \in DOMAIN cmds :
       cmds[i].kind = "Remove" => Known(cmds[i].id) /\ cmds[i].id \notin Out

\* An operation the kernel has is known, and the one that is being submitted
\* is announced and nowhere else.
Operations ==
  /\ \A id \in active \cup Out : id < next_id
  /\ \A id \in Fetching : Known(id)
  /\ caller \in {"announced", "accepted"} => next_id > 0 /\ space > 0
  /\ caller = "announced" =>
       /\ current \notin Out /\ Known(current)
       /\ \A i \in DOMAIN cmds : cmds[i] # Command("Remove", current)

\* An operation is at one place.
Distinct ==
  /\ IsInjective(ring) /\ IsInjective(event_queue)
  /\ inflight \cap (Range(ring) \cup Range(event_queue) \cup Range(done)) = {}
  /\ Range(ring) \cap (Range(event_queue) \cup Range(done)) = {}
  /\ Range(event_queue) \cap Range(done) = {}

\* A caller that has sent a command and not yet signalled the eventfd.
Signalling == caller \in {"announced", "accepted", "withdrawn", "cancelling"}

\* Work the thread has not seen has a signal, or will have one; an event that
\* stayed in the queue is one the thread does not know.
Wakeups ==
  /\ thread \in {"events", "forwarding", "waiting"} /\ cmds # <<>> =>
       eventfd > 0 \/ Signalling
  /\ thread \in {"forwarding", "waiting"} /\ ring # <<>> => eventfd > 0
  /\ thread = "waiting" /\ event_queue # <<>> => Head(event_queue) \notin active

DriverInv ==
  /\ DriverTypeOK /\ Commands /\ Operations /\ Distinct /\ Wakeups
  /\ SpaceIsConserved /\ ThreadNeverPanics

(***************************************************************************)
(* Sequences.                                                              *)
(***************************************************************************)
\* What Append adds.
LEMMA AppendRange ==
  ASSUME NEW S, NEW s \in Seq(S), NEW e \in S
  PROVE  /\ Append(s, e) \in Seq(S) /\ Append(s, e) # <<>>
         /\ Len(Append(s, e)) = Len(s) + 1
         /\ Range(Append(s, e)) = Range(s) \cup {e}
         /\ IsInjective(s) /\ e \notin Range(s) => IsInjective(Append(s, e))
<1> DEFINE t == Append(s, e)
<1>1. /\ t \in Seq(S) /\ t # <<>> /\ Len(t) = Len(s) + 1
      /\ \A i \in 1 .. Len(s) : t[i] = s[i]
      /\ t[Len(s) + 1] = e
  BY AppendProperties
<1>2. Len(s) \in Nat /\ DOMAIN s = 1 .. Len(s) /\ DOMAIN t = 1 .. Len(s) + 1
  BY <1>1, LenProperties
<1> HIDE DEF t
<1>3. Range(t) = Range(s) \cup {e}
  BY <1>1, <1>2 DEF Range
<1>4. ASSUME IsInjective(s), e \notin Range(s) PROVE IsInjective(t)
  BY <1>1, <1>2, <1>4 DEF IsInjective, Range
<1> QED
  BY <1>1, <1>3, <1>4 DEF t

\* What Tail takes away.
LEMMA TailRange ==
  ASSUME NEW S, NEW s \in Seq(S), s # <<>>
  PROVE  /\ Head(s) \in S /\ Tail(s) \in Seq(S) /\ Len(Tail(s)) = Len(s) - 1
         /\ Range(s) = {Head(s)} \cup Range(Tail(s))
         /\ IsInjective(s) => IsInjective(Tail(s)) /\ Head(s) \notin Range(Tail(s))
<1> DEFINE t == Tail(s)
<1>1. /\ Head(s) \in S /\ t \in Seq(S) /\ Len(t) = Len(s) - 1
      /\ \A i \in 1 .. Len(t) : t[i] = s[i + 1]
  BY HeadTailProperties
<1>2. /\ Len(s) \in Nat /\ Len(s) # 0 /\ DOMAIN s = 1 .. Len(s)
      /\ DOMAIN t = 1 .. Len(s) - 1 /\ Head(s) = s[1]
  BY <1>1, LenProperties, EmptySeq
<1> HIDE DEF t
<1>3. \A i \in 1 .. Len(s) - 1 : i + 1 \in 1 .. Len(s) /\ t[i] = s[i + 1]
  BY <1>1, <1>2
<1>4. \A j \in 1 .. Len(s) : j = 1 \/ (j - 1 \in 1 .. Len(s) - 1 /\ t[j - 1] = s[j])
  BY <1>1, <1>2
<1>5. Range(s) = {Head(s)} \cup Range(t)
  <2>1. ASSUME NEW x \in Range(s) PROVE x = Head(s) \/ x \in Range(t)
    <3>1. PICK j \in 1 .. Len(s) : x = s[j]
      BY <1>2 DEF Range
    <3> QED
      BY <1>2, <1>4, <3>1 DEF Range
  <2>2. ASSUME NEW x \in Range(t) PROVE x \in Range(s)
    BY <1>2, <1>3 DEF Range
  <2>3. Head(s) \in Range(s)
    BY <1>2 DEF Range
  <2> QED
    BY <2>1, <2>2, <2>3
<1>6. ASSUME IsInjective(s) PROVE IsInjective(t) /\ Head(s) \notin Range(t)
  <2>1. \A i, j \in 1 .. Len(s) : s[i] = s[j] => i = j
    BY <1>2, <1>6 DEF IsInjective
  <2>2. IsInjective(t)
    BY <1>2, <1>3, <2>1 DEF IsInjective
  <2>3. \A i \in 1 .. Len(s) - 1 : i + 1 # 1 /\ 1 \in 1 .. Len(s)
    BY <1>2
  <2> QED
    BY <1>2, <1>3, <2>1, <2>2, <2>3 DEF Range
<1> QED
  BY <1>1, <1>5, <1>6 DEF t

\* Sequences without a common element and without repetitions.
LEMMA ConcatInjective ==
  ASSUME NEW S, NEW s \in Seq(S), NEW t \in Seq(S),
         IsInjective(s), IsInjective(t), Range(s) \cap Range(t) = {}
  PROVE  IsInjective(s \o t)
<1> DEFINE u == s \o t
<1>1. /\ u \in Seq(S) /\ Len(u) = Len(s) + Len(t)
      /\ \A i \in 1 .. Len(s) + Len(t) :
           u[i] = IF i <= Len(s) THEN s[i] ELSE t[i - Len(s)]
  BY ConcatProperties
<1>2. /\ Len(s) \in Nat /\ Len(t) \in Nat /\ DOMAIN s = 1 .. Len(s)
      /\ DOMAIN t = 1 .. Len(t) /\ DOMAIN u = 1 .. Len(s) + Len(t)
  BY <1>1, LenProperties
<1> HIDE DEF u
<1>3. SUFFICES ASSUME NEW i \in DOMAIN u, NEW j \in DOMAIN u, u[i] = u[j] PROVE i = j
  BY DEF IsInjective, u
<1>4. /\ i <= Len(s) => i \in DOMAIN s /\ u[i] = s[i]
      /\ ~(i <= Len(s)) => i - Len(s) \in DOMAIN t /\ u[i] = t[i - Len(s)]
  BY <1>1, <1>2
<1>5. /\ j <= Len(s) => j \in DOMAIN s /\ u[j] = s[j]
      /\ ~(j <= Len(s)) => j - Len(s) \in DOMAIN t /\ u[j] = t[j - Len(s)]
  BY <1>1, <1>2
<1>6. CASE i <= Len(s) /\ j <= Len(s)
  BY <1>3, <1>4, <1>5, <1>6 DEF IsInjective
<1>7. CASE ~(i <= Len(s)) /\ ~(j <= Len(s))
  <2>1. i - Len(s) = j - Len(s)
    BY <1>3, <1>4, <1>5, <1>7 DEF IsInjective
  <2> QED
    BY <1>2, <2>1
<1>8. CASE i <= Len(s) /\ ~(j <= Len(s))
  <2>1. u[i] \in Range(s) /\ u[j] \in Range(t)
    BY <1>4, <1>5, <1>8 DEF Range
  <2> QED
    BY <1>3, <2>1
<1>9. CASE ~(i <= Len(s)) /\ j <= Len(s)
  <2>1. u[i] \in Range(t) /\ u[j] \in Range(s)
    BY <1>4, <1>5, <1>9 DEF Range
  <2> QED
    BY <1>3, <2>1
<1> QED
  BY <1>6, <1>7, <1>8, <1>9

(***************************************************************************)
(* The command channel and the cancellation.                               *)
(***************************************************************************)
\* The channel after a command c was sent.
LEMMA SentCommand ==
  ASSUME cmds \in Seq(Cmd), NEW c \in Cmd, NEW q, q = Append(cmds, c)
  PROVE  /\ q \in Seq(Cmd) /\ q # <<>>
         /\ \A i \in DOMAIN q : \/ i \in DOMAIN cmds /\ q[i] = cmds[i]
                                \/ i = Len(cmds) + 1 /\ q[i] = c
         /\ \A i \in DOMAIN cmds :
              i \in DOMAIN q /\ q[i] = cmds[i] /\ i < Len(cmds) + 1
         /\ Len(cmds) + 1 \in DOMAIN q /\ q[Len(cmds) + 1] = c
<1>1. /\ q \in Seq(Cmd) /\ q # <<>> /\ Len(q) = Len(cmds) + 1
      /\ \A i \in 1 .. Len(cmds) : q[i] = cmds[i]
      /\ q[Len(cmds) + 1] = c
  BY AppendProperties
<1>2. /\ Len(cmds) \in Nat /\ DOMAIN cmds = 1 .. Len(cmds)
      /\ DOMAIN q = 1 .. Len(cmds) + 1
  BY <1>1, LenProperties
<1> QED
  BY <1>1, <1>2

\* The channel after its head was taken.
LEMMA TakenCommand ==
  ASSUME cmds \in Seq(Cmd), cmds # <<>>, NEW q, q = Tail(cmds)
  PROVE  /\ q \in Seq(Cmd) /\ Head(cmds) \in Cmd
         /\ 1 \in DOMAIN cmds /\ cmds[1] = Head(cmds) /\ DOMAIN cmds \subseteq Nat \ {0}
         /\ DOMAIN q \subseteq Nat \ {0}
         /\ \A i \in DOMAIN q : i + 1 \in DOMAIN cmds /\ q[i] = cmds[i + 1]
         /\ \A i \in DOMAIN cmds : i # 1 => i - 1 \in DOMAIN q /\ q[i - 1] = cmds[i]
<1>1. /\ Head(cmds) \in Cmd /\ q \in Seq(Cmd) /\ Len(q) = Len(cmds) - 1
      /\ \A i \in 1 .. Len(q) : q[i] = cmds[i + 1]
  BY HeadTailProperties
<1>2. /\ Len(cmds) \in Nat /\ Len(cmds) # 0 /\ DOMAIN cmds = 1 .. Len(cmds)
      /\ DOMAIN q = 1 .. Len(cmds) - 1 /\ Head(cmds) = cmds[1]
  BY <1>1, LenProperties, EmptySeq
<1> QED
  BY <1>1, <1>2

\* Finitely many operations are in the kernel.
LEMMA InflightIsFinite ==
  ASSUME NEW S, S \subseteq Ids
  PROVE  IsFiniteSet(S) /\ Cardinality(S) \in Nat
<1>1. MaxOps - 1 \in Int /\ 0 \in Int
  BY DriverAssumption
<1>2. IsFiniteSet(Ids)
  BY <1>1, FS_Interval DEF Ids
<1>3. IsFiniteSet(S)
  BY <1>2, FS_Subset
<1> QED
  BY <1>3, FS_CardinalityType

\* What io_cancel gives back at once: operations of the kernel, each one once.
Cancels(order) ==
  /\ Cardinality(Range(order)) = Len(order)
  /\ done' = done \o order
  /\ active' = active \ Range(order)
  /\ inflight' = inflight \ Range(order)
  /\ cancelled' = (active \cap inflight) \ Range(order)

LEMMA CancelledOrder ==
  ASSUME DriverTypeOK, CancelsAll
  PROVE  \E order \in Seq(Ids) : Range(order) \subseteq active \cap inflight /\ Cancels(order)
<1> DEFINE S == active \cap inflight
<1>1. S \subseteq Ids /\ Cardinality(S) \in Nat
  BY InflightIsFinite DEF DriverTypeOK
<1>2. PICK order \in UNION {[1 .. n -> S] : n \in 0 .. Cardinality(S)} :
        LET now == {order[i] : i \in DOMAIN order}
        IN  /\ Cardinality(now) = Len(order)
            /\ done' = done \o order
            /\ active' = active \ now
            /\ inflight' = inflight \ now
            /\ cancelled' = S \ now
  BY DEF CancelsAll
<1>3. PICK n \in 0 .. Cardinality(S) : order \in [1 .. n -> S]
  BY <1>2
<1>4. n \in Nat
  BY <1>1, <1>3
<1>5. order \in Seq(S)
  BY <1>3, <1>4, SeqDef, Zenon
<1>6. order \in Seq(Ids) /\ Range(order) \subseteq S
  BY <1>1, <1>5, SeqMonotonic, RangeOfSeq
<1>7. Cancels(order)
  BY <1>2 DEF Cancels, Range
<1> QED
  BY <1>6, <1>7

(***************************************************************************)
(* Every step keeps an operation at one place.                             *)
(***************************************************************************)
\* The steps that move no operation.
Quiet ==
  SubmitAnnounces \/ SubmitWakes \/ KernelRefuses \/ WithdrawWakes
    \/ DropCancels \/ DropWakes \/ DropCloses
    \/ ThreadWakes \/ Inserts \/ Removes \/ CommandsDrained \/ ForwardingStops
    \/ UNCHANGED vars

LEMMA QuietMovesNothing ==
  ASSUME Quiet
  PROVE  UNCHANGED <<inflight, cancelled, ring, event_queue, done>>
  BY DEF Quiet, SubmitAnnounces, SubmitWakes, KernelRefuses, WithdrawWakes, DropCancels,
         DropWakes, DropCloses, ThreadWakes, Inserts, Removes, CommandsDrained,
         ForwardingStops, vars, callerVars, kernelVars, threadVars

\* A step is quiet or one of the six that move operations.
LEMMA StepKinds ==
  ASSUME [DriverNext]_vars
  PROVE  \/ Quiet \/ KernelAccepts \/ try_completed \/ CancelsAll \/ FetchEvents
         \/ ForwardEvent \/ \E id \in inflight : KernelCompletes(id)
  BY DEF DriverNext, Caller, Thread, Quiet

\* What each of the six does to the places of the operations.
LEMMA AcceptMoves ==
  ASSUME DriverInv, KernelAccepts
  PROVE  /\ current \in Ids /\ current \notin Out /\ caller = "announced"
         /\ inflight' = inflight \cup {current}
         /\ UNCHANGED <<ring, event_queue, done, cmds, active, next_id, space, cancelled,
                        thread, eventfd, closed>>
         /\ caller' = "accepted"
<1>1. caller = "announced"
  BY DEF KernelAccepts
<1>2. current \notin Out /\ next_id > 0
  BY <1>1 DEF DriverInv, Operations
<1>3. current \in Ids
  BY <1>2, DriverAssumption DEF DriverInv, DriverTypeOK, current, Ids
<1> QED
  BY <1>1, <1>2, <1>3 DEF KernelAccepts, threadVars

LEMMA HarvestMoves ==
  ASSUME DriverInv, try_completed
  PROVE  /\ caller = "idle" /\ done # <<>> /\ done \in Seq(Ids) /\ done' = Tail(done)
         /\ Head(done) \in Ids /\ done' \in Seq(Ids) /\ Len(done') = Len(done) - 1
         /\ Range(done) = {Head(done)} \cup Range(done')
         /\ space' = space + 1
         /\ UNCHANGED <<inflight, ring, event_queue, cmds, active, next_id, cancelled,
                        thread, eventfd, closed, caller>>
<1>1. /\ caller = "idle" /\ done # <<>> /\ done' = Tail(done) /\ space' = space + 1
      /\ UNCHANGED <<inflight, ring, event_queue, cmds, active, next_id, cancelled,
                     thread, eventfd, closed, caller>>
  BY DEF try_completed, kernelVars, threadVars
<1>2. done \in Seq(Ids)
  BY DEF DriverInv, DriverTypeOK
<1> QED
  BY <1>1, <1>2, TailRange

LEMMA CompleteMoves ==
  ASSUME DriverInv, NEW id \in inflight, KernelCompletes(id)
  PROVE  /\ id \in Ids /\ inflight' = inflight \ {id} /\ ring' \in Seq(Ids)
         /\ ring' # <<>> /\ Len(ring') = Len(ring) + 1
         /\ Range(ring') = Range(ring) \cup {id}
         /\ IsInjective(ring') /\ eventfd' = eventfd + 1 /\ cancelled' = cancelled \ {id}
         /\ UNCHANGED <<event_queue, done, cmds, active, next_id, space, thread, closed,
                        caller>>
<1>1. /\ ring' = Append(ring, id) /\ inflight' = inflight \ {id}
      /\ eventfd' = eventfd + 1 /\ cancelled' = cancelled \ {id}
      /\ UNCHANGED <<event_queue, done, cmds, active, next_id, space, thread, closed, caller>>
  BY DEF KernelCompletes, callerVars, threadVars
<1>2. id \in Ids /\ ring \in Seq(Ids)
  BY DEF DriverInv, DriverTypeOK
<1>3. IsInjective(ring) /\ id \notin Range(ring)
  BY DEF DriverInv, Distinct
<1> QED
  BY <1>1, <1>2, <1>3, AppendRange

LEMMA FetchMoves ==
  ASSUME DriverInv, FetchEvents
  PROVE  /\ ring' = <<>> /\ event_queue' \in Seq(Ids)
         /\ Range(event_queue') = Range(event_queue) \cup Range(ring) /\ Range(ring') = {}
         /\ Len(event_queue') = Len(event_queue) + Len(ring) /\ Len(ring') = 0
         /\ IsInjective(event_queue') /\ IsInjective(ring')
         /\ thread = "events" /\ thread' = "forwarding"
         /\ UNCHANGED <<inflight, done, cmds, active, next_id, space, cancelled,
                        eventfd, closed, caller>>
<1>1. /\ event_queue' = event_queue \o ring /\ ring' = <<>>
      /\ thread = "events" /\ thread' = "forwarding"
      /\ UNCHANGED <<inflight, done, cmds, active, next_id, space, cancelled,
                     eventfd, closed, caller>>
  BY DEF FetchEvents, callerVars
<1>2. ring \in Seq(Ids) /\ event_queue \in Seq(Ids)
  BY DEF DriverInv, DriverTypeOK
<1>3. IsInjective(ring) /\ IsInjective(event_queue) /\ Range(event_queue) \cap Range(ring) = {}
  BY DEF DriverInv, Distinct
<1>4. Range(ring') = {} /\ IsInjective(ring') /\ Len(ring') = 0
  BY <1>1 DEF Range, IsInjective
<1>5. IsInjective(event_queue')
  BY <1>1, <1>2, <1>3, ConcatInjective
<1>6. event_queue' \in Seq(Ids) /\ Len(event_queue') = Len(event_queue) + Len(ring)
  BY <1>1, <1>2, ConcatProperties
<1>7. Range(event_queue') = Range(event_queue) \cup Range(ring)
  BY <1>1, <1>2, RangeConcatenation
<1> QED
  BY <1>1, <1>4, <1>5, <1>6, <1>7

LEMMA ForwardMoves ==
  ASSUME DriverInv, ForwardEvent
  PROVE  \E id \in Ids :
           /\ id \in active /\ id \in Range(event_queue)
           /\ active' = active \ {id}
           /\ done' \in Seq(Ids) /\ Len(done') = Len(done) + 1
           /\ Range(done') = Range(done) \cup {id}
           /\ event_queue' \in Seq(Ids) /\ Len(event_queue') = Len(event_queue) - 1
           /\ Range(event_queue') = Range(event_queue) \ {id} /\ IsInjective(event_queue')
           /\ thread = "forwarding"
           /\ UNCHANGED <<inflight, ring, cmds, next_id, space, cancelled,
                          eventfd, closed, caller, thread>>
<1> DEFINE id == Head(event_queue)
<1>1. /\ event_queue # <<>> /\ id \in active /\ active' = active \ {id}
      /\ done' = Append(done, id) /\ event_queue' = Tail(event_queue)
      /\ thread = "forwarding"
      /\ UNCHANGED <<inflight, ring, cmds, next_id, space, cancelled,
                     eventfd, closed, caller, thread>>
  BY DEF ForwardEvent, callerVars, kernelVars
<1>2. done \in Seq(Ids) /\ event_queue \in Seq(Ids)
  BY DEF DriverInv, DriverTypeOK
<1>3. IsInjective(event_queue)
  BY DEF DriverInv, Distinct
<1>4. /\ id \in Ids /\ event_queue' \in Seq(Ids)
      /\ Len(event_queue') = Len(event_queue) - 1
      /\ Range(event_queue) = {id} \cup Range(event_queue')
      /\ IsInjective(event_queue') /\ id \notin Range(event_queue')
  BY <1>1, <1>2, <1>3, TailRange
<1>5. /\ done' \in Seq(Ids) /\ Len(done') = Len(done) + 1
      /\ Range(done') = Range(done) \cup {id}
  BY <1>1, <1>2, <1>4, AppendRange
<1> HIDE DEF id
<1>6. Range(event_queue') = Range(event_queue) \ {id} /\ id \in Range(event_queue)
  BY <1>4
<1> QED
  BY <1>1, <1>4, <1>5, <1>6

LEMMA CancelMoves ==
  ASSUME DriverInv, CancelsAll
  PROVE  \E now \in SUBSET (active \cap inflight) :
           /\ active' = active \ now /\ inflight' = inflight \ now
           /\ cancelled' = (active \cap inflight) \ now
           /\ done' \in Seq(Ids) /\ Len(done') = Len(done) + Cardinality(now)
           /\ Range(done') = Range(done) \cup now
           /\ thread = "commands" /\ cmds # <<>> /\ cmds' = Tail(cmds)
           /\ Head(cmds).kind = "CancelAll"
           /\ UNCHANGED <<ring, event_queue, next_id, space, eventfd, closed, caller, thread>>
<1>1. PICK order \in Seq(Ids) : Range(order) \subseteq active \cap inflight /\ Cancels(order)
  BY CancelledOrder DEF DriverInv
<1>2. done \in Seq(Ids)
  BY DEF DriverInv, DriverTypeOK
<1>3. done' \in Seq(Ids) /\ Len(done') = Len(done) + Len(order)
  BY <1>1, <1>2, ConcatProperties DEF Cancels
<1>4. Range(done') = Range(done) \cup Range(order)
  BY <1>1, <1>2, RangeConcatenation DEF Cancels
<1>5. /\ thread = "commands" /\ cmds # <<>> /\ cmds' = Tail(cmds)
      /\ Head(cmds).kind = "CancelAll"
      /\ UNCHANGED <<ring, event_queue, next_id, space, eventfd, closed, caller, thread>>
  BY DEF CancelsAll, Takes, callerVars
<1> QED
  BY <1>1, <1>3, <1>4, <1>5 DEF Cancels

\* An operation stays at one place.
LEMMA DistinctStep ==
  ASSUME DriverInv, [DriverNext]_vars
  PROVE  Distinct'
<1>1. Distinct
  BY DEF DriverInv
<1>2. CASE Quiet
  BY <1>1, <1>2, QuietMovesNothing DEF Distinct
<1>3. CASE KernelAccepts
  <2>1. /\ current \notin Out /\ inflight' = inflight \cup {current}
        /\ UNCHANGED <<ring, event_queue, done>>
    BY <1>3, AcceptMoves
  <2> QED
    BY <1>1, <2>1 DEF Distinct, Out, Fetching
<1>4. CASE try_completed
  <2>1. /\ Range(done) = {Head(done)} \cup Range(done')
        /\ UNCHANGED <<inflight, ring, event_queue>>
    BY <1>4, HarvestMoves
  <2> QED
    BY <1>1, <2>1 DEF Distinct
<1>5. ASSUME NEW id \in inflight, KernelCompletes(id) PROVE Distinct'
  <2>1. /\ inflight' = inflight \ {id} /\ Range(ring') = Range(ring) \cup {id}
        /\ IsInjective(ring') /\ UNCHANGED <<event_queue, done>>
    BY <1>5, CompleteMoves
  <2> QED
    BY <1>1, <2>1 DEF Distinct
<1>6. CASE FetchEvents
  <2>1. /\ Range(event_queue') = Range(event_queue) \cup Range(ring) /\ Range(ring') = {}
        /\ IsInjective(event_queue') /\ IsInjective(ring')
        /\ UNCHANGED <<inflight, done>>
    BY <1>6, FetchMoves
  <2> QED
    BY <1>1, <2>1 DEF Distinct
<1>7. CASE ForwardEvent
  <2>1. PICK id \in Ids :
          /\ id \in Range(event_queue) /\ Range(done') = Range(done) \cup {id}
          /\ Range(event_queue') = Range(event_queue) \ {id} /\ IsInjective(event_queue')
          /\ UNCHANGED <<inflight, ring>>
    BY <1>7, ForwardMoves
  <2> QED
    BY <1>1, <2>1 DEF Distinct
<1>8. CASE CancelsAll
  <2>1. PICK now \in SUBSET (active \cap inflight) :
          /\ inflight' = inflight \ now /\ Range(done') = Range(done) \cup now
          /\ UNCHANGED <<ring, event_queue>>
    BY <1>8, CancelMoves
  <2> QED
    BY <1>1, <2>1 DEF Distinct
<1> QED
  BY <1>2, <1>3, <1>4, <1>5, <1>6, <1>7, <1>8, StepKinds

\* Every place in the queue is accounted for.
LEMMA SpaceStep ==
  ASSUME DriverInv, [DriverNext]_vars
  PROVE  SpaceIsConserved'
<1> DEFINE bump == IF caller = "accepted" THEN 1 ELSE 0
           n == Cardinality(inflight)
<1>1. /\ QueueLength \in Nat /\ space \in Nat /\ n \in Nat /\ IsFiniteSet(inflight)
      /\ Len(ring) \in Nat /\ Len(event_queue) \in Nat /\ Len(done) \in Nat
      /\ caller \in {"idle", "announced", "accepted", "withdrawn", "cancelling",
                     "closing", "dropped"}
  BY DriverAssumption, InflightIsFinite, LenProperties DEF DriverInv, DriverTypeOK
<1>2. QueueLength - space + bump = n + Len(ring) + Len(event_queue) + Len(done)
  BY DEF DriverInv, SpaceIsConserved
<1> HIDE DEF n
<1>3. CASE Quiet
  <2>1. UNCHANGED <<inflight, ring, event_queue, done>>
    BY <1>3, QuietMovesNothing
  <2>2. QueueLength - space' + (IF caller' = "accepted" THEN 1 ELSE 0)
          = QueueLength - space + bump
    <3>1. CASE SubmitWakes
      BY <1>1, <3>1 DEF SubmitWakes
    <3>2. CASE ~SubmitWakes
      <4>1. space' = space /\ (caller' = "accepted" <=> caller = "accepted")
        BY <1>3, <3>2 DEF Quiet, SubmitAnnounces, KernelRefuses, WithdrawWakes, DropCancels,
           DropWakes, DropCloses, ThreadWakes, Inserts, Removes, CommandsDrained,
           ForwardingStops, vars, callerVars
      <4> QED
        BY <4>1
    <3> QED
      BY <3>1, <3>2
  <2> QED
    BY <1>2, <2>1, <2>2 DEF SpaceIsConserved, n
<1>4. CASE KernelAccepts
  <2>1. /\ current \notin inflight /\ inflight' = inflight \cup {current}
        /\ UNCHANGED <<ring, event_queue, done, space>>
        /\ caller = "announced" /\ caller' = "accepted"
    BY <1>4, AcceptMoves DEF Out, Fetching
  <2>2. Cardinality(inflight') = n + 1
    BY <1>1, <2>1, FS_AddElement DEF n
  <2> QED
    BY <1>1, <1>2, <2>1, <2>2 DEF SpaceIsConserved
<1>5. CASE try_completed
  <2>1. /\ Len(done') = Len(done) - 1 /\ space' = space + 1
        /\ UNCHANGED <<inflight, ring, event_queue, caller>> /\ caller = "idle"
    BY <1>5, HarvestMoves
  <2> QED
    BY <1>1, <1>2, <2>1 DEF SpaceIsConserved, n
<1>6. ASSUME NEW id \in inflight, KernelCompletes(id) PROVE SpaceIsConserved'
  <2>1. /\ inflight' = inflight \ {id} /\ Len(ring') = Len(ring) + 1
        /\ UNCHANGED <<event_queue, done, space, caller>>
    BY <1>6, CompleteMoves
  <2>2. Cardinality(inflight') = n - 1
    BY <1>1, <2>1, FS_RemoveElement DEF n
  <2> QED
    BY <1>1, <1>2, <2>1, <2>2 DEF SpaceIsConserved
<1>7. CASE FetchEvents
  <2>1. /\ Len(event_queue') = Len(event_queue) + Len(ring) /\ Len(ring') = 0
        /\ UNCHANGED <<inflight, done, space, caller>>
    BY <1>7, FetchMoves
  <2> QED
    BY <1>1, <1>2, <2>1 DEF SpaceIsConserved, n
<1>8. CASE ForwardEvent
  <2>1. /\ Len(done') = Len(done) + 1 /\ Len(event_queue') = Len(event_queue) - 1
        /\ UNCHANGED <<inflight, ring, space, caller>>
    BY <1>8, ForwardMoves
  <2>2. n + Len(ring) + Len(event_queue') + Len(done')
          = n + Len(ring) + Len(event_queue) + Len(done)
    BY <1>1, <2>1
  <2>3. QueueLength - space + bump = n + Len(ring) + Len(event_queue') + Len(done')
    BY <1>2, <2>2
  <2> QED
    BY <2>1, <2>3 DEF SpaceIsConserved, n
<1>9. CASE CancelsAll
  <2>1. PICK now \in SUBSET (active \cap inflight) :
          /\ inflight' = inflight \ now /\ Len(done') = Len(done) + Cardinality(now)
          /\ UNCHANGED <<ring, event_queue, space, caller>>
    BY <1>9, CancelMoves
  <2>2. inflight \cap now = now
    BY <2>1
  <2>3. Cardinality(inflight') = n - Cardinality(now)
    <3>1. Cardinality(inflight \ now) = Cardinality(inflight) - Cardinality(inflight \cap now)
      BY <1>1, FS_Difference
    <3> QED
      BY <2>1, <2>2, <3>1 DEF n
  <2>4. Cardinality(now) \in Nat
    BY <2>1, InflightIsFinite DEF DriverInv, DriverTypeOK
  <2>5. Cardinality(inflight') + Len(ring) + Len(event_queue) + Len(done')
          = n + Len(ring) + Len(event_queue) + Len(done)
    BY <1>1, <2>1, <2>3, <2>4
  <2>6. QueueLength - space + bump
          = Cardinality(inflight') + Len(ring) + Len(event_queue) + Len(done')
    BY <1>2, <2>5
  <2> QED
    BY <2>1, <2>6 DEF SpaceIsConserved
<1> QED
  BY <1>3, <1>4, <1>5, <1>6, <1>7, <1>8, <1>9, StepKinds

(***************************************************************************)
(* The steps that use the command channel, and the others.                 *)
(***************************************************************************)
LEMMA AnnounceMoves ==
  ASSUME DriverInv, SubmitAnnounces
  PROVE  /\ next_id \in Ids /\ Command("Insert", next_id) \in Cmd
         /\ cmds' = Append(cmds, Command("Insert", next_id))
         /\ next_id' = next_id + 1 /\ current' = next_id
         /\ caller = "idle" /\ caller' = "announced" /\ space > 0
         /\ UNCHANGED <<inflight, ring, event_queue, done, active, space, cancelled,
                        thread, eventfd, closed>>
<1>1. /\ cmds' = Append(cmds, Command("Insert", next_id)) /\ next_id' = next_id + 1
      /\ caller = "idle" /\ caller' = "announced" /\ space > 0 /\ next_id < MaxOps
      /\ UNCHANGED <<inflight, ring, event_queue, done, active, space, cancelled,
                     thread, eventfd, closed>>
  BY DEF SubmitAnnounces, Send, Command, kernelVars, threadVars
<1>2. next_id \in Ids /\ next_id \in Nat
  BY <1>1, DriverAssumption DEF DriverInv, DriverTypeOK, Ids
<1>3. Command("Insert", next_id) \in Cmd
  BY <1>2 DEF Command, Cmd
<1>4. current' = next_id
  BY <1>1, <1>2 DEF current
<1> QED
  BY <1>1, <1>2, <1>3, <1>4

LEMMA RefuseMoves ==
  ASSUME DriverInv, KernelRefuses
  PROVE  /\ current \in Ids /\ Command("Remove", current) \in Cmd
         /\ cmds' = Append(cmds, Command("Remove", current))
         /\ caller = "announced" /\ caller' = "withdrawn"
         /\ UNCHANGED <<inflight, ring, event_queue, done, active, space, cancelled,
                        next_id, thread, eventfd, closed>>
<1>1. /\ cmds' = Append(cmds, Command("Remove", current))
      /\ caller = "announced" /\ caller' = "withdrawn"
      /\ UNCHANGED <<inflight, ring, event_queue, done, active, space, cancelled,
                     next_id, thread, eventfd, closed>>
  BY DEF KernelRefuses, Send, Command, kernelVars, threadVars
<1>2. next_id > 0
  BY <1>1 DEF DriverInv, Operations
<1>3. current \in Ids
  BY <1>2, DriverAssumption DEF DriverInv, DriverTypeOK, current, Ids
<1>4. Command("Remove", current) \in Cmd
  BY <1>3 DEF Command, Cmd
<1> QED
  BY <1>1, <1>3, <1>4

LEMMA DropMoves ==
  ASSUME DriverInv, DropCancels
  PROVE  /\ Command("CancelAll", MaxOps) \in Cmd
         /\ cmds' = Append(cmds, Command("CancelAll", MaxOps))
         /\ caller = "idle" /\ caller' = "cancelling"
         /\ UNCHANGED <<inflight, ring, event_queue, done, active, space, cancelled,
                        next_id, thread, eventfd, closed>>
  BY DEF DropCancels, Send, Command, Cmd, kernelVars, threadVars

\* The thread meets no duplicate insertion ...
LEMMA InsertMoves ==
  ASSUME DriverInv, Inserts
  PROVE  /\ cmds # <<>> /\ cmds' = Tail(cmds) /\ Head(cmds).kind = "Insert"
         /\ Head(cmds).id \in Ids /\ Head(cmds).id < next_id /\ Head(cmds).id \notin active
         /\ active' = active \cup {Head(cmds).id} /\ thread = "commands"
         /\ UNCHANGED <<inflight, ring, event_queue, done, space, cancelled,
                        next_id, thread, eventfd, closed, caller>>
<1>1. /\ cmds # <<>> /\ cmds' = Tail(cmds) /\ Head(cmds).kind = "Insert"
      /\ \/ Head(cmds).id \notin active /\ UNCHANGED thread
         \/ Head(cmds).id \in active /\ thread' = "panicked"
      /\ active' = active \cup {Head(cmds).id} /\ thread = "commands"
      /\ UNCHANGED <<inflight, ring, event_queue, done, space, cancelled,
                     next_id, eventfd, closed, caller>>
  BY DEF Inserts, Takes, kernelVars, callerVars
<1>2. 1 \in DOMAIN cmds /\ cmds[1] = Head(cmds) /\ Head(cmds) \in Cmd
  BY <1>1, TakenCommand DEF DriverInv, DriverTypeOK
<1>3. Head(cmds).id < next_id /\ Head(cmds).id \notin active
  BY <1>1, <1>2 DEF DriverInv, Commands
<1>4. Head(cmds).id \in Ids
  BY <1>2, <1>3, DriverAssumption DEF Cmd, Ids, DriverInv, DriverTypeOK
<1> QED
  BY <1>1, <1>3, <1>4

\* ... and no unknown removal.
LEMMA RemoveMoves ==
  ASSUME DriverInv, Removes
  PROVE  /\ cmds # <<>> /\ cmds' = Tail(cmds) /\ Head(cmds).kind = "Remove"
         /\ Head(cmds).id \in Ids /\ Head(cmds).id \notin Out /\ Head(cmds).id \in active
         /\ active' = active \ {Head(cmds).id} /\ thread = "commands"
         /\ UNCHANGED <<inflight, ring, event_queue, done, space, cancelled,
                        next_id, thread, eventfd, closed, caller>>
<1>1. /\ cmds # <<>> /\ cmds' = Tail(cmds) /\ Head(cmds).kind = "Remove"
      /\ \/ Head(cmds).id \in active /\ UNCHANGED thread
         \/ Head(cmds).id \notin active /\ thread' = "panicked"
      /\ active' = active \ {Head(cmds).id} /\ thread = "commands"
      /\ UNCHANGED <<inflight, ring, event_queue, done, space, cancelled,
                     next_id, eventfd, closed, caller>>
  BY DEF Removes, Takes, kernelVars, callerVars
<1>2. /\ 1 \in DOMAIN cmds /\ cmds[1] = Head(cmds) /\ Head(cmds) \in Cmd
      /\ DOMAIN cmds \subseteq Nat \ {0}
  BY <1>1, TakenCommand DEF DriverInv, DriverTypeOK
<1>3. Known(Head(cmds).id) /\ Head(cmds).id \notin Out /\ Head(cmds).id < next_id
  BY <1>1, <1>2 DEF DriverInv, Commands
<1>4. Head(cmds).id \in active
  <2>1. SUFFICES ASSUME NEW i \in DOMAIN cmds, cmds[i] = Command("Insert", Head(cmds).id)
                 PROVE  FALSE
    BY <1>3 DEF Known
  <2>2. cmds[i].kind = "Insert" /\ cmds[i].id = cmds[1].id
    BY <1>2, <2>1 DEF Command
  <2>3. i < 1
    BY <1>1, <1>2, <2>2 DEF DriverInv, Commands
  <2> QED
    BY <1>2, <2>3
<1>5. Head(cmds).id \in Ids
  BY <1>4 DEF DriverInv, DriverTypeOK
<1> QED
  BY <1>1, <1>3, <1>4, <1>5

\* The steps that touch neither the channel nor an operation.
Silent ==
  SubmitWakes \/ WithdrawWakes \/ DropWakes \/ DropCloses
    \/ ThreadWakes \/ CommandsDrained \/ ForwardingStops \/ UNCHANGED vars

LEMMA SilentMovesNothing ==
  ASSUME Silent
  PROVE  UNCHANGED <<cmds, active, inflight, cancelled, ring, event_queue, done, next_id>>
  BY DEF Silent, SubmitWakes, WithdrawWakes, DropWakes, DropCloses, ThreadWakes,
         CommandsDrained, ForwardingStops, vars, callerVars, kernelVars, threadVars

LEMMA ChannelKinds ==
  ASSUME [DriverNext]_vars
  PROVE  \/ Silent \/ SubmitAnnounces \/ KernelRefuses \/ DropCancels \/ Inserts \/ Removes
         \/ KernelAccepts \/ try_completed \/ CancelsAll \/ FetchEvents
         \/ ForwardEvent \/ \E id \in inflight : KernelCompletes(id)
  BY DEF DriverNext, Caller, Thread, Silent

\* The places in the queue stay within its length.
LEMMA SpaceTypeStep ==
  ASSUME DriverInv, [DriverNext]_vars, inflight' \subseteq Ids,
         ring' \in Seq(Ids), event_queue' \in Seq(Ids), done' \in Seq(Ids)
  PROVE  space' \in 0 .. QueueLength
<1>1. SpaceIsConserved'
  BY SpaceStep
<1>2. /\ Cardinality(inflight') \in Nat /\ Len(ring') \in Nat
      /\ Len(event_queue') \in Nat /\ Len(done') \in Nat
  BY InflightIsFinite, LenProperties
<1>3. QueueLength \in Nat \ {0} /\ space \in 0 .. QueueLength
  BY DriverAssumption DEF DriverInv, DriverTypeOK
<1>4. CASE try_completed
  <2>1. space' = space + 1 /\ caller' = "idle"
    BY <1>4, HarvestMoves
  <2>2. QueueLength - space' \in Nat
    <3>1. QueueLength - space' + 0
            = Cardinality(inflight') + Len(ring') + Len(event_queue') + Len(done')
      BY <1>1, <2>1 DEF SpaceIsConserved
    <3> QED
      BY <1>2, <1>3, <2>1, <3>1
  <2> QED
    BY <1>3, <2>1, <2>2
<1>5. CASE SubmitWakes
  <2>1. caller = "accepted" /\ space' = space - 1
    BY <1>5 DEF SubmitWakes
  <2>2. space > 0
    BY <2>1 DEF DriverInv, Operations
  <2> QED
    BY <1>3, <2>1, <2>2
<1>6. CASE ~try_completed /\ ~SubmitWakes
  <2>1. CASE CancelsAll
    BY <2>1, <1>3 DEF CancelsAll, callerVars
  <2>2. CASE \E id \in inflight : KernelCompletes(id)
    BY <2>2, <1>3 DEF KernelCompletes, callerVars
  <2>3. CASE ~CancelsAll /\ ~\E id \in inflight : KernelCompletes(id)
    <3>1. space' = space
      BY <1>6, <2>3 DEF DriverNext, Caller, Thread, SubmitAnnounces, KernelAccepts,
         KernelRefuses, WithdrawWakes, DropCancels, DropWakes, DropCloses, ThreadWakes,
         Inserts, Removes, CommandsDrained, FetchEvents, ForwardEvent, ForwardingStops,
         vars, callerVars
    <3> QED
      BY <1>3, <3>1
  <2> QED
    BY <2>1, <2>2, <2>3
<1> QED
  BY <1>4, <1>5, <1>6

\* The types of the other variables.
OthersTypeOK ==
  /\ caller \in {"idle", "announced", "accepted", "withdrawn", "cancelling",
                 "closing", "dropped"}
  /\ next_id \in 0 .. MaxOps
  /\ cmds \in Seq(Cmd)
  /\ closed \in BOOLEAN
  /\ eventfd \in Nat
  /\ inflight \subseteq Ids /\ cancelled \subseteq inflight
  /\ active \subseteq Ids
  /\ ring \in Seq(Ids) /\ event_queue \in Seq(Ids) /\ done \in Seq(Ids)
  /\ thread \in {"waiting", "commands", "events", "forwarding", "exited"}

LEMMA OthersTypeStep ==
  ASSUME DriverInv, [DriverNext]_vars
  PROVE  OthersTypeOK'
<1>1. OthersTypeOK /\ cmds \in Seq(Cmd) /\ next_id \in Nat /\ MaxOps \in Nat
  BY DriverAssumption DEF DriverInv, DriverTypeOK, OthersTypeOK, ThreadNeverPanics
<1>2. CASE Silent
  <2>1. UNCHANGED <<cmds, active, inflight, cancelled, ring, event_queue, done, next_id>>
    BY <1>2, SilentMovesNothing
  <2>2. /\ caller' \in {"idle", "closing", "dropped", caller} /\ closed' \in {TRUE, closed}
        /\ eventfd' = eventfd \/ eventfd' = eventfd + 1
             \/ (eventfd > 0 /\ eventfd' = eventfd - 1)
        /\ thread' \in {"waiting", "commands", "events", "exited", thread}
    BY <1>2 DEF Silent, SubmitWakes, WithdrawWakes, DropWakes, DropCloses, ThreadWakes,
       CommandsDrained, ForwardingStops, vars, callerVars, threadVars
  <2>3. eventfd' \in Nat
    BY <1>1, <2>2 DEF OthersTypeOK
  <2> QED
    BY <1>1, <2>1, <2>2, <2>3 DEF OthersTypeOK
<1>3. CASE SubmitAnnounces
  <2>1. next_id \in Ids /\ cmds' \in Seq(Cmd)
    BY <1>1, <1>3, AnnounceMoves, AppendRange
  <2>2. next_id' \in 0 .. MaxOps
    BY <1>1, <1>3, <2>1, AnnounceMoves DEF Ids
  <2> QED
    BY <1>1, <1>3, <2>1, <2>2, AnnounceMoves DEF OthersTypeOK
<1>4. CASE KernelRefuses
  <2>1. cmds' \in Seq(Cmd)
    BY <1>1, <1>4, RefuseMoves, AppendRange
  <2> QED
    BY <1>1, <1>4, <2>1, RefuseMoves DEF OthersTypeOK
<1>5. CASE DropCancels
  <2>1. cmds' \in Seq(Cmd)
    BY <1>1, <1>5, DropMoves, AppendRange
  <2> QED
    BY <1>1, <1>5, <2>1, DropMoves DEF OthersTypeOK
<1>6. CASE Inserts
  <2>1. cmds' \in Seq(Cmd)
    BY <1>1, <1>6, InsertMoves, TakenCommand
  <2> QED
    BY <1>1, <1>6, <2>1, InsertMoves DEF OthersTypeOK
<1>7. CASE Removes
  <2>1. cmds' \in Seq(Cmd)
    BY <1>1, <1>7, RemoveMoves, TakenCommand
  <2> QED
    BY <1>1, <1>7, <2>1, RemoveMoves DEF OthersTypeOK
<1>8. CASE KernelAccepts
  BY <1>1, <1>8, AcceptMoves DEF OthersTypeOK
<1>9. CASE try_completed
  BY <1>1, <1>9, HarvestMoves DEF OthersTypeOK
<1>10. CASE CancelsAll
  <2>1. PICK now \in SUBSET (active \cap inflight) :
          /\ active' = active \ now /\ inflight' = inflight \ now
          /\ cancelled' = (active \cap inflight) \ now
          /\ done' \in Seq(Ids)
          /\ cmds # <<>> /\ cmds' = Tail(cmds)
          /\ UNCHANGED <<ring, event_queue, next_id, eventfd, closed, caller, thread>>
    BY <1>10, CancelMoves
  <2>2. cmds' \in Seq(Cmd)
    BY <1>1, <2>1, TakenCommand
  <2> QED
    BY <1>1, <2>1, <2>2 DEF OthersTypeOK
<1>11. CASE FetchEvents
  <2>1. ring' \in Seq(Ids)
    BY <1>11, FetchMoves
  <2> QED
    BY <1>1, <1>11, <2>1, FetchMoves DEF OthersTypeOK
<1>12. CASE ForwardEvent
  BY <1>1, <1>12, ForwardMoves DEF OthersTypeOK
<1>13. ASSUME NEW id \in inflight, KernelCompletes(id) PROVE OthersTypeOK'
  <2>1. eventfd' \in Nat
    BY <1>1, <1>13, CompleteMoves DEF OthersTypeOK
  <2> QED
    BY <1>1, <1>13, <2>1, CompleteMoves DEF OthersTypeOK
<1> QED
  BY <1>2, <1>3, <1>4, <1>5, <1>6, <1>7, <1>8, <1>9, <1>10, <1>11, <1>12, <1>13, ChannelKinds

LEMMA TypeStep ==
  ASSUME DriverInv, [DriverNext]_vars
  PROVE  DriverTypeOK' /\ ThreadNeverPanics'
<1>1. OthersTypeOK'
  BY OthersTypeStep
<1>2. space' \in 0 .. QueueLength
  BY <1>1, SpaceTypeStep DEF OthersTypeOK
<1> QED
  BY <1>1, <1>2 DEF DriverTypeOK, OthersTypeOK, ThreadNeverPanics

(***************************************************************************)
(* What the thread knows.                                                  *)
(***************************************************************************)
\* An operation the thread knows, or will, is forgotten only when its
\* completion is passed on or its announcement is withdrawn.
LEMMA KnownStep ==
  ASSUME DriverInv, [DriverNext]_vars, NEW id, Known(id)
  PROVE  \/ Known(id)'
         \/ id \in Out /\ id \notin Fetching'
         \/ Removes /\ cmds # <<>> /\ Head(cmds) = Command("Remove", id)
<1>1. cmds \in Seq(Cmd) /\ Distinct
  BY DEF DriverInv, DriverTypeOK
<1>2. CASE UNCHANGED <<cmds, active>>
  BY <1>2 DEF Known
<1>3. ASSUME NEW c \in Cmd, cmds' = Append(cmds, c), UNCHANGED active PROVE Known(id)'
  <2>1. \A i \in DOMAIN cmds : i \in DOMAIN cmds' /\ cmds'[i] = cmds[i]
    BY <1>1, <1>3, SentCommand
  <2> QED
    BY <1>3, <2>1 DEF Known
<1>4. ASSUME cmds # <<>>, cmds' = Tail(cmds), Head(cmds) # Command("Insert", id)
      PROVE  id \in active \/ Known(id)'
  <2>1. /\ cmds[1] = Head(cmds)
        /\ \A i \in DOMAIN cmds : i # 1 => i - 1 \in DOMAIN cmds' /\ cmds'[i - 1] = cmds[i]
    BY <1>1, <1>4, TakenCommand
  <2>2. SUFFICES ASSUME NEW i \in DOMAIN cmds, cmds[i] = Command("Insert", id)
                 PROVE  Known(id)'
    BY DEF Known
  <2>3. i # 1
    BY <1>4, <2>1, <2>2
  <2> QED
    BY <2>1, <2>2, <2>3 DEF Known
<1>5. CASE Inserts
  <2>1. /\ cmds # <<>> /\ cmds' = Tail(cmds) /\ active' = active \cup {Head(cmds).id}
    BY <1>5, InsertMoves
  <2>2. CASE Head(cmds) = Command("Insert", id)
    BY <2>1, <2>2 DEF Known, Command
  <2>3. CASE Head(cmds) # Command("Insert", id)
    BY <1>4, <2>1, <2>3 DEF Known
  <2> QED
    BY <2>2, <2>3
<1>6. CASE Removes
  <2>1. /\ cmds # <<>> /\ cmds' = Tail(cmds) /\ active' = active \ {Head(cmds).id}
        /\ Head(cmds).kind = "Remove" /\ Head(cmds) \in Cmd
    BY <1>1, <1>6, RemoveMoves, TakenCommand
  <2>2. CASE Head(cmds).id = id
    <3>1. Head(cmds) = Command("Remove", id)
      BY <2>1, <2>2 DEF Cmd, Command
    <3> QED
      BY <1>6, <2>1, <3>1
  <2>3. CASE Head(cmds).id # id
    <3>1. Head(cmds) # Command("Insert", id)
      BY <2>3 DEF Command
    <3> QED
      BY <1>4, <2>1, <2>3, <3>1 DEF Known
  <2> QED
    BY <2>2, <2>3
<1>7. CASE CancelsAll
  <2>1. PICK now \in SUBSET (active \cap inflight) :
          /\ active' = active \ now /\ inflight' = inflight \ now
          /\ cmds # <<>> /\ cmds' = Tail(cmds)
          /\ Head(cmds).kind = "CancelAll"
          /\ UNCHANGED <<ring, event_queue>>
    BY <1>7, CancelMoves
  <2>2. CASE id \in now
    BY <1>1, <2>1, <2>2 DEF Distinct, Out, Fetching
  <2>3. CASE id \notin now
    <3>1. Head(cmds) # Command("Insert", id)
      BY <2>1 DEF Command
    <3> QED
      BY <1>4, <2>1, <2>3, <3>1 DEF Known
  <2> QED
    BY <2>2, <2>3
<1>8. CASE ForwardEvent
  <2>1. PICK e \in Ids :
          /\ e \in Range(event_queue) /\ active' = active \ {e}
          /\ Range(event_queue') = Range(event_queue) \ {e}
          /\ UNCHANGED <<inflight, ring, cmds>>
    BY <1>8, ForwardMoves
  <2>2. CASE id = e
    BY <1>1, <2>1, <2>2 DEF Distinct, Out, Fetching
  <2>3. CASE id # e
    BY <2>1, <2>3 DEF Known
  <2> QED
    BY <2>2, <2>3
<1> QED
  <2>1. CASE Silent
    BY <1>2, <2>1, SilentMovesNothing
  <2>2. CASE SubmitAnnounces
    BY <1>3, <2>2, AnnounceMoves
  <2>3. CASE KernelRefuses
    BY <1>3, <2>3, RefuseMoves
  <2>4. CASE DropCancels
    BY <1>3, <2>4, DropMoves
  <2>5. CASE KernelAccepts
    BY <1>2, <2>5, AcceptMoves
  <2>6. CASE try_completed
    BY <1>2, <2>6, HarvestMoves
  <2>7. CASE FetchEvents
    BY <1>2, <2>7, FetchMoves
  <2>8. CASE \E e \in inflight : KernelCompletes(e)
    BY <1>2, <2>8, CompleteMoves
  <2> QED
    BY <1>5, <1>6, <1>7, <1>8, <2>1, <2>2, <2>3, <2>4, <2>5, <2>6, <2>7, <2>8, ChannelKinds

\* Only an accepted operation comes out of nowhere, and an operation leaves
\* only when it is harvested.
LEMMA OutStep ==
  ASSUME DriverInv, [DriverNext]_vars
  PROVE  \/ Out' \subseteq Out /\ Fetching' \subseteq Fetching
         \/ KernelAccepts /\ Out' = Out \cup {current} /\ Fetching' = Fetching \cup {current}
<1>1. CASE Quiet
  BY <1>1, QuietMovesNothing DEF Out, Fetching
<1>2. CASE KernelAccepts
  BY <1>2, AcceptMoves DEF Out, Fetching
<1>3. CASE try_completed
  <2>1. /\ Range(done) = {Head(done)} \cup Range(done')
        /\ UNCHANGED <<inflight, ring, event_queue>>
    BY <1>3, HarvestMoves
  <2> QED
    BY <2>1 DEF Out, Fetching
<1>4. ASSUME NEW id \in inflight, KernelCompletes(id)
      PROVE  Out' \subseteq Out /\ Fetching' \subseteq Fetching
  <2>1. /\ inflight' = inflight \ {id} /\ Range(ring') = Range(ring) \cup {id}
        /\ UNCHANGED <<event_queue, done>>
    BY <1>4, CompleteMoves
  <2> QED
    BY <2>1 DEF Out, Fetching
<1>5. CASE FetchEvents
  <2>1. /\ Range(event_queue') = Range(event_queue) \cup Range(ring) /\ Range(ring') = {}
        /\ UNCHANGED <<inflight, done>>
    BY <1>5, FetchMoves
  <2> QED
    BY <2>1 DEF Out, Fetching
<1>6. CASE ForwardEvent
  <2>1. PICK id \in Ids :
          /\ id \in Range(event_queue) /\ Range(done') = Range(done) \cup {id}
          /\ Range(event_queue') = Range(event_queue) \ {id}
          /\ UNCHANGED <<inflight, ring>>
    BY <1>6, ForwardMoves
  <2> QED
    BY <2>1 DEF Out, Fetching
<1>7. CASE CancelsAll
  <2>1. PICK now \in SUBSET (active \cap inflight) :
          /\ inflight' = inflight \ now /\ Range(done') = Range(done) \cup now
          /\ UNCHANGED <<ring, event_queue>>
    BY <1>7, CancelMoves
  <2> QED
    BY <2>1 DEF Out, Fetching
<1> QED
  BY <1>1, <1>2, <1>3, <1>4, <1>5, <1>6, <1>7, StepKinds

\* A command is determined by its kind and its operation.
LEMMA CommandIs ==
  ASSUME NEW c \in Cmd, NEW kind, NEW id, c.kind = kind, c.id = id
  PROVE  c = Command(kind, id)
  BY DEF Cmd, Command

\* A withdrawal that stays on the channel keeps what it needs: the thread
\* knows its operation or will, and the kernel does not get it.
LEMMA WithdrawalStays ==
  ASSUME DriverInv, [DriverNext]_vars, NEW j \in DOMAIN cmds, NEW id,
         cmds[j].kind = "Remove", cmds[j].id = id, j = 1 => ~Removes
  PROVE  Known(id)' /\ id \notin Out'
<1>1. cmds \in Seq(Cmd) /\ Known(id) /\ id \notin Out /\ cmds[j] \in Cmd
  BY DEF DriverInv, DriverTypeOK, Commands
<1>2. cmds[j] = Command("Remove", id)
  BY <1>1, CommandIs
<1>3. Known(id)'
  <2>1. SUFFICES ASSUME Removes, cmds # <<>>, Head(cmds) = Command("Remove", id)
                 PROVE  FALSE
    BY <1>1, KnownStep
  <2>2. 1 \in DOMAIN cmds /\ cmds[1] = cmds[j] /\ cmds[1].kind = "Remove"
    BY <1>1, <1>2, <2>1, TakenCommand
  <2>3. j = 1
    BY <2>2 DEF DriverInv, Commands
  <2> QED
    BY <2>1, <2>3
<1>4. id \notin Out'
  <2>1. SUFFICES ASSUME KernelAccepts, id = current PROVE FALSE
    BY <1>1, OutStep
  <2>2. caller = "announced"
    BY <2>1, AcceptMoves
  <2> QED
    BY <1>2, <2>1, <2>2 DEF DriverInv, Operations
<1> QED
  BY <1>3, <1>4

\* The steps after which the channel is the same.
LEMMA CommandsSame ==
  ASSUME DriverInv, [DriverNext]_vars, UNCHANGED <<cmds, next_id>>, active' \subseteq active,
         ~Removes
  PROVE  Commands'
<1>1. \A i \in DOMAIN cmds' : i \in DOMAIN cmds /\ cmds'[i] = cmds[i]
  OBVIOUS
<1>2. ASSUME NEW i \in DOMAIN cmds', cmds'[i].kind = "Remove"
      PROVE  Known(cmds[i].id)' /\ (cmds[i].id \notin Out)'
  <2>1. PICK id : id = cmds[i].id
    OBVIOUS
  <2>2. Known(id)' /\ id \notin Out'
    BY <1>1, <1>2, <2>1, WithdrawalStays
  <2>3. cmds'[i].id = id
    BY <2>1
  <2> QED
    BY <2>2, <2>3 DEF Known
<1> QED
  BY <1>1, <1>2 DEF DriverInv, Commands

\* The steps that send a command about an operation nothing else on the
\* channel is about, or about none.
LEMMA CommandsSent ==
  ASSUME DriverInv, [DriverNext]_vars, NEW c \in Cmd, cmds' = Append(cmds, c),
         UNCHANGED active, next_id' \in {next_id, next_id + 1}, ~Removes,
         c.kind # "CancelAll" => c.id < next_id',
         c.kind # "CancelAll" => \A i \in DOMAIN cmds : cmds[i] # c,
         c.kind = "Insert" =>
           c.id \notin active /\ \A i \in DOMAIN cmds : cmds[i].kind = "Remove" => cmds[i].id # c.id,
         c.kind = "Remove" => Known(c.id)' /\ c.id \notin Out'
  PROVE  Commands'
<1> DEFINE q == cmds'
           m == Len(cmds) + 1
<1>1. /\ cmds \in Seq(Cmd) /\ Commands /\ next_id \in Nat
  BY DriverAssumption DEF DriverInv, DriverTypeOK
<1>2. /\ \A i \in DOMAIN q : \/ i \in DOMAIN cmds /\ q[i] = cmds[i]
                             \/ i = m /\ q[i] = c
      /\ \A i \in DOMAIN cmds : i < m /\ cmds[i] \in Cmd
  BY <1>1, SentCommand
<1>3. active' = active /\ (\A i \in DOMAIN cmds : cmds[i].id \in Nat)
  BY <1>1, <1>2, DriverAssumption DEF Cmd, Ids
<1> HIDE DEF q, m
<1>4. \A i \in DOMAIN q : q[i].kind # "CancelAll" => q[i].id < next_id'
  <2>1. \A i \in DOMAIN cmds : cmds[i].kind # "CancelAll" => cmds[i].id < next_id'
    BY <1>1, <1>3 DEF Commands
  <2> QED
    BY <1>2, <2>1
<1>5. \A i, j \in DOMAIN q : q[i].kind # "CancelAll" /\ q[i] = q[j] => i = j
  BY <1>1, <1>2 DEF Commands
<1>6. \A i \in DOMAIN q : q[i].kind = "Insert" => q[i].id \notin active'
  BY <1>1, <1>2, <1>3 DEF Commands
<1>7. \A i, j \in DOMAIN q :
        q[i].kind = "Insert" /\ q[j].kind = "Remove" /\ q[i].id = q[j].id => i < j
  BY <1>1, <1>2 DEF Commands
<1>8. ASSUME NEW i \in DOMAIN q, q[i].kind = "Remove"
      PROVE  Known(cmds[i].id)' /\ (cmds[i].id \notin Out)'
  <2>1. PICK id : id = q[i].id
    OBVIOUS
  <2>2. Known(id)' /\ id \notin Out'
    BY <1>2, <1>8, <2>1, WithdrawalStays
  <2> QED
    BY <2>1, <2>2 DEF Known, q
<1> QED
  BY <1>4, <1>5, <1>6, <1>7, <1>8 DEF Commands, q

\* The steps that take a command: what the thread then knows is new to the
\* commands that stay.
LEMMA CommandsTaken ==
  ASSUME DriverInv, [DriverNext]_vars, cmds # <<>>, cmds' = Tail(cmds), UNCHANGED next_id,
         \A id \in active' : id \in active \/ (Inserts /\ id = Head(cmds).id)
  PROVE  Commands'
<1> DEFINE q == cmds'
<1>1. /\ cmds \in Seq(Cmd) /\ Commands
  BY DEF DriverInv, DriverTypeOK
<1>2. /\ 1 \in DOMAIN cmds /\ cmds[1] = Head(cmds) /\ Head(cmds) \in Cmd
      /\ DOMAIN q \subseteq Nat \ {0}
      /\ \A i \in DOMAIN q : i + 1 \in DOMAIN cmds /\ q[i] = cmds[i + 1]
  BY <1>1, TakenCommand
<1>3. \A i \in DOMAIN q : i \in Nat /\ i + 1 # 1 /\ cmds[i + 1] \in Cmd
  BY <1>1, <1>2, LenProperties
<1> HIDE DEF q
<1>4. \A i \in DOMAIN q : q[i].kind # "CancelAll" => q[i].id < next_id'
  BY <1>1, <1>2 DEF Commands
<1>5. ASSUME NEW i \in DOMAIN q, NEW j \in DOMAIN q, q[i].kind # "CancelAll", q[i] = q[j]
      PROVE  i = j
  <2>1. i + 1 = j + 1
    BY <1>1, <1>2, <1>5 DEF Commands
  <2> QED
    BY <1>3, <2>1
<1>6. ASSUME NEW i \in DOMAIN q, q[i].kind = "Insert" PROVE q[i].id \notin active'
  <2>1. SUFFICES ASSUME Inserts, q[i].id = Head(cmds).id PROVE FALSE
    BY <1>1, <1>2, <1>6 DEF Commands
  <2>2. cmds[1].kind = "Insert"
    BY <1>2, <2>1, InsertMoves
  <2>3. cmds[i + 1] = cmds[1]
    BY <1>2, <1>3, <1>6, <2>1, <2>2, CommandIs
  <2>4. i + 1 = 1
    BY <1>1, <1>2, <2>2, <2>3 DEF Commands
  <2> QED
    BY <1>3, <2>4
<1>7. ASSUME NEW i \in DOMAIN q, NEW j \in DOMAIN q,
             q[i].kind = "Insert", q[j].kind = "Remove", q[i].id = q[j].id
      PROVE  i < j
  <2>1. i + 1 < j + 1
    BY <1>1, <1>2, <1>7 DEF Commands
  <2> QED
    BY <1>3, <2>1
<1>8. ASSUME NEW i \in DOMAIN q, q[i].kind = "Remove"
      PROVE  Known(cmds[i].id)' /\ (cmds[i].id \notin Out)'
  <2>1. PICK id : id = q[i].id
    OBVIOUS
  <2>2. PICK j : j = i + 1
    OBVIOUS
  <2>3. Known(id)' /\ id \notin Out'
    BY <1>2, <1>3, <1>8, <2>1, <2>2, WithdrawalStays
  <2> QED
    BY <2>1, <2>3 DEF Known, q
<1> QED
  BY <1>4, <1>5, <1>6, <1>7, <1>8 DEF Commands, q

LEMMA CommandsStep ==
  ASSUME DriverInv, [DriverNext]_vars
  PROVE  Commands'
<1>1. ASSUME Removes PROVE cmds' = Tail(cmds) /\ cmds # <<>> /\ cmds' # cmds
  <2>1. cmds' = Tail(cmds) /\ cmds # <<>>
    BY <1>1, RemoveMoves
  <2>2. Len(cmds') = Len(cmds) - 1 /\ Len(cmds) \in Nat
    BY <2>1, TailRange, LenProperties DEF DriverInv, DriverTypeOK
  <2>3. Len(cmds') # Len(cmds)
    BY <2>2
  <2> QED
    BY <2>1, <2>3
<1>2. ASSUME Removes PROVE UNCHANGED caller
  BY <1>2, RemoveMoves
<1>3. CASE Silent
  BY <1>1, <1>3, SilentMovesNothing, CommandsSame
<1>4. CASE KernelAccepts
  BY <1>1, <1>4, AcceptMoves, CommandsSame
<1>5. CASE try_completed
  BY <1>1, <1>5, HarvestMoves, CommandsSame
<1>6. CASE FetchEvents
  BY <1>1, <1>6, FetchMoves, CommandsSame
<1>7. CASE ForwardEvent
  <2>1. UNCHANGED <<cmds, next_id>> /\ active' \subseteq active
    BY <1>7, ForwardMoves
  <2> QED
    BY <1>1, <2>1, CommandsSame
<1>8. CASE \E id \in inflight : KernelCompletes(id)
  BY <1>1, <1>8, CompleteMoves, CommandsSame
<1>9. CASE SubmitAnnounces
  <2>1. PICK c \in Cmd : c = Command("Insert", next_id)
    BY <1>9, AnnounceMoves
  <2>2. /\ cmds' = Append(cmds, c) /\ UNCHANGED active /\ next_id' = next_id + 1 /\ ~Removes
    BY <1>2, <1>9, <2>1, AnnounceMoves
  <2>3. c.kind = "Insert" /\ c.id = next_id
    BY <2>1 DEF Command
  <2>4. next_id \in Nat /\ c.id < next_id' /\ next_id \notin active
    BY <2>2, <2>3, DriverAssumption DEF DriverInv, DriverTypeOK, Operations
  <2>5. ASSUME NEW i \in DOMAIN cmds, cmds[i].kind # "CancelAll" PROVE cmds[i].id # next_id
    <3>1. cmds[i].id < next_id
      BY <2>5 DEF DriverInv, Commands
    <3> QED
      BY <2>4, <3>1
  <2>6. \A i \in DOMAIN cmds : cmds[i] # c
    BY <2>3, <2>5
  <2> QED
    BY <2>2, <2>3, <2>4, <2>5, <2>6, CommandsSent
<1>10. CASE KernelRefuses
  <2>1. PICK id \in Ids : id = current
    BY <1>10, RefuseMoves
  <2>2. PICK c \in Cmd : c = Command("Remove", id)
    BY <1>10, <2>1, RefuseMoves
  <2>3. /\ cmds' = Append(cmds, c) /\ UNCHANGED <<active, next_id>> /\ ~Removes
        /\ caller = "announced" /\ caller' = "withdrawn"
    BY <1>2, <1>10, <2>1, <2>2, RefuseMoves
  <2>4. c.kind = "Remove" /\ c.id = id
    BY <2>2 DEF Command
  <2>5. /\ id \notin Out /\ Known(id) /\ next_id > 0 /\ next_id \in Nat
        /\ \A i \in DOMAIN cmds : cmds[i] # c
    BY <2>1, <2>2, <2>3, DriverAssumption DEF DriverInv, Operations, DriverTypeOK, Known
  <2>6. Known(id)'
    BY <2>3, <2>5, KnownStep
  <2>7. id \notin Out'
    BY <2>3, <2>5, OutStep, AcceptMoves
  <2>8. id < next_id'
    BY <2>1, <2>3, <2>5 DEF current
  <2> QED
    BY <2>3, <2>4, <2>5, <2>6, <2>7, <2>8, CommandsSent
<1>11. CASE DropCancels
  <2>1. PICK c \in Cmd : c = Command("CancelAll", MaxOps)
    BY <1>11, DropMoves
  <2>2. /\ cmds' = Append(cmds, c) /\ UNCHANGED <<active, next_id>> /\ ~Removes
    BY <1>2, <1>11, <2>1, DropMoves
  <2>3. c.kind = "CancelAll"
    BY <2>1 DEF Command
  <2> QED
    BY <2>2, <2>3, CommandsSent
<1>12. CASE Inserts
  BY <1>12, InsertMoves, CommandsTaken
<1>13. CASE Removes
  BY <1>13, RemoveMoves, CommandsTaken
<1>14. CASE CancelsAll
  <2>1. cmds # <<>> /\ cmds' = Tail(cmds) /\ active' \subseteq active /\ UNCHANGED next_id
    BY <1>14, CancelMoves
  <2> QED
    BY <2>1, CommandsTaken
<1> QED
  BY <1>3, <1>4, <1>5, <1>6, <1>7, <1>8, <1>9, <1>10, <1>11, <1>12, <1>13, <1>14, ChannelKinds

(***************************************************************************)
(* The operations of the kernel stay known.                                *)
(***************************************************************************)
\* A submission under way stays as it is, but for its own two steps.
LEMMA CallerStep ==
  ASSUME [DriverNext]_vars, caller' \in {"announced", "accepted"},
         ~SubmitAnnounces, ~KernelAccepts
  PROVE  UNCHANGED <<caller, space, next_id>>
<1>1. CASE CancelsAll
  BY <1>1 DEF CancelsAll, callerVars
<1>2. CASE \E id \in inflight : KernelCompletes(id)
  BY <1>2 DEF KernelCompletes, callerVars
<1>3. CASE ~CancelsAll /\ ~\E id \in inflight : KernelCompletes(id)
  BY <1>3 DEF DriverNext, Caller, Thread, SubmitWakes, try_completed,
     KernelRefuses, WithdrawWakes, DropCancels, DropWakes, DropCloses, ThreadWakes,
     Inserts, Removes, CommandsDrained, FetchEvents, ForwardEvent, ForwardingStops,
     vars, callerVars
<1> QED
  BY <1>1, <1>2, <1>3

\* Only a refusal withdraws, and it withdraws the operation being submitted.
LEMMA WithdrawalComesFrom ==
  ASSUME DriverInv, [DriverNext]_vars, ~KernelRefuses, NEW c, c.kind = "Remove",
         NEW i \in DOMAIN cmds', cmds'[i] = c
  PROVE  \E j \in DOMAIN cmds : cmds[j] = c
<1>1. cmds \in Seq(Cmd)
  BY DEF DriverInv, DriverTypeOK
<1>2. ASSUME cmds # <<>>, cmds' = Tail(cmds) PROVE \E j \in DOMAIN cmds : cmds[j] = c
  BY <1>1, <1>2, TakenCommand
<1>3. ASSUME NEW d \in Cmd, d.kind # "Remove", cmds' = Append(cmds, d)
      PROVE  \E j \in DOMAIN cmds : cmds[j] = c
  BY <1>1, <1>3, SentCommand
<1>4. CASE SubmitAnnounces
  <2>1. PICK d \in Cmd : d = Command("Insert", next_id)
    BY <1>4, AnnounceMoves
  <2> QED
    BY <1>3, <1>4, <2>1, AnnounceMoves DEF Command
<1>5. CASE DropCancels
  BY <1>3, <1>5, DropMoves DEF Command
<1>6. CASE Inserts
  BY <1>2, <1>6, InsertMoves
<1>7. CASE Removes
  BY <1>2, <1>7, RemoveMoves
<1>8. CASE CancelsAll
  BY <1>2, <1>8, CancelMoves
<1>9. ASSUME ~SubmitAnnounces, ~DropCancels, ~Inserts, ~Removes, ~CancelsAll
      PROVE  cmds' = cmds
  BY <1>9, ChannelKinds, SilentMovesNothing, AcceptMoves, HarvestMoves, FetchMoves,
     ForwardMoves, CompleteMoves
<1> QED
  BY <1>4, <1>5, <1>6, <1>7, <1>8, <1>9

LEMMA OperationsStep ==
  ASSUME DriverInv, [DriverNext]_vars
  PROVE  Operations'
<1>1. /\ Operations /\ next_id \in Nat /\ active \subseteq Ids
      /\ (caller = "announced" => current < next_id)
  BY DriverAssumption DEF DriverInv, DriverTypeOK, Operations, current
<1>2. next_id' \in Nat /\ next_id <= next_id'
  <2>1. CASE SubmitAnnounces
    BY <1>1, <2>1, AnnounceMoves
  <2>2. CASE ~SubmitAnnounces
    <3>1. next_id' = next_id
      BY <2>2, ChannelKinds, SilentMovesNothing, RefuseMoves, DropMoves, InsertMoves,
         RemoveMoves, AcceptMoves, HarvestMoves, CancelMoves, FetchMoves, ForwardMoves,
         CompleteMoves
    <3> QED
      BY <1>1, <3>1
  <2> QED
    BY <2>1, <2>2
<1>3. \A id \in Out' : id \in Out \/ (caller = "announced" /\ id = current)
  BY OutStep, AcceptMoves
<1>4. \A id \in active' : id \in active \/ (Inserts /\ id = Head(cmds).id)
  BY ChannelKinds, SilentMovesNothing, AnnounceMoves, RefuseMoves, DropMoves, InsertMoves,
     RemoveMoves, AcceptMoves, HarvestMoves, CancelMoves, FetchMoves, ForwardMoves,
     CompleteMoves
<1>5. ASSUME NEW id \in active' \cup Out' PROVE id < next_id'
  <2>1. id < next_id
    BY <1>1, <1>3, <1>4, InsertMoves DEF Operations
  <2>2. id \in Int
    <3>1. /\ active' \subseteq Ids /\ inflight' \subseteq Ids
          /\ ring' \in Seq(Ids) /\ event_queue' \in Seq(Ids) /\ done' \in Seq(Ids)
      BY OthersTypeStep DEF OthersTypeOK
    <3>2. Range(ring') \cup Range(event_queue') \cup Range(done') \subseteq Ids
      BY <3>1, RangeOfSeq
    <3>3. id \in Ids
      BY <1>5, <3>1, <3>2 DEF Out, Fetching
    <3> QED
      BY <3>3, DriverAssumption DEF Ids
  <2> QED
    BY <1>1, <1>2, <2>1, <2>2
<1>6. ASSUME NEW id \in Fetching' PROVE Known(id)'
  <2>1. Known(id)
    BY <1>1, OutStep, AcceptMoves DEF Operations
  <2>2. SUFFICES ASSUME Removes, Head(cmds) = Command("Remove", id) PROVE FALSE
    BY <1>6, <2>1, KnownStep
  <2>3. id \notin Out
    BY <2>2, RemoveMoves DEF Command
  <2>4. ~KernelAccepts
    BY <2>2, RemoveMoves, AcceptMoves
  <2> QED
    BY <1>6, <2>3, <2>4, OutStep DEF Out
<1>7. ASSUME caller' \in {"announced", "accepted"} PROVE next_id' > 0 /\ space' > 0
  <2>1. CASE SubmitAnnounces
    BY <1>1, <2>1, AnnounceMoves
  <2>2. CASE KernelAccepts
    BY <1>1, <2>2, AcceptMoves DEF Operations
  <2>3. CASE ~SubmitAnnounces /\ ~KernelAccepts
    BY <1>1, <1>7, <2>3, CallerStep DEF Operations
  <2> QED
    BY <2>1, <2>2, <2>3
<1>8. ASSUME caller' = "announced", NEW id, id = current'
      PROVE  /\ id \notin Out' /\ Known(id)'
             /\ \A i \in DOMAIN cmds' : cmds'[i] # Command("Remove", id)
  <2>1. ~KernelAccepts /\ ~KernelRefuses
    BY <1>8, AcceptMoves, RefuseMoves
  <2>2. Out' \subseteq Out
    BY <2>1, OutStep
  <2>3. Command("Remove", id).kind = "Remove" /\ Command("Remove", id).id = id
    BY DEF Command
  <2>4. CASE SubmitAnnounces
    <3>1. id = next_id /\ cmds' = Append(cmds, Command("Insert", id))
          /\ Command("Insert", id) \in Cmd
      BY <1>8, <2>4, AnnounceMoves
    <3>2. id \notin Out
      BY <1>1, <3>1 DEF Operations
    <3>3. Known(id)'
      BY <3>1, SentCommand DEF Known, DriverInv, DriverTypeOK
    <3>4. \A j \in DOMAIN cmds : cmds[j] # Command("Remove", id)
      <4>1. SUFFICES ASSUME NEW j \in DOMAIN cmds, cmds[j] = Command("Remove", id)
                     PROVE  FALSE
        OBVIOUS
      <4>2. id < next_id
        BY <2>3, <4>1 DEF DriverInv, Commands
      <4> QED
        BY <1>1, <3>1, <4>2
    <3> QED
      BY <2>1, <2>2, <2>3, <3>2, <3>3, <3>4, WithdrawalComesFrom
  <2>5. CASE ~SubmitAnnounces
    <3>1. caller = "announced" /\ id = current
      BY <1>8, <2>1, <2>5, CallerStep DEF current
    <3>2. /\ id \notin Out /\ Known(id)
          /\ \A i \in DOMAIN cmds : cmds[i] # Command("Remove", id)
      BY <1>1, <3>1 DEF Operations, Known
    <3>3. ~(Removes /\ cmds # <<>> /\ Head(cmds) = Command("Remove", id))
      BY <3>2, TakenCommand DEF DriverInv, DriverTypeOK
    <3>4. Known(id)'
      BY <3>2, <3>3, KnownStep
    <3> QED
      BY <2>1, <2>2, <2>3, <3>2, <3>4, WithdrawalComesFrom
  <2> QED
    BY <2>4, <2>5
<1>9. caller' = "announced" =>
        /\ (current \notin Out)' /\ Known(current)'
        /\ \A i \in DOMAIN cmds' : cmds'[i] # Command("Remove", current')
  <2>1. PICK id : id = current'
    OBVIOUS
  <2> QED
    BY <1>8, <2>1 DEF Known
<1> QED
  BY <1>5, <1>6, <1>7, <1>9 DEF Operations

(***************************************************************************)
(* Work has a signal.                                                      *)
(***************************************************************************)
LEMMA WakeupsStep ==
  ASSUME DriverInv, [DriverNext]_vars
  PROVE  Wakeups'
<1>1. Wakeups /\ eventfd \in Nat
  BY DEF DriverInv, DriverTypeOK
<1>2. CASE Silent
  <2>1. UNCHANGED <<cmds, active, ring, event_queue>>
    BY <1>2, SilentMovesNothing
  <2>2. CASE SubmitWakes \/ WithdrawWakes \/ DropWakes
    <3>1. eventfd' > 0 /\ UNCHANGED thread
      BY <1>1, <2>2 DEF SubmitWakes, WithdrawWakes, DropWakes, threadVars
    <3> QED
      BY <1>1, <2>1, <3>1 DEF Wakeups
  <2>3. CASE DropCloses \/ UNCHANGED vars
    BY <1>1, <2>1, <2>3 DEF Wakeups, Signalling, DropCloses, threadVars, vars, callerVars
  <2>4. CASE ThreadWakes
    BY <2>4 DEF ThreadWakes, Wakeups
  <2>5. CASE CommandsDrained
    BY <2>5, <2>1 DEF CommandsDrained, Wakeups
  <2>6. CASE ForwardingStops
    BY <1>1, <2>1, <2>6 DEF ForwardingStops, Wakeups, Signalling, callerVars
  <2> QED
    BY <1>2, <2>2, <2>3, <2>4, <2>5, <2>6 DEF Silent
<1>3. CASE SubmitAnnounces
  BY <1>1, <1>3, AnnounceMoves DEF Wakeups, Signalling
<1>4. CASE KernelRefuses
  BY <1>1, <1>4, RefuseMoves DEF Wakeups, Signalling
<1>5. CASE DropCancels
  BY <1>1, <1>5, DropMoves DEF Wakeups, Signalling
<1>6. CASE Inserts
  BY <1>6, InsertMoves DEF Wakeups
<1>7. CASE Removes
  BY <1>7, RemoveMoves DEF Wakeups
<1>8. CASE CancelsAll
  BY <1>8, CancelMoves DEF Wakeups
<1>9. CASE KernelAccepts
  BY <1>1, <1>9, AcceptMoves DEF Wakeups, Signalling
<1>10. CASE try_completed
  BY <1>1, <1>10, HarvestMoves DEF Wakeups, Signalling
<1>11. CASE FetchEvents
  BY <1>1, <1>11, FetchMoves DEF Wakeups, Signalling
<1>12. CASE ForwardEvent
  <2>1. thread' = "forwarding" /\ thread = "forwarding"
        /\ UNCHANGED <<ring, cmds, eventfd, caller>>
    BY <1>12, ForwardMoves
  <2> QED
    BY <1>1, <2>1 DEF Wakeups, Signalling
<1>13. ASSUME NEW id \in inflight, KernelCompletes(id) PROVE Wakeups'
  <2>1. eventfd' > 0 /\ UNCHANGED <<event_queue, active, thread>>
    BY <1>1, <1>13, CompleteMoves
  <2> QED
    BY <1>1, <2>1 DEF Wakeups
<1> QED
  BY <1>2, <1>3, <1>4, <1>5, <1>6, <1>7, <1>8, <1>9, <1>10, <1>11, <1>12, <1>13, ChannelKinds

LEMMA DriverInitial ==
  ASSUME DriverInit
  PROVE  DriverInv
<1>1. /\ caller = "idle" /\ space = QueueLength /\ next_id = 0
      /\ cmds = <<>> /\ closed = FALSE /\ eventfd = 0
      /\ inflight = {} /\ cancelled = {} /\ ring = <<>>
      /\ thread = "waiting" /\ active = {} /\ event_queue = <<>> /\ done = <<>>
  BY DEF DriverInit
<1>2. Range(ring) = {} /\ Range(event_queue) = {} /\ Range(done) = {}
  BY <1>1 DEF Range
<1>3. IsInjective(ring) /\ IsInjective(event_queue) /\ DOMAIN cmds = {}
  BY <1>1 DEF IsInjective
<1>4. /\ Cardinality(inflight) = 0 /\ Len(ring) = 0 /\ Len(event_queue) = 0 /\ Len(done) = 0
  BY <1>1, FS_EmptySet
<1>5. DriverTypeOK
  <2>1. cmds \in Seq(Cmd) /\ ring \in Seq(Ids) /\ event_queue \in Seq(Ids) /\ done \in Seq(Ids)
    BY <1>1, EmptySeq
  <2>2. space \in 0 .. QueueLength /\ next_id \in 0 .. MaxOps /\ eventfd \in Nat
    BY <1>1, DriverAssumption
  <2> QED
    BY <1>1, <2>1, <2>2 DEF DriverTypeOK
<1>6. Commands /\ Operations /\ Wakeups
  BY <1>1, <1>2, <1>3 DEF Commands, Operations, Wakeups, Out, Fetching
<1>7. Distinct
  BY <1>1, <1>2, <1>3 DEF Distinct
<1>8. SpaceIsConserved
  BY <1>1, <1>4, DriverAssumption DEF SpaceIsConserved
<1> QED
  BY <1>1, <1>5, <1>6, <1>7, <1>8 DEF DriverInv, ThreadNeverPanics

(***************************************************************************)
(* The theorems.                                                           *)
(***************************************************************************)
\* The invariant holds in every state of the driver: the command channel, the
\* kernel's operations and the thread's map always agree.
THEOREM DriverConsistent == DriverSpec => []DriverInv
<1>1. DriverInit => DriverInv
  BY DriverInitial
<1>2. DriverInv /\ [DriverNext]_vars => DriverInv'
  <2>1. SUFFICES ASSUME DriverInv, [DriverNext]_vars PROVE DriverInv'
    OBVIOUS
  <2> QED
    BY <2>1, TypeStep, CommandsStep, OperationsStep, DistinctStep, WakeupsStep, SpaceStep
       DEF DriverInv
<1> QED
  BY <1>1, <1>2, PTL DEF DriverSpec

\* Every variable keeps its type; the free places stay within the queue.
THEOREM DriverTyped == DriverSpec => []DriverTypeOK
<1>1. DriverInv => DriverTypeOK
  BY DEF DriverInv
<1> QED
  BY <1>1, DriverConsistent, PTL

\* The driver thread meets neither of its two panics, a duplicate insertion
\* (handle_cmds, OpCmd::Insert) and an unknown removal (OpCmd::Remove),
\* whatever the order of submissions, refusals and completions.
THEOREM DriverNeverPanics == DriverSpec => []ThreadNeverPanics
<1>1. DriverInv => ThreadNeverPanics
  BY DEF DriverInv
<1> QED
  BY <1>1, DriverConsistent, PTL

\* Every place taken in the queue is an operation somewhere on its way: none
\* is lost and none is counted twice.
THEOREM DriverConservesSpace == DriverSpec => []SpaceIsConserved
<1>1. DriverInv => SpaceIsConserved
  BY DEF DriverInv
<1> QED
  BY <1>1, DriverConsistent, PTL

\* The thread never sleeps on work it could do: an event that waits in the
\* queue is one whose announcement is on the channel, and a channel that is
\* not empty has a signal.
THEOREM WakeupsNeverLost == DriverSpec => []NoLostWakeup
<1>1. DriverInv => NoLostWakeup
  <2>1. SUFFICES ASSUME DriverInv, thread = "waiting", eventfd = 0,
                        caller \in {"idle", "dropped"}
                 PROVE  cmds = <<>> /\ ring = <<>> /\ event_queue = <<>>
    BY DEF NoLostWakeup
  <2>2. cmds = <<>> /\ ring = <<>>
    BY <2>1 DEF DriverInv, Wakeups, Signalling
  <2>3. ASSUME event_queue # <<>> PROVE FALSE
    <3>1. Head(event_queue) \in Range(event_queue)
      BY <2>1, <2>3, TailRange DEF DriverInv, DriverTypeOK
    <3>2. Known(Head(event_queue))
      BY <2>1, <3>1 DEF DriverInv, Operations, Fetching
    <3>3. DOMAIN cmds = {}
      BY <2>2
    <3>4. Head(event_queue) \in active
      BY <3>2, <3>3 DEF Known
    <3> QED
      BY <2>1, <2>3, <3>4 DEF DriverInv, Wakeups
  <2> QED
    BY <2>2, <2>3
<1> QED
  BY <1>1, DriverConsistent, PTL

\* The stage of an operation, by where it is.
StageFollows(id) ==
  /\ id \in inflight => Stage(id) = "queued"
  /\ id \in Range(ring) \cup Range(event_queue) => Stage(id) = "landed"
  /\ id \in Range(done) => Stage(id) = "delivered"
  /\ id \notin Out => Stage(id) = "free"

LEMMA StageIs ==
  ASSUME Distinct, NEW id
  PROVE  StageFollows(id)
<1>1. /\ Held(ring, id) <=> id \in Range(ring)
      /\ Held(event_queue, id) <=> id \in Range(event_queue)
      /\ Held(done, id) <=> id \in Range(done)
  BY DEF Held, Range
<1>2. ASSUME id \in inflight PROVE Stage(id) = "queued"
  <2>1. ~Held(ring, id) /\ ~Held(event_queue, id) /\ ~Held(done, id)
    BY <1>1, <1>2 DEF Distinct
  <2> QED
    BY <1>2, <2>1 DEF Stage
<1>3. ASSUME id \in Range(ring) \cup Range(event_queue) PROVE Stage(id) = "landed"
  <2>1. id \notin inflight /\ ~Held(done, id) /\ (Held(ring, id) \/ Held(event_queue, id))
    BY <1>1, <1>3 DEF Distinct
  <2> QED
    BY <2>1 DEF Stage
<1>4. ASSUME id \in Range(done) PROVE Stage(id) = "delivered"
  <2>1. /\ id \notin inflight /\ ~Held(ring, id) /\ ~Held(event_queue, id) /\ Held(done, id)
    BY <1>1, <1>4 DEF Distinct
  <2> QED
    BY <2>1 DEF Stage
<1>5. ASSUME id \notin Out PROVE Stage(id) = "free"
  <2>1. /\ id \notin inflight /\ ~Held(ring, id) /\ ~Held(event_queue, id) /\ ~Held(done, id)
    BY <1>1, <1>5 DEF Out, Fetching
  <2> QED
    BY <2>1 DEF Stage
<1> QED
  BY <1>2, <1>3, <1>4, <1>5 DEF StageFollows

\* The same after a step.
LEMMA StageAfter ==
  ASSUME NEW id
  PROVE  Distinct' => StageFollows(id)'
<1>1. Distinct => StageFollows(id)
  BY StageIs
<1> QED
  BY <1>1, PTL

\* An operation moves on by one stage of the AIO slot, or by the two io_cancel
\* does at once.
LEMMA StageStep ==
  ASSUME DriverInv, [DriverNext]_vars, NEW id, Stage(id)' # Stage(id)
  PROVE  <<Stage(id), Stage(id)'>> \in SlotSteps
<1>1. Distinct /\ StageFollows(id) /\ StageFollows(id)'
  BY StageIs, StageAfter, DistinctStep DEF DriverInv
<1>2. \/ Stage(id) = "free" /\ Stage(id)' = "queued"
      \/ Stage(id) = "queued" /\ Stage(id)' = "landed"
      \/ Stage(id) = "landed" /\ Stage(id)' = "delivered"
      \/ Stage(id) = "delivered" /\ Stage(id)' = "free"
      \/ Stage(id) = "queued" /\ Stage(id)' = "delivered"
  <2>1. CASE Quiet
    BY <2>1, QuietMovesNothing DEF Stage
  <2>2. CASE KernelAccepts
    <3>1. /\ current \notin Out /\ inflight' = inflight \cup {current}
          /\ UNCHANGED <<ring, event_queue, done>>
      BY <2>2, AcceptMoves
    <3> QED
      BY <1>1, <3>1 DEF StageFollows, Out, Fetching
  <2>3. CASE try_completed
    <3>1. /\ Range(done) = {Head(done)} \cup Range(done')
          /\ UNCHANGED <<inflight, ring, event_queue>>
      BY <2>3, HarvestMoves
    <3> QED
      BY <1>1, <3>1 DEF StageFollows, Out, Fetching, Distinct
  <2>4. CASE \E e \in inflight : KernelCompletes(e)
    <3>1. PICK e \in inflight : KernelCompletes(e)
      BY <2>4
    <3>2. /\ inflight' = inflight \ {e} /\ Range(ring') = Range(ring) \cup {e}
          /\ UNCHANGED <<event_queue, done>>
      BY <3>1, CompleteMoves
    <3> QED
      BY <1>1, <3>2 DEF StageFollows, Out, Fetching
  <2>5. CASE FetchEvents
    <3>1. /\ Range(event_queue') = Range(event_queue) \cup Range(ring) /\ Range(ring') = {}
          /\ UNCHANGED <<inflight, done>>
      BY <2>5, FetchMoves
    <3> QED
      BY <1>1, <3>1 DEF StageFollows, Out, Fetching
  <2>6. CASE ForwardEvent
    <3>1. PICK e \in Ids :
            /\ e \in Range(event_queue) /\ Range(done') = Range(done) \cup {e}
            /\ Range(event_queue') = Range(event_queue) \ {e}
            /\ UNCHANGED <<inflight, ring>>
      BY <2>6, ForwardMoves
    <3> QED
      BY <1>1, <3>1 DEF StageFollows, Out, Fetching
  <2>7. CASE CancelsAll
    <3>1. PICK now \in SUBSET (active \cap inflight) :
            /\ inflight' = inflight \ now /\ Range(done') = Range(done) \cup now
            /\ UNCHANGED <<ring, event_queue>>
      BY <2>7, CancelMoves
    <3> QED
      BY <1>1, <3>1 DEF StageFollows, Out, Fetching
  <2> QED
    BY <2>1, <2>2, <2>3, <2>4, <2>5, <2>6, <2>7, StepKinds
<1> QED
  BY <1>2 DEF SlotSteps

\* An operation that enters the kernel finds a place in the queue.
LEMMA EntersWithSpace ==
  ASSUME DriverInv, [DriverNext]_vars
  PROVE  inflight' \subseteq inflight \/ space > 0
<1>1. CASE KernelAccepts
  BY <1>1, AcceptMoves DEF DriverInv, Operations
<1>2. CASE ~KernelAccepts
  BY <1>2, StepKinds, QuietMovesNothing, HarvestMoves, CompleteMoves, FetchMoves,
     ForwardMoves, CancelMoves
<1> QED
  BY <1>1, <1>2

\* An operation passes through the stages of FunctionFs's AIO slot in their
\* order and enters only a queue with a free place: with a queue of one place
\* this is the one-slot picture the receive loop rests on.
THEOREM SlotOrderKept == DriverSpec => SlotOrder
<1>1. DriverInv /\ [DriverNext]_vars =>
        [ /\ \A id \in Ids : Stage(id)' # Stage(id) =>
                               (<<Stage(id), Stage(id)'>> \in SlotSteps)
          /\ inflight' \subseteq inflight \/ space > 0 ]_vars
  BY StageStep, EntersWithSpace
<1> QED
  BY <1>1, DriverConsistent, PTL DEF DriverSpec, SlotOrder
=============================================================================
