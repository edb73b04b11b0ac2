# A TLA+ verification of gud-gadget

gud-gadget turns a Linux board into a USB display. The daemon `gud-drm`
(`drm/src/main.rs`) speaks the GUD protocol over FunctionFS (`gadget/src/lib.rs`),
receives frame rectangles on a bulk-OUT endpoint through Linux AIO
(`vendor/usb-gadget`), and paints them on a DRM scanout. A second daemon,
`viewerd`, publishes the frames to a GTK viewer instead.

This directory models the receive path, its protocol, the display modes and what ends
up on the panel, and the viewer with its daemon; it checks the models with TLC and
proves their main invariants with TLAPS.

## Inventory

| part | state | operations | interacts with | hard behaviour | correct when |
| --- | --- | --- | --- | --- | --- |
| EP0 protocol state (`gadget/src/lib.rs`, statics behind mutexes) | status latch, pending and committed display state, enables, connector flag, activation generation | one arm of `event()` per request or FunctionFS event | called by the event loop; read by validation and presentation | requests in any order, resets by lifecycle events | a display is enabled only over a committed mode; commits move forward; every latched error can be cleared |
| `validate_buffer_request` | none | admits a rectangle | before every receive | u32 sums that wrap | an admitted rectangle lies inside the mode, the read it arms is bounded |
| exact AIO transaction (`ExactAioTransaction`) | state, sequence, operation, epoch, generation, status flag | begin_arm, accepted, rejected, status_sent, completion, finish, poison, retire, new epoch | AIO driver below, event loop above | completions of an older generation, refused submissions | never accepts a completion that is not its own |
| daemon session (`BulkReceiveSession`), admission guard, cleanup drain, `classify_usb_lifecycle` | state and epoch; guard; drain phase; USB session | begin, finish, poison, retire, classify | mirrors the transaction | two records of one ownership | both always agree; the guard follows them |
| event loop (`main`) | pending receive, ready payload, epoch boundary, shutdown flag | one iteration: retire, leave, harvest, poll, dispatch | all of the above, kernel, signals, clock | every interleaving of host, kernel, completion thread, deadline and SIGTERM | no stale frame shown, nothing torn down while the kernel owns a buffer, everything eventually resolved |
| presentation (`VisibleSurface`, `ShadowFramebuffer`, front and back buffers) | what is visible, which buffer is front, the shadow, the route | present waiting, commit a route, process direct or scaled, first content, suspend, resume | event loop, scanout pool, DRM | failing flips, partial updates in a new session, mode changes in flight | never paints the buffer the CRTC is set to, shows an earlier session only in known ways |
| AIO driver (`vendor/usb-gadget/.../aio/mod.rs`) | free places, command channel, eventfd, active operations, event queue, completion channel | submit, try_completed, drop; the driver thread | kernel AIO | two threads and the kernel | no panic, no lost wake-up, every completion delivered |
| FunctionFS, USB host (external) | event queue, endpoint, host driver | enable, disable, suspend, requests, bulk data | the daemon | events coalesce; the host may be impatient or arbitrary | – |
| dynamic modes and scanout pool (`scanout.rs`, `modes.rs`, the STATE_CHECK and STATE_COMMIT arms of `main`) | catalog of routes; pending plan, failed routes, current key; three slots, candidate, waiting scanout; CRTC | plan and stage at STATE_CHECK; switch, return or keep at STATE_COMMIT; release, replace the waiting scanout | protocol events, presentation, DRM | a check and its commit with anything in between; every DRM call may fail half way, a removal may be refused; an asynchronous flip | the CRTC never scans out a removed framebuffer, a plan can be carried out, nothing leaks, a failed route is not tried again |
| gadget shutdown handshake (`GadgetShutdown`) | unbind target, flags | publish, request, clear | – | none: one thread, one order | not modelled |
| viewer daemon (`viewerd`), IPC (`viewer-ipc`), GTK viewer (`viewer-gtk`) | session, shared file, clients; mapping, `waiting_sent`; page and picture | request arms, publish, broadcast, accept; connect, read, convert; show | two processes, three threads, a socket and a shared file | a file resized under a mapping, messages read late, slow viewers, restarts and signals | a viewer that has caught up shows the newest frame, nobody waits for ever, no frozen picture |
| pixel loops, start-up, configfs | – | – | – | – | not modelled: pure data or sequential I/O |

`PROJECT.json` lists the hazards with their lines, and the map from every definition
to the code it stands for.

## Modules

| module | models |
| --- | --- |
| `GudProtocol` | the protocol record `gud`: an operator per helper of `lib.rs`, an action per request or event |
| `BufferGeometry` | the arithmetic of `validate_buffer_request`, parameterised by the word size |
| `ExactAio`, `BulkSession` | the two ownership records, guard, drain and lifecycle classification, as operators from record to record |
| `FunctionFs` | external: the kernel's four-entry event queue with its coalescing, and the AIO slot |
| `ReceiveLoop` | the event loop composed of the five modules above with kernel, bus, clock, signal handler and host |
| `ReceiveOwnership` | the abstract specification: one buffer lent, filled, shown, contained, reclaimed, closed |
| `RouteCatalog` | `modes.rs`: keys, masking, the catalog of advertised modes and their routes |
| `ScanoutPool` | which framebuffers exist and which one is scanned out; extends `RouteCatalog` |
| `ScanoutContract` | the abstract specification of a scanout that moves with committed modes; `ScanoutPool` implements it, `Presentation` is built on it |
| `Presentation` | what the panel shows; extends `ScanoutContract` |
| `AioDriver` | the driver behind `FunctionFs`'s AIO slot |
| `Viewer` | viewer daemon, messages, socket thread and UI thread |
| `GudProtocolProofs`, `BufferGeometryProofs`, `ReceiveLoopProofs`, `ProductionProofs`, `PresentationProofs`, `ScanoutPoolProofs`, `AioDriverProofs`, `ViewerProofs` | theorems |
| `MC*` | instances for TLC |

### The event loop

An iteration is two steps, because the only place where another actor can matter is
between reading the AIO slot and polling EP0. From `pc = "top"` the loop retires a
destroyed epoch (`RetireEpoch`), leaves (`LeaveLoop`, `DrainTimesOut`) or harvests
(`HarvestPayload`, `HarvestRejected`, `MissDeadline`, `NothingToHarvest`); from
`pc = "poll"` it takes one EP0 event or processes a ready payload. Every `?`,
`continue`, `break 'event_loop` and `return Err` of the modelled paths is an action or
a disjunct: `pc = "failed"` is an error returned from `main`, `"cleanup"` the code
after the loop, `"exited"` and `"suppressed"` the two outcomes of its gate. The
variables carry the names of the code where there is one: `pending` is
`pending_exact_receive`, `ready` is `ready_exact_payload`, `boundary` is
`pending_epoch_boundary`, `drain` is `status_on_set_cleanup_drain`.

The payload is reduced to "has the expected length or not", EP0 requests to their
kind; validity of a request's contents is a choice. `aio` is the single AIO slot of the
endpoint: free, queued, landed in the kernel, delivered by the driver thread.
Disabling the endpoint completes a queued request with an error.

`TransactionLimit = 0` is production; 1 and 2 are the bounded STATUS_ON_SET
diagnostic.

### Scanout pool

Physical mode routing is always on (`physical_mode_routing_enabled`, main.rs:2334), so
this is the production path. `pool` is the `ScanoutManager` (slots, active slot,
candidate, waiting scanout, byte counters), `routes` the `DynamicRouteState`, `crtc`
the framebuffer the CRTC was set to together with the one it still scans out until the
vertical blank. Each plan kind has its commit; a failing call ends an action at the
point where the code returns, and `running = FALSE` is an error returned from `main`.
Frames appear as what they do to the pool (replace the waiting scanout, flip); the
receive path is reduced to idle, owned and contained, which is all the arms look at.
A generation is never compared for anything but equality with the pending snapshot, so
a plan keeps only whether it is `fresh`. `pool.objects` counts the DRM objects in the
kernel, and `pool.refusals` the ones it refused to remove.

### Presentation

`Presentation` extends `ScanoutContract` and conjoins its steps with what a commit does
to the buffers, the shadow and the route; `pool` shows that the real scanout moves in
no other way. One USB session, any one, is watched: a raster is reduced to whether it
holds traces of that session, which is exact for "nothing of an earlier session" and
needs no bound on sessions. The committed mode is looked up again when a frame is
processed, as the code does; a frame that meets another size than it was made for lands
on any set of pixels. `screen` is the buffer the CRTC is set to, `visible_surface` what
the daemon believes. `blemishes` records the four events after which an earlier
session may be seen.

### Viewer

The daemon's Buffer arm is four steps (truncate, resize and announce, receive,
publish), because the viewer may look at the file between any two. The socket thread's
conversion has a beginning and an end, and in between the file may be painted or
truncated. A daemon that fails is restarted by its service, one that was stopped is
not; messages in a socket outlive the process that sent them. One viewer is enough:
viewers share nothing but the daemon, which serves them in turn.

### AIO driver

`submit` is three steps (announce, io_submit, signal) and `drop` three (command,
signal, close), interleaved with the kernel and with the driver thread's four phases.
`SlotOrder` ties it to `FunctionFs`: a one-place driver goes through the stages of the
slot and no others.

## Runs

| run | specification and bounds | shows |
| --- | --- | --- |
| `paced` | paced host, 2 frames, 2 enumerations, 2 STATE_CHECKs; 1.6 M states | all production safety properties and the refinement of `ReceiveOwnership` |
| `paced_live` | paced host, 1 frame, 2 enumerations, fair | boundaries retire, receives resolve, shutdown resolves |
| `any_host` | arbitrary host, all requests, 1 frame, 2 enumerations; 1.6 M states | freshness does not rest on the host's manners |
| `diagnostic` | limit 1, 2 frames, 2 enumerations; 1.8 M states | bounded diagnostic |
| `geometry` | word size 16, mode size 4 | wrapping sums |
| `pool` | three connectors, 2 refused removals; 62 000 states | plans, switches, releases and accounting; the refinement of `ScanoutContract` |
| `presentation` | 2 physical modes, 1 scaled, failing display; 2.7 M states | buffers, `visible_surface`, nothing stale but in the four named ways |
| `aio_driver` | 2 places, 3 operations, fair | thread safety, the slot abstraction, delivery, drop |
| `viewer` | 2 frame sizes, 2 frames a session, socket of 2 messages, fair; 870 000 states | what is shown, mappings, progress of daemon and viewer |

Three further runs expect a violation; each is a disagreement between the code and a
comment or runbook of the repository, quoted under `findings` in `PROJECT.json`:

- `contained_payload`: a frame that was ready when a rejected request contained the
  session is shown, and `main` returns out of the contained state past the gate;
- `lost_harvest`: an error as the first status after an arm forgets the receive with
  its request in the kernel, and EP0 is held for ever after the next boundary;
- `scaled_exposure`: in a scaled mode the first partial update of a session shows
  regions of the session before.

Met on the way and without a run of their own; but for the first two they are outside
production or not a fault by themselves:

- `arm_exact_payload_aio` latches ERROR only when the submission itself fails
  (lib.rs:1950-1954). A payload over 64 MiB (lib.rs:240-243), which
  `validate_buffer_request` and the advertised `max_buffer_size` allow for a large
  enough mode, and a buffer of the wrong capacity (lib.rs:1935-1941) are refused with
  nothing latched. main.rs:4699 then logs "Exact FunctionFS AIO submission was rejected;
  GET_STATUS will report an error", but GET_STATUS answers the status of the request
  before, OK after a STATE_COMMIT, and the host sends its payload to an endpoint where
  nothing is armed. `ArmRefusedSilently` models it, and `OkMeansArmed` without its
  condition on `host.unarmed` is violated by it within 34 steps;
- a SET_BUFFER whose data stage is complete but whose bytes cannot be parsed returns an
  error from `event` with nothing latched (lib.rs:1581), so its GET_STATUS answers the
  status of the request before; every other malformed SET latches INVALID_PARAMETER;
- the last transaction of the diagnostic leaves the loop before
  `status_on_set_cleanup_drain = None` (main.rs:3887, 5395), so the gate suppresses
  the teardown of an idle path;
- a refused submission of the diagnostic uses up an endpoint sequence, and the
  `ensure!` at main.rs:4729 then ends the process with an accepted request;
- after a finished diagnostic transaction a terminal USB event retires an idle
  transaction, which fails (main.rs:3453);
- SUSPEND preserves an owned receive (`classify_usb_lifecycle`), where
  docs/e1-t05-lifecycle-matrix-runbook.md:129 says "Contain";
- with an owned receive the lifecycle arms `continue` before the pending plan is
  invalidated (main.rs:3733-3740): candidate and plan survive the event, while
  docs/XDISP-P2.1-DYNAMIC-MODE-MATCHING-TEST.md:279 lists "lifecycle clearing of
  pending candidates". The plan can no longer match, and the next STATE_CHECK or
  commit releases the candidate, as `PlanFitsPool` and `NoOrphanSlot` show;
- a removal refused during a commit is an error of the arm (`?`) and ends the daemon;
- `ensure_waiting_mode` makes the replacement before it removes the old waiting
  buffer, and so exceeds `logical_memory_estimate` by one buffer for a moment;
- a return to the baseline shows whatever its buffers held when it was last active,
  until the next frame;
- `is_full_frame_update` compares with the mode looked up again, which after a SUSPEND
  is the panel's own size and not the one the frame was made for;
- `page_flip` returns before the vertical blank and nobody waits for it
  (main.rs:1210-1214), so a second scaled frame within one refresh paints the buffer
  that is still scanned out; docs/WORKING_DRIVER_EXECUTION_PLAN.md:26 takes double
  buffering for the complete fix;
- viewerd handles SIGINT only (`ctrlc` without the "termination" feature,
  viewerd/Cargo.toml:8): a stopped service says no farewell. The viewer then goes back
  to its waiting page by itself, except when that connection was told of a disconnect
  before its first frame: `waiting_sent` is still set, and the last frame stays;
- a mode change or a daemon restart truncates the shared file under the viewer's
  mapping, and a conversion under way is killed by SIGBUS;
- a viewer process that is stopped fills its socket, and the blocking broadcast then
  holds EP0; the legacy payload read of viewerd blocks without a time limit;
- `?` in viewerd's Buffer arm ends the daemon without a message to the viewers;
- a viewer that cannot open the shared file keeps the mapping of the session before.

The second and third are why `NoAbandonedAio` and `BoundaryNeverFails` are stated of
production only. The viewer's exceptions are stated in its properties (`resized`,
`told`, `unmapped`).

### Bounds

`MaxActivation`, `MaxGeneration`, `MaxSequence` and `MaxOps` bound the environment
(enumerations, STATE_CHECKs, frames, submissions), never what the code does with them.
Two enumerations give an old and a new endpoint generation, two frames a transaction
that starts from the state an earlier one left; a third of either adds no new relation,
because the code compares only the current value with the one recorded. One mode is
enough in the loop, which never looks at modes; `pool` and `presentation` use more. The
theorems hold for every bound. `MCReceiveLoop` restricts the host of the large runs to
the requests that matter for a frame (`FrameRequests`); `any_host` uses all of them.
The EP0 queue's four places are never exceeded (`EventsNeverOverflow`).

The connectors of `pool` have up to three modes, a duplicate under masked flags and a
preferred mode that is not the first, so that switches between two slots, returns and
every plan kind happen; `MaxRefusals = 2` lets a release be refused twice, and each
refusal beyond the first only adds to the count. `presentation` has no bound besides
its modes. In `viewer`, `QueueLimit = 2` is the smallest socket that holds the greeting
of a session, so the daemon blocks as early as it can; `MaxFrames = 2` tells the newest
frame from the one before, and `MaxEvents = 1` makes the UI thread hold up the socket
thread, which its real channel never does: that only makes the viewer slower.

`CHECK_DEADLOCK FALSE` is used where the system may stop: the AIO driver after a drop,
and pool and presentation after the daemon has ended. The loop has the explicit step
`Ended`, and the viewer can always be launched.

### Fairness

`FairSpec` assumes weak fairness of `Loop` (a single thread that never blocks for more
than its poll timeout), of `AioDelivered` (the driver thread; `aio_driver` shows that
it delivers) and of `DeadlinePasses` (time). Nothing is assumed of the host, the bus or the
user. `ShutdownResolves` is conditional on EP0 falling quiet, because the code serves
EP0 before a ready payload. `FairDriverSpec` assumes that the driver thread runs, that
a call of the daemon returns and that the kernel completes an operation it has been
asked to cancel; it does not assume that any other operation ends. `Viewer`'s `Spec`
assumes that a broadcast with room in the socket goes on, that the viewer's two threads
run and that a failed connection is tried again (every second, viewer-gtk); nothing is
assumed of the host, the payload, the service, signals or the user. It does not even
assume that the daemon's loop accepts.

## Proofs

| module | theorems | assumptions beyond the named ASSUMEs |
| --- | --- | --- |
| `GudProtocolProofs` | `ProtocolSafe`, `CommitsForward` | – |
| `BufferGeometryProofs` | `AdmittedRectanglesFit`, `AdmittedReadsAreBounded` | – |
| `ReceiveLoopProofs` | `TypesHold`, `LayersAlwaysAgree`, `BooksAlwaysBalance`, `ContainmentIsHeld`, `EventsNeverOverflow`, `DiagnosticIsBounded`, `GuardOutlastsDrain` | – |
| `ProductionProofs` | `GuardAlwaysFollows`, `BoundariesNeverFail`, `AioNeverAbandoned`, `LoopImplementsOwnership`, `PayloadsAlwaysFresh` | `TransactionLimit = 0` |
| | `OkAlwaysMeansArmed`, `HarvesterNeverLost` | `TransactionLimit = 0`, `HostKind = "paced"` |
| `PresentationProofs` | `ContentIsAlwaysFront`, `SurfaceAlwaysTellsTruth`, `StaleContentStaysHidden` | – |
| `ScanoutPoolProofs` | `ScanoutAlwaysLive`, `PlansAlwaysFit`, `CurrentKeyIsActive`, `SlotsNeverOrphaned`, `ObjectsAlwaysAccounted`, `FailuresAreRemembered`, `ChecksArePlanned`, `PoolImplementsContract` | – |
| `AioDriverProofs` | `DriverNeverPanics`, `WakeupsNeverLost`, `DriverConservesSpace`, `SlotOrderKept` | – |
| `ViewerProofs` | `ViewersCatchUp`, `SameModeStaysSafe` | – |

*Geometry.* A sum that wraps passes the code's comparisons, so containment does not
follow from them alone: a wrapped sum needs a width or height close to the word size,
and then width x height x bytes per pixel cannot equal a length that fits in a word.
That needs `2 * ModeSize <= WordSize`, true of u16 extents and u32 words.

*Receive loop.* `LayersAgree` and `BooksBalance` are inductive only together, and with
`PathFacts`: nobody is left in Arming, an unowned path records no operation, the AIO
slot is free unless a request is in flight or contained, and only a finished process is
ShuttingDown. `LoopInv` adds the types of the control state and of the bus and the
well-formedness of the protocol record. The step lemma has one case per action.

*Event queue.* `QueueOrder` says that an event in front of another is one that survives
the other's arrival. Hence the queue holds at most one request, one session event and
one of each power event, and four places suffice. `QueueInv` adds that no request
outlives the link it came over. Neither needs anything of the host or the mode.

*Production.* With limit 0 no drain is ever created. `ProductionInv` says so, that the
guard follows ownership, that an open boundary meets a contained session, that a
contained USB session means a poisoned path, and that activation, boundary and epoch
are ordered (`EpochsOrdered`). From these the retirement can never fail, and each step
maps to a step of `ReceiveOwnership`, with `owner` read off the session and `lent` off
the AIO slot.

*Fresh payloads.* A payload is processed only when the poll came back empty, so what
matters is what an empty queue tells. `FreshInv`: while no boundary is open, the path is
in the epoch of the newest ENABLE the loop has seen, and while it is owned over a link
that is down, the session event that says so is still queued. A ready payload is one
whose status was sent. The host is arbitrary.

*Paced host.* The two remaining properties are false of an arbitrary host
(`lost_harvest`). `Manners` is about host and bus alone: a request under way is the last
event of the queue, a SET that was served leaves the queue empty until its GET_STATUS, a
host has either a SET_BUFFER or a payload under way and never both, and one whose link
is down is silent. `Promises` ties this to the receive path: an armed transaction waits
for a status only while that status is going to be OK or the session is going down, and
a host that was told OK has its payload taken, unless its SET_BUFFER was dropped with
nothing latched. The host's record notes that drop (`unarmed`), because
nothing in the daemon does: `OkMeansArmed` says that the two silent error paths are the
only ones on which OK is a false promise. An arm whose first status is an error is
thereby unreachable, which is what keeps the harvester.

*Diagnostic.* `DiagnosticInv` says that the guard counts the requests the kernel has
accepted, that no drain exists in production, where the guard is released without
one, and `DrainKeepsGuard` itself. The run uses a limit of one, because a request
beyond a limit of two needs a third frame after a second enumeration and takes TLC
twice as long; the theorems hold for both limits.

*Presentation.* The theorems hold for any modes, sizes and display failures.
`ContentIsFront` is inductive with the types (`Buffering`): a switch moves `screen`,
slot and front together or not at all. `TruthInv` adds `SurfaceTellsTruth`. `StaleInv`
strengthens `StaleOnlyIfBlemished` to what may be shown next: while nothing has gone
wrong, content that is visible or comes back with a RESUME has no traces of an earlier
session in its front buffer (`FrontIsFresh`), a valid shadow under it has none either
(`ShadowIsFresh`), and a direct route has no valid shadow (`DirectHasNoShadow`).

*Scanout pool.* The theorems hold for every connector and every choice of failing DRM
calls. `PoolInv` has the accounting of objects and bytes, which holds even while the
daemon is failing, and, while it runs: which slots are occupied (`Roles`), that the
active slot and the remembered candidate were made for the mode the catalog routes their
key to, that a fresh plan can count on the slot it names (`PlanFits`), that the CRTC
shows the active slot or the waiting scanout, and that an accepted check is planned.
`KeyFollowsSlot` is not inductive without the canonical modes: two connector modes may
have the same key, and only the first is routed. With `PoolInv`, each step is a step of
`ScanoutContract`, on which the proofs about `Presentation` rest.

*AIO driver.* The theorems hold for a queue of any length and any number of operations.
`DriverInv` says what may be on the command channel (an operation is announced once and
withdrawn at most once, later, and only if the kernel never had it), that the thread
knows or will know every operation the kernel has, that an operation is at one place,
and that work the thread has not seen has a signal or a caller about to give one.

*Viewer.* The theorems hold for any frame sizes, socket buffer, number of frames and
lag of the UI thread. `CaughtUp` speaks of empty queues, so its invariant says what the
last thing in each queue is. Without a session the last message is the disconnect, and
when it has been read the last event is Waiting or the waiting page is up
(`HearsOfTheEnd`). With one, the client has mapped it, or its announcement is queued
with nothing but frames behind it (`MapsSession`), and at the top of the daemon's loop
the newest frame is announced, being converted, on the channel or shown (`SeesNewest`).
While the daemon is resizing neither is claimed: whatever the viewer maps or converts
then is superseded by the announcement that follows. `FileFollowsSession` is what makes
a mapping made late a good one, and `Mapping` gives `SameModeIsSafe`: a mapping that was
whole stays whole until the file is resized.

Every invariant and every safety action property of the passing runs is stated by a
theorem. Model-checked only is liveness (`BoundaryRetires`, `ReceiveResolves`,
`ShutdownResolves`, `CompletionDelivered`, `DropReturnsBuffers`, `BroadcastEnds`,
`NoFrozenFrame`), which is outside the prover.

## Not modelled

- the prearm test mode, the legacy blocking read path and the test-only Processing
  barrier of the loop;
- `GadgetShutdown`: publish, request and clear are called by one thread in one order,
  and only tests call them otherwise;
- start-up, environment variables, file ownership and configfs;
- the sizes behind the refusals of `arm_exact_payload_aio`: any admissible SET_BUFFER
  may be refused, before the sequence number is taken or after;
- the conflict branch for a SET_BUFFER over an owned receive: the admission guard
  refuses it before the loop sees it;
- an `io_submit` that blocks on a disabled endpoint;
- test patterns, telemetry, logging, CRCs, pixel conversion (also the viewer's) and
  scaling.

## Plan

1. (done) protocol, geometry, receive loop with its abstract specification,
   presentation, AIO driver, and their first theorems.
2. (done) viewer daemon and viewer.
3. (done) dynamic modes: catalog, plans, pool, and the contract that ties them to
   `Presentation`.
4. (done) proofs: the event queue, fresh payloads and the paced host; the safety of
   `AioDriver`; `ScanoutPool` and its refinement of `ScanoutContract`; `Viewer`.
5. Pure algorithms against reference definitions: scale layout, chunked reads, mode
   derivation.
