# NeoRuntime SDK: a TLA+ verification project

The SDK connects an application on an AI camera to the daemons of the device:
the camera daemon (frames lent as dma-bufs over Unix sockets, frame injection,
overlay, a DSP plane), the AI runtime (inference over gRPC) and an event bus.
There is a C++ library (`cpp/`) and the Python library it is a port of
(`python/`). This project models the C++ library: the parts that own threads,
locks, queues, sockets or buffers somebody must give back, the calls that change
a daemon's settings, and the geometry, overlay and detection algorithms. Paths
below are relative to `src/`.

- [Inventory](#inventory)
- [Modules and how they correspond to the code](#modules-and-how-they-correspond-to-the-code)
- [Runs](#runs)
- [Fairness](#fairness)
- [What is proved](#what-is-proved)
- [Findings](#findings) and [Observations](#observations)
- [What is not modelled](#what-is-not-modelled)
- [Plan](#plan)

## Inventory

| Component | State it keeps | Operations | Talks to | What is hard | What makes it correct |
|---|---|---|---|---|---|
| `PipelineRunner` (`cpp/src/runner.cpp`) | latest-wins `FrameQueue`, `stop_flag_`, counters, captured results | `start`, `stop`, destructor, `take_last_results`; reader and worker loops | a frame source, an `InferencePipeline`, a sink | three threads, two kinds of sentinel, eviction, drain, joins | each frame's handle released exactly once, in order; the end is always seen; nothing held after destruction |
| `InferenceStream` (`cpp/src/inference.cpp`, `detail/subscribe_health.hpp`) | drop-oldest queue, `dropped_`, `ended_`, failure count, `cancel_once` | `next`, `cancel`, `close`, destructor; the pump | the AI runtime's server stream | `cancel()` from any thread against the pump's own terminal item | losses counted, one final verdict, the right one; a blocked `next()` wakes |
| `StreamPipeline` (`cpp/src/stream_pipeline.cpp`) | result queue, `started_`, `stopped_`, `running_`, overlay state, owned clients | `start`, `stop` (application, destructor, hook), `next_result`; the worker | `InferenceStream`, the camera's overlay | `stop()` on the worker's own thread, teardown order | every result accounted for, end marker never lost, nothing drawn after an application's stop |
| `FramePublisher` (`cpp/src/injection.cpp`, `detail/injection_logic.hpp`) | slot cursor, write lease, `in_flight_`, NV12 stage, `eos_sent_` | `publish`, `acquire_slot`/`push_slot`, `publish_rgb`, `publish_stream`, `publish_eos`, `close` | the camera daemon, which reads the same memory | the answer that says which slots are busy can be lost or stale | no buffer is rewritten while the daemon may read it; a wait for a slot ends |
| `FrameHandle`, `FrameRetainer` (`cpp/src/media/frame.cpp`, `fd_media_client.cpp`) | `closed_`, weak entries behind `retained_mu` | copy, drop, `release`, `retained_frames`, the release half of `close` | the release closure of a retained frame | destructors run by whoever drops the last reference, under whatever lock is held | one RELEASE per frame, none forgotten, no hang |
| `FdMediaClient`, `FdMediaStream` (`cpp/src/media/fd_media_client.cpp`) | `streams_`, `StreamSock`s, reconnect budget, decimation count | `subscribe`, `next`, `get_frame`, `close` | the camera daemon | `sock->fd` read outside its mutex, reused descriptor numbers, drops by other readers | no orphan connection, every loan accounted for, no RELEASE on the wrong connection |
| `AccelRouter` and the resident dispatch (`cpp/src/accel.cpp`, `detail/dsp_dispatch.hpp`) | legs, policy, counters; `shared`, `owned`, `retired`, users | `run`, `set_policy`, `probe`; `shared_dsp_call` | `DspClient` | retiring a client that other threads are inside | nothing closed or destroyed beneath a call, everything retired closed in the end, policy honoured |
| `DspClient`, pools, imports, jobs, refs (`cpp/src/dsp.cpp`) | socket, `live_pools`, owned lists | every `*_hw` call, `wait`, `done`, `release`, `close` | the camera daemon's DSP plane | late and lost answers, partial failure between two acquisitions | each buffer has one keeper, is returned once, not under a running job |
| `EncodedStreamClient`, `SeqTracker` (`cpp/src/media/encoded_stream_client.cpp`) | a socket and a reconnect budget per stream, the client's cached socket, one shared `SeqTracker` | `next`, `get_frame`, `on_frame`, `close` | the encoded-stream publisher | reconnects, a publisher that restarts, readers that share `last_seq` | every packet counted once, a hole counted exactly when there is one |
| `AudioStreamClient` (`cpp/src/audio_stream.cpp`) | one descriptor, `closed` | `get_frame`, `next_frame`, `on_frame`, `close` | the audio daemon | header and payload are read from the descriptor without the mutex; a failed read may have taken a part | a frame is one message; a socket is never lost |
| `EventClient` (`cpp/src/events.cpp`) | `running`, a detached thread per handler | `publish`, `publish_batch`, `subscribe`, `on_event`, `unsubscribe`, `close` | event bus | a blocking `Read` that `close()` does not cancel; a batch that ends half-way | at most one late callback; a batch that returns was taken whole |
| `PluginDiscovery` (`cpp/src/plugin.cpp`) | cached document, its mtime, a watcher thread | `reload`, `require`, `watch`, `close` | `discovery.json` | document and mtime are read apart; `close()` from a callback | the cache follows the file; the watcher does not end the process |
| `InferencePipeline` (`cpp/src/pipeline.cpp`) | the device buffer of a pass | `run`, `run_async`, result release | inference, DSP | the buffer moves from call to closure to result while anything may throw | released exactly once, after the daemon is done with it |
| `CameraClient`, `DeviceClient`, `AudioClient`, `AppClient`, `OverlayClient`, management calls of inference and events | a lazy channel | some 120 RPCs; `set_privacy_mask`, `oneshot_autofocus`, `restart_app` take several | their daemon, other clients of it | partial updates, lost and refused requests, sequences that stop half-way | no field set by somebody else is lost, a sequence puts back what it switched |
| `Frame::crop`, `resize`, `Preprocessor` (`cpp/src/media/frame.cpp`, `detail/geometry.hpp`, `preprocess.cpp`) | the transform in a frame's metadata | crop, resize on two legs, preprocessing | | rounding, even chroma, chains of steps | the transform says where every pixel came from |
| Overlay rendering (`cpp/src/draw.cpp`) | none; extents within a call | `render_overlay_rgba`, `render_overlay_fragments` | the DSP's blend | frame edges, minimum sizes, captions anchored canvas by canvas, the batch limit | both renderers show the same, and the blend accepts it |
| Detection postprocessing (`cpp/src/postprocess.cpp`) | none; candidates and flags within a call | decode, threshold, NMS, map back, clip | | ties, thresholds, boxes at the edge | the greedy set of boxes, and all of them that are visible |
| pixel conversions, diagnostics, configuration, wire formats, types | little | formatting, environment, byte layouts | | | |
| Python SDK | as above | as above | as above | as above | as above |

`PROJECT.json` lists all components with their sources, and under `hazards`
what can go wrong at which line and which property would notice.

How the parts interact: an application composes a frame source
(`FdMediaClient`) with `PipelineRunner`, or lets `StreamPipeline` consume an
`InferenceStream`; frames it keeps are given back through `FrameRetainer` and
the `StreamSock` of their connection; pixel work goes through `AccelRouter`,
whose hardware legs share one `DspClient` per process; `InferencePipeline` is the
step a runner's worker takes, and hands a device buffer from the preprocessor to
the daemon; results go back into the camera through `FramePublisher` or the
overlay. The control clients, events, audio and encoded streams, plugin discovery
and the algorithms share no state with these or with each other.

## Modules and how they correspond to the code

One action is one critical section, one RPC or system call, or one access to
something unlocked that two threads touch. Data is abstracted to what the
properties tell apart: a frame, a response, a buffer, a connection and a
dispatch are numbers in the order of their creation.

**`PipelineRunner`** has three threads with control points `rpc` (reader), `wpc`
(worker), `apc` (application). `ReaderTop … ReaderExit` are `reader_loop`
including the timed `put`, the eviction that closes the evicted frame, and the
two endings: the blocking `put_sentinel` of a natural end and the evicting
`put_terminal` after a stop. `WorkerGet … WorkerExit` are `worker_loop` with the
consecutive-error limit and the drain. `StopCall … JoinWorker` are `stop()` and
the destructor. `closes[f]` counts the releases of frame `f`'s handle.

**`ResultStream`** is the abstract promise of a subscription: results in frame
order with some missing, one end or one exception, and only for a reason.
**`InferenceStream`** is the code: the pump thread, the queue, `cancel()` (whose
body runs once and offers a terminal item of its own), `next`, `close`,
destructor. `Promise == INSTANCE ResultStream` with a refinement mapping, and
`KeepsPromise` is checked as a property.

**`StreamPipeline`** composes with the promise: the subscription its worker reads
is a `ResultStream` instance, so it rests on what `InferenceStream` was checked
to implement. `StopBegins … StopTeardown` are `stop()` on the application's
thread, `HookStops` and `HookTeardown` the same function called by the hook on
the worker's.

**`FramePublisher`** is one application thread against an external daemon
(`BakeBegins`, `BakeEnds`, a queue of three that drops its oldest). A buffer's
pixels are the number of the write that produced them, which makes "the daemon
baked what was published" a statement about states. RPC outcomes are `ok`,
`refused` and `lost`.

**`FrameRetention`** opens up what `FdMediaClient` treats as one step: reference
counts, the unprotected `closed_`, and the scan of the weak entries, which locks
each weak pointer and so can itself become the last owner.

**`LentFrames`** is the abstract promise of a lent frame: the server lends it on a
connection, it is received once, at most one application holds it, and whoever has
it last gives it back once on the connection it is due on, or leaves that to the end
of the connection. It knows no threads, caches, descriptor numbers or retries.
**`FdMediaClient`** is the code: readers (`next` and `get_frame` callers), the closer
and the daemon. Descriptor numbers are modelled because `recv_frame` loads
`sock->fd` outside the socket's mutex and the kernel reuses numbers. `Lending ==
INSTANCE LentFrames` maps who holds a frame (`Place`) and the socket of its RELEASE
(`Due`), and `KeepsLending` is checked as a property. The release of one handle is one
step here; two threads that release the same handle at once are `FrameRetention`'s
subject, and an observation below.

**`AccelRouter`** follows `run()` from `decide` through `shared_dsp_call` to the
fallback, with dispatch objects that can be resident, retired, closed and
destroyed. A call into a destroyed object is undefined behaviour: any outcome.

**`DspClient`** follows each buffer from `DSP_ALLOC`/`DSP_IMPORT` to
`DSP_BUF_RELEASE`. One exchange is one action, because `plane_lock` is held
throughout. A socket can be in step, off by one answer, or dead.

**`EncodedReader`** has readers of three kinds (a stream that reconnects, one that
does not, and `get_frame` on the client's cached socket). `EncConnects`,
`EncConnectFails`, `EncReads` and `EncReadFails` are `ensure_connected` and
`read_one` with the budget; a packet is read in one step and counted in another
(`EncCounts`), because `observe()` loads and stores the shared tracker without a
lock. The publisher (external) may cut a connection, restart its numbering, and
drops from a full queue.

**`AudioReader`** separates the read of the header from that of the payload, both on
whatever descriptor the member holds by then. A connection is at the start or in
the middle of a message. A read that fails may have taken a part of what it wanted;
then `AudNextFails` (`next_frame(true)`) drops the connection, and `AudGivesUp`
(`get_frame()`, `next_frame(false)`, a call that finds the client closed) keeps it as
it is, and `acut` has the connections kept in the middle of a message.

**`EventClient`** gives each handler its thread (`start`, `loop`, `read`, `call`) and
`publish_batch` its steps on both sides: what was written, what the bus took, what
status it answered.

**`PluginDiscovery`** reads document and mtime in two steps (`PlLoad`, `PlStat` and
their counterparts in `reload`), with a clock in seconds, the resolution of the
mtime.

**`InferencePipeline`** follows the device buffer of each pass: `iref` says whether
the call, the closure of the future or the result holds it, `irel` counts its
releases; model resolution, thread creation, the RPC, its deadline and the decoder
can each throw.

**`ControlPlane`** sorts every unary call by what it does to the daemon's setting: it
reads, patches the named fields, sends all fields, sends all with defaults, or
commands. One setting with two fields and two clients stands for each. The three
operations made of several calls have their steps. Each request can be lost,
refused or applied, and its answer lost.

**`FrameGeometry`** carries the true positions of a frame's corners beside the
transform the code writes into the metadata, in exact fractions, through every
chain of `crop`, `resize` (letterbox, stretch, crop; CPU packed, CPU planar, DSP)
and the preprocessor.

**`OverlayFragments`** gathers one shape per step, as the loops of both renderers do,
and keeps the extents they grow (`oextent`, `ocanvas`). A canvas is a window, and what
it shows the pairs of a pixel and a shape that may paint it (`draw_strokes`), for a
caption with the row of the frame its baseline is on (`draw_captions`), so that a
caption drawn on two rows is seen. The pixel constants of `draw.hpp` and `draw.cpp`
are parameters, so that a frame of twelve by fourteen meets them. **`Detections`** takes one turn of a loop per step: decoding an anchor, the sort
(whose outcome is described, not computed), a turn of the suppression loop with its
flags, a turn of the loop that maps back and clips. It is compared with the
declarative definition of a greedy set. **`Clamping`** has their `std::min` and
`std::max`.

The `MC*` modules only instantiate. `MCLibrary` instantiates nine parts in one run:
they share no state, so their product would show nothing. Its initial state chooses
the part that moves; each part is explored completely while the others stay as they
began, so the run is the union of nine runs.

Some properties are conjunctions of named parts that break in different ways
(`FramesSound`, `StreamSound`, `StopSound`, `PoolSound`, `LedgerSound`, `LoansSound`,
`RoutingSound`, `IdsSound`, `DiscoverySound`, `GeometrySound`, `FragmentsSound`,
`DetectionsSound`); the first eight include their module's type invariant. A
violation names the conjunction, and the parts have their own comments.

Definitions marked "Mutant" or "A plausible bug" in the modules are wrong versions
of the definition that follows them; no specification uses them, and they show that
each property can fail.

## Runs

Every run is exhaustive within its bounds. Deadlock checking is off where the
system may really stop: all threads ended, the bound on calls used up, or (in
`retention`) the self-deadlock that `retention_stuck` is about.

| Run | Bounds | Properties | Shows |
|---|---|---|---|
| `runner` | queue 2, 4 frames, 1 `stop()` plus the destructor, error limit 2, no sink | `FramesSound InOrder NoLostSentinel DrainsOnlyAfterStop NothingLeaks WorkerEnds` | frame ownership and order through every path; the worker ends |
| `runner_destructor` | queue 1, 3 frames, 2 stops | `DestructorReturns` (violated) | finding 1 |
| `stream` | queue 2, limit 2, 5 responses | `StreamSound LossesCounted KeepsPromise CancelWakes` | counting, the terminal item, refinement of `ResultStream`, wake-up |
| `pipeline` | queue 2, 3 responses, hook may stop, overlay and zones drawn, owned clients | `StopSound ResultsAccounted EndIsReachable CancelledStopReturns` | teardown from all three callers |
| `publisher` | pool 2, batches up to 3, 4 writes, all RPC outcomes | `PoolSound NoTearing AcquireEnds` | the write lease |
| `retention` | 2 holders, closer, 2 frames, 1 copy, 1 close | `LedgerSound NoneForgotten Returns` | ownership of retained frames |
| `retention_stuck` | the same | `EntriesVanish` (violated) | finding 2 |
| `media` | 1 `next` thread, 1 `get_frame` thread, closer, 3 connections, 2 frames, 1 fault, budget 2, interval 2 | `NoOrphan LoansSound KeepsLending` | connections and loans, refinement of `LentFrames` |
| `accel` | 3 threads, 3 dispatches, 3 calls, 1 configuration change | `RoutingSound ClosedBeneathLate RestDrained` | the retire/drain protocol |
| `accel_freed` | the same | `RetiredExists` (violated) | finding 3 |
| `dsp` | 2 threads, 3 buffers, 2 jobs, 3 calls, 2 connections | `IdsSound OneKeeper BuffersOutliveJobs` | buffer ownership |
| `library` | two of everything, and the bounds below | `SeqExact AudioWhole HandlerQuiet BatchWhole DiscoverySound InputReleasedOnce NoLostField SequencesRestore GeometrySound FragmentsSound DetectionsSound` | the remaining clients and the algorithms |

`library` in detail. Readers, threads, subscriptions, users, passes and clients are
the same two model values, which no part tells apart, and symmetry is taken over them.
Encoded: 3 packets, 2 lives of the publisher, 1 cut, a queue of one and 2 attempts, so
that a hole, a restart and an exhausted budget all happen. Audio: 3 connections and 2
closes. Events: 2 events, a batch of two, 1 close. Plugins: 3 documents, 3 seconds, 3
writes, so that two writes share a second. Control: 3 calls per client. Geometry:
seven sizes (odd, even, one pixel, both aspect ratios), four formats, two steps and
then the preprocessor. Overlay: every pair out of 77 shapes inside, across one or two
edges of, taller than, and outside a frame of 12 by 14, among them a captioned box
near the top edge inside another box's side, with pixel constants of about
a third of the real ones (16, 20, 6, 12 and 6 pixels), and batch limits of 1, 5 and 64
that force each of the three layouts. Detections: every sequence of up to three of 15
anchors, including equal scores, a turned-over box and one beyond the frame, and
thresholds zero, one half and one.

Why the bounds are enough. A queue of two is the smallest that can be empty,
partly filled and full, and holds a frame together with a sentinel. More frames
than `QueueSize + 2` (one in each thread's hands) are needed for an eviction
while both threads hold something: hence four or five items. Limits of two
separate "one more", "reached" and "reset". A batch of three exceeds the pool of
two, so a slot is reused within a batch. Three connections let a descriptor
number be closed and reused while a third party still has the old one in mind.
Three threads are one that fails and retires, one that is inside, and one that
has fetched and not yet counted itself in. Two DSP jobs and three buffers are a
source, a destination and one that belongs to somebody else. `LastResultsKeep`
and `HasSink` vary between the two runner configurations. The proofs remove the
bounds altogether.

What the properties leave open is stated in them rather than hidden: for example
`LentAccounted` excepts frames read through a reused descriptor number
(`astray`), `ReleasedOnce` of `FrameRetention` excepts two threads that test
`closed_` together (`raced`), `ClosedBeneathLate` says precisely which caller may
be closed beneath, `DspClient` counts what is forgotten, `SeqExact` claims exact
holes for a single reader, `AudioWhole` excepts overlapping calls and connections that a call
kept in the middle of a message, `FragmentsCover` the captions near the top edge
(`Unfloored`), and `ChangesNoticed` a write during a reload. Each exception is a finding or an
observation below.

## Fairness

Safety does not depend on any. Fairness is used for the liveness properties:

- `WorkerEnds`, `DestructorReturns` (`runner`, `runner_destructor`): the three threads
  are scheduled (weak fairness of a step of each). A callback that never returns is
  therefore excluded; the header (`runner.hpp`) documents that a source that blocks
  for ever blocks the join. The application's calls are not fair, only the steps
  inside a call.
- `CancelWakes` (`stream`): the consumer's and the canceller's steps, and the pump
  finishing **once cancelled**, since `TryCancel` makes a blocked `Read` return. The
  server is never required to send anything.
- `CancelledStopReturns` (`pipeline`): application and worker steps, and the stream
  returning once it is cancelled or finished, which is what `stream` shows.
- `AcquireEnds` (`publisher`): the daemon bakes what is queued, and the polling loop polls.
- `Returns`, `EntriesVanish` (`retention`, `retention_stuck`): each thread that is
  inside a library call takes its next step when it can; a thread that waits for a
  mutex it holds itself cannot.

`library` states no liveness: its clients wait for daemons that promise nothing,
and `EventClient`'s threads end only when the bus lets them.

## What is proved

Every safety property that a passing run checks, invariant or action property, is a
theorem of its module's specification for every value of the constants; so are the
refinements of `ResultStream` and of `LentFrames`. Each proof has the same shape: an
inductive invariant, the lemmas on sequences, finite sets or numbers that its steps
need, one proof step per action, and a temporal step at the end. TLC checked each
inductive invariant before it was proved. The assumptions are the `ASSUME`s of the
modules, which the runs evaluate; they say that counts are natural numbers, that a
queue or a pool holds at least one, that sets of threads are finite where threads are
counted, and that the roles of threads do not overlap. `OvAssumption` also says how
the pixel constants of an overlay fit each other, as those of `draw.hpp` do.

**`PipelineRunnerProofs`**, from `RunnerAssumption` (queue size and number of kept
results at least one, everything else any natural number):

| Theorem | Statement |
|---|---|
| `TypeCorrect` | `Spec => []TypeOK` |
| `FramesReleasedOnce` | `Spec => []ReleasedOnce`: each frame yielded is in one place with its handle open, or was released exactly once |
| `FramesAreSound` | `Spec => []FramesSound`, both of these, as the run checks them |
| `FramesInOrder` | `Spec => []InOrder` |
| `RunnerBounded` | queue and captured results stay within capacity |
| `SentinelNotLost` | `Spec => []NoLostSentinel` |
| `NaturalEndLosesNothing` | `Spec => []DrainsOnlyAfterStop` |
| `LeftoverBounded` | at most one frame is left when both threads have ended |
| `DestroyedHoldsNothing` | `Spec => []NothingLeaks` |

The properties are not inductive as they stand. `ReleasedOnce` needs to know that
a frame in one place is in no other, which follows from order: the worker's frame
is older than everything queued, and that older than the reader's. So the
invariant is `Custody`, the conjunction of `Yielded` (frames come from the source,
the reader holds the latest), `InOrder` and `CountsExact`, together with `Holding`
(at which control points a thread holds a frame). The sentinel properties need
`QuietEnd` (without a stop request only an ended reader has queued a sentinel, and
it is last), `LoopLeftovers` (what a late reader can find once the worker has
left) and `AppOrder` (what each join has already waited for).

**`InferenceStreamProofs`**, from `StreamAssumption` (queue size, failure limit and
number of responses are natural numbers):

| Theorem | Statement |
|---|---|
| `TerminalNeverShed` | `Spec => []StreamSound`: a consumer that has not seen the end will meet a terminal item, whatever was evicted and whoever cancelled |
| `EveryLossCounted` | `Spec => []LossesCounted` |
| `FirstVerdictStands` | a stream that has ended keeps its verdict and delivers nothing more (action property) |
| `StreamKeepsPromise` | `Spec => KeepsPromise`: every step is one of `ResultStream`'s, or none |

`StreamInv` adds to the properties that the body of `cancel()` is inside one thread
(`BodyRunsOnce`), that a queued or taken terminal item was offered by whoever may
offer it (`Causes`), and that responses are queued in the order they were read,
behind the last one taken (`InSequence`), which is what the refinement turns on. All
of it goes through `OfferFacts`: an offered item comes last, and at most the oldest
of the others is gone. The refinement covers the safety part; `ResultStream` promises
no liveness.

**`StreamPipelineProofs`**, from `PipelineAssumption`: `StopIsSound`
(`StopSound`), `ResultsAreAccounted` (`ResultsAccounted`), `EndStaysReachable`
(`EndIsReachable`), and `IteratorKeepsPromise`: the subscription inside the pipeline
is a behaviour of `ResultStream`, so that the composition rests on exactly what
`StreamKeepsPromise` proves. `PipelineInv` adds that the marker is last in the queue
and nothing follows it (`MarkerIsLast`), and which caller of `stop()` can be where
(`StopsInOrder`). Counting the results in the queue (`ResultsCount`) needs the
cardinality of the slots that are not the marker.

**`FramePublisherProofs`**, from `PublisherAssumption`: `ThePoolIsSound` (`PoolSound`)
and the action property `NothingIsTorn` (`NoTearing`). That the lease covers the
daemon's buffers (`Covered`) is not inductive, because a lease that went stale can
become current again while a batch is being built; `Marks` says that then no mark of
an unsent buffer was taken away, and the batch is still intact.

**`FdMediaClientProofs`**, from `ClientAssumption`: `NoOpenOrphan` (`NoOrphan`),
`LoansAreSound` (`LoansSound`) and `ClientKeepsLending` (`KeepsLending`): the client
implements `LentFrames`. `SocketInv`, for the first, adds `HandsFull`: a thread
has an unlinked socket in hand only between the two halves of `drop_sock` or
`close()`. `LoanInv` adds three things: although `recv_frame` loads the descriptor
number without a lock, a reader whose socket is alive reads from that socket
(`Readings`, by `OwnNumbers`: open connections have numbers of their own); each frame
is on one wire, in one hand or retained (`Places`); and what the daemon still lends
to whoever has the frame (`Loans`). The refinement needs one thing more, `Touch`: a
frame read through a reused number is not one whose RELEASE can still be sent. `Shapes`
turns `Places` into the value of the refinement mapping, whoever has the frame; then
each step of the client moves one frame (`MovesOne`) or none (`MovesNone`), and is the
step of `LentFrames` that does so. That `LentFrames` lets a frame be received only on
the connection that lends it, or on one that is closed or lost, is the case split of
`ReadLends` over `Reading`.

**`AccelRouterProofs`**, from `RouterAssumption` (finitely many threads):
`RoutingIsSound` (`RoutingSound`), `OnlyTheLateAreClosedBeneath`
(`ClosedBeneathLate`), `NothingIsLeftRetired` (`RestDrained`). `RouterInv` counts:
`active` is the number of threads inside (`Count`, with cardinalities, hence the
finite set). `Keepers` gives each dispatch one keeper, `InTime` says that a thread
that counted itself in in time uses the resident or one that cannot be drained before
it leaves, and `SomebodyDrains` that what the last drain did not see somebody will.

**`DspClientProofs`**, from `DspAssumption`: `EveryBufferHasOneKeeper` (`OneKeeper`),
`IdentifiersAreSound` (`IdsSound`), and the action property `NoBufferLeavesItsJob`
(`BuffersOutliveJobs`). `DspInv` names the places that can answer for a buffer
(threads, job objects, the stream, the application, nobody) and says that no buffer
is in two of them, nor twice in one list (`Placed`). `Wired` and `Releasable` tie a
buffer to the connection it came from, `Borrowing` keeps what is lent with its
lender, and `Attended` gives each running job a thread or an object that owns its
buffers.

**`LibraryProofs`** has the smaller components:

| Theorem | Assumes | Inductive invariant |
|---|---|---|
| `InputIsReleasedOnce` (`InputReleasedOnce`) | | `PassInv`: the place of a pass decides who holds its buffer |
| `NoFieldIsLost` (`NoLostField`), `SequencesRestoreWhatTheyChange` (`SequencesRestore`) | | `CtlInv`: a client nobody has overtaken since it read knows what is there |
| `HandlersAreQuiet` (`HandlerQuiet`), `BatchIsWhole` (`BatchWhole`) | `EvAssumption` | `HandlerInv` and `BatchInv`: a handler that was late once is past the check that would let it be late again; the bus says ok to a whole batch only |
| `FramesAreWhole` (`AudioWhole`) | | `AudInv`: without overlapping calls one thread is inside, in step with its connection unless a call has kept that in the middle of a message, and the connections kept so are those of a closed client or of calls that do not reconnect |
| `DiscoveryIsSound` (`DiscoverySound`) | | `DiscoveryInv`: unless the last change fell into a blind spot, a reload between its two reads holds the document of the time it is about to read (`FollowsFile`) |
| `LedgerIsSound` (`LedgerSound`), `NoFrameForgotten` (`NoneForgotten`) | `RetentionAssumption` | `RetentionInv`: a thread on its way to a release owns the handle or was its last owner (`Entitled`), an entry outlives its handle's release only until the releasing thread has scanned past it (`Entries`) |
| `SequenceIsExact` (`SeqExact`) | `EncAssumption` | `EncInv`: packets on a connection are newer than the counted ones and of one life (`EncWires`), and the counters are sums up to the newest counted packet (`Summed`); in the first life the gap before each packet is added to the holes (`HolesGrow`, by the cardinality of intervals) |
| `GeometryIsSound` (`GeometrySound`) | `GeoAssumption` (sizes are positive) | `GeoInv`: the transform takes the original's corners to the positions of the pixels, as an equality of fractions; the lemmas are about fractions, rounding to even, and the content box of each mode, for every size |
| `FragmentsAreSound` (`FragmentsSound`) | `OvAssumption` | `OvInv`: the extents are around every shape gathered so far, and the one canvas's around the fragments' (`Around`); the rest follows in each state: each pixel of a stroke or caption is in a window of its shape (`Edges`), a shape with a stroke in a fragment is among those it draws (`StrokeSelects`), so that both show the same strokes there (`StrokesEqual`), a caption is on one row in both (`CanvasBaseline`, `CaptionsEqual`), a canvas slid back into the frame still covers its window, and the height of a canvas is the least number that meets its captions and is even |
| `DetectionsAreSound` (`DetectionsSound`) | `DetAssumption` | `DetInv`: the boxes kept so far are apart and in order (`KeptApart`), a candidate the loop has passed is kept or flagged by a kept one before it (`Suppressing`), and what is returned so far is what can be seen of the kept ones passed (`Returned`) |

Four of these are wider than any run could be: `GeometryIsSound` holds for every frame
size, chain and aspect ratio, `SequenceIsExact` for every number of packets, cuts and
restarts, `FragmentsAreSound` for every frame, set of shapes and batch limit with the
code's own pixel constants, and `DetectionsAreSound` for every head, threshold and
scale.

The two algorithms are folds over sequences. No induction theorem of the library can
be used here (they take an operator as a parameter), so a loop of the code is a loop
of the model, one turn per step, and its induction is that of the invariant; and where
a recursive function remains (`Heights`, `Best`) the proof picks the least index at
which a claim fails (`LeastNatural`, from the well-foundedness of the naturals) and
refutes it. The attempt to prove `FragmentsFit` in its first form showed that it was
true of the shapes checked until then only: a box taller than the frame breaks it (see
the observations), and the run has such boxes now. The property says for which shapes
the bottom edge stays in the frame (`Framed`), and `FragmentsCover` which captions
both renderers show (`InView`), and which a fragment may show on another row
(`Unfloored`); the strokes are equal without exception.

Only model-checked:

- The liveness properties (`WorkerEnds`, `CancelWakes`, `CancelledStopReturns`,
  `AcquireEnds`, `Returns`): the prover has neither fairness nor `ENABLED`.
- The three properties that the code violates, which are findings.

## Findings

1. `runner_destructor` — `cpp/src/runner.cpp:213`: a reader that tested `stop_flag_`
   before a stop blocks for ever in `put_sentinel`, and the destructor's join with
   it.
2. `retention_stuck` — `cpp/src/media/fd_media_client.cpp:114`: the temporary
   reference of the scan in `discard` can be the last one; the destructor then
   locks `retained_mu` again in the same thread.
3. `accel_freed` — `cpp/src/accel.cpp:389`: assigning the next dispatch to `owned`
   destroys the retired one.

`PROJECT.json` quotes the comments and docs they disagree with.

## Observations

Met while reading and modelling; weaker, narrower or documented, so no run is
spent on them. Those the models contain are marked (m).

- Runner: `dropped_` also counts evicted sentinels (`runner.cpp:275`, against `:268`) (m).
- `InferenceStream`: with a queue of one, the end item of `cancel()` evicts the pump's
  error item (`inference.cpp:212`), so a broken stream looks ended (m).
- `StreamPipeline`: a failed `start()` leaves `running_` true; a `stop()` that
  precedes the subscription joins a worker nothing wakes (`stream_pipeline.cpp:148`,
  against the comment at `:166`), which is why `CancelledStopReturns` speaks of
  cancelled subscriptions; after a stop from the hook, a result already past the hook
  can be drawn after the clear (`:278`), which is why `AppStopClears` speaks of the
  application's stop (m).
- `FramePublisher`: a batch larger than the pool rewrites slots it has not sent yet
  (`injection.cpp:366`, `:348`; `injection.hpp:27` says the lease still paces the
  writes); after a lost answer a slot the daemon holds counts as free
  (`injection.cpp:176`); `publish_stream` sets `eos_sent_` before the RPC (`:218`);
  `publish_rgb` can use an `nv12_stage_` whose allocation failed (`:245`, action
  `NullStage`) and resets the cursor (m). `resolve_geometry` accepts a negative even
  `dest` (`injection_logic.hpp:119`).
- `FdMediaClient`: `drop_sock` drops whatever is cached (`fd_media_client.cpp:233`),
  so after `close()` two streams of one id can spend each other's reconnect budget
  although the daemon never failed (`fd_client.hpp:73` promises a transparent
  reconnect); a frame read through a reused descriptor number is never RELEASEd
  (`:333`); two threads that test `closed_` together send RELEASE twice
  (`frame.hpp:68`) (m). A short read of a FRAME message loses the frame.
- `AccelRouter`: `HardwareOnly` without a hardware leg silently runs software
  (`accel.cpp:553`, `accel.hpp:44`); a caller between fetching the dispatch and
  counting itself in can be closed beneath; `probe` uses the dispatch uncounted
  (`:372`); the second snapshot may miss the chosen leg (`:570`); a retired dispatch
  with live pools is only drained by a later call (m). `counters_for` returns a
  reference that is incremented outside the lock (`:572`).
- `DspClient`: a late import answer is taken for the next one; `done()` takes a lost
  RPC for a failed job, and `release()` then skips its wait (`dsp.cpp:720`;
  `python/.../dsp.py:525` calls the state unknown); a dead socket stays until
  `close()` (m). `exchange_alloc` receives without a timeout while it holds
  `plane_lock`; a moved pool leaves its old address in `live_pools`; a pool that
  outlives its client calls into freed memory; descriptors received by an allocation
  that then fails to parse are leaked. Imports can be neither handed on nor released:
  `blend` into `dst_pool` (`dsp.cpp:1782`), and the imports of `client_prep` and
  `convert_hw`, which stand outside the `try` (m).
- Encoded streams: two readers of one client share `last_seq` and so count holes that
  are none; `EncodedStream::next` with reconnect loops while connecting succeeds and
  reading fails (m).
- Audio: overlapping calls can make one frame of two messages and lose a socket; after
  a timeout in the middle of a message `get_frame` and `next_frame(false)`
  (`audio_stream.cpp:126`, `:137`) keep the connection, and a single thread's next call
  returns a garbled frame; `next_frame(false)` returns nullopt on any such failure,
  against `audio_stream.hpp:53` ("only after close()"); the `on_frame` thread ends the
  process when its own connect throws (m).
- Events: `on_event()` returns before its subscription exists; a handler registered
  after `close()` is subscribed and deaf; its thread blocks in `Read` until the next
  event (m).
- Plugins: `close()` from a callback joins its own thread, and `watch()` during a
  `close()` assigns over a joinable one; a write during a reload is never noticed (m).
  `require()` waits only for the first provider.
- Control: two clients' merging `set_privacy_mask` lose each other's fields;
  `OverlayClient` enable and disable reset the other fields; `oneshot_autofocus` says
  "Disable continuous AF regardless of outcome" but a failing poll throws without;
  `get_ircut`, `get_fan`, `get_heat`, `get_radar`, the device lists, the audio status
  and `genai_abort` ignore the reply's own success flag (m). `genai_generate` drops
  `top_p` and `top_k` unless another sampling field is set, and
  `GenaiStream::finish_reason()` reports Done for a stream that broke
  (`inference.hpp:81`).
- Geometry: in `crop` mode the offset `(rw - dw) / 2` need not be even, against
  `geometry.hpp:30`: 1920x1080 NV12 to 640x640 gives 249, and U and V change places;
  `gchroma` follows this, and `BoxFits` allows exactly this case (m).
  `Preprocessor::from_model` strips a leading 1 also from an unbatched `[1,H,W]`.
- Overlay: the side strips of a box are clamped to the frame on one side only
  (`draw.cpp:393`, `:401`), so those of a box taller than the frame are taller too and
  still reach out of it when they are slid back; `blend_hw` then refuses the whole call
  (`dsp.cpp:1703`), against `draw.hpp:154` ("the return always fits one blend job"). As
  to the bottom edge `FragmentsFit` therefore speaks only of boxes that reach out of
  the frame neither at the top nor at the bottom (`Framed`) (m). The caption of a box
  whose top is above the frame is shown by the one canvas and not by the fragments (m).
  A caption near the frame's top can be drawn twice, against `draw.cpp:341` ("fragment
  pixels then equal canvas pixels region for region"): `text_row` (`:49`) moves it down
  to the floor row only in a canvas that starts at the frame's first row. With thickness
  2, a box (10,2,100,60) and a captioned box (12,15,50,50), the window of the first
  one's left side starts at row 5 and puts the baseline at row 9, the one canvas and
  the second one's own fragment at row 12. `FragmentsCover` excepts exactly such
  captions (`Unfloored`), and the run has shapes for which it is needed (m).
- Postprocessors: the heads guess their orientation from the longer axis.

## What is not modelled

`PROJECT.json` gives the reason for each component. In short: pixel and tensor
arithmetic, wire formats, configuration, diagnostics, the deprecated plugin server
and generated code have no control state to check; the Python library is the
original of the port and shares its structure. Pull readers without state of their
own (device events, application logs, `GenaiStream`) return what the stream returns.
Within modelled components the latency and skew averages, logging, argument checks,
formats and pixels are left out. `docs/proposals` holds a probe program that is not
part of the library.

## Plan

Done: what owns threads and lent memory, then the remaining stateful clients, then
the algorithms; a proof of every safety property the passing runs check; and the two
abstract specifications, of a subscription and of lent frames, with a proof that the
code implements them. What is left:

1. `FrameRetention` as a second implementation of `LentFrames`: its two threads that
   test `closed_` together send RELEASE twice, so it implements a weaker promise, or
   this one without that race.
2. `InferencePipeline` composed with `PipelineRunner`'s worker step.
3. The geometry checks of `FramePublisher` before its first state change.
