--------------------------- MODULE StreamPipeline ---------------------------
(***************************************************************************)
(* StreamPipeline (cpp/src/stream_pipeline.cpp): a worker thread           *)
(* subscribes to inference results, passes each through the application's  *)
(* on_result hook, draws it on the hardware overlay and queues it for      *)
(* next_result().  stop() may be called by the application, by the         *)
(* destructor, or by the hook on the worker thread itself; whoever is      *)
(* first cancels the subscription, clears what was drawn and closes the    *)
(* clients.                                                                *)
(*                                                                         *)
(* The subscription is a ResultStream, the abstract specification that     *)
(* InferenceStream implements.  The threads are the application (start,    *)
(* stop, destructor), the worker, and a reader of next_result().           *)
(***************************************************************************)
EXTENDS Integers, Sequences, FiniteSets

CONSTANTS QueueSize,     \* result_queue_size, at least 1
          MaxFailures,   \* max_consecutive_failures of the subscription
          MaxSent,       \* bound: responses of the server
          Draw,          \* draw
          HasZones,      \* static polygons were given
          OwnsClients,   \* no clients were injected
          HookMayStop    \* the hook may call stop()

ASSUME PipelineAssumption ==
    /\ QueueSize \in Nat \ {0}
    /\ MaxFailures \in Nat
    /\ MaxSent \in Nat
    /\ {Draw, HasZones, OwnsClients, HookMayStop} \subseteq BOOLEAN

VARIABLES sent, finish, cancelled, delivered, status,  \* the subscription
          subscribed,   \* iterator_ has a value
          started, stopped, running,
          apc,          \* the application's control point
          first,        \* the application's local of that name in stop()
          leaving,      \* its stop() is the destructor's
          wpc,          \* the worker's control point
          wseq,         \* the result the worker handles, or 0
          joined,       \* worker_.join() has returned
          slots,        \* ResultQueue::slots_, oldest first; 0 = stop marker
          drops, queue_ended,
          rpc,          \* the reader of next_result(): "idle" or "get"
          got,          \* results it got
          seen, annotated, annotate_errors,
          hook_drops,   \* results the hook dropped, by nullopt or exception
          failed,       \* last_error_ is set
          boxes, zones, \* what the overlay shows of this stream
          clients,      \* the owned clients: "none", "open" or "closed"
          teardown,     \* who ran it: "no", "app" or "worker"
          clear_failed  \* an annotate of the teardown threw

subscription == <<sent, finish, cancelled, delivered, status>>
flags     == <<started, stopped>>
app       == <<apc, first, leaving, joined>>
results   == <<slots, drops, queue_ended>>
reader    == <<rpc, got>>
drawing   == <<annotated, annotate_errors, boxes>>
cleanup   == <<teardown, clear_failed>>
vars == <<subscription, subscribed, flags, running, app, wpc, wseq, results,
          reader, seen, drawing, hook_drops, failed, zones, clients, cleanup>>

Iterator == INSTANCE ResultStream

StopMarker == 0

Init ==
    /\ Iterator!Init
    /\ subscribed = FALSE
    /\ started = FALSE /\ stopped = FALSE /\ running = FALSE
    /\ apc = "idle" /\ first = FALSE /\ leaving = FALSE /\ joined = FALSE
    /\ wpc = "none" /\ wseq = 0
    /\ slots = <<>> /\ drops = 0 /\ queue_ended = FALSE
    /\ rpc = "idle" /\ got = 0
    /\ seen = 0 /\ annotated = 0 /\ annotate_errors = 0 /\ boxes = FALSE
    /\ hook_drops = 0 /\ failed = FALSE
    /\ zones = FALSE /\ clients = "none"
    /\ teardown = "no" /\ clear_failed = FALSE

-----------------------------------------------------------------------------
(* ResultQueue *)

MustEvict == Len(slots) >= QueueSize

\* Mutant: evicts without counting.
OfferUncounted(slot) ==
    /\ slots' = Append(IF MustEvict THEN Tail(slots) ELSE slots, slot)
    /\ UNCHANGED <<drops, queue_ended>>

\* offer and offer_stop: evict_until_fits_locked, then push_back.  Every
\* offer keeps the queue within its size, so at most one slot has to go.
offer(slot) ==
    /\ \/ /\ MustEvict
          /\ slots' = Append(Tail(slots), slot)
          /\ drops' = drops + 1
       \/ /\ ~MustEvict
          /\ slots' = Append(slots, slot)
          /\ UNCHANGED drops
    /\ UNCHANGED queue_ended

GetBegins ==
    /\ wpc # "none"                 \* results_ exists
    /\ apc # "gone" /\ ~leaving
    /\ rpc = "idle"
    /\ rpc' = "get"
    /\ UNCHANGED <<subscription, subscribed, flags, running, app, wpc, wseq,
                   results, got, seen, drawing, hook_drops, failed,
                   zones, clients, cleanup>>

EndSeen(slot) == queue_ended \/ slot = StopMarker

GetReturns ==
    /\ rpc = "get"
    /\ rpc' = "idle"
    /\ \/ /\ slots # <<>>
          /\ slots' = Tail(slots)
          /\ queue_ended' = EndSeen(Head(slots))
          /\ IF Head(slots) = StopMarker
               THEN UNCHANGED got
               ELSE got' = got + 1
       \/ /\ slots = <<>> /\ queue_ended
          /\ UNCHANGED <<slots, queue_ended, got>>
    /\ UNCHANGED <<subscription, subscribed, flags, running, app, wpc, wseq,
                   drops, seen, drawing, hook_drops, failed, zones, clients,
                   cleanup>>

-----------------------------------------------------------------------------
(* The server's side of the subscription *)

Server ==
    /\ subscribed
    /\ \/ sent < MaxSent /\ Iterator!Send
       \/ Iterator!Finish
    /\ UNCHANGED <<subscribed, flags, running, app, wpc, wseq, results, reader,
                   seen, drawing, hook_drops, failed, zones, clients, cleanup>>

-----------------------------------------------------------------------------
(* run(), on the worker thread *)

\* iterator_ = subscribe(...), under mutex_
WorkerSubscribes ==
    /\ wpc = "subscribe"
    /\ subscribed' = TRUE
    /\ wpc' = "next"
    /\ UNCHANGED <<subscription, flags, running, app, wseq, results, reader,
                   seen, drawing, hook_drops, failed, zones, clients, cleanup>>

\* next() returns a result; handle() counts it before the hook runs.
NextYields ==
    /\ wpc = "next"
    /\ Iterator!Deliver
    /\ wseq' = delivered'
    /\ seen' = seen + 1
    /\ wpc' = "hook"
    /\ UNCHANGED <<subscribed, flags, running, app, results, reader, drawing,
                   hook_drops, failed, zones, clients, cleanup>>

\* Mutant: a nullopt does not leave the loop.
EndIgnored ==
    /\ wpc = "next" /\ Iterator!End
    /\ UNCHANGED <<subscribed, flags, running, app, wpc, wseq, results, reader,
                   seen, drawing, hook_drops, failed, zones, clients, cleanup>>

\* The loop ends: next() returns nullopt, or it or subscribe() throws.
WorkerBreaks ==
    /\ \/ wpc = "next" /\ Iterator!End /\ UNCHANGED failed
       \/ wpc = "next" /\ Iterator!Raise /\ failed' = TRUE
       \/ wpc = "subscribe" /\ failed' = TRUE /\ UNCHANGED subscription
    /\ wpc' = "exiting"
    /\ UNCHANGED <<subscribed, flags, running, app, wseq, results, reader,
                   seen, drawing, hook_drops, zones, clients, cleanup>>

\* on_result returns a result, or there is no hook.
HookKeeps ==
    /\ wpc = "hook"
    /\ wpc' = IF Draw THEN "annotate" ELSE "offer"
    /\ UNCHANGED <<subscription, subscribed, flags, running, app, wseq,
                   results, reader, seen, drawing, hook_drops, failed, zones,
                   clients, cleanup>>

\* on_result returns nullopt or throws: neither drawn nor queued.
HookDrops ==
    /\ wpc = "hook"
    /\ hook_drops' = hook_drops + 1
    /\ failed' \in {failed, TRUE}
    /\ wseq' = 0
    /\ wpc' = "next"
    /\ UNCHANGED <<subscription, subscribed, flags, running, app, results,
                   reader, seen, drawing, zones, clients, cleanup>>

\* annotate(): what survives the filter is drawn, nothing of it clears the
\* boxes; an OverlayClient that was closed connects again by itself.
AnnotateDone ==
    /\ wpc = "annotate"
    /\ \/ /\ boxes' \in BOOLEAN
          /\ annotated' = annotated + 1
          /\ UNCHANGED <<annotate_errors, failed>>
       \/ /\ annotate_errors' = annotate_errors + 1
          /\ failed' = TRUE
          /\ UNCHANGED <<boxes, annotated>>
    /\ clients' = IF OwnsClients THEN "open" ELSE clients
    /\ wpc' = "offer"
    /\ UNCHANGED <<subscription, subscribed, flags, running, app, wseq,
                   results, reader, seen, hook_drops, zones, cleanup>>

ResultOffered ==
    /\ wpc = "offer"
    /\ offer(wseq)
    /\ wseq' = 0
    /\ wpc' = "next"
    /\ UNCHANGED <<subscription, subscribed, flags, running, app, reader, seen,
                   drawing, hook_drops, failed, zones, clients, cleanup>>

\* running_ = false, worker_done_ = true, notify
WorkerExits ==
    /\ wpc = "exiting"
    /\ running' = FALSE
    /\ wpc' = "offer_stop"
    /\ UNCHANGED <<subscription, subscribed, flags, app, wseq, results, reader,
                   seen, drawing, hook_drops, failed, zones, clients, cleanup>>

\* Mutant: the stop marker is offered only when there is room.
StopMarkerIfRoom ==
    /\ wpc = "offer_stop"
    /\ IF MustEvict THEN UNCHANGED results ELSE offer(StopMarker)
    /\ wpc' = "done"
    /\ UNCHANGED <<subscription, subscribed, flags, running, app, wseq, reader,
                   seen, drawing, hook_drops, failed, zones, clients, cleanup>>

offer_stop ==
    /\ wpc = "offer_stop"
    /\ offer(StopMarker)
    /\ wpc' = "done"
    /\ UNCHANGED <<subscription, subscribed, flags, running, app, wseq, reader,
                   seen, drawing, hook_drops, failed, zones, clients, cleanup>>

-----------------------------------------------------------------------------
(* stop() *)

\* if (iterator_.has_value()) iterator_->cancel()
CancelIterator == cancelled' = (cancelled \/ subscribed)

\* The clears share one try block, so a failure skips what follows it.  Then
\* the owned clients are closed.
Teardown(who) ==
    /\ teardown' = who
    /\ \/ /\ boxes' = (boxes /\ ~Draw) /\ zones' = FALSE
          /\ UNCHANGED clear_failed
       \/ /\ Draw /\ clear_failed' = TRUE
          /\ UNCHANGED boxes \/ (HasZones /\ boxes' = FALSE)
          /\ UNCHANGED zones
    /\ clients' = IF OwnsClients THEN "closed" ELSE clients

\* The hook calls stop() and is the first to do so: no self-join.
HookStops ==
    /\ HookMayStop
    /\ wpc = "hook"
    /\ ~stopped
    /\ stopped' = TRUE
    /\ CancelIterator
    /\ wpc' = "hook_teardown"
    /\ UNCHANGED <<sent, finish, delivered, status, subscribed, started,
                   running, app, wseq, results, reader, seen, drawing,
                   hook_drops, failed, zones, clients, cleanup>>

HookTeardown ==
    /\ wpc = "hook_teardown"
    /\ Teardown("worker")
    /\ wpc' = "hook"
    /\ UNCHANGED <<subscription, subscribed, flags, running, app, wseq,
                   results, reader, seen, annotated, annotate_errors,
                   hook_drops, failed>>

\* stop() or the destructor on the application's thread.  Before start() both
\* return at once; the destructor is then done.
StopBegins ==
    /\ apc = "idle"
    /\ leaving' \in {FALSE, rpc = "idle"}
    /\ \/ /\ ~started /\ leaving'
          /\ apc' = "gone"
          /\ UNCHANGED <<stopped, first>>
       \/ /\ started
          /\ first' = ~stopped
          /\ stopped' = TRUE
          /\ apc' = IF stopped THEN "join" ELSE "cancel"
    /\ UNCHANGED <<subscription, subscribed, started, running, joined, wpc,
                   wseq, results, reader, seen, drawing, hook_drops, failed,
                   zones, clients, cleanup>>

StopCancels ==
    /\ apc = "cancel"
    /\ CancelIterator
    /\ apc' = "join"
    /\ UNCHANGED <<sent, finish, delivered, status, subscribed, flags, running,
                   first, leaving, joined, wpc, wseq, results, reader, seen,
                   drawing, hook_drops, failed, zones, clients, cleanup>>

StopDone == IF leaving THEN "gone" ELSE "idle"

\* Mutant: clears without waiting for the worker.
JoinSkipped == TRUE

\* The wait for worker_done_ gives up after five seconds, join() does not.
WorkerJoinable == wpc \in {"none", "done"}

StopJoins ==
    /\ apc = "join"
    /\ WorkerJoinable
    /\ joined' = (wpc # "none")
    /\ apc' = IF first THEN "teardown" ELSE StopDone
    /\ UNCHANGED <<subscription, subscribed, flags, running, first, leaving,
                   wpc, wseq, results, reader, seen, drawing, hook_drops,
                   failed, zones, clients, cleanup>>

StopTeardown ==
    /\ apc = "teardown"
    /\ Teardown("app")
    /\ apc' = StopDone
    /\ UNCHANGED <<subscription, subscribed, flags, running, first, leaving,
                   joined, wpc, wseq, results, reader, seen, annotated,
                   annotate_errors, hook_drops, failed>>

-----------------------------------------------------------------------------
(* start() *)

\* A second start() throws and changes nothing.  When the overlay rejects
\* the configuration or the zones, start() throws with started_ and
\* running_ already set and no worker.
Start ==
    /\ apc = "idle"
    /\ ~started
    /\ started' = TRUE
    /\ running' = TRUE
    /\ clients' = IF OwnsClients THEN "open" ELSE clients
    /\ \/ /\ zones' = (Draw /\ HasZones)
          /\ wpc' = "subscribe"
       \/ /\ Draw
          /\ UNCHANGED <<zones, wpc>>
    /\ UNCHANGED <<subscription, subscribed, stopped, app, wseq, results,
                   reader, seen, drawing, hook_drops, failed, cleanup>>

Gone == apc = "gone" /\ UNCHANGED vars

-----------------------------------------------------------------------------
WorkerStep ==
    \/ WorkerSubscribes \/ HookKeeps \/ HookDrops \/ HookStops \/ HookTeardown
    \/ AnnotateDone \/ ResultOffered \/ WorkerExits \/ offer_stop

WorkerNext == NextYields \/ WorkerBreaks

AppStep == StopCancels \/ StopJoins \/ StopTeardown

Next ==
    \/ Start \/ StopBegins \/ AppStep
    \/ WorkerStep \/ WorkerNext \/ Server
    \/ GetBegins \/ GetReturns
    \/ Gone

Spec == Init /\ [][Next]_vars

(* Calls that have begun run on and a hook returns.  next() may wait for   *)
(* ever on a silent server, but not once the stream has finished or the    *)
(* iterator was cancelled (InferenceStream's CancelWakes).                 *)
Fairness ==
    /\ WF_vars(AppStep)
    /\ WF_vars(WorkerStep)
    /\ WF_vars((cancelled \/ finish # "no") /\ WorkerNext)
    /\ WF_vars(GetReturns)

FairSpec == Spec /\ Fairness

-----------------------------------------------------------------------------
(* Properties *)

Handling == wpc \in {"hook", "hook_teardown", "annotate", "offer"}

\* The slots that hold results: all but a stop marker.
Results == {i \in 1 .. Len(slots) : slots[i] # StopMarker}

\* Types, and the bound of the result queue.
TypeOK ==
    /\ slots \in Seq(0 .. MaxSent) /\ Len(slots) <= QueueSize
    /\ {drops, got, seen, annotated, annotate_errors, hook_drops} \subseteq Nat
    /\ {started, stopped, running, subscribed, first, leaving, joined,
        queue_ended, failed, boxes, zones, clear_failed} \subseteq BOOLEAN
    /\ apc \in {"idle", "cancel", "join", "teardown", "gone"}
    /\ wpc \in {"none", "subscribe", "next", "hook", "hook_teardown",
                "annotate", "offer", "exiting", "offer_stop", "done"}
    /\ rpc \in {"idle", "get"}
    /\ clients \in {"none", "open", "closed"}
    /\ teardown \in {"no", "app", "worker"}
    /\ wseq \in 0 .. MaxSent

\* result_queue_drops and results_seen tell the truth: every result the worker
\* accepted was handed out, is queued, was dropped by the queue or the hook,
\* or is the one being handled.  The stop marker is never a counted drop.
ResultsAccounted ==
    seen = got + Cardinality(Results) + drops + hook_drops + (IF Handling THEN 1 ELSE 0)

\* "The stop marker, offered last, evicts but is never evicted": when the
\* worker has finished, next_result() will return nullopt, now and for ever.
EndIsReachable ==
    /\ wpc = "done" =>
         queue_ended \/ (slots # <<>> /\ slots[Len(slots)] = StopMarker)
    /\ wpc # "done" => StopMarker \notin {slots[i] : i \in 1 .. Len(slots)}

\* "The worker is joined first so the box-clearing annotate cannot race a
\* final result": after a stop() by the application nothing stays drawn,
\* unless the overlay refused the clearing itself.
AppStopClears == teardown = "app" /\ ~clear_failed => ~boxes /\ ~zones

\* A joinable std::thread must not be destroyed: the destructor has joined the
\* worker even when the worker stopped itself, and the worker is finished.
DestroyedIsJoined ==
    apc = "gone" /\ wpc # "none" => joined /\ wpc = "done" /\ ~running

\* A stop() whose cancel() reached the iterator returns.
CancelledStopReturns == (apc = "join" /\ cancelled) ~> (apc # "join")

\* What stop() and the destructor leave behind: well-typed state and a queue
\* within its size, nothing drawn, and a worker that was joined
\* (stream_pipeline.cpp:148-190).
StopSound == TypeOK /\ AppStopClears /\ DestroyedIsJoined
=============================================================================
