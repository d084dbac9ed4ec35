--------------------------- MODULE PipelineRunner ---------------------------
(***************************************************************************)
(* PipelineRunner (cpp/src/runner.cpp): a reader thread pulls frames from  *)
(* a source into a small latest-wins queue, a worker thread runs the       *)
(* pipeline on each one, and the application thread starts, stops and      *)
(* finally destroys the runner.  A frame carries a retained dma-buf handle *)
(* that must be handed back to the camera daemon exactly once, on every    *)
(* path: processed, failed, evicted, drained, abandoned or destroyed.      *)
(*                                                                         *)
(* One action is one critical section of FrameQueue or one access to an    *)
(* atomic flag, so the three threads interleave wherever the code lets     *)
(* them.  Frames are numbered in the order the source yields them; 0 is    *)
(* the sentinel in the queue and "no frame" in a thread's local.           *)
(***************************************************************************)
EXTENDS Integers, Sequences

CONSTANTS QueueSize,             \* queue_size, at least 1
          MaxFrames,             \* bound: frames the source can yield
          MaxStops,              \* bound: calls of stop()
          MaxConsecutiveErrors,  \* max_consecutive_errors, 0 = no limit
          LastResultsKeep,       \* kLastResultsKeep
          HasSink                \* whether a sink was given

ASSUME RunnerAssumption ==
    /\ QueueSize \in Nat \ {0}
    /\ MaxFrames \in Nat
    /\ MaxStops \in Nat
    /\ MaxConsecutiveErrors \in Nat
    /\ LastResultsKeep \in Nat \ {0}
    /\ HasSink \in BOOLEAN

VARIABLES q,             \* FrameQueue::items_, oldest first
          stop_flag,     \* stop_flag_
          rpc, rframe,   \* the reader's control point and the frame it holds
          exhausted,     \* the reader's local of that name
          wpc, wframe,   \* the worker's control point and the frame it runs
          wok,           \* the worker's local ok
          apc,           \* the application thread's control point
          stops,         \* calls of stop() so far
          produced,      \* frames the source has yielded
          closes,        \* for each frame, how often its handle was released
          processed, dropped, errors, consecutive_errors,
          last_results   \* the sink-less capture, oldest first

yielding == <<exhausted, produced>>
results  == <<processed, last_results>>
stats    == <<dropped, errors, consecutive_errors>>
reader   == <<rpc, rframe, yielding>>
worker   == <<wpc, wframe, wok, results>>
app      == <<apc, stops>>
vars     == <<q, stop_flag, reader, worker, app, closes, stats>>

Frames   == 1 .. MaxFrames
Sentinel == 0
NoFrame  == 0

ReaderPCs == {"none", "top", "source", "offer", "put", "evict", "finish",
              "put_sentinel", "terminal", "terminal_evict", "exiting", "done"}
WorkerPCs == {"none", "get", "run", "release", "drain", "exiting", "done"}
AppPCs    == {"new", "idle", "stop_terminal", "stop_evict", "stop_wait",
              "destroy_terminal", "destroy_evict", "join_reader",
              "join_worker", "gone"}

Init ==
    /\ q = <<>>
    /\ stop_flag = FALSE
    /\ rpc = "none" /\ rframe = NoFrame /\ exhausted = FALSE
    /\ wpc = "none" /\ wframe = NoFrame /\ wok = TRUE
    /\ apc = "new" /\ stops = 0
    /\ produced = 0
    /\ closes = [f \in Frames |-> 0]
    /\ processed = 0 /\ dropped = 0 /\ errors = 0 /\ consecutive_errors = 0
    /\ last_results = <<>>

-----------------------------------------------------------------------------
(* FrameQueue *)

Full == Len(q) >= QueueSize

\* Mutant: the newest item goes to the front.
EnqueuedInFront(item) == <<item>> \o q

\* items_.push_back
Enqueued(item) == Append(q, item)

\* Frame::release on a queue item: a sentinel carries no handle.
Closed(item) ==
    IF item = Sentinel THEN closes ELSE [closes EXCEPT ![item] = @ + 1]

\* Mutant: forgets to hand the evicted frame back.
EvictWithoutRelease ==
    /\ q # <<>>
    /\ q' = Tail(q)
    /\ dropped' = dropped + 1
    /\ UNCHANGED closes

\* try_get, release, dropped++: what both shedding loops do with the oldest
\* item.  Nothing happens when the queue was emptied in the meantime.
EvictOldest ==
    \/ /\ q = <<>>
       /\ UNCHANGED <<q, closes, dropped>>
    \/ /\ q # <<>>
       /\ q' = Tail(q)
       /\ closes' = Closed(Head(q))
       /\ dropped' = dropped + 1

-----------------------------------------------------------------------------
(* reader_loop *)

\* while (!stop_flag_.load())
ReaderTop ==
    /\ rpc = "top"
    /\ rpc' = IF stop_flag THEN "finish" ELSE "source"
    /\ UNCHANGED <<q, stop_flag, rframe, worker, app, closes, stats, yielding>>

\* source_() returns a frame
SourceYields ==
    /\ rpc = "source"
    /\ produced < MaxFrames
    /\ produced' = produced + 1
    /\ rframe' = produced + 1
    /\ rpc' = "offer"
    /\ UNCHANGED <<q, stop_flag, exhausted, worker, app, closes, stats>>

\* source_() returns nullopt
SourceEnds ==
    /\ rpc = "source"
    /\ exhausted' = TRUE
    /\ rpc' = "finish"
    /\ UNCHANGED <<q, stop_flag, rframe, produced, worker, app, closes, stats>>

\* source_() throws: record_error(exc, "source")
SourceThrows ==
    /\ rpc = "source"
    /\ errors' = errors + 1
    /\ consecutive_errors' = consecutive_errors + 1
    /\ rpc' = "finish"
    /\ UNCHANGED <<q, stop_flag, rframe, worker, app, closes, dropped,
                   yielding>>

\* The inner while (!stop_flag_.load()): when a stop was requested the frame
\* goes out of scope and its handle closes with it.
ReaderOffer ==
    /\ rpc = "offer"
    /\ \/ /\ stop_flag
          /\ rpc' = "finish"
          /\ rframe' = NoFrame
          /\ closes' = Closed(rframe)
       \/ /\ ~stop_flag
          /\ rpc' = "put"
          /\ UNCHANGED <<rframe, closes>>
    /\ UNCHANGED <<q, stop_flag, worker, app, stats, yielding>>

\* FrameQueue::put takes the frame within the grace window
ReaderPut ==
    /\ rpc = "put"
    /\ ~Full
    /\ q' = Enqueued(rframe)
    /\ rframe' = NoFrame
    /\ rpc' = "top"
    /\ UNCHANGED <<stop_flag, worker, app, closes, stats, yielding>>

\* FrameQueue::put gives up: the queue stayed full for kPutGraceS
ReaderPutTimeout ==
    /\ rpc = "put"
    /\ Full
    /\ rpc' = "evict"
    /\ UNCHANGED <<q, stop_flag, rframe, worker, app, closes, stats, yielding>>

ReaderEvict ==
    /\ rpc = "evict"
    /\ EvictOldest
    /\ rpc' = "offer"
    /\ UNCHANGED <<stop_flag, rframe, worker, app, errors, consecutive_errors,
                   yielding>>

\* Mutant: only a natural end sends the sentinel.
OnlyNaturalEnd == IF exhausted /\ ~stop_flag THEN "put_sentinel" ELSE "exiting"

HowReaderEnds == IF exhausted /\ ~stop_flag THEN "put_sentinel" ELSE "terminal"

ReaderFinish ==
    /\ rpc = "finish"
    /\ rpc' = HowReaderEnds
    /\ UNCHANGED <<q, stop_flag, rframe, worker, app, closes, stats, yielding>>

\* put_sentinel: blocks for as long as the queue is full
ReaderPutSentinel ==
    /\ rpc = "put_sentinel"
    /\ ~Full
    /\ q' = Enqueued(Sentinel)
    /\ rpc' = "exiting"
    /\ UNCHANGED <<stop_flag, rframe, worker, app, closes, stats, yielding>>

\* enqueue_terminal: try_put_sentinel
ReaderTerminal ==
    /\ rpc = "terminal"
    /\ \/ /\ ~Full
          /\ q' = Enqueued(Sentinel)
          /\ rpc' = "exiting"
       \/ /\ Full
          /\ rpc' = "terminal_evict"
          /\ UNCHANGED q
    /\ UNCHANGED <<stop_flag, rframe, worker, app, closes, stats, yielding>>

\* enqueue_terminal: try_get
ReaderTerminalEvict ==
    /\ rpc = "terminal_evict"
    /\ EvictOldest
    /\ rpc' = "terminal"
    /\ UNCHANGED <<stop_flag, rframe, worker, app, errors, consecutive_errors,
                   yielding>>

\* reader_done_.store(true); thread_exited()
ReaderExit ==
    /\ rpc = "exiting"
    /\ rpc' = "done"
    /\ UNCHANGED <<q, stop_flag, rframe, worker, app, closes, stats, yielding>>

-----------------------------------------------------------------------------
(* worker_loop *)

\* queue_.get()
WorkerGet ==
    /\ wpc = "get"
    /\ q # <<>>
    /\ q' = Tail(q)
    /\ wframe' = Head(q)
    /\ wpc' = IF Head(q) = Sentinel THEN "drain" ELSE "run"
    /\ UNCHANGED <<stop_flag, reader, wok, app, closes, stats, results>>

\* The last LastResultsKeep results once this frame's is appended.
Captured(f) ==
    LET all == Append(last_results, f)
    IN  IF Len(all) > LastResultsKeep
        THEN SubSeq(all, Len(all) - LastResultsKeep + 1, Len(all)) ELSE all

\* consecutive_errors_.store(0)
AfterSuccess == 0

\* pipeline_ and the sink return: note_success
WorkerRuns ==
    /\ wpc = "run"
    /\ wok' = TRUE
    /\ processed' = processed + 1
    /\ consecutive_errors' = AfterSuccess
    /\ last_results' = IF HasSink THEN last_results ELSE Captured(wframe)
    /\ wpc' = "release"
    /\ UNCHANGED <<q, stop_flag, reader, wframe, app, closes, dropped, errors>>

\* pipeline_ or the sink throws: record_error(exc, "pipeline")
WorkerFails ==
    /\ wpc = "run"
    /\ wok' = FALSE
    /\ errors' = errors + 1
    /\ consecutive_errors' = consecutive_errors + 1
    /\ wpc' = "release"
    /\ UNCHANGED <<q, stop_flag, reader, wframe, app, closes, dropped,
                   results>>

ErrorStops ==
    MaxConsecutiveErrors > 0 /\ consecutive_errors >= MaxConsecutiveErrors

\* Mutant: the error limit leaves the loop without telling the reader.
WorkerReleaseNoFlag ==
    /\ wpc = "release"
    /\ closes' = Closed(wframe)
    /\ wframe' = NoFrame
    /\ wpc' = IF ~wok /\ ErrorStops THEN "drain" ELSE "get"
    /\ UNCHANGED <<q, stop_flag, reader, wok, app, stats, results>>

\* item.frame.release(), then the error limit ends the run
WorkerRelease ==
    /\ wpc = "release"
    /\ closes' = Closed(wframe)
    /\ wframe' = NoFrame
    /\ IF ~wok /\ ErrorStops
       THEN stop_flag' = TRUE /\ wpc' = "drain"
       ELSE wpc' = "get" /\ UNCHANGED stop_flag
    /\ UNCHANGED <<q, reader, wok, app, stats, results>>

\* while (rest = queue_.try_get()): hand back what is still buffered
WorkerDrain ==
    /\ wpc = "drain"
    /\ \/ /\ q = <<>>
          /\ wpc' = "exiting"
          /\ UNCHANGED <<q, closes>>
       \/ /\ q # <<>>
          /\ q' = Tail(q)
          /\ closes' = Closed(Head(q))
          /\ UNCHANGED wpc
    /\ UNCHANGED <<stop_flag, reader, wframe, wok, app, stats, results>>

\* worker_done_.store(true); thread_exited()
WorkerExit ==
    /\ wpc = "exiting"
    /\ wpc' = "done"
    /\ UNCHANGED <<q, stop_flag, reader, wframe, wok, app, closes, stats,
                   results>>

-----------------------------------------------------------------------------
(* The application thread: start, stop, take_last_results, ~PipelineRunner *)

Finished == rpc = "done" /\ wpc = "done"

Start ==
    /\ apc = "new"
    /\ apc' = "idle"
    /\ stop_flag' = FALSE
    /\ rpc' = "top"
    /\ wpc' = "get"
    /\ UNCHANGED <<q, rframe, wframe, wok, stops, closes, stats, yielding,
                   results>>

TakeLastResults ==
    /\ apc \in {"new", "idle"}
    /\ last_results # <<>>
    /\ last_results' = <<>>
    /\ UNCHANGED <<q, stop_flag, reader, wpc, wframe, wok, processed, app,
                   closes, stats>>

StopCall ==
    /\ apc = "idle"
    /\ stops < MaxStops
    /\ stops' = stops + 1
    /\ stop_flag' = TRUE
    /\ apc' = "stop_terminal"
    /\ UNCHANGED <<q, reader, worker, closes, stats>>

\* ~PipelineRunner of a started runner; one that never started just goes away
Destroy ==
    /\ \/ /\ apc = "new"
          /\ apc' = "gone"
          /\ UNCHANGED stop_flag
       \/ /\ apc = "idle"
          /\ stop_flag' = TRUE
          /\ apc' = "destroy_terminal"
    /\ UNCHANGED <<q, reader, worker, stops, closes, stats>>

\* enqueue_terminal, called by stop() and by the destructor
AppTerminal ==
    /\ apc \in {"stop_terminal", "destroy_terminal"}
    /\ \/ /\ ~Full
          /\ q' = Enqueued(Sentinel)
          /\ apc' = IF apc = "stop_terminal" THEN "stop_wait" ELSE "join_reader"
       \/ /\ Full
          /\ apc' = IF apc = "stop_terminal" THEN "stop_evict" ELSE "destroy_evict"
          /\ UNCHANGED q
    /\ UNCHANGED <<stop_flag, reader, worker, stops, closes, stats>>

AppEvict ==
    /\ apc \in {"stop_evict", "destroy_evict"}
    /\ EvictOldest
    /\ apc' = IF apc = "stop_evict" THEN "stop_terminal" ELSE "destroy_terminal"
    /\ UNCHANGED <<stop_flag, reader, worker, stops, errors,
                   consecutive_errors>>

\* stop() returns: both threads are done, or timeout_s has passed
StopReturns ==
    /\ apc = "stop_wait"
    /\ apc' = "idle"
    /\ UNCHANGED <<q, stop_flag, reader, worker, stops, closes, stats>>

\* Mutant: the destructor does not wait for the reader.
ReaderDetached == TRUE

\* reader_.join() can return
ReaderJoined == rpc = "done"

JoinReader ==
    /\ apc = "join_reader"
    /\ ReaderJoined
    /\ apc' = "join_worker"
    /\ UNCHANGED <<q, stop_flag, reader, worker, stops, closes, stats>>

\* worker_.join(); then the members go, and queue_ closes what it still holds
JoinWorker ==
    /\ apc = "join_worker"
    /\ wpc = "done"
    /\ apc' = "gone"
    /\ closes' = [f \in Frames |->
                    IF \E i \in 1 .. Len(q) : q[i] = f THEN closes[f] + 1
                                                       ELSE closes[f]]
    /\ q' = <<>>
    /\ UNCHANGED <<stop_flag, reader, worker, stops, stats>>

-----------------------------------------------------------------------------
ReaderStep ==
    \/ ReaderTop \/ SourceYields \/ SourceEnds \/ SourceThrows \/ ReaderOffer
    \/ ReaderPut \/ ReaderPutTimeout \/ ReaderEvict \/ ReaderFinish
    \/ ReaderPutSentinel \/ ReaderTerminal \/ ReaderTerminalEvict \/ ReaderExit

WorkerStep ==
    WorkerGet \/ WorkerRuns \/ WorkerFails \/ WorkerRelease \/ WorkerDrain
    \/ WorkerExit

\* The steps of a call that has begun; making the call is the user's choice.
AppCallStep == AppTerminal \/ AppEvict \/ StopReturns \/ JoinReader \/ JoinWorker

\* Nothing is left to do once the runner is destroyed.
Gone == apc = "gone" /\ UNCHANGED vars

Next ==
    ReaderStep \/ WorkerStep \/ AppCallStep \/ Start \/ TakeLastResults
    \/ StopCall \/ Destroy \/ Gone

\* Each thread keeps running.  Fairness of ReaderStep includes the header's
\* contract that source() returns (runner.hpp: "give it a receive timeout").
Fairness == WF_vars(ReaderStep) /\ WF_vars(WorkerStep) /\ WF_vars(AppCallStep)

Spec == Init /\ [][Next]_vars
FairSpec == Spec /\ Fairness

-----------------------------------------------------------------------------
(* Properties *)

ControlType ==
    /\ stop_flag \in BOOLEAN /\ exhausted \in BOOLEAN /\ wok \in BOOLEAN
    /\ rpc \in ReaderPCs /\ wpc \in WorkerPCs /\ apc \in AppPCs

DataType ==
    /\ q \in Seq(0 .. MaxFrames)
    /\ rframe \in 0 .. MaxFrames /\ wframe \in 0 .. MaxFrames
    /\ produced \in 0 .. MaxFrames /\ stops \in 0 .. MaxStops
    /\ closes \in [Frames -> Nat]
    /\ processed \in Nat /\ dropped \in Nat /\ errors \in Nat
    /\ consecutive_errors \in Nat
    /\ last_results \in Seq(0 .. MaxFrames)

\* Every variable has its type: the counters never go negative.
TypeOK == ControlType /\ DataType

Queued(f) == \E i \in 1 .. Len(q) : q[i] = f
Held(f)   == f = rframe \/ f = wframe \/ Queued(f)

\* Every frame the source yielded is held by exactly one of the reader, the
\* queue and the worker with its handle still open, or has been released
\* exactly once (runner.hpp, "Frame ownership").
ReleasedOnce ==
    /\ \A f \in Frames :
          closes[f] = IF f <= produced /\ ~Held(f) THEN 1 ELSE 0
    /\ rframe = wframe => rframe = NoFrame
    /\ ~(rframe # NoFrame /\ Queued(rframe))
    /\ ~(wframe # NoFrame /\ Queued(wframe))

\* The frames of a runner: the state has its types, and every frame is held
\* once or released once.
FramesSound == TypeOK /\ ReleasedOnce

\* Latest-wins keeps the source's order: what the worker holds is older than
\* what is buffered, which is in order and older than what the reader holds.
InOrder ==
    /\ \A i, j \in 1 .. Len(q) :
          i < j /\ q[i] # Sentinel /\ q[j] # Sentinel => q[i] < q[j]
    /\ \A i \in 1 .. Len(q) :
          q[i] # Sentinel => /\ wframe < q[i]
                             /\ rframe # NoFrame => q[i] < rframe
    /\ rframe # NoFrame => wframe < rframe

\* FrameQueue never holds more than queue_size items, sentinels included, and
\* the sink-less capture never more than kLastResultsKeep results.
Bounded ==
    /\ Len(q) <= QueueSize
    /\ Len(last_results) <= LastResultsKeep

\* Once the reader has left its loop a worker that is still consuming will
\* meet a sentinel: one is buffered, or stop() or the destructor has shed it
\* and is about to offer another.
NoLostSentinel ==
    rpc \in {"exiting", "done"} /\ wpc \in {"get", "run", "release"} =>
        \/ Queued(Sentinel)
        \/ apc \in {"stop_terminal", "stop_evict",
                    "destroy_terminal", "destroy_evict"}

\* The final drain throws buffered frames away only when a stop was asked
\* for: a source that simply ends loses nothing that was buffered.
DrainsOnlyAfterStop ==
    wpc = "drain" /\ (\E f \in Frames : Queued(f)) => stop_flag

\* After the worker has drained and left, at most one frame (the one the
\* reader was already offering) can still be buffered.
AtMostOneLeftover ==
    wpc \in {"exiting", "done"} =>
        \A i, j \in 1 .. Len(q) :
            q[i] # Sentinel /\ q[j] # Sentinel => i = j

\* A destroyed runner has handed every frame back.
NothingLeaks == apc = "gone" => \A f \in 1 .. produced : closes[f] = 1

\* A stop request, or the end of the source, ends the worker.
WorkerEnds == (stop_flag \/ rpc = "finish") ~> (wpc = "done")

\* "the destructor stops and joins unconditionally" (runner.hpp:28): given a
\* source that returns, destruction completes.
DestructorReturns == (apc = "destroy_terminal") ~> (apc = "gone")
=============================================================================
