--------------------------- MODULE FramePublisher ---------------------------
(***************************************************************************)
(* FramePublisher (cpp/src/injection.cpp): an application writes frames    *)
(* into the slots of a buffer pool and pushes slot ids to the camera       *)
(* daemon, which queues at most three, bakes one at a time into the        *)
(* encoder's input and drops the oldest on overflow.  The daemon reads the *)
(* same memory the application writes, so the write lease decides which    *)
(* slot may be rewritten: the daemon reports the ids it still holds, and   *)
(* the publisher keeps the latest report in in_flight_.                    *)
(*                                                                         *)
(* A buffer is its id: 0 .. PoolDepth - 1 for the pool, PoolDepth for the  *)
(* one-deep NV12 stage of publish_rgb.  Its pixels are the number of the   *)
(* write that produced them.  An RPC is one step whose outcome is "ok",    *)
(* "refused" (the daemon never saw it) or "lost" (the daemon acted, the    *)
(* answer did not arrive); the last two throw.  The daemon is external.    *)
(***************************************************************************)
EXTENDS Integers, Sequences, FiniteSets

CONSTANTS PoolDepth,    \* pool_depth, at least 1
          MaxBatch,     \* bound: frames of one publish_stream
          MaxWrites,    \* bound: frames written altogether
          Outcomes,     \* outcomes of an RPC
          Reports       \* the daemon reports its in-flight set

ASSUME PublisherAssumption ==
    /\ PoolDepth \in Nat \ {0}
    /\ MaxBatch \in Nat
    /\ MaxWrites \in Nat
    /\ Outcomes \subseteq {"ok", "refused", "lost"}
    /\ Reports \in BOOLEAN

VARIABLES pc,          \* the control point of the call in progress
          op,          \* the call: "publish", "rgb", "batch" or "none"
          slot,        \* the buffer the call has written
          cursor,      \* slot_cursor_
          lease,       \* lease_
          in_flight,   \* in_flight_
          specs,       \* publish_stream's requests not yet sent
          with_eos,    \* its end_with_eos
          rgb_pool, nv12_stage,    \* whether these pools exist
          published_any, eos_sent, closed,
          pixels,      \* for each buffer, the write it holds
          writes,      \* writes so far
          dqueue,      \* daemon: ids queued for the bake
          baking,      \* daemon: set of ids being baked, at most one
          stale        \* history: in_flight_ lacks what the daemon or the batch holds

staging == <<rgb_pool, nv12_stage>>
batch   == <<specs, with_eos>>
session == <<published_any, eos_sent, closed>>
daemon  == <<dqueue, baking>>
memory  == <<pixels, writes>>
vars == <<pc, op, slot, cursor, lease, in_flight, batch, staging, session,
          memory, daemon, stale>>

Pool    == 0 .. PoolDepth - 1
StageId == PoolDepth
Buffers == 0 .. PoolDepth

Elements(s) == {s[i] : i \in 1 .. Len(s)}

\* "queued or mid-bake"
DaemonHolds == Elements(dqueue) \cup baking

Unsent == {spec.id : spec \in Elements(specs)}

\* The constructor probes for the lease; a probe that fails means no lease.
Init ==
    /\ pc = "idle" /\ op = "none" /\ slot = 0 /\ cursor = 0
    /\ lease \in {FALSE, Reports}
    /\ in_flight = {} /\ specs = <<>> /\ with_eos = FALSE
    /\ rgb_pool = FALSE /\ nv12_stage = FALSE
    /\ published_any = FALSE /\ eos_sent = FALSE /\ closed = FALSE
    /\ pixels = [b \in Buffers |-> 0] /\ writes = 0
    /\ dqueue = <<>> /\ baking = {}
    /\ stale = FALSE

-----------------------------------------------------------------------------
(* The daemon *)

QueueCap == 3

\* A pushed id enters the queue, drop-oldest.
Queued(id) ==
    Append(IF Len(dqueue) >= QueueCap THEN Tail(dqueue) ELSE dqueue, id)

BakeBegins ==
    /\ baking = {} /\ dqueue # <<>>
    /\ baking' = {Head(dqueue)}
    /\ dqueue' = Tail(dqueue)
    /\ UNCHANGED <<pc, op, slot, cursor, lease, in_flight, batch, staging,
                   session, memory, stale>>

BakeEnds ==
    /\ baking # {}
    /\ baking' = {}
    /\ UNCHANGED <<pc, op, slot, cursor, lease, in_flight, batch, staging,
                   session, memory, dqueue, stale>>

-----------------------------------------------------------------------------
(* acquire_slot_ids, legacy_slot and the write that follows *)

\* Back to the application, by return or by exception.
Returns ==
    /\ pc' = "idle" /\ op' = "none" /\ specs' = <<>> /\ with_eos' = FALSE

\* Mutant: the lease set is not consulted.
AnyCandidate(ids) == ids

\* The ids pick_free_slot may return: not in flight, and in legacy mode all.
FreeIds(ids) == IF lease THEN ids \ in_flight ELSE ids

\* Steps of the rotation from the cursor to a slot.
Distance(s) == (s - cursor) % PoolDepth

\* The first free slot at or after the cursor.
PickedSlot(s) ==
    /\ s \in FreeIds(Pool)
    /\ \A t \in FreeIds(Pool) : Distance(s) <= Distance(t)

CursorAfter(s) == (s + 1) % PoolDepth

\* pool_write, a device-side write into an acquired slot, or convert_hw
Write(s) ==
    /\ pixels' = [pixels EXCEPT ![s] = writes + 1]
    /\ writes' = writes + 1

\* publish and acquire_slot: acquire, write, then push (push_slot).
AcquirePool ==
    /\ pc = "acquire" /\ op = "publish"
    /\ \E s \in Pool :
         PickedSlot(s) /\ cursor' = CursorAfter(s) /\ Write(s) /\ slot' = s
    /\ published_any' = TRUE
    /\ pc' = "push"
    /\ UNCHANGED <<op, lease, in_flight, batch, staging, eos_sent, closed,
                   daemon, stale>>

\* Mutant: the batch does not mark its slots.
NoMark(s) == in_flight

\* publish_stream marks each slot when it builds the request.
Marked(s) == IF lease THEN in_flight \cup {s} ELSE in_flight

AcquireForBatch ==
    /\ pc = "acquire" /\ op = "batch"
    /\ \E s \in Pool :
         /\ PickedSlot(s) /\ cursor' = CursorAfter(s) /\ Write(s) /\ slot' = s
         /\ in_flight' = Marked(s)
         /\ specs' = Append(specs, [id |-> s, pixels |-> writes + 1])
    /\ pc' = "build"
    /\ UNCHANGED <<op, lease, with_eos, staging, session, daemon, stale>>

\* publish_rgb waits for its stage, a rotation over one id that resets the
\* cursor of the pool.
AcquireStage ==
    /\ pc = "acquire" /\ op = "rgb" /\ nv12_stage
    /\ FreeIds({StageId}) # {}
    /\ cursor' = 0
    /\ pc' = "convert"
    /\ UNCHANGED <<op, slot, lease, in_flight, batch, staging, session, memory,
                   daemon, stale>>

\* Mutant: a refresh only adds ids.
RefreshAdds == in_flight \cup DaemonHolds

\* set_from(st.in_flight_buffer_ids, in_flight_)
Snapshot == DaemonHolds

NothingFree == FreeIds(IF op = "rgb" THEN {StageId} ELSE Pool) = {}

\* refresh_in_flight.  The snapshot replaces the marks of a batch that has not
\* been sent.
Refresh ==
    /\ pc = "acquire" /\ NothingFree
    /\ "ok" \in Outcomes
    /\ in_flight' = Snapshot
    /\ stale' = ~(Unsent \subseteq Snapshot)
    /\ UNCHANGED <<pc, op, slot, cursor, lease, batch, staging, session, memory,
                   daemon>>

\* lease_timeout_s is over, or GetInjectionStatus fails: throws.
AcquireThrows ==
    /\ pc = "acquire" /\ NothingFree
    /\ Returns
    /\ UNCHANGED <<slot, cursor, lease, in_flight, staging, session, memory,
                   daemon, stale>>

-----------------------------------------------------------------------------
(* publish, push_slot and publish_rgb *)

\* A closed publisher throws.
CallBegins(kind) ==
    /\ pc = "idle" /\ ~closed
    /\ writes < MaxWrites
    /\ op' = kind

PublishBegins ==
    /\ CallBegins("publish")
    /\ pc' = "acquire"
    /\ UNCHANGED <<slot, cursor, lease, in_flight, batch, staging, session,
                   memory, daemon, stale>>

\* absorb_lease
Absorbed == IF lease THEN DaemonHolds' ELSE in_flight

\* push_frame and absorb_lease
Push ==
    /\ pc = "push"
    /\ \/ /\ "ok" \in Outcomes
          /\ dqueue' = Queued(slot)
          /\ UNCHANGED baking
          /\ in_flight' = Absorbed
          /\ stale' = FALSE
       \/ /\ "lost" \in Outcomes
          /\ dqueue' = Queued(slot)
          /\ stale' = TRUE
          /\ UNCHANGED <<baking, in_flight>>
       \/ /\ "refused" \in Outcomes
          /\ UNCHANGED <<daemon, in_flight, stale>>
    /\ Returns
    /\ UNCHANGED <<slot, cursor, lease, staging, session, memory>>

\* publish_rgb allocates its pools at the first call, one after the other;
\* afterwards it looks only at the first and, in lease mode, waits for the
\* second.
RgbBegins ==
    /\ CallBegins("rgb")
    /\ \/ /\ ~rgb_pool
          /\ rgb_pool' = TRUE /\ nv12_stage' = TRUE
          /\ pc' = "convert"
       \/ /\ rgb_pool
          /\ pc' = IF lease THEN "acquire" ELSE "convert"
          /\ UNCHANGED staging
    /\ UNCHANGED <<slot, cursor, lease, in_flight, batch, session, memory,
                   daemon, stale>>

\* One of the two allocations throws.
RgbAllocFails ==
    /\ pc = "idle" /\ ~closed /\ ~rgb_pool
    /\ rgb_pool' \in BOOLEAN
    /\ UNCHANGED <<pc, op, slot, cursor, lease, in_flight, batch, nv12_stage,
                   session, memory, daemon, stale>>

\* convert_hw, with its copy after a CPU fallback; it may throw.
Convert ==
    /\ pc = "convert" /\ nv12_stage
    /\ \/ /\ Write(StageId) /\ slot' = StageId
          /\ published_any' = TRUE
          /\ pc' = "push"
          /\ UNCHANGED <<op, batch>>
       \/ Returns /\ UNCHANGED <<slot, memory, published_any>>
    /\ UNCHANGED <<cursor, lease, in_flight, staging, eos_sent, closed, daemon,
                   stale>>

\* publish_rgb goes on with nv12_stage_ null.
NullStage ==
    /\ pc \in {"acquire", "convert"} /\ op = "rgb" /\ ~nv12_stage
    /\ pc' = "crashed"
    /\ UNCHANGED <<op, slot, cursor, lease, in_flight, batch, staging, session,
                   memory, daemon, stale>>

-----------------------------------------------------------------------------
(* publish_stream: build every request, then one client-streaming RPC *)

BatchBegins ==
    /\ MaxBatch > 0
    /\ CallBegins("batch")
    /\ pc' = "build"
    /\ UNCHANGED <<slot, cursor, lease, in_flight, batch, staging, session,
                   memory, daemon, stale>>

NextFrame ==
    /\ pc = "build"
    /\ Len(specs) < MaxBatch /\ writes < MaxWrites
    /\ pc' = "acquire"
    /\ UNCHANGED <<op, slot, cursor, lease, in_flight, batch, staging, session,
                   memory, daemon, stale>>

\* published_any_ and eos_sent_ are set before the RPC.
BatchBuilt ==
    /\ pc = "build"
    /\ with_eos' \in BOOLEAN
    /\ published_any' = (published_any \/ specs # <<>>)
    /\ eos_sent' = (eos_sent \/ with_eos')
    /\ pc' = "stream"
    /\ UNCHANGED <<op, slot, cursor, lease, in_flight, specs, staging, closed,
                   memory, daemon, stale>>

StreamSends ==
    /\ pc = "stream" /\ specs # <<>>
    /\ dqueue' = Queued(Head(specs).id)
    /\ specs' = Tail(specs)
    /\ UNCHANGED <<pc, op, slot, cursor, lease, in_flight, with_eos, staging,
                   session, memory, baking, stale>>

\* The end of the RPC; the final EOS drops the daemon's queue.  The result's
\* lease set is not absorbed.
StreamDone ==
    /\ pc = "stream" /\ specs = <<>>
    /\ dqueue' = IF with_eos THEN <<>> ELSE dqueue
    /\ Returns
    /\ UNCHANGED <<slot, cursor, lease, in_flight, staging, session, memory,
                   baking, stale>>

StreamFails ==
    /\ pc = "stream"
    /\ Outcomes \ {"ok"} # {}
    /\ Returns
    /\ UNCHANGED <<slot, cursor, lease, in_flight, staging, session, memory,
                   daemon, stale>>

-----------------------------------------------------------------------------
(* EOS, close and the destructor *)

\* push_frame(eos_spec()): the daemon drops the session and its queue.
SendEos ==
    \/ "ok" \in Outcomes /\ dqueue' = <<>> /\ eos_sent' = TRUE
    \/ "lost" \in Outcomes /\ dqueue' = <<>> /\ UNCHANGED eos_sent
    \/ "refused" \in Outcomes /\ UNCHANGED <<dqueue, eos_sent>>

PublishEos ==
    /\ pc = "idle" /\ ~closed
    /\ SendEos
    /\ UNCHANGED <<pc, op, slot, cursor, lease, in_flight, batch, staging,
                   published_any, closed, memory, baking, stale>>

Close ==
    /\ pc = "idle"
    /\ closed' = TRUE
    /\ rgb_pool' = FALSE /\ nv12_stage' = FALSE
    /\ UNCHANGED <<pc, op, slot, cursor, lease, in_flight, batch,
                   published_any, eos_sent, memory, daemon, stale>>

EosAtExit == ~closed /\ published_any /\ ~eos_sent

Destroy ==
    /\ pc = "idle"
    /\ pc' = "gone"
    /\ \/ EosAtExit /\ SendEos
       \/ ~EosAtExit /\ UNCHANGED <<dqueue, eos_sent>>
    /\ closed' = TRUE
    /\ rgb_pool' = FALSE /\ nv12_stage' = FALSE
    /\ UNCHANGED <<op, slot, cursor, lease, in_flight, batch, published_any,
                   memory, baking, stale>>

Finished == pc \in {"gone", "crashed"} /\ UNCHANGED vars

-----------------------------------------------------------------------------
Acquire == AcquirePool \/ AcquireForBatch \/ AcquireStage \/ NullStage

Next ==
    \/ PublishBegins \/ Acquire \/ Refresh \/ AcquireThrows \/ Push
    \/ RgbBegins \/ RgbAllocFails \/ Convert
    \/ BatchBegins \/ NextFrame \/ BatchBuilt
    \/ StreamSends \/ StreamDone \/ StreamFails
    \/ PublishEos \/ Close \/ Destroy \/ Finished
    \/ BakeBegins \/ BakeEnds

Spec == Init /\ [][Next]_vars

(* The daemon consumes its queue and the publisher keeps polling; the      *)
(* timeout is not needed to end the wait.                                  *)
FairSpec ==
    /\ Spec
    /\ WF_vars(BakeBegins) /\ WF_vars(BakeEnds)
    /\ WF_vars(Refresh) /\ WF_vars(Acquire)

-----------------------------------------------------------------------------
(* Properties *)

Requests == [id : Pool, pixels : 1 .. MaxWrites]

\* Types, and the bound of the daemon's queue.
TypeOK ==
    /\ pc \in {"idle", "acquire", "convert", "push", "build", "stream", "gone",
              "crashed"}
    /\ op \in {"none", "publish", "rgb", "batch"}
    /\ slot \in Buffers /\ cursor \in Pool
    /\ in_flight \subseteq Buffers /\ baking \subseteq Buffers
    /\ specs \in Seq(Requests) /\ Len(specs) <= MaxBatch
    /\ dqueue \in Seq(Buffers) /\ Len(dqueue) <= QueueCap
    /\ {lease, with_eos, rgb_pool, nv12_stage, published_any, eos_sent, closed,
        stale} \subseteq BOOLEAN
    /\ pixels \in [Buffers -> 0 .. MaxWrites] /\ writes \in 0 .. MaxWrites

Rewritten(b) == pixels'[b] # pixels[b]

\* "a slot is rewritten only after the daemon acknowledges it is no longer
\* reading it", as long as the lease is not stale.  Only two events make it
\* stale, a lost answer and a refresh in the middle of a batch, and the next
\* answer repairs it.
NoTearing ==
    [][lease /\ ~stale => \A b \in DaemonHolds : ~Rewritten(b)]_vars

Intact == \A spec \in Elements(specs) : pixels[spec.id] = spec.pixels

\* A request of publish_stream still has the pixels it was built with when it
\* is sent, as long as the lease is not stale.
BatchIntact == lease /\ ~stale => Intact

\* A wait for a slot ends without its timeout while the daemon consumes, even
\* when failed calls left marks for frames that were never sent.
AcquireEnds == (pc = "acquire" /\ Reports) ~> (pc # "acquire")

\* The slot pool: the cursor and the marks stay within it, and what a request
\* names is what it was built from (injection.cpp:340-420).
PoolSound == TypeOK /\ BatchIntact
=============================================================================
