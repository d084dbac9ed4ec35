----------------------------- MODULE DspClient -----------------------------
(***************************************************************************)
(* DspClient (cpp/src/dsp.cpp): who owns the daemon's buffers.             *)
(*                                                                         *)
(* A *_hw call obtains buffers over the camera socket (DSP_ALLOC for a     *)
(* pool, DSP_IMPORT for a frame or an overlay), submits a job that uses    *)
(* them, and returns them with DSP_BUF_RELEASE or hands them on in a       *)
(* PendingDspJob or a DspBufferRef.  Threads share the client; one         *)
(* exchange is one action, since plane_lock is held throughout.  close()   *)
(* is serialised with the calls by the caller (detail/transport.hpp:12).   *)
(*                                                                         *)
(* A buffer is the number of its registration, and a pool is its one       *)
(* buffer.  resize, crop, multi-crop and convert differ in geometry only   *)
(* and are the operation "job"; pixels, formats, argument checks, the CPU  *)
(* legs, last_used_hw, gray8_refused and moved pools are left out.         *)
(***************************************************************************)
EXTENDS Integers, Sequences, FiniteSets, SequencesExt

CONSTANTS Threads,   \* threads that share the client
          MaxIds,    \* bound: buffers registered
          MaxJobs,   \* bound: jobs accepted
          MaxCalls,  \* bound: calls begun
          MaxConns   \* bound: connections made

ASSUME DspAssumption ==
    IsFiniteSet(Threads) /\ {MaxIds, MaxJobs, MaxCalls, MaxConns} \subseteq Nat

Ids  == 1 .. MaxIds
Jobs == 1 .. MaxJobs

VARIABLES
  conn,      \* the connection behind sock, 0 when sock < 0
  conns,     \* connections made so far
  status,    \* of conn: "ok", "desync" (misaligned stream) or "dead"
  late,      \* import replies still on the stream; 0 is a rejection
  reg,       \* daemon: the connection a buffer is registered on, or 0
  home,      \* daemon: the connection it was registered on at first
  made,      \* buffers registered so far
  running,   \* daemon: jobs not finished
  uses,      \* the buffers of a job
  jobs,      \* jobs accepted so far
  kind,      \* "pool" or "import"
  released,  \* released_ of a pool, done of an ImportOwnee
  live,      \* live_pools
  held,      \* buffers the application holds as pools or import ids
  out,       \* PendingDspJob and DspBufferRef objects, by job
  pc, call,  \* a thread's control point and its call
  todo,      \* what its call has yet to obtain
  own,       \* its owns list
  calls,     \* calls begun so far
  forgotten, \* history: imports whose Ownee was destroyed unreleased
  unheard,   \* history: buffers whose reply the client could not use
  expired,   \* history: running jobs that were given up on
  stray      \* history: released on a connection they are not registered on

wire   == <<conn, conns, status, late>>
daemon == <<reg, home, made, running, uses, jobs>>
objs   == <<kind, released, live, held, out>>
thr    == <<pc, call, todo, own, calls>>
hist   == <<forgotten, unheard, expired, stray>>
vars   == <<wire, daemon, objs, thr, hist>>

NoCall == [op |-> "none", mode |-> "sync", given |-> FALSE, borrowed |-> {}, dst |-> 0,
           job |-> 0]
NoOut  == [form |-> "none", st |-> "released", dst |-> 0, own |-> <<>>]

Init ==
    /\ conn = 0 /\ conns = 0 /\ status = "ok" /\ late = <<>>
    /\ reg = [i \in Ids |-> 0] /\ home = [i \in Ids |-> 0] /\ made = 0
    /\ running = {} /\ uses = [j \in Jobs |-> {}] /\ jobs = 0
    /\ kind = [i \in Ids |-> "pool"] /\ released = {} /\ live = {} /\ held = {}
    /\ out = [j \in Jobs |-> NoOut]
    /\ pc = [t \in Threads |-> "idle"] /\ call = [t \in Threads |-> NoCall]
    /\ todo = [t \in Threads |-> <<>>] /\ own = [t \in Threads |-> <<>>] /\ calls = 0
    /\ forgotten = {} /\ unheard = {} /\ expired = {} /\ stray = {}

-----------------------------------------------------------------------------
(* Beginning a call *)

Source(src) == CASE src = "array"  -> <<"pool">>
                 [] src = "handle" -> <<"import">>
                 [] OTHER          -> <<>>

\* What a call obtains, in order.  blend_hw copies a device-side base into
\* its own pool with a job of its own, and imports its overlay last.
Plan(op, src, given) ==
    LET dest == IF given THEN <<>> ELSE <<"pool">>
    IN CASE op = "job"    -> Source(src) \o dest
         [] op = "encode" -> Source(src)
         [] op = "blend"  -> dest
                             \o (CASE src = "array"  -> <<>>
                                   [] src = "handle" -> <<"import", "copy">>
                                   [] OTHER          -> <<"copy">>)
                             \o <<"import">>
         [] op = "alloc"  -> <<"pool">>
         [] op = "import" -> <<"import">>
         [] op = "shared" -> <<"import", "import">>

Begin(t, op, mode, todos, borrowed, dst) ==
    /\ pc[t] = "idle" /\ calls < MaxCalls
    /\ calls' = calls + 1
    /\ call' = [call EXCEPT ![t] = [op |-> op, mode |-> mode, given |-> dst # 0,
                                    borrowed |-> borrowed, dst |-> dst, job |-> 0]]
    /\ todo' = [todo EXCEPT ![t] = todos]
    /\ pc' = [pc EXCEPT ![t] = IF todos = <<>> THEN "submit" ELSE "obtain"]
    /\ UNCHANGED <<wire, daemon, objs, own, hist>>

\* What a call may be given: pools as src_pool or dst_pool, an import id as
\* encode_jpeg_hw's src_buffer_id, a ref that is not released (its pool may
\* have died in close()).
GivenPools == {i \in held : kind[i] = "pool" /\ i \notin released}
GivenIds   == {i \in held : kind[i] = "import"}
LiveRefs   == {j \in Jobs : out[j].form = "ref" /\ out[j].st = "alive"}

\* resize_hw, crop_hw, multi_crop_hw, convert_hw, blend_hw, encode_jpeg_hw
BeginJob(t, op, mode, src, dst) ==
    /\ pc[t] = "idle" /\ calls < MaxCalls
    /\ dst \in GivenPools \cup {0}
    /\ op = "encode" => mode = "sync" /\ dst = 0
    /\ \/ /\ src \in {"array", "handle"}
          /\ Begin(t, op, mode, Plan(op, src, dst # 0), {dst} \ {0}, dst)
       \/ /\ src = "pool" /\ op # "blend"
          /\ \E i \in GivenPools \cup (IF op = "encode" THEN GivenIds ELSE {}) :
                Begin(t, op, mode, Plan(op, src, dst # 0), {i, dst} \ {0}, dst)
       \/ /\ src = "ref"
          /\ \E j \in LiveRefs :
                Begin(t, op, mode, Plan(op, src, dst # 0), {out[j].dst, dst} \ {0}, dst)

\* alloc_buffers, import_frame, import_shared_buffers
BeginObtain(t, op) == Begin(t, op, "sync", Plan(op, "none", FALSE), {}, 0)

-----------------------------------------------------------------------------
(* Exchanges on the camera socket *)

IsPool(i)   == kind[i] = "pool"
IsImport(i) == kind[i] = "import"

\* The exchange stands inside the try whose handler releases the owns.
InTry(t) == call[t].op \in {"blend", "shared"}

\* Where a thread goes that has these owns to release or to destroy.
AfterOwns(owns, label) == IF owns = <<>> THEN "idle" ELSE label

\* The call is over, but for what becomes of its owns.
Leaves(t, owns, label) ==
    /\ pc' = [pc EXCEPT ![t] = AfterOwns(owns, label)]
    /\ own' = [own EXCEPT ![t] = owns]
    /\ call' = [call EXCEPT ![t] = NoCall]
    /\ todo' = [todo EXCEPT ![t] = <<>>]

\* The handler's release_owned.
ReleasesAll(t) == Leaves(t, own[t], "free")

\* The owns vector is destroyed.
DestroysOwns(t) == Leaves(t, own[t], "destroy")

ExchangeThrows(t) ==
    /\ IF InTry(t) THEN ReleasesAll(t) ELSE DestroysOwns(t)
    /\ UNCHANGED <<held, live>>

\* The id is the call's; after the last one the call submits, or returns the
\* pool or the import ids to the application.
Obtained(t, id) ==
    LET owns == Append(own[t], id)
        rest == Tail(todo[t])
    IN /\ \/ /\ rest = <<>> /\ call[t].op \in {"alloc", "import", "shared"}
             /\ Leaves(t, <<>>, "free")
             /\ held' = held \cup ToSet(owns)
          \/ /\ rest # <<>> \/ call[t].op \in {"job", "blend", "encode"}
             /\ todo' = [todo EXCEPT ![t] = rest]
             /\ own' = [own EXCEPT ![t] = owns]
             /\ pc' = [pc EXCEPT ![t] = IF rest = <<>> THEN "submit" ELSE "obtain"]
             /\ call' = [call EXCEPT ![t].dst =
                           IF kind'[id] = "pool" /\ ~call[t].given THEN id ELSE @]
             /\ UNCHANGED held
       /\ live' = IF kind'[id] = "pool" THEN live \cup {id} ELSE live

Obtaining(t, what) == pc[t] = "obtain" /\ Head(todo[t]) = what

\* ensure_sock
ensure_sock ==
    /\ conn # 0 \/ conns < MaxConns
    /\ conn' = IF conn = 0 THEN conns + 1 ELSE conn
    /\ conns' = IF conn = 0 THEN conns + 1 ELSE conns

\* The daemon registers a buffer and answers with its id, or refuses.
Registers(k) ==
    /\ made < MaxIds
    /\ made' = made + 1
    /\ reg' = [reg EXCEPT ![made + 1] = conn']
    /\ home' = [home EXCEPT ![made + 1] = conn']
    /\ kind' = [kind EXCEPT ![made + 1] = k]

Refuses == UNCHANGED <<made, reg, home, kind>>

\* exchange_alloc.  Bytes of a late import reply in front of the answer make
\* it unreadable, and everything after it.
AllocReturns(t) ==
    /\ Obtaining(t, "pool") /\ status = "ok" /\ late = <<>>
    /\ ensure_sock
    /\ Registers("pool") /\ Obtained(t, made + 1)
    /\ UNCHANGED <<status, late, running, uses, jobs, released, out, calls, hist>>

AllocThrows(t) ==
    /\ Obtaining(t, "pool") /\ ensure_sock
    /\ \/ (status = "dead" \/ late = <<>>) /\ Refuses /\ UNCHANGED <<status, unheard>>
       \/ /\ status # "dead" /\ (late # <<>> \/ status = "desync")
          /\ status' = "desync"
          /\ Registers("pool") /\ unheard' = unheard \cup {made + 1}
    /\ ExchangeThrows(t)
    /\ UNCHANGED <<late, running, uses, jobs, released, out, calls, forgotten, expired, stray>>

\* Nobody answers connect().
ConnectThrows(t) ==
    /\ pc[t] = "obtain" /\ Head(todo[t]) # "copy" /\ conn = 0
    /\ ExchangeThrows(t)
    /\ UNCHANGED <<wire, daemon, kind, released, out, calls, hist>>

\* import_planes: the first import reply on the stream is taken for the
\* answer.
ImportReturns(t) ==
    /\ Obtaining(t, "import") /\ status = "ok" /\ ensure_sock
    /\ \/ Registers("import") /\ late' = Tail(Append(late, made + 1))
          /\ LET id == Head(Append(late, made + 1))
             IN IF id = 0 THEN ExchangeThrows(t) ELSE Obtained(t, id)
       \/ Refuses /\ late' = Tail(Append(late, 0))
          /\ LET id == Head(Append(late, 0))
             IN IF id = 0 THEN ExchangeThrows(t) ELSE Obtained(t, id)
    /\ UNCHANGED <<status, running, uses, jobs, released, out, calls, hist>>

\* No reply in timeout_s; it stays on the stream.
ImportTimesOut(t) ==
    /\ Obtaining(t, "import") /\ status = "ok" /\ ensure_sock
    /\ \/ Registers("import") /\ late' = Append(late, made + 1)
       \/ Refuses /\ late' \in {late, Append(late, 0)}
    /\ ExchangeThrows(t)
    /\ UNCHANGED <<status, running, uses, jobs, released, out, calls, hist>>

ImportThrows(t) ==
    /\ Obtaining(t, "import") /\ status # "ok"
    /\ \/ Refuses /\ UNCHANGED unheard
       \/ status = "desync" /\ conn' = conn /\ Registers("import")
          /\ unheard' = unheard \cup {made + 1}
    /\ ExchangeThrows(t)
    /\ UNCHANGED <<wire, running, uses, jobs, released, out, calls, forgotten, expired, stray>>

\* released_: the pool was poisoned by close().
Spent(i) == IsPool(i) /\ i \in released

\* send_release, from release_owned, DspBufferPool::release or release_buffer.
send_release(i) ==
    /\ released' = released \cup {i}
    /\ live' = live \ {i}
    /\ IF conn = 0 \/ status = "dead" \/ Spent(i) THEN UNCHANGED <<reg, stray>>
       ELSE /\ reg' = [reg EXCEPT ![i] = IF @ = conn THEN 0 ELSE @]
            /\ stray' = IF reg[i] = conn THEN stray ELSE stray \cup {i}

\* The next of the owns goes, after release_owned or in the destructor of the
\* vector, where a pool releases itself and an ImportOwnee does nothing.
Free(t) ==
    /\ pc[t] \in {"free", "destroy"}
    /\ LET i == Head(own[t])
       IN \/ /\ pc[t] = "free" \/ IsPool(i)
             /\ send_release(i)
             /\ UNCHANGED forgotten
          \/ /\ pc[t] = "destroy" /\ IsImport(i)
             /\ forgotten' = forgotten \cup {i}
             /\ UNCHANGED <<released, live, reg, stray>>
    /\ own' = [own EXCEPT ![t] = Tail(@)]
    /\ pc' = [pc EXCEPT ![t] = AfterOwns(Tail(own[t]), @)]
    /\ UNCHANGED <<wire, home, made, running, uses, jobs, kind, held, out, call, todo,
                   calls, unheard, expired>>

-----------------------------------------------------------------------------
(* Jobs *)

Submitting(t) == pc[t] = "submit" \/ Obtaining(t, "copy")

\* The handler of the submit releases the owns, whatever was thrown.
SubmitThrows(t) ==
    /\ Submitting(t)
    /\ ReleasesAll(t)
    /\ UNCHANGED <<wire, daemon, objs, calls, hist>>

\* ref_ensure_alive has found no dead pool, the daemon knows every buffer.
Accepted(t) ==
    /\ jobs < MaxJobs
    /\ jobs' = jobs + 1
    /\ running' = running \cup {jobs + 1}
    /\ uses' = [uses EXCEPT ![jobs + 1] = ToSet(own[t]) \cup call[t].borrowed]
    /\ \A i \in uses'[jobs + 1] : reg[i] # 0 /\ ~Spent(i)
    /\ UNCHANGED <<reg, home, made>>

\* SubmitDspJob or EncodeImage is sent.
SubmitSync(t) ==
    /\ Submitting(t) /\ Accepted(t)
    /\ call' = [call EXCEPT ![t].job = jobs + 1]
    /\ pc' = [pc EXCEPT ![t] = "running"]
    /\ UNCHANGED <<wire, objs, todo, own, calls, hist>>

\* make_pending, make_ref
HandsOver(t, j, form, st) ==
    /\ out' = [out EXCEPT ![j] = [form |-> form, st |-> st, dst |-> call[t].dst, own |-> own[t]]]
    /\ Leaves(t, <<>>, "free")

\* SubmitDspJobAsync answers with a job id.
SubmitAsync(t) ==
    /\ pc[t] = "submit" /\ call[t].mode = "pending" /\ Accepted(t)
    /\ HandsOver(t, jobs + 1, "pending", "pending")
    /\ UNCHANGED <<wire, kind, released, live, held, calls, hist>>

\* Mutant: the sync path keeps the temporaries.
KeepsTemporaries(t) == Leaves(t, <<>>, "free")

\* The read-back and release_owned.
ReadsBack(t) == ReleasesAll(t)

\* blend_hw's "pixels ARE the caller's slot"
IntoCallersPool(t) == call[t].op = "blend" /\ call[t].given /\ call[t].mode # "pending"

\* The job has succeeded.  A copy goes on; a blend into the caller's pool
\* returns at once and destroys its owns; an old daemon's pending job is born
\* done.
JobReturns(t) ==
    /\ pc[t] = "running" /\ call[t].job \notin running
    /\ IF todo[t] # <<>>
       THEN /\ todo' = [todo EXCEPT ![t] = Tail(@)]
            /\ pc' = [pc EXCEPT ![t] = "obtain"]
            /\ UNCHANGED <<own, call, out>>
       ELSE CASE call[t].mode = "pending" ->
                   HandsOver(t, call[t].job, "pending", "done")
              [] IntoCallersPool(t) -> DestroysOwns(t) /\ UNCHANGED out
              [] call[t].mode = "ref" /\ ~IntoCallersPool(t) ->
                   HandsOver(t, call[t].job, "ref", "alive")
              [] OTHER -> ReadsBack(t) /\ UNCHANGED out
    /\ UNCHANGED <<wire, daemon, kind, released, live, held, calls, hist>>

\* The job failed, or the rpc's deadline passed while it runs.
JobThrows(t) ==
    /\ pc[t] = "running"
    /\ expired' = expired \cup ({call[t].job} \cap running)
    /\ ReleasesAll(t)
    /\ UNCHANGED <<wire, daemon, objs, calls, forgotten, unheard, stray>>

\* The daemon finishes a job.
JobEnds(j) ==
    /\ j \in running
    /\ running' = running \ {j} /\ expired' = expired \ {j}
    /\ UNCHANGED <<wire, reg, home, made, uses, jobs, objs, thr, forgotten, unheard, stray>>

-----------------------------------------------------------------------------
(* PendingDspJob, DspBufferRef and what the application holds *)

IsPending(j) == out[j].form = "pending" /\ out[j].st = "pending"

\* done(), wait_result(): the job is over, or done() takes a lost rpc for the
\* job's failure.
Settles(j) ==
    /\ IsPending(j)
    /\ out' = [out EXCEPT ![j].st = "done"]
    /\ expired' = expired \cup ({j} \cap running)
    /\ UNCHANGED <<wire, daemon, kind, released, live, held, thr, forgotten, unheard, stray>>

\* kReleased, and the owns are gone.
Emptied(o) == [o EXCEPT !.st = "released", !.own = <<>>]

\* Mutant: a pending job is not waited for.
NoWait(j) == {}

\* The jobs given up on after the bounded wait of release().
GivenUp(j) == IF IsPending(j) THEN {j} \cap running ELSE {}

\* No call and no pending job of the application still uses the buffer.
Unborrowed(i) ==
    /\ \A t \in Threads : pc[t] # "idle" => i \notin call[t].borrowed
    /\ \A j \in Jobs : IsPending(j) => i \notin uses[j]

\* PendingDspJob::release, also at the end of wait(); DspBufferRef::release.
ReleaseOut(t, j) ==
    /\ pc[t] = "idle" /\ out[j].st # "released"
    /\ out[j].form = "ref" => Unborrowed(out[j].dst)
    /\ expired' = expired \cup GivenUp(j)
    /\ own' = [own EXCEPT ![t] = out[j].own]
    /\ out' = [out EXCEPT ![j] = Emptied(@)]
    /\ pc' = [pc EXCEPT ![t] = AfterOwns(out[j].own, "free")]
    /\ UNCHANGED <<wire, daemon, kind, released, live, held, call, todo, calls, forgotten,
                   unheard, stray>>

\* The application releases a pool, a shared ring or an import id.
ReleaseHeld(i) ==
    /\ i \in held /\ Unborrowed(i)
    /\ send_release(i)
    /\ held' = held \ {i}
    /\ UNCHANGED <<wire, home, made, running, uses, jobs, kind, out, thr, forgotten,
                   unheard, expired>>

\* Mutant: close() leaves the pools alone.
NoPools == {}

\* mark_pools_dead
DeadPools == live

\* close(): the pools are poisoned, the daemon reclaims what was registered
\* on the connection.
close ==
    /\ \A t \in Threads : pc[t] = "idle"
    /\ conn # 0
    /\ released' = released \cup DeadPools
    /\ live' = {}
    /\ reg' = [i \in Ids |-> IF reg[i] = conn THEN 0 ELSE reg[i]]
    /\ conn' = 0 /\ status' = "ok" /\ late' = <<>>
    /\ UNCHANGED <<conns, home, made, running, uses, jobs, kind, held, out, thr, hist>>

\* The daemon goes away; the client notices only when an exchange fails, and
\* sock stays what it is.
DaemonGone ==
    /\ conn # 0 /\ status # "dead"
    /\ status' = "dead" /\ late' = <<>>
    /\ reg' = [i \in Ids |-> IF reg[i] = conn THEN 0 ELSE reg[i]]
    /\ UNCHANGED <<conn, conns, home, made, running, uses, jobs, objs, thr, hist>>

-----------------------------------------------------------------------------
Next ==
    \/ close \/ DaemonGone
    \/ \E j \in Jobs : JobEnds(j) \/ Settles(j)
    \/ \E i \in Ids : ReleaseHeld(i)
    \/ \E t \in Threads :
        \/ \E op \in {"job", "blend", "encode"}, mode \in {"sync", "ref", "pending"},
              src \in {"array", "handle", "pool", "ref"}, dst \in 0 .. MaxIds :
              BeginJob(t, op, mode, src, dst)
        \/ \E op \in {"alloc", "import", "shared"} : BeginObtain(t, op)
        \/ AllocReturns(t) \/ AllocThrows(t) \/ ConnectThrows(t)
        \/ ImportReturns(t) \/ ImportTimesOut(t) \/ ImportThrows(t)
        \/ SubmitThrows(t) \/ SubmitSync(t) \/ SubmitAsync(t)
        \/ JobReturns(t) \/ JobThrows(t) \/ Free(t)
        \/ \E j \in Jobs : ReleaseOut(t, j)

Spec == Init /\ [][Next]_vars

-----------------------------------------------------------------------------
(* Properties *)

\* Types; a thread that submits or runs has nothing left to obtain but copies.
TypeOK ==
    /\ conn \in 0 .. conns /\ conns \in 0 .. MaxConns
    /\ status \in {"ok", "desync", "dead"} /\ late \in Seq(0 .. made)
    /\ reg \in [Ids -> 0 .. conns] /\ home \in [Ids -> 0 .. conns] /\ made \in 0 .. MaxIds
    /\ running \subseteq 1 .. jobs /\ jobs \in 0 .. MaxJobs /\ uses \in [Jobs -> SUBSET Ids]
    /\ kind \in [Ids -> {"pool", "import"}]
    /\ released \cup held \subseteq 1 .. made /\ live \subseteq 1 .. made \ released
    /\ \A j \in Jobs : out[j].st \in {"pending", "done", "alive", "released"}
    /\ pc \in [Threads -> {"idle", "obtain", "submit", "running", "free", "destroy"}]
    /\ own \in [Threads -> Seq(Ids)] /\ calls \in 0 .. MaxCalls
    /\ \A t \in Threads : pc[t] = "idle" => own[t] = <<>>

\* The places that answer for buffer i: a thread's owns list, a pending job's
\* or a ref's, the application, a reply nobody has read, or none of them.
Keepers(i) ==
    ({"thread"} \X {x \in Threads \X Ids : x[2] \in DOMAIN own[x[1]] /\ own[x[1]][x[2]] = i})
    \cup ({"object"} \X {x \in Jobs \X Ids : x[2] \in DOMAIN out[x[1]].own
                                               /\ out[x[1]].own[x[2]] = i})
    \cup ({"stream"} \X {n \in DOMAIN late : late[n] = i})
    \cup ({"app"} \X (held \cap {i}))
    \cup ({"nobody"} \X ((forgotten \cup unheard) \cap {i}))

\* Every buffer the daemon holds for this client has exactly one keeper, on
\* every success, failure, timeout and hand-over path: none is leaked but the
\* imports DestroysOwns forgets and the answers a desynchronised stream
\* swallows, and no two objects release the same one.
OneKeeper ==
    \A i \in 1 .. made : conn # 0 /\ reg[i] = conn => Cardinality(Keepers(i)) = 1

\* DSP_BUF_RELEASE names a buffer of this connection, once: close() has
\* poisoned every pool of an earlier one, and only an import that outlived a
\* close() and a reconnect is released on the wrong connection.
StrayOnlyImports == \A i \in stray : IsImport(i) /\ home[i] < conns

\* A buffer goes back while a job that uses it runs only if the client has
\* waited that job's timeout out, or lost the rpc that should have told.
BuffersOutliveJobs ==
    [][\A i \in Ids, j \in running' :
          reg[i] # 0 /\ reg'[i] = 0 /\ conn' = conn /\ status' = status /\ i \in uses[j]
              => j \in expired']_vars


\* The identifiers of the DSP connection: well-typed, no id both live and
\* released, and none released on a connection that does not know it, but for
\* the imports of StrayOnlyImports.
IdsSound == TypeOK /\ StrayOnlyImports
=============================================================================
