--------------------------- MODULE FrameRetention ---------------------------
(***************************************************************************)
(* Who gives a retained frame back: FrameHandle::close (media/frame.cpp),  *)
(* the FrameRetainer of weak entries behind retained_mu and the first half *)
(* of FdMediaClient::close (media/fd_media_client.cpp).                    *)
(*                                                                         *)
(* Holders are application threads, each with its own Frame copies, that   *)
(* receive keep_fd frames, copy them to each other, release() them and     *)
(* drop them; the thread that drops the last reference runs the handle's   *)
(* destructor.  Closer calls client.close().  A frame is its id; whether   *)
(* RELEASE reaches the daemon is the business of module FdMediaClient.     *)
(*                                                                         *)
(* One action is one critical section of retained_mu, one reference count  *)
(* operation or one access to closed_, which no lock protects.             *)
(***************************************************************************)
EXTENDS Integers

CONSTANTS Holders,    \* application threads
          Closer,     \* the thread that calls FdMediaClient::close()
          MaxFrames,  \* bound: frames received
          MaxCloses,  \* bound: calls of close()
          MaxCopies   \* bound: Frame copies handed to another thread

Threads == Holders \cup {Closer}
Frames  == 1 .. MaxFrames
None    == 0

ASSUME RetentionAssumption ==
    /\ Closer \notin Holders /\ None \notin Threads
    /\ MaxFrames \in Nat /\ MaxCloses \in Nat /\ MaxCopies \in Nat

VARIABLES
  received,  \* frames received so far: handles 1 .. received exist
  refs,      \* the threads that own a reference to a handle
  closed,    \* handles with closed_ = true
  items,     \* FrameRetainer::items_: the frames with an entry, which are added
             \* in the order of their ids
  mutex,     \* holder of retained_mu, or None
  pc,        \* a thread's control point in FrameHandle::close
  handle,    \* the handle it closes there
  temp,      \* the handle locked by its scan in FrameRetainer::discard
  pos,       \* the last entry that scan has passed
  kpc,       \* the control point of FdMediaClient::close
  held,      \* its vector of handles still to close
  closes,    \* calls of close() so far
  copies,    \* copies handed over so far
  fired,     \* history: how often a handle ran its release closure
  raced      \* history: handles that two threads found open at once

objects  == <<received, refs, closed>>
scan     == <<temp, pos>>
closing  == <<kpc, held, closes>>
history  == <<fired, raced>>
vars     == <<objects, items, mutex, pc, handle, scan, closing, copies, history>>

Init ==
    /\ received = 0 /\ refs = [f \in Frames |-> {}] /\ closed = {}
    /\ items = {} /\ mutex = None
    /\ pc = [t \in Threads |-> "out"] /\ handle = [t \in Threads |-> None]
    /\ temp = [t \in Threads |-> None] /\ pos = [t \in Threads |-> None]
    /\ kpc = "idle" /\ held = {} /\ closes = 0 /\ copies = 0
    /\ fired = [f \in Frames |-> 0] /\ raced = {}

\* weak_ptr::expired(): no thread and no running scan owns a reference.
Owners(f)  == refs[f] \cup {t \in Threads : temp[t] = f}
Expired(f) == Owners(f) = {}

\* FrameRetainer::prune.
Pruned == {f \in items : ~Expired(f)}

-----------------------------------------------------------------------------
(* Receiving and copying *)

\* recv_frame with keep_fd: make_shared<FrameHandle>, register_retained.
Receive(t) ==
    /\ t \in Holders /\ pc[t] = "out"
    /\ received < MaxFrames
    /\ mutex = None
    /\ received' = received + 1
    /\ refs' = [refs EXCEPT ![received + 1] = {t}]
    /\ items' = Pruned \cup {received + 1}
    /\ UNCHANGED <<closed, mutex, pc, handle, scan, closing, copies, history>>

\* A Frame is copied to another thread: one more owner of the shared_ptr.
Copy(t, u, f) ==
    /\ {t, u} \subseteq Holders /\ pc[t] = "out"
    /\ t \in refs[f] /\ u \notin refs[f]
    /\ copies < MaxCopies
    /\ copies' = copies + 1
    /\ refs' = [refs EXCEPT ![f] = @ \cup {u}]
    /\ UNCHANGED <<received, closed, items, mutex, pc, handle, scan, closing,
                   history>>

\* retained_frames() prunes before it counts.
RetainedFrames ==
    /\ mutex = None
    /\ items' = Pruned
    /\ UNCHANGED <<objects, mutex, pc, handle, scan, closing, copies, history>>

-----------------------------------------------------------------------------
(* FrameHandle::close *)

\* Thread t enters close() on f.
Enters(t, f) ==
    /\ pc' = [pc EXCEPT ![t] = "test"]
    /\ handle' = [handle EXCEPT ![t] = f]

\* Frame::release().
Release(t, f) ==
    /\ t \in Holders /\ pc[t] = "out" /\ t \in refs[f]
    /\ Enters(t, f)
    /\ UNCHANGED <<objects, items, mutex, scan, closing, copies, history>>

\* Mutant: dropping the last copy only frees the memory.
DestroySilently(t, f) == UNCHANGED <<pc, handle>>

\* ~FrameHandle, run by whoever gives up the last reference.
Destroy(t, f) == Enters(t, f)

\* A thread drops its Frame.
Drop(t, f) ==
    /\ t \in Holders /\ pc[t] = "out" /\ t \in refs[f]
    /\ refs' = [refs EXCEPT ![f] = @ \ {t}]
    /\ IF Owners(f) = {t} THEN Destroy(t, f) ELSE UNCHANGED <<pc, handle>>
    /\ UNCHANGED <<received, closed, items, mutex, scan, closing, copies, history>>

Closed(f) == f \in closed

\* if (closed_) return;  The flag is a plain bool: another thread that has
\* tested it and not yet set it is not seen.
Test(t) ==
    /\ pc[t] = "test"
    /\ IF Closed(handle[t])
       THEN /\ pc' = [pc EXCEPT ![t] = "out"]
            /\ handle' = [handle EXCEPT ![t] = None]
       ELSE /\ pc' = [pc EXCEPT ![t] = "fire"]
            /\ UNCHANGED handle
    /\ raced' = IF \E u \in Threads \ {t} : /\ pc[u] = "fire"
                                            /\ handle[u] = handle[t]
                THEN raced \cup {handle[t]} ELSE raced
    /\ UNCHANGED <<objects, items, mutex, scan, closing, copies, fired>>

\* closed_ = true, the plane fds are closed and on_release_ sends RELEASE.
Fire(t) ==
    /\ pc[t] = "fire"
    /\ closed' = closed \cup {handle[t]}
    /\ fired' = [fired EXCEPT ![handle[t]] = @ + 1]
    /\ pc' = [pc EXCEPT ![t] = "lock"]
    /\ UNCHANGED <<received, refs, items, mutex, handle, scan, closing, copies,
                   raced>>

-----------------------------------------------------------------------------
(* discard_retained, the closure's second half *)

\* lock_guard(retained_mu).  A thread that already holds it never passes.
Lock(t) ==
    /\ pc[t] = "lock" /\ mutex = None
    /\ mutex' = t
    /\ pc' = [pc EXCEPT ![t] = "scan"]
    /\ pos' = [pos EXCEPT ![t] = None]
    /\ UNCHANGED <<objects, items, handle, temp, closing, copies, history>>

\* it->lock().get() == h.
Found(t) == temp[t] = handle[t]

\* The entry f is the next one of t's scan.
AtEntry(t, f) ==
    /\ f \in items /\ f > pos[t]
    /\ \A g \in items : g > pos[t] => f <= g

\* it->lock() takes a reference for the length of the comparison.
ScanLocks(t, f) ==
    /\ pc[t] = "scan" /\ AtEntry(t, f)
    /\ temp' = [temp EXCEPT ![t] = IF Expired(f) THEN None ELSE f]
    /\ pc' = [pc EXCEPT ![t] = "compare"]
    /\ UNCHANGED <<objects, items, mutex, handle, pos, closing, copies, history>>

\* The temporary is not the last reference.
Harmless(t) == temp[t] # None => refs[temp[t]] # {}

\* Mutant: an entry that does not match is looked at for ever.
SamePos(t, f) == pos

NextPos(t, f) == [pos EXCEPT ![t] = f]

\* No match: drop the temporary and go on with the next entry.
ScanPasses(t, f) ==
    /\ pc[t] = "compare" /\ AtEntry(t, f) /\ ~Found(t) /\ Harmless(t)
    /\ temp' = [temp EXCEPT ![t] = None]
    /\ pos' = NextPos(t, f)
    /\ pc' = [pc EXCEPT ![t] = "scan"]
    /\ UNCHANGED <<objects, items, mutex, handle, closing, copies, history>>

\* Unlocking returns from the closure and from close().
Leaves(t) ==
    /\ mutex' = None
    /\ pc' = [pc EXCEPT ![t] = "out"]
    /\ handle' = [handle EXCEPT ![t] = None]
    /\ pos' = [pos EXCEPT ![t] = None]

\* Mutant: the entry stays.
KeptEntry(t) == items

Erased(t) == items \ {temp[t]}

\* The matching entry is erased.
ScanErases(t) ==
    /\ pc[t] = "compare" /\ Found(t) /\ Harmless(t)
    /\ items' = Erased(t)
    /\ temp' = [temp EXCEPT ![t] = None]
    /\ Leaves(t)
    /\ UNCHANGED <<objects, closing, copies, history>>

\* The end of the list: prune.
ScanEnds(t) ==
    /\ pc[t] = "scan" /\ \A f \in items : f <= pos[t]
    /\ items' = Pruned
    /\ Leaves(t)
    /\ UNCHANGED <<objects, temp, closing, copies, history>>

\* The temporary turns out to be the last reference: the other handle's
\* destructor runs inside the critical section.  Its close body runs if the
\* handle is still open, and then locks retained_mu a second time.
ScanDestroys(t) ==
    /\ pc[t] = "compare" /\ ~Harmless(t)
    /\ temp' = [temp EXCEPT ![t] = None]
    /\ IF Closed(temp[t])
       THEN /\ pos' = NextPos(t, temp[t])
            /\ pc' = [pc EXCEPT ![t] = "scan"]
            /\ UNCHANGED <<closed, handle, fired>>
       ELSE /\ closed' = closed \cup {temp[t]}
            /\ fired' = [fired EXCEPT ![temp[t]] = @ + 1]
            /\ pc' = [pc EXCEPT ![t] = "stuck"]
            /\ handle' = [handle EXCEPT ![t] = temp[t]]
            /\ UNCHANGED pos
    /\ UNCHANGED <<received, refs, items, mutex, closing, copies, raced>>

-----------------------------------------------------------------------------
(* FdMediaClient::close, up to the sockets *)

\* FrameRetainer::live: every handle that is not gone gets one more owner.
LiveOwned ==
    refs' = [f \in Frames |-> IF f \in Pruned THEN refs[f] \cup {Closer} ELSE refs[f]]

CloseBegins ==
    /\ kpc = "idle" /\ closes < MaxCloses
    /\ mutex = None
    /\ closes' = closes + 1
    /\ held' = Pruned
    /\ LiveOwned
    /\ items' = Pruned
    /\ kpc' = "release"
    /\ UNCHANGED <<received, closed, mutex, pc, handle, scan, copies, history>>

\* for (auto& h : held) h->close();
CloseNext(f) ==
    /\ kpc = "release" /\ pc[Closer] = "out" /\ f \in held
    /\ held' = held \ {f}
    /\ Enters(Closer, f)
    /\ UNCHANGED <<objects, items, mutex, scan, kpc, closes, copies, history>>

\* The sockets are closed and held goes out of scope.  Each handle in it has
\* been closed, so a destructor that runs here returns at once.
CloseEnds ==
    /\ kpc = "release" /\ pc[Closer] = "out" /\ held = {}
    /\ refs' = [f \in Frames |-> refs[f] \ {Closer}]
    /\ kpc' = "idle"
    /\ UNCHANGED <<received, closed, items, mutex, pc, handle, scan, held, closes,
                   copies, history>>

-----------------------------------------------------------------------------
Step(t) == \/ Test(t) \/ Fire(t) \/ Lock(t)
           \/ \E f \in Frames : ScanLocks(t, f) \/ ScanPasses(t, f)
           \/ ScanErases(t) \/ ScanEnds(t) \/ ScanDestroys(t)

Closing == CloseBegins \/ (\E f \in Frames : CloseNext(f)) \/ CloseEnds

App(t) == \/ Receive(t)
          \/ \E f \in Frames : Release(t, f) \/ Drop(t, f)
          \/ \E f \in Frames, u \in Holders : Copy(t, u, f)

Next == \/ \E t \in Threads : Step(t) \/ App(t)
        \/ Closing
        \/ RetainedFrames

Spec == Init /\ [][Next]_vars

\* A thread inside close() runs, and gets retained_mu if it stays free.  Nobody is obliged to release or drop a frame.
FairSpec ==
    /\ Spec
    /\ \A t \in Threads : WF_vars(Step(t))
    /\ WF_vars((\E f \in Frames : CloseNext(f)) \/ CloseEnds)

-----------------------------------------------------------------------------
(* Properties *)

PCs == {"out", "test", "fire", "lock", "scan", "compare", "stuck"}

\* Types, and the discipline of retained_mu: its holder is inside discard, and
\* only its holder owns a temporary reference or a position in the list.
TypeOK ==
    /\ received \in 0 .. MaxFrames
    /\ refs \in [Frames -> SUBSET Threads] /\ closed \in SUBSET Frames
    /\ items \subseteq 1 .. received /\ mutex \in Threads \cup {None}
    /\ pc \in [Threads -> PCs] /\ handle \in [Threads -> Frames \cup {None}]
    /\ temp \in [Threads -> Frames \cup {None}] /\ pos \in [Threads -> Frames \cup {None}]
    /\ kpc \in {"idle", "release"} /\ held \in SUBSET Frames
    /\ closes \in 0 .. MaxCloses /\ copies \in 0 .. MaxCopies
    /\ fired \in [Frames -> Nat] /\ raced \in SUBSET Frames
    /\ \A t \in Threads :
        /\ mutex = t <=> pc[t] \in {"scan", "compare", "stuck"}
        /\ temp[t] # None => pc[t] = "compare"

Stuck == \E t \in Threads : pc[t] = "stuck"

\* A handle runs its release closure twice only when two threads found it
\* open at the same moment, which takes a frame shared by two threads or
\* client.close() beside release(): destructor, release(), decimation and
\* close() in any other order send one RELEASE per frame (frame.hpp:68).
ReleasedOnce == \A f \in Frames : fired[f] > 1 => f \in raced

\* Whenever no thread is inside close(), retained_frames() counts exactly
\* the handles that somebody owns and nobody has closed: frames "currently
\* held (not yet RELEASEd)" (fd_client.hpp:100).
Quiet == mutex = None /\ \A t \in Threads : pc[t] = "out"
CountExact ==
    Quiet => Pruned = {f \in Frames : refs[f] # {} /\ f \notin closed}

\* A handle that lost its last owner has been released or is being released
\* by the thread that dropped it: no frame is forgotten.
NoneForgotten ==
    \A f \in 1 .. received :
        Expired(f) => \/ fired[f] > 0
                      \/ \E t \in Threads : /\ handle[t] = f
                                            /\ pc[t] \in {"test", "fire"}

\* The one way to hang: short of a thread that waits for its own mutex, every
\* release and every close() that was begun comes to an end.
Returns == /\ \A t \in Threads : pc[t] # "out" ~> (pc[t] = "out" \/ Stuck)
           /\ kpc = "release" ~> (kpc = "idle" \/ Stuck)

\* What the comment at FrameRetainer says (fd_media_client.cpp:87): "entries
\* vanish when the last Frame copy drops".
EntriesVanish ==
    \A f \in Frames :
        (f \in items /\ Expired(f)) ~> f \notin items

\* The ledger of handles: retained_mu is held by at most the thread inside its
\* critical section, each handle is released once short of the data race on
\* closed_, and retained_frames() is exact at rest.
LedgerSound == TypeOK /\ ReleasedOnce /\ CountExact
=============================================================================
