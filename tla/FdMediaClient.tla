--------------------------- MODULE FdMediaClient ---------------------------
(***************************************************************************)
(* FdMediaClient and its pull streams (cpp/src/media/fd_media_client.cpp): *)
(* get_sock / drop_sock on the cached connection, recv_frame on its copy,  *)
(* keep_fd, no-planes and failure paths, decimation, the bounded reconnect *)
(* of FdMediaStream::next, get_frame, and close().                         *)
(*                                                                         *)
(* The daemon lends frames over a connection and takes one back on RELEASE *)
(* or all of them when the connection goes away.  One stream id: entries   *)
(* of streams_ do not interact.  A frame is its id.  Descriptor numbers    *)
(* are kept, because the kernel reuses them: recv_frame loads sock->fd     *)
(* without the socket's mutex and uses the number later.  A retained       *)
(* frame's release is one step here; module FrameRetention opens it up.    *)
(* One action is one critical section, system call or unlocked access.     *)
(***************************************************************************)
EXTENDS Integers, Sequences, FiniteSets, FiniteSetsExt, SequencesExt

CONSTANTS Pullers,    \* threads that call FdMediaStream::next()
          Getters,    \* threads that call FdMediaClient::get_frame()
          Closer,     \* the thread that calls FdMediaClient::close()
          Budget,     \* kFdReconnectAttempts
          Interval,   \* skip_frames: yield every Interval-th frame
          MaxFrames,  \* bound: frames the daemon sends
          MaxConns,   \* bound: connections made
          MaxCloses,  \* bound: calls of close()
          MaxFaults   \* bound: connections the daemon cuts or refuses,
                      \* planes that cannot be mapped

Readers == Pullers \cup Getters
Threads == Readers \cup {Closer}
Frames  == 1 .. MaxFrames
Conns   == 1 .. MaxConns
None    == 0          \* no connection, no frame, descriptor -1

ASSUME ClientAssumption ==
    /\ Pullers \cap Getters = {} /\ Closer \notin Readers
    /\ Budget \in Nat \ {0} /\ Interval \in Nat \ {0}
    /\ MaxFrames \in Nat /\ MaxConns \in Nat
    /\ MaxCloses \in Nat /\ MaxFaults \in Nat

VARIABLES
  cached,     \* streams_[stream_id]
  made,       \* connections made so far
  alive,      \* StreamSocks with alive = true
  fdOf,       \* the descriptor number a connection was given
  cut,        \* connections the daemon has closed
  wire,       \* frames sent on a connection and not yet read
  lent,       \* the connection a frame is lent on, None once returned
  sent,       \* frames sent so far
  faults,     \* faults so far
  pc,         \* a reader's control point
  sock,       \* the StreamSock a reader uses
  left,       \* attempts_left
  seen,       \* frames counted for decimation, modulo Interval
  exhausted,  \* pullers whose stream gave up
  num,        \* the descriptor number a reader has loaded
  at,         \* the connection its recvmsg is blocked on
  hand,       \* the frame recv_frame has read and not yet passed on
  doomed,     \* the socket a thread has unlinked and not yet closed
  kept,       \* retained frames not yet released
  via,        \* the StreamSock in a retained frame's closure, None once that has run
  kpc,        \* the closer's control point
  held,       \* close(): the retained frames it still has to release
  closes,     \* calls of close() so far
  astray,     \* history: frames read from a connection not the reader's own
  stray       \* history: frames RELEASEd on a connection not lending them

sockets  == <<cached, made, alive, fdOf>>
daemon   == <<cut, wire, lent, sent, faults, stray>>
stream   == <<sock, left, seen, exhausted>>
reading  == <<num, at, hand, astray>>
retained == <<kept, via>>
closing  == <<kpc, held, closes>>
vars     == <<sockets, daemon, pc, stream, reading, doomed, retained, closing>>

Init ==
    /\ cached = None /\ made = 0 /\ alive = {}
    /\ fdOf = [c \in Conns |-> None]
    /\ cut = {} /\ wire = [c \in Conns |-> <<>>]
    /\ lent = [f \in Frames |-> None] /\ sent = 0 /\ faults = 0 /\ stray = {}
    /\ pc = [r \in Readers |-> "idle"]
    /\ sock = [r \in Readers |-> None] /\ left = [r \in Readers |-> 0]
    /\ seen = [r \in Readers |-> 0] /\ exhausted = {}
    /\ num = [r \in Readers |-> None] /\ at = [r \in Readers |-> None]
    /\ hand = [r \in Readers |-> None] /\ astray = {}
    /\ doomed = [t \in Threads |-> None]
    /\ kept = {} /\ via = [f \in Frames |-> None]
    /\ kpc = "idle" /\ held = {} /\ closes = 0

Goes(r, label) == pc' = [pc EXCEPT ![r] = label]

-----------------------------------------------------------------------------
(* The kernel and the daemon *)

\* The connection a descriptor number stands for now.
File(n) == IF \E c \in alive : fdOf[c] = n
           THEN CHOOSE c \in alive : fdOf[c] = n ELSE None

\* A connection stays open while a recvmsg is blocked on it, closed or not.
Open(c) == c \in alive \/ \E r \in Readers : at[r] = c

\* The lowest number that is free.
FreeNumber == Min({n \in Conns : File(n) = None})

\* The daemon sends a frame and lends it.
DaemonSends(c) ==
    /\ sent < MaxFrames /\ c \in 1 .. made /\ Open(c) /\ c \notin cut
    /\ sent' = sent + 1
    /\ lent' = [lent EXCEPT ![sent + 1] = c]
    /\ wire' = [wire EXCEPT ![c] = Append(@, sent + 1)]
    /\ UNCHANGED <<sockets, cut, faults, stray, pc, stream, reading, doomed,
                   retained, closing>>

\* Frames lent on c come back.
Reclaim(c) == lent' = [f \in Frames |-> IF lent[f] = c THEN None ELSE lent[f]]

\* The daemon closes its end; what is on the wire can still be read.
DaemonCuts(c) ==
    /\ faults < MaxFaults /\ c \in 1 .. made /\ Open(c) /\ c \notin cut
    /\ faults' = faults + 1
    /\ cut' = cut \cup {c}
    /\ Reclaim(c)
    /\ UNCHANGED <<sockets, wire, sent, stray, pc, stream, reading, doomed,
                   retained, closing>>

\* The daemon notices that the client is gone.
DaemonReclaims(c) ==
    /\ c \in 1 .. made /\ ~Open(c) /\ c \notin cut
    /\ cut' = cut \cup {c}
    /\ wire' = [wire EXCEPT ![c] = <<>>]
    /\ Reclaim(c)
    /\ UNCHANGED <<sockets, sent, faults, stray, pc, stream, reading, doomed,
                   retained, closing>>

\* A RELEASE for f arrives on connection c.
Released(c, f) ==
    /\ lent' = IF lent[f] = c THEN [lent EXCEPT ![f] = None] ELSE lent
    /\ stray' = IF lent[f] = c \/ c \in cut THEN stray ELSE stray \cup {f}

\* Mutant: the closure remembers the number instead of the socket.
ReleaseOnNumber(s, f) ==
    IF File(fdOf[s]) # None THEN Released(File(fdOf[s]), f)
    ELSE UNCHANGED <<lent, stray>>

\* release_on_sock: only while alive, under the socket's mutex.
ReleaseOnSock(s, f) ==
    IF s \in alive THEN Released(s, f) ELSE UNCHANGED <<lent, stray>>

-----------------------------------------------------------------------------
(* FdMediaStream::next, FdMediaClient::get_frame *)

\* subscribe() again, as on_frame() does when a stream's budget is spent.
Resubscribe(r) ==
    /\ r \in exhausted /\ pc[r] = "idle"
    /\ exhausted' = exhausted \ {r}
    /\ sock' = [sock EXCEPT ![r] = None]
    /\ seen' = [seen EXCEPT ![r] = 0]
    /\ UNCHANGED <<sockets, daemon, pc, left, reading, doomed, retained, closing>>

\* next(): nothing on an exhausted stream; a fresh budget for each call.
NextBegins(r) ==
    /\ r \in Pullers \ exhausted /\ pc[r] = "idle"
    /\ left' = [left EXCEPT ![r] = Budget]
    /\ Goes(r, IF sock[r] = None THEN "connect" ELSE "load")
    /\ UNCHANGED <<sockets, daemon, sock, seen, exhausted, reading, doomed,
                   retained, closing>>

\* get_frame(): always asks for the cached socket, and tries once.
GetBegins(r) ==
    /\ r \in Getters /\ pc[r] = "idle"
    /\ left' = [left EXCEPT ![r] = 1]
    /\ sock' = [sock EXCEPT ![r] = None]
    /\ Goes(r, "connect")
    /\ UNCHANGED <<sockets, daemon, seen, exhausted, reading, doomed, retained,
                   closing>>

\* Mutant: the cache is never consulted.
NotCached == FALSE

\* get_sock finds a cached socket that is alive.
IsCached == cached \in alive

\* get_sock under mu and the cached socket's mutex.
GetSockCached(r) ==
    /\ pc[r] = "connect" /\ IsCached
    /\ sock' = [sock EXCEPT ![r] = cached]
    /\ Goes(r, "load")
    /\ UNCHANGED <<sockets, daemon, left, seen, exhausted, reading, doomed,
                   retained, closing>>

\* get_sock connects and subscribes, all under mu.
GetSockConnects(r) ==
    /\ pc[r] = "connect" /\ ~IsCached /\ made < MaxConns
    /\ made' = made + 1
    /\ alive' = alive \cup {made + 1}
    /\ fdOf' = [fdOf EXCEPT ![made + 1] = FreeNumber]
    /\ cached' = made + 1
    /\ sock' = [sock EXCEPT ![r] = made + 1]
    /\ Goes(r, "load")
    /\ UNCHANGED <<daemon, left, seen, exhausted, reading, doomed, retained,
                   closing>>

\* One attempt is spent: sleep and retry, or give up.
Spend(r) ==
    /\ left' = [left EXCEPT ![r] = @ - 1]
    /\ IF left[r] > 1
       THEN Goes(r, "connect") /\ UNCHANGED exhausted
       ELSE /\ Goes(r, "idle")
            /\ exhausted' = IF r \in Pullers THEN exhausted \cup {r} ELSE exhausted

\* The daemon is away or rejects the subscription; a dead entry was erased.
GetSockFails(r) ==
    /\ pc[r] = "connect" /\ ~IsCached /\ faults < MaxFaults
    /\ faults' = faults + 1
    /\ cached' = None
    /\ Spend(r)
    /\ UNCHANGED <<made, alive, fdOf, cut, wire, lent, sent, stray, sock, seen,
                   reading, doomed, retained, closing>>

\* sock->fd is read without the socket's mutex: -1 once it is closed.
Load(r) ==
    /\ pc[r] = "load"
    /\ num' = [num EXCEPT ![r] = IF sock[r] \in alive THEN fdOf[sock[r]] ELSE None]
    /\ Goes(r, "enter")
    /\ UNCHANGED <<sockets, daemon, stream, at, hand, astray, doomed, retained,
                   closing>>

\* recvmsg on that number, whatever it stands for by now; EBADF throws.
Enter(r) ==
    /\ pc[r] = "enter"
    /\ at' = [at EXCEPT ![r] = File(num[r])]
    /\ num' = [num EXCEPT ![r] = None]
    /\ Goes(r, IF File(num[r]) = None THEN "drop" ELSE "recv")
    /\ UNCHANGED <<sockets, daemon, stream, hand, astray, doomed, retained, closing>>

\* recvmsg returns.
Unblock(r) == at' = [at EXCEPT ![r] = None]

\* SO_RCVTIMEO, or 32 messages that are no frames: nullopt.  next() goes on
\* with the same socket, get_frame() returns.
Timeout(r) ==
    /\ pc[r] = "recv" /\ wire[at[r]] = <<>> /\ at[r] \notin cut
    /\ Unblock(r)
    /\ Goes(r, IF r \in Pullers THEN "load" ELSE "idle")
    /\ UNCHANGED <<sockets, daemon, stream, num, hand, astray, doomed, retained,
                   closing>>

\* The third EOF throws.  EOF is permanent, so the three reads are one step.
Eof(r) ==
    /\ pc[r] = "recv" /\ wire[at[r]] = <<>> /\ at[r] \in cut
    /\ Unblock(r)
    /\ Goes(r, "drop")
    /\ UNCHANGED <<sockets, daemon, stream, num, hand, astray, doomed, retained,
                   closing>>

\* A FRAME message with planes, kept or copied as the caller asked.
GotFrame(r, path) ==
    /\ pc[r] = "recv" /\ wire[at[r]] # <<>>
    /\ hand' = [hand EXCEPT ![r] = Head(wire[at[r]])]
    /\ wire' = [wire EXCEPT ![at[r]] = Tail(@)]
    /\ astray' = IF at[r] = sock[r] THEN astray
                 ELSE astray \cup {Head(wire[at[r]])}
    /\ Unblock(r)
    /\ Goes(r, path)
    /\ UNCHANGED <<sockets, cut, lent, sent, faults, stray, stream, num, doomed,
                   retained, closing>>

Paths == {"no_planes", "copy", "keep"}

\* recv_frame puts the frame down.
PutDown(r) == hand' = [hand EXCEPT ![r] = None]

\* release_on_sock before the nullopt.
ReleaseNoPlanes(r) == ReleaseOnSock(sock[r], hand[r])

\* A FRAME message without planes: release and skip.
NoPlanes(r) ==
    /\ pc[r] = "no_planes"
    /\ ReleaseNoPlanes(r)
    /\ PutDown(r)
    /\ Goes(r, IF r \in Pullers THEN "load" ELSE "idle")
    /\ UNCHANGED <<sockets, cut, wire, sent, faults, stream, num, at, astray,
                   doomed, retained, closing>>

\* ++seen, modulo the interval.
Counted(r) == (seen[r] + 1) % Interval

\* next() returns the first frame of every Interval and drops the others.
Yields(r) == r \in Getters \/ seen[r] = 0

\* ++seen, and the frame is returned or the loop goes on.
Count(r) ==
    /\ seen' = IF r \in Pullers THEN [seen EXCEPT ![r] = Counted(r)] ELSE seen
    /\ Goes(r, IF Yields(r) THEN "idle" ELSE "load")

\* The copy path: planes copied, fds closed, RELEASE at once.
Copied(r) ==
    /\ pc[r] = "copy"
    /\ ReleaseOnSock(sock[r], hand[r])
    /\ PutDown(r)
    /\ Count(r)
    /\ UNCHANGED <<sockets, cut, wire, sent, faults, sock, left, exhausted, num,
                   at, astray, doomed, retained, closing>>

\* A plane cannot be mapped: the exception leaves without a RELEASE.
CopyFails(r) ==
    /\ pc[r] = "copy" /\ faults < MaxFaults
    /\ faults' = faults + 1
    /\ PutDown(r)
    /\ Goes(r, "drop")
    /\ UNCHANGED <<sockets, cut, wire, lent, sent, stray, stream, num, at, astray,
                   doomed, retained, closing>>

\* keep_fd: the handle, with the socket in its closure, goes to the caller.
Keep(r) ==
    /\ pc[r] = "keep" /\ Yields(r)
    /\ kept' = kept \cup {hand[r]}
    /\ via' = [via EXCEPT ![hand[r]] = sock[r]]
    /\ PutDown(r)
    /\ Count(r)
    /\ UNCHANGED <<sockets, daemon, sock, left, exhausted, num, at, astray, doomed,
                   closing>>

\* keep_fd, decimated away: frame->release() right here.
Decimate(r) ==
    /\ pc[r] = "keep" /\ ~Yields(r)
    /\ ReleaseOnSock(sock[r], hand[r])
    /\ PutDown(r)
    /\ Count(r)
    /\ UNCHANGED <<sockets, cut, wire, sent, faults, sock, left, exhausted, num,
                   at, astray, doomed, retained, closing>>

\* drop_sock, first half: unlink whatever socket is cached now.
DropUnlinks(r) ==
    /\ pc[r] = "drop"
    /\ doomed' = [doomed EXCEPT ![r] = cached]
    /\ cached' = None
    /\ Goes(r, "kill")
    /\ UNCHANGED <<made, alive, fdOf, daemon, stream, reading, retained, closing>>

\* alive = false, ::close(fd), fd = -1, under the socket's mutex.
Shut(t) == alive' = alive \ {doomed[t]}

\* drop_sock, second half, and what the caller does with the failure.
DropCloses(r) ==
    /\ pc[r] = "kill"
    /\ Shut(r)
    /\ doomed' = [doomed EXCEPT ![r] = None]
    /\ sock' = [sock EXCEPT ![r] = None]
    /\ Spend(r)
    /\ UNCHANGED <<cached, made, fdOf, daemon, seen, reading, retained, closing>>

-----------------------------------------------------------------------------
(* Retained frames and close() *)

\* Mutant: the handle does not note that it was released.
ReleasesAgain(f) ==
    /\ f \in kept
    /\ ReleaseOnSock(via[f], f)
    /\ UNCHANGED <<sockets, cut, wire, sent, faults, pc, stream, reading, doomed,
                   retained, closing>>

\* The last copy of a retained frame goes, or somebody calls release().
ReleaseKept(f) ==
    /\ f \in kept
    /\ kept' = kept \ {f}
    /\ via' = [via EXCEPT ![f] = None]
    /\ ReleaseOnSock(via[f], f)
    /\ UNCHANGED <<sockets, cut, wire, sent, faults, pc, stream, reading, doomed,
                   closing>>

\* close(): a snapshot of the retained frames.
CloseBegins ==
    /\ kpc = "idle" /\ closes < MaxCloses
    /\ closes' = closes + 1
    /\ held' = kept
    /\ kpc' = "release"
    /\ UNCHANGED <<sockets, daemon, pc, stream, reading, doomed, retained>>

\* h->close(), a no-op for a frame that was released meanwhile.
CloseReleases(f) ==
    /\ kpc = "release" /\ f \in held
    /\ held' = held \ {f}
    /\ kept' = kept \ {f}
    /\ IF f \in kept THEN via' = [via EXCEPT ![f] = None] /\ ReleaseOnSock(via[f], f)
       ELSE UNCHANGED <<via, lent, stray>>
    /\ UNCHANGED <<sockets, cut, wire, sent, faults, pc, stream, reading, doomed,
                   kpc, closes>>

\* streams_ is copied and cleared under mu.
CloseUnlinks ==
    /\ kpc = "release" /\ held = {}
    /\ doomed' = [doomed EXCEPT ![Closer] = cached]
    /\ cached' = None
    /\ kpc' = "shut"
    /\ UNCHANGED <<made, alive, fdOf, daemon, pc, stream, reading, retained, held,
                   closes>>

\* UNSUBSCRIBE and ::close, if the socket is still alive.
CloseShuts ==
    /\ kpc = "shut"
    /\ Shut(Closer)
    /\ doomed' = [doomed EXCEPT ![Closer] = None]
    /\ kpc' = "idle"
    /\ UNCHANGED <<cached, made, fdOf, daemon, pc, stream, reading, retained, held,
                   closes>>

-----------------------------------------------------------------------------
Read(r) ==
    \/ GetSockCached(r) \/ GetSockConnects(r) \/ GetSockFails(r)
    \/ Load(r) \/ Enter(r) \/ Timeout(r) \/ Eof(r)
    \/ \E path \in Paths : GotFrame(r, path)
    \/ NoPlanes(r) \/ Copied(r) \/ CopyFails(r) \/ Keep(r) \/ Decimate(r)
    \/ DropUnlinks(r) \/ DropCloses(r)

Daemon == \E c \in Conns : DaemonSends(c) \/ DaemonCuts(c) \/ DaemonReclaims(c)

Close == CloseBegins \/ (\E f \in Frames : CloseReleases(f)) \/ CloseUnlinks
         \/ CloseShuts

Next ==
    \/ \E r \in Readers : Resubscribe(r) \/ NextBegins(r) \/ GetBegins(r) \/ Read(r)
    \/ \E f \in Frames : ReleaseKept(f)
    \/ Close
    \/ Daemon

Spec == Init /\ [][Next]_vars

-----------------------------------------------------------------------------
(* Properties *)

PCs == {"idle", "connect", "load", "enter", "recv", "drop", "kill"} \cup Paths

\* Types, and a descriptor number stands for one connection at most.
TypeOK ==
    /\ cached \in 0 .. made /\ made \in 0 .. MaxConns /\ alive \subseteq 1 .. made
    /\ fdOf \in [Conns -> 0 .. MaxConns] /\ cut \subseteq Conns
    /\ wire \in [Conns -> Seq(Frames)] /\ lent \in [Frames -> 0 .. MaxConns]
    /\ sent \in 0 .. MaxFrames /\ faults \in 0 .. MaxFaults
    /\ pc \in [Readers -> PCs] /\ sock \in [Readers -> 0 .. MaxConns]
    /\ left \in [Readers -> 0 .. Budget] /\ seen \in [Readers -> 0 .. Interval - 1]
    /\ exhausted \subseteq Pullers /\ num \in [Readers -> 0 .. MaxConns]
    /\ at \in [Readers -> 0 .. MaxConns] /\ hand \in [Readers -> 0 .. MaxFrames]
    /\ doomed \in [Threads -> 0 .. MaxConns]
    /\ kept \subseteq Frames /\ via \in [Frames -> 0 .. MaxConns]
    /\ kpc \in {"idle", "release", "shut"} /\ held \subseteq Frames
    /\ closes \in 0 .. MaxCloses /\ astray \subseteq Frames /\ stray \subseteq Frames
    /\ \A c, d \in alive : fdOf[c] = fdOf[d] => c = d

\* A socket that is open is the cached one or is about to be closed by the
\* thread that unlinked it: reconnecting, dropping and close() in any
\* interleaving never leave an open connection that nobody can close.
NoOrphan == \A c \in alive : c = cached \/ \E t \in Threads : doomed[t] = c

\* A frame lent on a connection that is open at both ends is on the wire, in
\* the hands of recv_frame or retained, or the connection is about to be
\* closed.  The exception is a frame read through a number that another
\* thread's reconnect reused: its reader's own socket is dead, so nobody
\* sends its RELEASE.
LentAccounted ==
    \A f \in Frames :
        LET c == lent[f] IN
        (c \in alive \ cut /\ f \notin astray) =>
            \/ f \in ToSet(wire[c])
            \/ \E r \in Readers : hand[r] = f
            \/ f \in kept
            \/ \E t \in Threads : doomed[t] = c
            \/ \E r \in Readers : pc[r] = "drop" /\ sock[r] = c

\* A RELEASE is only ever sent on the connection that lends the frame, and
\* once: never into a reused number (fd_media_client.cpp:75).
NoStrayRelease == stray = {}

\* The loans of the frame server: no two open connections share a descriptor,
\* every frame lent is accounted for, and every RELEASE reaches the connection
\* that lends it.
LoansSound == TypeOK /\ LentAccounted /\ NoStrayRelease

\* Where a frame is, and the socket its RELEASE is to be sent on.
Place(f) ==
    IF f > sent THEN "unsent"
    ELSE IF \E c \in Conns : f \in ToSet(wire[c]) THEN "wire"
    ELSE IF \E r \in Readers : hand[r] = f THEN "reader"
    ELSE IF f \in kept THEN "application" ELSE "gone"

Due(f) ==
    IF \E r \in Readers : hand[r] = f THEN sock[CHOOSE r \in Readers : hand[r] = f]
    ELSE IF f \in kept THEN via[f] ELSE None

Lending == INSTANCE LentFrames
             WITH open <- alive, over <- (1 .. made) \ alive, lost <- cut, loan <- lent,
                  place <- [f \in Frames |-> Place(f)], due <- [f \in Frames |-> Due(f)]

\* Whatever threads, reconnects and close() do, a frame is lent as LentFrames
\* says: read once, delivered at most once, given back at most once, with a
\* RELEASE only while its connection is open (fd_media_client.cpp:71,
\* frame.hpp:68).  Two releases of one handle that race are FrameRetention's.
KeepsLending == Lending!Spec
=============================================================================
