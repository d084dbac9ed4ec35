------------------------ MODULE FdMediaClientProofs ------------------------
(***************************************************************************)
(* Proofs about FdMediaClient, for every number of readers, frames and     *)
(* connections: it never leaves an open connection that nobody can close,  *)
(* the loans of the frame server are sound, and every frame is lent as     *)
(* LentFrames says.                                                        *)
(*                                                                         *)
(* The second rests on where each frame is (Places), on which connection a *)
(* reader reads from although it loads the number without a lock           *)
(* (Reading), and on what the daemon still lends to whoever has the frame  *)
(* (Loans).  The third adds which frames have gone astray (Touch) and maps *)
(* what a frame's holders say (Shape) to its place and its socket.         *)
(***************************************************************************)
EXTENDS FdMediaClient, SequenceTheorems, FiniteSetTheorems, WellFoundedInduction, TLAPS

\* What the argument needs of the types of the socket bookkeeping.
SocketTypes ==
    /\ DOMAIN pc = Readers
    /\ made \in Nat /\ None \notin alive
    /\ DOMAIN doomed = Threads

\* A thread has a socket in its hands only between unlinking it under mu and
\* closing it, so that nothing is overwritten when it unlinks the next one.
HandsFull ==
    /\ \A r \in Readers : pc[r] # "kill" => doomed[r] = None
    /\ kpc # "shut" => doomed[Closer] = None

\* The inductive invariant.
SocketInv == SocketTypes /\ HandsFull /\ NoOrphan

-----------------------------------------------------------------------------
\* The steps that leave the sockets and the threads' hands alone.
Quiet(r) ==
    \/ Resubscribe(r) \/ NextBegins(r) \/ GetBegins(r) \/ GetSockCached(r)
    \/ Load(r) \/ Enter(r) \/ Timeout(r) \/ Eof(r)
    \/ \E path \in Paths : GotFrame(r, path)
    \/ NoPlanes(r) \/ Copied(r) \/ CopyFails(r) \/ Keep(r) \/ Decimate(r)

\* A step of one reader, elsewhere than at "kill", that leaves the sockets and
\* the threads' hands alone.
LEMMA MovesQuietly ==
    ASSUME SocketInv, NEW r \in Readers, NEW label, Goes(r, label),
           pc[r] # "kill", UNCHANGED <<cached, made, alive, doomed, kpc>>
    PROVE  SocketInv'
  BY DEF SocketInv, SocketTypes, HandsFull, NoOrphan, Goes

\* A step that touches neither sockets nor control points.
LEMMA StaysQuiet ==
    ASSUME SocketInv, UNCHANGED <<cached, made, alive, doomed, pc, kpc>>
    PROVE  SocketInv'
  BY DEF SocketInv, SocketTypes, HandsFull, NoOrphan

\* Reading, keeping, copying and releasing never touch the bookkeeping.
LEMMA QuietStep ==
    ASSUME SocketInv, NEW r \in Readers, Quiet(r)
    PROVE  SocketInv'
  <1> USE DEF sockets, closing, stream
  <1>1. CASE Resubscribe(r) BY <1>1, StaysQuiet DEF Resubscribe
  <1>2. CASE NextBegins(r) BY <1>2, MovesQuietly DEF NextBegins
  <1>3. CASE GetBegins(r) BY <1>3, MovesQuietly DEF GetBegins
  <1>4. CASE GetSockCached(r) BY <1>4, MovesQuietly DEF GetSockCached
  <1>5. CASE Load(r) BY <1>5, MovesQuietly DEF Load
  <1>6. CASE Enter(r) BY <1>6, MovesQuietly DEF Enter
  <1>7. CASE Timeout(r) BY <1>7, MovesQuietly DEF Timeout
  <1>8. CASE Eof(r) BY <1>8, MovesQuietly DEF Eof
  <1>9. ASSUME NEW path \in Paths, GotFrame(r, path) PROVE SocketInv'
    BY <1>9, MovesQuietly DEF GotFrame, Paths
  <1>10. CASE NoPlanes(r) BY <1>10, MovesQuietly DEF NoPlanes
  <1>11. CASE Copied(r) BY <1>11, MovesQuietly DEF Copied, Count
  <1>12. CASE CopyFails(r) BY <1>12, MovesQuietly DEF CopyFails
  <1>13. CASE Keep(r) BY <1>13, MovesQuietly DEF Keep, Count
  <1>14. CASE Decimate(r) BY <1>14, MovesQuietly DEF Decimate, Count
  <1> QED
    BY <1>1, <1>2, <1>3, <1>4, <1>5, <1>6, <1>7, <1>8, <1>9, <1>10, <1>11, <1>12,
       <1>13, <1>14 DEF Quiet

\* Connecting: the socket it replaces in the cache was not alive, so whoever
\* still has an open one has it in hand.
LEMMA ConnectStep ==
    ASSUME SocketInv, NEW r \in Readers, GetSockConnects(r) \/ GetSockFails(r)
    PROVE  SocketInv'
  <1>1. CASE GetSockConnects(r)
    <2>1. SocketTypes' /\ HandsFull'
      BY <1>1 DEF GetSockConnects, SocketInv, SocketTypes, HandsFull, Goes, closing, None
    <2>2. NoOrphan'
      BY <1>1 DEF GetSockConnects, SocketInv, NoOrphan, IsCached
    <2> QED BY <2>1, <2>2 DEF SocketInv
  <1>2. CASE GetSockFails(r)
    <2>1. SocketTypes' /\ HandsFull'
      BY <1>2 DEF GetSockFails, Spend, SocketInv, SocketTypes, HandsFull, Goes, closing
    <2>2. NoOrphan'
      BY <1>2 DEF GetSockFails, SocketInv, NoOrphan, IsCached
    <2> QED BY <2>1, <2>2 DEF SocketInv
  <1> QED BY <1>1, <1>2

\* drop_sock: the cached socket changes from the cache into the reader's
\* hands, and then is closed.
LEMMA DropStep ==
    ASSUME SocketInv, NEW r \in Readers, DropUnlinks(r) \/ DropCloses(r)
    PROVE  SocketInv'
  <1>0. r \in Threads /\ r # Closer BY ClientAssumption DEF Threads
  <1>1. CASE DropUnlinks(r)
    <2>1. SocketTypes' /\ HandsFull'
      BY <1>0, <1>1 DEF DropUnlinks, SocketInv, SocketTypes, HandsFull, Goes, closing
    <2>2. doomed[r] = None
      BY <1>1 DEF DropUnlinks, SocketInv, HandsFull
    <2>3. NoOrphan'
      BY <1>0, <1>1, <2>2 DEF DropUnlinks, SocketInv, SocketTypes, NoOrphan
    <2> QED BY <2>1, <2>3 DEF SocketInv
  <1>2. CASE DropCloses(r)
    <2>1. SocketTypes' /\ HandsFull'
      BY <1>0, <1>2
         DEF DropCloses, Shut, Spend, SocketInv, SocketTypes, HandsFull, Goes, closing
    <2>2. NoOrphan'
      BY <1>0, <1>2 DEF DropCloses, Shut, SocketInv, SocketTypes, NoOrphan
    <2> QED BY <2>1, <2>2 DEF SocketInv
  <1> QED BY <1>1, <1>2

\* close(): the same two halves in the closing thread.
LEMMA CloseStep ==
    ASSUME SocketInv, Close
    PROVE  SocketInv'
  <1>0. Closer \in Threads /\ Closer \notin Readers BY ClientAssumption DEF Threads
  <1>1. CASE CloseBegins
    BY <1>1 DEF CloseBegins, SocketInv, SocketTypes, HandsFull, NoOrphan, sockets
  <1>2. ASSUME NEW f \in Frames, CloseReleases(f) PROVE SocketInv'
    BY <1>2, StaysQuiet DEF CloseReleases, sockets
  <1>3. CASE CloseUnlinks
    <2>1. SocketTypes' /\ HandsFull'
      BY <1>0, <1>3 DEF CloseUnlinks, SocketInv, SocketTypes, HandsFull
    <2>2. doomed[Closer] = None
      BY <1>3 DEF CloseUnlinks, SocketInv, HandsFull
    <2>3. NoOrphan'
      BY <1>0, <1>3, <2>2 DEF CloseUnlinks, SocketInv, SocketTypes, NoOrphan
    <2> QED BY <2>1, <2>3 DEF SocketInv
  <1>4. CASE CloseShuts
    <2>1. SocketTypes' /\ HandsFull'
      BY <1>0, <1>4 DEF CloseShuts, Shut, SocketInv, SocketTypes, HandsFull
    <2>2. NoOrphan'
      BY <1>0, <1>4 DEF CloseShuts, Shut, SocketInv, SocketTypes, NoOrphan
    <2> QED BY <2>1, <2>2 DEF SocketInv
  <1> QED BY <1>1, <1>2, <1>3, <1>4 DEF Close

\* The invariant is inductive.
LEMMA SocketStep == SocketInv /\ [Next]_vars => SocketInv'
  <1> SUFFICES ASSUME SocketInv, [Next]_vars PROVE SocketInv'
    OBVIOUS
  <1>1. ASSUME NEW r \in Readers,
               Resubscribe(r) \/ NextBegins(r) \/ GetBegins(r) \/ Read(r)
        PROVE  SocketInv'
    BY <1>1, QuietStep, ConnectStep, DropStep DEF Read, Quiet
  <1>2. ASSUME NEW f \in Frames, ReleaseKept(f) PROVE SocketInv'
    BY <1>2, StaysQuiet DEF ReleaseKept, sockets, closing
  <1>3. CASE Daemon
    <2>1. ASSUME NEW c \in Conns, DaemonSends(c) PROVE SocketInv'
      BY <2>1, StaysQuiet DEF DaemonSends, sockets, closing
    <2>2. ASSUME NEW c \in Conns, DaemonCuts(c) PROVE SocketInv'
      BY <2>2, StaysQuiet DEF DaemonCuts, sockets, closing
    <2>3. ASSUME NEW c \in Conns, DaemonReclaims(c) PROVE SocketInv'
      BY <2>3, StaysQuiet DEF DaemonReclaims, sockets, closing
    <2> QED BY <1>3, <2>1, <2>2, <2>3 DEF Daemon
  <1>4. CASE UNCHANGED vars
    BY <1>4, StaysQuiet DEF vars, sockets, closing
  <1> QED BY <1>1, <1>2, <1>3, <1>4, CloseStep DEF Next

\* Reconnecting, dropping and close() in any interleaving of any number of
\* threads leave no open connection that nobody can close.
THEOREM NoOpenOrphan == Spec => []NoOrphan
  <1>1. Init => SocketInv
    BY DEF Init, SocketInv, SocketTypes, HandsFull, NoOrphan, Threads, None
  <1>2. SocketInv => NoOrphan
    BY DEF SocketInv
  <1> QED BY <1>1, <1>2, SocketStep, PTL DEF Spec

-----------------------------------------------------------------------------
(* The loans *)

\* TypeOK, and that nothing names a connection that has not been made.
SocketVars ==
    /\ cached \in 0 .. made /\ made \in 0 .. MaxConns /\ alive \subseteq 1 .. made
    /\ fdOf \in [Conns -> 0 .. MaxConns] /\ doomed \in [Threads -> 0 .. made]
DaemonVars ==
    /\ cut \subseteq Conns /\ wire \in [Conns -> Seq(Frames)] /\ lent \in [Frames -> 0 .. made]
    /\ sent \in 0 .. MaxFrames /\ faults \in 0 .. MaxFaults
    /\ astray \subseteq Frames /\ stray \subseteq Frames
ReaderVars ==
    /\ pc \in [Readers -> PCs] /\ sock \in [Readers -> 0 .. made]
    /\ left \in [Readers -> 0 .. Budget] /\ seen \in [Readers -> 0 .. Interval - 1]
    /\ exhausted \subseteq Pullers /\ num \in [Readers -> 0 .. MaxConns]
    /\ at \in [Readers -> 0 .. made] /\ hand \in [Readers -> 0 .. MaxFrames]
RetainedVars ==
    /\ kept \subseteq Frames /\ via \in [Frames -> 0 .. made]
    /\ kpc \in {"idle", "release", "shut"} /\ held \subseteq Frames
    /\ closes \in 0 .. MaxCloses
LoanTypes == SocketVars /\ DaemonVars /\ ReaderVars /\ RetainedVars
OwnNumbers == \A c, d \in alive : fdOf[c] = fdOf[d] => c = d

\* A reader blocks on a connection in recvmsg alone and has a frame in hand
\* only while it decides what becomes of it.  A reader whose socket is alive
\* loads that socket's number and reads from that socket.
Reading(r) ==
    /\ pc[r] = "recv" <=> at[r] # None
    /\ pc[r] \in Paths <=> hand[r] # None
    /\ pc[r] # "idle" => left[r] > 0
    /\ pc[r] = "enter" /\ sock[r] \in alive => num[r] = fdOf[sock[r]]
    /\ at[r] # None /\ sock[r] \in alive => at[r] = sock[r]
Readings == \A r \in Readers : Reading(r)

\* A frame is on one wire, in one hand or retained, and in one of those only.
Once(s) == \A m, n \in DOMAIN s : s[m] = s[n] => m = n
OnWire(f, c) == f \in ToSet(wire[c])
Places ==
    /\ kept \subseteq 1 .. sent
    /\ \A c \in Conns : Once(wire[c]) /\ ToSet(wire[c]) \subseteq (1 .. sent) \ kept
    /\ \A c, d \in Conns : c # d => ToSet(wire[c]) \cap ToSet(wire[d]) = {}
    /\ \A r \in Readers : hand[r] # None =>
          /\ hand[r] \in (1 .. sent) \ kept
          /\ \A c \in Conns : ~OnWire(hand[r], c)
          /\ \A u \in Readers : hand[u] = hand[r] => u = r

\* Who has to release f on socket s may do so, and does it where f is lent.
Loan(f, s) ==
    /\ s \in alive => lent[f] = s \/ s \in cut
    /\ f \notin astray => lent[f] \in {s, None}
Loans ==
    /\ \A c \in Conns : \A f \in ToSet(wire[c]) :
          lent[f] = c \/ (lent[f] = None /\ c \in cut)
    /\ \A r \in Readers : \A f \in Frames : hand[r] = f => Loan(f, sock[r])
    /\ \A f \in kept : Loan(f, via[f])

\* The inductive invariant.
LoanInv ==
    /\ SocketInv /\ LoanTypes /\ OwnNumbers /\ Readings /\ Places /\ Loans
    /\ LentAccounted /\ NoStrayRelease

-----------------------------------------------------------------------------
\* Min of a set of numbers is its least element.
LEMMA LeastElement ==
    ASSUME NEW S, S \subseteq Nat, S # {}
    PROVE  Min(S) \in S /\ \A y \in S : Min(S) <= y
  <1>1. PICK x \in S : \A y \in S : <<y, x>> \notin OpToRel(<, Nat)
    BY WFMin, NatLessThanWellFounded, Zenon
  <1>2. \A y \in S : ~(y < x)
    BY <1>1, Zenon DEF OpToRel
  <1>3. \A y \in S : x <= y
    BY <1>2
  <1> QED BY <1>3, Zenon DEF Min

\* A number stands for the connection that has it, if one has.
LEMMA FileFacts ==
    ASSUME LoanTypes, NEW n
    PROVE  /\ File(n) \in 0 .. made
           /\ File(n) # None => File(n) \in alive /\ fdOf[File(n)] = n
           /\ \A c \in alive : fdOf[c] = n => File(n) # None
  <1>1. None \notin alive /\ alive \subseteq 0 .. made /\ None \in 0 .. made
    BY DEF LoanTypes, SocketVars, None
  <1>2. CASE \E c \in alive : fdOf[c] = n
    <2>1. File(n) \in alive /\ fdOf[File(n)] = n
      BY <1>2, Zenon DEF File
    <2> QED BY <1>1, <2>1
  <1>3. CASE ~\E c \in alive : fdOf[c] = n
    BY <1>1, <1>3 DEF File
  <1> QED BY <1>2, <1>3

\* While connections can be made there is a free number for the next one.
LEMMA FreeNumberFacts ==
    ASSUME LoanTypes, made < MaxConns
    PROVE  FreeNumber \in Conns /\ \A c \in alive : fdOf[c] # FreeNumber
  <1> DEFINE Used == {fdOf[c] : c \in alive}
             Free == {n \in Conns : File(n) = None}
  <1>1. /\ made \in Nat /\ MaxConns \in Nat /\ alive \subseteq 1 .. made
        /\ made < MaxConns
    BY ClientAssumption DEF LoanTypes, SocketVars
  <1>2. IsFiniteSet(alive) /\ Cardinality(alive) <= made /\ Cardinality(alive) \in Nat
    <2>1. IsFiniteSet(1 .. made) /\ Cardinality(1 .. made) = made
      BY <1>1, FS_Interval
    <2>2. IsFiniteSet(alive) /\ Cardinality(alive) <= Cardinality(1 .. made)
      BY <1>1, <2>1, FS_Subset
    <2> QED BY <2>1, <2>2, FS_CardinalityType
  <1>3. IsFiniteSet(Used) /\ Cardinality(Used) <= Cardinality(alive) /\ Cardinality(Used) \in Nat
    <2>1. [c \in alive |-> fdOf[c]] \in Surjection(alive, Used)
      BY DEF Surjection
    <2> HIDE DEF Used
    <2>2. IsFiniteSet(Used) /\ Cardinality(Used) <= Cardinality(alive)
      BY <1>2, <2>1, FS_Surjection
    <2> QED BY <2>2, FS_CardinalityType
  <1>4. ASSUME Free = {} PROVE FALSE
    <2>1. Conns \subseteq Used
      <3>1. ASSUME NEW n \in Conns PROVE n \in Used
        <4>1. File(n) # None BY <1>4
        <4> QED BY <4>1, FileFacts
      <3> QED BY <3>1
    <2>2. IsFiniteSet(Conns) /\ Cardinality(Conns) = MaxConns
      BY <1>1, FS_Interval DEF Conns
    <2> HIDE DEF Used
    <2>3. Cardinality(Conns) <= Cardinality(Used)
      BY <1>3, <2>1, FS_Subset
    <2> QED BY <1>1, <1>2, <1>3, <2>2, <2>3
  <1>5. Free \subseteq Nat
    BY DEF Conns
  <1>6. FreeNumber \in Free
    <2> HIDE DEF Free
    <2>1. Min(Free) \in Free
      BY <1>4, <1>5, LeastElement
    <2> USE DEF Free
    <2> QED BY <2>1 DEF FreeNumber
  <1> QED BY <1>6, FileFacts

-----------------------------------------------------------------------------
(* Types *)

\* What the types say of the numbers, the frames and the threads.
LEMMA Numbers ==
    ASSUME LoanTypes
    PROVE  /\ MaxConns \in Nat /\ MaxFrames \in Nat /\ MaxFaults \in Nat /\ MaxCloses \in Nat
           /\ Budget \in Nat \ {0} /\ Interval \in Nat \ {0}
           /\ made \in Nat /\ sent \in Nat /\ 1 .. made \subseteq Conns
           /\ 1 .. sent \subseteq Frames /\ None = 0 /\ None \notin alive
           /\ Readers \subseteq Threads /\ Closer \in Threads /\ Closer \notin Readers
           /\ Pullers \subseteq Readers /\ Getters \subseteq Readers
  BY ClientAssumption DEF LoanTypes, SocketVars, DaemonVars, Conns, Frames, None, Readers, Threads

\* What a step that connects nothing leaves to show: the variables it touches.
LEMMA SocketVarsStep ==
    ASSUME SocketInv, LoanTypes, Readings, [Next]_vars
    PROVE  SocketVars' /\ made \in Nat /\ made' \in Nat /\ made <= made'
  <1> USE DEF sockets, daemon, stream, reading, retained, closing
  <1> DEFINE Goal == SocketVars' /\ made \in Nat /\ made' \in Nat /\ made <= made'
  <1>0. SocketVars /\ made \in Nat /\ made <= made
    BY Numbers DEF LoanTypes
  <1>1. ASSUME UNCHANGED <<made, fdOf>>, cached' \in {cached, None}, alive' \subseteq alive,
               doomed' \in [Threads -> 0 .. made]
        PROVE  Goal
    BY <1>0, <1>1 DEF SocketVars, None
  <1>2. ASSUME UNCHANGED <<made, fdOf, cached, alive, doomed>> PROVE Goal
    BY <1>0, <1>1, <1>2 DEF SocketVars
  <1>3. ASSUME NEW t \in Threads, doomed' = [doomed EXCEPT ![t] = cached], alive' = alive,
               UNCHANGED <<made, fdOf>>, cached' = None
        PROVE  Goal
    BY <1>0, <1>1, <1>3 DEF SocketVars
  <1>4. ASSUME NEW t \in Threads, doomed' = [doomed EXCEPT ![t] = None], alive' \subseteq alive,
               UNCHANGED <<made, fdOf, cached>>
        PROVE  Goal
    BY <1>0, <1>1, <1>4 DEF SocketVars, None
  <1>5. ASSUME NEW r \in Readers, GetSockConnects(r) PROVE Goal
    <2>1. FreeNumber \in 0 .. MaxConns
      BY <1>5, FreeNumberFacts DEF GetSockConnects, Conns
    <2>2. /\ made' = made + 1 /\ cached' = made + 1 /\ alive' = alive \cup {made + 1}
          /\ fdOf' = [fdOf EXCEPT ![made + 1] = FreeNumber] /\ doomed' = doomed
          /\ made < MaxConns
      BY <1>5 DEF GetSockConnects
    <2>3. /\ made' \in 0 .. MaxConns /\ made' \in Nat /\ made <= made' /\ 0 .. made \subseteq 0 .. made'
          /\ alive' \subseteq 1 .. made'
      BY <1>0, <2>2, Numbers DEF SocketVars
    <2>4. fdOf' \in [Conns -> 0 .. MaxConns]
      BY <1>0, <2>1, <2>2 DEF SocketVars
    <2>5. doomed' \in [Threads -> 0 .. made'] /\ cached' \in 0 .. made'
      BY <1>0, <2>2, <2>3 DEF SocketVars
    <2> QED BY <1>0, <2>3, <2>4, <2>5 DEF SocketVars
  <1>6. ASSUME NEW r \in Readers, GetSockFails(r) PROVE Goal
    BY <1>0, <1>1, <1>6 DEF GetSockFails, SocketVars
  <1>7. ASSUME NEW r \in Readers, DropUnlinks(r) PROVE Goal
    BY <1>3, <1>7, Numbers DEF DropUnlinks
  <1>8. ASSUME NEW r \in Readers, DropCloses(r) PROVE Goal
    BY <1>4, <1>8, Numbers DEF DropCloses, Shut
  <1>9. ASSUME NEW r \in Readers, Quiet(r) PROVE Goal
    BY <1>2, <1>9 DEF Quiet, Resubscribe, NextBegins, GetBegins, GetSockCached, Load, Enter,
       Timeout, Eof, GotFrame, NoPlanes, Copied, CopyFails, Keep, Decimate
  <1>10. CASE CloseUnlinks BY <1>3, <1>10, Numbers DEF CloseUnlinks
  <1>11. CASE CloseShuts BY <1>4, <1>11, Numbers DEF CloseShuts, Shut
  <1>12. CASE CloseBegins \/ \E f \in Frames : CloseReleases(f) \/ ReleaseKept(f)
    BY <1>2, <1>12 DEF CloseBegins, CloseReleases, ReleaseKept
  <1>13. CASE Daemon
    BY <1>2, <1>13 DEF Daemon, DaemonSends, DaemonCuts, DaemonReclaims
  <1>14. CASE UNCHANGED vars
    BY <1>2, <1>14 DEF vars
  <1>15. ASSUME NEW r \in Readers, Resubscribe(r) \/ NextBegins(r) \/ GetBegins(r) \/ Read(r)
         PROVE  Goal
    BY <1>5, <1>6, <1>7, <1>8, <1>9, <1>15 DEF Read, Quiet
  <1> QED BY <1>10, <1>11, <1>12, <1>13, <1>14, <1>15 DEF Next, Close

\* What readers keep to themselves.
LEMMA ReaderVarsStep ==
    ASSUME SocketInv, LoanTypes, Readings, [Next]_vars
    PROVE  ReaderVars'
  <1> USE DEF sockets, daemon, stream, reading, retained, closing
  <1>0. ReaderVars /\ made \in Nat /\ made' \in Nat /\ made <= made' /\ 0 .. made \subseteq 0 .. made'
    BY SocketVarsStep DEF LoanTypes
  <1>p. {"idle", "connect", "load", "enter", "recv", "drop", "kill", "no_planes", "copy", "keep"} = PCs
    BY DEF PCs, Paths
  <1>1. ASSUME UNCHANGED <<pc, stream, num, at, hand>> PROVE ReaderVars'
    <2>1. sock \in [Readers -> 0 .. made'] /\ at \in [Readers -> 0 .. made']
      BY <1>0 DEF ReaderVars
    <2> QED BY <1>0, <1>1, <2>1 DEF ReaderVars
  <1>2. ASSUME NEW r \in Readers, Resubscribe(r) PROVE ReaderVars'
    BY <1>0, <1>2, Numbers DEF Resubscribe, ReaderVars
  <1>3. ASSUME NEW r \in Readers, NextBegins(r) PROVE ReaderVars'
    BY <1>0, <1>3, <1>p, Numbers DEF NextBegins, Goes, ReaderVars
  <1>4. ASSUME NEW r \in Readers, GetBegins(r) PROVE ReaderVars'
    BY <1>0, <1>4, <1>p, Numbers DEF GetBegins, Goes, ReaderVars
  <1>5. ASSUME NEW r \in Readers, GetSockCached(r) PROVE ReaderVars'
    BY <1>0, <1>5, <1>p, Numbers DEF GetSockCached, Goes, ReaderVars, LoanTypes, SocketVars
  <1>6. ASSUME NEW r \in Readers, GetSockConnects(r) PROVE ReaderVars'
    <2>1. /\ sock \in [Readers -> 0 .. made'] /\ at \in [Readers -> 0 .. made']
          /\ made' = made + 1 /\ made + 1 \in 0 .. made'
      BY <1>0, <1>6 DEF ReaderVars, GetSockConnects
    <2>2. sock' \in [Readers -> 0 .. made'] /\ pc' \in [Readers -> PCs]
      BY <1>0, <1>6, <1>p, <2>1 DEF GetSockConnects, Goes, ReaderVars
    <2> QED BY <1>0, <1>6, <2>1, <2>2 DEF GetSockConnects, ReaderVars
  <1>7. ASSUME NEW r \in Readers, Spend(r), left[r] > 0
        PROVE  left' \in [Readers -> 0 .. Budget] /\ pc' \in [Readers -> PCs] /\ exhausted' \subseteq Pullers
    BY <1>0, <1>7, <1>p, Numbers DEF Spend, Goes, ReaderVars
  <1>8. ASSUME NEW r \in Readers, GetSockFails(r) PROVE ReaderVars'
    <2>1. left[r] > 0 /\ Spend(r)
      BY <1>8 DEF GetSockFails, Readings, Reading
    <2> QED BY <1>0, <1>7, <1>8, <2>1 DEF GetSockFails, ReaderVars
  <1>9. ASSUME NEW r \in Readers, Load(r) PROVE ReaderVars'
    <2>1. (IF sock[r] \in alive THEN fdOf[sock[r]] ELSE None) \in 0 .. MaxConns
      <3>1. sock[r] \in alive => sock[r] \in Conns
        BY Numbers DEF LoanTypes, SocketVars
      <3>2. fdOf \in [Conns -> 0 .. MaxConns] /\ None \in 0 .. MaxConns
        BY Numbers DEF LoanTypes, SocketVars
      <3> QED BY <3>1, <3>2
    <2> QED BY <1>0, <1>9, <1>p, <2>1 DEF Load, Goes, ReaderVars
  <1>10. ASSUME NEW r \in Readers, Enter(r) PROVE ReaderVars'
    <2>1. File(num[r]) \in 0 .. made
      BY FileFacts
    <2> QED BY <1>0, <1>10, <1>p, <2>1, Numbers DEF Enter, Goes, ReaderVars
  <1>11. ASSUME NEW r \in Readers, Timeout(r) \/ Eof(r) PROVE ReaderVars'
    <2>1. at' = [at EXCEPT ![r] = None] /\ UNCHANGED <<made, stream, num, hand>>
      BY <1>11 DEF Timeout, Eof, Unblock
    <2>2. \E label \in {"load", "idle", "drop"} : pc' = [pc EXCEPT ![r] = label]
      BY <1>11 DEF Timeout, Eof, Goes
    <2>3. pc' \in [Readers -> PCs] BY <1>0, <1>p, <2>2 DEF ReaderVars
    <2>4. at' \in [Readers -> 0 .. made] BY <1>0, <2>1, Numbers DEF ReaderVars
    <2> QED BY <1>0, <2>1, <2>3, <2>4 DEF ReaderVars
  <1>12. ASSUME NEW r \in Readers, NEW path \in Paths, GotFrame(r, path) PROVE ReaderVars'
    <2>1. at[r] \in Conns
      BY <1>12, Numbers DEF GotFrame, Readings, Reading, LoanTypes, ReaderVars
    <2>2. Head(wire[at[r]]) \in Frames
      BY <1>12, <2>1, HeadTailProperties DEF GotFrame, LoanTypes, DaemonVars
    <2>3. hand' \in [Readers -> 0 .. MaxFrames] /\ at' \in [Readers -> 0 .. made]
      <3>1. /\ Head(wire[at[r]]) \in 0 .. MaxFrames /\ None \in 0 .. made
            /\ hand' = [hand EXCEPT ![r] = Head(wire[at[r]])] /\ at' = [at EXCEPT ![r] = None]
        BY <1>0, <1>12, <2>2, Numbers DEF GotFrame, Unblock, Frames
      <3> QED BY <1>0, <3>1 DEF ReaderVars
    <2>4. pc' \in [Readers -> PCs] BY <1>0, <1>12 DEF GotFrame, Goes, ReaderVars, PCs
    <2> QED BY <1>0, <1>12, <2>3, <2>4 DEF GotFrame, ReaderVars
  <1>13. ASSUME NEW r \in Readers PROVE hand' = [hand EXCEPT ![r] = None] => hand' \in [Readers -> 0 .. MaxFrames]
    BY <1>0, <1>13, Numbers DEF ReaderVars
  <1>14. ASSUME NEW r \in Readers, Count(r)
         PROVE  seen' \in [Readers -> 0 .. Interval - 1] /\ pc' \in [Readers -> PCs]
    <2>1. Counted(r) \in 0 .. Interval - 1
      <3>1. seen[r] \in Nat /\ Interval \in Nat \ {0} BY <1>0, Numbers DEF ReaderVars
      <3> QED BY <3>1 DEF Counted
    <2> QED BY <1>0, <1>14, <1>p, <2>1 DEF Count, Goes, ReaderVars
  <1>15. ASSUME NEW r \in Readers, Copied(r) \/ Keep(r) \/ Decimate(r) PROVE ReaderVars'
    <2>1. /\ PutDown(r) /\ Count(r)
          /\ UNCHANGED <<made, sock, left, exhausted, num, at>>
      BY <1>15 DEF Copied, Keep, Decimate
    <2>2. /\ seen' \in [Readers -> 0 .. Interval - 1] /\ pc' \in [Readers -> PCs]
          /\ hand' \in [Readers -> 0 .. MaxFrames]
      BY <1>13, <1>14, <2>1 DEF PutDown
    <2> QED BY <1>0, <2>1, <2>2 DEF ReaderVars
  <1>16. ASSUME NEW r \in Readers, NoPlanes(r) \/ CopyFails(r) PROVE ReaderVars'
    <2>1. hand' \in [Readers -> 0 .. MaxFrames]
      BY <1>13, <1>16 DEF NoPlanes, CopyFails, PutDown
    <2> QED BY <1>0, <1>16, <1>p, <2>1 DEF NoPlanes, CopyFails, Goes, ReaderVars
  <1>17. ASSUME NEW r \in Readers, DropUnlinks(r) PROVE ReaderVars'
    BY <1>0, <1>17, <1>p DEF DropUnlinks, Goes, ReaderVars
  <1>18. ASSUME NEW r \in Readers, DropCloses(r) PROVE ReaderVars'
    <2>1. left[r] > 0 /\ Spend(r)
      BY <1>18 DEF DropCloses, Readings, Reading
    <2>2. sock' \in [Readers -> 0 .. made]
      BY <1>0, <1>18, Numbers DEF DropCloses, ReaderVars
    <2> QED BY <1>0, <1>7, <1>18, <2>1, <2>2 DEF DropCloses, ReaderVars
  <1>19. ASSUME NEW r \in Readers, Resubscribe(r) \/ NextBegins(r) \/ GetBegins(r) \/ Read(r)
         PROVE  ReaderVars'
    BY <1>2, <1>3, <1>4, <1>5, <1>6, <1>8, <1>9, <1>10, <1>11, <1>12, <1>15, <1>16, <1>17, <1>18,
       <1>19 DEF Read
  <1>20. CASE Close
    BY <1>1, <1>20 DEF Close, CloseBegins, CloseReleases, CloseUnlinks, CloseShuts
  <1>21. CASE Daemon
    BY <1>1, <1>21 DEF Daemon, DaemonSends, DaemonCuts, DaemonReclaims
  <1>22. CASE UNCHANGED vars \/ \E f \in Frames : ReleaseKept(f)
    BY <1>1, <1>22 DEF vars, ReleaseKept
  <1> QED BY <1>19, <1>20, <1>21, <1>22 DEF Next

\* What the daemon and the kernel keep.
LEMMA DaemonVarsStep ==
    ASSUME SocketInv, LoanTypes, Readings, [Next]_vars
    PROVE  DaemonVars'
  <1> USE DEF sockets, daemon, stream, reading, retained, closing
  <1>0. DaemonVars /\ made \in Nat /\ made' \in Nat /\ made <= made' /\ 0 .. made \subseteq 0 .. made'
    BY SocketVarsStep DEF LoanTypes
  <1>1. ASSUME UNCHANGED <<cut, wire, lent, sent, faults, stray, astray>> PROVE DaemonVars'
    <2>1. lent \in [Frames -> 0 .. made'] BY <1>0 DEF DaemonVars
    <2> QED BY <1>0, <1>1, <2>1 DEF DaemonVars
  <1>2. ASSUME NEW s, NEW f \in Frames, ReleaseOnSock(s, f), UNCHANGED <<made, cut, wire, sent, astray>>,
               faults' \in 0 .. MaxFaults
        PROVE  DaemonVars'
    <2>1. lent' \in [Frames -> 0 .. made] /\ stray' \subseteq Frames
      BY <1>0, <1>2, Numbers DEF DaemonVars, ReleaseOnSock, Released
    <2> QED BY <1>0, <1>2, <2>1 DEF DaemonVars
  <1>3. ASSUME NEW c \in Conns, Reclaim(c), UNCHANGED <<made, sent, stray, astray>>,
               cut' = cut \cup {c}, faults' \in 0 .. MaxFaults, wire' \in [Conns -> Seq(Frames)]
        PROVE  DaemonVars'
    <2>1. lent' \in [Frames -> 0 .. made]
      BY <1>0, <1>3, Numbers DEF DaemonVars, Reclaim
    <2> QED BY <1>0, <1>3, <2>1 DEF DaemonVars
  <1>4. ASSUME NEW c \in Conns, DaemonSends(c) PROVE DaemonVars'
    <2>1. sent + 1 \in Frames /\ sent + 1 \in 0 .. MaxFrames
      BY <1>0, <1>4, Numbers DEF DaemonSends, Frames, DaemonVars
    <2>2. wire' \in [Conns -> Seq(Frames)]
      <3>1. Append(wire[c], sent + 1) \in Seq(Frames)
        BY <1>0, <2>1, AppendProperties DEF DaemonVars
      <3> QED BY <1>0, <1>4, <3>1 DEF DaemonVars, DaemonSends
    <2>3. lent' \in [Frames -> 0 .. made]
      <3>1. c \in 0 .. made /\ lent' = [lent EXCEPT ![sent + 1] = c]
        BY <1>0, <1>4 DEF DaemonSends
      <3> QED BY <1>0, <3>1 DEF DaemonVars
    <2> QED BY <1>0, <1>4, <2>1, <2>2, <2>3 DEF DaemonSends, DaemonVars
  <1>5. ASSUME NEW c \in Conns, DaemonCuts(c) PROVE DaemonVars'
    <2>1. faults' \in 0 .. MaxFaults
      BY <1>0, <1>5, Numbers DEF DaemonCuts, DaemonVars
    <2> QED BY <1>0, <1>3, <1>5, <2>1 DEF DaemonCuts, DaemonVars
  <1>6. ASSUME NEW c \in Conns, DaemonReclaims(c) PROVE DaemonVars'
    <2>1. wire' \in [Conns -> Seq(Frames)]
      BY <1>0, <1>6 DEF DaemonReclaims, DaemonVars
    <2> QED BY <1>0, <1>3, <1>6, <2>1 DEF DaemonReclaims, DaemonVars
  <1>7. ASSUME NEW r \in Readers, GetSockFails(r) \/ CopyFails(r) PROVE DaemonVars'
    <2>1. faults' \in 0 .. MaxFaults
      BY <1>0, <1>7, Numbers DEF GetSockFails, CopyFails, DaemonVars
    <2>2. UNCHANGED <<made, cut, wire, lent, sent, stray, astray>>
      BY <1>7 DEF GetSockFails, CopyFails
    <2> QED BY <1>0, <2>1, <2>2 DEF DaemonVars
  <1>8. ASSUME NEW r \in Readers, NEW path \in Paths, GotFrame(r, path) PROVE DaemonVars'
    <2>1. at[r] \in Conns
      BY <1>8, Numbers DEF GotFrame, Readings, Reading, LoanTypes, ReaderVars
    <2>2. Head(wire[at[r]]) \in Frames /\ Tail(wire[at[r]]) \in Seq(Frames)
      BY <1>0, <1>8, <2>1, HeadTailProperties DEF GotFrame, DaemonVars
    <2>3. wire' \in [Conns -> Seq(Frames)] /\ astray' \subseteq Frames
      BY <1>0, <1>8, <2>2 DEF GotFrame, DaemonVars
    <2> QED BY <1>0, <1>8, <2>3 DEF GotFrame, DaemonVars
  <1>9. ASSUME NEW r \in Readers, NoPlanes(r) \/ Copied(r) \/ Decimate(r) PROVE DaemonVars'
    <2>1. hand[r] \in Frames
      BY <1>9, Numbers DEF NoPlanes, Copied, Decimate, Readings, Reading, Paths, LoanTypes, ReaderVars,
         Frames
    <2>2. ReleaseOnSock(sock[r], hand[r]) /\ UNCHANGED <<made, cut, wire, sent, faults, astray>>
      BY <1>9 DEF NoPlanes, ReleaseNoPlanes, Copied, Decimate
    <2>3. faults' \in 0 .. MaxFaults BY <1>0, <2>2 DEF DaemonVars
    <2> QED BY <1>2, <2>1, <2>2, <2>3
  <1>10. ASSUME NEW f \in Frames, ReleaseKept(f) \/ CloseReleases(f) PROVE DaemonVars'
    <2>1. UNCHANGED <<made, cut, wire, sent, faults, astray>>
      BY <1>10 DEF ReleaseKept, CloseReleases
    <2>2. CASE ReleaseOnSock(via[f], f)
      BY <1>0, <1>2, <2>1, <2>2 DEF DaemonVars
    <2>3. CASE UNCHANGED <<lent, stray>>
      BY <1>1, <2>1, <2>3
    <2> QED BY <1>10, <2>2, <2>3 DEF ReleaseKept, CloseReleases
  <1>11. ASSUME NEW r \in Readers,
                \/ Resubscribe(r) \/ NextBegins(r) \/ GetBegins(r) \/ GetSockCached(r)
                \/ GetSockConnects(r) \/ Load(r) \/ Enter(r) \/ Timeout(r) \/ Eof(r)
                \/ Keep(r) \/ DropUnlinks(r) \/ DropCloses(r)
         PROVE  DaemonVars'
    BY <1>1, <1>11 DEF Resubscribe, NextBegins, GetBegins, GetSockCached, GetSockConnects, Load,
       Enter, Timeout, Eof, Keep, DropUnlinks, DropCloses
  <1>12. ASSUME NEW r \in Readers, Resubscribe(r) \/ NextBegins(r) \/ GetBegins(r) \/ Read(r)
         PROVE  DaemonVars'
    BY <1>7, <1>8, <1>9, <1>11, <1>12 DEF Read
  <1>13. CASE CloseBegins \/ CloseUnlinks \/ CloseShuts \/ UNCHANGED vars
    BY <1>1, <1>13 DEF CloseBegins, CloseUnlinks, CloseShuts, vars
  <1> QED BY <1>4, <1>5, <1>6, <1>10, <1>12, <1>13 DEF Next, Close, Daemon

\* What the application has retained.
LEMMA RetainedVarsStep ==
    ASSUME SocketInv, LoanTypes, Readings, [Next]_vars
    PROVE  RetainedVars'
  <1> USE DEF sockets, daemon, stream, reading, retained, closing
  <1>0. RetainedVars /\ made \in Nat /\ made' \in Nat /\ made <= made' /\ 0 .. made \subseteq 0 .. made'
    BY SocketVarsStep DEF LoanTypes
  <1>1. ASSUME via' = via \/ \E f \in Frames : via' = [via EXCEPT ![f] = None],
               kept' \subseteq kept, kpc' \in {"idle", "release", "shut"},
               held' \subseteq Frames, closes' \in 0 .. MaxCloses
        PROVE  RetainedVars'
    <2>1. via \in [Frames -> 0 .. made'] BY <1>0 DEF RetainedVars
    <2>2. None \in 0 .. made' BY <1>0 DEF None
    <2>3. via' \in [Frames -> 0 .. made'] BY <1>1, <2>1, <2>2
    <2> QED BY <1>0, <1>1, <2>3 DEF RetainedVars
  <1>2. ASSUME UNCHANGED <<kept, via, kpc, held, closes>> PROVE RetainedVars'
    BY <1>0, <1>1, <1>2 DEF RetainedVars
  <1>3. ASSUME NEW r \in Readers, Keep(r) PROVE RetainedVars'
    <2>1. hand[r] \in Frames /\ sock[r] \in 0 .. made
      BY <1>3, Numbers DEF Keep, Readings, Reading, Paths, LoanTypes, ReaderVars, Frames
    <2>2. kept' \subseteq Frames /\ via' \in [Frames -> 0 .. made] /\ made' = made
      BY <1>0, <1>3, <2>1 DEF Keep, RetainedVars
    <2> QED BY <1>0, <1>3, <2>2 DEF Keep, RetainedVars
  <1>4. ASSUME NEW r \in Readers, Resubscribe(r) \/ NextBegins(r) \/ GetBegins(r) \/ Read(r), ~Keep(r)
         PROVE  RetainedVars'
    BY <1>2, <1>4 DEF Read, Resubscribe, NextBegins, GetBegins, GetSockCached, GetSockConnects,
       GetSockFails, Load, Enter, Timeout, Eof, GotFrame, NoPlanes, Copied, CopyFails, Decimate,
       DropUnlinks, DropCloses
  <1>5. ASSUME NEW f \in Frames, ReleaseKept(f) PROVE RetainedVars'
    BY <1>0, <1>1, <1>5 DEF ReleaseKept, RetainedVars
  <1>6. CASE Close
    <2>1. CASE CloseBegins
      <3>1. closes' \in 0 .. MaxCloses /\ held' \subseteq Frames
        BY <1>0, <2>1, Numbers DEF CloseBegins, RetainedVars
      <3> QED BY <1>1, <2>1, <3>1 DEF CloseBegins
    <2>2. ASSUME NEW f \in Frames, CloseReleases(f) PROVE RetainedVars'
      BY <1>0, <1>1, <2>2 DEF CloseReleases, RetainedVars
    <2>3. CASE CloseUnlinks \/ CloseShuts
      BY <1>0, <1>1, <2>3 DEF CloseUnlinks, CloseShuts, RetainedVars
    <2> QED BY <1>6, <2>1, <2>2, <2>3 DEF Close
  <1>7. CASE Daemon \/ UNCHANGED vars
    BY <1>2, <1>7 DEF Daemon, DaemonSends, DaemonCuts, DaemonReclaims, vars
  <1> QED BY <1>3, <1>4, <1>5, <1>6, <1>7 DEF Next

\* All the types together.
LEMMA LoanTypesStep ==
    ASSUME SocketInv, LoanTypes, Readings, [Next]_vars
    PROVE  LoanTypes'
  BY SocketVarsStep, ReaderVarsStep, DaemonVarsStep, RetainedVarsStep DEF LoanTypes

\* A new connection gets a number that no other has.
LEMMA OwnNumbersStep ==
    ASSUME SocketInv, LoanTypes, OwnNumbers, [Next]_vars
    PROVE  OwnNumbers'
  <1> USE DEF sockets, daemon, stream, reading, retained, closing
  <1>1. ASSUME fdOf' = fdOf, alive' \subseteq alive PROVE OwnNumbers'
    BY <1>1 DEF OwnNumbers
  <1>2. ASSUME NEW r \in Readers, GetSockConnects(r) PROVE OwnNumbers'
    <2>1. /\ alive' = alive \cup {made + 1} /\ fdOf' = [fdOf EXCEPT ![made + 1] = FreeNumber]
          /\ made + 1 \in Conns /\ made + 1 \notin alive
      BY <1>2, Numbers DEF GetSockConnects, LoanTypes, SocketVars, Conns
    <2>2. \A c \in alive : fdOf[c] # FreeNumber
      BY <1>2, FreeNumberFacts DEF GetSockConnects
    <2>3. \A c \in alive : fdOf'[c] = fdOf[c]
      BY <2>1 DEF LoanTypes, SocketVars
    <2>4. fdOf'[made + 1] = FreeNumber
      BY <2>1 DEF LoanTypes, SocketVars
    <2> QED BY <2>1, <2>2, <2>3, <2>4 DEF OwnNumbers
  <1>3. ASSUME NEW r \in Readers, Resubscribe(r) \/ NextBegins(r) \/ GetBegins(r) \/ Read(r),
               ~GetSockConnects(r)
         PROVE  OwnNumbers'
    BY <1>1, <1>3 DEF Read, Resubscribe, NextBegins, GetBegins, GetSockCached,
       GetSockFails, Load, Enter, Timeout, Eof, GotFrame, NoPlanes, Copied, CopyFails, Keep, Decimate,
       DropUnlinks, DropCloses, Shut
  <1>4. CASE Close
    BY <1>1, <1>4 DEF Close, CloseBegins, CloseReleases, CloseUnlinks, CloseShuts, Shut
  <1>5. CASE Daemon \/ UNCHANGED vars \/ \E f \in Frames : ReleaseKept(f)
    BY <1>1, <1>5 DEF Daemon, DaemonSends, DaemonCuts, DaemonReclaims, vars, ReleaseKept
  <1> QED BY <1>2, <1>3, <1>4, <1>5 DEF Next

-----------------------------------------------------------------------------
\* Some thread is about to close connection c.
Doomed(c) ==
    \/ \E t \in Threads : doomed[t] = c
    \/ \E r \in Readers : pc[r] = "drop" /\ sock[r] = c

\* A reader's own variables.
Own(r) == <<pc[r], sock[r], left[r], num[r], at[r], hand[r]>>

\* A step of one reader.
Step(r) == Resubscribe(r) \/ NextBegins(r) \/ GetBegins(r) \/ Read(r)

\* A step that is no reader's.
Outside == (\E f \in Frames : ReleaseKept(f)) \/ Close \/ Daemon \/ UNCHANGED vars

\* A reader's step leaves the other readers alone, every other step all of
\* them.
LEMMA OthersStay ==
    ASSUME LoanTypes, NEW r \in Readers, NEW u \in Readers, (Step(r) /\ u # r) \/ Outside
    PROVE  Own(u)' = Own(u)
  <1> USE DEF Own, sockets, daemon, stream, reading, retained, closing
  <1>0. /\ pc \in [Readers -> PCs] /\ sock \in [Readers -> 0 .. made]
        /\ left \in [Readers -> 0 .. Budget] /\ num \in [Readers -> 0 .. MaxConns]
        /\ at \in [Readers -> 0 .. made] /\ hand \in [Readers -> 0 .. MaxFrames]
    BY DEF LoanTypes, ReaderVars
  <1>1. ASSUME UNCHANGED <<pc, sock, left, num, at, hand>> PROVE Own(u)' = Own(u)
    BY <1>1
  <1>2. CASE Outside
    BY <1>1, <1>2 DEF Outside, ReleaseKept, Close, CloseBegins, CloseReleases, CloseUnlinks, CloseShuts,
       Daemon, DaemonSends, DaemonCuts, DaemonReclaims, vars
  <1>3. CASE u # r /\ (Resubscribe(r) \/ NextBegins(r) \/ GetBegins(r) \/ GetSockCached(r))
    BY <1>0, <1>3 DEF Resubscribe, NextBegins, GetBegins, GetSockCached, Goes
  <1>4. CASE u # r /\ (GetSockConnects(r) \/ GetSockFails(r) \/ DropUnlinks(r) \/ DropCloses(r))
    BY <1>0, <1>4 DEF GetSockConnects, GetSockFails, DropUnlinks, DropCloses, Spend, Goes
  <1>5. CASE u # r /\ (Load(r) \/ Enter(r) \/ Timeout(r) \/ Eof(r))
    BY <1>0, <1>5 DEF Load, Enter, Timeout, Eof, Unblock, Goes
  <1>6. CASE u # r /\ \E path \in Paths : GotFrame(r, path)
    BY <1>0, <1>6 DEF GotFrame, Unblock, Goes
  <1>7. CASE u # r /\ (NoPlanes(r) \/ CopyFails(r))
    BY <1>0, <1>7 DEF NoPlanes, CopyFails, PutDown, Goes
  <1>8. CASE u # r /\ (Copied(r) \/ Keep(r) \/ Decimate(r))
    BY <1>0, <1>8 DEF Copied, Keep, Decimate, PutDown, Count, Goes
  <1> QED BY <1>2, <1>3, <1>4, <1>5, <1>6, <1>7, <1>8 DEF Step, Read

\* Connections that are alive were alive before or are new, and keep their
\* numbers.
LEMMA SocketsAge ==
    ASSUME LoanTypes, [Next]_vars
    PROVE  /\ \A c \in alive' : c \in 0 .. made => c \in alive
           /\ \A c \in alive : fdOf'[c] = fdOf[c]
  <1> USE DEF sockets, daemon, stream, reading, retained, closing
  <1> DEFINE Goal == /\ \A c \in alive' : c \in 0 .. made => c \in alive
                     /\ \A c \in alive : fdOf'[c] = fdOf[c]
  <1>1. ASSUME fdOf' = fdOf, alive' \subseteq alive PROVE Goal
    BY <1>1
  <1>2. ASSUME NEW r \in Readers, GetSockConnects(r) PROVE Goal
    <2>1. /\ alive' = alive \cup {made + 1} /\ fdOf' = [fdOf EXCEPT ![made + 1] = FreeNumber]
          /\ made + 1 \notin alive /\ made + 1 \notin 0 .. made
      BY <1>2, Numbers DEF GetSockConnects, LoanTypes, SocketVars
    <2>2. alive \subseteq Conns /\ DOMAIN fdOf = Conns
      BY Numbers DEF LoanTypes, SocketVars
    <2> QED BY <2>1, <2>2
  <1>3. ASSUME NEW r \in Readers, Step(r), ~GetSockConnects(r)
         PROVE  Goal
    BY <1>1, <1>3 DEF Step, Read, Resubscribe, NextBegins, GetBegins, GetSockCached,
       GetSockFails, Load, Enter, Timeout, Eof, GotFrame, NoPlanes, Copied, CopyFails, Keep, Decimate,
       DropUnlinks, DropCloses, Shut
  <1>4. CASE Close
    BY <1>1, <1>4 DEF Close, CloseBegins, CloseReleases, CloseUnlinks, CloseShuts, Shut
  <1>5. CASE Daemon \/ UNCHANGED vars \/ \E f \in Frames : ReleaseKept(f)
    BY <1>1, <1>5 DEF Daemon, DaemonSends, DaemonCuts, DaemonReclaims, vars, ReleaseKept
  <1> QED BY <1>2, <1>3, <1>4, <1>5 DEF Next, Step

\* A reader that did not move reads as before.
LEMMA StillReading ==
    ASSUME LoanTypes, Readings, [Next]_vars, NEW u \in Readers, Own(u)' = Own(u)
    PROVE  Reading(u)'
  <1>1. Reading(u) /\ sock[u] \in 0 .. made
    BY DEF Readings, LoanTypes, ReaderVars
  <1>2. /\ sock[u] \in alive' => sock[u] \in alive
        /\ sock[u] \in alive => fdOf'[sock[u]] = fdOf[sock[u]]
    BY <1>1, SocketsAge
  <1>3. /\ pc'[u] = pc[u] /\ sock'[u] = sock[u] /\ left'[u] = left[u]
        /\ num'[u] = num[u] /\ at'[u] = at[u] /\ hand'[u] = hand[u]
    BY DEF Own
  <1> QED BY <1>1, <1>2, <1>3 DEF Reading

\* A reader's own step keeps its own record straight.
LEMMA OwnReading ==
    ASSUME LoanTypes, Readings, OwnNumbers, [Next]_vars, NEW r \in Readers, Step(r)
    PROVE  Reading(r)'
  <1> USE DEF sockets, daemon, stream, reading, retained, closing
  <1>0. /\ pc \in [Readers -> PCs] /\ sock \in [Readers -> 0 .. made]
        /\ left \in [Readers -> 0 .. Budget] /\ num \in [Readers -> 0 .. MaxConns]
        /\ at \in [Readers -> 0 .. made] /\ hand \in [Readers -> 0 .. MaxFrames]
        /\ seen \in [Readers -> 0 .. Interval - 1] /\ Budget \in Nat \ {0}
        /\ made \in Nat /\ None = 0 /\ None \notin alive /\ MaxFrames \in Nat
    BY Numbers DEF LoanTypes, ReaderVars
  <1>1. Reading(r) /\ sock[r] \in 0 .. made /\ left[r] \in Nat
    BY <1>0 DEF Readings
  <1>2. /\ sock[r] \in alive' => sock[r] \in alive
        /\ sock[r] \in alive => fdOf'[sock[r]] = fdOf[sock[r]]
    BY <1>1, SocketsAge
  <1>p. /\ "idle" \notin Paths /\ "connect" \notin Paths /\ "load" \notin Paths /\ "enter" \notin Paths
        /\ "recv" \notin Paths /\ "drop" \notin Paths /\ "kill" \notin Paths
    BY DEF Paths
  <1>3. ASSUME at'[r] = None, hand'[r] = None,
               pc'[r] \in {"idle", "connect", "load", "drop", "kill"},
               pc'[r] # "idle" => left'[r] > 0
        PROVE  Reading(r)'
    BY <1>3, <1>p DEF Reading
  <1>4. CASE Resubscribe(r)
    BY <1>0, <1>1, <1>3, <1>p, <1>4 DEF Resubscribe, Reading
  <1>5. CASE NextBegins(r) \/ GetBegins(r)
    BY <1>0, <1>1, <1>3, <1>p, <1>5 DEF NextBegins, GetBegins, Goes, Reading
  <1>6. CASE GetSockCached(r) \/ GetSockConnects(r)
    BY <1>0, <1>1, <1>3, <1>p, <1>6 DEF GetSockCached, GetSockConnects, Goes, Reading
  <1>7. ASSUME Spend(r) PROVE pc'[r] \in {"idle", "connect"} /\ (pc'[r] # "idle" => left'[r] > 0)
    BY <1>0, <1>1, <1>7 DEF Spend, Goes
  <1>8. CASE GetSockFails(r)
    BY <1>0, <1>1, <1>3, <1>p, <1>7, <1>8 DEF GetSockFails, Reading
  <1>9. CASE DropCloses(r)
    BY <1>0, <1>1, <1>3, <1>p, <1>7, <1>9 DEF DropCloses, Reading
  <1>10. CASE DropUnlinks(r)
    BY <1>0, <1>1, <1>3, <1>p, <1>10 DEF DropUnlinks, Goes, Reading
  <1>11. CASE Load(r)
    <2>1. /\ pc'[r] = "enter" /\ at'[r] = None /\ hand'[r] = None /\ left'[r] > 0
          /\ sock' = sock /\ alive' = alive /\ fdOf' = fdOf
          /\ sock[r] \in alive => num'[r] = fdOf[sock[r]]
      BY <1>0, <1>1, <1>p, <1>11 DEF Load, Goes, Reading
    <2> QED BY <2>1, <1>p DEF Reading
  <1>12. CASE Enter(r)
    <2>1. /\ at'[r] = File(num[r]) /\ hand'[r] = None /\ left'[r] > 0
          /\ pc'[r] = IF File(num[r]) = None THEN "drop" ELSE "recv"
          /\ sock' = sock /\ alive' = alive
          /\ sock[r] \in alive => num[r] = fdOf[sock[r]]
      BY <1>0, <1>1, <1>p, <1>12 DEF Enter, Goes, Reading
    <2>2. sock[r] \in alive /\ File(num[r]) # None => File(num[r]) = sock[r]
      BY <2>1, FileFacts DEF OwnNumbers
    <2> QED BY <2>1, <2>2, <1>p DEF Reading
  <1>13. CASE Timeout(r) \/ Eof(r)
    BY <1>0, <1>1, <1>3, <1>p, <1>13 DEF Timeout, Eof, Unblock, Goes, Reading
  <1>14. ASSUME NEW path \in Paths, GotFrame(r, path) PROVE Reading(r)'
    <2>1. at[r] \in Conns
      BY <1>0, <1>1, <1>14, Numbers DEF GotFrame, Reading
    <2>2. Head(wire[at[r]]) \in Frames
      BY <1>14, <2>1, HeadTailProperties DEF GotFrame, LoanTypes, DaemonVars
    <2>3. hand'[r] # None /\ pc'[r] = path /\ at'[r] = None /\ left'[r] > 0
      BY <1>0, <1>1, <1>14, <2>2 DEF GotFrame, Unblock, Goes, Frames, Reading
    <2> QED BY <1>14, <2>3 DEF Reading, Paths
  <1>15. CASE NoPlanes(r) \/ CopyFails(r)
    BY <1>0, <1>1, <1>3, <1>p, <1>15 DEF NoPlanes, CopyFails, PutDown, Goes, Reading, Paths
  <1>16. CASE Copied(r) \/ Keep(r) \/ Decimate(r)
    <2>1. PutDown(r) /\ Count(r) /\ UNCHANGED <<left, at>> /\ pc[r] \in {"copy", "keep"}
      BY <1>16 DEF Copied, Keep, Decimate
    <2> QED BY <1>0, <1>1, <1>3, <1>p, <2>1 DEF PutDown, Count, Goes, Reading, Paths
  <1> QED BY <1>4, <1>5, <1>6, <1>8, <1>9, <1>10, <1>11, <1>12, <1>13, <1>14, <1>15, <1>16
       DEF Step, Read

\* Readers keep to their sockets.
LEMMA ReadingsStep ==
    ASSUME LoanTypes, Readings, OwnNumbers, [Next]_vars
    PROVE  Readings'
  <1>1. ASSUME NEW u \in Readers PROVE Reading(u)'
    <2>1. CASE \E r \in Readers : Step(r)
      <3>1. PICK r \in Readers : Step(r)
        BY <2>1
      <3>2. CASE u = r BY <3>1, <3>2, OwnReading
      <3>3. CASE u # r BY <3>1, <3>3, OthersStay, StillReading
      <3> QED BY <3>2, <3>3
    <2>2. CASE Outside BY <2>2, OthersStay, StillReading
    <2> QED BY <2>1, <2>2 DEF Next, Step, Outside
  <1> QED BY <1>1 DEF Readings

-----------------------------------------------------------------------------
(* What a step does to the frames *)

\* What is sent is not on the wire yet.
LEMMA AppendWire ==
    ASSUME NEW S, NEW s \in Seq(S), NEW e \in S, Once(s), e \notin ToSet(s)
    PROVE  ToSet(Append(s, e)) = ToSet(s) \cup {e} /\ Once(Append(s, e))
  <1>1. /\ Len(Append(s, e)) = Len(s) + 1 /\ Len(s) \in Nat
        /\ Append(s, e) \in Seq(S)
        /\ \A i \in 1 .. Len(s) : Append(s, e)[i] = s[i]
        /\ Append(s, e)[Len(s) + 1] = e
    BY AppendProperties, LenProperties
  <1>2. DOMAIN s = 1 .. Len(s) /\ DOMAIN Append(s, e) = 1 .. Len(s) + 1
    BY <1>1, LenProperties
  <1>3. /\ \A i \in 1 .. Len(s) + 1 : i = Len(s) + 1 \/ i \in 1 .. Len(s)
        /\ Len(s) + 1 \in 1 .. Len(s) + 1 /\ \A i \in 1 .. Len(s) : i \in 1 .. Len(s) + 1
    BY <1>1
  <1>4. ToSet(Append(s, e)) = ToSet(s) \cup {e}
    BY <1>1, <1>2, <1>3 DEF ToSet
  <1>5. \A i \in 1 .. Len(s) : s[i] # e
    BY <1>2 DEF ToSet
  <1>6. Once(Append(s, e))
    BY <1>1, <1>2, <1>3, <1>5 DEF Once
  <1> QED BY <1>4, <1>6

\* What is read is on the wire no more.
LEMMA TailWire ==
    ASSUME NEW S, NEW s \in Seq(S), s # <<>>, Once(s)
    PROVE  /\ ToSet(s) = ToSet(Tail(s)) \cup {Head(s)} /\ Once(Tail(s))
           /\ Head(s) \notin ToSet(Tail(s)) /\ Head(s) \in S
  <1>1. /\ Head(s) \in S /\ Tail(s) \in Seq(S) /\ Len(Tail(s)) = Len(s) - 1
        /\ Len(s) \in Nat \ {0} /\ Head(s) = s[1]
        /\ \A i \in 1 .. Len(Tail(s)) : Tail(s)[i] = s[i + 1]
    BY HeadTailProperties, EmptySeq, LenProperties
  <1>2. DOMAIN s = 1 .. Len(s) /\ DOMAIN Tail(s) = 1 .. Len(s) - 1
    BY <1>1, LenProperties
  <1>3. /\ \A i \in 1 .. Len(s) - 1 : i + 1 \in 1 .. Len(s) /\ i + 1 # 1 /\ Tail(s)[i] = s[i + 1]
        /\ \A i \in 1 .. Len(s) : i = 1 \/ (i - 1 \in 1 .. Len(s) - 1 /\ Tail(s)[i - 1] = s[i])
        /\ 1 \in 1 .. Len(s)
    BY <1>1
  <1>4. ToSet(s) = ToSet(Tail(s)) \cup {Head(s)}
    <2>1. ASSUME NEW x \in ToSet(s)
          PROVE  x \in ToSet(Tail(s)) \cup {Head(s)}
      <3>1. PICK i \in 1 .. Len(s) : s[i] = x
        BY <1>2, <2>1 DEF ToSet
      <3>2. CASE i = 1
        BY <1>1, <3>1, <3>2
      <3>3. CASE i - 1 \in 1 .. Len(s) - 1 /\ Tail(s)[i - 1] = s[i]
        BY <1>2, <3>1, <3>3 DEF ToSet
      <3> QED BY <1>3, <3>2, <3>3
    <2>2. ASSUME NEW x \in ToSet(Tail(s))
          PROVE  x \in ToSet(s)
      <3>1. PICK i \in 1 .. Len(s) - 1 : Tail(s)[i] = x
        BY <1>2, <2>2 DEF ToSet
      <3>2. i + 1 \in 1 .. Len(s) /\ s[i + 1] = x
        BY <1>3, <3>1
      <3> QED BY <1>2, <3>2 DEF ToSet
    <2>3. Head(s) \in ToSet(s)
      BY <1>1, <1>2, <1>3 DEF ToSet
    <2> QED BY <2>1, <2>2, <2>3
  <1>5. Once(Tail(s))
    <2>1. ASSUME NEW m \in 1 .. Len(s) - 1, NEW n \in 1 .. Len(s) - 1, Tail(s)[m] = Tail(s)[n]
          PROVE  m = n
      <3>1. m + 1 = n + 1
        BY <1>2, <1>3, <2>1 DEF Once
      <3> QED BY <1>1, <3>1
    <2> QED BY <1>2, <2>1 DEF Once
  <1>6. ASSUME NEW m \in 1 .. Len(s) - 1 PROVE Tail(s)[m] # Head(s)
    BY <1>1, <1>2, <1>3 DEF Once
  <1> QED BY <1>1, <1>2, <1>4, <1>5, <1>6 DEF ToSet

\* Steps that leave every frame where it is.
Plain == UNCHANGED <<wire, lent, sent, kept, via, hand, astray, stray, cut>>

\* The daemon loses a connection.
Loses(c) ==
    /\ c \in (1 .. made) \ cut /\ Reclaim(c) /\ cut' = cut \cup {c}
    /\ wire' = wire \/ (c \notin alive /\ wire' = [wire EXCEPT ![c] = <<>>])
    /\ UNCHANGED <<sent, kept, via, hand, astray, stray>>

\* A reader releases the frame in its hand.
GivesBack(r) ==
    /\ hand[r] # None /\ ReleaseOnSock(sock[r], hand[r]) /\ PutDown(r)
    /\ UNCHANGED <<wire, sent, kept, via, astray, cut>>

\* A retained frame is released.
Frees(f) ==
    /\ f \in kept /\ kept' = kept \ {f} /\ ReleaseOnSock(via[f], f)
    /\ via' = [via EXCEPT ![f] = None] /\ UNCHANGED <<wire, sent, hand, astray, cut>>

\* Every step is of one of these kinds.
LEMMA Kinds ==
    ASSUME Readings, [Next]_vars
    PROVE  \/ Plain
           \/ \E c \in Conns : DaemonSends(c) \/ Loses(c)
           \/ \E r \in Readers, path \in Paths : GotFrame(r, path)
           \/ \E r \in Readers : GivesBack(r) \/ CopyFails(r) \/ Keep(r)
           \/ \E f \in Frames : Frees(f)
  <1> USE DEF sockets, daemon, stream, reading, retained, closing
  <1>1. ASSUME NEW r \in Readers, Resubscribe(r) \/ NextBegins(r) \/ GetBegins(r) \/ GetSockCached(r)
               \/ GetSockConnects(r) \/ GetSockFails(r) \/ Load(r) \/ Enter(r) \/ Timeout(r) \/ Eof(r)
               \/ DropUnlinks(r) \/ DropCloses(r)
        PROVE  Plain
    BY <1>1 DEF Plain, Resubscribe, NextBegins, GetBegins, GetSockCached, GetSockConnects, GetSockFails,
       Load, Enter, Timeout, Eof, DropUnlinks, DropCloses
  <1>2. ASSUME NEW r \in Readers, NoPlanes(r) \/ Copied(r) \/ Decimate(r) PROVE GivesBack(r)
    BY <1>2 DEF GivesBack, NoPlanes, ReleaseNoPlanes, Copied, Decimate, Readings, Reading, Paths
  <1>3. CASE CloseBegins \/ CloseUnlinks \/ CloseShuts \/ UNCHANGED vars
    BY <1>3 DEF Plain, CloseBegins, CloseUnlinks, CloseShuts, vars
  <1>4. ASSUME NEW f \in Frames, ReleaseKept(f) \/ CloseReleases(f) PROVE Frees(f) \/ Plain
    <2>1. CASE f \in kept BY <1>4, <2>1 DEF Frees, ReleaseKept, CloseReleases
    <2>2. CASE f \notin kept BY <1>4, <2>2 DEF Plain, ReleaseKept, CloseReleases
    <2> QED BY <2>1, <2>2
  <1>5. ASSUME NEW c \in Conns, DaemonCuts(c) \/ DaemonReclaims(c) PROVE Loses(c)
    BY <1>5 DEF Loses, DaemonCuts, DaemonReclaims, Open
  <1>6. ASSUME NEW r \in Readers, Step(r)
        PROVE  \/ Plain \/ \E path \in Paths : GotFrame(r, path)
               \/ GivesBack(r) \/ CopyFails(r) \/ Keep(r)
    BY <1>1, <1>2, <1>6 DEF Step, Read
  <1>7. CASE Close BY <1>3, <1>4, <1>7 DEF Close
  <1>8. CASE Daemon BY <1>5, <1>8 DEF Daemon
  <1> QED BY <1>3, <1>4, <1>6, <1>7, <1>8 DEF Next, Step

-----------------------------------------------------------------------------
(* Every frame is in one place *)

\* Taking frames out of places keeps the others apart.
LEMMA FewerPlaces ==
    ASSUME Places, sent' = sent, kept' \subseteq kept,
           \A c \in Conns : Once(wire'[c]) /\ ToSet(wire'[c]) \subseteq ToSet(wire[c]),
           \A r \in Readers : hand'[r] \in {hand[r], None}
    PROVE  Places'
  <1>1. kept' \subseteq 1 .. sent'
    BY DEF Places
  <1>2. \A c \in Conns : Once(wire'[c]) /\ ToSet(wire'[c]) \subseteq (1 .. sent') \ kept'
    BY DEF Places
  <1>3. \A c, d \in Conns : c # d => ToSet(wire'[c]) \cap ToSet(wire'[d]) = {}
    BY DEF Places
  <1>4. ASSUME NEW r \in Readers, hand'[r] # None
        PROVE  /\ hand'[r] \in (1 .. sent') \ kept'
               /\ \A c \in Conns : ~OnWire(hand[r], c)'
               /\ \A u \in Readers : hand'[u] = hand'[r] => u = r
    BY <1>4 DEF Places, OnWire
  <1> QED BY <1>1, <1>2, <1>3, <1>4 DEF Places, OnWire

\* A frame that is sent is new.
LEMMA SentPlaces ==
    ASSUME LoanTypes, Places, NEW c \in Conns, DaemonSends(c)
    PROVE  Places'
  <1> DEFINE n == sent + 1
  <1>0. /\ sent \in Nat /\ n \in Frames /\ n \notin 1 .. sent /\ 1 .. sent' = (1 .. sent) \cup {n}
        /\ n # None
    BY Numbers DEF DaemonSends, Frames, LoanTypes, DaemonVars
  <1>1. /\ kept' = kept /\ hand' = hand /\ sent' = n
        /\ wire' = [wire EXCEPT ![c] = Append(wire[c], n)] /\ wire \in [Conns -> Seq(Frames)]
    BY DEF DaemonSends, retained, reading, LoanTypes, DaemonVars
  <1>2. n \notin ToSet(wire[c]) /\ Once(wire[c])
    BY <1>0 DEF Places
  <1>3. ToSet(wire'[c]) = ToSet(wire[c]) \cup {n} /\ Once(wire'[c])
    BY <1>0, <1>1, <1>2, AppendWire
  <1>4. \A d \in Conns : d # c => wire'[d] = wire[d]
    BY <1>1
  <1> HIDE DEF n
  <1>5. \A d \in Conns : Once(wire'[d]) /\ ToSet(wire'[d]) \subseteq (1 .. sent') \ kept'
    BY <1>0, <1>1, <1>3, <1>4 DEF Places
  <1>6. \A d, e \in Conns : d # e => ToSet(wire'[d]) \cap ToSet(wire'[e]) = {}
    BY <1>0, <1>3, <1>4 DEF Places
  <1>7. ASSUME NEW r \in Readers, hand'[r] # None
        PROVE  /\ hand'[r] \in (1 .. sent') \ kept'
               /\ \A d \in Conns : hand'[r] \notin ToSet(wire'[d])
               /\ \A u \in Readers : hand'[u] = hand'[r] => u = r
    BY <1>0, <1>1, <1>3, <1>4, <1>7 DEF Places, OnWire
  <1>8. kept' \subseteq 1 .. sent'
    BY <1>0, <1>1 DEF Places
  <1> QED BY <1>5, <1>6, <1>7, <1>8 DEF Places, OnWire

\* A frame that is read leaves the wire for a hand.
LEMMA ReadPlaces ==
    ASSUME LoanTypes, Readings, Places, NEW r \in Readers, NEW path \in Paths, GotFrame(r, path)
    PROVE  Places'
  <1> DEFINE c == at[r]
             h == Head(wire[c])
  <1>0. c \in Conns /\ hand[r] = None
    <2>1. Reading(r) /\ pc[r] = "recv" /\ "recv" \notin Paths
      BY DEF GotFrame, Readings, Paths
    <2>2. c \in 0 .. made /\ c # None /\ hand[r] = None
      BY <2>1 DEF Reading, LoanTypes, ReaderVars
    <2> QED BY <2>2, Numbers
  <1>1. /\ kept' = kept /\ sent' = sent /\ wire[c] # <<>>
        /\ hand' = [hand EXCEPT ![r] = h] /\ wire' = [wire EXCEPT ![c] = Tail(wire[c])]
        /\ wire \in [Conns -> Seq(Frames)] /\ hand \in [Readers -> 0 .. MaxFrames]
    BY DEF GotFrame, retained, LoanTypes, DaemonVars, ReaderVars
  <1>2. /\ ToSet(wire[c]) = ToSet(Tail(wire[c])) \cup {h} /\ Once(Tail(wire[c]))
        /\ h \notin ToSet(Tail(wire[c])) /\ h \in Frames
    BY <1>0, <1>1, TailWire DEF Places
  <1>3. /\ \A d \in Conns : Once(wire'[d]) /\ ToSet(wire'[d]) \subseteq ToSet(wire[d])
        /\ \A d \in Conns : d # c => ToSet(wire'[d]) = ToSet(wire[d])
        /\ ToSet(wire'[c]) = ToSet(Tail(wire[c]))
    BY <1>0, <1>1, <1>2 DEF Places
  <1>4. /\ h \in (1 .. sent) \ kept /\ h # None
        /\ \A d \in Conns : h \notin ToSet(wire'[d])
        /\ \A u \in Readers : hand[u] # h
    <2>1. h \in (1 .. sent) \ kept /\ h # None
      BY <1>0, <1>2, Numbers DEF Places, Frames
    <2>2. \A d \in Conns : h \notin ToSet(wire'[d])
      BY <1>0, <1>2, <1>3 DEF Places
    <2>3. \A u \in Readers : hand[u] # h
      BY <1>0, <1>2, <2>1 DEF Places, OnWire
    <2> QED BY <2>1, <2>2, <2>3
  <1>5. hand'[r] = h /\ \A u \in Readers : u # r => hand'[u] = hand[u]
    BY <1>1
  <1> HIDE DEF h, c
  <1>6. kept' \subseteq 1 .. sent'
    BY <1>1 DEF Places
  <1>7. \A d \in Conns : Once(wire'[d]) /\ ToSet(wire'[d]) \subseteq (1 .. sent') \ kept'
    BY <1>1, <1>3 DEF Places
  <1>8. \A d, e \in Conns : d # e => ToSet(wire'[d]) \cap ToSet(wire'[e]) = {}
    BY <1>3 DEF Places
  <1>9. ASSUME NEW u \in Readers, hand'[u] # None
        PROVE  /\ hand'[u] \in (1 .. sent') \ kept'
               /\ \A d \in Conns : hand'[u] \notin ToSet(wire'[d])
               /\ \A v \in Readers : hand'[v] = hand'[u] => v = u
    BY <1>1, <1>3, <1>4, <1>5, <1>9 DEF Places, OnWire
  <1> QED BY <1>6, <1>7, <1>8, <1>9 DEF Places, OnWire

\* A frame that is kept leaves a hand for the application.
LEMMA KeptPlaces ==
    ASSUME LoanTypes, Readings, Places, NEW r \in Readers, Keep(r)
    PROVE  Places'
  <1>0. pc[r] = "keep" /\ hand[r] # None
    BY DEF Keep, Readings, Reading, Paths
  <1>1. /\ kept' = kept \cup {hand[r]} /\ sent' = sent /\ wire' = wire
        /\ hand' = [hand EXCEPT ![r] = None]
        /\ hand \in [Readers -> 0 .. MaxFrames]
    BY DEF Keep, PutDown, daemon, LoanTypes, ReaderVars
  <1>2. /\ hand[r] \in (1 .. sent) \ kept
        /\ \A c \in Conns : hand[r] \notin ToSet(wire[c])
        /\ \A u \in Readers : hand[u] = hand[r] => u = r
    BY <1>0 DEF Places, OnWire
  <1>3. hand'[r] = None /\ \A u \in Readers : u # r => hand'[u] = hand[u]
    BY <1>1
  <1>4. kept' \subseteq 1 .. sent'
    BY <1>1, <1>2 DEF Places
  <1>5. \A d \in Conns : Once(wire'[d]) /\ ToSet(wire'[d]) \subseteq (1 .. sent') \ kept'
    BY <1>1, <1>2 DEF Places
  <1>6. \A d, e \in Conns : d # e => ToSet(wire'[d]) \cap ToSet(wire'[e]) = {}
    BY <1>1 DEF Places
  <1>7. ASSUME NEW u \in Readers, hand'[u] # None
        PROVE  /\ hand'[u] \in (1 .. sent') \ kept'
               /\ \A d \in Conns : hand'[u] \notin ToSet(wire'[d])
               /\ \A v \in Readers : hand'[v] = hand'[u] => v = u
    BY <1>1, <1>2, <1>3, <1>7 DEF Places, OnWire
  <1> QED BY <1>4, <1>5, <1>6, <1>7 DEF Places, OnWire

\* No step puts a frame in two places.
LEMMA PlacesStep ==
    ASSUME LoanTypes, Readings, Places, [Next]_vars
    PROVE  Places'
  <1>0. hand \in [Readers -> 0 .. MaxFrames] /\ wire \in [Conns -> Seq(Frames)]
    BY DEF LoanTypes, ReaderVars, DaemonVars
  <1>1. CASE Plain
    BY <1>1, FewerPlaces DEF Plain, Places
  <1>2. ASSUME NEW c \in Conns, Loses(c) PROVE Places'
    <2>1. ToSet(<<>>) = {} /\ Once(<<>>)
      BY DEF ToSet, Once
    <2>2. \A d \in Conns : Once(wire'[d]) /\ ToSet(wire'[d]) \subseteq ToSet(wire[d])
      BY <1>0, <1>2, <2>1 DEF Loses, Places
    <2> QED BY <1>2, <2>2, FewerPlaces DEF Loses
  <1>3. ASSUME NEW r \in Readers, PutDown(r), UNCHANGED <<wire, sent, kept>> PROVE Places'
    BY <1>0, <1>3, FewerPlaces DEF PutDown, Places
  <1>4. ASSUME NEW r \in Readers, GivesBack(r) \/ CopyFails(r) PROVE Places'
    BY <1>3, <1>4 DEF GivesBack, CopyFails, retained
  <1>5. ASSUME NEW f \in Frames, Frees(f) PROVE Places'
    BY <1>5, FewerPlaces DEF Frees, Places
  <1> QED BY <1>1, <1>2, <1>4, <1>5, Kinds, SentPlaces, ReadPlaces, KeptPlaces

-----------------------------------------------------------------------------
(* Loans *)

\* A reader with a frame in hand keeps its socket.
LEMMA SameSocket ==
    ASSUME LoanTypes, Readings, [Next]_vars, NEW r \in Readers, hand[r] # None
    PROVE  sock'[r] = sock[r]
  <1> USE DEF sockets, daemon, stream, reading, retained, closing
  <1>0. /\ Reading(r) /\ pc[r] \in Paths /\ "idle" \notin Paths /\ "connect" \notin Paths
        /\ "kill" \notin Paths
    BY DEF Readings, Reading, Paths
  <1>1. ASSUME sock' = sock PROVE sock'[r] = sock[r]
    BY <1>1
  <1>2. CASE Step(r)
    BY <1>0, <1>1, <1>2 DEF Step, Read, Resubscribe, NextBegins, GetBegins, GetSockCached, GetSockConnects,
       GetSockFails, Load, Enter, Timeout, Eof, GotFrame, NoPlanes, Copied, CopyFails, Keep, Decimate,
       DropUnlinks, DropCloses
  <1>3. CASE Outside
    <2>1. Own(r)' = Own(r) BY <1>3, OthersStay
    <2> QED BY <2>1 DEF Own
  <1>4. ASSUME NEW u \in Readers, u # r, Step(u) PROVE sock'[r] = sock[r]
    <2>1. Own(r)' = Own(r) BY <1>4, OthersStay
    <2> QED BY <2>1 DEF Own
  <1> QED BY <1>2, <1>3, <1>4 DEF Next, Step, Outside

\* The daemon takes frames back by itself when it loses their connection.
Steady(f) == lent'[f] = lent[f] \/ (lent[f] \in cut' /\ lent'[f] = None)

\* A loan stands as long as the daemon does not take a RELEASE for it.
LEMMA LoanStands ==
    ASSUME LoanTypes, [Next]_vars, NEW f \in Frames, NEW s \in 0 .. made, Loan(f, s),
           Steady(f), cut \subseteq cut', astray \subseteq astray'
    PROVE  /\ s \in alive' => lent'[f] = s \/ s \in cut'
           /\ f \notin astray' => lent'[f] \in {s, None}
  <1>1. s \in alive' => s \in alive
    BY SocketsAge
  <1> QED BY <1>1 DEF Loan, Steady

\* A frame on the wire is lent on that connection until the daemon loses it.
WireLoan(f, c) == lent[f] = c \/ (lent[f] = None /\ c \in cut)

\* Loans stand for the frames that stay where they are.
LEMMA LoansStand ==
    ASSUME LoanTypes, Readings, Loans, [Next]_vars, cut \subseteq cut', astray \subseteq astray',
           \A c \in Conns : \A f \in ToSet(wire'[c]) : f \in ToSet(wire[c]) /\ Steady(f),
           \A r \in Readers : \A f \in Frames : hand'[r] = f => hand[r] = f /\ Steady(f),
           \A f \in kept' : f \in kept /\ Steady(f) /\ via'[f] = via[f]
    PROVE  Loans'
  <1>0. sock \in [Readers -> 0 .. made] /\ via \in [Frames -> 0 .. made] /\ kept \subseteq Frames
    BY DEF LoanTypes, ReaderVars, RetainedVars
  <1>1. ASSUME NEW c \in Conns, NEW f \in ToSet(wire'[c])
        PROVE  lent'[f] = c \/ (lent'[f] = None /\ c \in cut')
    BY DEF Loans, Steady
  <1>2. ASSUME NEW r \in Readers, NEW f \in Frames, hand'[r] = f
        PROVE  /\ sock'[r] \in alive' => lent'[f] = sock'[r] \/ sock'[r] \in cut'
               /\ f \notin astray' => lent'[f] \in {sock'[r], None}
    <2>1. hand[r] = f /\ Steady(f) /\ f # None
      BY <1>2, Numbers DEF Frames
    <2>2. sock'[r] = sock[r] /\ sock[r] \in 0 .. made /\ Loan(f, sock[r])
      BY <1>0, <2>1, SameSocket DEF Loans
    <2> QED BY <2>1, <2>2, LoanStands
  <1>3. ASSUME NEW f \in kept'
        PROVE  /\ via'[f] \in alive' => lent'[f] = via'[f] \/ via'[f] \in cut'
               /\ f \notin astray' => lent'[f] \in {via'[f], None}
    <2>1. f \in kept /\ f \in Frames /\ Steady(f) /\ via'[f] = via[f] /\ via[f] \in 0 .. made
      BY <1>0
    <2>2. Loan(f, via[f])
      BY <2>1 DEF Loans
    <2> QED BY <2>1, <2>2, LoanStands
  <1> QED BY <1>1, <1>2, <1>3 DEF Loans, Loan

\* A RELEASE takes back the frame it is for and no other, and reaches the
\* connection that lends it.
LEMMA ReleaseFacts ==
    ASSUME LoanTypes, NEW f \in Frames, NEW s, Loan(f, s), ReleaseOnSock(s, f)
    PROVE  /\ \A g \in Frames : g # f => lent'[g] = lent[g]
           /\ lent'[f] \in {lent[f], None} /\ stray' = stray
           /\ (lent'[f] = lent[f] /\ f \notin astray) => lent[f] \notin alive
  <1>1. lent \in [Frames -> 0 .. made] /\ None \notin alive
    BY Numbers DEF LoanTypes, DaemonVars
  <1> QED BY <1>1 DEF ReleaseOnSock, Released, Loan, None

\* No step breaks a loan whose frame somebody still has.
LEMMA LoansStep ==
    ASSUME LoanTypes, Readings, Places, Loans, [Next]_vars
    PROVE  Loans'
  <1>0. /\ hand \in [Readers -> 0 .. MaxFrames] /\ wire \in [Conns -> Seq(Frames)]
        /\ lent \in [Frames -> 0 .. made] /\ None = 0 /\ None \notin Frames
        /\ kept \subseteq Frames /\ \A c \in Conns : ToSet(wire[c]) \subseteq Frames
    <2>1. \A c \in Conns : ToSet(wire[c]) \subseteq Frames
      BY Numbers DEF Places
    <2>2. None = 0 /\ None \notin Frames
      BY Numbers DEF Frames
    <2> QED BY <2>1, <2>2 DEF LoanTypes, ReaderVars, DaemonVars, RetainedVars
  <1>1. CASE Plain
    BY <1>1, LoansStand DEF Plain, Steady
  <1>2. ASSUME NEW c \in Conns, Loses(c) PROVE Loans'
    <2>1. \A f \in Frames : Steady(f)
      BY <1>0, <1>2 DEF Loses, Reclaim, Steady
    <2>2. \A d \in Conns : ToSet(wire'[d]) \subseteq ToSet(wire[d])
      <3>1. ToSet(<<>>) = {} BY DEF ToSet
      <3> QED BY <1>0, <1>2, <3>1 DEF Loses
    <2> QED BY <1>0, <1>2, <2>1, <2>2, LoansStand DEF Loses
  <1>3. ASSUME NEW c \in Conns, DaemonSends(c) PROVE Loans'
    <2>1. /\ kept' = kept /\ hand' = hand /\ via' = via /\ cut' = cut /\ astray' = astray
          /\ lent' = [lent EXCEPT ![sent + 1] = c] /\ sock' = sock /\ alive' = alive
          /\ wire' = [wire EXCEPT ![c] = Append(wire[c], sent + 1)]
          /\ sent + 1 \in Frames /\ sent + 1 \notin 1 .. sent
      BY <1>3, Numbers DEF DaemonSends, retained, reading, stream, sockets, Frames, LoanTypes, DaemonVars
    <2>2. \A f \in 1 .. sent : lent'[f] = lent[f]
      BY <2>1, <1>0
    <2>3. lent'[sent + 1] = c
      BY <2>1, <1>0
    <2>4. ToSet(wire'[c]) = ToSet(wire[c]) \cup {sent + 1}
      BY <1>0, <2>1, AppendWire DEF Places
    <2>5. ASSUME NEW d \in Conns, NEW f \in ToSet(wire'[d])
          PROVE  lent'[f] = d \/ (lent'[f] = None /\ d \in cut')
      <3>1. CASE f = sent + 1
        <4>1. d = c
          BY <1>0, <2>1, <2>5, <3>1 DEF Places
        <4> QED BY <2>3, <3>1, <4>1
      <3>2. CASE f # sent + 1
        <4>1. f \in ToSet(wire[d])
          BY <1>0, <2>1, <2>4, <2>5, <3>2
        <4>2. f \in 1 .. sent
          BY <4>1 DEF Places
        <4> QED BY <2>1, <2>2, <4>1, <4>2 DEF Loans
      <3> QED BY <3>1, <3>2
    <2>6. ASSUME NEW r \in Readers, NEW f \in Frames, hand'[r] = f
          PROVE  /\ sock'[r] \in alive' => lent'[f] = sock'[r] \/ sock'[r] \in cut'
                 /\ f \notin astray' => lent'[f] \in {sock'[r], None}
      <3>1. f \in 1 .. sent /\ hand[r] = f
        BY <1>0, <2>1, <2>6 DEF Places
      <3>2. Loan(f, sock[r]) /\ lent'[f] = lent[f]
        BY <2>2, <3>1 DEF Loans
      <3> QED BY <2>1, <3>2 DEF Loan
    <2>7. ASSUME NEW f \in kept'
          PROVE  /\ via'[f] \in alive' => lent'[f] = via'[f] \/ via'[f] \in cut'
                 /\ f \notin astray' => lent'[f] \in {via'[f], None}
      <3>1. Loan(f, via[f]) /\ lent'[f] = lent[f]
        BY <2>1, <2>2, <2>7 DEF Loans, Places
      <3> QED BY <2>1, <3>1 DEF Loan
    <2> QED BY <2>5, <2>6, <2>7 DEF Loans, Loan
  <1>4. ASSUME NEW r \in Readers, NEW path \in Paths, GotFrame(r, path) PROVE Loans'
    <2> DEFINE c == at[r]
               h == Head(wire[c])
    <2>1. c \in Conns /\ (sock[r] \in alive => c = sock[r])
      <3>1. Reading(r) /\ pc[r] = "recv"
        BY <1>4 DEF GotFrame, Readings
      <3>2. c \in 0 .. made /\ c # None /\ (sock[r] \in alive => c = sock[r])
        BY <3>1 DEF Reading, LoanTypes, ReaderVars
      <3> QED BY <3>2, Numbers
    <2>2. /\ kept' = kept /\ via' = via /\ cut' = cut /\ lent' = lent /\ sock' = sock
          /\ alive' = alive /\ wire[c] # <<>>
          /\ astray' = (IF c = sock[r] THEN astray ELSE astray \cup {h})
          /\ hand' = [hand EXCEPT ![r] = h] /\ wire' = [wire EXCEPT ![c] = Tail(wire[c])]
      BY <1>4 DEF GotFrame, retained, stream, sockets
    <2>3. ToSet(wire[c]) = ToSet(Tail(wire[c])) \cup {h}
      BY <1>0, <2>1, <2>2, TailWire DEF Places
    <2>4. h \in ToSet(wire[c]) /\ h \in Frames /\ hand'[r] = h
      BY <1>0, <2>1, <2>2, <2>3
    <2> HIDE DEF h, c
    <2>5. \A d \in Conns : ToSet(wire'[d]) \subseteq ToSet(wire[d])
      BY <1>0, <2>1, <2>2, <2>3
    <2>6. /\ sock[r] \in alive => lent[h] = sock[r] \/ sock[r] \in cut
          /\ h \notin astray' => lent[h] \in {sock[r], None}
      BY <2>1, <2>2, <2>4 DEF Loans
    <2>7. ASSUME NEW u \in Readers, NEW f \in Frames, hand'[u] = f
          PROVE  /\ sock[u] \in alive => lent[f] = sock[u] \/ sock[u] \in cut
                 /\ f \notin astray' => lent[f] \in {sock[u], None}
      <3>1. CASE u = r
        BY <2>4, <2>6, <2>7, <3>1
      <3>2. CASE u # r
        <4>1. hand[u] = f
          BY <1>0, <2>2, <2>7, <3>2
        <4>2. Loan(f, sock[u])
          BY <4>1 DEF Loans
        <4> QED BY <2>2, <4>2 DEF Loan
      <3> QED BY <3>1, <3>2
    <2>8. ASSUME NEW f \in kept
          PROVE  /\ via[f] \in alive => lent[f] = via[f] \/ via[f] \in cut
                 /\ f \notin astray' => lent[f] \in {via[f], None}
      BY <2>2 DEF Loans, Loan
    <2>9. \A d \in Conns : \A f \in ToSet(wire'[d]) : lent[f] = d \/ (lent[f] = None /\ d \in cut)
      BY <2>5 DEF Loans
    <2> QED BY <2>2, <2>7, <2>8, <2>9 DEF Loans, Loan
  <1>5. ASSUME NEW r \in Readers, GivesBack(r) PROVE Loans'
    <2>1. hand[r] \in Frames /\ Loan(hand[r], sock[r]) /\ ReleaseOnSock(sock[r], hand[r])
      BY <1>0, <1>5 DEF GivesBack, Loans, Frames
    <2>2. \A g \in Frames : g # hand[r] => Steady(g)
      BY <2>1, ReleaseFacts DEF Steady
    <2>3. /\ hand' = [hand EXCEPT ![r] = None] /\ UNCHANGED <<wire, kept, via, astray, cut>>
      BY <1>5 DEF GivesBack, PutDown
    <2>4. /\ \A c \in Conns : hand[r] \notin ToSet(wire[c])
          /\ hand[r] \notin kept /\ \A u \in Readers : hand[u] = hand[r] => u = r
      BY <1>5 DEF GivesBack, Places, OnWire
    <2>5. \A c \in Conns : \A f \in ToSet(wire'[c]) : f \in ToSet(wire[c]) /\ Steady(f)
      BY <1>0, <2>2, <2>3, <2>4
    <2>6. \A u \in Readers : \A f \in Frames : hand'[u] = f => hand[u] = f /\ Steady(f)
      BY <1>0, <2>2, <2>3, <2>4
    <2>7. \A f \in kept' : f \in kept /\ Steady(f) /\ via'[f] = via[f]
      BY <1>0, <2>2, <2>3, <2>4
    <2> QED BY <2>3, <2>5, <2>6, <2>7, LoansStand
  <1>6. ASSUME NEW r \in Readers, CopyFails(r) PROVE Loans'
    <2>1. hand' = [hand EXCEPT ![r] = None] /\ UNCHANGED <<wire, kept, via, astray, cut, lent>>
      BY <1>6 DEF CopyFails, PutDown, retained
    <2> QED BY <1>0, <2>1, LoansStand DEF Steady
  <1>7. ASSUME NEW r \in Readers, Keep(r) PROVE Loans'
    <2>1. /\ kept' = kept \cup {hand[r]} /\ via' = [via EXCEPT ![hand[r]] = sock[r]]
          /\ hand' = [hand EXCEPT ![r] = None]
          /\ UNCHANGED <<wire, cut, lent, astray, sock, alive>>
          /\ hand[r] # None
      BY <1>7 DEF Keep, PutDown, daemon, sockets, Readings, Reading, Paths
    <2>2. hand[r] \in Frames /\ Loan(hand[r], sock[r]) /\ hand[r] \notin kept
      BY <1>0, <2>1 DEF Loans, Frames, Places
    <2>3. ASSUME NEW f \in kept' PROVE Loan(f, via'[f])
      <3>1. via \in [Frames -> 0 .. made] BY DEF LoanTypes, RetainedVars
      <3>2. CASE f = hand[r] BY <2>1, <2>2, <3>1, <3>2
      <3>3. CASE f # hand[r]
        <4>1. f \in kept /\ via'[f] = via[f]
          BY <1>0, <2>1, <2>3, <3>1, <3>3
        <4> QED BY <4>1 DEF Loans
      <3> QED BY <3>2, <3>3
    <2>4. ASSUME NEW u \in Readers, NEW f \in Frames, hand'[u] = f PROVE Loan(f, sock[u])
      BY <1>0, <2>1, <2>4 DEF Loans
    <2> QED BY <2>1, <2>3, <2>4 DEF Loans, Loan
  <1>8. ASSUME NEW f \in Frames, Frees(f) PROVE Loans'
    <2>1. Loan(f, via[f]) /\ ReleaseOnSock(via[f], f) /\ f \in kept
      BY <1>8 DEF Frees, Loans
    <2>2. \A g \in Frames : g # f => Steady(g)
      BY <2>1, ReleaseFacts DEF Steady
    <2>3. /\ kept' = kept \ {f} /\ via' = [via EXCEPT ![f] = None]
          /\ UNCHANGED <<wire, hand, astray, cut>>
      BY <1>8 DEF Frees
    <2>4. /\ \A c \in Conns : f \notin ToSet(wire[c])
          /\ \A u \in Readers : hand[u] # f
      BY <1>0, <2>1 DEF Places
    <2>5. \A c \in Conns : \A g \in ToSet(wire'[c]) : g \in ToSet(wire[c]) /\ Steady(g)
      BY <1>0, <2>2, <2>3, <2>4
    <2>6. \A u \in Readers : \A g \in Frames : hand'[u] = g => hand[u] = g /\ Steady(g)
      BY <2>2, <2>3, <2>4
    <2>7. \A g \in kept' : g \in kept /\ Steady(g) /\ via'[g] = via[g]
      <3>1. via \in [Frames -> 0 .. made] /\ kept \subseteq Frames BY DEF LoanTypes, RetainedVars
      <3> QED BY <2>2, <2>3, <3>1
    <2> QED BY <2>3, <2>5, <2>6, <2>7, LoansStand
  <1> QED BY <1>1, <1>2, <1>3, <1>4, <1>5, <1>6, <1>7, <1>8, Kinds

-----------------------------------------------------------------------------
(* Frames that are lent are accounted for *)

\* Who is about to close an open connection goes on to do it.
LEMMA DoomStays ==
    ASSUME SocketInv, LoanTypes, Readings, [Next]_vars, NEW c \in alive, Doomed(c), c \in alive'
    PROVE  Doomed(c)'
  <1> USE DEF sockets, daemon, stream, reading, retained, closing
  <1>0. /\ doomed \in [Threads -> 0 .. made] /\ pc \in [Readers -> PCs] /\ c # None
        /\ sock \in [Readers -> 0 .. made]
        /\ Readers \subseteq Threads /\ Closer \in Threads /\ Closer \notin Readers
    BY Numbers DEF LoanTypes, SocketVars, ReaderVars
  <1>1. ASSUME doomed' = doomed, \A r \in Readers : pc[r] = "drop" => pc'[r] = "drop" /\ sock'[r] = sock[r]
        PROVE  Doomed(c)'
    BY <1>1 DEF Doomed
  <1>2. ASSUME UNCHANGED <<doomed, pc, sock>> PROVE Doomed(c)'
    BY <1>1, <1>2
  <1>3. ASSUME NEW r \in Readers, Step(r), ~DropUnlinks(r), ~DropCloses(r) PROVE Doomed(c)'
    <2>1. doomed' = doomed /\ pc[r] # "drop"
      BY <1>3 DEF Step, Read, Resubscribe, NextBegins, GetBegins, GetSockCached, GetSockConnects,
         GetSockFails, Load, Enter, Timeout, Eof, GotFrame, NoPlanes, Copied, CopyFails, Keep, Decimate
    <2>2. \A u \in Readers : u # r => pc'[u] = pc[u] /\ sock'[u] = sock[u]
      <3>1. ASSUME NEW u \in Readers, u # r PROVE pc'[u] = pc[u] /\ sock'[u] = sock[u]
        <4>1. Own(u)' = Own(u) BY <1>3, <3>1, OthersStay
        <4> QED BY <4>1 DEF Own
      <3> QED BY <3>1
    <2> QED BY <1>1, <2>1, <2>2
  <1>4. ASSUME NEW t \in Threads, doomed[t] = None, doomed' = [doomed EXCEPT ![t] = cached]
        PROVE  /\ \A x \in Threads : doomed[x] = c => doomed'[x] = c
               /\ c = cached => doomed'[t] = c
    BY <1>0, <1>4
  <1>5. ASSUME NEW r \in Readers, DropUnlinks(r) PROVE Doomed(c)'
    <2>1. doomed[r] = None /\ doomed' = [doomed EXCEPT ![r] = cached] /\ r \in Threads
      BY <1>0, <1>5 DEF DropUnlinks, SocketInv, HandsFull
    <2>2. c = cached \/ \E t \in Threads : doomed[t] = c
      BY DEF SocketInv, NoOrphan
    <2> QED BY <1>4, <2>1, <2>2 DEF Doomed
  <1>6. ASSUME NEW t \in Threads, Shut(t), doomed' = [doomed EXCEPT ![t] = None],
               \A u \in Readers : pc[u] = "drop" => pc'[u] = "drop" /\ sock'[u] = sock[u]
        PROVE  Doomed(c)'
    <2>1. doomed[t] # c
      BY <1>6 DEF Shut
    <2> QED BY <1>0, <1>6, <2>1 DEF Doomed
  <1>7. ASSUME NEW r \in Readers, DropCloses(r) PROVE Doomed(c)'
    <2>1. \A u \in Readers : pc[u] = "drop" => pc'[u] = "drop" /\ sock'[u] = sock[u]
      <3>1. ASSUME NEW u \in Readers, pc[u] = "drop" PROVE pc'[u] = "drop" /\ sock'[u] = sock[u]
        <4>1. u # r BY <1>7, <3>1 DEF DropCloses
        <4>2. Own(u)' = Own(u) BY <1>7, <4>1, OthersStay DEF Step, Read
        <4> QED BY <3>1, <4>2 DEF Own
      <3> QED BY <3>1
    <2> QED BY <1>0, <1>6, <1>7, <2>1 DEF DropCloses
  <1>8. CASE CloseUnlinks
    <2>1. doomed[Closer] = None /\ doomed' = [doomed EXCEPT ![Closer] = cached] /\ UNCHANGED <<pc, sock>>
      BY <1>8 DEF CloseUnlinks, SocketInv, HandsFull
    <2> QED BY <1>0, <1>4, <2>1 DEF Doomed
  <1>9. CASE CloseShuts
    BY <1>0, <1>6, <1>9 DEF CloseShuts
  <1>10. CASE CloseBegins \/ (\E f \in Frames : CloseReleases(f) \/ ReleaseKept(f)) \/ Daemon \/ UNCHANGED vars
    BY <1>2, <1>10 DEF CloseBegins, CloseReleases, ReleaseKept, Daemon, DaemonSends, DaemonCuts,
       DaemonReclaims, vars
  <1> QED BY <1>3, <1>5, <1>7, <1>8, <1>9, <1>10 DEF Next, Step, Close

\* Somebody has frame f, which is lent on connection c.
Held(f, c) == f \in ToSet(wire[c]) \/ (\E r \in Readers : hand[r] = f) \/ f \in kept

\* A frame lent after the step and before it, on a connection open at both ends,
\* is still accounted for if it stays with somebody.
LEMMA StillAccounted ==
    ASSUME SocketInv, LoanTypes, Readings, LentAccounted, [Next]_vars, NEW f \in Frames,
           lent'[f] = lent[f], lent'[f] \in alive' \ cut', f \notin astray',
           cut \subseteq cut', astray \subseteq astray',
           Held(f, lent[f]) => Held(f, lent[f])' \/ Doomed(lent[f])'
    PROVE  Held(f, lent[f])' \/ Doomed(lent[f])'
  <1>1. lent[f] \in 0 .. made
    BY DEF LoanTypes, DaemonVars
  <1>2. lent[f] \in alive \ cut /\ f \notin astray
    BY <1>1, SocketsAge
  <1>3. Held(f, lent[f]) \/ Doomed(lent[f])
    BY <1>2 DEF LentAccounted, Held, Doomed
  <1>4. Doomed(lent[f]) => \A c \in {lent[f]} : Doomed(c)'
    BY <1>2, DoomStays
  <1> QED BY <1>3, <1>4 DEF Held, Doomed

-----------------------------------------------------------------------------
\* LentAccounted, one frame at a time.
LEMMA AccountedFrames ==
    ASSUME \A f \in Frames : (lent[f] \in alive \ cut /\ f \notin astray) =>
               Held(f, lent[f]) \/ Doomed(lent[f])
    PROVE  LentAccounted
  BY DEF LentAccounted, Held, Doomed

\* No step loses sight of a frame.
LEMMA AccountedStep ==
    ASSUME SocketInv, LoanTypes, Readings, Places, Loans, LentAccounted, [Next]_vars
    PROVE  LentAccounted'
  <1>0. /\ hand \in [Readers -> 0 .. MaxFrames] /\ wire \in [Conns -> Seq(Frames)]
        /\ lent \in [Frames -> 0 .. made] /\ None = 0 /\ None \notin Frames
        /\ kept \subseteq Frames /\ sock \in [Readers -> 0 .. made] /\ pc \in [Readers -> PCs]
        /\ None \notin alive /\ alive \subseteq Conns
        /\ \A c \in alive' : c \in 0 .. made => c \in alive
    <2>1. None = 0 /\ None \notin Frames /\ None \notin alive /\ alive \subseteq Conns
      BY Numbers DEF Frames, LoanTypes, SocketVars
    <2> QED BY <2>1, SocketsAge DEF LoanTypes, ReaderVars, DaemonVars, RetainedVars
  <1> SUFFICES ASSUME NEW f \in Frames, lent'[f] \in alive' \ cut', f \notin astray'
               PROVE  Held(f, lent[f])' \/ Doomed(lent[f])'
    BY DEF LentAccounted, Held, Doomed
  <1>1. CASE Plain
    <2>1. Held(f, lent[f]) => Held(f, lent[f])'
      BY <1>1 DEF Plain, Held
    <2> QED BY <1>1, <2>1, StillAccounted DEF Plain
  <1>2. ASSUME NEW c \in Conns, Loses(c) PROVE Held(f, lent[f])' \/ Doomed(lent[f])'
    <2>1. UNCHANGED <<kept, hand, astray>> /\ cut' = cut \cup {c}
      BY <1>2 DEF Loses
    <2>2. lent'[f] = IF lent[f] = c THEN None ELSE lent[f]
      BY <1>2 DEF Loses, Reclaim
    <2>3. None \notin alive'
      BY <1>0, SocketVarsStep DEF SocketVars
    <2>4. lent'[f] = lent[f] /\ lent[f] # c
      BY <2>2, <2>3
    <2>5. wire'[lent[f]] = wire[lent[f]]
      <3>1. lent[f] \in Conns
        BY <1>0, <2>4
      <3> QED BY <1>0, <1>2, <2>4, <3>1 DEF Loses
    <2>6. Held(f, lent[f]) => Held(f, lent[f])'
      BY <2>1, <2>4, <2>5 DEF Held
    <2> QED BY <2>1, <2>4, <2>6, StillAccounted
  <1>3. ASSUME NEW c \in Conns, DaemonSends(c) PROVE Held(f, lent[f])' \/ Doomed(lent[f])'
    <2>1. /\ kept' = kept /\ hand' = hand /\ cut' = cut /\ astray' = astray
          /\ lent' = [lent EXCEPT ![sent + 1] = c]
          /\ wire' = [wire EXCEPT ![c] = Append(wire[c], sent + 1)]
          /\ sent + 1 \in Frames /\ sent + 1 \notin 1 .. sent
      BY <1>3, Numbers DEF DaemonSends, retained, reading, Frames, LoanTypes, DaemonVars
    <2>2. ToSet(wire'[c]) = ToSet(wire[c]) \cup {sent + 1}
      BY <1>0, <2>1, AppendWire DEF Places
    <2>3. CASE f = sent + 1
      <3>1. lent'[f] = c /\ f \in ToSet(wire'[c])
        BY <1>0, <2>1, <2>2, <2>3
      <3> QED BY <3>1 DEF Held
    <2>4. CASE f # sent + 1
      <3>1. lent'[f] = lent[f]
        BY <1>0, <2>1, <2>4
      <3>2. f \in ToSet(wire[lent[f]]) => f \in ToSet(wire'[lent[f]])
        BY <1>0, <2>1, <2>2
      <3>3. Held(f, lent[f]) => Held(f, lent[f])'
        BY <2>1, <3>1, <3>2 DEF Held
      <3> QED BY <2>1, <3>1, <3>3, StillAccounted
    <2> QED BY <2>3, <2>4
  <1>4. ASSUME NEW r \in Readers, NEW path \in Paths, GotFrame(r, path)
        PROVE  Held(f, lent[f])' \/ Doomed(lent[f])'
    <2>1. at[r] \in Conns /\ hand[r] = None
      <3>1. Reading(r) /\ pc[r] = "recv" /\ "recv" \notin Paths
        BY <1>4 DEF GotFrame, Readings, Paths
      <3>2. at[r] \in 0 .. made /\ at[r] # None /\ hand[r] = None
        BY <3>1 DEF Reading, LoanTypes, ReaderVars
      <3> QED BY <3>2, Numbers
    <2>2. /\ kept' = kept /\ cut' = cut /\ lent' = lent /\ astray \subseteq astray'
          /\ wire[at[r]] # <<>> /\ hand' = [hand EXCEPT ![r] = Head(wire[at[r]])]
          /\ wire' = [wire EXCEPT ![at[r]] = Tail(wire[at[r]])]
      BY <1>4 DEF GotFrame, retained
    <2>3. ToSet(wire[at[r]]) = ToSet(Tail(wire[at[r]])) \cup {Head(wire[at[r]])}
      BY <1>0, <2>1, <2>2, TailWire DEF Places
    <2>4. f \in ToSet(wire[lent[f]]) => f \in ToSet(wire'[lent[f]]) \/ hand'[r] = f
      BY <1>0, <2>1, <2>2, <2>3
    <2>5. \A u \in Readers : hand[u] = f => hand'[u] = f
      BY <1>0, <2>1, <2>2
    <2>6. Held(f, lent[f]) => Held(f, lent[f])'
      BY <2>2, <2>4, <2>5 DEF Held
    <2> QED BY <2>2, <2>6, StillAccounted
  <1>5. ASSUME NEW r \in Readers, GivesBack(r) PROVE Held(f, lent[f])' \/ Doomed(lent[f])'
    <2>1. hand[r] \in Frames /\ Loan(hand[r], sock[r]) /\ ReleaseOnSock(sock[r], hand[r])
      BY <1>0, <1>5 DEF GivesBack, Loans, Frames
    <2>2. hand' = [hand EXCEPT ![r] = None] /\ UNCHANGED <<wire, kept, astray, cut>>
      BY <1>5 DEF GivesBack, PutDown
    <2>3. f # hand[r]
      <3>1. ASSUME f = hand[r] PROVE FALSE
        <4>1. None \notin alive'
          BY <1>0, SocketVarsStep DEF SocketVars
        <4>2. lent'[f] = lent[f] /\ lent[f] \notin alive
          BY <2>1, <2>2, <3>1, <4>1, ReleaseFacts
        <4> QED BY <1>0, <4>2
      <3> QED BY <3>1
    <2>4. lent'[f] = lent[f]
      BY <2>1, <2>3, ReleaseFacts
    <2>5. Held(f, lent[f]) => Held(f, lent[f])'
      BY <1>0, <2>2, <2>3, <2>4 DEF Held
    <2> QED BY <2>2, <2>4, <2>5, StillAccounted
  <1>6. ASSUME NEW r \in Readers, CopyFails(r) PROVE Held(f, lent[f])' \/ Doomed(lent[f])'
    <2>1. /\ hand' = [hand EXCEPT ![r] = None] /\ UNCHANGED <<wire, kept, astray, cut, lent, sock, alive>>
          /\ pc'[r] = "drop"
      BY <1>0, <1>6 DEF CopyFails, PutDown, Goes, retained, stream, sockets
    <2>2. CASE f = hand[r]
      <3>1. Loan(f, sock[r])
        BY <2>2 DEF Loans
      <3>2. sock'[r] = lent'[f]
        BY <1>0, <2>1, <3>1 DEF Loan
      <3> QED BY <2>1, <3>2 DEF Doomed
    <2>3. CASE f # hand[r]
      <3>1. Held(f, lent[f]) => Held(f, lent[f])'
        BY <1>0, <2>1, <2>3 DEF Held
      <3> QED BY <2>1, <3>1, StillAccounted
    <2> QED BY <2>2, <2>3
  <1>7. ASSUME NEW r \in Readers, Keep(r) PROVE Held(f, lent[f])' \/ Doomed(lent[f])'
    <2>1. /\ kept' = kept \cup {hand[r]} /\ hand' = [hand EXCEPT ![r] = None]
          /\ UNCHANGED <<wire, cut, lent, astray>>
      BY <1>7 DEF Keep, PutDown, daemon
    <2>2. Held(f, lent[f]) => Held(f, lent[f])'
      BY <1>0, <2>1 DEF Held
    <2> QED BY <2>1, <2>2, StillAccounted
  <1>8. ASSUME NEW g \in Frames, Frees(g) PROVE Held(f, lent[f])' \/ Doomed(lent[f])'
    <2>1. Loan(g, via[g]) /\ ReleaseOnSock(via[g], g)
      BY <1>8 DEF Frees, Loans
    <2>2. kept' = kept \ {g} /\ UNCHANGED <<wire, hand, astray, cut>>
      BY <1>8 DEF Frees
    <2>3. f # g
      <3>1. ASSUME f = g PROVE FALSE
        <4>1. None \notin alive'
          BY <1>0, SocketVarsStep DEF SocketVars
        <4>2. lent'[f] = lent[f] /\ lent[f] \notin alive
          BY <2>1, <2>2, <3>1, <4>1, ReleaseFacts
        <4> QED BY <1>0, <4>2
      <3> QED BY <3>1
    <2>4. lent'[f] = lent[f]
      BY <2>1, <2>3, ReleaseFacts
    <2>5. Held(f, lent[f]) => Held(f, lent[f])'
      BY <1>0, <2>2, <2>3, <2>4 DEF Held
    <2> QED BY <2>2, <2>4, <2>5, StillAccounted
  <1> QED BY <1>1, <1>2, <1>3, <1>4, <1>5, <1>6, <1>7, <1>8, Kinds

\* Every RELEASE that is sent is for a frame lent on that connection.
LEMMA StrayStep ==
    ASSUME LoanTypes, Readings, Loans, NoStrayRelease, [Next]_vars
    PROVE  NoStrayRelease'
  <1>1. ASSUME stray' = stray PROVE NoStrayRelease'
    BY <1>1 DEF NoStrayRelease
  <1>2. ASSUME NEW r \in Readers, GivesBack(r) PROVE NoStrayRelease'
    <2>1. hand[r] \in Frames
      <3>1. hand[r] \in 0 .. MaxFrames /\ hand[r] # None
        BY <1>2 DEF GivesBack, LoanTypes, ReaderVars
      <3> QED BY <3>1, Numbers DEF Frames
    <2>2. Loan(hand[r], sock[r]) /\ ReleaseOnSock(sock[r], hand[r])
      BY <1>2, <2>1 DEF GivesBack, Loans
    <2> QED BY <1>1, <2>1, <2>2, ReleaseFacts
  <1>3. ASSUME NEW f \in Frames, Frees(f) PROVE NoStrayRelease'
    <2>1. Loan(f, via[f]) /\ ReleaseOnSock(via[f], f)
      BY <1>3 DEF Frees, Loans
    <2> QED BY <1>1, <2>1, ReleaseFacts
  <1>4. CASE Plain \/ (\E c \in Conns : DaemonSends(c) \/ Loses(c))
             \/ (\E r \in Readers, path \in Paths : GotFrame(r, path))
             \/ (\E r \in Readers : CopyFails(r) \/ Keep(r))
    BY <1>1, <1>4 DEF Plain, DaemonSends, Loses, GotFrame, CopyFails, Keep, daemon
  <1> QED BY <1>2, <1>3, <1>4, Kinds

-----------------------------------------------------------------------------
\* The invariant holds at first.
LEMMA LoanInit == Init => LoanInv
  <1> SUFFICES ASSUME Init PROVE LoanInv
    OBVIOUS
  <1>0. /\ MaxConns \in Nat /\ MaxFrames \in Nat /\ MaxFaults \in Nat /\ MaxCloses \in Nat
        /\ Budget \in Nat \ {0} /\ Interval \in Nat \ {0} /\ None = 0 /\ None \notin Conns
        /\ None \notin Frames
    BY ClientAssumption DEF None, Conns, Frames
  <1>1. SocketInv
    BY DEF Init, SocketInv, SocketTypes, HandsFull, NoOrphan, Threads, None
  <1>2. SocketVars
    BY <1>0 DEF Init, SocketVars
  <1>3. DaemonVars
    <2>1. wire \in [Conns -> Seq(Frames)] BY DEF Init
    <2> QED BY <1>0, <2>1 DEF Init, DaemonVars
  <1>4. ReaderVars
    BY <1>0 DEF Init, ReaderVars, PCs
  <1>5. RetainedVars
    BY <1>0 DEF Init, RetainedVars
  <1>6. OwnNumbers
    BY DEF Init, OwnNumbers
  <1>7. Readings
    BY <1>0 DEF Init, Readings, Reading, Paths
  <1>8. \A c \in Conns : Once(wire[c]) /\ ToSet(wire[c]) = {}
    BY DEF Init, Once, ToSet
  <1>9. Places
    BY <1>8 DEF Init, Places
  <1>10. Loans
    BY <1>0, <1>8 DEF Init, Loans
  <1>11. LentAccounted /\ NoStrayRelease
    BY DEF Init, LentAccounted, NoStrayRelease
  <1> QED BY <1>1, <1>2, <1>3, <1>4, <1>5, <1>6, <1>7, <1>9, <1>10, <1>11 DEF LoanInv, LoanTypes

\* The invariant is inductive.
LEMMA LoanStep == LoanInv /\ [Next]_vars => LoanInv'
  BY SocketStep, LoanTypesStep, OwnNumbersStep, ReadingsStep, PlacesStep, LoansStep, AccountedStep,
     StrayStep DEF LoanInv

\* The loans of the frame server are sound for every number of readers, frames,
\* connections, faults and calls of close(): no two open connections share a
\* descriptor number, every frame lent is accounted for, and every RELEASE
\* reaches the connection that lends its frame.
THEOREM LoansAreSound == Spec => []LoansSound
  <1>1. LoanInv => LoansSound
    <2> SUFFICES ASSUME LoanInv PROVE LoansSound
      OBVIOUS
    <2>1. SocketVars /\ DaemonVars /\ ReaderVars /\ RetainedVars /\ OwnNumbers
      BY DEF LoanInv, LoanTypes
    <2>2. made \in Nat /\ MaxConns \in Nat /\ 0 .. made \subseteq 0 .. MaxConns
      BY <2>1, ClientAssumption DEF SocketVars
    <2>3. TypeOK
      BY <2>1, <2>2 DEF TypeOK, SocketVars, DaemonVars, ReaderVars, RetainedVars, OwnNumbers
    <2> QED BY <2>3 DEF LoanInv, LoansSound
  <1> QED BY <1>1, LoanInit, LoanStep, PTL DEF Spec

-----------------------------------------------------------------------------
\* The client lends frames as LentFrames says.

\* A frame is not astray before it is read, nor where its RELEASE can still be
\* sent.
Touch ==
    /\ astray \subseteq 1 .. sent
    /\ \A c \in Conns : ToSet(wire[c]) \cap astray = {}
    /\ \A r \in Readers : \A f \in Frames : hand[r] = f /\ sock[r] \in alive => f \notin astray
    /\ \A f \in kept : via[f] \in alive => f \notin astray

LendInv == LoanInv /\ Touch

\* A frame is in the place where somebody has it, and in no other.
Shape(g) ==
    /\ g > sent => Place(g) = "unsent" /\ Due(g) = None
    /\ (\E c \in Conns : OnWire(g, c)) => Place(g) = "wire" /\ Due(g) = None
    /\ \A r \in Readers : hand[r] = g => Place(g) = "reader" /\ Due(g) = sock[r]
    /\ g \in kept => Place(g) = "application" /\ Due(g) = via[g]
    /\ \/ g > sent \/ (\E c \in Conns : OnWire(g, c)) \/ (\E r \in Readers : hand[r] = g)
       \/ g \in kept \/ (Place(g) = "gone" /\ Due(g) = None)

\* By Places, in every state that satisfies it.
LEMMA Shapes == LoanTypes /\ Places => \A g \in Frames : Shape(g)
  <1> SUFFICES ASSUME LoanTypes, Places, NEW g \in Frames PROVE Shape(g)
    OBVIOUS
  <1>1. sent \in Nat /\ g \in Nat /\ g # None
    BY Numbers DEF Frames
  <1>2. g > sent => /\ \A c \in Conns : ~OnWire(g, c)
                    /\ \A r \in Readers : hand[r] # g
                    /\ g \notin kept
    BY <1>1 DEF Places, OnWire
  <1>3. \A c \in Conns : OnWire(g, c) => /\ ~(g > sent) /\ g \notin kept
                                         /\ \A r \in Readers : hand[r] # g
    BY <1>1, <1>2 DEF Places, OnWire
  <1>4. ASSUME NEW r \in Readers, hand[r] = g
        PROVE  Place(g) = "reader" /\ Due(g) = sock[r] /\ g \notin kept
    <2>1. ~(g > sent) /\ g \notin kept /\ ~\E c \in Conns : OnWire(g, c)
      BY <1>1, <1>4 DEF Places
    <2>2. Place(g) = "reader"
      BY <1>4, <2>1 DEF Place, OnWire
    <2> DEFINE u == CHOOSE u \in Readers : hand[u] = g
    <2>3. u \in Readers /\ hand[u] = g
      BY <1>4
    <2>4. u = r
      BY <1>1, <1>4, <2>3 DEF Places
    <2>5. Due(g) = sock[u]
      BY <1>4 DEF Due
    <2> QED BY <2>1, <2>2, <2>4, <2>5
  <1>5. g > sent => Place(g) = "unsent" /\ Due(g) = None
    BY <1>2 DEF Place, Due
  <1>6. (\E c \in Conns : OnWire(g, c)) => Place(g) = "wire" /\ Due(g) = None
    BY <1>3 DEF Place, Due, OnWire
  <1>7. g \in kept => Place(g) = "application" /\ Due(g) = via[g]
    BY <1>2, <1>3, <1>4 DEF Place, Due, OnWire
  <1>8. \/ g > sent \/ (\E c \in Conns : OnWire(g, c)) \/ (\E r \in Readers : hand[r] = g)
        \/ g \in kept \/ (Place(g) = "gone" /\ Due(g) = None)
    BY DEF Place, Due, OnWire
  <1> QED BY <1>4, <1>5, <1>6, <1>7, <1>8 DEF Shape

\* And so after a step.
LEMMA NextShapes == (LoanTypes /\ Places)' => \A g \in Frames : Shape(g)'
  <1>1. (LoanTypes /\ Places)' => (\A g \in Frames : Shape(g))'
    BY Shapes, PTL
  <1> QED BY <1>1
\* A step leaves frame g with whoever has it.
Unmoved(g) ==
    /\ g > sent' <=> g > sent
    /\ (\E c \in Conns : g \in ToSet(wire'[c])) <=> \E c \in Conns : g \in ToSet(wire[c])
    /\ \A r \in Readers : hand'[r] = g <=> hand[r] = g
    /\ g \in kept' <=> g \in kept
    /\ g \in kept => via'[g] = via[g]

\* Then its place is the same, and so is the socket its RELEASE is due on.
LEMMA StaysThere ==
    ASSUME LendInv, LendInv', [Next]_vars, NEW g \in Frames, Unmoved(g)
    PROVE  Place(g)' = Place(g) /\ Due(g)' = Due(g)
  <1>1. Shape(g) /\ Shape(g)'
    BY Shapes, NextShapes DEF LendInv, LoanInv
  <1>2. g # None
    BY DEF None, Frames, LendInv, LoanInv
  <1>3. \A r \in Readers : hand[r] = g => sock'[r] = sock[r]
    BY <1>2, SameSocket DEF LendInv, LoanInv
  <1>4. CASE g > sent
    BY <1>1, <1>4 DEF Unmoved, Shape
  <1>5. CASE \E c \in Conns : OnWire(g, c)
    BY <1>1, <1>5 DEF Unmoved, Shape, OnWire
  <1>6. ASSUME NEW r \in Readers, hand[r] = g PROVE Place(g)' = Place(g) /\ Due(g)' = Due(g)
    BY <1>1, <1>3, <1>6 DEF Unmoved, Shape
  <1>7. CASE g \in kept
    BY <1>1, <1>7 DEF Unmoved, Shape
  <1>8. CASE ~(g > sent) /\ (~\E c \in Conns : OnWire(g, c)) /\ (~\E r \in Readers : hand[r] = g) /\ g \notin kept
    BY <1>1, <1>8 DEF Unmoved, Shape, OnWire
  <1> QED BY <1>4, <1>5, <1>6, <1>7, <1>8

\* Where all frames are, and the sockets they are due on: what LentFrames sees.
Map == [f \in Frames |-> Place(f)]
Dues == [f \in Frames |-> Due(f)]

\* A step that moves one frame.
LEMMA MovesOne ==
    ASSUME LendInv, LendInv', [Next]_vars, NEW f \in Frames,
           \A g \in Frames : g # f => Unmoved(g)
    PROVE  Map' = [Map EXCEPT ![f] = Place(f)'] /\ Dues' = [Dues EXCEPT ![f] = Due(f)']
  <1>1. \A g \in Frames : g # f => Place(g)' = Place(g) /\ Due(g)' = Due(g)
    BY StaysThere
  <1> QED BY <1>1 DEF Map, Dues

\* A step that moves none.
LEMMA MovesNone ==
    ASSUME LendInv, LendInv', [Next]_vars, \A g \in Frames : Unmoved(g)
    PROVE  Map' = Map /\ Dues' = Dues
  <1>1. \A g \in Frames : Place(g)' = Place(g) /\ Due(g)' = Due(g)
    BY StaysThere
  <1> QED BY <1>1 DEF Map, Dues

-----------------------------------------------------------------------------
\* Sockets are opened and closed in steps that do nothing else to a frame.
Connects == made < MaxConns /\ made' = made + 1 /\ alive' = alive \cup {made + 1}
Shuts == made' = made /\ \E t \in Threads : alive' = alive \ {doomed[t]}

\* What a step does to the sockets.
LEMMA SocketKinds ==
    ASSUME LoanTypes, [Next]_vars
    PROVE  UNCHANGED <<made, alive>> \/ (Plain /\ (Connects \/ Shuts))
  <1> USE DEF sockets, daemon, stream, reading, retained, closing
  <1> DEFINE Goal == UNCHANGED <<made, alive>> \/ (Plain /\ (Connects \/ Shuts))
  <1>0. Readers \subseteq Threads /\ Closer \in Threads
    BY Numbers
  <1>1. ASSUME NEW r \in Readers, GetSockConnects(r) PROVE Goal
    BY <1>1 DEF GetSockConnects, Plain, Connects
  <1>2. ASSUME NEW r \in Readers, DropCloses(r) PROVE Goal
    BY <1>0, <1>2 DEF DropCloses, Shut, Plain, Shuts
  <1>3. CASE CloseShuts
    BY <1>0, <1>3 DEF CloseShuts, Shut, Plain, Shuts
  <1>4. ASSUME NEW r \in Readers, Step(r), ~GetSockConnects(r), ~DropCloses(r) PROVE Goal
    BY <1>4 DEF Step, Read, Resubscribe, NextBegins, GetBegins, GetSockCached, GetSockFails, Load, Enter,
       Timeout, Eof, GotFrame, NoPlanes, Copied, CopyFails, Keep, Decimate, DropUnlinks
  <1>5. CASE CloseBegins \/ CloseUnlinks \/ (\E f \in Frames : CloseReleases(f) \/ ReleaseKept(f)) \/ UNCHANGED vars
    BY <1>5 DEF CloseBegins, CloseUnlinks, CloseReleases, ReleaseKept, vars
  <1>6. CASE Daemon
    BY <1>6 DEF Daemon, DaemonSends, DaemonCuts, DaemonReclaims
  <1>7. CASE Close
    BY <1>3, <1>5, <1>7 DEF Close
  <1> QED BY <1>1, <1>2, <1>4, <1>5, <1>6, <1>7 DEF Next, Step

-----------------------------------------------------------------------------
\* A reader whose socket is open reads from that socket, so that only others'
\* frames go astray.
LEMMA TouchStep ==
    ASSUME LendInv, [Next]_vars
    PROVE  Touch'
  <1>0. /\ LoanTypes /\ Readings /\ Places /\ Touch /\ None \notin Frames
        /\ hand \in [Readers -> 0 .. MaxFrames] /\ sock \in [Readers -> 0 .. made]
        /\ via \in [Frames -> 0 .. made] /\ kept \subseteq Frames /\ wire \in [Conns -> Seq(Frames)]
    <2>1. None \notin Frames BY DEF None, Frames
    <2> QED BY <2>1 DEF LendInv, LoanInv, LoanTypes, ReaderVars, RetainedVars, DaemonVars
  <1>a. \A s \in 0 .. made : s \in alive' => s \in alive
    BY <1>0, SocketsAge
  <1>1. ASSUME astray' = astray, sent' = sent, \A f \in kept' : f \in kept /\ via'[f] = via[f],
               \A c \in Conns : ToSet(wire'[c]) \subseteq ToSet(wire[c]),
               \A r \in Readers : \A f \in Frames : hand'[r] = f => hand[r] = f
        PROVE  Touch'
    <2>1. ASSUME NEW r \in Readers, NEW f \in Frames, hand'[r] = f, sock'[r] \in alive'
          PROVE  f \notin astray'
      <3>1. hand[r] = f BY <1>1, <2>1
      <3>2. hand[r] # None BY <1>0, <3>1
      <3>3. sock'[r] = sock[r]
        <4>1. LoanTypes /\ Readings BY <1>0
        <4> QED BY <3>2, <4>1, SameSocket
      <3>4. sock[r] \in alive BY <1>0, <1>a, <2>1, <3>3
      <3>5. f \notin astray BY <1>0, <3>1, <3>4 DEF Touch
      <3> QED BY <1>1, <3>5
    <2>2. ASSUME NEW f \in kept', via'[f] \in alive' PROVE f \notin astray'
      <3>1. f \in kept /\ via'[f] = via[f] /\ via[f] \in alive
        BY <1>0, <1>a, <1>1, <2>2
      <3> QED BY <1>0, <1>1, <3>1 DEF Touch
    <2>3. \A c \in Conns : ToSet(wire'[c]) \cap astray' = {}
      BY <1>0, <1>1 DEF Touch
    <2>4. astray' \subseteq 1 .. sent'
      BY <1>0, <1>1 DEF Touch
    <2> QED BY <2>1, <2>2, <2>3, <2>4 DEF Touch
  <1>2. CASE Plain
    BY <1>1, <1>2 DEF Plain
  <1>3. ASSUME NEW c \in Conns, Loses(c) PROVE Touch'
    <2>1. ToSet(<<>>) = {}
      BY DEF ToSet
    <2>2. \A d \in Conns : ToSet(wire'[d]) \subseteq ToSet(wire[d])
      BY <1>0, <1>3, <2>1 DEF Loses
    <2> QED BY <1>1, <1>3, <2>2 DEF Loses
  <1>4. ASSUME NEW c \in Conns, DaemonSends(c) PROVE Touch'
    <2>1. /\ UNCHANGED <<astray, kept, via, hand, sock, alive>> /\ sent' = sent + 1
          /\ wire' = [wire EXCEPT ![c] = Append(wire[c], sent + 1)]
          /\ sent + 1 \in Frames /\ sent + 1 \notin 1 .. sent /\ 1 .. sent \subseteq 1 .. sent'
      BY <1>0, <1>4, Numbers DEF DaemonSends, reading, retained, sockets, stream, Frames
    <2>2. ToSet(wire'[c]) = ToSet(wire[c]) \cup {sent + 1}
      BY <1>0, <2>1, AppendWire DEF Places
    <2>3. \A d \in Conns : d # c => wire'[d] = wire[d]
      BY <1>0, <2>1
    <2>4. \A d \in Conns : ToSet(wire'[d]) \cap astray' = {}
      BY <1>0, <2>1, <2>2, <2>3 DEF Touch
    <2>5. astray' \subseteq 1 .. sent'
      BY <1>0, <2>1 DEF Touch
    <2>6. /\ \A r \in Readers : \A f \in Frames : hand[r] = f /\ sock[r] \in alive => f \notin astray
          /\ \A f \in kept : via[f] \in alive => f \notin astray
      BY <1>0 DEF Touch
    <2> QED BY <2>1, <2>4, <2>5, <2>6 DEF Touch
  <1>5. ASSUME NEW r \in Readers, PutDown(r), UNCHANGED <<astray, sent, kept, via, wire>> PROVE Touch'
    BY <1>0, <1>1, <1>5 DEF PutDown
  <1>6. ASSUME NEW r \in Readers, GivesBack(r) \/ CopyFails(r) PROVE Touch'
    BY <1>5, <1>6 DEF GivesBack, CopyFails, retained
  <1>7. ASSUME NEW f \in Frames, Frees(f) PROVE Touch'
    <2>1. \A g \in kept' : g \in kept /\ via'[g] = via[g] BY <1>0, <1>7 DEF Frees
    <2> QED BY <1>1, <1>7, <2>1 DEF Frees
  <1>8. ASSUME NEW r \in Readers, NEW path \in Paths, GotFrame(r, path) PROVE Touch'
    <2> DEFINE c == at[r]
               h == Head(wire[c])
    <2>1. c \in Conns /\ (sock[r] \in alive => c = sock[r])
      <3>1. Reading(r) /\ pc[r] = "recv"
        BY <1>0, <1>8 DEF GotFrame, Readings
      <3>2. c \in 0 .. made /\ c # None /\ (sock[r] \in alive => c = sock[r])
        BY <1>0, <3>1 DEF Reading, LoanTypes, ReaderVars
      <3> QED BY <1>0, <3>2, Numbers
    <2>2. /\ UNCHANGED <<kept, via, sock, alive, sent>> /\ wire[c] # <<>>
          /\ astray' = (IF c = sock[r] THEN astray ELSE astray \cup {h})
          /\ hand' = [hand EXCEPT ![r] = h] /\ wire' = [wire EXCEPT ![c] = Tail(wire[c])]
      BY <1>8 DEF GotFrame, retained, stream, sockets
    <2>3. ToSet(wire[c]) = ToSet(Tail(wire[c])) \cup {h} /\ h \notin ToSet(Tail(wire[c]))
      BY <1>0, <2>1, <2>2, TailWire DEF Places
    <2> HIDE DEF c, h
    <2>4. /\ h \notin kept /\ h \notin astray /\ h \in 1 .. sent
          /\ \A d \in Conns : d # c => h \notin ToSet(wire[d])
          /\ \A u \in Readers : hand[u] # h
      <3>1. h \in ToSet(wire[c])
        BY <2>3
      <3>2. h \notin kept /\ h \notin astray /\ h \in 1 .. sent
        BY <1>0, <2>1, <3>1 DEF Places, Touch
      <3>3. \A d \in Conns : d # c => h \notin ToSet(wire[d])
        BY <1>0, <2>1, <3>1 DEF Places
      <3>4. ASSUME NEW u \in Readers, hand[u] = h PROVE FALSE
        <4>1. None \notin 1 .. sent BY <1>0, Numbers
        <4>2. hand[u] # None BY <3>2, <3>4, <4>1
        <4>3. ~ OnWire(hand[u], c) BY <1>0, <2>1, <4>2 DEF Places
        <4> QED BY <3>1, <3>4, <4>3 DEF OnWire
      <3> QED BY <3>2, <3>3, <3>4
    <2>5. /\ \A d \in Conns : d # c => wire'[d] = wire[d]
          /\ ToSet(wire'[c]) = ToSet(Tail(wire[c]))
          /\ hand'[r] = h /\ \A u \in Readers : u # r => hand'[u] = hand[u]
      BY <1>0, <2>1, <2>2
    <2>6. \A d \in Conns : ToSet(wire'[d]) \cap astray' = {}
      BY <1>0, <2>1, <2>2, <2>3, <2>4, <2>5 DEF Touch
    <2>7. ASSUME NEW u \in Readers, NEW f \in Frames, hand'[u] = f, sock[u] \in alive
          PROVE  f \notin astray'
      <3>1. CASE u = r
        BY <2>1, <2>2, <2>4, <2>5, <2>7, <3>1
      <3>2. CASE u # r
        BY <1>0, <2>2, <2>4, <2>5, <2>7, <3>2 DEF Touch
      <3> QED BY <3>1, <3>2
    <2>8. \A f \in kept : via[f] \in alive => f \notin astray'
      BY <1>0, <2>2, <2>4 DEF Touch
    <2>9. astray' \subseteq 1 .. sent
      BY <1>0, <2>2, <2>4 DEF Touch
    <2> QED BY <2>2, <2>6, <2>7, <2>8, <2>9 DEF Touch
  <1>9. ASSUME NEW r \in Readers, Keep(r) PROVE Touch'
    <2>1. /\ kept' = kept \cup {hand[r]} /\ via' = [via EXCEPT ![hand[r]] = sock[r]]
          /\ hand' = [hand EXCEPT ![r] = None]
          /\ UNCHANGED <<wire, sent, astray, sock, alive>>
          /\ hand[r] \in Frames
      <3>1. hand[r] # None
        BY <1>0, <1>9 DEF Keep, Readings, Reading, Paths
      <3> QED BY <1>0, <1>9, <3>1, Numbers DEF Keep, PutDown, daemon, sockets, Frames
    <2>2. ASSUME NEW f \in kept', via'[f] \in alive PROVE f \notin astray
      <3>1. CASE f = hand[r]
        BY <1>0, <2>1, <2>2, <3>1 DEF Touch
      <3>2. CASE f # hand[r]
        BY <1>0, <2>1, <2>2, <3>2 DEF Touch
      <3> QED BY <3>1, <3>2
    <2>3. ASSUME NEW u \in Readers, NEW f \in Frames, hand'[u] = f, sock[u] \in alive
          PROVE  f \notin astray
      BY <1>0, <2>1, <2>3 DEF Touch
    <2>4. astray \subseteq 1 .. sent /\ \A c \in Conns : ToSet(wire[c]) \cap astray = {}
      BY <1>0 DEF Touch
    <2> QED BY <2>1, <2>2, <2>3, <2>4 DEF Touch
  <1> QED BY <1>0, <1>2, <1>3, <1>4, <1>6, <1>7, <1>8, <1>9, Kinds


\* Opening and closing sockets, and whatever threads do among themselves.
LEMMA PlainLends ==
    ASSUME LendInv, LendInv', [Next]_vars, Plain
    PROVE  [Lending!Next]_(Lending!vars)
  <1>1. \A g \in Frames : Unmoved(g)
    BY DEF Plain, Unmoved
  <1>2. Map' = Map /\ Dues' = Dues
    BY <1>1, MovesNone
  <1>3. /\ made \in Nat /\ 1 .. made \subseteq Conns /\ alive \subseteq 1 .. made
        /\ cut' = cut /\ lent' = lent
    BY Numbers DEF Plain, LendInv, LoanInv, LoanTypes, SocketVars
  <1>4. CASE UNCHANGED <<made, alive>>
    BY <1>2, <1>3, <1>4 DEF Lending!vars, Map, Dues
  <1>5. CASE Connects
    <2>1. made + 1 \in Conns /\ made + 1 \notin alive \cup ((1 .. made) \ alive)
      BY <1>3, <1>5, Numbers DEF Connects, Conns, LendInv, LoanInv
    <2>2. (1 .. made') \ alive' = (1 .. made) \ alive
      BY <1>3, <1>5 DEF Connects
    <2>3. Lending!Connect(made + 1)
      BY <1>2, <1>3, <1>5, <2>1, <2>2 DEF Connects, Lending!Connect, Map, Dues
    <2> QED BY <2>1, <2>3 DEF Lending!Next
  <1>6. CASE Shuts
    <2>1. PICK t \in Threads : made' = made /\ alive' = alive \ {doomed[t]}
      BY <1>6 DEF Shuts
    <2>2. CASE doomed[t] \notin alive
      BY <1>2, <1>3, <2>1, <2>2 DEF Lending!vars, Map, Dues
    <2>3. CASE doomed[t] \in alive
      <3>1. (1 .. made') \ alive' = ((1 .. made) \ alive) \cup {doomed[t]}
        BY <1>3, <2>1, <2>3
      <3>2. Lending!Disconnect(doomed[t])
        BY <1>2, <1>3, <2>1, <2>3, <3>1 DEF Lending!Disconnect, Map, Dues
      <3>3. doomed[t] \in Conns
        BY <1>3, <2>3
      <3> QED BY <3>2, <3>3 DEF Lending!Next
    <2> QED BY <2>2, <2>3
  <1>7. LoanTypes
    BY DEF LendInv, LoanInv
  <1> QED BY <1>4, <1>5, <1>6, <1>7, SocketKinds

\* The daemon lends the next frame.
LEMMA SendLends ==
    ASSUME LendInv, LendInv', [Next]_vars, NEW c \in Conns, DaemonSends(c)
    PROVE  \E f \in Frames : Lending!Lend(f)
  <1>0. PICK n \in Frames : n = sent + 1
    BY Numbers DEF DaemonSends, Frames, LendInv, LoanInv, LoanTypes, DaemonVars
  <1>1. /\ n \in Frames /\ sent \in Nat /\ sent' = n /\ lent' = [lent EXCEPT ![n] = c]
        /\ wire' = [wire EXCEPT ![c] = Append(wire[c], n)]
        /\ UNCHANGED <<made, alive, cut, kept, via, hand>>
        /\ c \in 1 .. made /\ c \notin cut
        /\ wire \in [Conns -> Seq(Frames)] /\ n \notin 1 .. sent /\ alive \subseteq 1 .. made
    BY <1>0, Numbers DEF DaemonSends, sockets, reading, retained, Frames, LendInv, LoanInv, LoanTypes, DaemonVars, SocketVars
  <1>2. ToSet(wire'[c]) = ToSet(wire[c]) \cup {n}
    BY <1>1, AppendWire DEF LendInv, LoanInv, Places
  <1>3. Shape(n) /\ Shape(n)'
    BY <1>1, Shapes, NextShapes DEF LendInv, LoanInv
  <1>4. n > sent /\ \A g \in Frames : g # n => (g > sent' <=> g > sent)
    BY <1>0, <1>1 DEF Frames
  <1>5. Place(n) = "unsent" /\ Due(n) = None
    BY <1>3, <1>4 DEF Shape
  <1>6. Place(n)' = "wire" /\ Due(n)' = None
    BY <1>2, <1>3 DEF Shape, OnWire
  <1>7. \A d \in Conns : d # c => wire'[d] = wire[d]
    BY <1>1
  <1>8. \A g \in Frames : g # n => Unmoved(g)
    BY <1>1, <1>2, <1>4, <1>7 DEF Unmoved
  <1>9. Map' = [Map EXCEPT ![n] = "wire"] /\ Dues' = [Dues EXCEPT ![n] = None]
    BY <1>1, <1>6, <1>8, MovesOne
  <1>10. Dues' = Dues /\ Map[n] = "unsent"
    BY <1>1, <1>5, <1>9 DEF Dues, Map
  <1>11. Lending!Lend(n)
    BY <1>1, <1>9, <1>10 DEF Lending!Lend, Map, Dues
  <1> QED BY <1>1, <1>11

\* The daemon loses a connection; what was on its wire can be read unless the
\* client has closed it.
LEMMA LossLends ==
    ASSUME LendInv, LendInv', [Next]_vars, NEW c \in Conns, Loses(c)
    PROVE  Lending!Reclaim(c)
  <1>1. /\ c \in (1 .. made) \ cut /\ cut' = cut \cup {c} /\ Reclaim(c) /\ wire \in [Conns -> Seq(Frames)]
        /\ UNCHANGED <<sent, kept, via, hand>> /\ alive \subseteq 1 .. made
    BY DEF Loses, LendInv, LoanInv, LoanTypes, DaemonVars, SocketVars
  <1>2. UNCHANGED <<made, alive>>
    <2>1. cut' # cut /\ LoanTypes
      BY <1>1 DEF LendInv, LoanInv
    <2> QED BY <2>1, SocketKinds DEF Plain
  <1>3. CASE wire' = wire
    <2>1. \A g \in Frames : Unmoved(g)
      BY <1>1, <1>3 DEF Unmoved
    <2>2. Map' = Map /\ Dues' = Dues
      BY <2>1, MovesNone
    <2> QED BY <1>1, <1>2, <2>2 DEF Lending!Reclaim, Reclaim, Map, Dues
  <1>4. CASE c \notin alive /\ wire' = [wire EXCEPT ![c] = <<>>]
    <2>1. ToSet(<<>>) = {} /\ \A d \in Conns : d # c => wire'[d] = wire[d]
      BY <1>1, <1>4 DEF ToSet
    <2>2. ToSet(wire'[c]) = {}
      BY <1>1, <1>4, <2>1
    <2>3. ASSUME NEW g \in Frames, ~OnWire(g, c)
          PROVE  Place(g)' = Place(g) /\ Due(g)' = Due(g) /\ ~(Place(g) = "wire" /\ lent[g] = c)
      <3>1. Unmoved(g)
        BY <1>1, <2>1, <2>2, <2>3 DEF Unmoved, OnWire
      <3>2. Shape(g) /\ \A d \in Conns : OnWire(g, d) => lent[g] \in {d, None} 
        BY Shapes DEF LendInv, LoanInv, Loans, OnWire
      <3>3. c # None
        BY Numbers DEF LendInv, LoanInv, Conns
      <3>4. Place(g) = "wire" => \E d \in Conns : OnWire(g, d)
        BY <3>2 DEF Shape
      <3> QED BY <2>3, <3>1, <3>2, <3>3, <3>4, StaysThere
    <2>4. ASSUME NEW g \in Frames, OnWire(g, c)
          PROVE  Place(g)' = "gone" /\ Due(g)' = Due(g) /\ Place(g) = "wire" /\ lent[g] = c
      <3>1. Shape(g) /\ Shape(g)'
        BY Shapes, NextShapes DEF LendInv, LoanInv
      <3>2. /\ ~(g > sent) /\ g \notin kept /\ g # None
            /\ \A r \in Readers : hand[r] # g
            /\ \A d \in Conns : d # c => ~OnWire(g, d)
        BY <2>4, Numbers DEF LendInv, LoanInv, Places, OnWire, Frames
      <3>3. Place(g)' = "gone" /\ Due(g)' = None
        BY <1>1, <2>1, <2>2, <3>1, <3>2 DEF Shape, OnWire
      <3>4. lent[g] = c
        BY <1>1, <2>4 DEF LendInv, LoanInv, Loans, OnWire
      <3> QED BY <2>4, <3>1, <3>3, <3>4 DEF Shape
    <2>5. Map' = [g \in Frames |-> IF Map[g] = "wire" /\ lent[g] = c THEN "gone" ELSE Map[g]]
      BY <2>3, <2>4 DEF Map
    <2>6. Dues' = Dues
      BY <2>3, <2>4 DEF Dues
    <2> QED BY <1>1, <1>2, <1>4, <2>5, <2>6 DEF Lending!Reclaim, Reclaim, Map, Dues
  <1> QED BY <1>3, <1>4 DEF Loses

\* A reader takes the next frame off a wire: its own socket's, or its own is
\* dead.
LEMMA ReadLends ==
    ASSUME LendInv, LendInv', [Next]_vars, NEW r \in Readers, NEW path \in Paths, GotFrame(r, path)
    PROVE  \E f \in Frames : Lending!Receive(f)
  <1> DEFINE c == at[r]
  <1>0. /\ hand \in [Readers -> 0 .. MaxFrames] /\ wire \in [Conns -> Seq(Frames)]
        /\ LoanTypes /\ Readings /\ Places /\ Loans
    BY DEF LendInv, LoanInv, LoanTypes, ReaderVars, DaemonVars
  <1>1. c \in Conns /\ hand[r] = None /\ (sock[r] \in alive => c = sock[r])
    <2>1. Reading(r) /\ pc[r] = "recv" /\ "recv" \notin Paths
      BY <1>0 DEF GotFrame, Readings, Paths
    <2>2. c \in 0 .. made /\ c # None /\ hand[r] = None /\ (sock[r] \in alive => c = sock[r])
      BY <1>0, <2>1 DEF Reading, LoanTypes, ReaderVars
    <2> QED BY <1>0, <2>2, Numbers
  <1>2. PICK f \in Frames : f = Head(wire[c])
    BY <1>0, <1>1, TailWire DEF GotFrame, Places
  <1>3. /\ UNCHANGED <<made, alive, cut, lent, kept, via, sock, sent>> /\ wire[c] # <<>>
        /\ hand' = [hand EXCEPT ![r] = f] /\ wire' = [wire EXCEPT ![c] = Tail(wire[c])]
    BY <1>2 DEF GotFrame, retained, stream, sockets
  <1>4. ToSet(wire[c]) = ToSet(Tail(wire[c])) \cup {f}
    BY <1>0, <1>1, <1>2, <1>3, TailWire DEF Places
  <1>5. Shape(f) /\ Shape(f)'
    BY Shapes, NextShapes DEF LendInv, LoanInv
  <1>6. /\ hand'[r] = f /\ \A u \in Readers : u # r => hand'[u] = hand[u]
        /\ \A d \in Conns : d # c => wire'[d] = wire[d]
        /\ ToSet(wire'[c]) = ToSet(Tail(wire[c]))
    BY <1>0, <1>1, <1>3
  <1>7. Place(f) = "wire" /\ Due(f) = None /\ Place(f)' = "reader" /\ Due(f)' = sock[r]
    BY <1>1, <1>3, <1>4, <1>5, <1>6 DEF Shape, OnWire
  <1>8. f # None /\ \A g \in Frames : g # None
    BY DEF None, Frames
  <1>9. ASSUME NEW g \in Frames, g # f PROVE Unmoved(g)
    <2>1. \A d \in Conns : g \in ToSet(wire'[d]) <=> g \in ToSet(wire[d])
      BY <1>4, <1>6, <1>9
    <2>2. \A u \in Readers : hand'[u] = g <=> hand[u] = g
      BY <1>1, <1>6, <1>8, <1>9
    <2> QED BY <1>3, <2>1, <2>2 DEF Unmoved
  <1>10. Map' = [Map EXCEPT ![f] = "reader"] /\ Dues' = [Dues EXCEPT ![f] = sock[r]]
    BY <1>7, <1>9, MovesOne
  <1>11. sock[r] \in alive => lent[f] = sock[r] \/ sock[r] \in cut
    BY <1>0, <1>1, <1>4 DEF Loans
  <1>12. Map[f] = "wire"
    BY <1>7 DEF Map
  <1> HIDE DEF c
  <1>13. sock[r] \in Conns \cup {None}
    BY <1>0, Numbers DEF LoanTypes, ReaderVars
  <1>14. Lending!Receive(f)
    BY <1>3, <1>10, <1>11, <1>12, <1>13 DEF Lending!Receive, Map, Dues
  <1> QED BY <1>14

\* Somebody who has a frame gives it up, and the other frames stay.
GivesUp(f) ==
    /\ UNCHANGED <<wire, sent, cut, made, alive>> /\ kept' = kept \ {f}
    /\ \A g \in kept' : via'[g] = via[g]
    /\ \A u \in Readers : hand'[u] = IF hand[u] = f THEN None ELSE hand[u]

\* Then it is gone, and its RELEASE is due nowhere.
LEMMA GivenUp ==
    ASSUME LendInv, LendInv', [Next]_vars, NEW f \in Frames, GivesUp(f),
           Place(f) \in {"reader", "application"}
    PROVE  Map' = [Map EXCEPT ![f] = "gone"] /\ Dues' = [Dues EXCEPT ![f] = None]
  <1>0. \A g \in Frames : g # None
    BY DEF None, Frames
  <1>1. Shape(f) /\ Shape(f)'
    BY Shapes, NextShapes DEF LendInv, LoanInv
  <1>2. ~(f > sent) /\ ~\E c \in Conns : OnWire(f, c)
    BY <1>1 DEF Shape
  <1>3. Place(f)' = "gone" /\ Due(f)' = None
    BY <1>0, <1>1, <1>2 DEF Shape, GivesUp, OnWire
  <1>4. \A g \in Frames : g # f => Unmoved(g)
    BY <1>0 DEF GivesUp, Unmoved
  <1> QED BY <1>3, <1>4, MovesOne

\* With a RELEASE on its socket while that is open, and else without.
LEMMA ReleaseLends ==
    ASSUME LendInv, LendInv', [Next]_vars, NEW f \in Frames, GivesUp(f),
           Place(f) \in {"reader", "application"}, ReleaseOnSock(Due(f), f),
           Loan(f, Due(f)), Due(f) \in alive => f \notin astray
    PROVE  Lending!Return(f) \/ Lending!Abandon(f)
  <1>1. Map' = [Map EXCEPT ![f] = "gone"] /\ Dues' = [Dues EXCEPT ![f] = None]
    BY GivenUp
  <1>2. Map[f] = Place(f) /\ Dues[f] = Due(f)
    BY DEF Map, Dues
  <1>3. lent \in [Frames -> 0 .. made]
    BY DEF LendInv, LoanInv, LoanTypes, DaemonVars
  <1>4. CASE Due(f) \in alive
    <2>1. lent' = [lent EXCEPT ![f] = None]
      BY <1>3, <1>4 DEF ReleaseOnSock, Released, Loan
    <2>2. Lending!Return(f)
      BY <1>1, <1>2, <1>4, <2>1 DEF Lending!Return, Lending!Goes, GivesUp, Map, Dues
    <2> QED BY <2>2
  <1>5. CASE Due(f) \notin alive
    <2>1. lent' = lent
      BY <1>5 DEF ReleaseOnSock
    <2>2. Lending!Abandon(f)
      BY <1>1, <1>2, <1>5, <2>1 DEF Lending!Abandon, Lending!Goes, GivesUp, Map, Dues
    <2> QED BY <2>2
  <1> QED BY <1>4, <1>5

\* A reader with a frame in hand: only it has that frame, due on its socket.
LEMMA InHand ==
    ASSUME LendInv, NEW r \in Readers, hand[r] # None
    PROVE  /\ hand[r] \in Frames /\ Place(hand[r]) = "reader" /\ Due(hand[r]) = sock[r]
           /\ hand[r] \notin kept /\ \A u \in Readers : hand[u] = hand[r] => u = r
           /\ Loan(hand[r], sock[r]) /\ (sock[r] \in alive => hand[r] \notin astray)
  <1>1. hand[r] \in Frames
    BY Numbers DEF LendInv, LoanInv, LoanTypes, ReaderVars, Frames
  <1>2. Shape(hand[r])
    BY <1>1, Shapes DEF LendInv, LoanInv
  <1> QED BY <1>1, <1>2 DEF Shape, LendInv, LoanInv, Places, Loans, Touch

\* The reader's ways of giving a frame up.
LEMMA ReaderLends ==
    ASSUME LendInv, LendInv', [Next]_vars, NEW r \in Readers, GivesBack(r) \/ CopyFails(r)
    PROVE  \E f \in Frames : Lending!Return(f) \/ Lending!Abandon(f)
  <1>1. hand[r] # None /\ hand \in [Readers -> 0 .. MaxFrames] /\ LoanTypes
    BY DEF GivesBack, CopyFails, LendInv, LoanInv, Readings, Reading, Paths, LoanTypes, ReaderVars
  <1>2. PICK f \in Frames : f = hand[r]
    BY <1>1, InHand
  <1>3. /\ Place(f) = "reader" /\ Due(f) = sock[r] /\ f \notin kept
        /\ \A u \in Readers : hand[u] = f => u = r
        /\ Loan(f, sock[r]) /\ (sock[r] \in alive => f \notin astray)
    BY <1>1, <1>2, InHand
  <1>4. ~Plain
    <2>1. hand'[r] = None
      BY <1>1 DEF GivesBack, CopyFails, PutDown
    <2> QED BY <1>1, <2>1 DEF Plain
  <1>5. GivesUp(f)
    <2>1. UNCHANGED <<made, alive>>
      BY <1>1, <1>4, SocketKinds
    <2>2. UNCHANGED <<wire, sent, via, cut, kept>> /\ hand' = [hand EXCEPT ![r] = None]
      BY DEF GivesBack, CopyFails, PutDown, retained
    <2> QED BY <1>1, <1>2, <1>3, <2>1, <2>2 DEF GivesUp
  <1>6. CASE GivesBack(r)
    <2>1. ReleaseOnSock(Due(f), f)
      BY <1>2, <1>3, <1>6 DEF GivesBack
    <2> QED BY <1>3, <1>5, <2>1, ReleaseLends
  <1>7. CASE CopyFails(r)
    <2>1. Map' = [Map EXCEPT ![f] = "gone"] /\ Dues' = [Dues EXCEPT ![f] = None] /\ Map[f] = "reader"
      BY <1>3, <1>5, GivenUp DEF Map
    <2>2. lent' = lent
      BY <1>7 DEF CopyFails
    <2>3. Lending!Abandon(f)
      BY <1>5, <2>1, <2>2 DEF Lending!Abandon, Lending!Goes, GivesUp, Map, Dues
    <2> QED BY <2>3
  <1> QED BY <1>6, <1>7

\* A retained frame's release.
LEMMA FreeLends ==
    ASSUME LendInv, LendInv', [Next]_vars, NEW f \in Frames, Frees(f)
    PROVE  Lending!Return(f) \/ Lending!Abandon(f)
  <1>1. f \in kept /\ Shape(f) /\ LoanTypes /\ f # None
    BY Shapes, Numbers DEF Frees, LendInv, LoanInv, Frames
  <1>2. Place(f) = "application" /\ Due(f) = via[f]
    BY <1>1 DEF Shape
  <1>3. Loan(f, via[f]) /\ (via[f] \in alive => f \notin astray)
    BY <1>1 DEF LendInv, LoanInv, Loans, Touch
  <1>4. \A u \in Readers : hand[u] # f
    BY <1>1 DEF LendInv, LoanInv, Places
  <1>5. UNCHANGED <<made, alive>>
    <2>1. kept' # kept
      BY <1>1 DEF Frees
    <2> QED BY <1>1, <2>1, SocketKinds DEF Plain
  <1>6. GivesUp(f)
    <2>1. via \in [Frames -> 0 .. made] /\ kept \subseteq Frames
      BY <1>1 DEF LoanTypes, RetainedVars
    <2>2. \A g \in kept' : via'[g] = via[g] BY <2>1 DEF Frees
    <2> QED BY <1>4, <1>5, <2>2 DEF GivesUp, Frees
  <1>7. ReleaseOnSock(Due(f), f)
    BY <1>2 DEF Frees
  <1> QED BY <1>2, <1>3, <1>6, <1>7, ReleaseLends

\* A frame is handed to the application.
LEMMA KeepLends ==
    ASSUME LendInv, LendInv', [Next]_vars, NEW r \in Readers, Keep(r)
    PROVE  \E f \in Frames : Lending!Deliver(f)
  <1>1. hand[r] # None /\ hand \in [Readers -> 0 .. MaxFrames] /\ via \in [Frames -> 0 .. made]
    BY DEF Keep, LendInv, LoanInv, Readings, Reading, Paths, LoanTypes, ReaderVars, RetainedVars
  <1>2. PICK f \in Frames : f = hand[r]
    BY <1>1, InHand
  <1>3. /\ Place(f) = "reader" /\ Due(f) = sock[r] /\ f \notin kept
        /\ \A u \in Readers : hand[u] = f => u = r
    BY <1>1, <1>2, InHand
  <1>4. /\ UNCHANGED <<wire, sent, cut, lent, sock, made, alive>>
        /\ hand' = [hand EXCEPT ![r] = None] /\ kept' = kept \cup {f}
        /\ via' = [via EXCEPT ![f] = sock[r]]
    BY <1>2 DEF Keep, PutDown, daemon, sockets
  <1>5. Shape(f)' /\ \A g \in Frames : g # None
    BY NextShapes, Numbers DEF LendInv, LoanInv, Frames
  <1>6. Place(f)' = "application" /\ Due(f)' = Due(f)
    BY <1>1, <1>3, <1>4, <1>5 DEF Shape
  <1>7. \A g \in Frames : g # f => Unmoved(g)
    BY <1>1, <1>2, <1>3, <1>4, <1>5 DEF Unmoved
  <1>8. Map' = [Map EXCEPT ![f] = "application"] /\ Dues' = [Dues EXCEPT ![f] = Due(f)]
    BY <1>6, <1>7, MovesOne
  <1>9. Dues' = Dues /\ Map[f] = "reader"
    BY <1>3, <1>8 DEF Map, Dues
  <1>10. Lending!Deliver(f)
    BY <1>4, <1>8, <1>9 DEF Lending!Deliver, Map, Dues
  <1> QED BY <1>10

-----------------------------------------------------------------------------
\* Every step lends a frame's life one step further, or none.
LEMMA StepLends ==
    ASSUME LendInv, LendInv', [Next]_vars
    PROVE  [Lending!Next]_(Lending!vars)
  <1> USE DEF Lending!Next
  <1>1. CASE Plain
    BY <1>1, PlainLends
  <1>2. ASSUME NEW c \in Conns, DaemonSends(c) \/ Loses(c) PROVE Lending!Next
    BY <1>2, SendLends, LossLends
  <1>3. ASSUME NEW r \in Readers, NEW path \in Paths, GotFrame(r, path) PROVE Lending!Next
    BY <1>3, ReadLends
  <1>4. ASSUME NEW r \in Readers, GivesBack(r) \/ CopyFails(r) \/ Keep(r) PROVE Lending!Next
    BY <1>4, ReaderLends, KeepLends
  <1>5. ASSUME NEW f \in Frames, Frees(f) PROVE Lending!Next
    BY <1>5, FreeLends
  <1> QED BY <1>1, <1>2, <1>3, <1>4, <1>5, Kinds DEF LendInv, LoanInv

\* The client implements LentFrames, for every number of readers, frames,
\* connections, faults and calls of close(): whatever threads and reconnects
\* do, a frame is read once, delivered at most once, and given back at most
\* once, with a RELEASE that takes effect if its connection is open.
THEOREM ClientKeepsLending == Spec => KeepsLending
  <1>1. Init => LendInv
    <2> SUFFICES ASSUME Init PROVE LendInv
      OBVIOUS
    <2>1. \A c \in Conns : ToSet(wire[c]) = {}
      BY DEF Init, ToSet
    <2>2. None \notin Frames
      BY DEF None, Frames
    <2> QED BY <2>1, <2>2, LoanInit DEF Init, LendInv, Touch
  <1>2. LendInv /\ [Next]_vars => LendInv'
    BY LoanStep, TouchStep DEF LendInv
  <1>3. Init => Lending!Init
    <2> SUFFICES ASSUME Init PROVE Lending!Init
      OBVIOUS
    <2>1. \A f \in Frames : f > sent
      BY DEF Init, Frames
    <2>2. LendInv
      BY <1>1
    <2>3. \A f \in Frames : Place(f) = "unsent" /\ Due(f) = None
      BY <2>1, <2>2, Shapes DEF LendInv, LoanInv, Shape
    <2>4. (1 .. made) \ alive = {}
      BY DEF Init
    <2> QED BY <2>3, <2>4 DEF Init, Lending!Init
  <1>4. LendInv /\ LendInv' /\ [Next]_vars => [Lending!Next]_(Lending!vars)
    BY StepLends
  <1> QED BY <1>1, <1>2, <1>3, <1>4, PTL DEF Spec, KeepsLending, Lending!Spec
=============================================================================
