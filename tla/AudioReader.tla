---------------------------- MODULE AudioReader ----------------------------
(***************************************************************************)
(* AudioStreamClient (cpp/src/audio_stream.cpp): get_frame(), next_frame() *)
(* and the on_frame() thread, which share one descriptor, and close().     *)
(*                                                                         *)
(* The mutex covers connecting and closing only: recv_frame() reads the    *)
(* member fd twice, for the header and for the payload, without it. A      *)
(* connection is therefore either at the first byte of a message or in the *)
(* middle of one, and a frame put together from anything but the two       *)
(* halves of one message is garbled. A read that fails may have taken a    *)
(* part of what it wanted, and only next_frame() with its default reconnect *)
(* drops the connection then.                                              *)
(***************************************************************************)
EXTENDS Naturals, FiniteSets

CONSTANTS
  AudThreads,   \* the threads that read from one client
  AudMaxConns,  \* connections ever made
  AudMaxCloses  \* calls of close()

VARIABLES
  arole,    \* what each thread calls, get_frame() or next_frame(): see AudRoles
  aat,      \* where it is
  afd,      \* Impl::fd: a connection, or 0 for -1
  asock,    \* each connection: "unused", "start", "middle" of a message, "closed"
  ahdr,     \* the connection a thread read its header from, 0 for garbage
  aclosed,  \* Impl::closed
  acloses,  \* calls of close() so far
  aclosing, \* close() has set the flag and not yet the descriptor
  abad,     \* the connections whose bytes were handed out as a garbled frame
  amixed,   \* a call began while another call, or close(), was under way
  acut,     \* the connections that a call kept after failing in mid-message
  aaborted  \* an exception has left the on_frame() thread: std::terminate

avars == <<arole, aat, afd, asock, ahdr, aclosed, acloses, aclosing, abad, amixed,
           acut, aaborted>>

AudConns == 1 .. AudMaxConns

(* get_frame(); next_frame(false); next_frame(true), as one call and as the *)
(* on_frame() thread calls it.                                              *)
AudRoles == {"get", "once", "next", "pump"}
Reconnecting(t) == arole[t] \in {"next", "pump"}

AudInit ==
  /\ arole \in [AudThreads -> AudRoles]
  /\ aat = [t \in AudThreads |-> "idle"]
  /\ afd = 0
  /\ asock = [c \in AudConns |-> "unused"]
  /\ ahdr = [t \in AudThreads |-> 0]
  /\ aclosed = FALSE /\ acloses = 0 /\ aclosing = FALSE
  /\ abad = {} /\ amixed = FALSE /\ acut = {} /\ aaborted = FALSE

Goto(t, where) == aat' = [aat EXCEPT ![t] = where]

(* connect_locked(): the member is overwritten, whatever it held.           *)
Fresh == CHOOSE c \in AudConns : asock[c] = "unused"
Connect == /\ \E c \in AudConns : asock[c] = "unused"
           /\ afd' = Fresh
           /\ asock' = [asock EXCEPT ![Fresh] = "start"]

(* A call begins; on_frame() takes back an earlier close() first, and       *)
(* get_frame() never looks at the flag.                                     *)
AudCall(t) ==
  /\ aat[t] = "idle"
  /\ Goto(t, IF arole[t] = "get" THEN "connect" ELSE "top")
  /\ aclosed' = (aclosed /\ arole[t] # "pump")
  /\ amixed' = (amixed \/ aclosing \/ \E u \in AudThreads \ {t} : aat[u] # "idle")
  /\ UNCHANGED <<arole, afd, asock, ahdr, acloses, aclosing, abad, acut, aaborted>>

(* The loop of next_frame() tests the flag, and connects a moment later.    *)
AudTop(t) ==
  /\ aat[t] = "top"
  /\ Goto(t, IF aclosed THEN "idle" ELSE "connect")
  /\ UNCHANGED <<arole, afd, asock, ahdr, aclosed, acloses, aclosing, abad, amixed, acut, aaborted>>

(* The lazy connect under the mutex, or the descriptor that is there.       *)
AudConnects(t) ==
  /\ aat[t] = "connect"
  /\ IF afd = 0 THEN Connect ELSE UNCHANGED <<afd, asock>>
  /\ Goto(t, "header")
  /\ UNCHANGED <<arole, ahdr, aclosed, acloses, aclosing, abad, amixed, acut, aaborted>>

(* The lazy connect throws out of the call; nobody catches it in on_frame's *)
(* thread.                                                                  *)
AudConnectThrows(t) ==
  /\ aat[t] = "connect" /\ afd = 0
  /\ Goto(t, "idle")
  /\ aaborted' = (aaborted \/ arole[t] = "pump")
  /\ UNCHANGED <<arole, afd, asock, ahdr, aclosed, acloses, aclosing, abad, amixed, acut>>

Readable == afd # 0 /\ asock[afd] \in {"start", "middle"}

(* recv_frame() ends, and with it its header.                               *)
Forget(t) == ahdr' = [ahdr EXCEPT ![t] = 0]

(* A call returns; on_frame's thread goes round its loop.                   *)
Back(t) == Forget(t) /\ Goto(t, IF arole[t] = "pump" THEN "top" ELSE "idle")

(* recv_frame() reads a header: in the middle of a message it is garbage,   *)
(* and the bytes it takes leave the connection in the middle of something.  *)
AudHeader(t) ==
  /\ aat[t] = "header" /\ Readable
  /\ ahdr' = [ahdr EXCEPT ![t] = IF asock[afd] = "start" THEN afd ELSE 0]
  /\ asock' = [asock EXCEPT ![afd] = "middle"]
  /\ Goto(t, "payload")
  /\ UNCHANGED <<arole, afd, aclosed, acloses, aclosing, abad, amixed, acut, aaborted>>

(* ... and the payload, from the descriptor that is the member's by then.   *)
AudPayload(t) ==
  /\ aat[t] = "payload" /\ Readable
  /\ LET whole == ahdr[t] = afd /\ asock[afd] = "middle"
     IN  /\ asock' = [asock EXCEPT ![afd] = IF whole THEN "start" ELSE "middle"]
         /\ abad' = IF whole THEN abad ELSE abad \cup {afd}
  /\ Back(t)
  /\ UNCHANGED <<arole, afd, aclosed, acloses, aclosing, amixed, acut, aaborted>>

(* Either read fails: no descriptor, a closed one, the end of the stream,   *)
(* the timeout, or a length no message has. recv_exact() may have read a    *)
(* part by then, of the header too. get_frame(), next_frame(false), and a   *)
(* next_frame() that finds the client closed return, and leave the          *)
(* descriptor as it is.                                                     *)
AudGivesUp(t) ==
  /\ aat[t] \in {"header", "payload"}
  /\ Reconnecting(t) => aclosed
  /\ \/ /\ Readable
        /\ asock' = [asock EXCEPT ![afd] = "middle"]
        /\ acut' = acut \cup {afd}
     \/ /\ Readable => asock[afd] = "start"
        /\ UNCHANGED <<asock, acut>>
  /\ Back(t)
  /\ UNCHANGED <<arole, afd, aclosed, acloses, aclosing, abad, amixed, aaborted>>

(* A plausible bug: the failure path retries on the same socket.           *)
KeepsSocket(t) ==
  /\ aat[t] \in {"header", "payload"}
  /\ Reconnecting(t) /\ ~aclosed
  /\ Forget(t) /\ Goto(t, "asleep")
  /\ UNCHANGED <<arole, afd, asock, aclosed, acloses, aclosing, abad, amixed, acut, aaborted>>

(* next_frame(true) of an open client drops the socket, whatever was read.  *)
AudNextFails(t) ==
  /\ aat[t] \in {"header", "payload"}
  /\ Reconnecting(t) /\ ~aclosed
  /\ Forget(t) /\ Goto(t, "asleep")
  /\ afd' = 0
  /\ asock' = IF afd = 0 THEN asock ELSE [asock EXCEPT ![afd] = "closed"]
  /\ UNCHANGED <<arole, aclosed, acloses, aclosing, abad, amixed, acut, aaborted>>

(* After 500 ms it connects, without asking whether somebody else has       *)
(* connected or closed meanwhile; a failure is slept over.                  *)
AudReconnects(t) ==
  /\ aat[t] = "asleep"
  /\ Connect \/ UNCHANGED <<afd, asock>>
  /\ Goto(t, "top")
  /\ UNCHANGED <<arole, ahdr, aclosed, acloses, aclosing, abad, amixed, acut, aaborted>>

(* close() sets the flag; cb_thread was never assigned, so there is nothing *)
(* to join.                                                                 *)
AudClose ==
  /\ acloses < AudMaxCloses /\ ~aclosing
  /\ acloses' = acloses + 1
  /\ aclosed' = TRUE
  /\ aclosing' = TRUE
  /\ UNCHANGED <<arole, aat, afd, asock, ahdr, abad, amixed, acut, aaborted>>

(* ... and closes the descriptor under the mutex.                           *)
AudCloseEnds ==
  /\ aclosing
  /\ aclosing' = FALSE
  /\ afd' = 0
  /\ asock' = IF afd = 0 THEN asock ELSE [asock EXCEPT ![afd] = "closed"]
  /\ UNCHANGED <<arole, aat, ahdr, aclosed, acloses, abad, amixed, acut, aaborted>>

AudNext ==
  \/ \E t \in AudThreads :
       \/ AudCall(t) \/ AudTop(t) \/ AudConnects(t) \/ AudConnectThrows(t) \/ AudHeader(t)
       \/ AudPayload(t) \/ AudGivesUp(t) \/ AudNextFails(t) \/ AudReconnects(t)
  \/ AudClose \/ AudCloseEnds

AudSpec == AudInit /\ [][AudNext]_avars

-----------------------------------------------------------------------------
AudOpen == {c \in AudConns : asock[c] \in {"start", "middle"}}

(* Frames are whole and sockets are not lost, as far as recv_frame()'s      *)
(* unlocked reads and next_frame()'s reconnect allow. Unless calls          *)
(* overlapped, a frame mixes two messages only on a connection that a call  *)
(* had kept after it failed in the middle of a message, and a connection    *)
(* made since is clean again; next_frame(true), in a client that is never   *)
(* closed, keeps none such, through any number of lost connections:         *)
(* get_frame() and next_frame(false) do, and a call that close() overtakes. *)
(* An open socket that the client no longer knows means that calls          *)
(* overlapped; and the process ends only because the on_frame() thread      *)
(* could not connect at the top of its loop.                                *)
AudioWhole ==
  /\ amixed \/ abad \subseteq acut
  /\ acut # {} => acloses > 0 \/ \E t \in AudThreads : ~Reconnecting(t)
  /\ AudOpen \subseteq {afd} \/ amixed
  /\ aaborted => \E t \in AudThreads : arole[t] = "pump"
=============================================================================
