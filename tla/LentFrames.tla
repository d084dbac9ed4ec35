----------------------------- MODULE LentFrames -----------------------------
(***************************************************************************)
(* What lending a frame promises, without threads, caches, descriptor      *)
(* numbers or retries: the server lends a frame over a connection, one     *)
(* reader receives it, at most one application holds it, and whoever has   *)
(* it last gives it back once, on the connection it is due on, or may      *)
(* leave that to the end of the connection.  A frame that is gone stays    *)
(* gone.  FdMediaClient implements this specification.                     *)
(***************************************************************************)

CONSTANTS Frames, Conns, None

VARIABLES
  open,     \* connections the client has
  over,     \* connections it has closed
  lost,     \* connections the server has given up
  place,    \* where a frame is
  loan,     \* the connection it is lent on, None once it is back
  due       \* the connection its RELEASE is to be sent on

vars == <<open, over, lost, place, loan, due>>

Init ==
    /\ open = {} /\ over = {} /\ lost = {}
    /\ place = [f \in Frames |-> "unsent"]
    /\ loan = [f \in Frames |-> None] /\ due = [f \in Frames |-> None]

Connect(c) ==
    /\ c \notin open \cup over
    /\ open' = open \cup {c}
    /\ UNCHANGED <<over, lost, place, loan, due>>

Disconnect(c) ==
    /\ c \in open
    /\ open' = open \ {c} /\ over' = over \cup {c}
    /\ UNCHANGED <<lost, place, loan, due>>

Lend(f) ==
    /\ place[f] = "unsent"
    /\ \E c \in (open \cup over) \ lost : loan' = [loan EXCEPT ![f] = c]
    /\ place' = [place EXCEPT ![f] = "wire"]
    /\ UNCHANGED <<open, over, lost, due>>

\* Received on a connection s that lends it, or by a reader who has lost s.
Receive(f) ==
    /\ place[f] = "wire"
    /\ \E s \in Conns \cup {None} :
         /\ s \in open => loan[f] = s \/ s \in lost
         /\ due' = [due EXCEPT ![f] = s]
    /\ place' = [place EXCEPT ![f] = "reader"]
    /\ UNCHANGED <<open, over, lost, loan>>

Deliver(f) ==
    /\ place[f] = "reader"
    /\ place' = [place EXCEPT ![f] = "application"]
    /\ UNCHANGED <<open, over, lost, loan, due>>

Goes(f) == /\ place' = [place EXCEPT ![f] = "gone"]
           /\ due' = [due EXCEPT ![f] = None]
           /\ UNCHANGED <<open, over, lost>>

\* Given back, and the server has it.
Return(f) ==
    /\ place[f] \in {"reader", "application"} /\ due[f] \in open
    /\ Goes(f)
    /\ loan' = [loan EXCEPT ![f] = None]

\* No RELEASE: its connection is closed, or reading it failed half-way.
Abandon(f) ==
    /\ \/ place[f] = "application" /\ due[f] \notin open
       \/ place[f] = "reader"
    /\ Goes(f)
    /\ UNCHANGED loan

\* The server takes back everything it lends on c.  What the client has not
\* read yet is gone only if the client is.
Reclaim(c) ==
    /\ c \in (open \cup over) \ lost
    /\ lost' = lost \cup {c}
    /\ loan' = [f \in Frames |-> IF loan[f] = c THEN None ELSE loan[f]]
    /\ \/ UNCHANGED place
       \/ /\ c \in over
          /\ place' = [f \in Frames |-> IF place[f] = "wire" /\ loan[f] = c THEN "gone" ELSE place[f]]
    /\ UNCHANGED <<open, over, due>>

Next ==
    \/ \E c \in Conns : Connect(c) \/ Disconnect(c) \/ Reclaim(c)
    \/ \E f \in Frames : Lend(f) \/ Receive(f) \/ Deliver(f) \/ Return(f) \/ Abandon(f)

Spec == Init /\ [][Next]_vars
=============================================================================
