---------------------------- MODULE ResultStream ----------------------------
(***************************************************************************)
(* What a result subscription promises its consumer, without the pump      *)
(* thread and the queue: results come in the order of the frames, some of  *)
(* them missing, until the stream ends or raises once; after that there is *)
(* nothing.  The stream ends only when the server ended it or somebody     *)
(* cancelled or closed it, and raises only when the server broke it or the *)
(* limit of consecutive failed frames can have been reached.               *)
(* InferenceStream implements this specification.                          *)
(***************************************************************************)
EXTENDS Integers

CONSTANT MaxFailures    \* max_consecutive_failures, 0 = no limit

VARIABLES sent,         \* responses the server has sent
          finish,       \* how the server finished: "no", "end" or "error"
          cancelled,    \* somebody asked for the end
          delivered,    \* frame sequence of the last result handed out, or 0
          status        \* "open", "ended" or "raised"

vars == <<sent, finish, cancelled, delivered, status>>

Init ==
    /\ sent = 0 /\ finish = "no" /\ cancelled = FALSE
    /\ delivered = 0 /\ status = "open"

Send ==
    /\ finish = "no"
    /\ sent' = sent + 1
    /\ UNCHANGED <<finish, cancelled, delivered, status>>

Finish ==
    /\ finish = "no"
    /\ finish' \in {"end", "error"}
    /\ UNCHANGED <<sent, cancelled, delivered, status>>

Cancel ==
    /\ cancelled' = TRUE
    /\ UNCHANGED <<sent, finish, delivered, status>>

Deliver ==
    /\ status = "open"
    /\ delivered' \in (delivered + 1) .. sent
    /\ UNCHANGED <<sent, finish, cancelled, status>>

End ==
    /\ status = "open"
    /\ finish = "end" \/ cancelled
    /\ status' = "ended"
    /\ UNCHANGED <<sent, finish, cancelled, delivered>>

LimitReached == MaxFailures # 0 /\ delivered + MaxFailures <= sent

Raise ==
    /\ status = "open"
    /\ finish = "error" \/ LimitReached
    /\ status' = "raised"
    /\ UNCHANGED <<sent, finish, cancelled, delivered>>

\* The consumer may walk away at any time.
Close ==
    /\ status = "open"
    /\ status' = "ended"
    /\ cancelled' = TRUE
    /\ UNCHANGED <<sent, finish, delivered>>

Next == Send \/ Finish \/ Cancel \/ Deliver \/ End \/ Raise \/ Close

Spec == Init /\ [][Next]_vars
=============================================================================
