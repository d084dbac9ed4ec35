---------------------------- MODULE EventClient ----------------------------
(***************************************************************************)
(* EventClient (cpp/src/events.cpp): the subscriptions of one client, pull *)
(* streams and the detached threads of on_event() that share its running   *)
(* flag, publish() and publish_batch(), unsubscribe() and close().         *)
(*                                                                         *)
(* Events are only told apart by their arrival, so a subscription's queue  *)
(* is its length. The bus is external: it queues at most EvQueue events    *)
(* per subscription, dropping the oldest, and it may end a stream.         *)
(***************************************************************************)
EXTENDS Naturals

CONSTANTS
  EvSubs,      \* subscriptions that can be made
  EvQueue,     \* queue_size of a subscription
  EvMaxEvents, \* events published in all
  EvBatch,     \* events of one publish_batch()
  EvMaxCloses  \* calls of close()

ASSUME EvAssumption == EvBatch \in Nat

VARIABLES
  vrunning,  \* Impl::running
  vstub,     \* GrpcClientBase::connected()
  vkind,     \* "push" for an on_event() thread, "pull" for an EventStream
  vat,       \* where its reader is: "none", "start", "loop", "read", "call", "ended"
  vqueue,    \* events queued for it
  vover,     \* the bus has ended its stream
  vborn,     \* whether the client was running when it was made
  vcalls,    \* whether it has made a callback
  vlate,     \* those begun after close()
  vpub,      \* events published
  vcloses,   \* calls of close()
  vbatch     \* publish_batch(): where it is, what it wrote, what the bus took,
             \* and the bus's answer: "none", "ok", "refused" or "lost"

vvars == <<vrunning, vstub, vkind, vat, vqueue, vover, vborn, vcalls, vlate, vpub, vcloses, vbatch>>

Idle == [at |-> "idle", wrote |-> 0, took |-> 0, answer |-> "none"]

EvInit ==
  /\ vrunning = TRUE /\ vstub = FALSE
  /\ vkind = [h \in EvSubs |-> "pull"]
  /\ vat = [h \in EvSubs |-> "none"]
  /\ vqueue = [h \in EvSubs |-> 0]
  /\ vover = [h \in EvSubs |-> FALSE]
  /\ vborn = [h \in EvSubs |-> TRUE]
  /\ vcalls = [h \in EvSubs |-> FALSE]
  /\ vlate = [h \in EvSubs |-> 0]
  /\ vpub = 0 /\ vcloses = 0 /\ vbatch = Idle

EvGoto(h, where) == vat' = [vat EXCEPT ![h] = where]

Subscribed == {h \in EvSubs : vat[h] \in {"loop", "read", "call"} /\ ~vover[h]}

(* The bus queues an event for each subscription; a full queue stays full,  *)
(* its oldest event gone.                                                   *)
Routed == [h \in EvSubs |-> IF h \in Subscribed /\ vqueue[h] < EvQueue THEN vqueue[h] + 1 ELSE vqueue[h]]

(* on_event(): the channel is taken here, the subscription is made by the   *)
(* detached thread, later. subscribe() makes its own at once.               *)
on_event(h) ==
  /\ vat[h] = "none"
  /\ EvGoto(h, "start")
  /\ vkind' = [vkind EXCEPT ![h] = "push"]
  /\ vborn' = [vborn EXCEPT ![h] = vrunning]
  /\ vstub' = TRUE
  /\ UNCHANGED <<vrunning, vqueue, vover, vcalls, vlate, vpub, vcloses, vbatch>>

EvSubscribes(h) ==
  /\ vat[h] = "start"
  /\ EvGoto(h, "loop")
  /\ UNCHANGED <<vrunning, vstub, vkind, vqueue, vover, vborn, vcalls, vlate, vpub, vcloses, vbatch>>

subscribe(h) ==
  /\ vat[h] = "none"
  /\ EvGoto(h, "loop")
  /\ vborn' = [vborn EXCEPT ![h] = vrunning]
  /\ vstub' = TRUE
  /\ UNCHANGED <<vrunning, vkind, vqueue, vover, vcalls, vlate, vpub, vcloses, vbatch>>

(* A plausible bug: the loop forgets to look.                               *)
Unguarded(h) ==
  /\ vat[h] = "loop"
  /\ EvGoto(h, "read")
  /\ UNCHANGED <<vrunning, vstub, vkind, vqueue, vover, vborn, vcalls, vlate, vpub, vcloses, vbatch>>

(* The head of the thread's loop looks at running; next() does not.         *)
EvLoop(h) ==
  /\ vat[h] = "loop"
  /\ EvGoto(h, IF vkind[h] = "pull" \/ vrunning THEN "read" ELSE "ended")
  /\ UNCHANGED <<vrunning, vstub, vkind, vqueue, vover, vborn, vcalls, vlate, vpub, vcloses, vbatch>>

(* Read() returns an event; next() hands it to its caller.                  *)
EvRead(h) ==
  /\ vat[h] = "read" /\ vqueue[h] > 0
  /\ vqueue' = [vqueue EXCEPT ![h] = @ - 1]
  /\ EvGoto(h, IF vkind[h] = "pull" THEN "loop" ELSE "call")
  /\ UNCHANGED <<vrunning, vstub, vkind, vover, vborn, vcalls, vlate, vpub, vcloses, vbatch>>

(* Read() returns false: the thread ends, and so does the caller's loop.    *)
EvReadEnds(h) ==
  /\ vat[h] = "read" /\ vqueue[h] = 0 /\ vover[h]
  /\ EvGoto(h, "ended")
  /\ UNCHANGED <<vrunning, vstub, vkind, vqueue, vover, vborn, vcalls, vlate, vpub, vcloses, vbatch>>

(* The callback, whose exceptions are swallowed.                            *)
EvCallback(h) ==
  /\ vat[h] = "call"
  /\ EvGoto(h, "loop")
  /\ vcalls' = [vcalls EXCEPT ![h] = TRUE]
  /\ vlate' = [vlate EXCEPT ![h] = IF vrunning THEN @ ELSE @ + 1]
  /\ UNCHANGED <<vrunning, vstub, vkind, vqueue, vover, vborn, vpub, vcloses, vbatch>>

(* publish(): the bus takes the event, or refuses it, or never sees it; all *)
(* but the first can reach the caller as an error, a lost answer too.       *)
publish ==
  /\ vpub < EvMaxEvents
  /\ vpub' = vpub + 1
  /\ \E taken \in BOOLEAN : vqueue' = IF taken THEN Routed ELSE vqueue
  /\ vstub' = TRUE
  /\ UNCHANGED <<vrunning, vkind, vat, vover, vborn, vcalls, vlate, vcloses, vbatch>>

(* publish_batch(): one Write per event, ending at the first that fails,    *)
(* which it may once the bus has answered; a Write may also still succeed.  *)
BatchWrite ==
  /\ vbatch.at \in {"idle", "writing"}
  /\ vstub' = TRUE
  /\ \/ /\ vbatch.wrote < EvBatch
        /\ vbatch' = [vbatch EXCEPT !.at = "writing", !.wrote = @ + 1]
     \/ /\ vbatch.wrote = EvBatch \/ vbatch.answer # "none"
        /\ vbatch' = [vbatch EXCEPT !.at = "finish"]
  /\ UNCHANGED <<vrunning, vkind, vat, vqueue, vover, vborn, vcalls, vlate, vpub, vcloses>>

(* The bus takes what was written, one event after the other.               *)
BatchTake ==
  /\ vpub < EvMaxEvents /\ vbatch.took < vbatch.wrote /\ vbatch.answer = "none"
  /\ vpub' = vpub + 1
  /\ vqueue' = Routed
  /\ vbatch' = [vbatch EXCEPT !.took = @ + 1]
  /\ UNCHANGED <<vrunning, vstub, vkind, vat, vover, vborn, vcalls, vlate, vcloses>>

(* The bus answers when the writes are done, or it refuses or breaks the    *)
(* call at any time.                                                        *)
BatchAnswer ==
  /\ vbatch.at \in {"writing", "finish"} /\ vbatch.answer = "none"
  /\ \E a \in {"ok", "refused", "lost"} :
       /\ a = "ok" => vbatch.at = "finish" /\ vbatch.took = EvBatch
       /\ vbatch' = [vbatch EXCEPT !.answer = a]
  /\ UNCHANGED <<vrunning, vstub, vkind, vat, vqueue, vover, vborn, vcalls, vlate, vpub, vcloses>>

(* A plausible bug: the status is checked and success is not.               *)
IgnoresRefusal ==
  /\ vbatch.at = "finish" /\ vbatch.answer # "none"
  /\ vbatch' = [vbatch EXCEPT !.at = IF vbatch.answer = "lost" THEN "threw" ELSE "returned"]
  /\ UNCHANGED <<vrunning, vstub, vkind, vat, vqueue, vover, vborn, vcalls, vlate, vpub, vcloses>>

(* Finish() and the check of the status, then of success.                   *)
BatchFinish ==
  /\ vbatch.at = "finish" /\ vbatch.answer # "none"
  /\ vbatch' = [vbatch EXCEPT !.at = IF vbatch.answer = "ok" THEN "returned" ELSE "threw"]
  /\ UNCHANGED <<vrunning, vstub, vkind, vat, vqueue, vover, vborn, vcalls, vlate, vpub, vcloses>>

(* unsubscribe(): every subscription of the topic is under the same         *)
(* subscriber_id, the app's, so the bus ends them all, or refuses.          *)
unsubscribe ==
  /\ Subscribed # {}
  /\ vstub' = TRUE
  /\ vover' = [h \in EvSubs |-> vover[h] \/ h \in Subscribed]
  /\ UNCHANGED <<vrunning, vkind, vat, vqueue, vborn, vcalls, vlate, vpub, vcloses, vbatch>>

(* The bus ends one stream (it stops, or drops the subscriber).             *)
EvDrops(h) ==
  /\ h \in Subscribed
  /\ vover' = [vover EXCEPT ![h] = TRUE]
  /\ UNCHANGED <<vrunning, vstub, vkind, vat, vqueue, vborn, vcalls, vlate, vpub, vcloses, vbatch>>

(* close(): the flag, then the stub and the channel. No reader is cancelled,*)
(* and nothing sets the flag again, although every later call reconnects.   *)
EvClose ==
  /\ vcloses < EvMaxCloses
  /\ vcloses' = vcloses + 1
  /\ vrunning' = FALSE
  /\ vstub' = FALSE
  /\ UNCHANGED <<vkind, vat, vqueue, vover, vborn, vcalls, vlate, vpub, vbatch>>

EvNext ==
  \/ \E h \in EvSubs :
       \/ on_event(h) \/ EvSubscribes(h) \/ subscribe(h) \/ EvLoop(h) \/ EvRead(h)
       \/ EvReadEnds(h) \/ EvCallback(h) \/ EvDrops(h)
  \/ publish \/ BatchWrite \/ BatchTake \/ BatchAnswer \/ BatchFinish
  \/ unsubscribe \/ EvClose

EvSpec == EvInit /\ [][EvNext]_vvars

-----------------------------------------------------------------------------
(* close() quietens the handlers (events.hpp:111): a detached thread that   *)
(* sleeps in Read() or is about to call back while close() runs makes one   *)
(* more callback at the most, whatever the bus still delivers. The flag is  *)
(* never set again, so a handler registered after close() makes none,       *)
(* although its subscription is live and the client has reconnected.        *)
HandlerQuiet ==
  \A h \in EvSubs :
    /\ vlate[h] <= 1
    /\ ~vborn[h] => ~vcalls[h]

(* publish_batch() returns only if the bus has taken the whole batch, since *)
(* Write() failures are only noticed through the status it then checks.     *)
BatchWhole == vbatch.at = "returned" => vbatch.took = EvBatch /\ vbatch.wrote = EvBatch
=============================================================================
