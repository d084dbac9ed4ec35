-------------------------- MODULE InferenceStream --------------------------
(***************************************************************************)
(* InferenceClient::subscribe and the InferenceStream it returns           *)
(* (cpp/src/inference.cpp, cpp/src/detail/subscribe_health.hpp).  A pump   *)
(* thread reads the gRPC server stream into a drop-oldest queue and offers *)
(* one terminal item at the end; the consumer calls next() and close() and *)
(* destroys the stream; any thread may call cancel(), whose body runs once *)
(* and itself offers a second terminal item to wake the consumer.          *)
(*                                                                         *)
(* A response is its frame sequence number and whether the server reports  *)
(* success; its tensors, latency and skew do not matter here.  One action  *)
(* is one critical section of the queue or one call into gRPC.             *)
(***************************************************************************)
EXTENDS Integers, Sequences

CONSTANTS Capacity,      \* queue_size, 0 = unbounded
          MaxFailures,   \* max_consecutive_failures, 0 = no limit
          MaxSent        \* bound: responses the server sends

ASSUME StreamAssumption ==
    /\ Capacity \in Nat
    /\ MaxFailures \in Nat
    /\ MaxSent \in Nat

VARIABLES items,     \* BoundedDropOldestQueue::items_, oldest first
          dropped,   \* dropped_
          sent,      \* responses the pump has read
          pump,      \* "reading", or the kind of its terminal: "end", "error"
          once,      \* cancel_once: "fresh", "running" or "done"
          xpc,       \* the other thread: "idle", or "offer" inside cancel()
          cpc,       \* the consumer's control point
          ended,     \* ended_
          outcome,   \* what latched ended_
          count,     \* ConsecutiveFailureLimiter::count_
          seen,      \* sequence of the last response taken (its telemetry)
          delivered, \* sequence of the last result returned by next()
          taken      \* items taken so far

queue    == <<items, dropped>>
producer == <<sent, pump>>
stopping == <<once, xpc>>
verdict  == <<ended, outcome>>
progress == <<count, seen, delivered>>
vars     == <<queue, producer, stopping, cpc, verdict, progress, taken>>

Response(s) == [kind : {"ok", "failed"}, seq : {s}]
EndItem     == [kind |-> "end", seq |-> 0]
ErrorItem   == [kind |-> "error", seq |-> 0]
Terminals   == {EndItem, ErrorItem}
Items       == [kind : {"ok", "failed"}, seq : 1 .. MaxSent] \cup Terminals

ConsumerPCs == {"idle", "take", "close", "close_offer", "destroy",
                "destroy_offer", "join", "gone"}

Init ==
    /\ items = <<>> /\ dropped = 0
    /\ sent = 0 /\ pump = "reading"
    /\ once = "fresh" /\ xpc = "idle"
    /\ cpc = "idle"
    /\ ended = FALSE /\ outcome = "none"
    /\ count = 0 /\ seen = 0 /\ delivered = 0
    /\ taken = 0

-----------------------------------------------------------------------------
(* BoundedDropOldestQueue *)

Full == Capacity # 0 /\ Len(items) >= Capacity

\* Mutant: evicts without counting.
OfferUncounted(item) ==
    /\ items' = IF Full THEN Append(Tail(items), item) ELSE Append(items, item)
    /\ UNCHANGED dropped

\* Mutant: refuses the newest item instead of evicting the oldest.
OfferOrRefuse(item) ==
    /\ items' = IF Full THEN items ELSE Append(items, item)
    /\ dropped' = IF Full THEN dropped + 1 ELSE dropped

offer(item) ==
    \/ /\ Full
       /\ items' = Append(Tail(items), item)
       /\ dropped' = dropped + 1
    \/ /\ ~Full
       /\ items' = Append(items, item)
       /\ UNCHANGED dropped

\* take() hands out the oldest item once there is one.
take(item) ==
    /\ items # <<>>
    /\ item = Head(items)
    /\ items' = Tail(items)
    /\ taken' = taken + 1
    /\ UNCHANGED dropped

-----------------------------------------------------------------------------
(* The pump thread.  Responses already received may still be read after a  *)
(* TryCancel.                                                              *)

PumpReads ==
    /\ pump = "reading"
    /\ sent < MaxSent
    /\ sent' = sent + 1
    /\ \E item \in Response(sent + 1) : offer(item)
    /\ UNCHANGED <<pump, stopping, cpc, verdict, progress, taken>>

\* Every status but OK and CANCELLED is an error.
Terminal(kind) == IF kind = "error" THEN ErrorItem ELSE EndItem

\* Mutant: no terminal item.
PumpStopsSilently ==
    /\ pump = "reading"
    /\ pump' \in {"end", "error"}
    /\ UNCHANGED <<sent, queue, stopping, cpc, verdict, progress, taken>>

\* Read() returns false; Finish() tells why.
PumpFinishes ==
    /\ pump = "reading"
    /\ pump' \in {"end", "error"}
    /\ offer(Terminal(pump'))
    /\ UNCHANGED <<sent, stopping, cpc, verdict, progress, taken>>

-----------------------------------------------------------------------------
(* cancel(): call_once { TryCancel; offer(kEnd) } *)

\* cancel() from another thread.  A later call finds the flag set and
\* returns; an overlapping one waits for the first.
CancelBegins ==
    /\ cpc \notin {"destroy", "destroy_offer", "join", "gone"}
    /\ once = "fresh"
    /\ once' = "running"
    /\ xpc' = "offer"
    /\ UNCHANGED <<queue, producer, cpc, verdict, progress, taken>>

CancelOffers ==
    /\ xpc = "offer"
    /\ offer(EndItem)
    /\ once' = "done"
    /\ xpc' = "idle"
    /\ UNCHANGED <<producer, cpc, verdict, progress, taken>>

\* cancel() on the consuming thread, out of close() or the destructor
ConsumerCancels(from, inside, after) ==
    /\ cpc = from
    /\ \/ /\ once = "fresh"
          /\ once' = "running"
          /\ cpc' = inside
       \/ /\ once = "done"
          /\ cpc' = after
          /\ UNCHANGED once
    /\ UNCHANGED <<queue, producer, xpc, verdict, progress, taken>>

ConsumerOffers(inside, after) ==
    /\ cpc = inside
    /\ offer(EndItem)
    /\ once' = "done"
    /\ cpc' = after
    /\ UNCHANGED <<producer, xpc, verdict, progress, taken>>

-----------------------------------------------------------------------------
(* next() *)

\* A call on an ended stream returns nullopt and changes nothing.
NextBegins ==
    /\ cpc = "idle"
    /\ ~ended
    /\ cpc' = "take"
    /\ UNCHANGED <<queue, producer, stopping, verdict, progress, taken>>

Latch(how) ==
    /\ ended' = TRUE
    /\ outcome' = how
    /\ cpc' = "idle"

\* Mutant: a success does not reset the run of failures.
KeepCount == count

note_success == 0

TakesResult ==
    /\ cpc = "take"
    /\ \E item \in Items :
         /\ take(item)
         /\ item.kind = "ok"
         /\ seen' = item.seq
         /\ delivered' = item.seq
    /\ count' = note_success
    /\ cpc' = "idle"
    /\ UNCHANGED <<producer, stopping, verdict>>

\* note_failure() with n failures in a row, this one included
Trips(n) == MaxFailures # 0 /\ n >= MaxFailures

\* A failed frame is skipped until the limit trips; count_ only moves when
\* there is a limit.
TakesFailure ==
    /\ cpc = "take"
    /\ \E item \in Items :
         /\ take(item)
         /\ item.kind = "failed"
         /\ seen' = item.seq
    /\ count' = IF MaxFailures = 0 THEN count ELSE count + 1
    /\ \/ Trips(count + 1) /\ Latch("limit")
       \/ ~Trips(count + 1) /\ UNCHANGED <<cpc, verdict>>
    /\ UNCHANGED <<producer, stopping, delivered>>

TakesTerminal ==
    /\ cpc = "take"
    /\ \E item \in Terminals : take(item) /\ Latch(item.kind)
    /\ UNCHANGED <<producer, stopping, progress>>

-----------------------------------------------------------------------------
(* close() and the destructor *)

\* close() by the consuming thread; it latches before it cancels.
CloseBegins ==
    /\ cpc = "idle"
    /\ ended' = TRUE
    /\ outcome' = IF ended THEN outcome ELSE "closed"
    /\ cpc' = "close"
    /\ UNCHANGED <<queue, producer, stopping, progress, taken>>

\* ~Impl; nobody else is inside the stream any more.
DestroyBegins ==
    /\ cpc = "idle"
    /\ xpc = "idle"
    /\ cpc' = "destroy"
    /\ UNCHANGED <<queue, producer, stopping, verdict, progress, taken>>

DestroyCancels == ConsumerCancels("destroy", "destroy_offer", "join")

CloseCancels == ConsumerCancels("close", "close_offer", "idle")

CancelBody ==
    \/ ConsumerOffers("close_offer", "idle")
    \/ ConsumerOffers("destroy_offer", "join")

PumpJoined ==
    /\ cpc = "join"
    /\ pump # "reading"
    /\ cpc' = "gone"
    /\ UNCHANGED <<queue, producer, stopping, verdict, progress, taken>>

Gone == cpc = "gone" /\ UNCHANGED vars

-----------------------------------------------------------------------------
Consumer ==
    \/ NextBegins \/ TakesResult \/ TakesFailure \/ TakesTerminal
    \/ CloseBegins \/ CloseCancels
    \/ DestroyBegins \/ DestroyCancels \/ CancelBody \/ PumpJoined

Next ==
    \/ PumpReads \/ PumpFinishes
    \/ CancelBegins \/ CancelOffers
    \/ Consumer
    \/ Gone

Spec == Init /\ [][Next]_vars

(* A call that has begun runs on.  The server may stream for ever, but once *)
(* TryCancel was called gRPC ends the stream.                              *)
Fairness ==
    /\ WF_vars(CancelOffers)
    /\ WF_vars(TakesResult \/ TakesFailure \/ TakesTerminal)
    /\ WF_vars(CloseCancels \/ DestroyCancels \/ CancelBody \/ PumpJoined)
    /\ WF_vars(once # "fresh" /\ PumpFinishes)

FairSpec == Spec /\ Fairness

-----------------------------------------------------------------------------
(* Properties *)

Queued(item) == \E i \in 1 .. Len(items) : items[i] = item

\* Types, and the bound of the queue: a bounded queue never exceeds its size.
TypeOK ==
    /\ items \in Seq(Items)
    /\ Capacity # 0 => Len(items) <= Capacity
    /\ dropped \in Nat /\ taken \in Nat
    /\ sent \in 0 .. MaxSent
    /\ pump \in {"reading", "end", "error"}
    /\ once \in {"fresh", "running", "done"}
    /\ xpc \in {"idle", "offer"}
    /\ cpc \in ConsumerPCs
    /\ ended \in BOOLEAN
    /\ outcome \in {"none", "end", "error", "limit", "closed"}
    /\ count \in Nat /\ seen \in Nat /\ delivered \in Nat

\* dropped() accounts for every loss: each item ever offered (responses, the
\* pump's terminal, cancel's terminal) was taken, is queued or was counted.
LossesCounted ==
    sent + (IF pump = "reading" THEN 0 ELSE 1) + (IF once = "done" THEN 1 ELSE 0)
        = taken + dropped + Len(items)

\* "The producer guarantees a terminal item eventually arrives" (take()): once
\* the pump has finished, a consumer that has not seen the end will meet a
\* terminal item, whatever was evicted and whoever cancelled; and a stream
\* that broke is reported as broken unless somebody cancelled it.
TerminalWaits ==
    /\ pump # "reading" /\ ~ended => Queued(EndItem) \/ Queued(ErrorItem)
    /\ pump = "error" /\ once = "fresh" =>
         IF ended THEN outcome \in {"error", "limit", "closed"}
                  ELSE Queued(ErrorItem)

\* Once ended_ is latched next() hands out nothing and raises nothing more:
\* the first verdict stands.
VerdictFinal ==
    [][ended => UNCHANGED <<ended, outcome, delivered, count>>]_vars

\* A consumer blocked in next() when cancel() is called wakes up, although the
\* pump's late responses may evict the terminal that cancel() offered.
CancelWakes == (cpc = "take" /\ once # "fresh") ~> (cpc # "take")

\* The pump, the queue and the once-flag together are a ResultStream: results
\* in order, one verdict, and no verdict without a cause.
Promise == INSTANCE ResultStream WITH
    finish    <- IF pump = "reading" THEN "no" ELSE pump,
    cancelled <- once # "fresh" \/ outcome = "closed",
    status    <- IF ~ended THEN "open"
                 ELSE IF outcome \in {"end", "closed"} THEN "ended"
                 ELSE "raised"

KeepsPromise == Promise!Spec

\* The pump's queue and the consumer's verdict together: every variable has its
\* type, the queue respects its capacity (subscribe_health.hpp:35), and the
\* terminal item is never shed.
StreamSound == TypeOK /\ TerminalWaits
=============================================================================
