------------------------ MODULE StreamPipelineProofs ------------------------
(***************************************************************************)
(* Machine-checked proofs about StreamPipeline for every queue size,       *)
(* failure limit and configuration: its results are accounted for, the end *)
(* of its queue is reachable, and stop() leaves nothing behind.            *)
(***************************************************************************)
EXTENDS StreamPipeline, SequenceTheorems, FiniteSetTheorems, TLAPS

\* The subscription hands out what the server has sent, in order.
SubscriptionInv ==
    /\ cancelled \in BOOLEAN /\ delivered \in Nat /\ sent \in Nat
    /\ delivered <= sent /\ sent <= MaxSent

\* The worker has a result in hand exactly while it handles one.
HandlesResult == Handling => wseq # StopMarker

\* The stop marker comes last, and after it nothing.
MarkerIsLast ==
    \A i \in 1 .. Len(slots) :
        slots[i] = StopMarker => wpc = "done" /\ i = Len(slots)

\* Once the worker has said goodbye it is not running.
DoneIsQuiet == wpc \in {"offer_stop", "done"} => ~running

\* Whoever stops the pipeline found it started; the application's clean-up
\* comes after the worker's last step, and the destructor's after join().
StopsInOrder ==
    /\ wpc # "none" \/ apc \in {"cancel", "join", "teardown"} \/ teardown = "app" => started
    /\ apc = "teardown" \/ teardown = "app" => wpc \in {"none", "done"}
    /\ apc = "teardown" /\ wpc # "none" => joined

\* Nothing is drawn by a pipeline that was told not to draw.
DrawsIfAsked == wpc = "annotate" \/ boxes => Draw

\* The inductive invariant.
PipelineInv ==
    /\ TypeOK /\ SubscriptionInv /\ HandlesResult /\ MarkerIsLast /\ DoneIsQuiet
    /\ StopsInOrder /\ DrawsIfAsked
    /\ AppStopClears /\ DestroyedIsJoined /\ ResultsAccounted /\ EndIsReachable

-----------------------------------------------------------------------------
(* The queue *)

\* How many results are in a sequence of slots whose marker, if any, is last.
LEMMA ResultsCount ==
    ASSUME NEW s \in Seq(0 .. MaxSent),
           \A i \in 1 .. Len(s) : s[i] = StopMarker => i = Len(s)
    PROVE  LET n == Cardinality({i \in 1 .. Len(s) : s[i] # StopMarker})
           IN  /\ s # <<>> /\ s[Len(s)] = StopMarker => n = Len(s) - 1
               /\ ~(s # <<>> /\ s[Len(s)] = StopMarker) => n = Len(s)
  <1> DEFINE R == {i \in 1 .. Len(s) : s[i] # StopMarker}
  <1>1. Len(s) \in Nat
    BY LenProperties
  <1>2. \A n \in Nat : Cardinality(1 .. n) = n
    BY FS_Interval
  <1>3. CASE s # <<>> /\ s[Len(s)] = StopMarker
    <2>1. Len(s) # 0 BY <1>3, EmptySeq
    <2>2. R = 1 .. (Len(s) - 1)
      BY <1>1, <1>3, <2>1
    <2>3. Cardinality(1 .. (Len(s) - 1)) = Len(s) - 1
      BY <1>1, <1>2, <2>1
    <2> QED BY <1>3, <2>2, <2>3
  <1>4. CASE ~(s # <<>> /\ s[Len(s)] = StopMarker)
    <2>1. R = 1 .. Len(s)
      BY <1>1, <1>4, EmptySeq
    <2> QED BY <1>1, <1>2, <1>4, <2>1
  <1> QED BY <1>3, <1>4

\* While the worker has not offered its marker, every slot holds a result.
LEMMA AllResults ==
    ASSUME slots \in Seq(0 .. MaxSent), MarkerIsLast, wpc # "done"
    PROVE  Cardinality(Results) = Len(slots)
  <1>1. \A i \in 1 .. Len(slots) : slots[i] # StopMarker
    BY DEF MarkerIsLast
  <1>2. ~(slots # <<>> /\ slots[Len(slots)] = StopMarker)
    BY <1>1, LenProperties, EmptySeq
  <1> QED BY <1>1, <1>2, ResultsCount DEF Results

\* What offer() does: the slot comes last, the others stay in order, and the
\* queue within its size; what it loses it counts.
LEMMA OfferFacts ==
    ASSUME TypeOK, NEW slot \in 0 .. MaxSent, offer(slot)
    PROVE  /\ slots' \in Seq(0 .. MaxSent) /\ Len(slots') \in 1 .. QueueSize
           /\ slots'[Len(slots')] = slot
           /\ drops' \in Nat
           /\ Len(slots') + drops' = Len(slots) + drops + 1
           /\ \A i \in 1 .. Len(slots') - 1 : \E j \in 1 .. Len(slots) : slots'[i] = slots[j]
           /\ queue_ended' = queue_ended
  <1>0. /\ slots \in Seq(0 .. MaxSent) /\ Len(slots) \in Nat /\ Len(slots) <= QueueSize
        /\ drops \in Nat /\ QueueSize \in Nat \ {0}
    BY LenProperties, PipelineAssumption DEF TypeOK
  <1>1. CASE MustEvict
    <2>1. slots # <<>> /\ Len(slots) = QueueSize
      BY <1>0, <1>1 DEF MustEvict
    <2>2. /\ Tail(slots) \in Seq(0 .. MaxSent) /\ Len(Tail(slots)) = Len(slots) - 1
          /\ \A i \in 1 .. Len(Tail(slots)) : Tail(slots)[i] = slots[i + 1]
      BY <1>0, <2>1, HeadTailProperties
    <2>3. slots' = Append(Tail(slots), slot) /\ drops' = drops + 1
      BY <1>1 DEF offer
    <2>4. /\ slots' \in Seq(0 .. MaxSent) /\ Len(slots') = Len(Tail(slots)) + 1
          /\ slots'[Len(slots')] = slot
          /\ \A i \in 1 .. Len(Tail(slots)) : slots'[i] = Tail(slots)[i]
      BY <2>2, <2>3, AppendProperties
    <2>5. \A i \in 1 .. Len(slots') - 1 : i + 1 \in 1 .. Len(slots) /\ slots'[i] = slots[i + 1]
      BY <1>0, <2>2, <2>4
    <2>6. queue_ended' = queue_ended
      BY DEF offer
    <2>7. Len(slots') = Len(slots) /\ Len(slots') \in 1 .. QueueSize
      BY <1>0, <2>1, <2>2, <2>4
    <2>8. drops' \in Nat /\ Len(slots') + drops' = Len(slots) + drops + 1
      <3>1. drops' = drops + 1 /\ Len(slots') = Len(slots)
        BY <2>3, <2>7
      <3> QED BY <1>0, <3>1
    <2>9. \A i \in 1 .. Len(slots') - 1 : \E j \in 1 .. Len(slots) : slots'[i] = slots[j]
      BY <2>5
    <2> QED BY <2>4, <2>6, <2>7, <2>8, <2>9
  <1>2. CASE ~MustEvict
    <2>1. slots' = Append(slots, slot) /\ drops' = drops
      BY <1>2 DEF offer
    <2>2. /\ slots' \in Seq(0 .. MaxSent) /\ Len(slots') = Len(slots) + 1
          /\ slots'[Len(slots')] = slot
          /\ \A i \in 1 .. Len(slots) : slots'[i] = slots[i]
      BY <1>0, <2>1, AppendProperties
    <2>3. \A i \in 1 .. Len(slots') - 1 : i \in 1 .. Len(slots) /\ slots'[i] = slots[i]
      BY <1>0, <2>2
    <2>4. queue_ended' = queue_ended
      BY DEF offer
    <2>5. Len(slots) < QueueSize
      BY <1>0, <1>2 DEF MustEvict
    <2>6. Len(slots') \in 1 .. QueueSize /\ Len(slots') + drops' = Len(slots) + drops + 1
      BY <1>0, <2>1, <2>2, <2>5
    <2> QED BY <1>0, <2>1, <2>2, <2>3, <2>4, <2>6
  <1> QED BY <1>1, <1>2

-----------------------------------------------------------------------------
(* The inductive invariant, in two halves: the queue and its counters, and *)
(* the rest.                                                               *)

QueueInv ==
    /\ MarkerIsLast /\ ResultsAccounted /\ EndIsReachable

ControlInv ==
    /\ TypeOK /\ SubscriptionInv /\ HandlesResult /\ DoneIsQuiet
    /\ StopsInOrder /\ DrawsIfAsked /\ AppStopClears /\ DestroyedIsJoined

\* The invariant holds before the worker starts.
LEMMA PipelineInitial == Init => PipelineInv
  <1> SUFFICES ASSUME Init PROVE PipelineInv
    OBVIOUS
  <1> USE PipelineAssumption DEF Init, StopMarker
  <1>1. slots \in Seq(0 .. MaxSent) /\ Len(slots) = 0
    BY EmptySeq
  <1>2. TypeOK
    <2>1. Len(slots) <= QueueSize BY <1>1
    <2>2. {drops, got, seen, annotated, annotate_errors, hook_drops} \subseteq Nat
      OBVIOUS
    <2>3. {started, stopped, running, subscribed, first, leaving, joined,
           queue_ended, failed, boxes, zones, clear_failed} \subseteq BOOLEAN
      OBVIOUS
    <2>4. wseq \in 0 .. MaxSent
      OBVIOUS
    <2> QED BY <1>1, <2>1, <2>2, <2>3, <2>4 DEF TypeOK
  <1>3. SubscriptionInv
    <2>1. cancelled = FALSE /\ delivered = 0 /\ sent = 0
      BY DEF Iterator!Init
    <2>2. 0 <= MaxSent
      OBVIOUS
    <2>3. cancelled \in BOOLEAN
      BY <2>1, Zenon
    <2>4. delivered \in Nat /\ sent \in Nat /\ delivered <= sent /\ sent <= MaxSent
      BY <2>1, <2>2
    <2> QED BY <2>3, <2>4, Zenon DEF SubscriptionInv
  <1>4. MarkerIsLast
    BY <1>1 DEF MarkerIsLast
  <1>5. Cardinality(Results) = 0
    BY <1>1, <1>4, AllResults
  <1>6. ResultsAccounted
    BY <1>5 DEF ResultsAccounted, Handling
  <1>7. EndIsReachable
    BY <1>1 DEF EndIsReachable
  <1> QED
    BY <1>2, <1>3, <1>4, <1>6, <1>7
    DEF PipelineInv, HandlesResult, Handling, DoneIsQuiet, StopsInOrder, DrawsIfAsked,
        AppStopClears, DestroyedIsJoined

\* The steps that leave the queue and its counters alone.
LEMMA QueueUntouched ==
    ASSUME QueueInv, UNCHANGED <<results, got, seen, hook_drops>>,
           Handling' = Handling, (wpc' = "done") = (wpc = "done")
    PROVE  QueueInv'
  BY DEF QueueInv, MarkerIsLast, ResultsAccounted, EndIsReachable, Results, results

\* The worker keeps what is known of the control state.
LEMMA WorkerKeepsControl ==
    ASSUME ControlInv, WorkerStep \/ WorkerNext
    PROVE  ControlInv'
  <1> USE PipelineAssumption
      DEF ControlInv, SubscriptionInv, HandlesResult, Handling, DoneIsQuiet, StopsInOrder,
          DrawsIfAsked, AppStopClears, DestroyedIsJoined, StopMarker, TypeOK,
          subscription, flags, app, results, reader, drawing, cleanup
  <1>1. CASE WorkerSubscribes BY <1>1 DEF WorkerSubscribes
  <1>2. CASE HookKeeps BY <1>2 DEF HookKeeps
  <1>3. CASE HookDrops
    <2>1. failed \in BOOLEAN /\ hook_drops \in Nat
      OBVIOUS
    <2>2. failed' \in BOOLEAN BY <1>3, <2>1, Zenon DEF HookDrops
    <2>3. hook_drops' \in Nat BY <1>3, <2>1 DEF HookDrops
    <2> QED BY <1>3, <2>2, <2>3 DEF HookDrops
  <1>4. CASE HookStops
    <2>1. cancelled' \in BOOLEAN BY <1>4, Zenon DEF HookStops, CancelIterator
    <2> QED BY <1>4, <2>1 DEF HookStops
  <1>5. CASE HookTeardown BY <1>5 DEF HookTeardown, Teardown
  <1>6. CASE AnnotateDone
    <2>1. failed \in BOOLEAN /\ boxes \in BOOLEAN /\ annotated \in Nat /\ annotate_errors \in Nat
      OBVIOUS
    <2>2. failed' \in BOOLEAN /\ boxes' \in BOOLEAN
      BY <1>6, <2>1, Zenon DEF AnnotateDone
    <2>3. annotated' \in Nat /\ annotate_errors' \in Nat
      BY <1>6, <2>1 DEF AnnotateDone
    <2>4. clients' \in {"none", "open", "closed"} /\ (boxes' => Draw)
      BY <1>6 DEF AnnotateDone
    <2> QED BY <1>6, <2>2, <2>3, <2>4 DEF AnnotateDone
  <1>7. CASE ResultOffered BY <1>7, OfferFacts DEF ResultOffered
  <1>8. CASE WorkerExits BY <1>8 DEF WorkerExits
  <1>9. CASE offer_stop BY <1>9, OfferFacts DEF offer_stop
  <1>10. CASE NextYields BY <1>10 DEF NextYields, Iterator!Deliver
  <1>11. CASE WorkerBreaks BY ZenonT(30), <1>11 DEF WorkerBreaks, Iterator!End, Iterator!Raise
  <1> QED
    BY <1>1, <1>2, <1>3, <1>4, <1>5, <1>6, <1>7, <1>8, <1>9, <1>10, <1>11 DEF WorkerStep, WorkerNext

\* The application, the server and a get that begins keep it too.
LEMMA OthersKeepControl ==
    ASSUME ControlInv, Start \/ StopBegins \/ AppStep \/ Server \/ GetBegins
    PROVE  ControlInv'
  <1> USE PipelineAssumption
      DEF ControlInv, SubscriptionInv, HandlesResult, Handling, DoneIsQuiet, StopsInOrder,
          DrawsIfAsked, AppStopClears, DestroyedIsJoined, StopMarker, TypeOK,
          subscription, flags, app, results, reader, drawing, cleanup
  <1>1. CASE Start BY <1>1 DEF Start
  <1>2. CASE StopBegins
    <2>1. leaving' \in BOOLEAN /\ stopped' \in BOOLEAN /\ first' \in BOOLEAN
      BY <1>2, Zenon DEF StopBegins
    <2>2. CASE ~started
      BY <1>2, <2>1, <2>2 DEF StopBegins
    <2>3. CASE started
      BY <1>2, <2>1, <2>3 DEF StopBegins
    <2> QED BY <2>2, <2>3
  <1>3. CASE StopCancels
    <2>1. cancelled' \in BOOLEAN BY <1>3, Zenon DEF StopCancels, CancelIterator
    <2> QED BY <1>3, <2>1 DEF StopCancels
  <1>4. CASE StopJoins BY <1>4 DEF StopJoins, WorkerJoinable, StopDone
  <1>5. CASE StopTeardown BY <1>5 DEF StopTeardown, Teardown, StopDone
  <1>6. CASE Server BY <1>6 DEF Server, Iterator!Send, Iterator!Finish
  <1>7. CASE GetBegins BY <1>7 DEF GetBegins
  <1> QED
    BY <1>1, <1>2, <1>3, <1>4, <1>5, <1>6, <1>7 DEF AppStep

\* A consumer's get keeps it.
LEMMA GetKeepsControl ==
    ASSUME ControlInv, GetReturns
    PROVE  ControlInv'
  <1> USE DEF GetReturns
  <1>1. slots \in Seq(0 .. MaxSent) /\ Len(slots) \in Nat /\ got \in Nat /\ queue_ended \in BOOLEAN
    BY LenProperties DEF ControlInv, TypeOK
  <1>2. slots' \in Seq(0 .. MaxSent) /\ Len(slots') <= Len(slots) /\ got' \in Nat
    BY <1>1, HeadTailProperties
  <1>3. queue_ended' \in BOOLEAN
    BY <1>1 DEF EndSeen
  <1>4. /\ Len(slots') \in Nat /\ Len(slots) <= QueueSize
    BY <1>2, LenProperties DEF ControlInv, TypeOK
  <1>5. TypeOK'
    BY <1>1, <1>2, <1>3, <1>4, PipelineAssumption
    DEF ControlInv, TypeOK, subscription, flags, app, results, reader, drawing, cleanup
  <1> QED
    BY <1>5
    DEF ControlInv, SubscriptionInv, HandlesResult, Handling, DoneIsQuiet, StopsInOrder,
        DrawsIfAsked, AppStopClears, DestroyedIsJoined,
        subscription, flags, app, drawing, cleanup

-----------------------------------------------------------------------------
(* The queue's half *)

\* The worker offers a result, or at its end the marker.
LEMMA OfferKeepsQueue ==
    ASSUME ControlInv, QueueInv, wpc # "done", NEW slot \in 0 .. MaxSent, offer(slot),
           slot = StopMarker <=> wpc' = "done",
           UNCHANGED <<got, seen, hook_drops>>,
           Handling = (slot # StopMarker), ~Handling'
    PROVE  QueueInv'
  <1>0. TypeOK /\ slots \in Seq(0 .. MaxSent) /\ Len(slots) \in Nat
    BY LenProperties DEF ControlInv, TypeOK
  <1>1. /\ slots' \in Seq(0 .. MaxSent) /\ Len(slots') \in 1 .. QueueSize
        /\ slots'[Len(slots')] = slot
        /\ Len(slots') + drops' = Len(slots) + drops + 1
        /\ \A i \in 1 .. Len(slots') - 1 : \E j \in 1 .. Len(slots) : slots'[i] = slots[j]
    BY <1>0, OfferFacts
  <1>2. \A j \in 1 .. Len(slots) : slots[j] # StopMarker
    BY DEF QueueInv, MarkerIsLast
  <1>3. MarkerIsLast'
    BY SMTT(30), <1>1, <1>2, PipelineAssumption DEF MarkerIsLast, StopMarker
  <1>4. slots' # <<>>
    BY <1>1, EmptySeq
  <1>5. Cardinality(Results) = Len(slots)
    BY <1>0, AllResults DEF QueueInv
  <1>6. Cardinality(Results)' = IF slot = StopMarker THEN Len(slots') - 1 ELSE Len(slots')
    <2>1. \A i \in 1 .. Len(slots') : slots'[i] = StopMarker => i = Len(slots')
      BY <1>3 DEF MarkerIsLast, StopMarker
    <2> QED BY <1>1, <1>4, <2>1, ResultsCount DEF Results, StopMarker
  <1>7. ResultsAccounted'
    <2>1. {drops, got, seen, hook_drops} \subseteq Nat /\ drops' \in Nat
      BY <1>0, OfferFacts DEF TypeOK
    <2>2. seen = got + Len(slots) + drops + hook_drops + (IF slot # StopMarker THEN 1 ELSE 0)
      BY <1>5 DEF QueueInv, ResultsAccounted
    <2>3. seen = got + Cardinality(Results)' + drops' + hook_drops
      BY SMTT(30), <1>0, <1>1, <1>6, <2>1, <2>2
    <2> QED BY <2>1, <2>3 DEF ResultsAccounted
  <1>8. EndIsReachable'
    BY <1>0, <1>1, <1>2, <1>3, <1>4 DEF EndIsReachable, MarkerIsLast, StopMarker
  <1> QED BY <1>3, <1>7, <1>8 DEF QueueInv

\* A consumer's get keeps what is known of the queue.
LEMMA GetKeepsQueue ==
    ASSUME ControlInv, QueueInv, GetReturns
    PROVE  QueueInv'
  <1>0. /\ slots \in Seq(0 .. MaxSent) /\ Len(slots) \in Nat
        /\ drops \in Nat /\ got \in Nat /\ seen \in Nat /\ hook_drops \in Nat
    BY LenProperties DEF ControlInv, TypeOK
  <1>1. /\ wpc' = wpc /\ Handling' = Handling
        /\ drops' = drops /\ seen' = seen /\ hook_drops' = hook_drops
    BY DEF GetReturns, Handling
  <1>2. CASE slots = <<>>
    <2>1. slots' = slots /\ got' = got /\ queue_ended' = queue_ended
      BY <1>2 DEF GetReturns
    <2> QED BY <1>1, <2>1 DEF QueueInv, MarkerIsLast, ResultsAccounted, EndIsReachable, Results
  <1>3. CASE slots # <<>>
    <2>1. /\ slots' = Tail(slots) /\ queue_ended' = EndSeen(Head(slots))
          /\ Head(slots) = StopMarker => got' = got
          /\ Head(slots) # StopMarker => got' = got + 1
      BY <1>3 DEF GetReturns
    <2>2. /\ Tail(slots) \in Seq(0 .. MaxSent) /\ Len(Tail(slots)) = Len(slots) - 1
          /\ \A i \in 1 .. Len(Tail(slots)) : Tail(slots)[i] = slots[i + 1]
          /\ Head(slots) = slots[1]
      BY <1>0, <1>3, HeadTailProperties
    <2>3. Len(slots) # 0
      BY <1>0, <1>3, EmptySeq
    <2>4. /\ slots' \in Seq(0 .. MaxSent) /\ Len(slots') = Len(slots) - 1
          /\ \A i \in 1 .. Len(slots') : slots'[i] = slots[i + 1]
          /\ slots' = <<>> <=> Len(slots') = 0
      BY <2>1, <2>2, EmptySeq
    <2>5. MarkerIsLast'
      BY <1>0, <1>1, <2>3, <2>4 DEF QueueInv, MarkerIsLast, StopMarker
    <2>6. EndIsReachable'
      <3>1. CASE Len(slots) = 1
        <4>1. slots' = <<>> /\ 1 .. Len(slots') = {}
          BY <2>4, <3>1
        <4>2. wpc = "done" => queue_ended'
          BY <1>3, <2>1, <2>2, <3>1 DEF QueueInv, EndIsReachable, EndSeen
        <4> QED BY <1>1, <4>1, <4>2 DEF EndIsReachable
      <3>2. CASE Len(slots) # 1
        <4>1. Len(slots') # 0 /\ slots'[Len(slots')] = slots[Len(slots)]
          BY <1>0, <2>3, <2>4, <3>2
        <4>2. \A i \in 1 .. Len(slots') : slots'[i] \in {slots[j] : j \in 1 .. Len(slots)}
          BY <1>0, <2>3, <2>4
        <4> QED BY <1>1, <2>1, <2>4, <4>1, <4>2 DEF QueueInv, EndIsReachable, EndSeen, StopMarker
      <3> QED BY <3>1, <3>2
    <2>7. /\ slots[Len(slots)] = StopMarker => Cardinality(Results) = Len(slots) - 1
          /\ slots[Len(slots)] # StopMarker => Cardinality(Results) = Len(slots)
      BY <1>0, <1>3, ResultsCount DEF QueueInv, MarkerIsLast, Results
    <2>8. \A i \in 1 .. Len(slots') : slots'[i] = StopMarker => i = Len(slots')
      BY <2>5 DEF MarkerIsLast, StopMarker
    <2>9. /\ slots' # <<>> /\ slots'[Len(slots')] = StopMarker => Cardinality(Results)' = Len(slots') - 1
          /\ ~(slots' # <<>> /\ slots'[Len(slots')] = StopMarker) => Cardinality(Results)' = Len(slots')
      BY <2>4, <2>8, ResultsCount DEF Results, StopMarker
    <2>10. got' + Cardinality(Results)' = got + Cardinality(Results)
      <3>1. CASE Len(slots) = 1
        BY <1>0, <2>1, <2>2, <2>4, <2>7, <2>9, <3>1
      <3>2. CASE Len(slots) # 1
        <4>1. Head(slots) # StopMarker
          <5>1. 1 \in 1 .. Len(slots) BY <1>0, <2>3
          <5> QED BY <2>2, <3>2, <5>1 DEF QueueInv, MarkerIsLast
        <4>2. slots' # <<>> /\ slots'[Len(slots')] = slots[Len(slots)]
          BY <1>0, <2>3, <2>4, <3>2
        <4>3. got' = got + 1 /\ Len(slots') = Len(slots) - 1
          BY <2>1, <2>4, <4>1
        <4>4. Cardinality(Results)' = Cardinality(Results) - 1
          <5>1. CASE slots[Len(slots)] = StopMarker
            BY <1>0, <2>7, <2>9, <4>2, <4>3, <5>1
          <5>2. CASE slots[Len(slots)] # StopMarker
            BY <1>0, <2>7, <2>9, <4>2, <4>3, <5>2
          <5> QED BY <5>1, <5>2
        <4>5. Cardinality(Results) \in Nat
          BY <1>0, <2>3, <2>7
        <4> QED BY <1>0, <4>3, <4>4, <4>5
      <3> QED BY <3>1, <3>2
    <2>11. ResultsAccounted'
      <3>1. Cardinality(Results) \in Nat /\ Cardinality(Results)' \in Nat /\ got' \in Nat
        BY <1>0, <2>1, <2>3, <2>4, <2>7, <2>9
      <3> QED BY <1>0, <1>1, <2>10, <3>1 DEF QueueInv, ResultsAccounted
    <2> QED BY <2>5, <2>6, <2>11 DEF QueueInv
  <1> QED BY <1>2, <1>3

\* Every action keeps what is known of the queue.
LEMMA QueueStep ==
    ASSUME ControlInv, QueueInv, [Next]_vars
    PROVE  QueueInv'
  <1> USE DEF Handling
  <1>1. CASE Start
    <2>1. wpc = "none" /\ wpc' \in {"none", "subscribe"}
      BY <1>1 DEF Start, ControlInv, StopsInOrder
    <2> QED BY <1>1, <2>1, QueueUntouched DEF Start, results, reader
  <1>2. CASE StopBegins \/ AppStep \/ Server \/ GetBegins \/ UNCHANGED vars
    BY <1>2, QueueUntouched
    DEF StopBegins, AppStep, StopCancels, StopJoins, StopTeardown, Server, GetBegins,
        vars, results, reader
  <1>3. CASE WorkerSubscribes \/ HookKeeps \/ HookStops \/ HookTeardown \/ AnnotateDone \/ WorkerExits
             \/ WorkerBreaks
    BY <1>3, QueueUntouched
    DEF WorkerSubscribes, HookKeeps, HookStops, HookTeardown, AnnotateDone, WorkerExits,
        WorkerBreaks, results, reader
  <1>4. CASE HookDrops
    <2>1. /\ seen' = seen /\ got' = got /\ drops' = drops /\ hook_drops' = hook_drops + 1
          /\ slots' = slots /\ queue_ended' = queue_ended
          /\ wpc = "hook" /\ wpc' = "next"
      BY <1>4 DEF HookDrops, results, reader
    <2>2. {got, drops, hook_drops, seen} \subseteq Nat /\ Cardinality(Results) = Len(slots)
      BY <2>1, AllResults DEF ControlInv, TypeOK, QueueInv
    <2>3. Len(slots) \in Nat /\ Cardinality(Results)' = Cardinality(Results)
      BY <2>1, LenProperties DEF ControlInv, TypeOK, Results
    <2>4. ResultsAccounted'
      BY <2>1, <2>2, <2>3 DEF QueueInv, ResultsAccounted
    <2> QED BY <2>1, <2>4 DEF QueueInv, MarkerIsLast, EndIsReachable
  <1>5. CASE NextYields
    <2>1. /\ seen' = seen + 1 /\ got' = got /\ drops' = drops /\ hook_drops' = hook_drops
          /\ slots' = slots /\ queue_ended' = queue_ended
          /\ wpc = "next" /\ wpc' = "hook"
      BY <1>5 DEF NextYields, results, reader, drawing
    <2>2. {got, drops, hook_drops, seen} \subseteq Nat /\ Cardinality(Results) = Len(slots)
      BY <2>1, AllResults DEF ControlInv, TypeOK, QueueInv
    <2>3. Len(slots) \in Nat /\ Cardinality(Results)' = Cardinality(Results)
      BY <2>1, LenProperties DEF ControlInv, TypeOK, Results
    <2>4. ResultsAccounted'
      BY <2>1, <2>2, <2>3 DEF QueueInv, ResultsAccounted
    <2> QED BY <2>1, <2>4 DEF QueueInv, MarkerIsLast, EndIsReachable
  <1>6. CASE ResultOffered
    <2>1. wseq \in 0 .. MaxSent /\ wseq # StopMarker
      BY <1>6 DEF ResultOffered, ControlInv, TypeOK, HandlesResult
    <2> QED BY <1>6, <2>1, OfferKeepsQueue DEF ResultOffered, reader
  <1>7. CASE offer_stop
    <2>1. StopMarker \in 0 .. MaxSent
      BY PipelineAssumption DEF StopMarker
    <2> QED BY <1>7, <2>1, OfferKeepsQueue DEF offer_stop, reader
  <1>8. CASE GetReturns BY <1>8, GetKeepsQueue
  <1>9. CASE Gone BY <1>2, <1>9 DEF Gone
  <1> QED
    BY <1>1, <1>2, <1>3, <1>4, <1>5, <1>6, <1>7, <1>8, <1>9 DEF Next, WorkerStep, WorkerNext

-----------------------------------------------------------------------------
(* The theorems *)

\* Every action keeps what is known of the control state.
LEMMA ControlStep ==
    ASSUME ControlInv, [Next]_vars
    PROVE  ControlInv'
  <1>1. CASE UNCHANGED vars
    BY <1>1
    DEF vars, ControlInv, TypeOK, SubscriptionInv, HandlesResult, Handling, DoneIsQuiet,
        StopsInOrder, DrawsIfAsked, AppStopClears, DestroyedIsJoined,
        subscription, flags, app, results, reader, drawing, cleanup
  <1>2. CASE Gone
    BY <1>1, <1>2 DEF Gone
  <1> QED
    BY <1>1, <1>2, WorkerKeepsControl, OthersKeepControl, GetKeepsControl DEF Next

\* Every step keeps the inductive invariant.
LEMMA PipelineStep == PipelineInv /\ [Next]_vars => PipelineInv'
  BY ControlStep, QueueStep DEF PipelineInv, ControlInv, QueueInv

\* stop() and the destructor, called by the application, by the destructor or
\* by the hook, leave nothing drawn that could be cleared and a worker that
\* was joined (stream_pipeline.cpp, stop and ~Impl).
THEOREM StopIsSound == Spec => []StopSound
  <1>1. PipelineInv => StopSound BY DEF PipelineInv, StopSound
  <1> QED BY <1>1, PipelineInitial, PipelineStep, PTL DEF Spec

\* Every result the worker accepted was handed out, is queued, was dropped and
\* counted, or is in hand (stream_pipeline.cpp, ResultQueue and handle).
THEOREM ResultsAreAccounted == Spec => []ResultsAccounted
  <1>1. PipelineInv => ResultsAccounted BY DEF PipelineInv
  <1> QED BY <1>1, PipelineInitial, PipelineStep, PTL DEF Spec

\* When the worker has finished, the end of the queue can be reached, and not
\* before (stream_pipeline.cpp, offer_stop).
THEOREM EndStaysReachable == Spec => []EndIsReachable
  <1>1. PipelineInv => EndIsReachable BY DEF PipelineInv
  <1> QED BY <1>1, PipelineInitial, PipelineStep, PTL DEF Spec

\* The pipeline does to its subscription nothing but what ResultStream allows,
\* so what InferenceStream implements is what it runs on.
THEOREM IteratorKeepsPromise == Spec => Iterator!Spec
  <1> USE DEF Iterator!vars, subscription
  <1>1. Init => Iterator!Init
    BY DEF Init
  <1>2. PipelineInv /\ [Next]_vars => [Iterator!Next]_(Iterator!vars)
    <2> SUFFICES ASSUME PipelineInv, [Next]_vars PROVE [Iterator!Next]_(Iterator!vars)
      OBVIOUS
    <2>0. cancelled' = (cancelled \/ subscribed) => cancelled' = cancelled \/ cancelled' = TRUE
      BY Zenon DEF PipelineInv, SubscriptionInv
    <2>1. CASE Server
      BY <2>1 DEF Server, Iterator!Next
    <2>2. CASE NextYields
      BY <2>2 DEF NextYields, Iterator!Next
    <2>3. CASE WorkerBreaks
      BY <2>3 DEF WorkerBreaks, Iterator!Next
    <2>4. CASE HookStops
      BY <2>0, <2>4 DEF HookStops, CancelIterator, Iterator!Next, Iterator!Cancel
    <2>5. CASE StopCancels
      BY <2>0, <2>5 DEF StopCancels, CancelIterator, Iterator!Next, Iterator!Cancel
    <2>6. CASE UNCHANGED vars
      BY <2>6 DEF vars
    <2>7. CASE Start \/ StopBegins \/ StopJoins \/ StopTeardown \/ GetBegins \/ GetReturns \/ Gone
      BY <2>7 DEF Start, StopBegins, StopJoins, StopTeardown, GetBegins, GetReturns, Gone, vars
    <2>8. CASE WorkerSubscribes \/ HookKeeps \/ HookDrops \/ HookTeardown \/ AnnotateDone
               \/ ResultOffered \/ WorkerExits \/ offer_stop
      BY <2>8 DEF WorkerSubscribes, HookKeeps, HookDrops, HookTeardown, AnnotateDone,
                  ResultOffered, WorkerExits, offer_stop
    <2> QED
      BY <2>1, <2>2, <2>3, <2>4, <2>5, <2>6, <2>7, <2>8
      DEF Next, AppStep, WorkerStep, WorkerNext
  <1> QED BY <1>1, <1>2, PipelineInitial, PipelineStep, PTL DEF Spec, Iterator!Spec
=============================================================================
