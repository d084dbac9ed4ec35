----------------------- MODULE InferenceStreamProofs -----------------------
(***************************************************************************)
(* Machine-checked proofs about InferenceStream for every queue size,      *)
(* failure limit and number of responses: its safety properties, and that  *)
(* it implements ResultStream.                                             *)
(***************************************************************************)
EXTENDS InferenceStream, SequenceTheorems, TLAPS

\* cancel()'s body is inside at most one thread, and call_once knows.
BodyRunsOnce ==
    /\ xpc = "offer" => once = "running" /\ cpc \notin {"close_offer", "destroy_offer"}
    /\ cpc \in {"close_offer", "destroy_offer"} => once = "running"

\* A consumer inside next() has not latched a verdict.
VerdictLatched ==
    /\ cpc = "take" => ~ended
    /\ ended <=> outcome # "none"

\* A terminal item, queued or taken, was offered by whoever may offer it.
EndHasCause   == pump = "end" \/ once = "done"
ErrorHasCause == pump = "error"
Causes ==
    /\ Queued(EndItem) \/ outcome = "end" => EndHasCause
    /\ Queued(ErrorItem) \/ outcome = "error" => ErrorHasCause

\* Responses are queued in the order in which they were read, behind the last
\* one taken; and the failures counted came after the last result.
IsResponse(item) == item.kind \in {"ok", "failed"}
InSequence ==
    /\ \A i \in 1 .. Len(items) :
          IsResponse(items[i]) => seen < items[i].seq /\ items[i].seq <= sent
    /\ \A i, j \in 1 .. Len(items) :
          i < j /\ IsResponse(items[i]) /\ IsResponse(items[j])
              => items[i].seq < items[j].seq
    /\ delivered + count <= seen /\ seen <= sent

\* The inductive invariant.
StreamInv ==
    /\ TypeOK
    /\ BodyRunsOnce /\ VerdictLatched /\ Causes /\ InSequence
    /\ LossesCounted /\ TerminalWaits

-----------------------------------------------------------------------------
(* The queue *)

\* What offer() does to a well-typed queue: the item comes last, and at most
\* the oldest of the others is gone.
LEMMA OfferFacts ==
    ASSUME TypeOK, NEW item \in Items, offer(item)
    PROVE  /\ items' \in Seq(Items) /\ dropped' \in Nat
           /\ Capacity # 0 => Len(items') <= Capacity
           /\ Len(items') \in Nat \ {0} /\ items'[Len(items')] = item
           /\ Len(items') + dropped' = Len(items) + dropped + 1
           /\ \E d \in {0, 1} :
                 /\ Len(items') = Len(items) + 1 - d
                 /\ \A i \in 1 .. Len(items') - 1 : items'[i] = items[i + d]
  <1>1. CASE Full
    <2>1. items \in Seq(Items) /\ items # <<>> /\ Len(items) = Capacity
      BY <1>1, StreamAssumption DEF Full, TypeOK
    <2>2. items' = Append(Tail(items), item) /\ dropped' = dropped + 1
      BY <1>1 DEF offer
    <2>3. /\ Tail(items) \in Seq(Items) /\ Len(Tail(items)) = Len(items) - 1
          /\ \A i \in 1 .. Len(items) - 1 : Tail(items)[i] = items[i + 1]
      BY <2>1
    <2>4. /\ items' \in Seq(Items) /\ Len(items') = Len(items)
          /\ items'[Len(items)] = item
          /\ \A i \in 1 .. Len(items) - 1 : items'[i] = items[i + 1]
      BY <2>1, <2>2, <2>3
    <2> QED BY <2>1, <2>2, <2>4 DEF TypeOK
  <1>2. CASE ~Full
    <2>1. /\ items \in Seq(Items) /\ Len(items) \in Nat
          /\ Capacity # 0 => Len(items) < Capacity
      BY <1>2, StreamAssumption DEF Full, TypeOK
    <2>2. items' = Append(items, item) /\ dropped' = dropped
      BY <1>2 DEF offer
    <2>3. /\ items' \in Seq(Items) /\ Len(items') = Len(items) + 1
          /\ items'[Len(items) + 1] = item
          /\ \A i \in 1 .. Len(items) : items'[i] = items[i]
      BY <2>1, <2>2
    <2> QED BY <2>1, <2>2, <2>3, StreamAssumption DEF TypeOK
  <1> QED BY <1>1, <1>2

\* What is queued after offer() was queued before or is the item, which is.
LEMMA OfferQueues ==
    ASSUME TypeOK, NEW item \in Items, offer(item)
    PROVE  /\ Queued(item)'
           /\ \A x : Queued(x)' => Queued(x) \/ x = item
  <1>1. PICK d \in {0, 1} :
           /\ Len(items') = Len(items) + 1 - d
           /\ \A i \in 1 .. Len(items') - 1 : items'[i] = items[i + d]
    BY OfferFacts
  <1>2. Len(items') \in Nat \ {0} /\ items'[Len(items')] = item /\ Len(items) \in Nat
    BY OfferFacts DEF TypeOK
  <1>3. ASSUME NEW x, NEW i \in 1 .. Len(items'), items'[i] = x, x # item
        PROVE  Queued(x)
    <2>1. i \in 1 .. Len(items') - 1 /\ i + d \in 1 .. Len(items)
      BY <1>1, <1>2, <1>3
    <2> QED BY <1>1, <1>3, <2>1 DEF Queued
  <1> QED BY <1>2, <1>3 DEF Queued

\* What take() does: the oldest item leaves.
LEMMA TakeFacts ==
    ASSUME TypeOK, NEW item, take(item)
    PROVE  /\ items' \in Seq(Items) /\ Len(items') = Len(items) - 1
           /\ Len(items) \in Nat \ {0} /\ item = items[1] /\ item \in Items
           /\ \A i \in 1 .. Len(items') : items'[i] = items[i + 1]
           /\ dropped' = dropped /\ taken' = taken + 1
  BY DEF take, TypeOK

\* What taking one entry does to the queues.
LEMMA TakeQueues ==
    ASSUME TypeOK, NEW item, take(item)
    PROVE  /\ Queued(item)
           /\ \A x : Queued(x)' => Queued(x)
           /\ \A x : Queued(x) => Queued(x)' \/ x = item
  <1>1. /\ Len(items') = Len(items) - 1 /\ Len(items) \in Nat \ {0} /\ item = items[1]
        /\ \A i \in 1 .. Len(items') : items'[i] = items[i + 1]
    BY TakeFacts
  <1>2. ASSUME NEW x, NEW i \in 1 .. Len(items'), items'[i] = x
        PROVE  Queued(x)
    <2>1. i + 1 \in 1 .. Len(items) /\ items[i + 1] = x
      BY <1>1, <1>2
    <2> QED BY <2>1 DEF Queued
  <1>3. ASSUME NEW x, NEW i \in 1 .. Len(items), items[i] = x, x # item
        PROVE  Queued(x)'
    <2>1. i - 1 \in 1 .. Len(items') /\ items'[i - 1] = x
      BY <1>1, <1>3
    <2> QED BY <2>1 DEF Queued
  <1>4. Queued(item)
    <2>1. 1 \in 1 .. Len(items) /\ items[1] = item
      BY <1>1
    <2> QED BY <2>1 DEF Queued
  <1>5. \A x : Queued(x)' => Queued(x)
    BY <1>2 DEF Queued
  <1>6. \A x : Queued(x) => Queued(x)' \/ x = item
    BY <1>3 DEF Queued
  <1> QED BY <1>4, <1>5, <1>6

-----------------------------------------------------------------------------
(* Order *)

\* A terminal item, or the response just read, at the end keeps the order.
LEMMA OfferKeepsOrder ==
    ASSUME TypeOK, InSequence, NEW item \in Items, offer(item), UNCHANGED progress,
           \/ ~IsResponse(item) /\ sent' = sent
           \/ item.seq = sent' /\ sent' = sent + 1
    PROVE  InSequence'
  <1>1. PICK d \in {0, 1} :
           /\ Len(items') = Len(items) + 1 - d
           /\ \A i \in 1 .. Len(items') - 1 : items'[i] = items[i + d]
    BY OfferFacts
  <1>2. /\ Len(items') \in Nat \ {0} /\ items'[Len(items')] = item /\ Len(items) \in Nat
        /\ sent \in Nat /\ sent' \in Nat /\ seen \in Nat /\ items \in Seq(Items)
    BY OfferFacts DEF TypeOK
  <1>3. seen' = seen /\ delivered' = delivered /\ count' = count
    BY DEF progress
  <1>4. \A i \in 1 .. Len(items') - 1 :
           i + d \in 1 .. Len(items) /\ items'[i] = items[i + d]
    BY <1>1, <1>2
  <1>5. \A i \in 1 .. Len(items') :
           IsResponse(items'[i]) => seen' < items'[i].seq /\ items'[i].seq <= sent'
    <2> SUFFICES ASSUME NEW i \in 1 .. Len(items'), IsResponse(items'[i])
                 PROVE  seen' < items'[i].seq /\ items'[i].seq <= sent'
      OBVIOUS
    <2>1. CASE i = Len(items')
      BY <1>2, <1>3, <2>1 DEF InSequence, TypeOK
    <2>2. CASE i # Len(items')
      <3>1. i \in 1 .. Len(items') - 1
        BY <1>2, <2>2
      <3>2. /\ i + d \in 1 .. Len(items) /\ items'[i] = items[i + d]
            /\ seen < items'[i].seq /\ items'[i].seq <= sent
        BY <1>4, <3>1 DEF InSequence
      <3>3. items'[i].seq \in Int
        BY <1>2, <3>2, ElementOfSeq DEF Items, Terminals, EndItem, ErrorItem
      <3> QED BY <1>2, <1>3, <3>2, <3>3
    <2> QED BY <2>1, <2>2
  <1>6. \A i, j \in 1 .. Len(items') :
           i < j /\ IsResponse(items'[i]) /\ IsResponse(items'[j])
               => items'[i].seq < items'[j].seq
    <2> SUFFICES ASSUME NEW i \in 1 .. Len(items'), NEW j \in 1 .. Len(items'), i < j,
                        IsResponse(items'[i]), IsResponse(items'[j])
                 PROVE  items'[i].seq < items'[j].seq
      OBVIOUS
    <2>1. i \in 1 .. Len(items') - 1 /\ items'[i] = items[i + d] /\ i + d \in 1 .. Len(items)
      BY <1>2, <1>4
    <2>2. CASE j = Len(items')
      <3>1. items'[i].seq <= sent /\ items'[j].seq = sent + 1
        BY <1>2, <2>1, <2>2 DEF InSequence
      <3>2. items'[i].seq \in Int
        BY <1>2, <2>1, ElementOfSeq DEF Items, Terminals, EndItem, ErrorItem
      <3> QED BY <1>2, <3>1, <3>2
    <2>3. CASE j # Len(items')
      <3>1. j \in 1 .. Len(items') - 1 /\ items'[j] = items[j + d] /\ j + d \in 1 .. Len(items)
        BY <1>2, <1>4, <2>3
      <3> QED BY <2>1, <3>1 DEF InSequence
    <2> QED BY <2>2, <2>3
  <1> QED BY <1>2, <1>3, <1>5, <1>6 DEF InSequence, TypeOK

\* What take() leaves is in order, and behind the response it took.
LEMMA TakeKeepsOrder ==
    ASSUME TypeOK, InSequence, NEW item, take(item), sent' = sent
    PROVE  /\ \A i \in 1 .. Len(items') :
                 IsResponse(items'[i]) =>
                     /\ seen < items'[i].seq /\ items'[i].seq <= sent'
                     /\ IsResponse(item) => item.seq < items'[i].seq
           /\ \A i, j \in 1 .. Len(items') :
                 i < j /\ IsResponse(items'[i]) /\ IsResponse(items'[j])
                     => items'[i].seq < items'[j].seq
           /\ IsResponse(item) => seen < item.seq /\ item.seq <= sent
  <1>1. /\ Len(items') = Len(items) - 1 /\ Len(items) \in Nat \ {0} /\ item = items[1]
        /\ \A i \in 1 .. Len(items') : items'[i] = items[i + 1]
    BY TakeFacts
  <1>2. /\ 1 \in 1 .. Len(items)
        /\ \A i \in 1 .. Len(items') : i + 1 \in 1 .. Len(items) /\ 1 < i + 1
    BY <1>1
  <1>3. \A i, j \in 1 .. Len(items') : i < j => i + 1 < j + 1
    BY <1>1
  <1> QED BY <1>1, <1>2, <1>3 DEF InSequence

-----------------------------------------------------------------------------
(* The steps *)

\* The pump and the two bodies of cancel(): an item is offered.
LEMMA PumpReadsStep == StreamInv /\ PumpReads => StreamInv'
  <1> SUFFICES ASSUME StreamInv, PumpReads PROVE StreamInv'
    OBVIOUS
  <1>1. PICK item \in Response(sent + 1) : offer(item)
    BY DEF PumpReads
  <1>2. /\ item \in Items /\ IsResponse(item) /\ item.seq = sent' /\ sent' = sent + 1
        /\ item # EndItem /\ item # ErrorItem /\ sent' \in 0 .. MaxSent
    BY StreamAssumption DEF PumpReads, Response, Items, IsResponse, EndItem, ErrorItem, StreamInv, TypeOK
  <1>3. TypeOK'
    BY <1>1, <1>2, OfferFacts DEF StreamInv, TypeOK, PumpReads, stopping, verdict, progress
  <1>4. BodyRunsOnce' /\ VerdictLatched'
    BY DEF StreamInv, BodyRunsOnce, VerdictLatched, PumpReads, stopping, verdict
  <1>5. Causes'
    BY <1>1, <1>2, OfferQueues
       DEF StreamInv, Causes, EndHasCause, ErrorHasCause, PumpReads, stopping, verdict
  <1>6. InSequence'
    BY <1>1, <1>2, OfferKeepsOrder DEF StreamInv, PumpReads
  <1>7. LossesCounted'
    <2>1. Len(items') + dropped' = Len(items) + dropped + 1
      BY <1>1, <1>2, OfferFacts DEF StreamInv
    <2>2. Len(items) \in Nat /\ Len(items') \in Nat /\ dropped \in Nat /\ dropped' \in Nat
      BY <1>3 DEF StreamInv, TypeOK
    <2> QED BY <1>1, <1>2, <2>1, <2>2 DEF StreamInv, TypeOK, LossesCounted, PumpReads, stopping
  <1>8. TerminalWaits'
    BY DEF StreamInv, TerminalWaits, PumpReads
  <1> QED BY <1>3, <1>4, <1>5, <1>6, <1>7, <1>8 DEF StreamInv

\* The pump's last step keeps the invariant.
LEMMA PumpFinishesStep == StreamInv /\ PumpFinishes => StreamInv'
  <1> SUFFICES ASSUME StreamInv, PumpFinishes PROVE StreamInv'
    OBVIOUS
  <1>1. PICK item : /\ offer(item) /\ item = Terminal(pump')
                    /\ pump' \in {"end", "error"} /\ pump = "reading"
    BY DEF PumpFinishes
  <1>2. /\ item \in Items /\ ~IsResponse(item) /\ EndItem # ErrorItem
        /\ item = IF pump' = "error" THEN ErrorItem ELSE EndItem
    BY <1>1 DEF Terminal, Terminals, Items, IsResponse, EndItem, ErrorItem
  <1>3. TypeOK'
    BY <1>1, <1>2, OfferFacts DEF StreamInv, TypeOK, PumpFinishes, stopping, verdict, progress
  <1>4. BodyRunsOnce' /\ VerdictLatched'
    BY DEF StreamInv, BodyRunsOnce, VerdictLatched, PumpFinishes, stopping, verdict
  <1>5. Causes'
    BY <1>1, <1>2, OfferQueues
       DEF StreamInv, Causes, EndHasCause, ErrorHasCause, PumpFinishes, stopping, verdict
  <1>6. InSequence'
    BY <1>1, <1>2, OfferKeepsOrder DEF StreamInv, PumpFinishes
  <1>7. LossesCounted'
    <2>1. Len(items') + dropped' = Len(items) + dropped + 1
      BY <1>1, <1>2, OfferFacts DEF StreamInv
    <2>2. Len(items) \in Nat /\ Len(items') \in Nat /\ dropped \in Nat /\ dropped' \in Nat
      BY <1>3 DEF StreamInv, TypeOK
    <2> QED BY <1>1, <1>2, <2>1, <2>2 DEF StreamInv, TypeOK, LossesCounted, PumpFinishes, stopping
  <1>8. TerminalWaits'
    <2>1. Queued(item)'
      BY <1>1, <1>2, OfferQueues DEF StreamInv
    <2>2. once = "fresh" /\ ended => outcome \in {"error", "limit", "closed"}
      BY <1>1 DEF StreamInv, TypeOK, VerdictLatched, Causes, EndHasCause
    <2> QED BY <1>1, <1>2, <2>1, <2>2 DEF TerminalWaits, PumpFinishes, stopping, verdict
  <1> QED BY <1>3, <1>4, <1>5, <1>6, <1>7, <1>8 DEF StreamInv

\* cancel()'s offer, on either thread.
LEMMA CancelOfferStep ==
    ASSUME StreamInv,
           CancelOffers \/ ConsumerOffers("close_offer", "idle")
               \/ ConsumerOffers("destroy_offer", "join")
    PROVE  StreamInv'
  <1>1. /\ offer(EndItem) /\ once = "running" /\ once' = "done"
        /\ UNCHANGED <<producer, verdict, progress, taken>>
    BY DEF CancelOffers, ConsumerOffers, StreamInv, BodyRunsOnce
  <1>2. /\ xpc' # "offer" /\ cpc' \notin {"close_offer", "destroy_offer"}
        /\ xpc' \in {"idle", "offer"} /\ cpc' \in ConsumerPCs
        /\ cpc' = "take" => cpc = "take"
    BY DEF CancelOffers, ConsumerOffers, StreamInv, BodyRunsOnce, TypeOK, ConsumerPCs
  <1>3. EndItem \in Items /\ ~IsResponse(EndItem) /\ EndItem # ErrorItem
    BY DEF Terminals, Items, IsResponse, EndItem, ErrorItem
  <1>4. TypeOK'
    BY <1>1, <1>2, <1>3, OfferFacts DEF StreamInv, TypeOK, producer, verdict, progress
  <1>5. BodyRunsOnce' /\ VerdictLatched'
    BY <1>1, <1>2 DEF StreamInv, BodyRunsOnce, VerdictLatched, verdict
  <1>6. Causes'
    BY <1>1, <1>3, OfferQueues
       DEF StreamInv, Causes, EndHasCause, ErrorHasCause, producer, verdict
  <1>7. InSequence'
    BY <1>1, <1>3, OfferKeepsOrder DEF StreamInv, producer
  <1>8. LossesCounted'
    <2>1. Len(items') + dropped' = Len(items) + dropped + 1
      BY <1>1, <1>3, OfferFacts DEF StreamInv
    <2>2. Len(items) \in Nat /\ Len(items') \in Nat /\ dropped \in Nat /\ dropped' \in Nat
      BY <1>4 DEF StreamInv, TypeOK
    <2> QED BY SMTT(30), <1>1, <2>1, <2>2 DEF StreamInv, TypeOK, LossesCounted, producer
  <1>9. TerminalWaits'
    BY <1>1, <1>3, OfferQueues DEF StreamInv, TerminalWaits, producer, verdict
  <1> QED BY <1>4, <1>5, <1>6, <1>7, <1>8, <1>9 DEF StreamInv

-----------------------------------------------------------------------------
(* next() takes an item *)

\* Whatever is taken, the thread of cancel() and the causes are as before,
\* and nothing terminal is lost but the item itself.
LEMMA TakenFacts ==
    ASSUME StreamInv, NEW item, take(item), UNCHANGED <<producer, stopping>>
    PROVE  /\ item \in Items /\ items' \in Seq(Items)
           /\ Capacity # 0 => Len(items') <= Capacity
           /\ dropped' \in Nat /\ taken' \in Nat
           /\ LossesCounted'
           /\ item = EndItem => EndHasCause
           /\ item = ErrorItem => ErrorHasCause
  <1>1. TypeOK /\ LossesCounted /\ Causes
    BY DEF StreamInv
  <1>2. /\ items' \in Seq(Items) /\ Len(items') = Len(items) - 1
        /\ Len(items) \in Nat \ {0} /\ item \in Items
        /\ dropped' = dropped /\ taken' = taken + 1 /\ Queued(item)
    BY <1>1, TakeFacts, TakeQueues
  <1>3. dropped' \in Nat /\ taken' \in Nat /\ (Capacity # 0 => Len(items') <= Capacity)
    BY <1>1, <1>2, StreamAssumption DEF TypeOK
  <1>4. LossesCounted'
    BY <1>1, <1>2 DEF LossesCounted, TypeOK, producer, stopping
  <1> QED BY <1>1, <1>2, <1>3, <1>4 DEF Causes

\* Taking a result keeps the invariant.
LEMMA TakesResultStep == StreamInv /\ TakesResult => StreamInv'
  <1> SUFFICES ASSUME StreamInv, TakesResult PROVE StreamInv'
    OBVIOUS
  <1>1. PICK item \in Items : take(item) /\ item.kind = "ok" /\ seen' = item.seq /\ delivered' = item.seq
    BY DEF TakesResult
  <1>2. /\ IsResponse(item) /\ item.seq \in Nat /\ count' = 0 /\ cpc' = "idle"
        /\ item # EndItem /\ item # ErrorItem /\ cpc = "take" /\ TypeOK
    BY <1>1, StreamAssumption
       DEF TakesResult, note_success, IsResponse, Items, Terminals, EndItem, ErrorItem, StreamInv
  <1>3. TypeOK' /\ LossesCounted'
    BY <1>1, <1>2, TakenFacts
       DEF StreamInv, TypeOK, TakesResult, producer, stopping, verdict, ConsumerPCs
  <1>4. BodyRunsOnce' /\ VerdictLatched'
    BY <1>2 DEF StreamInv, BodyRunsOnce, VerdictLatched, TakesResult, stopping, verdict
  <1>5. Causes'
    BY <1>1, <1>2, TakeQueues
       DEF StreamInv, Causes, EndHasCause, ErrorHasCause, TakesResult, producer, stopping, verdict
  <1>6. InSequence'
    <2>1. InSequence /\ sent' = sent /\ delivered' + count' = seen'
      BY <1>1, <1>2 DEF StreamInv, TakesResult, producer
    <2> QED BY <1>1, <1>2, <2>1, TakeKeepsOrder DEF InSequence
  <1>7. TerminalWaits'
    BY <1>1, <1>2, TakeQueues
       DEF StreamInv, TerminalWaits, TakesResult, producer, stopping, verdict
  <1> QED BY <1>3, <1>4, <1>5, <1>6, <1>7 DEF StreamInv

\* Taking a failure keeps the invariant.
LEMMA TakesFailureStep == StreamInv /\ TakesFailure => StreamInv'
  <1> SUFFICES ASSUME StreamInv, TakesFailure PROVE StreamInv'
    OBVIOUS
  <1>1. PICK item \in Items : take(item) /\ item.kind = "failed" /\ seen' = item.seq
    BY DEF TakesFailure
  <1>2. /\ IsResponse(item) /\ item.seq \in Nat /\ TypeOK
        /\ item # EndItem /\ item # ErrorItem /\ cpc = "take"
    BY <1>1, StreamAssumption
       DEF TakesFailure, IsResponse, Items, Terminals, EndItem, ErrorItem, StreamInv
  <1>3. /\ count' \in {count, count + 1} /\ delivered' = delivered
        /\ \/ ended' = TRUE /\ outcome' = "limit" /\ cpc' = "idle"
           \/ UNCHANGED <<cpc, verdict>>
    BY DEF TakesFailure, Latch
  <1>4. TypeOK' /\ LossesCounted'
    <2>1. /\ items' \in Seq(Items) /\ dropped' \in Nat /\ taken' \in Nat
          /\ Capacity # 0 => Len(items') <= Capacity
          /\ LossesCounted'
      BY <1>1, TakenFacts DEF TakesFailure
    <2>2. /\ count' \in Nat /\ seen' \in Nat /\ delivered' \in Nat
          /\ cpc' \in ConsumerPCs
          /\ outcome' \in {"none", "end", "error", "limit", "closed"}
      BY <1>1, <1>2, <1>3 DEF TypeOK, verdict, ConsumerPCs
    <2>3. ended' \in BOOLEAN
      BY <1>2, <1>3 DEF TypeOK, verdict
    <2> QED BY <1>2, <2>1, <2>2, <2>3 DEF TypeOK, TakesFailure, producer, stopping
  <1>5. BodyRunsOnce' /\ VerdictLatched'
    BY <1>2, <1>3 DEF StreamInv, BodyRunsOnce, VerdictLatched, TakesFailure, stopping, verdict
  <1>6. Causes'
    BY <1>1, <1>2, <1>3, TakeQueues
       DEF StreamInv, Causes, EndHasCause, ErrorHasCause, TakesFailure, producer, stopping, verdict
  <1>7. InSequence'
    <2>1. InSequence /\ sent' = sent
      BY DEF StreamInv, TakesFailure, producer
    <2>2. seen < item.seq /\ item.seq <= sent
      BY <1>1, <1>2, <2>1, TakeKeepsOrder
    <2>3. delivered' + count' <= seen' /\ seen' <= sent'
      BY <1>1, <1>2, <1>3, <2>1, <2>2 DEF InSequence, TypeOK
    <2> QED BY <1>1, <1>2, <2>1, <2>3, TakeKeepsOrder DEF InSequence
  <1>8. TerminalWaits'
    BY <1>1, <1>2, <1>3, TakeQueues
       DEF StreamInv, TerminalWaits, VerdictLatched, TakesFailure, producer, stopping, verdict
  <1> QED BY <1>4, <1>5, <1>6, <1>7, <1>8 DEF StreamInv

\* Taking the terminal entry keeps the invariant.
LEMMA TakesTerminalStep == StreamInv /\ TakesTerminal => StreamInv'
  <1> SUFFICES ASSUME StreamInv, TakesTerminal PROVE StreamInv'
    OBVIOUS
  <1>1. PICK item \in Terminals : take(item) /\ Latch(item.kind)
    BY DEF TakesTerminal
  <1>2. /\ ~IsResponse(item) /\ TypeOK /\ ended' = TRUE /\ cpc' = "idle" /\ outcome' = item.kind
        /\ \/ item = EndItem /\ item.kind = "end"
           \/ item = ErrorItem /\ item.kind = "error"
    BY <1>1 DEF Latch, IsResponse, Terminals, EndItem, ErrorItem, StreamInv
  <1>3. TypeOK' /\ LossesCounted'
    BY <1>1, <1>2, TakenFacts
       DEF StreamInv, TypeOK, TakesTerminal, producer, stopping, progress, ConsumerPCs
  <1>4. BodyRunsOnce' /\ VerdictLatched'
    BY <1>2 DEF StreamInv, BodyRunsOnce, VerdictLatched, TakesTerminal, stopping
  <1>5. Causes'
    <2>1. outcome' = "end" => EndHasCause'
      BY <1>1, <1>2, TakenFacts DEF EndHasCause, TakesTerminal, producer, stopping
    <2>2. outcome' = "error" => ErrorHasCause'
      BY <1>1, <1>2, TakenFacts DEF ErrorHasCause, TakesTerminal, producer, stopping
    <2> QED BY <1>1, <1>2, <2>1, <2>2, TakeQueues
         DEF StreamInv, Causes, EndHasCause, ErrorHasCause, TakesTerminal, producer, stopping
  <1>6. InSequence'
    <2>1. InSequence /\ sent' = sent /\ seen' = seen /\ delivered' = delivered /\ count' = count
      BY DEF StreamInv, TakesTerminal, producer, progress
    <2> QED BY <1>1, <1>2, <2>1, TakeKeepsOrder DEF InSequence
  <1>7. TerminalWaits'
    <2>1. pump = "error" /\ once = "fresh" => outcome' = "error"
      BY <1>1, <1>2, TakenFacts, StreamAssumption DEF EndHasCause, TakesTerminal, producer, stopping
    <2> QED BY <1>2, <2>1 DEF TerminalWaits, TakesTerminal, producer, stopping
  <1> QED BY <1>3, <1>4, <1>5, <1>6, <1>7 DEF StreamInv

-----------------------------------------------------------------------------
(* The steps that leave the queue and the pump alone *)

\* A step of the consumer, or of the thread that cancels, that moves no item.
LEMMA QuietStep ==
    ASSUME StreamInv, TypeOK', BodyRunsOnce', VerdictLatched',
           UNCHANGED <<queue, producer, progress, taken>>,
           once' = once \/ (once = "fresh" /\ once' = "running"),
           \/ UNCHANGED verdict
           \/ ended' = TRUE /\ outcome' = IF ended THEN outcome ELSE "closed"
    PROVE  StreamInv'
  <1>1. Causes' /\ TerminalWaits'
    BY DEF StreamInv, VerdictLatched, Causes, EndHasCause, ErrorHasCause, TerminalWaits, Queued, queue, producer,
           verdict
  <1>2. InSequence'
    BY DEF StreamInv, InSequence, queue, producer, progress
  <1>3. LossesCounted'
    BY DEF StreamInv, LossesCounted, queue, producer
  <1> QED BY <1>1, <1>2, <1>3 DEF StreamInv

\* Every step keeps the inductive invariant.
LEMMA StreamStep == StreamInv /\ [Next]_vars => StreamInv'
  <1> SUFFICES ASSUME StreamInv, [Next]_vars PROVE StreamInv'
    OBVIOUS
  <1> USE DEF StreamInv, TypeOK, BodyRunsOnce, VerdictLatched, ConsumerPCs,
              queue, producer, stopping, verdict, progress
  <1>1. CASE CancelBegins
    BY <1>1, QuietStep DEF CancelBegins
  <1>2. CASE CloseCancels
    BY <1>2, QuietStep DEF CloseCancels, ConsumerCancels
  <1>3. CASE DestroyCancels
    BY <1>3, QuietStep DEF DestroyCancels, ConsumerCancels
  <1>4. CASE NextBegins
    BY <1>4, QuietStep DEF NextBegins
  <1>5. CASE CloseBegins
    BY <1>5, QuietStep DEF CloseBegins
  <1>6. CASE DestroyBegins
    BY <1>6, QuietStep DEF DestroyBegins
  <1>7. CASE PumpJoined
    BY <1>7, QuietStep DEF PumpJoined
  <1>8. CASE UNCHANGED vars
    <2>1. TypeOK' /\ BodyRunsOnce' /\ VerdictLatched'
      BY <1>8 DEF vars
    <2> QED BY <1>8, <2>1, QuietStep DEF vars
  <1> QED
    BY <1>1, <1>2, <1>3, <1>4, <1>5, <1>6, <1>7, <1>8, PumpReadsStep, PumpFinishesStep,
       CancelOfferStep, TakesResultStep, TakesFailureStep, TakesTerminalStep
       DEF Next, Consumer, CancelBody, Gone

\* The inductive invariant, for every queue depth.
LEMMA StreamInvariant == Spec => []StreamInv
  <1>1. Init => StreamInv
    <2> SUFFICES ASSUME Init PROVE StreamInv
      OBVIOUS
    <2>0. items \in Seq(Items) /\ Len(items) = 0
      BY EmptySeq DEF Init
    <2>1. TypeOK
      <3>1. Capacity # 0 => Len(items) <= Capacity
        BY <2>0, StreamAssumption
      <3>2. sent \in 0 .. MaxSent
        BY StreamAssumption DEF Init
      <3>3. ended \in BOOLEAN
        BY DEF Init
      <3> QED BY <2>0, <3>1, <3>2, <3>3 DEF Init, TypeOK, ConsumerPCs
    <2>2. BodyRunsOnce /\ VerdictLatched /\ TerminalWaits
      BY DEF Init, BodyRunsOnce, VerdictLatched, TerminalWaits
    <2>3. Causes /\ InSequence
      BY <2>0 DEF Init, Causes, InSequence, Queued
    <2>4. LossesCounted
      BY <2>0 DEF Init, LossesCounted
    <2> QED BY <2>1, <2>2, <2>3, <2>4 DEF StreamInv
  <1> QED BY <1>1, StreamStep, PTL DEF Spec

\* Every variable has its type, a bounded queue stays within its size, and a
\* consumer that has not seen the end will meet a terminal item, whatever
\* drop-oldest has evicted and whoever cancelled (subscribe_health.hpp:35).
THEOREM TerminalNeverShed == Spec => []StreamSound
  <1>1. StreamInv => StreamSound
    BY DEF StreamInv, StreamSound
  <1> QED BY <1>1, StreamInvariant, PTL

\* dropped() accounts for every item that was offered and neither taken nor
\* is still queued.
THEOREM EveryLossCounted == Spec => []LossesCounted
  <1>1. StreamInv => LossesCounted
    BY DEF StreamInv
  <1> QED BY <1>1, StreamInvariant, PTL

\* The first verdict stands: after it next() returns nothing and raises nothing.
THEOREM FirstVerdictStands == Spec => VerdictFinal
  <1>1. StreamInv /\ [Next]_vars => [ended => UNCHANGED <<ended, outcome, delivered, count>>]_vars
    <2> SUFFICES ASSUME StreamInv, Next, ended
                 PROVE  UNCHANGED <<ended, outcome, delivered, count>>
      OBVIOUS
    <2>1. cpc # "take"
      BY DEF StreamInv, VerdictLatched
    <2> QED
      BY <2>1 DEF Next, Consumer, CancelBody, PumpReads, PumpFinishes, CancelBegins, CancelOffers,
             NextBegins, TakesResult, TakesFailure, TakesTerminal, CloseBegins, CloseCancels,
             DestroyBegins, DestroyCancels, ConsumerCancels, ConsumerOffers, PumpJoined, Gone,
             vars, verdict, progress, StreamInv, TypeOK
  <1> QED BY <1>1, StreamInvariant, PTL DEF VerdictFinal, Spec

-----------------------------------------------------------------------------
(* The refinement: each step is one of ResultStream's, or none *)

\* Each step of the pump and of a canceller is one of the promise's, or none.
LEMMA PumpKeepsPromise ==
    ASSUME StreamInv, PumpReads \/ PumpFinishes \/ CancelBegins \/ CancelOffers
    PROVE  [Promise!Next]_(Promise!vars)
  <1> USE DEF Promise!Next, Promise!vars
  <1>1. CASE PumpReads
    BY <1>1 DEF PumpReads, Promise!Send, stopping, verdict, progress
  <1>2. CASE PumpFinishes
    BY <1>2 DEF PumpFinishes, Promise!Finish, stopping, verdict, progress
  <1>3. CASE CancelBegins
    BY <1>3 DEF CancelBegins, Promise!Cancel, producer, verdict, progress
  <1>4. CASE CancelOffers
    BY <1>4 DEF CancelOffers, producer, verdict, progress, StreamInv, BodyRunsOnce
  <1> QED BY <1>1, <1>2, <1>3, <1>4

\* A result is newer than the last one and was sent.
LEMMA ResultKeepsPromise ==
    ASSUME StreamInv, TakesResult
    PROVE  Promise!Deliver
  <1>1. PICK item \in Items : take(item) /\ item.kind = "ok" /\ delivered' = item.seq
    BY DEF TakesResult
  <1>2. item.seq \in Nat /\ IsResponse(item) /\ TypeOK /\ InSequence /\ ~ended
    BY <1>1, StreamAssumption
       DEF Items, Terminals, EndItem, ErrorItem, IsResponse, StreamInv, VerdictLatched, TakesResult
  <1>3. seen < item.seq /\ item.seq <= sent
    BY <1>1, <1>2, TakeKeepsOrder DEF TakesResult, producer
  <1>4. delivered' \in (delivered + 1) .. sent
    BY <1>1, <1>2, <1>3 DEF InSequence, TypeOK
  <1> QED BY <1>2, <1>4 DEF Promise!Deliver, TakesResult, producer, stopping, verdict

\* The limit trips only after that many responses beyond the last result.
LEMMA FailureKeepsPromise ==
    ASSUME StreamInv, TakesFailure
    PROVE  [Promise!Raise]_(Promise!vars)
  <1>1. PICK item \in Items : take(item) /\ item.kind = "failed"
    BY DEF TakesFailure
  <1>2. item.seq \in Nat /\ IsResponse(item) /\ TypeOK /\ InSequence /\ ~ended /\ outcome = "none"
    BY <1>1, StreamAssumption
       DEF Items, Terminals, EndItem, ErrorItem, IsResponse, StreamInv, VerdictLatched, TakesFailure
  <1>3. seen < item.seq /\ item.seq <= sent
    BY <1>1, <1>2, TakeKeepsOrder DEF TakesFailure, producer
  <1>4. CASE Trips(count + 1) /\ Latch("limit")
    <2>1. MaxFailures # 0 /\ delivered + MaxFailures <= sent
      BY <1>2, <1>3, <1>4, StreamAssumption DEF Trips, InSequence, TypeOK
    <2> QED
      BY <1>2, <1>4, <2>1
         DEF Promise!Raise, Promise!LimitReached, Latch, TakesFailure, producer, stopping
  <1>5. CASE UNCHANGED <<cpc, verdict>>
    BY <1>5 DEF Promise!vars, TakesFailure, producer, stopping, verdict
  <1> QED BY <1>4, <1>5 DEF TakesFailure

\* A terminal item has its cause.
LEMMA TerminalKeepsPromise ==
    ASSUME StreamInv, TakesTerminal
    PROVE  Promise!End \/ Promise!Raise
  <1>1. PICK item \in Terminals : take(item) /\ Latch(item.kind)
    BY DEF TakesTerminal
  <1>2. /\ ~ended /\ outcome = "none" /\ ended' = TRUE /\ outcome' = item.kind
        /\ UNCHANGED <<producer, stopping, progress>>
    BY <1>1 DEF Latch, StreamInv, VerdictLatched, TakesTerminal
  <1>3. CASE item = EndItem
    <2>1. pump = "end" \/ once # "fresh"
      BY <1>1, <1>2, <1>3, TakenFacts DEF EndHasCause
    <2> QED BY <1>2, <1>3, <2>1 DEF Promise!End, EndItem, producer, stopping, progress
  <1>4. CASE item = ErrorItem
    <2>1. pump = "error"
      BY <1>1, <1>2, <1>4, TakenFacts DEF ErrorHasCause
    <2> QED BY <1>2, <1>4, <2>1 DEF Promise!Raise, ErrorItem, producer, stopping, progress
  <1> QED BY <1>1, <1>3, <1>4 DEF Terminals

\* close() walks away; the rest of the consumer's steps change nothing that is
\* promised, or cancel.
LEMMA ConsumerKeepsPromise ==
    ASSUME StreamInv, Consumer
    PROVE  [Promise!Next]_(Promise!vars)
  <1> USE DEF Promise!Next, Promise!vars, producer, stopping, verdict, progress
  <1>1. CASE NextBegins \/ DestroyBegins \/ PumpJoined
    BY <1>1 DEF NextBegins, DestroyBegins, PumpJoined
  <1>2. CASE CloseBegins
    <2>1. CASE ended
      BY <1>2, <2>1 DEF CloseBegins
    <2>2. CASE ~ended
      BY <1>2, <2>2 DEF CloseBegins, Promise!Close
    <2> QED BY <2>1, <2>2
  <1>3. CASE CloseCancels \/ DestroyCancels
    BY <1>3 DEF CloseCancels, DestroyCancels, ConsumerCancels, Promise!Cancel
  <1>4. CASE CancelBody
    BY <1>4 DEF CancelBody, ConsumerOffers, StreamInv, BodyRunsOnce
  <1> QED
    BY <1>1, <1>2, <1>3, <1>4, ResultKeepsPromise, FailureKeepsPromise, TerminalKeepsPromise
       DEF Consumer

\* The pump, the queue and the once-flag together keep ResultStream's promise:
\* results in the order of the frames, one verdict, and none without its cause.
THEOREM StreamKeepsPromise == Spec => KeepsPromise
  <1>1. Init => Promise!Init
    BY DEF Init, Promise!Init
  <1>2. StreamInv /\ [Next]_vars => [Promise!Next]_(Promise!vars)
    <2>1. ASSUME StreamInv, Gone \/ UNCHANGED vars PROVE UNCHANGED Promise!vars
      BY <2>1 DEF Gone, vars, Promise!vars, producer, stopping, verdict, progress
    <2> QED BY <2>1, PumpKeepsPromise, ConsumerKeepsPromise DEF Next
  <1> QED BY <1>1, <1>2, StreamInvariant, PTL DEF Spec, KeepsPromise, Promise!Spec
=============================================================================
