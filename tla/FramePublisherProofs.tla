------------------------ MODULE FramePublisherProofs ------------------------
(***************************************************************************)
(* Machine-checked proofs about FramePublisher for every pool depth, batch *)
(* size and number of writes, every set of RPC outcomes and either kind of *)
(* daemon: the slots' safety, and that no slot is rewritten under the      *)
(* daemon while the lease is current.                                      *)
(***************************************************************************)
EXTENDS FramePublisher, SequenceTheorems, TLAPS

\* TypeOK, one conjunct a variable.
Types ==
    /\ pc \in {"idle", "acquire", "convert", "push", "build", "stream", "gone", "crashed"}
    /\ op \in {"none", "publish", "rgb", "batch"}
    /\ slot \in Buffers /\ cursor \in Pool
    /\ in_flight \subseteq Buffers /\ baking \subseteq Buffers
    /\ specs \in Seq(Requests) /\ Len(specs) <= MaxBatch
    /\ dqueue \in Seq(Buffers) /\ Len(dqueue) <= QueueCap
    /\ lease \in BOOLEAN /\ with_eos \in BOOLEAN /\ rgb_pool \in BOOLEAN
    /\ nv12_stage \in BOOLEAN /\ published_any \in BOOLEAN /\ eos_sent \in BOOLEAN
    /\ closed \in BOOLEAN /\ stale \in BOOLEAN
    /\ pixels \in [Buffers -> 0 .. MaxWrites] /\ writes \in 0 .. MaxWrites

\* Which call is where, and what it has left to do.
Flow ==
    /\ pc = "idle" => op = "none"
    /\ pc = "convert" => op = "rgb"
    /\ pc = "push" => op \in {"publish", "rgb"}
    /\ pc \in {"build", "stream"} => op = "batch"
    /\ op # "batch" => specs = <<>>
    /\ pc \in {"acquire", "convert"} => writes < MaxWrites
    /\ pc = "acquire" /\ op = "batch" => Len(specs) < MaxBatch

\* The stage of publish_rgb exists only after its first pool, and only a
\* publisher that has them ever pushes it.
StageOwned ==
    /\ nv12_stage => rgb_pool
    /\ pc = "push" /\ slot = StageId => rgb_pool
    /\ StageId \in DaemonHolds => rgb_pool \/ closed

\* A current lease covers what the daemon reads and what the batch will send,
\* which is intact.
Covered ==
    lease /\ ~stale =>
        DaemonHolds \subseteq in_flight /\ Unsent \subseteq in_flight /\ Intact

\* While a batch is built the daemon is sent nothing.  So if the daemon still
\* holds every id of the batch, no refresh has ever taken a mark away, and
\* a refresh that makes the lease current again finds the batch intact.
Marks ==
    lease /\ pc \in {"acquire", "build"} /\ Unsent \subseteq DaemonHolds =>
        Unsent \subseteq in_flight /\ Intact

\* publish_rgb writes into its stage only when the daemon has it no more.
StageFree == pc = "convert" /\ lease /\ ~stale => StageId \notin DaemonHolds

\* The inductive invariant.
PublisherInv == Types /\ Flow /\ StageOwned /\ Covered /\ Marks /\ StageFree

-----------------------------------------------------------------------------
(* Sequences as the sets of their elements *)

\* The empty list has no elements.
LEMMA EmptyElements == Elements(<<>>) = {}
  BY DEF Elements

\* What Append adds to the elements.
LEMMA ElementsOfAppend ==
    ASSUME NEW S, NEW s \in Seq(S), NEW e \in S
    PROVE  /\ Append(s, e) \in Seq(S) /\ Len(Append(s, e)) = Len(s) + 1
           /\ Elements(Append(s, e)) = Elements(s) \cup {e}
  <1>1. /\ Append(s, e) \in Seq(S) /\ Len(Append(s, e)) = Len(s) + 1 /\ Len(s) \in Nat
        /\ \A i \in 1 .. Len(s) : Append(s, e)[i] = s[i]
        /\ Append(s, e)[Len(s) + 1] = e
    BY AppendProperties, LenProperties
  <1>2. ASSUME NEW x \in Elements(Append(s, e))
        PROVE  x \in Elements(s) \cup {e}
    <2>1. PICK i \in 1 .. Len(s) + 1 : x = Append(s, e)[i]
      BY <1>1, <1>2 DEF Elements
    <2>2. i = Len(s) + 1 \/ i \in 1 .. Len(s)
      BY <1>1
    <2> QED BY <1>1, <2>1, <2>2 DEF Elements
  <1>3. ASSUME NEW x \in Elements(s) \cup {e}
        PROVE  x \in Elements(Append(s, e))
    <2>1. CASE x = e
      <3>1. Len(s) + 1 \in 1 .. Len(Append(s, e))
        BY <1>1
      <3> QED BY <1>1, <2>1, <3>1 DEF Elements
    <2>2. CASE x \in Elements(s)
      <3>1. PICK i \in 1 .. Len(s) : x = s[i]
        BY <2>2 DEF Elements
      <3>2. i \in 1 .. Len(Append(s, e)) /\ Append(s, e)[i] = x
        BY <1>1, <3>1
      <3> QED BY <3>2 DEF Elements
    <2> QED BY <1>3, <2>1, <2>2
  <1> QED BY <1>1, <1>2, <1>3

\* What Tail takes from the elements.
LEMMA ElementsOfTail ==
    ASSUME NEW S, NEW s \in Seq(S), s # <<>>
    PROVE  /\ Head(s) \in S /\ Tail(s) \in Seq(S) /\ Len(Tail(s)) = Len(s) - 1
           /\ Elements(s) = Elements(Tail(s)) \cup {Head(s)}
  <1>1. /\ Head(s) \in S /\ Tail(s) \in Seq(S) /\ Len(Tail(s)) = Len(s) - 1
        /\ Len(s) \in Nat \ {0} /\ Head(s) = s[1]
        /\ \A i \in 1 .. Len(Tail(s)) : Tail(s)[i] = s[i + 1]
    BY HeadTailProperties, EmptySeq, LenProperties
  <1>2. ASSUME NEW x \in Elements(s)
        PROVE  x \in Elements(Tail(s)) \cup {Head(s)}
    <2>1. PICK i \in 1 .. Len(s) : x = s[i]
      BY <1>2 DEF Elements
    <2>2. CASE i = 1
      BY <1>1, <2>1, <2>2
    <2>3. CASE i # 1
      <3>1. i - 1 \in 1 .. Len(Tail(s)) /\ Tail(s)[i - 1] = x
        BY <1>1, <2>1, <2>3
      <3> QED BY <3>1 DEF Elements
    <2> QED BY <2>2, <2>3
  <1>3. ASSUME NEW x \in Elements(Tail(s)) \cup {Head(s)}
        PROVE  x \in Elements(s)
    <2>1. CASE x = Head(s)
      <3>1. 1 \in 1 .. Len(s) /\ s[1] = x
        BY <1>1, <2>1
      <3> QED BY <3>1 DEF Elements
    <2>2. CASE x \in Elements(Tail(s))
      <3>1. PICK i \in 1 .. Len(Tail(s)) : x = Tail(s)[i]
        BY <2>2 DEF Elements
      <3>2. i + 1 \in 1 .. Len(s) /\ s[i + 1] = x
        BY <1>1, <3>1
      <3> QED BY <3>2 DEF Elements
    <2> QED BY <1>3, <2>1, <2>2
  <1> QED BY <1>1, <1>2, <1>3

\* A push to the daemon adds its id and may drop the oldest.
LEMMA QueuedFacts ==
    ASSUME Types, NEW id \in Buffers
    PROVE  /\ Queued(id) \in Seq(Buffers) /\ Len(Queued(id)) <= QueueCap
           /\ Elements(Queued(id)) \subseteq Elements(dqueue) \cup {id}
  <1>1. dqueue \in Seq(Buffers) /\ Len(dqueue) \in Nat /\ Len(dqueue) <= 3
    BY DEF Types, QueueCap
  <1>2. CASE Len(dqueue) >= QueueCap
    <2>1. dqueue # <<>>
      BY <1>1, <1>2 DEF QueueCap
    <2> DEFINE rest == Tail(dqueue)
    <2>2. /\ rest \in Seq(Buffers) /\ Len(rest) = Len(dqueue) - 1
          /\ Elements(rest) \subseteq Elements(dqueue)
      BY <1>1, <2>1, ElementsOfTail
    <2>3. Queued(id) = Append(rest, id)
      BY <1>2 DEF Queued
    <2> HIDE DEF rest
    <2>4. /\ Append(rest, id) \in Seq(Buffers) /\ Len(Append(rest, id)) = Len(rest) + 1
          /\ Elements(Append(rest, id)) = Elements(rest) \cup {id}
      BY <2>2, ElementsOfAppend
    <2>5. Len(Append(rest, id)) <= 3
      BY <1>1, <2>2, <2>4
    <2> QED BY <2>2, <2>3, <2>4, <2>5 DEF QueueCap
  <1>3. CASE ~(Len(dqueue) >= QueueCap)
    <2>1. Queued(id) = Append(dqueue, id)
      BY <1>3 DEF Queued
    <2>2. /\ Queued(id) \in Seq(Buffers) /\ Len(Queued(id)) = Len(dqueue) + 1
          /\ Elements(Queued(id)) = Elements(dqueue) \cup {id}
      BY <1>1, <2>1, ElementsOfAppend
    <2> QED BY <1>1, <1>3, <2>2 DEF QueueCap
  <1> QED BY <1>2, <1>3

-----------------------------------------------------------------------------
(* Types *)

\* The pool's slots and the stage are distinct buffers.
LEMMA PoolFacts ==
    /\ Pool \subseteq Buffers /\ StageId \in Buffers /\ StageId \notin Pool /\ 0 \in Pool
    /\ \A s \in Pool : CursorAfter(s) \in Pool
  BY PublisherAssumption DEF Pool, Buffers, StageId, CursorAfter

\* What the daemon holds, and what a batch has yet to send, are buffers.
LEMMA DaemonFacts ==
    ASSUME Types
    PROVE  /\ DaemonHolds \subseteq Buffers
           /\ Unsent \subseteq Pool
           /\ \A s : s \in Unsent <=> \E spec \in Elements(specs) : spec.id = s
           /\ \A spec \in Elements(specs) : spec \in Requests
  <1>1. Elements(dqueue) \subseteq Buffers
    BY DEF Types, Elements
  <1>2. \A spec \in Elements(specs) : spec \in Requests
    BY DEF Types, Elements
  <1> QED BY <1>1, <1>2 DEF Types, DaemonHolds, Unsent, Requests

\* What is written, and where.
LEMMA WriteFacts ==
    ASSUME Types, NEW s \in Buffers, Write(s), writes < MaxWrites
    PROVE  /\ writes' = writes + 1 /\ writes' \in 1 .. MaxWrites
           /\ pixels' \in [Buffers -> 0 .. MaxWrites] /\ pixels'[s] = writes + 1
           /\ \A b \in Buffers : b # s => pixels'[b] = pixels[b]
  BY PublisherAssumption DEF Types, Write

\* Every action keeps the types.
LEMMA TypesStep ==
    ASSUME Types, Flow, [Next]_vars
    PROVE  Types'
  <1> USE DEF batch, staging, session, memory, daemon
  <1>1. CASE AcquirePool
    <2>1. PICK s \in Pool : PickedSlot(s) /\ cursor' = CursorAfter(s) /\ Write(s) /\ slot' = s
      BY <1>1 DEF AcquirePool
    <2>2. writes' \in 1 .. MaxWrites /\ pixels' \in [Buffers -> 0 .. MaxWrites]
      BY <1>1, <2>1, PoolFacts, WriteFacts DEF AcquirePool, Flow
    <2>3. cursor' \in Pool /\ slot' \in Buffers
      BY <2>1, PoolFacts
    <2> QED BY <1>1, <2>2, <2>3 DEF Types, AcquirePool
  <1>2. CASE AcquireForBatch
    <2>1. PICK s \in Pool :
             /\ cursor' = CursorAfter(s) /\ Write(s) /\ slot' = s
             /\ in_flight' = Marked(s)
             /\ specs' = Append(specs, [id |-> s, pixels |-> writes + 1])
      BY <1>2 DEF AcquireForBatch
    <2>2. /\ writes' \in 1 .. MaxWrites /\ writes' = writes + 1
          /\ pixels' \in [Buffers -> 0 .. MaxWrites]
      BY <1>2, <2>1, PoolFacts, WriteFacts DEF AcquireForBatch, Flow
    <2>3. cursor' \in Pool /\ slot' \in Buffers /\ in_flight' \subseteq Buffers
      BY <2>1, PoolFacts DEF Marked, Types
    <2>4. specs' \in Seq(Requests) /\ Len(specs') <= MaxBatch
      <3>1. [id |-> s, pixels |-> writes + 1] \in Requests /\ specs \in Seq(Requests)
        BY <2>2 DEF Requests, Types
      <3>2. specs' \in Seq(Requests) /\ Len(specs') = Len(specs) + 1 /\ Len(specs) \in Nat
        BY <2>1, <3>1, ElementsOfAppend, LenProperties
      <3> QED BY <1>2, <3>2, PublisherAssumption DEF AcquireForBatch, Flow
    <2> QED BY <1>2, <2>2, <2>3, <2>4 DEF Types, AcquireForBatch
  <1>3. CASE AcquireStage \/ NullStage
    BY <1>3, PoolFacts DEF Types, AcquireStage, NullStage
  <1>4. CASE Refresh
    BY <1>4, DaemonFacts DEF Types, Refresh, Snapshot
  <1>5. ASSUME Returns
        PROVE  /\ pc' = "idle" /\ op' = "none" /\ specs' = <<>> /\ with_eos' = FALSE
               /\ specs' \in Seq(Requests) /\ Len(specs') <= MaxBatch
    BY <1>5, PublisherAssumption DEF Returns
  <1>6. CASE AcquireThrows \/ StreamFails
    BY <1>5, <1>6 DEF Types, AcquireThrows, StreamFails
  <1>7. CASE Push
    <2>1. dqueue' \in Seq(Buffers) /\ Len(dqueue') <= QueueCap /\ baking' = baking
      BY <1>7, QueuedFacts DEF Push, Types
    <2>2. in_flight' \subseteq Buffers
      <3>1. DaemonHolds' \subseteq Buffers
        BY <2>1 DEF DaemonHolds, Elements, Types
      <3> QED BY <1>7, <3>1 DEF Push, Absorbed, Types
    <2> QED BY <1>5, <1>7, <2>1, <2>2 DEF Types, Push
  <1>8. CASE PublishBegins \/ RgbBegins \/ RgbAllocFails \/ BatchBegins \/ NextFrame
    <2>1. /\ pc' \in {"idle", "acquire", "convert", "build"}
          /\ op' \in {"none", "publish", "rgb", "batch"}
      BY <1>8 DEF Types, PublishBegins, RgbBegins, RgbAllocFails, BatchBegins, NextFrame,
                  CallBegins
    <2>2. rgb_pool' \in BOOLEAN /\ nv12_stage' \in BOOLEAN
      BY <1>8 DEF Types, PublishBegins, RgbBegins, RgbAllocFails, BatchBegins, NextFrame
    <2> QED
      BY <1>8, <2>1, <2>2
         DEF Types, PublishBegins, RgbBegins, RgbAllocFails, BatchBegins, NextFrame
  <1>9. CASE Convert
    <2>1. CASE Write(StageId) /\ slot' = StageId /\ published_any' = TRUE /\ pc' = "push"
               /\ UNCHANGED <<op, batch>>
      <3>1. writes' \in 1 .. MaxWrites /\ pixels' \in [Buffers -> 0 .. MaxWrites]
        BY <1>9, <2>1, PoolFacts, WriteFacts DEF Convert, Flow
      <3> QED BY <1>9, <2>1, <3>1, PoolFacts DEF Types, Convert
    <2>2. CASE Returns /\ UNCHANGED <<slot, memory, published_any>>
      BY <1>5, <1>9, <2>2 DEF Types, Convert
    <2> QED BY <1>9, <2>1, <2>2 DEF Convert
  <1>10. CASE BatchBuilt
    <2>1. published_any' \in BOOLEAN /\ eos_sent' \in BOOLEAN /\ with_eos' \in BOOLEAN
      BY <1>10 DEF BatchBuilt, Types
    <2> QED BY <1>10, <2>1 DEF Types, BatchBuilt
  <1>11. CASE StreamSends
    <2>1. /\ Head(specs) \in Requests /\ specs' \in Seq(Requests)
          /\ Len(specs') = Len(specs) - 1 /\ Len(specs) \in Nat
      BY <1>11, ElementsOfTail, LenProperties DEF StreamSends, Types
    <2>2. dqueue' \in Seq(Buffers) /\ Len(dqueue') <= QueueCap
      BY <1>11, <2>1, QueuedFacts, PoolFacts DEF StreamSends, Requests
    <2>3. Len(specs') <= MaxBatch
      BY <2>1, PublisherAssumption DEF Types
    <2> QED BY <1>11, <2>1, <2>2, <2>3 DEF Types, StreamSends
  <1>12. <<>> \in Seq(Buffers) /\ Len(<<>>) <= QueueCap
    BY DEF QueueCap
  <1>13. CASE StreamDone
    <2>1. dqueue' \in Seq(Buffers) /\ Len(dqueue') <= QueueCap
      BY <1>12, <1>13 DEF StreamDone, Types
    <2> QED BY <1>5, <1>13, <2>1 DEF Types, StreamDone
  <1>14. CASE PublishEos
    <2>1. dqueue' \in Seq(Buffers) /\ Len(dqueue') <= QueueCap /\ eos_sent' \in BOOLEAN
      BY <1>12, <1>14 DEF PublishEos, SendEos, Types
    <2> QED BY <1>14, <2>1 DEF Types, PublishEos
  <1>15. CASE Close
    BY <1>15 DEF Types, Close
  <1>16. CASE Destroy
    <2>1. dqueue' \in Seq(Buffers) /\ Len(dqueue') <= QueueCap /\ eos_sent' \in BOOLEAN
      BY <1>12, <1>16 DEF Destroy, SendEos, Types
    <2> QED BY <1>16, <2>1 DEF Types, Destroy
  <1>17. CASE BakeBegins
    <2>1. /\ Head(dqueue) \in Buffers /\ dqueue' \in Seq(Buffers)
          /\ Len(dqueue') = Len(dqueue) - 1 /\ Len(dqueue) \in Nat
      BY <1>17, ElementsOfTail, LenProperties DEF BakeBegins, Types
    <2>2. Len(dqueue') <= QueueCap
      BY <2>1 DEF Types, QueueCap
    <2> QED BY <1>17, <2>1, <2>2 DEF Types, BakeBegins
  <1>18. CASE BakeEnds
    BY <1>18 DEF Types, BakeEnds
  <1>19. CASE UNCHANGED vars
    BY <1>19 DEF Types, vars
  <1> QED
    BY <1>1, <1>2, <1>3, <1>4, <1>6, <1>7, <1>8, <1>9, <1>10, <1>11, <1>13, <1>14, <1>15,
       <1>16, <1>17, <1>18, <1>19 DEF Next, Acquire, Finished

-----------------------------------------------------------------------------
(* What the daemon holds *)

\* The daemon gets ids only by a push or from a stream, and one at a time.
LEMMA HoldsMoves ==
    ASSUME Types, [Next]_vars
    PROVE  /\ ~Push /\ ~StreamSends => DaemonHolds' \subseteq DaemonHolds
           /\ Push => DaemonHolds' \subseteq DaemonHolds \cup {slot}
           /\ StreamSends => /\ DaemonHolds' \subseteq DaemonHolds \cup {Head(specs).id}
                             /\ Head(specs).id \in Unsent /\ Unsent' \subseteq Unsent
                             /\ Elements(specs') \subseteq Elements(specs)
  <1> USE DEF batch, staging, session, memory, daemon
  <1>1. CASE Push
    <2>1. Elements(dqueue') \subseteq Elements(dqueue) \cup {slot} /\ baking' = baking
      BY <1>1, QueuedFacts DEF Push, Types
    <2> QED BY <1>1, <2>1 DEF DaemonHolds, Push, StreamSends, Flow
  <1>2. CASE StreamSends
    <2>1. /\ Head(specs) \in Requests
          /\ Elements(specs) = Elements(specs') \cup {Head(specs)}
      BY <1>2, ElementsOfTail DEF StreamSends, Types
    <2>2. Elements(dqueue') \subseteq Elements(dqueue) \cup {Head(specs).id} /\ baking' = baking
      BY <1>2, <2>1, QueuedFacts, PoolFacts DEF StreamSends, Requests
    <2>3. Head(specs).id \in Unsent /\ Unsent' \subseteq Unsent
      BY <2>1 DEF Unsent
    <2> QED BY <1>2, <2>1, <2>2, <2>3 DEF DaemonHolds, Push, StreamSends
  <1>3. CASE BakeBegins
    <2>1. Elements(dqueue) = Elements(dqueue') \cup {Head(dqueue)}
      BY <1>3, ElementsOfTail DEF BakeBegins, Types
    <2>2. DaemonHolds' \subseteq DaemonHolds
      BY <1>3, <2>1 DEF BakeBegins, DaemonHolds
    <2> QED BY <1>1, <1>2, <2>2
  <1>4. CASE BakeEnds
    BY <1>1, <1>2, <1>4 DEF BakeEnds, DaemonHolds
  <1>5. CASE baking' = baking /\ dqueue' \in {dqueue, <<>>}
    <2>1. DaemonHolds' \subseteq DaemonHolds
      BY <1>5, EmptyElements DEF DaemonHolds
    <2> QED BY <1>1, <1>2, <2>1
  <1>6. CASE StreamDone \/ PublishEos \/ Destroy
    BY <1>5, <1>6 DEF StreamDone, PublishEos, Destroy, SendEos
  <1>7. CASE \/ AcquirePool \/ AcquireForBatch \/ AcquireStage \/ NullStage \/ Refresh
             \/ AcquireThrows \/ StreamFails \/ PublishBegins \/ RgbBegins \/ RgbAllocFails
             \/ BatchBegins \/ NextFrame \/ Convert \/ BatchBuilt \/ Close \/ UNCHANGED vars
    BY <1>5, <1>7 DEF AcquirePool, AcquireForBatch, AcquireStage, NullStage, Refresh,
       AcquireThrows, StreamFails, PublishBegins, RgbBegins, RgbAllocFails, BatchBegins,
       NextFrame, Convert, BatchBuilt, Close, vars
  <1> QED
    BY <1>1, <1>2, <1>3, <1>4, <1>6, <1>7 DEF Next, Acquire, Finished

\* Every action leaves the call at a step of its own operation.
LEMMA FlowStep ==
    ASSUME Types, Flow, [Next]_vars
    PROVE  Flow'
  <1> USE DEF batch, staging, session, memory, daemon
  <1>1. CASE AcquirePool \/ AcquireForBatch
    BY <1>1 DEF Flow, AcquirePool, AcquireForBatch
  <1>2. CASE AcquireStage \/ NullStage \/ Refresh
    BY <1>2 DEF Flow, AcquireStage, NullStage, Refresh
  <1>3. CASE AcquireThrows \/ Push \/ StreamDone \/ StreamFails
    BY <1>3 DEF Flow, AcquireThrows, Push, StreamDone, StreamFails, Returns
  <1>4. CASE Convert
    BY <1>4 DEF Flow, Convert, Returns
  <1>5. CASE PublishBegins \/ RgbBegins \/ BatchBegins
    BY <1>5 DEF Flow, PublishBegins, RgbBegins, BatchBegins, CallBegins
  <1>6. CASE NextFrame \/ BatchBuilt \/ RgbAllocFails
    BY <1>6 DEF Flow, NextFrame, BatchBuilt, RgbAllocFails
  <1>7. CASE StreamSends
    BY <1>7 DEF Flow, StreamSends
  <1>8. CASE Destroy
    BY <1>8 DEF Flow, Destroy
  <1>9. CASE PublishEos \/ Close \/ BakeBegins \/ BakeEnds
    BY <1>9 DEF Flow, PublishEos, Close, BakeBegins, BakeEnds
  <1>10. CASE UNCHANGED vars
    BY <1>10 DEF Flow, vars
  <1> QED
    BY <1>1, <1>2, <1>3, <1>4, <1>5, <1>6, <1>7, <1>8, <1>9, <1>10 DEF Next, Acquire, Finished

\* The stage belongs to a publisher that has sent RGB frames.
LEMMA StageOwnedStep ==
    ASSUME Types, Flow, StageOwned, [Next]_vars
    PROVE  StageOwned'
  <1> USE DEF batch, staging, session, memory, daemon
  <1> DEFINE Holding == StageId \in DaemonHolds => rgb_pool \/ closed
  <1>1. Holding'
    <2>1. CASE Push
      <3>1. UNCHANGED <<rgb_pool, closed>> /\ (slot = StageId => rgb_pool)
        BY <2>1 DEF Push, StageOwned
      <3> QED BY <2>1, <3>1, HoldsMoves DEF StageOwned
    <2>2. CASE StreamSends
      <3>1. Head(specs).id \in Pool
        BY <2>2, HoldsMoves, DaemonFacts
      <3> QED BY <2>2, <3>1, HoldsMoves, PoolFacts DEF StageOwned, StreamSends
    <2>3. CASE ~Push /\ ~StreamSends
      <3>1. (rgb_pool => rgb_pool') \/ closed'
        BY DEF Next, Acquire, AcquirePool, AcquireForBatch, AcquireStage, NullStage, Refresh,
           AcquireThrows, Push, StreamSends, StreamDone, StreamFails, PublishBegins, RgbBegins,
           RgbAllocFails, BatchBegins, NextFrame, Convert, BatchBuilt, PublishEos, Close, Destroy,
           BakeBegins, BakeEnds, Finished, vars
      <3>2. closed => closed'
        BY DEF Next, Acquire, AcquirePool, AcquireForBatch, AcquireStage, NullStage, Refresh,
           AcquireThrows, Push, StreamSends, StreamDone, StreamFails, PublishBegins, RgbBegins,
           RgbAllocFails, BatchBegins, NextFrame, Convert, BatchBuilt, PublishEos, Close, Destroy,
           BakeBegins, BakeEnds, Finished, vars
      <3> QED BY <2>3, <3>1, <3>2, HoldsMoves DEF StageOwned
    <2> QED BY <2>1, <2>2, <2>3
  <1> DEFINE Pools == (nv12_stage => rgb_pool) /\ (pc = "push" /\ slot = StageId => rgb_pool)
  <1>2. Pools'
    <2> USE DEF StageOwned
    <2>1. CASE AcquirePool
      BY <2>1, PoolFacts DEF AcquirePool
    <2>2. CASE Convert
      BY <2>2 DEF Convert, Returns
    <2>3. CASE RgbBegins \/ RgbAllocFails \/ Close \/ Destroy
      BY <2>3 DEF RgbBegins, CallBegins, RgbAllocFails, Close, Destroy
    <2>4. CASE AcquireForBatch \/ AcquireStage \/ NullStage \/ Refresh \/ AcquireThrows
      BY <2>4 DEF AcquireForBatch, AcquireStage, NullStage, Refresh, AcquireThrows, Returns
    <2>5. CASE Push \/ StreamDone \/ StreamFails
      BY <2>5 DEF Push, StreamDone, StreamFails, Returns
    <2>6. CASE PublishBegins \/ BatchBegins \/ NextFrame \/ BatchBuilt \/ StreamSends
      BY <2>6 DEF PublishBegins, BatchBegins, NextFrame, BatchBuilt, StreamSends
    <2>7. CASE PublishEos \/ BakeBegins \/ BakeEnds \/ UNCHANGED vars
      BY <2>7 DEF PublishEos, BakeBegins, BakeEnds, vars
    <2> QED
      BY <2>1, <2>2, <2>3, <2>4, <2>5, <2>6, <2>7 DEF Next, Acquire, Finished
  <1> QED BY <1>1, <1>2 DEF StageOwned

\* publish_rgb converts into its stage only while the daemon has it no more.
LEMMA StageFreeStep ==
    ASSUME Types, Flow, StageOwned, Covered, StageFree, [Next]_vars
    PROVE  StageFree'
  <1> USE DEF batch, staging, session, memory, daemon
  <1>1. CASE RgbBegins
    <2>1. /\ ~closed /\ DaemonHolds' = DaemonHolds /\ lease' = lease
          /\ rgb_pool => pc' = IF lease THEN "acquire" ELSE "convert"
      BY <1>1 DEF RgbBegins, CallBegins, DaemonHolds
    <2> QED BY <2>1 DEF StageOwned, StageFree
  <1>2. CASE AcquireStage
    <2>1. /\ UNCHANGED <<lease, stale>> /\ DaemonHolds' = DaemonHolds
          /\ lease => StageId \notin in_flight
      BY <1>2 DEF AcquireStage, FreeIds, DaemonHolds
    <2> QED BY <2>1 DEF StageFree, Covered
  <1>3. CASE BakeBegins \/ BakeEnds
    <2>1. UNCHANGED <<pc, lease, stale>> /\ ~Push /\ ~StreamSends
      BY <1>3 DEF BakeBegins, BakeEnds, Push, StreamSends, Flow
    <2> QED BY <2>1, HoldsMoves DEF StageFree
  <1>4. CASE RgbAllocFails \/ PublishEos \/ Close \/ Destroy
    BY <1>4 DEF RgbAllocFails, PublishEos, Close, Destroy, StageFree
  <1>5. CASE \/ AcquirePool \/ AcquireForBatch \/ NullStage \/ Refresh \/ AcquireThrows
             \/ StreamFails \/ StreamDone \/ Push \/ PublishBegins \/ BatchBegins \/ NextFrame
             \/ Convert \/ BatchBuilt \/ StreamSends
    <2>1. pc' # "convert"
      BY <1>5 DEF AcquirePool, AcquireForBatch, NullStage, Refresh, AcquireThrows, StreamFails,
         StreamDone, Push, PublishBegins, BatchBegins, NextFrame, Convert, BatchBuilt,
         StreamSends, Returns
    <2> QED BY <2>1 DEF StageFree
  <1>6. CASE UNCHANGED vars
    BY <1>6 DEF StageFree, DaemonHolds, vars
  <1> QED
    BY <1>1, <1>2, <1>3, <1>4, <1>5, <1>6 DEF Next, Acquire, Finished

-----------------------------------------------------------------------------
(* The batch and the marks *)

\* A slot that is acquired is free, and is rewritten alone.
LEMMA PicksFree ==
    ASSUME Types, NEW s \in Pool, PickedSlot(s)
    PROVE  lease => s \notin in_flight
  BY DEF PickedSlot, FreeIds

\* A batch takes a slot that is not in flight, marks it and writes there.
LEMMA BatchWrites ==
    ASSUME Types, Flow, AcquireForBatch
    PROVE  \E s \in Pool :
              /\ lease => s \notin in_flight
              /\ in_flight' = Marked(s)
              /\ Unsent' = Unsent \cup {s}
              /\ \A b \in Buffers : b # s => pixels'[b] = pixels[b]
              /\ s \notin Unsent /\ Intact => Intact'
  <1>1. PICK s \in Pool :
           /\ PickedSlot(s) /\ Write(s) /\ in_flight' = Marked(s)
           /\ specs' = Append(specs, [id |-> s, pixels |-> writes + 1])
    BY DEF AcquireForBatch
  <1>2. /\ writes + 1 \in 1 .. MaxWrites /\ pixels'[s] = writes + 1
        /\ \A b \in Buffers : b # s => pixels'[b] = pixels[b]
    BY <1>1, PoolFacts, WriteFacts DEF AcquireForBatch, Flow
  <1> DEFINE new == [id |-> s, pixels |-> writes + 1]
  <1>3. new \in Requests /\ new.id = s /\ new.pixels = writes + 1
    BY <1>2 DEF Requests
  <1> HIDE DEF new
  <1>4. Elements(specs') = Elements(specs) \cup {new}
    BY <1>1, <1>3, ElementsOfAppend DEF Types, new
  <1>5. Unsent' = Unsent \cup {s}
    BY <1>3, <1>4 DEF Unsent
  <1>6. ASSUME s \notin Unsent, Intact, NEW spec \in Elements(specs')
        PROVE  pixels'[spec.id] = spec.pixels
    <2>1. CASE spec = new
      BY <1>2, <1>3, <2>1
    <2>2. CASE spec \in Elements(specs)
      <3>1. spec.id \in Unsent /\ spec.id \in Buffers /\ spec.id # s
        BY <1>6, <2>2, DaemonFacts, PoolFacts
      <3> QED BY <1>2, <1>6, <2>2, <3>1 DEF Intact
    <2> QED BY <1>4, <2>1, <2>2
  <1>7. lease => s \notin in_flight
    BY <1>1, PicksFree
  <1> QED BY <1>1, <1>2, <1>5, <1>6, <1>7 DEF Intact

\* An empty batch is intact.
LEMMA NoBatch == specs = <<>> => Unsent = {} /\ Intact
  BY EmptyElements DEF Unsent, Intact

\* Everything outside acquiring, pushing and streaming leaves the marks and
\* the requests alone, and drops the daemon's ids at most.
Bystander ==
    /\ UNCHANGED <<lease, in_flight, stale>>
    /\ DaemonHolds' \subseteq DaemonHolds
    /\ specs' = <<>> \/ (specs' = specs /\ pixels' = pixels)

\* Few actions touch what the daemon reads; the rest are bystanders.
LEMMA Bystanders ==
    ASSUME Types, Flow, [Next]_vars
    PROVE  AcquirePool \/ AcquireForBatch \/ Refresh \/ Push \/ StreamSends \/ Bystander
  <1> USE DEF batch, staging, session, memory, daemon
  <1>1. CASE Convert
    <2>1. specs = <<>>
      BY <1>1 DEF Convert, Flow
    <2> QED BY <1>1, <2>1, HoldsMoves DEF Convert, Returns, Bystander, Push, StreamSends
  <1>2. CASE AcquireStage \/ NullStage \/ AcquireThrows \/ StreamDone \/ StreamFails
    BY <1>2, HoldsMoves DEF AcquireStage, NullStage, AcquireThrows, StreamDone, StreamFails,
       Returns, Bystander
  <1>3. CASE PublishBegins \/ RgbBegins \/ RgbAllocFails \/ BatchBegins \/ NextFrame \/ BatchBuilt
    BY <1>3, HoldsMoves DEF PublishBegins, RgbBegins, RgbAllocFails, BatchBegins, NextFrame,
       BatchBuilt, Bystander
  <1>4. CASE PublishEos \/ Close \/ Destroy \/ BakeBegins \/ BakeEnds
    BY <1>4, HoldsMoves DEF PublishEos, Close, Destroy, BakeBegins, BakeEnds, Bystander
  <1>5. CASE UNCHANGED vars
    BY <1>5, HoldsMoves DEF Bystander, vars
  <1> QED
    BY <1>1, <1>2, <1>3, <1>4, <1>5 DEF Next, Acquire, Finished

\* A bystander leaves the batch and its pixels alone.
LEMMA BystanderKeeps ==
    ASSUME Bystander
    PROVE  Unsent' \subseteq Unsent /\ (Intact => Intact')
  <1>1. CASE specs' = <<>>
    BY <1>1, EmptyElements DEF Unsent, Intact
  <1>2. CASE specs' = specs /\ pixels' = pixels
    BY <1>2 DEF Unsent, Intact
  <1> QED BY <1>1, <1>2 DEF Bystander

\* A current lease goes on covering what the daemon reads and the batch.
LEMMA CoveredStep ==
    ASSUME Types, Flow, Covered, Marks, [Next]_vars
    PROVE  Covered'
  <1> USE DEF batch, staging, session, memory, daemon
  <1>1. CASE AcquirePool
    <2>1. /\ specs' = <<>> /\ UNCHANGED <<lease, stale, in_flight>>
          /\ DaemonHolds' = DaemonHolds
      BY <1>1 DEF AcquirePool, Flow, DaemonHolds
    <2>2. Unsent' = {} /\ Intact'
      BY <2>1, EmptyElements DEF Unsent, Intact
    <2> QED BY <2>1, <2>2 DEF Covered
  <1>2. CASE AcquireForBatch
    <2>1. PICK s \in Pool :
              /\ lease => s \notin in_flight
              /\ in_flight' = Marked(s)
              /\ Unsent' = Unsent \cup {s}
              /\ s \notin Unsent /\ Intact => Intact'
      BY <1>2, BatchWrites
    <2>2. UNCHANGED <<lease, stale>> /\ DaemonHolds' = DaemonHolds
      BY <1>2 DEF AcquireForBatch, DaemonHolds
    <2> QED BY <2>1, <2>2 DEF Covered, Marked
  <1>3. CASE Refresh
    <2>1. /\ pc = "acquire" /\ lease' = lease /\ in_flight' = DaemonHolds
          /\ stale' = ~(Unsent \subseteq DaemonHolds)
          /\ specs' = specs /\ pixels' = pixels /\ DaemonHolds' = DaemonHolds
      BY <1>3 DEF Refresh, Snapshot, DaemonHolds
    <2>2. Unsent' = Unsent /\ (Intact' <=> Intact)
      BY <2>1 DEF Unsent, Intact
    <2>3. lease' /\ ~stale' => lease /\ Unsent \subseteq DaemonHolds
      BY <2>1
    <2> QED BY <2>1, <2>2, <2>3 DEF Covered, Marks
  <1>4. CASE Push
    <2>1. specs' = <<>> /\ UNCHANGED <<lease>>
      BY <1>4 DEF Push, Returns
    <2>2. Unsent' = {} /\ Intact'
      BY <2>1, EmptyElements DEF Unsent, Intact
    <2>3. lease /\ ~stale' => in_flight' = DaemonHolds' \/ (~stale /\ UNCHANGED <<daemon, in_flight>>)
      BY <1>4 DEF Push, Absorbed
    <2>4. UNCHANGED <<daemon, in_flight>> => DaemonHolds' = DaemonHolds
      BY DEF DaemonHolds
    <2> QED BY <2>1, <2>2, <2>3, <2>4 DEF Covered
  <1>5. CASE StreamSends
    <2>1. UNCHANGED <<lease, stale, in_flight, pixels>>
      BY <1>5 DEF StreamSends
    <2>2. /\ DaemonHolds' \subseteq DaemonHolds \cup {Head(specs).id}
          /\ Head(specs).id \in Unsent /\ Unsent' \subseteq Unsent
          /\ Elements(specs') \subseteq Elements(specs)
      BY <1>5, HoldsMoves
    <2>3. Intact => Intact'
      BY <2>1, <2>2 DEF Intact
    <2> QED BY <2>1, <2>2, <2>3 DEF Covered
  <1>6. CASE Bystander
    BY <1>6, BystanderKeeps DEF Bystander, Covered
  <1> QED BY <1>1, <1>2, <1>3, <1>4, <1>5, <1>6, Bystanders

\* A batch whose ids the daemon still holds keeps its marks and its pixels.
LEMMA MarksStep ==
    ASSUME Types, Flow, Marks, [Next]_vars
    PROVE  Marks'
  <1> USE DEF batch, staging, session, memory, daemon
  <1>1. ASSUME specs' = <<>>
        PROVE  Marks'
    BY <1>1, EmptyElements DEF Marks, Unsent, Intact
  <1>2. CASE AcquirePool \/ Push
    BY <1>1, <1>2 DEF AcquirePool, Push, Returns, Flow
  <1>3. CASE AcquireForBatch
    <2>1. PICK s \in Pool :
              /\ lease => s \notin in_flight
              /\ in_flight' = Marked(s)
              /\ Unsent' = Unsent \cup {s}
              /\ s \notin Unsent /\ Intact => Intact'
      BY <1>3, BatchWrites
    <2>2. lease' = lease /\ DaemonHolds' = DaemonHolds /\ pc = "acquire"
      BY <1>3 DEF AcquireForBatch, DaemonHolds
    <2> QED BY <2>1, <2>2 DEF Marks, Marked
  <1>4. CASE Refresh
    <2>1. /\ pc = "acquire" /\ lease' = lease /\ in_flight' = DaemonHolds
          /\ specs' = specs /\ pixels' = pixels /\ DaemonHolds' = DaemonHolds
      BY <1>4 DEF Refresh, Snapshot, DaemonHolds
    <2>2. Unsent' = Unsent /\ (Intact' <=> Intact)
      BY <2>1 DEF Unsent, Intact
    <2> QED BY <2>1, <2>2 DEF Marks
  <1>5. CASE StreamSends
    BY <1>5 DEF StreamSends, Marks
  <1>6. CASE Bystander /\ specs' = specs /\ pixels' = pixels
    <2>1. CASE specs = <<>>
      BY <1>1, <1>6, <2>1
    <2>2. CASE pc \in {"acquire", "build"}
      <3>1. Unsent' = Unsent /\ (Intact' <=> Intact)
        BY <1>6 DEF Unsent, Intact
      <3>2. /\ UNCHANGED <<lease, in_flight>> /\ DaemonHolds' \subseteq DaemonHolds
        BY <1>6 DEF Bystander
      <3> QED BY <2>2, <3>1, <3>2 DEF Marks
    <2>3. CASE specs # <<>> /\ pc \notin {"acquire", "build"}
      <3>1. op = "batch" /\ pc \notin {"idle", "convert", "push"}
        BY <2>3 DEF Flow
      <3>2. pc' \notin {"acquire", "build"}
        BY <2>3, <3>1 DEF Next, Acquire, AcquirePool, AcquireForBatch, AcquireStage, NullStage,
           Refresh, AcquireThrows, Push, StreamSends, StreamDone, StreamFails, PublishBegins,
           RgbBegins, RgbAllocFails, BatchBegins, NextFrame, Convert, BatchBuilt, PublishEos,
           Close, Destroy, BakeBegins, BakeEnds, Finished, CallBegins, Returns, vars
      <3> QED BY <3>2 DEF Marks
    <2> QED BY <2>1, <2>2, <2>3
  <1> QED BY <1>1, <1>2, <1>3, <1>4, <1>5, <1>6, Bystanders DEF Bystander

-----------------------------------------------------------------------------
(* The theorems *)

\* The invariant holds before the first frame.
LEMMA PublisherInvInit == Init => PublisherInv
  <1> SUFFICES ASSUME Init PROVE PublisherInv
    OBVIOUS
  <1>1. Types
    <2>1. lease \in BOOLEAN
      BY PublisherAssumption DEF Init
    <2>2. specs \in Seq(Requests) /\ Len(specs) <= MaxBatch
      BY PublisherAssumption DEF Init
    <2>3. dqueue \in Seq(Buffers) /\ Len(dqueue) <= QueueCap
      BY DEF Init, QueueCap
    <2>4. pixels \in [Buffers -> 0 .. MaxWrites] /\ writes \in 0 .. MaxWrites
      BY PublisherAssumption DEF Init
    <2> QED BY <2>1, <2>2, <2>3, <2>4, PoolFacts DEF Init, Types
  <1>2. DaemonHolds = {} /\ Unsent = {} /\ Intact
    BY EmptyElements, NoBatch DEF Init, DaemonHolds
  <1>3. Flow
    BY DEF Init, Flow
  <1>4. StageOwned /\ Covered /\ Marks /\ StageFree
    BY <1>2 DEF Init, StageOwned, Covered, Marks, StageFree
  <1> QED BY <1>1, <1>3, <1>4 DEF PublisherInv

\* Every step keeps the inductive invariant.
LEMMA PublisherInvStep == PublisherInv /\ [Next]_vars => PublisherInv'
  BY TypesStep, FlowStep, StageOwnedStep, CoveredStep, MarksStep, StageFreeStep DEF PublisherInv

\* The inductive invariant, for every pool.
LEMMA PublisherInvariant == Spec => []PublisherInv
  BY PublisherInvInit, PublisherInvStep, PTL DEF Spec

\* The slot pool keeps its bounds, and a batch whose lease is current is sent
\* with the pixels it was built from (acquire_slot_ids, publish_stream).
THEOREM ThePoolIsSound == Spec => []PoolSound
  <1>1. PublisherInv => PoolSound
    <2> SUFFICES ASSUME PublisherInv PROVE PoolSound
      OBVIOUS
    <2>1. {lease, with_eos, rgb_pool, nv12_stage, published_any, eos_sent, closed, stale}
             \subseteq BOOLEAN
      BY Zenon DEF PublisherInv, Types
    <2>2. TypeOK
      BY <2>1 DEF PublisherInv, Types, TypeOK
    <2> QED BY <2>2 DEF PublisherInv, Covered, BatchIntact, PoolSound
  <1> QED BY <1>1, PublisherInvariant, PTL

\* No buffer is rewritten while the daemon holds it, as long as the lease is
\* current (the write lease of FramePublisher).
THEOREM NothingIsTorn == Spec => NoTearing
  <1>1. PublisherInv /\ [Next]_vars => [lease /\ ~stale => \A b \in DaemonHolds : ~Rewritten(b)]_vars
    <2> SUFFICES ASSUME PublisherInv, [Next]_vars, lease, ~stale, NEW b \in DaemonHolds
                 PROVE  ~Rewritten(b)
      OBVIOUS
    <2> USE DEF batch, staging, session, memory, daemon
    <2>1. b \in Buffers /\ b \in in_flight /\ pixels \in [Buffers -> 0 .. MaxWrites]
      BY DaemonFacts DEF PublisherInv, Types, Covered
    <2>2. CASE AcquirePool
      <3>1. PICK s \in Pool : PickedSlot(s) /\ Write(s)
        BY <2>2 DEF AcquirePool
      <3>2. b # s
        BY <2>1, <3>1, PicksFree DEF PublisherInv
      <3> QED BY <2>1, <3>1, <3>2 DEF Write, Rewritten
    <2>3. CASE AcquireForBatch
      <3>1. PICK s \in Pool :
                 (lease => s \notin in_flight) /\ \A c \in Buffers : c # s => pixels'[c] = pixels[c]
        BY <2>3, BatchWrites DEF PublisherInv
      <3> QED BY <2>1, <3>1 DEF Rewritten
    <2>4. CASE Convert
      <3>1. b # StageId
        BY <2>4 DEF Convert, PublisherInv, StageFree
      <3> QED BY <2>1, <2>4, <3>1 DEF Convert, Write, Rewritten
    <2>5. CASE pixels' = pixels
      BY <2>5 DEF Rewritten
    <2> QED
      BY <2>2, <2>3, <2>4, <2>5 DEF Next, Acquire, AcquireStage, NullStage, Refresh, AcquireThrows,
         Push, StreamSends, StreamDone, StreamFails, PublishBegins, RgbBegins, RgbAllocFails,
         BatchBegins, NextFrame, BatchBuilt, PublishEos, Close, Destroy, BakeBegins, BakeEnds,
         Finished, vars
  <1> QED BY <1>1, PublisherInvariant, PTL DEF Spec, NoTearing
=============================================================================
