------------------------ MODULE PipelineRunnerProofs ------------------------
(***************************************************************************)
(* Machine-checked proofs that every safety property of PipelineRunner     *)
(* holds for every queue size, number of frames, number of stop() calls    *)
(* and error limit.  The properties are not inductive as they stand; the   *)
(* four definitions below say what else the threads maintain.              *)
(***************************************************************************)
EXTENDS PipelineRunner, SequenceTheorems, TLAPS

\* The control points at which a thread holds a frame.
Holding ==
    /\ rframe # NoFrame <=> rpc \in {"offer", "put", "evict"}
    /\ wframe # NoFrame <=> wpc \in {"run", "release"}

\* Frames come from the source, and the reader holds the latest one.
Yielded ==
    /\ rframe # NoFrame => rframe = produced
    /\ wframe <= produced
    /\ \A i \in 1 .. Len(q) : q[i] <= produced

\* ReleasedOnce without what InOrder already says.
CountsExact ==
    \A f \in Frames : closes[f] = IF f <= produced /\ ~Held(f) THEN 1 ELSE 0

Custody == Yielded /\ InOrder /\ CountsExact

\* Without a stop request nobody but an ended reader has queued a sentinel.
QuietEnd ==
    ~stop_flag =>
        /\ apc \in {"new", "idle", "gone"}
        /\ \A i \in 1 .. Len(q) :
              q[i] = Sentinel => i = Len(q) /\ rpc \in {"exiting", "done"}
        /\ wpc \in {"drain", "exiting", "done"} =>
              q = <<>> /\ rpc \in {"exiting", "done"}

\* Once the worker has left, a reader still in its loop finds no frame queued.
LoopLeftovers ==
    wpc \in {"exiting", "done"} /\ rpc \in {"source", "offer", "put", "evict"}
        => \A i \in 1 .. Len(q) : q[i] = Sentinel

\* Where the application is, and what it has already waited for.
AppOrder ==
    /\ apc = "new" => rpc = "none" /\ wpc = "none" /\ produced = 0 /\ q = <<>>
    /\ apc = "join_worker" => rpc = "done"
    /\ apc = "gone" => /\ q = <<>>
                       /\ wpc \in {"none", "done"}
                       /\ rpc = "done" \/ (rpc = "none" /\ produced = 0)

-----------------------------------------------------------------------------
\* What appending and taking the head do to the items of a queue.
LEMMA AppendFacts ==
    ASSUME NEW S, NEW s \in Seq(S), NEW x \in S
    PROVE  /\ Append(s, x) \in Seq(S)
           /\ Len(Append(s, x)) = Len(s) + 1
           /\ \A i \in 1 .. Len(s) : Append(s, x)[i] = s[i]
           /\ Append(s, x)[Len(s) + 1] = x
  OBVIOUS

\* What Tail takes from a queue.
LEMMA TailFacts ==
    ASSUME NEW S, NEW s \in Seq(S), s # <<>>
    PROVE  /\ Tail(s) \in Seq(S)
           /\ Len(s) \in Nat \ {0}
           /\ Head(s) = s[1] /\ Head(s) \in S
           /\ Len(Tail(s)) = Len(s) - 1
           /\ \A i \in 1 .. Len(Tail(s)) : Tail(s)[i] = s[i + 1]
  OBVIOUS

\* The oldest frame of a queue that is in order leaves no second copy behind.
LEMMA HeadLeaves ==
    ASSUME DataType, InOrder, q # <<>>, q' = Tail(q)
    PROVE  \A f \in Frames : Queued(f)' <=> Queued(f) /\ f # Head(q)
  <1>1. /\ Len(q) \in Nat \ {0} /\ Head(q) = q[1]
        /\ Len(q') = Len(q) - 1
        /\ \A i \in 1 .. Len(q') : q'[i] = q[i + 1]
    BY TailFacts DEF DataType
  <1> TAKE f \in Frames
  <1>2. f \in Nat /\ f # Sentinel
    BY RunnerAssumption DEF Frames, Sentinel
  <1>3. Queued(f)' => Queued(f) /\ f # Head(q)
    <2> SUFFICES ASSUME NEW i \in 1 .. Len(q'), q'[i] = f
                 PROVE  Queued(f) /\ f # Head(q)
      BY DEF Queued
    <2>1. i + 1 \in 1 .. Len(q) /\ q[i + 1] = f /\ 1 < i + 1
      BY <1>1
    <2>2. f # q[1]
      BY <1>1, <1>2, <2>1 DEF InOrder
    <2> QED BY <1>1, <2>1, <2>2 DEF Queued
  <1>4. Queued(f) /\ f # Head(q) => Queued(f)'
    <2> SUFFICES ASSUME NEW i \in 1 .. Len(q), q[i] = f, f # Head(q)
                 PROVE  Queued(f)'
      BY DEF Queued
    <2>1. i - 1 \in 1 .. Len(q') /\ q'[i - 1] = f
      BY <1>1
    <2> QED BY <2>1 DEF Queued
  <1> QED BY <1>3, <1>4

-----------------------------------------------------------------------------
(* Type correctness *)

\* Releasing an item counts one more release of its frame and no other.
LEMMA ClosedType ==
    ASSUME closes \in [Frames -> Nat], NEW item \in 0 .. MaxFrames
    PROVE  /\ Closed(item) \in [Frames -> Nat]
           /\ \A f \in Frames :
                 Closed(item)[f] = IF f = item THEN closes[f] + 1 ELSE closes[f]
  BY RunnerAssumption DEF Closed, Frames, Sentinel

\* Shedding the oldest item keeps the types of what it touches.
LEMMA EvictType ==
    ASSUME DataType, EvictOldest
    PROVE  /\ q' \in Seq(0 .. MaxFrames)
           /\ closes' \in [Frames -> Nat]
           /\ dropped' \in Nat
  <1>1. CASE q = <<>>
    BY <1>1 DEF EvictOldest, DataType
  <1>2. CASE q # <<>>
    <2>1. q \in Seq(0 .. MaxFrames) /\ closes \in [Frames -> Nat] /\ dropped \in Nat
      BY DEF DataType
    <2>2. Tail(q) \in Seq(0 .. MaxFrames) /\ Head(q) \in 0 .. MaxFrames
      BY <1>2, <2>1, TailFacts
    <2>3. Closed(Head(q)) \in [Frames -> Nat]
      BY <2>1, <2>2, ClosedType
    <2>4. q' = Tail(q) /\ closes' = Closed(Head(q)) /\ dropped' = dropped + 1
      BY <1>2 DEF EvictOldest
    <2> QED BY <2>1, <2>2, <2>3, <2>4
  <1> QED BY <1>1, <1>2

\* The sink-less capture keeps at most LastResultsKeep results.
LEMMA CapturedFacts ==
    ASSUME last_results \in Seq(0 .. MaxFrames), NEW f \in 0 .. MaxFrames
    PROVE  /\ Captured(f) \in Seq(0 .. MaxFrames)
           /\ Len(Captured(f)) <= LastResultsKeep
  <1> DEFINE all == Append(last_results, f)
             n == Len(all)
             m == n - LastResultsKeep + 1
  <1>1. all \in Seq(0 .. MaxFrames) /\ n \in Nat
    BY AppendFacts
  <1>2. CASE n > LastResultsKeep
    <2>1. m \in Int /\ n \in Int /\ 1 <= m /\ m <= n
      BY <1>1, <1>2, RunnerAssumption
    <2>a. \A i \in m .. n : all[i] \in 0 .. MaxFrames
      <3>1. \A i \in m .. n : i \in 1 .. n
        BY <2>1
      <3> HIDE DEF all, m
      <3> QED BY <1>1, <3>1, ElementOfSeq
    <2>2. /\ SubSeq(all, m, n) \in Seq(0 .. MaxFrames)
          /\ Len(SubSeq(all, m, n)) = n - m + 1
      BY <2>1, <2>a, SubSeqProperties
    <2>3. Captured(f) = SubSeq(all, m, n)
      BY <1>2 DEF Captured
    <2> HIDE DEF all
    <2> QED BY <1>1, <2>2, <2>3, RunnerAssumption
  <1>3. CASE ~(n > LastResultsKeep)
    BY <1>1, <1>3, RunnerAssumption DEF Captured
  <1> QED BY <1>2, <1>3

\* The steps of the three threads, with their groups expanded.
LEMMA NextCases ==
    ASSUME [Next]_vars
    PROVE  \/ ReaderTop \/ SourceYields \/ SourceEnds \/ SourceThrows
           \/ ReaderOffer \/ ReaderPut \/ ReaderPutTimeout \/ ReaderEvict
           \/ ReaderFinish \/ ReaderPutSentinel \/ ReaderTerminal
           \/ ReaderTerminalEvict \/ ReaderExit
           \/ WorkerGet \/ WorkerRuns \/ WorkerFails \/ WorkerRelease
           \/ WorkerDrain \/ WorkerExit
           \/ Start \/ TakeLastResults \/ StopCall \/ Destroy \/ AppTerminal
           \/ AppEvict \/ StopReturns \/ JoinReader \/ JoinWorker
           \/ UNCHANGED vars
  BY DEF Next, ReaderStep, WorkerStep, AppCallStep, Gone

\* Every step leaves control points and flags in their types.
LEMMA ControlStep == ControlType /\ [Next]_vars => ControlType'
  <1> SUFFICES ASSUME ControlType, [Next]_vars PROVE ControlType'
    OBVIOUS
  <1> USE DEF ControlType, ReaderPCs, WorkerPCs, AppPCs, yielding, results,
          stats, reader, worker, app
  <1>1. CASE ReaderTop BY <1>1 DEF ReaderTop
  <1>2. CASE SourceYields BY <1>2 DEF SourceYields
  <1>3. CASE SourceEnds BY <1>3 DEF SourceEnds
  <1>4. CASE SourceThrows BY <1>4 DEF SourceThrows
  <1>5. CASE ReaderOffer BY <1>5 DEF ReaderOffer
  <1>6. CASE ReaderPut BY <1>6 DEF ReaderPut
  <1>7. CASE ReaderPutTimeout BY <1>7 DEF ReaderPutTimeout
  <1>8. CASE ReaderEvict BY <1>8 DEF ReaderEvict
  <1>9. CASE ReaderFinish BY <1>9 DEF ReaderFinish, HowReaderEnds
  <1>10. CASE ReaderPutSentinel BY <1>10 DEF ReaderPutSentinel
  <1>11. CASE ReaderTerminal BY <1>11 DEF ReaderTerminal
  <1>12. CASE ReaderTerminalEvict BY <1>12 DEF ReaderTerminalEvict
  <1>13. CASE ReaderExit BY <1>13 DEF ReaderExit
  <1>14. CASE WorkerGet BY <1>14 DEF WorkerGet
  <1>15. CASE WorkerRuns BY <1>15 DEF WorkerRuns
  <1>16. CASE WorkerFails BY <1>16 DEF WorkerFails
  <1>17. CASE WorkerRelease BY <1>17 DEF WorkerRelease
  <1>18. CASE WorkerDrain BY <1>18 DEF WorkerDrain
  <1>19. CASE WorkerExit BY <1>19 DEF WorkerExit
  <1>20. CASE Start BY <1>20 DEF Start
  <1>21. CASE TakeLastResults BY <1>21 DEF TakeLastResults
  <1>22. CASE StopCall BY <1>22 DEF StopCall
  <1>23. CASE Destroy BY <1>23 DEF Destroy
  <1>24. CASE AppTerminal BY <1>24 DEF AppTerminal
  <1>25. CASE AppEvict BY <1>25 DEF AppEvict
  <1>26. CASE StopReturns BY <1>26 DEF StopReturns
  <1>27. CASE JoinReader BY <1>27 DEF JoinReader
  <1>28. CASE JoinWorker BY <1>28 DEF JoinWorker
  <1>29. CASE UNCHANGED vars BY <1>29 DEF vars
  <1> HIDE DEF ControlType
  <1> QED
    BY <1>1, <1>2, <1>3, <1>4, <1>5, <1>6, <1>7, <1>8, <1>9, <1>10, <1>11,
       <1>12, <1>13, <1>14, <1>15, <1>16, <1>17, <1>18, <1>19, <1>20, <1>21,
       <1>22, <1>23, <1>24, <1>25, <1>26, <1>27, <1>28, <1>29, NextCases

\* Every step leaves numbers, sequences and release counts in their types.
LEMMA DataStep == DataType /\ [Next]_vars => DataType'
  <1> SUFFICES ASSUME DataType, [Next]_vars PROVE DataType'
    OBVIOUS
  <1>a. \A item \in 0 .. MaxFrames : Closed(item) \in [Frames -> Nat]
    BY ClosedType DEF DataType
  <1>b. \A item \in 0 .. MaxFrames : Enqueued(item) \in Seq(0 .. MaxFrames)
    BY AppendFacts DEF DataType, Enqueued
  <1>c. q # <<>> => /\ Head(q) \in 0 .. MaxFrames
                    /\ Tail(q) \in Seq(0 .. MaxFrames)
    BY TailFacts DEF DataType
  <1>d. Captured(wframe) \in Seq(0 .. MaxFrames)
    BY CapturedFacts DEF DataType
  <1> USE DEF DataType, Sentinel, NoFrame, yielding, results, stats, reader,
          worker, app
  <1>1. CASE ReaderTop BY <1>1 DEF ReaderTop
  <1>2. CASE SourceYields BY <1>2, RunnerAssumption DEF SourceYields, Frames
  <1>3. CASE SourceEnds BY <1>3 DEF SourceEnds
  <1>4. CASE SourceThrows BY <1>4 DEF SourceThrows
  <1>5. CASE ReaderOffer BY <1>5, <1>a, RunnerAssumption DEF ReaderOffer
  <1>6. CASE ReaderPut BY <1>6, <1>b, RunnerAssumption DEF ReaderPut
  <1>7. CASE ReaderPutTimeout BY <1>7 DEF ReaderPutTimeout
  <1>8. CASE ReaderEvict BY <1>8, EvictType DEF ReaderEvict
  <1>9. CASE ReaderFinish BY <1>9 DEF ReaderFinish
  <1>10. CASE ReaderPutSentinel
    BY <1>10, <1>b, RunnerAssumption DEF ReaderPutSentinel
  <1>11. CASE ReaderTerminal
    BY <1>11, <1>b, RunnerAssumption DEF ReaderTerminal
  <1>12. CASE ReaderTerminalEvict BY <1>12, EvictType DEF ReaderTerminalEvict
  <1>13. CASE ReaderExit BY <1>13 DEF ReaderExit
  <1>14. CASE WorkerGet BY <1>14, <1>c DEF WorkerGet
  <1>15. CASE WorkerRuns BY <1>15, <1>d DEF WorkerRuns, AfterSuccess
  <1>16. CASE WorkerFails BY <1>16 DEF WorkerFails
  <1>17. CASE WorkerRelease BY <1>17, <1>a, RunnerAssumption DEF WorkerRelease
  <1>18. CASE WorkerDrain BY <1>18, <1>a, <1>c DEF WorkerDrain
  <1>19. CASE WorkerExit BY <1>19 DEF WorkerExit
  <1>20. CASE Start BY <1>20 DEF Start
  <1>21. CASE TakeLastResults BY <1>21 DEF TakeLastResults
  <1>22. CASE StopCall BY <1>22, RunnerAssumption DEF StopCall
  <1>23. CASE Destroy BY <1>23 DEF Destroy
  <1>24. CASE AppTerminal BY <1>24, <1>b, RunnerAssumption DEF AppTerminal
  <1>25. CASE AppEvict BY <1>25, EvictType DEF AppEvict
  <1>26. CASE StopReturns BY <1>26 DEF StopReturns
  <1>27. CASE JoinReader BY <1>27 DEF JoinReader
  <1>28. CASE JoinWorker BY <1>28 DEF JoinWorker
  <1>29. CASE UNCHANGED vars BY <1>29 DEF vars
  <1> HIDE DEF DataType
  <1> QED
    BY <1>1, <1>2, <1>3, <1>4, <1>5, <1>6, <1>7, <1>8, <1>9, <1>10, <1>11,
       <1>12, <1>13, <1>14, <1>15, <1>16, <1>17, <1>18, <1>19, <1>20, <1>21,
       <1>22, <1>23, <1>24, <1>25, <1>26, <1>27, <1>28, <1>29, NextCases

\* The runner's state always has its type.
THEOREM TypeCorrect == Spec => []TypeOK
  <1>1. Init => ControlType
    BY DEF Init, ControlType, ReaderPCs, WorkerPCs, AppPCs
  <1>2. Init => DataType
    BY RunnerAssumption DEF Init, DataType, NoFrame, Frames
  <1> QED BY <1>1, <1>2, ControlStep, DataStep, PTL DEF Spec, TypeOK

-----------------------------------------------------------------------------
(* Custody of the frames: order and exactly-once release *)

\* The application waits for the threads in the order the code says.
LEMMA AppOrderStep == AppOrder /\ [Next]_vars => AppOrder'
  <1> SUFFICES ASSUME AppOrder, [Next]_vars PROVE AppOrder'
    OBVIOUS
  <1> USE DEF AppOrder, yielding, results, stats, reader, worker, app
  <1>1. CASE ReaderTop BY <1>1 DEF ReaderTop
  <1>2. CASE SourceYields BY <1>2 DEF SourceYields
  <1>3. CASE SourceEnds BY <1>3 DEF SourceEnds
  <1>4. CASE SourceThrows BY <1>4 DEF SourceThrows
  <1>5. CASE ReaderOffer BY <1>5 DEF ReaderOffer
  <1>6. CASE ReaderPut BY <1>6 DEF ReaderPut
  <1>7. CASE ReaderPutTimeout BY <1>7 DEF ReaderPutTimeout
  <1>8. CASE ReaderEvict BY <1>8 DEF ReaderEvict, EvictOldest
  <1>9. CASE ReaderFinish BY <1>9 DEF ReaderFinish, HowReaderEnds
  <1>10. CASE ReaderPutSentinel BY <1>10 DEF ReaderPutSentinel
  <1>11. CASE ReaderTerminal BY <1>11 DEF ReaderTerminal
  <1>12. CASE ReaderTerminalEvict BY <1>12 DEF ReaderTerminalEvict, EvictOldest
  <1>13. CASE ReaderExit BY <1>13 DEF ReaderExit
  <1>14. CASE WorkerGet BY <1>14 DEF WorkerGet
  <1>15. CASE WorkerRuns BY <1>15 DEF WorkerRuns
  <1>16. CASE WorkerFails BY <1>16 DEF WorkerFails
  <1>17. CASE WorkerRelease BY <1>17 DEF WorkerRelease
  <1>18. CASE WorkerDrain BY <1>18 DEF WorkerDrain
  <1>19. CASE WorkerExit BY <1>19 DEF WorkerExit
  <1>20. CASE Start BY <1>20 DEF Start
  <1>21. CASE TakeLastResults BY <1>21 DEF TakeLastResults
  <1>22. CASE StopCall BY <1>22 DEF StopCall
  <1>23. CASE Destroy BY <1>23 DEF Destroy
  <1>24. CASE AppTerminal BY <1>24 DEF AppTerminal
  <1>25. CASE AppEvict BY <1>25 DEF AppEvict, EvictOldest
  <1>26. CASE StopReturns BY <1>26 DEF StopReturns
  <1>27. CASE JoinReader BY <1>27 DEF JoinReader, ReaderJoined
  <1>28. CASE JoinWorker BY <1>28 DEF JoinWorker
  <1>29. CASE UNCHANGED vars BY <1>29 DEF vars
  <1> HIDE DEF AppOrder
  <1> QED
    BY <1>1, <1>2, <1>3, <1>4, <1>5, <1>6, <1>7, <1>8, <1>9, <1>10, <1>11,
       <1>12, <1>13, <1>14, <1>15, <1>16, <1>17, <1>18, <1>19, <1>20, <1>21,
       <1>22, <1>23, <1>24, <1>25, <1>26, <1>27, <1>28, <1>29, NextCases

\* Every step keeps the control points and the frames they hold in step.
LEMMA HoldingStep == Holding /\ DataType /\ AppOrder /\ [Next]_vars => Holding'
  <1> SUFFICES ASSUME Holding, DataType, AppOrder, [Next]_vars PROVE Holding'
    OBVIOUS
  <1> USE DEF Holding, NoFrame, Sentinel, yielding, results, stats, reader,
          worker, app
  <1>1. CASE ReaderTop BY <1>1 DEF ReaderTop
  <1>2. CASE SourceYields BY <1>2, RunnerAssumption DEF SourceYields, DataType
  <1>3. CASE SourceEnds BY <1>3 DEF SourceEnds
  <1>4. CASE SourceThrows BY <1>4 DEF SourceThrows
  <1>5. CASE ReaderOffer BY <1>5 DEF ReaderOffer
  <1>6. CASE ReaderPut BY <1>6 DEF ReaderPut
  <1>7. CASE ReaderPutTimeout BY <1>7 DEF ReaderPutTimeout
  <1>8. CASE ReaderEvict BY <1>8 DEF ReaderEvict
  <1>9. CASE ReaderFinish BY <1>9 DEF ReaderFinish, HowReaderEnds
  <1>10. CASE ReaderPutSentinel BY <1>10 DEF ReaderPutSentinel
  <1>11. CASE ReaderTerminal BY <1>11 DEF ReaderTerminal
  <1>12. CASE ReaderTerminalEvict BY <1>12 DEF ReaderTerminalEvict
  <1>13. CASE ReaderExit BY <1>13 DEF ReaderExit
  <1>14. CASE WorkerGet BY <1>14 DEF WorkerGet
  <1>15. CASE WorkerRuns BY <1>15 DEF WorkerRuns
  <1>16. CASE WorkerFails BY <1>16 DEF WorkerFails
  <1>17. CASE WorkerRelease BY <1>17 DEF WorkerRelease
  <1>18. CASE WorkerDrain BY <1>18 DEF WorkerDrain
  <1>19. CASE WorkerExit BY <1>19 DEF WorkerExit
  <1>20. CASE Start BY <1>20 DEF Start, AppOrder
  <1>21. CASE TakeLastResults BY <1>21 DEF TakeLastResults
  <1>22. CASE StopCall BY <1>22 DEF StopCall
  <1>23. CASE Destroy BY <1>23 DEF Destroy
  <1>24. CASE AppTerminal BY <1>24 DEF AppTerminal
  <1>25. CASE AppEvict BY <1>25 DEF AppEvict
  <1>26. CASE StopReturns BY <1>26 DEF StopReturns
  <1>27. CASE JoinReader BY <1>27 DEF JoinReader
  <1>28. CASE JoinWorker BY <1>28 DEF JoinWorker
  <1>29. CASE UNCHANGED vars BY <1>29 DEF vars
  <1> HIDE DEF Holding
  <1> QED
    BY <1>1, <1>2, <1>3, <1>4, <1>5, <1>6, <1>7, <1>8, <1>9, <1>10, <1>11,
       <1>12, <1>13, <1>14, <1>15, <1>16, <1>17, <1>18, <1>19, <1>20, <1>21,
       <1>22, <1>23, <1>24, <1>25, <1>26, <1>27, <1>28, <1>29, NextCases

\* A step that touches no frame, no queue and no count keeps custody.
LEMMA CustodyStays ==
    ASSUME Custody, UNCHANGED <<q, rframe, wframe, produced, closes>>
    PROVE  Custody'
  BY DEF Custody, Yielded, InOrder, CountsExact, Held, Queued

\* Taking the oldest item out and releasing it keeps custody.
LEMMA CustodyTake ==
    ASSUME DataType, Custody, q # <<>>, q' = Tail(q),
           closes' = Closed(Head(q)), UNCHANGED <<rframe, wframe, produced>>
    PROVE  Custody'
  <1>1. /\ Len(q) \in Nat \ {0} /\ Head(q) = q[1] /\ Head(q) \in 0 .. MaxFrames
        /\ Len(Tail(q)) = Len(q) - 1
        /\ \A i \in 1 .. Len(Tail(q)) : Tail(q)[i] = q[i + 1]
    BY TailFacts DEF DataType
  <1>2. Yielded'
    BY <1>1 DEF Custody, Yielded
  <1>3. InOrder'
    BY <1>1 DEF Custody, InOrder
  <1>4. \A f \in Frames : Queued(f)' <=> Queued(f) /\ f # Head(q)
    BY <1>1, HeadLeaves DEF Custody
  <1>5. Head(q) # Sentinel =>
           Head(q) <= produced /\ Head(q) # rframe /\ Head(q) # wframe
    BY <1>1 DEF Custody, Yielded, InOrder, DataType, Sentinel, NoFrame
  <1>6. Head(q) # Sentinel => Queued(Head(q))
    BY <1>1 DEF Queued
  <1>7. \A f \in Frames :
           closes'[f] = IF f = Head(q) THEN closes[f] + 1 ELSE closes[f]
    BY <1>1, ClosedType DEF DataType
  <1>8. CountsExact'
    BY <1>4, <1>5, <1>6, <1>7, RunnerAssumption
       DEF Custody, CountsExact, Held, Frames, Sentinel
  <1> QED BY <1>2, <1>3, <1>8 DEF Custody

\* Adding a sentinel keeps custody: it is no frame.
LEMMA CustodySentinel ==
    ASSUME DataType, Custody, q' = Enqueued(Sentinel),
           UNCHANGED <<rframe, wframe, produced, closes>>
    PROVE  Custody'
  <1>1. /\ Len(q) \in Nat /\ Len(q') = Len(q) + 1
        /\ \A i \in 1 .. Len(q) : q'[i] = q[i]
        /\ q'[Len(q) + 1] = Sentinel
    BY AppendFacts, RunnerAssumption DEF DataType, Enqueued, Sentinel
  <1>2. Yielded'
    BY <1>1, RunnerAssumption DEF Custody, Yielded, DataType, Sentinel
  <1>3. InOrder'
    BY <1>1 DEF Custody, InOrder, Sentinel
  <1>4. \A f \in Frames : Queued(f)' <=> Queued(f)
    BY <1>1, RunnerAssumption DEF Queued, Frames, Sentinel
  <1>5. CountsExact'
    BY <1>4 DEF Custody, CountsExact, Held
  <1> QED BY <1>2, <1>3, <1>5 DEF Custody

\* Every step keeps every frame in exactly one place.
LEMMA CustodyStep == DataType /\ Holding /\ Custody /\ [Next]_vars => Custody'
  <1> SUFFICES ASSUME DataType, Holding, Custody, [Next]_vars PROVE Custody'
    OBVIOUS
  <1> USE DEF yielding, results, stats, reader, worker, app
  <1>1. CASE ReaderTop BY <1>1, CustodyStays DEF ReaderTop
  <1>2. CASE SourceYields
    <2>1. /\ produced \in Nat /\ produced + 1 \in Frames /\ rframe = NoFrame
          /\ produced' = produced + 1 /\ rframe' = produced + 1
          /\ UNCHANGED <<q, wframe, closes>>
      BY <1>2, RunnerAssumption
         DEF SourceYields, DataType, Frames, Holding, NoFrame
    <2>a. \A i \in 1 .. Len(q) : q[i] \in Nat /\ q[i] <= produced
      BY ElementOfSeq, RunnerAssumption DEF Custody, Yielded, DataType
    <2>b. wframe \in Nat /\ wframe <= produced
      BY RunnerAssumption DEF Custody, Yielded, DataType
    <2>2. Yielded'
      BY <2>1, <2>a, <2>b DEF Yielded
    <2>3. InOrder'
      BY <2>1, <2>a, <2>b DEF Custody, InOrder
    <2>4. CountsExact'
      BY <2>1, <2>a, <2>b, RunnerAssumption
         DEF Custody, Yielded, CountsExact, Held, Queued, Frames, DataType, NoFrame
    <2> QED BY <2>2, <2>3, <2>4 DEF Custody
  <1>3. CASE SourceEnds BY <1>3, CustodyStays DEF SourceEnds
  <1>4. CASE SourceThrows BY <1>4, CustodyStays DEF SourceThrows
  <1>5. CASE ReaderOffer
    <2>1. CASE UNCHANGED <<rframe, closes>>
      BY <1>5, <2>1, CustodyStays DEF ReaderOffer
    <2>2. CASE rframe' = NoFrame /\ closes' = Closed(rframe)
      <3>1. UNCHANGED <<q, wframe, produced>> /\ rframe # NoFrame
        BY <1>5 DEF ReaderOffer, Holding
      <3>2. Yielded' /\ InOrder'
        BY <2>2, <3>1 DEF Custody, Yielded, InOrder
      <3>3. rframe = produced /\ rframe # wframe /\ ~Queued(rframe)
        BY <3>1 DEF Custody, Yielded, InOrder, Queued, DataType, NoFrame, Sentinel
      <3>4. \A f \in Frames :
               closes'[f] = IF f = rframe THEN closes[f] + 1 ELSE closes[f]
        BY <2>2, ClosedType DEF DataType
      <3>5. CountsExact'
        BY <2>2, <3>1, <3>3, <3>4, RunnerAssumption
           DEF Custody, CountsExact, Held, Queued, Frames, NoFrame, DataType
      <3> QED BY <3>2, <3>5 DEF Custody
    <2> QED BY <1>5, <2>1, <2>2 DEF ReaderOffer
  <1>6. CASE ReaderPut
    <2>1. /\ rframe # NoFrame /\ rframe' = NoFrame /\ q' = Append(q, rframe)
          /\ UNCHANGED <<wframe, produced, closes>>
      BY <1>6 DEF ReaderPut, Holding, Enqueued
    <2>2. /\ Len(q) \in Nat /\ Len(q') = Len(q) + 1
          /\ \A i \in 1 .. Len(q) : q'[i] = q[i]
          /\ q'[Len(q) + 1] = rframe
      BY <2>1, AppendFacts DEF DataType
    <2>3. Yielded'
      BY <2>1, <2>2 DEF Custody, Yielded, DataType
    <2>4. InOrder'
      BY <2>1, <2>2 DEF Custody, InOrder, Sentinel, NoFrame
    <2>5. \A f \in Frames : Held(f)' <=> Held(f)
      BY <2>1, <2>2, RunnerAssumption DEF Held, Queued, Frames, NoFrame
    <2>6. CountsExact'
      BY <2>1, <2>5 DEF Custody, CountsExact
    <2> QED BY <2>3, <2>4, <2>6 DEF Custody
  <1>7. CASE ReaderPutTimeout BY <1>7, CustodyStays DEF ReaderPutTimeout
  <1>8. CASE ReaderEvict
    BY <1>8, CustodyTake, CustodyStays DEF ReaderEvict, EvictOldest
  <1>9. CASE ReaderFinish BY <1>9, CustodyStays DEF ReaderFinish
  <1>10. CASE ReaderPutSentinel BY <1>10, CustodySentinel DEF ReaderPutSentinel
  <1>11. CASE ReaderTerminal
    BY <1>11, CustodySentinel, CustodyStays DEF ReaderTerminal
  <1>12. CASE ReaderTerminalEvict
    BY <1>12, CustodyTake, CustodyStays DEF ReaderTerminalEvict, EvictOldest
  <1>13. CASE ReaderExit BY <1>13, CustodyStays DEF ReaderExit
  <1>14. CASE WorkerGet
    <2>1. /\ wframe = NoFrame /\ q # <<>> /\ q' = Tail(q) /\ wframe' = Head(q)
          /\ UNCHANGED <<rframe, produced, closes>>
      BY <1>14 DEF WorkerGet, Holding
    <2>2. /\ Len(q) \in Nat \ {0} /\ Head(q) = q[1]
          /\ Head(q) \in 0 .. MaxFrames /\ Len(q') = Len(q) - 1
          /\ \A i \in 1 .. Len(q') : q'[i] = q[i + 1]
      BY <2>1, TailFacts DEF DataType
    <2>3. Yielded'
      BY <2>1, <2>2 DEF Custody, Yielded
    <2>4. InOrder'
      BY SMTT(30), <2>1, <2>2, RunnerAssumption
         DEF Custody, InOrder, DataType, Sentinel, NoFrame
    <2>5. \A f \in Frames : Queued(f)' <=> Queued(f) /\ f # Head(q)
      BY <2>1, HeadLeaves DEF Custody
    <2>6. Head(q) # Sentinel => Queued(Head(q))
      BY <2>2 DEF Queued
    <2>7. \A f \in Frames : Held(f)' <=> Held(f)
      BY <2>1, <2>5, <2>6, RunnerAssumption DEF Held, Frames, NoFrame, Sentinel
    <2>8. CountsExact'
      BY <2>1, <2>7 DEF Custody, CountsExact
    <2> QED BY <2>3, <2>4, <2>8 DEF Custody
  <1>15. CASE WorkerRuns BY <1>15, CustodyStays DEF WorkerRuns
  <1>16. CASE WorkerFails BY <1>16, CustodyStays DEF WorkerFails
  <1>17. CASE WorkerRelease
    <2>1. /\ wframe # NoFrame /\ wframe' = NoFrame /\ closes' = Closed(wframe)
          /\ UNCHANGED <<q, rframe, produced>>
      BY <1>17 DEF WorkerRelease, Holding
    <2>2. Yielded' /\ InOrder'
      BY <2>1, RunnerAssumption DEF Custody, Yielded, InOrder, DataType, NoFrame, Sentinel
    <2>3. wframe <= produced /\ rframe # wframe /\ ~Queued(wframe)
      BY <2>1 DEF Custody, Yielded, InOrder, Queued, DataType, NoFrame, Sentinel
    <2>4. \A f \in Frames :
             closes'[f] = IF f = wframe THEN closes[f] + 1 ELSE closes[f]
      BY <2>1, ClosedType DEF DataType
    <2>5. CountsExact'
      BY <2>1, <2>3, <2>4, RunnerAssumption
         DEF Custody, CountsExact, Held, Queued, Frames, NoFrame, DataType
    <2> QED BY <2>2, <2>5 DEF Custody
  <1>18. CASE WorkerDrain BY <1>18, CustodyTake, CustodyStays DEF WorkerDrain
  <1>19. CASE WorkerExit BY <1>19, CustodyStays DEF WorkerExit
  <1>20. CASE Start BY <1>20, CustodyStays DEF Start
  <1>21. CASE TakeLastResults BY <1>21, CustodyStays DEF TakeLastResults
  <1>22. CASE StopCall BY <1>22, CustodyStays DEF StopCall
  <1>23. CASE Destroy BY <1>23, CustodyStays DEF Destroy
  <1>24. CASE AppTerminal
    BY <1>24, CustodySentinel, CustodyStays DEF AppTerminal
  <1>25. CASE AppEvict
    BY <1>25, CustodyTake, CustodyStays DEF AppEvict, EvictOldest
  <1>26. CASE StopReturns BY <1>26, CustodyStays DEF StopReturns
  <1>27. CASE JoinReader BY <1>27, CustodyStays DEF JoinReader
  <1>28. CASE JoinWorker
    <2>1. /\ q' = <<>> /\ UNCHANGED <<rframe, wframe, produced>>
          /\ \A f \in Frames :
                closes'[f] = IF Queued(f) THEN closes[f] + 1 ELSE closes[f]
      BY <1>28 DEF JoinWorker, Queued
    <2>2. Len(q') = 0
      BY <2>1
    <2>3. Yielded' /\ InOrder'
      BY <2>1, <2>2 DEF Custody, Yielded, InOrder
    <2>4. \A f \in Frames : ~(Queued(f)')
      BY <2>2 DEF Queued
    <2>5. \A f \in Frames :
             Queued(f) => f <= produced /\ f # rframe /\ f # wframe
      BY RunnerAssumption
         DEF Custody, Yielded, InOrder, Queued, DataType, Frames, NoFrame, Sentinel
    <2>6. CountsExact'
      BY <2>1, <2>4, <2>5 DEF Custody, CountsExact, Held
    <2> QED BY <2>3, <2>6 DEF Custody
  <1>29. CASE UNCHANGED vars BY <1>29, CustodyStays DEF vars
  <1> QED
    BY <1>1, <1>2, <1>3, <1>4, <1>5, <1>6, <1>7, <1>8, <1>9, <1>10, <1>11,
       <1>12, <1>13, <1>14, <1>15, <1>16, <1>17, <1>18, <1>19, <1>20, <1>21,
       <1>22, <1>23, <1>24, <1>25, <1>26, <1>27, <1>28, <1>29, NextCases

\* No frame is released twice, none is released while it is held, none is
\* forgotten: runner.hpp's frame ownership, for every size of everything.
THEOREM FramesReleasedOnce == Spec => []ReleasedOnce
  <1>1. Init => AppOrder /\ Holding /\ Custody
    BY RunnerAssumption
       DEF Init, AppOrder, Holding, Custody, Yielded, InOrder, CountsExact, Held,
           Queued, NoFrame, Frames
  <1>2. DataType /\ Custody => ReleasedOnce
    BY DEF DataType, Custody, CountsExact, InOrder, ReleasedOnce, Queued,
           NoFrame, Sentinel
  <1> QED
    BY <1>1, <1>2, TypeCorrect, AppOrderStep, HoldingStep, CustodyStep, PTL
       DEF Spec, TypeOK

\* Both of these.
THEOREM FramesAreSound == Spec => []FramesSound
  BY TypeCorrect, FramesReleasedOnce, PTL DEF FramesSound

\* Frames are processed in the order in which the source yielded them.
THEOREM FramesInOrder == Spec => []InOrder
  <1>1. Init => AppOrder /\ Holding /\ Custody
    BY RunnerAssumption
       DEF Init, AppOrder, Holding, Custody, Yielded, InOrder, CountsExact, Held,
           Queued, NoFrame, Frames
  <1>2. Custody => InOrder
    BY DEF Custody
  <1> QED
    BY <1>1, <1>2, TypeCorrect, AppOrderStep, HoldingStep, CustodyStep, PTL
       DEF Spec, TypeOK

-----------------------------------------------------------------------------
(* Ending: the sentinel arrives, the drain is complete *)

\* What the queue looks like after each of the three ways to change it.
LEMMA QueueFacts ==
    ASSUME DataType
    PROVE  /\ Len(q) \in Nat
           /\ q = <<>> <=> Len(q) = 0
           /\ \A item \in 0 .. MaxFrames :
                 /\ Len(Enqueued(item)) = Len(q) + 1
                 /\ \A i \in 1 .. Len(q) : Enqueued(item)[i] = q[i]
                 /\ Enqueued(item)[Len(q) + 1] = item
           /\ q # <<>> => /\ Head(q) = q[1]
                          /\ Len(Tail(q)) = Len(q) - 1
                          /\ \A i \in 1 .. Len(q) - 1 : Tail(q)[i] = q[i + 1]
  BY AppendFacts, TailFacts DEF DataType, Enqueued

\* The queue never outgrows its capacity, nor the capture its own.
THEOREM RunnerBounded == Spec => []Bounded
  <1>1. Init => Bounded
    BY RunnerAssumption DEF Init, Bounded
  <1>2. DataType /\ Bounded /\ [Next]_vars => Bounded'
    <2> SUFFICES ASSUME DataType, Bounded, [Next]_vars PROVE Bounded'
      OBVIOUS
    <2>1. Len(last_results') <= LastResultsKeep
      <3>1. CASE UNCHANGED last_results
        BY <3>1 DEF Bounded
      <3>2. CASE last_results' = <<>>
        BY <3>2, RunnerAssumption
      <3>3. CASE last_results' = Captured(wframe)
        BY <3>3, CapturedFacts DEF DataType
      <3> QED
        BY <3>1, <3>2, <3>3, NextCases DEF ReaderTop, SourceYields, SourceEnds,
           SourceThrows, ReaderOffer, ReaderPut, ReaderPutTimeout, ReaderEvict,
           ReaderFinish, ReaderPutSentinel, ReaderTerminal,
           ReaderTerminalEvict, ReaderExit, WorkerGet, WorkerRuns, WorkerFails,
           WorkerRelease, WorkerDrain, WorkerExit, Start, TakeLastResults,
           StopCall, Destroy, AppTerminal, AppEvict, StopReturns, JoinReader,
           JoinWorker, vars, worker, results
    <2>2. Len(q') <= QueueSize
      <3>1. CASE UNCHANGED q
        BY <3>1 DEF Bounded
      <3>2. CASE q' = <<>>
        BY <3>2, RunnerAssumption
      <3>3. CASE q # <<>> /\ q' = Tail(q)
        BY <3>3, QueueFacts, RunnerAssumption DEF Bounded
      <3>4. CASE ~Full /\ q' = Enqueued(rframe)
        BY <3>4, QueueFacts, RunnerAssumption DEF Full, DataType
      <3>5. CASE ~Full /\ q' = Enqueued(Sentinel)
        BY <3>5, QueueFacts, RunnerAssumption DEF Full, Sentinel
      <3> QED
        BY <3>1, <3>2, <3>3, <3>4, <3>5, NextCases DEF ReaderTop, SourceYields, SourceEnds,
           SourceThrows, ReaderOffer, ReaderPut, ReaderPutTimeout, ReaderEvict,
           ReaderFinish, ReaderPutSentinel, ReaderTerminal,
           ReaderTerminalEvict, ReaderExit, WorkerGet, WorkerRuns, WorkerFails,
           WorkerRelease, WorkerDrain, WorkerExit, Start, TakeLastResults,
           StopCall, Destroy, AppTerminal, AppEvict, StopReturns, JoinReader,
           JoinWorker, vars, EvictOldest
    <2> QED BY <2>1, <2>2 DEF Bounded
  <1> QED BY <1>1, <1>2, TypeCorrect, PTL DEF Spec, TypeOK

\* Every step leaves a sentinel for a worker that is still consuming.
LEMMA SentinelStep == DataType /\ NoLostSentinel /\ [Next]_vars => NoLostSentinel'
  <1> SUFFICES ASSUME DataType, NoLostSentinel, [Next]_vars
               PROVE  NoLostSentinel'
    OBVIOUS
  <1>a. Sentinel \in 0 .. MaxFrames
    BY RunnerAssumption DEF Sentinel
  <1>b. (Queued(Sentinel) /\ UNCHANGED q) => Queued(Sentinel)'
    BY DEF Queued
  <1>c. q' = Enqueued(Sentinel) => Queued(Sentinel)'
    <2> SUFFICES ASSUME q' = Enqueued(Sentinel) PROVE Queued(Sentinel)'
      OBVIOUS
    <2>1. Len(q) + 1 \in 1 .. Len(q') /\ q'[Len(q) + 1] = Sentinel
      BY <1>a, QueueFacts
    <2> QED BY <2>1 DEF Queued
  <1>d. q # <<>> /\ q' = Tail(q) /\ Head(q) # Sentinel /\ Queued(Sentinel)
           => Queued(Sentinel)'
    <2> SUFFICES ASSUME q # <<>>, q' = Tail(q), Head(q) # Sentinel,
                        NEW i \in 1 .. Len(q), q[i] = Sentinel
                 PROVE  Queued(Sentinel)'
      BY DEF Queued
    <2>1. i - 1 \in 1 .. Len(q') /\ q'[i - 1] = Sentinel
      BY QueueFacts
    <2> QED BY <2>1 DEF Queued
  <1> USE DEF NoLostSentinel, yielding, results, stats, reader, worker, app
  <1>1. CASE ReaderTop BY <1>1, <1>b DEF ReaderTop
  <1>2. CASE SourceYields BY <1>2, <1>b DEF SourceYields
  <1>3. CASE SourceEnds BY <1>3, <1>b DEF SourceEnds
  <1>4. CASE SourceThrows BY <1>4, <1>b DEF SourceThrows
  <1>5. CASE ReaderOffer BY <1>5, <1>b DEF ReaderOffer
  <1>6. CASE ReaderPut BY <1>6, <1>b DEF ReaderPut
  <1>7. CASE ReaderPutTimeout BY <1>7, <1>b DEF ReaderPutTimeout
  <1>8. CASE ReaderEvict BY <1>8, <1>b DEF ReaderEvict, EvictOldest
  <1>9. CASE ReaderFinish BY <1>9, <1>b DEF ReaderFinish, HowReaderEnds
  <1>10. CASE ReaderPutSentinel BY <1>10, <1>c DEF ReaderPutSentinel
  <1>11. CASE ReaderTerminal BY <1>11, <1>b, <1>c DEF ReaderTerminal
  <1>12. CASE ReaderTerminalEvict
    BY <1>12, <1>b DEF ReaderTerminalEvict, EvictOldest
  <1>13. CASE ReaderExit BY <1>13, <1>b DEF ReaderExit
  <1>14. CASE WorkerGet BY <1>14, <1>d DEF WorkerGet
  <1>15. CASE WorkerRuns BY <1>15, <1>b DEF WorkerRuns
  <1>16. CASE WorkerFails BY <1>16, <1>b DEF WorkerFails
  <1>17. CASE WorkerRelease BY <1>17, <1>b DEF WorkerRelease
  <1>18. CASE WorkerDrain BY <1>18, <1>b DEF WorkerDrain
  <1>19. CASE WorkerExit BY <1>19, <1>b DEF WorkerExit
  <1>20. CASE Start BY <1>20, <1>b DEF Start
  <1>21. CASE TakeLastResults BY <1>21, <1>b DEF TakeLastResults
  <1>22. CASE StopCall BY <1>22, <1>b DEF StopCall
  <1>23. CASE Destroy BY <1>23, <1>b DEF Destroy
  <1>24. CASE AppTerminal BY <1>24, <1>b, <1>c DEF AppTerminal
  <1>25. CASE AppEvict BY <1>25, <1>b DEF AppEvict, EvictOldest
  <1>26. CASE StopReturns BY <1>26, <1>b DEF StopReturns
  <1>27. CASE JoinReader BY <1>27, <1>b DEF JoinReader
  <1>28. CASE JoinWorker BY <1>28, <1>b DEF JoinWorker
  <1>29. CASE UNCHANGED vars BY <1>29, <1>b DEF vars
  <1> HIDE DEF NoLostSentinel
  <1> QED
    BY <1>1, <1>2, <1>3, <1>4, <1>5, <1>6, <1>7, <1>8, <1>9, <1>10, <1>11,
       <1>12, <1>13, <1>14, <1>15, <1>16, <1>17, <1>18, <1>19, <1>20, <1>21,
       <1>22, <1>23, <1>24, <1>25, <1>26, <1>27, <1>28, <1>29, NextCases

\* The sentinel cannot get lost, whoever sheds what.
THEOREM SentinelNotLost == Spec => []NoLostSentinel
  <1>1. Init => NoLostSentinel
    BY DEF Init, NoLostSentinel
  <1> QED BY <1>1, SentinelStep, TypeCorrect, PTL DEF Spec, TypeOK

\* Every step keeps the end of the run quiet until somebody asks for a stop.
LEMMA QuietStep ==
    DataType /\ ControlType /\ Holding /\ AppOrder /\ QuietEnd /\ [Next]_vars
        => QuietEnd'
  <1> SUFFICES ASSUME DataType, ControlType, Holding, AppOrder, QuietEnd,
                      [Next]_vars
               PROVE  QuietEnd'
    OBVIOUS
  <1>a. Sentinel \in 0 .. MaxFrames
    BY RunnerAssumption DEF Sentinel
  <1>b. CASE stop_flag'
    BY <1>b DEF QuietEnd
  <1>c. CASE ~stop_flag'
    <2> USE <1>a, <1>c, QueueFacts DEF QuietEnd, yielding, results, stats,
            reader, worker, app
    <2>1. CASE ReaderTop BY <2>1 DEF ReaderTop
    <2>2. CASE SourceYields BY <2>2 DEF SourceYields
    <2>3. CASE SourceEnds BY <2>3 DEF SourceEnds
    <2>4. CASE SourceThrows BY <2>4 DEF SourceThrows
    <2>5. CASE ReaderOffer BY <2>5 DEF ReaderOffer
    <2>6. CASE ReaderPut
      <3>1. /\ rpc = "put" /\ rframe # Sentinel /\ q' = Enqueued(rframe)
            /\ UNCHANGED <<wpc, apc, stop_flag>> /\ rpc' = "top"
        BY <2>6 DEF ReaderPut, Holding, NoFrame, Sentinel
      <3>2. /\ rframe \in 0 .. MaxFrames /\ Len(q') = Len(q) + 1
            /\ \A i \in 1 .. Len(q) : q'[i] = q[i]
            /\ q'[Len(q) + 1] = rframe
        BY <3>1 DEF DataType
      <3>3. \A i \in 1 .. Len(q) : q[i] # Sentinel
        BY <3>1
      <3>4. \A i \in 1 .. Len(q') : q'[i] # Sentinel
        BY <3>1, <3>2, <3>3
      <3> QED BY <3>1, <3>4
    <2>7. CASE ReaderPutTimeout BY <2>7 DEF ReaderPutTimeout
    <2>8. CASE ReaderEvict BY SMTT(30), <2>8 DEF ReaderEvict, EvictOldest
    <2>9. CASE ReaderFinish BY <2>9 DEF ReaderFinish, HowReaderEnds
    <2>10. CASE ReaderPutSentinel BY <2>10 DEF ReaderPutSentinel
    <2>11. CASE ReaderTerminal BY <2>11 DEF ReaderTerminal
    <2>12. CASE ReaderTerminalEvict BY SMTT(30), <2>12 DEF ReaderTerminalEvict, EvictOldest
    <2>13. CASE ReaderExit BY <2>13 DEF ReaderExit
    <2>14. CASE WorkerGet BY <2>14 DEF WorkerGet
    <2>15. CASE WorkerRuns BY <2>15 DEF WorkerRuns
    <2>16. CASE WorkerFails BY <2>16 DEF WorkerFails
    <2>17. CASE WorkerRelease BY <2>17 DEF WorkerRelease
    <2>18. CASE WorkerDrain BY <2>18 DEF WorkerDrain
    <2>19. CASE WorkerExit BY <2>19 DEF WorkerExit
    <2>20. CASE Start BY <2>20 DEF Start, AppOrder
    <2>21. CASE TakeLastResults BY <2>21 DEF TakeLastResults
    <2>22. CASE StopCall BY <2>22 DEF StopCall
    <2>23. CASE Destroy BY <2>23 DEF Destroy
    <2>24. CASE AppTerminal BY <2>24 DEF AppTerminal
    <2>25. CASE AppEvict BY <2>25 DEF AppEvict, EvictOldest
    <2>26. CASE StopReturns BY <2>26 DEF StopReturns
    <2>27. CASE JoinReader BY <2>27 DEF JoinReader
    <2>28. CASE JoinWorker BY <2>28 DEF JoinWorker
    <2>29. CASE UNCHANGED vars BY <2>29 DEF vars
    <2> HIDE DEF QuietEnd
    <2> QED
      BY <2>1, <2>2, <2>3, <2>4, <2>5, <2>6, <2>7, <2>8, <2>9, <2>10, <2>11,
         <2>12, <2>13, <2>14, <2>15, <2>16, <2>17, <2>18, <2>19, <2>20, <2>21,
         <2>22, <2>23, <2>24, <2>25, <2>26, <2>27, <2>28, <2>29, NextCases
  <1> QED BY <1>b, <1>c

\* Every step keeps the bound on what is left after the worker's drain.
LEMMA LeftoverStep ==
    DataType /\ Holding /\ AppOrder /\ QuietEnd /\ LoopLeftovers
        /\ AtMostOneLeftover /\ [Next]_vars
            => LoopLeftovers' /\ AtMostOneLeftover'
  <1> DEFINE Inv == LoopLeftovers /\ AtMostOneLeftover
  <1> SUFFICES ASSUME DataType, Holding, AppOrder, QuietEnd, Inv, [Next]_vars
               PROVE  Inv'
    OBVIOUS
  <1>a. Sentinel \in 0 .. MaxFrames
    BY RunnerAssumption DEF Sentinel
  <1> USE <1>a, QueueFacts DEF LoopLeftovers, AtMostOneLeftover, yielding,
          results, stats, reader, worker, app
  <1>1. CASE ReaderTop BY <1>1 DEF ReaderTop, QuietEnd
  <1>2. CASE SourceYields BY <1>2 DEF SourceYields
  <1>3. CASE SourceEnds BY <1>3 DEF SourceEnds
  <1>4. CASE SourceThrows BY <1>4 DEF SourceThrows
  <1>5. CASE ReaderOffer BY <1>5 DEF ReaderOffer, QuietEnd
  <1>6. CASE ReaderPut BY SMTT(30), <1>6 DEF ReaderPut, Holding, DataType, NoFrame
  <1>7. CASE ReaderPutTimeout BY <1>7 DEF ReaderPutTimeout
  <1>8. CASE ReaderEvict
    <2>1. CASE q # <<>> /\ q' = Tail(q)
      <3>1. /\ Len(q') = Len(q) - 1
            /\ \A i \in 1 .. Len(q') : q'[i] = q[i + 1] /\ i + 1 \in 1 .. Len(q)
        BY <2>1
      <3>2. /\ UNCHANGED wpc
            /\ rpc' \in {"source", "offer", "put", "evict"} =>
                  rpc \in {"source", "offer", "put", "evict"}
        BY <1>8 DEF ReaderEvict
      <3>3. LoopLeftovers'
        BY <3>1, <3>2
      <3>4. AtMostOneLeftover'
        BY <3>1, <3>2
      <3> QED BY <3>3, <3>4
    <2>2. CASE UNCHANGED q
      BY <1>8, <2>2 DEF ReaderEvict
    <2> QED BY <1>8, <2>1, <2>2 DEF ReaderEvict, EvictOldest
  <1>9. CASE ReaderFinish BY <1>9 DEF ReaderFinish, HowReaderEnds
  <1>10. CASE ReaderPutSentinel BY <1>10 DEF ReaderPutSentinel
  <1>11. CASE ReaderTerminal
    <2>1. CASE q' = Enqueued(Sentinel)
      <3>1. /\ Len(q') = Len(q) + 1 /\ q'[Len(q) + 1] = Sentinel
            /\ \A i \in 1 .. Len(q) : q'[i] = q[i]
        BY <2>1
      <3>2. UNCHANGED wpc /\ (UNCHANGED rpc \/ rpc' \in {"exiting", "terminal_evict"})
        BY <1>11 DEF ReaderTerminal
      <3> QED BY <3>1, <3>2
    <2>2. CASE UNCHANGED q
      BY <1>11, <2>2 DEF ReaderTerminal
    <2> QED BY <1>11, <2>1, <2>2 DEF ReaderTerminal
  <1>12. CASE ReaderTerminalEvict
    <2>1. CASE q # <<>> /\ q' = Tail(q)
      <3>1. /\ Len(q') = Len(q) - 1
            /\ \A i \in 1 .. Len(q') : q'[i] = q[i + 1] /\ i + 1 \in 1 .. Len(q)
        BY <2>1
      <3>2. /\ UNCHANGED wpc
            /\ rpc' \in {"source", "offer", "put", "evict"} =>
                  rpc \in {"source", "offer", "put", "evict"}
        BY <1>12 DEF ReaderTerminalEvict
      <3>3. LoopLeftovers'
        BY <3>1, <3>2
      <3>4. AtMostOneLeftover'
        BY <3>1, <3>2
      <3> QED BY <3>3, <3>4
    <2>2. CASE UNCHANGED q
      BY <1>12, <2>2 DEF ReaderTerminalEvict
    <2> QED BY <1>12, <2>1, <2>2 DEF ReaderTerminalEvict, EvictOldest
  <1>13. CASE ReaderExit BY <1>13 DEF ReaderExit
  <1>14. CASE WorkerGet BY <1>14 DEF WorkerGet
  <1>15. CASE WorkerRuns BY <1>15 DEF WorkerRuns
  <1>16. CASE WorkerFails BY <1>16 DEF WorkerFails
  <1>17. CASE WorkerRelease BY <1>17 DEF WorkerRelease
  <1>18. CASE WorkerDrain BY <1>18 DEF WorkerDrain
  <1>19. CASE WorkerExit BY <1>19 DEF WorkerExit
  <1>20. CASE Start BY <1>20 DEF Start, AppOrder
  <1>21. CASE TakeLastResults BY <1>21 DEF TakeLastResults
  <1>22. CASE StopCall BY <1>22 DEF StopCall
  <1>23. CASE Destroy BY <1>23 DEF Destroy
  <1>24. CASE AppTerminal
    <2>1. CASE q' = Enqueued(Sentinel)
      <3>1. /\ Len(q') = Len(q) + 1 /\ q'[Len(q) + 1] = Sentinel
            /\ \A i \in 1 .. Len(q) : q'[i] = q[i]
        BY <2>1
      <3>2. UNCHANGED wpc /\ (UNCHANGED rpc \/ rpc' \in {"exiting", "terminal_evict"})
        BY <1>24 DEF AppTerminal
      <3> QED BY <3>1, <3>2
    <2>2. CASE UNCHANGED q
      BY <1>24, <2>2 DEF AppTerminal
    <2> QED BY <1>24, <2>1, <2>2 DEF AppTerminal
  <1>25. CASE AppEvict
    <2>1. CASE q # <<>> /\ q' = Tail(q)
      <3>1. /\ Len(q') = Len(q) - 1
            /\ \A i \in 1 .. Len(q') : q'[i] = q[i + 1] /\ i + 1 \in 1 .. Len(q)
        BY <2>1
      <3>2. /\ UNCHANGED wpc
            /\ rpc' \in {"source", "offer", "put", "evict"} =>
                  rpc \in {"source", "offer", "put", "evict"}
        BY <1>25 DEF AppEvict
      <3>3. LoopLeftovers'
        BY <3>1, <3>2
      <3>4. AtMostOneLeftover'
        BY <3>1, <3>2
      <3> QED BY <3>3, <3>4
    <2>2. CASE UNCHANGED q
      BY <1>25, <2>2 DEF AppEvict
    <2> QED BY <1>25, <2>1, <2>2 DEF AppEvict, EvictOldest
  <1>26. CASE StopReturns BY <1>26 DEF StopReturns
  <1>27. CASE JoinReader BY <1>27 DEF JoinReader
  <1>28. CASE JoinWorker BY <1>28 DEF JoinWorker
  <1>29. CASE UNCHANGED vars BY <1>29 DEF vars
  <1> HIDE DEF Inv
  <1> QED
    BY <1>1, <1>2, <1>3, <1>4, <1>5, <1>6, <1>7, <1>8, <1>9, <1>10, <1>11,
       <1>12, <1>13, <1>14, <1>15, <1>16, <1>17, <1>18, <1>19, <1>20, <1>21,
       <1>22, <1>23, <1>24, <1>25, <1>26, <1>27, <1>28, <1>29, NextCases

\* A run that ends by itself loses no buffered frame.
THEOREM NaturalEndLosesNothing == Spec => []DrainsOnlyAfterStop
  <1>1. Init => AppOrder /\ Holding /\ QuietEnd
    BY DEF Init, AppOrder, Holding, QuietEnd, NoFrame
  <1>2. DataType /\ QuietEnd => DrainsOnlyAfterStop
    BY QueueFacts DEF QuietEnd, DrainsOnlyAfterStop, Queued
  <1> QED
    BY <1>1, <1>2, TypeCorrect, AppOrderStep, HoldingStep, QuietStep, PTL
       DEF Spec, TypeOK

\* At most one frame outlives the worker in the queue.
THEOREM LeftoverBounded == Spec => []AtMostOneLeftover
  <1>1. Init => /\ AppOrder /\ Holding /\ QuietEnd
                /\ LoopLeftovers /\ AtMostOneLeftover
    BY DEF Init, AppOrder, Holding, QuietEnd, LoopLeftovers,
           AtMostOneLeftover, NoFrame
  <1> QED
    BY <1>1, TypeCorrect, AppOrderStep, HoldingStep, QuietStep, LeftoverStep,
       PTL DEF Spec, TypeOK

\* Destruction hands back every frame the source ever yielded.
THEOREM DestroyedHoldsNothing == Spec => []NothingLeaks
  <1>1. Init => AppOrder /\ Holding /\ Custody
    BY RunnerAssumption
       DEF Init, AppOrder, Holding, Custody, Yielded, InOrder, CountsExact,
           Held, Queued, NoFrame, Frames
  <1>2. DataType /\ AppOrder /\ Holding /\ Custody => NothingLeaks
    <2> SUFFICES ASSUME DataType, AppOrder, Holding, Custody, apc = "gone",
                        NEW f \in 1 .. produced
                 PROVE  closes[f] = 1
      BY DEF NothingLeaks
    <2>1. f \in Frames /\ f <= produced /\ f # NoFrame
      BY RunnerAssumption DEF DataType, Frames, NoFrame
    <2>2. q = <<>> /\ rframe = NoFrame /\ wframe = NoFrame
      BY DEF AppOrder, Holding
    <2>3. ~Held(f)
      BY <2>1, <2>2, QueueFacts DEF Held, Queued
    <2> QED BY <2>1, <2>3 DEF Custody, CountsExact
  <1> QED
    BY <1>1, <1>2, TypeCorrect, AppOrderStep, HoldingStep, CustodyStep, PTL
       DEF Spec, TypeOK

=============================================================================
