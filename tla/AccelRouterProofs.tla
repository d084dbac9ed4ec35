-------------------------- MODULE AccelRouterProofs --------------------------
(***************************************************************************)
(* Machine-checked proofs about AccelRouter for every finite set of        *)
(* threads and every bound on dispatches, calls and changes.               *)
(***************************************************************************)
EXTENDS AccelRouter, FiniteSetTheorems, TLAPS

\* The threads that have counted themselves in and not out again.
Inside == {t \in Threads : pc[t] \in Counted}

\* The types, and that the count is never short of the threads inside: a
\* thread that ran into a destroyed dispatch never counts itself out.
Types ==
    /\ policy \in Policies /\ software \in BOOLEAN /\ hardware \in BOOLEAN
    /\ changes \in 0 .. MaxChanges /\ calls \in 0 .. MaxCalls
    /\ shared \in 0 .. made /\ owned \in 0 .. made /\ made \in 0 .. MaxDispatches
    /\ retired \in [Dispatches -> Nat]
    /\ closed \subseteq Dispatches /\ freed \subseteq Dispatches
    /\ pools \subseteq Dispatches /\ lingers \subseteq Dispatches
    /\ pc \in [Threads -> PCs] /\ leg \in [Threads -> BOOLEAN]
    /\ backend \in [Threads -> {"none", "hardware", "software", "unavailable"}]
    /\ client \in [Threads -> 0 .. made] /\ done \in [Threads -> SUBSET Dispatches]
    /\ failed \subseteq Threads /\ late \subseteq Threads
    /\ constant \subseteq Threads /\ degraded \subseteq Threads
Count ==
    /\ active \in Nat
    /\ Cardinality(Inside) <= active
    /\ Defined => active = Cardinality(Inside)

\* A thread that calls has a dispatch, and only a thread that closes has any
\* in its hands.
Clients ==
    \A t \in Threads :
        /\ pc[t] \in Counted \cup {"enter"} => client[t] # None
        /\ done[t] # {} => pc[t] \in {"drop_close", "leave_close", "undefined"}

\* The resident is the dispatch that the state owns, and that one exists.
Residence == shared \in {None, owned} /\ owned \notin freed

\* Each dispatch has at least one keeper, and no two.
Kept(d) == d = shared \/ retired[d] > 0 \/ (\E t \in Threads : d \in done[t]) \/ d \in closed
Keepers ==
    /\ \A d \in Dispatches :
        /\ d > made => d # shared /\ d \notin freed
        /\ Kept(d) <=> d <= made
        /\ retired[d] <= 1
        /\ d = shared => retired[d] = 0 /\ d \notin closed
        /\ retired[d] > 0 => d \notin closed
        /\ \A t \in Threads : d \in done[t] =>
              /\ d # shared /\ retired[d] = 0 /\ d \notin closed
              /\ \A u \in Threads : d \in done[u] => u = t

\* A thread that counted itself in in time uses the resident, or one that
\* cannot be drained before it leaves.
InTime ==
    \A t \in Threads : pc[t] \in Counted /\ t \notin late =>
        client[t] = shared \/ retired[client[t]] > 0

\* Whatever is retired and was not seen by the last drain will be seen.
SomebodyDrains ==
    \/ Listed \subseteq lingers
    \/ \E t \in Threads : pc[t] \in Counted \cup {"leave_drain", "undefined"}

\* What was decided under a software-only policy.
Decided ==
    \A t \in constant : policy = "software_only" /\ pc[t] = "snapshot" => backend[t] # "hardware"

\* The inductive invariant.
RouterInv ==
    /\ Types /\ Count /\ Clients /\ Residence /\ Keepers /\ InTime /\ SomebodyDrains
    /\ Decided /\ PolicyHonoured

-----------------------------------------------------------------------------
(* Types *)

\* What Fetch returns is a dispatch, new or resident.
LEMMA FetchTypes ==
    ASSUME Types, NEW t \in Threads, Fetch(t)
    PROVE  /\ shared' \in 0 .. made' /\ owned' \in 0 .. made' /\ made' \in 0 .. MaxDispatches
           /\ made <= made'
           /\ freed' \subseteq Dispatches
           /\ client' \in [Threads -> 0 .. made'] /\ client'[t] # None
  <1>1. /\ shared \in 0 .. made /\ owned \in 0 .. made /\ made \in 0 .. MaxDispatches
        /\ MaxDispatches \in Nat /\ freed \subseteq Dispatches
        /\ client \in [Threads -> 0 .. made]
    BY RouterAssumption DEF Types
  <1>2. CASE shared # None /\ client' = [client EXCEPT ![t] = shared]
             /\ UNCHANGED <<shared, owned, made, freed>>
    BY <1>1, <1>2 DEF None
  <1>3. CASE /\ shared = None /\ made < MaxDispatches /\ made' = made + 1
             /\ shared' = made + 1 /\ owned' = made + 1
             /\ freed' = IF owned = None THEN freed ELSE freed \cup {owned}
             /\ client' = [client EXCEPT ![t] = made + 1]
    <2>1. made' \in 1 .. MaxDispatches /\ made' = made + 1 /\ made \in Nat
      BY <1>1, <1>3
    <2>2. client' \in [Threads -> 0 .. made']
      <3>1. client \in [Threads -> 0 .. made']
        BY <1>1, <2>1
      <3> QED BY <1>3, <2>1, <3>1
    <2>3. freed' \subseteq Dispatches
      BY <1>1, <1>3 DEF Dispatches, None
    <2>4. client'[t] # None
      BY <1>1, <1>3, <2>1 DEF None
    <2> QED BY <1>3, <2>1, <2>2, <2>3, <2>4
  <1> QED BY <1>2, <1>3 DEF Fetch

\* Every action keeps the types.
LEMMA TypesStep ==
    ASSUME Types, Clients, [Next]_vars
    PROVE  Types'
  <1> USE DEF config, resident, state, thread, history
  <1>1. CASE use_hardware \/ \E p \in Policies : set_policy(p)
    <2>1. changes' \in 0 .. MaxChanges
      BY <1>1, RouterAssumption DEF Types, use_hardware, set_policy, Changes
    <2> QED BY <1>1, <2>1 DEF Types, use_hardware, set_policy
  <1>2. CASE \E d \in Dispatches : PoolGone(d)
    <2>1. changes' \in 0 .. MaxChanges
      BY <1>2, RouterAssumption DEF Types, PoolGone, Changes
    <2> QED BY <1>2, <2>1 DEF Types, PoolGone
  <1>3. ASSUME NEW t \in Threads, RunBegins(t) \/ Decide(t) \/ Snapshot(t)
        PROVE  Types'
    <2>1. calls' \in 0 .. MaxCalls
      BY <1>3, RouterAssumption DEF Types, RunBegins, Decide, Snapshot
    <2>2. decide(policy, leg[t]) \in {"hardware", "software", "unavailable"}
      BY DEF decide, SoftwareOrNone
    <2>3. pc' \in [Threads -> PCs]
      BY <1>3 DEF Types, RunBegins, Decide, Snapshot, Goes, PCs
    <2>4. backend' \in [Threads -> {"none", "hardware", "software", "unavailable"}]
      BY <1>3, <2>2 DEF Types, RunBegins, Decide, Snapshot
    <2>5. leg' \in [Threads -> BOOLEAN]
      BY <1>3 DEF Types, RunBegins, Decide, Snapshot
    <2>6. constant' \subseteq Threads /\ degraded' \subseteq Threads
      BY <1>3 DEF Types, RunBegins, Decide, Snapshot
    <2> QED BY <1>3, <2>1, <2>3, <2>4, <2>5, <2>6 DEF Types, RunBegins, Decide, Snapshot
  <1>4. ASSUME NEW t \in Threads, Lazy(t) \/ ProbeBegins(t)
        PROVE  Types'
    <2>1. Fetch(t)
      BY <1>4 DEF Lazy, ProbeBegins
    <2>2. calls' \in 0 .. MaxCalls
      BY <1>4, RouterAssumption DEF Types, Lazy, ProbeBegins
    <2>3. pc' \in [Threads -> PCs]
      BY <1>4 DEF Types, Lazy, ProbeBegins, Goes, PCs, Counted
    <2> QED BY <1>4, <2>1, <2>2, <2>3, FetchTypes DEF Types, Lazy, ProbeBegins
  <1>5. ASSUME NEW t \in Threads, Enter(t) \/ Leave(t)
        PROVE  Types'
    <2>1. pc' \in [Threads -> PCs]
      BY <1>5 DEF Types, Enter, Leave, AfterLeave, Goes, PCs, Counted
    <2> QED BY <1>5, <2>1 DEF Types, Enter, Leave
  <1>6. ASSUME NEW t \in Threads,
               (\E pool \in BOOLEAN : CallReturns(t, pool)) \/ CallThrows(t)
        PROVE  Types'
    <2>1. pc' \in [Threads -> PCs] /\ failed' \subseteq Threads
      BY <1>6 DEF Types, CallReturns, CallThrows, Goes, PCs, Counted
    <2>2. pools' \subseteq Dispatches
      <3>1. client[t] # None /\ client[t] \in 0 .. made /\ made \in 0 .. MaxDispatches
        BY <1>6 DEF Types, Clients, CallReturns, CallThrows, Counted
      <3>2. client[t] \in Dispatches
        BY <3>1, RouterAssumption DEF Dispatches, None
      <3> QED BY <1>6, <3>2 DEF Types, CallReturns, CallThrows
    <2> QED BY <1>6, <2>1, <2>2 DEF Types, CallReturns, CallThrows
  <1>7. ASSUME NEW t \in Threads, CallUndefined(t) \/ DrainUndefined(t) \/ CloseUndefined(t)
        PROVE  Types'
    <2>1. pc' \in [Threads -> PCs]
      BY <1>7 DEF Types, CallUndefined, DrainUndefined, CloseUndefined, Undefined, PCs
    <2> QED BY <1>7, <2>1 DEF Types, CallUndefined, DrainUndefined, CloseUndefined
  <1>8. ASSUME NEW t \in Threads, Drop(t)
        PROVE  Types'
    <2>1. pc' \in [Threads -> PCs]
      BY <1>8 DEF Types, Drop, Goes, PCs, Counted
    <2>2. shared' \in 0 .. made
      BY <1>8 DEF Types, Drop, None
    <2>3. retired' \in [Dispatches -> Nat]
      BY <1>8 DEF Types, Drop
    <2> QED BY <1>8, <2>1, <2>2, <2>3 DEF Types, Drop
  <1>9. ASSUME NEW t \in Threads, NEW from, NEW to \in PCs, Drain(t, from, to)
        PROVE  Types'
    <2>1. pc' \in [Threads -> PCs]
      BY <1>9 DEF Types, Drain, Goes
    <2>2. retired' \in [Dispatches -> Nat]
      BY <1>9 DEF Types, Drain
    <2>3. done' \in [Threads -> SUBSET Dispatches] /\ lingers' \subseteq Dispatches
      <3>1. Listed \subseteq Dispatches
        BY DEF Listed
      <3> QED BY <1>9, <3>1 DEF Types, Drain
    <2> QED BY <1>9, <2>1, <2>2, <2>3 DEF Types, Drain
  <1>10. ASSUME NEW t \in Threads, NEW from, NEW to \in PCs, CloseDone(t, from, to)
         PROVE  Types'
    <2>1. pc' \in [Threads -> PCs]
      BY <1>10 DEF Types, CloseDone, Goes
    <2>2. done' \in [Threads -> SUBSET Dispatches] /\ closed' \subseteq Dispatches
      BY <1>10 DEF Types, CloseDone
    <2> QED BY <1>10, <2>1, <2>2 DEF Types, CloseDone
  <1>11. ASSUME NEW t \in Threads, ProbeEnds(t) \/ Result(t) \/ Fallback(t)
         PROVE  Types'
    <2>1. pc' \in [Threads -> PCs]
      BY <1>11 DEF Types, ProbeEnds, Result, Fallback, Goes, PCs
    <2>2. degraded' \subseteq Threads
      BY <1>11 DEF Types, ProbeEnds, Result, Fallback
    <2> QED BY <1>11, <2>1, <2>2 DEF Types, ProbeEnds, Result, Fallback
  <1>12. CASE UNCHANGED vars
    BY <1>12 DEF Types, vars
  <1>13. {"drop_close", "leave_close", "leave", "result"} \subseteq PCs
    BY DEF PCs, Counted
  <1> QED
    BY <1>1, <1>2, <1>3, <1>4, <1>5, <1>6, <1>7, <1>8, <1>9, <1>10, <1>11, <1>12, <1>13
       DEF Next

-----------------------------------------------------------------------------
(* The count *)

\* The threads inside a dispatch can be counted, and so can every part of them.
LEMMA InsideFinite ==
    /\ IsFiniteSet(Inside) /\ Cardinality(Inside) \in Nat
    /\ \A S \in SUBSET Inside : Cardinality(S) \in Nat /\ Cardinality(S) <= Cardinality(Inside)
  <1>1. IsFiniteSet(Inside)
    <2>1. Inside \in SUBSET Threads /\ IsFiniteSet(Threads)
      BY RouterAssumption DEF Inside
    <2> QED BY <2>1, FS_Subset
  <1>2. \A S \in SUBSET Inside :
            IsFiniteSet(S) /\ Cardinality(S) <= Cardinality(Inside)
    BY <1>1, FS_Subset
  <1> QED BY <1>1, <1>2, FS_CardinalityType

\* The label a step leaves its thread at decides whether it is inside.
LEMMA InsideMoves ==
    ASSUME Types, NEW t \in Threads, NEW label, pc' = [pc EXCEPT ![t] = label]
    PROVE  /\ label \in Counted => Inside' = Inside \cup {t}
           /\ label \notin Counted => Inside' = Inside \ {t}
           /\ label # "undefined" /\ pc[t] # "undefined" => Defined' = Defined
           /\ label = "undefined" => ~Defined'
  <1>1. /\ pc'[t] = label
        /\ \A u \in Threads : u # t => pc'[u] = pc[u]
    BY DEF Types
  <1>2. /\ label \in Counted => Inside' = Inside \cup {t}
        /\ label \notin Counted => Inside' = Inside \ {t}
    BY <1>1 DEF Inside
  <1>3. label # "undefined" /\ pc[t] # "undefined" => (Defined' <=> Defined)
    BY <1>1 DEF Defined
  <1>4. label = "undefined" => ~Defined'
    BY <1>1 DEF Defined
  <1>5. Defined \in BOOLEAN /\ Defined' \in BOOLEAN
    BY DEF Defined
  <1> QED BY <1>2, <1>3, <1>4, <1>5

\* active keeps counting the threads inside a dispatch.
LEMMA CountStep ==
    ASSUME Types, Count, [Next]_vars
    PROVE  Count'
  <1> USE DEF config, resident, state, thread, history
  <1>1. ASSUME NEW t \in Threads, Enter(t)
        PROVE  Count'
    <2>1. /\ active' = active + 1 /\ pc' = [pc EXCEPT ![t] = "call"]
          /\ t \notin Inside /\ pc[t] # "undefined"
      BY <1>1 DEF Enter, CountIn, Goes, Inside, Counted
    <2>2. Inside' = Inside \cup {t} /\ Defined' = Defined
      BY <2>1, InsideMoves DEF Counted
    <2>3. Cardinality(Inside') = Cardinality(Inside) + 1
      BY <2>1, <2>2, InsideFinite, FS_AddElement
    <2> HIDE DEF Inside
    <2> QED BY <2>1, <2>2, <2>3, InsideFinite DEF Count
  <1>2. ASSUME NEW t \in Threads, Leave(t)
        PROVE  Count'
    <2>1. /\ active' = active - 1 /\ pc' = [pc EXCEPT ![t] = "leave_drain"]
          /\ t \in Inside /\ pc[t] # "undefined"
      BY <1>2 DEF Leave, AfterLeave, Goes, Inside, Counted
    <2>2. "leave_drain" \notin Counted /\ "leave_drain" # "undefined"
      BY DEF Counted
    <2>3. Inside' = Inside \ {t}
      BY <2>1, <2>2, InsideMoves
    <2>4. Defined' = Defined
      BY <2>1, <2>2, InsideMoves
    <2>5. Cardinality(Inside') = Cardinality(Inside) - 1
      BY <2>1, <2>3, InsideFinite, FS_RemoveElement
    <2>6. Cardinality(Inside') \in Nat
      BY <2>3, InsideFinite
    <2> QED BY <2>1, <2>4, <2>5, <2>6, InsideFinite DEF Count
  <1>3. ASSUME NEW t \in Threads, CallUndefined(t) \/ DrainUndefined(t) \/ CloseUndefined(t)
        PROVE  Count'
    <2>1. active' = active /\ pc' = [pc EXCEPT ![t] = "undefined"]
      BY <1>3 DEF CallUndefined, DrainUndefined, CloseUndefined, Undefined
    <2> "undefined" \notin Counted
      BY DEF Counted
    <2>2. Inside' = Inside \ {t} /\ ~Defined'
      BY <2>1, InsideMoves
    <2>3. Cardinality(Inside') \in Nat /\ Cardinality(Inside') <= Cardinality(Inside)
      BY <2>2, InsideFinite
    <2> QED BY <2>1, <2>2, <2>3, InsideFinite DEF Count
  <1>4. ASSUME active' = active, Inside' = Inside, Defined' = Defined
        PROVE  Count'
    BY <1>4 DEF Count
  <1>5. ASSUME NEW t \in Threads, NEW label \in PCs \ {"undefined"}, active' = active,
               pc' = [pc EXCEPT ![t] = label], pc[t] # "undefined",
               pc[t] \in Counted <=> label \in Counted
        PROVE  Count'
    <2>1. Inside' = Inside
      BY <1>5, InsideMoves DEF Inside
    <2>2. Defined' = Defined
      BY <1>5, InsideMoves
    <2> QED BY <1>4, <1>5, <2>1, <2>2
  <1>6. CASE UNCHANGED <<active, pc>>
    BY <1>4, <1>6 DEF Inside, Defined
  <1>7. CASE use_hardware \/ (\E p \in Policies : set_policy(p))
             \/ (\E d \in Dispatches : PoolGone(d)) \/ UNCHANGED vars
    BY <1>6, <1>7 DEF use_hardware, set_policy, PoolGone, vars
  <1>8. ASSUME NEW t \in Threads,
               RunBegins(t) \/ Decide(t) \/ Snapshot(t) \/ Lazy(t)
               \/ ProbeBegins(t) \/ ProbeEnds(t) \/ Result(t) \/ Fallback(t)
        PROVE  Count'
    <2>1. PICK label \in {"decide", "snapshot", "lazy", "idle", "enter", "probe_call", "fallback"} :
             active' = active /\ pc' = [pc EXCEPT ![t] = label]
      BY <1>8 DEF RunBegins, Decide, Snapshot, Lazy, ProbeBegins, ProbeEnds, Result, Fallback, Goes
    <2>2. pc[t] \notin Counted \cup {"undefined"}
      BY <1>8 DEF RunBegins, Decide, Snapshot, Lazy, ProbeBegins, ProbeEnds, Result, Fallback,
                  Counted
    <2> QED BY <1>5, <2>1, <2>2 DEF PCs, Counted
  <1>9. ASSUME NEW t \in Threads,
               (\E pool \in BOOLEAN : CallReturns(t, pool)) \/ CallThrows(t) \/ Drop(t)
        PROVE  Count'
    <2>1. PICK label \in {"leave", "drop", "drop_drain"} :
             active' = active /\ pc' = [pc EXCEPT ![t] = label]
      BY <1>9 DEF CallReturns, CallThrows, Drop, Goes
    <2>2. pc[t] \in Counted /\ pc[t] # "undefined"
      BY <1>9 DEF CallReturns, CallThrows, Drop, Counted
    <2> QED BY <1>5, <2>1, <2>2 DEF PCs, Counted
  <1>10. ASSUME NEW t \in Threads,
                \/ Drain(t, "drop_drain", "drop_close") \/ CloseDone(t, "drop_close", "leave")
                \/ Drain(t, "leave_drain", "leave_close") \/ CloseDone(t, "leave_close", "result")
         PROVE  Count'
    <2>1. PICK label \in {"drop_close", "leave", "leave_close", "result"} :
             /\ active' = active /\ pc' = [pc EXCEPT ![t] = label]
             /\ pc[t] \in Counted <=> label \in Counted
             /\ pc[t] # "undefined"
      BY <1>10 DEF Drain, CloseDone, Goes, Counted
    <2> QED BY <1>5, <2>1 DEF PCs, Counted
  <1> QED
    BY <1>1, <1>2, <1>3, <1>7, <1>8, <1>9, <1>10 DEF Next

-----------------------------------------------------------------------------
(* The keepers *)

\* A fetch either finds the resident or makes a dispatch nobody has seen.
LEMMA FetchCases ==
    ASSUME NEW t \in Threads, Fetch(t)
    PROVE  \/ UNCHANGED <<shared, owned, made, freed>>
           \/ /\ shared = None /\ made < MaxDispatches
              /\ made' = made + 1 /\ shared' = made + 1 /\ owned' = made + 1
              /\ freed' \subseteq freed \cup {owned}
  BY DEF Fetch

\* A thread that calls has a dispatch, and only one that closes has any in hand.
LEMMA ClientsStep ==
    ASSUME Types, Clients, [Next]_vars
    PROVE  Clients'
  <1> USE DEF config, resident, state, thread, history
  <1>1. ASSUME NEW t \in Threads, Lazy(t) \/ ProbeBegins(t)
        PROVE  Clients'
    <2>1. Fetch(t) /\ client'[t] # None
      BY <1>1, FetchTypes DEF Lazy, ProbeBegins
    <2>2. /\ \A u \in Threads : u # t => client'[u] = client[u] /\ pc'[u] = pc[u]
          /\ done' = done /\ done[t] = {}
      BY <1>1, <2>1 DEF Lazy, ProbeBegins, Fetch, Goes, Clients, Types
    <2> QED BY <2>1, <2>2 DEF Clients
  <1>2. ASSUME NEW t \in Threads, NEW from \in {"drop_drain", "leave_drain"},
               NEW to \in {"drop_close", "leave_close"}, Drain(t, from, to),
               to = "drop_close" => from = "drop_drain"
        PROVE  Clients'
    <2>1. /\ pc'[t] = to
          /\ \A u \in Threads : u # t => done'[u] = done[u] /\ pc'[u] = pc[u]
          /\ client' = client
      BY <1>2 DEF Drain, Goes, Types
    <2>2. pc'[t] \in Counted \cup {"enter"} => pc[t] \in Counted
      BY <1>2, <2>1 DEF Drain, Counted
    <2> QED BY <1>2, <2>1, <2>2 DEF Clients
  <1>3. ASSUME NEW t \in Threads,
               CloseDone(t, "drop_close", "leave") \/ CloseDone(t, "leave_close", "result")
        PROVE  Clients'
    <2>1. /\ pc'[t] \in Counted => pc[t] \in Counted
          /\ pc'[t] # "enter"
          /\ \A u \in Threads : u # t => done'[u] = done[u] /\ pc'[u] = pc[u]
          /\ client' = client /\ done'[t] = {}
      BY <1>3 DEF CloseDone, Goes, Types, Counted
    <2> QED BY <2>1 DEF Clients
  <1>4. ASSUME NEW t \in Threads, client' = client, done' = done,
               \A u \in Threads : u # t => pc'[u] = pc[u],
               pc'[t] \in Counted \cup {"enter"} => pc[t] \in Counted \cup {"enter"},
               done[t] # {} => pc'[t] = "undefined"
        PROVE  Clients'
    BY <1>4 DEF Clients
  <1>5. ASSUME NEW t \in Threads, CallUndefined(t) \/ DrainUndefined(t) \/ CloseUndefined(t)
        PROVE  Clients'
    <2>1. /\ client' = client /\ done' = done /\ pc'[t] = "undefined"
          /\ \A u \in Threads : u # t => pc'[u] = pc[u]
      BY <1>5 DEF CallUndefined, DrainUndefined, CloseUndefined, Undefined, Types
    <2> QED BY <1>4, <2>1 DEF Counted
  <1>6. ASSUME NEW t \in Threads,
               \/ RunBegins(t) \/ Decide(t) \/ Snapshot(t) \/ Enter(t)
               \/ (\E pool \in BOOLEAN : CallReturns(t, pool)) \/ CallThrows(t)
               \/ Drop(t) \/ Leave(t) \/ ProbeEnds(t) \/ Result(t) \/ Fallback(t)
        PROVE  Clients'
    <2>1. /\ client' = client /\ done' = done
          /\ \A u \in Threads : u # t => pc'[u] = pc[u]
      BY <1>6 DEF RunBegins, Decide, Snapshot, Enter, CallReturns, CallThrows, Drop, Leave,
                  ProbeEnds, Result, Fallback, Goes, Types
    <2>2. pc[t] \notin {"drop_close", "leave_close", "undefined"}
      BY <1>6 DEF RunBegins, Decide, Snapshot, Enter, CallReturns, CallThrows, Drop, Leave,
                  ProbeEnds, Result, Fallback
    <2>3. pc'[t] \in Counted \cup {"enter"} => pc[t] \in Counted \cup {"enter"}
      BY <1>6 DEF RunBegins, Decide, Snapshot, Enter, CallReturns, CallThrows, Drop, Leave,
                  ProbeEnds, Result, Fallback, Goes, Types, AfterLeave, Counted
    <2>4. done[t] = {}
      BY <2>2 DEF Clients
    <2> QED BY <1>4, <2>1, <2>3, <2>4
  <1>7. CASE UNCHANGED <<pc, client, done>>
    BY <1>7 DEF Clients
  <1>8. CASE use_hardware \/ (\E p \in Policies : set_policy(p))
             \/ (\E d \in Dispatches : PoolGone(d)) \/ UNCHANGED vars
    BY <1>7, <1>8 DEF use_hardware, set_policy, PoolGone, vars
  <1> QED
    BY <1>1, <1>2, <1>3, <1>5, <1>6, <1>8 DEF Next

\* The resident stays the dispatch that the state owns.
LEMMA ResidenceStep ==
    ASSUME Types, Residence, Keepers, [Next]_vars
    PROVE  Residence'
  <1> USE DEF config, resident, state, thread, history
  <1>1. ASSUME NEW t \in Threads, Fetch(t)
        PROVE  Residence'
    <2>1. CASE UNCHANGED <<shared, owned, made, freed>>
      BY <2>1 DEF Residence
    <2>2. CASE /\ shared = None /\ made < MaxDispatches
               /\ made' = made + 1 /\ shared' = made + 1 /\ owned' = made + 1
               /\ freed' \subseteq freed \cup {owned}
      <3>1. made + 1 \in Dispatches /\ made + 1 > made /\ owned # made + 1
        BY <2>2, RouterAssumption DEF Types, Dispatches
      <3>2. made + 1 \notin freed
        BY <3>1 DEF Keepers
      <3> QED BY <2>2, <3>1, <3>2 DEF Residence
    <2> QED BY <1>1, <2>1, <2>2, FetchCases
  <1>2. ASSUME NEW t \in Threads, Drop(t)
        PROVE  Residence'
    BY <1>2 DEF Residence, Drop
  <1>3. CASE UNCHANGED <<shared, owned, freed>>
    BY <1>3 DEF Residence
  <1> QED
    BY <1>1, <1>2, <1>3 DEF Next, vars, use_hardware, set_policy, PoolGone, RunBegins, Decide,
       Snapshot, Lazy, Enter, CallReturns, CallThrows, CallUndefined, Leave, Drain,
       DrainUndefined, CloseDone, CloseUndefined, ProbeBegins, ProbeEnds, Result, Fallback

\* The keepers, as long as nothing of theirs is touched.
LEMMA KeepersRest ==
    ASSUME Keepers, UNCHANGED <<shared, retired, made, closed, done>>,
           \A d \in freed' : d \in freed
    PROVE  Keepers'
  BY DEF Keepers, Kept

\* Each dispatch keeps exactly one keeper.
LEMMA KeepersStep ==
    ASSUME Types, Clients, Residence, Keepers, [Next]_vars
    PROVE  Keepers'
  <1> USE DEF config, resident, state, thread, history
  <1>1. ASSUME NEW t \in Threads, Lazy(t) \/ ProbeBegins(t)
        PROVE  Keepers'
    <2>1. Fetch(t) /\ UNCHANGED <<retired, closed, done>>
      BY <1>1 DEF Lazy, ProbeBegins
    <2>2. CASE UNCHANGED <<shared, owned, made, freed>>
      BY <2>1, <2>2, KeepersRest
    <2>3. CASE /\ shared = None /\ made < MaxDispatches
               /\ made' = made + 1 /\ shared' = made + 1 /\ owned' = made + 1
               /\ freed' \subseteq freed \cup {owned}
      <3>1. /\ made \in Nat /\ made + 1 \in Dispatches /\ ~(made + 1 <= made)
            /\ owned \in 0 .. made
            /\ \A d \in Dispatches : d \in Nat /\ d # None
        BY <2>3, RouterAssumption DEF Types, Dispatches, None
      <3>2. /\ ~Kept(made + 1) /\ retired[made + 1] \in Nat
            /\ \A d \in Dispatches : retired[d] \in Nat
        BY <3>1 DEF Keepers, Types
      <3>3. retired[made + 1] = 0 /\ made + 1 \notin closed /\ \A u \in Threads : made + 1 \notin done[u]
        BY <3>2 DEF Kept
      <3>4. ASSUME NEW d \in Dispatches, d > made'
            PROVE  d # shared' /\ d \notin freed'
        <4>1. d > made /\ d # made + 1 /\ d # owned
          BY <2>3, <3>1, <3>4
        <4> QED BY <2>3, <4>1 DEF Keepers
      <3>5. ASSUME NEW d \in Dispatches
            PROVE  Kept(d)' <=> d <= made'
        <4>1. d <= made' <=> d <= made \/ d = made + 1
          BY <2>3, <3>1
        <4>2. Kept(d) <=> d <= made
          BY DEF Keepers
        <4>3. Kept(d)' <=> Kept(d) \/ d = made + 1
          BY <2>1, <2>3, <3>1 DEF Kept
        <4> QED BY <4>1, <4>2, <4>3
      <3>6. ASSUME NEW d \in Dispatches
            PROVE  /\ retired[d] <= 1
                   /\ d = made + 1 => retired[d] = 0 /\ d \notin closed
                   /\ retired[d] > 0 => d \notin closed
                   /\ \A u \in Threads : d \in done[u] =>
                         /\ d # made + 1 /\ retired[d] = 0 /\ d \notin closed
                         /\ \A v \in Threads : d \in done[v] => v = u
        BY <3>3 DEF Keepers
      <3> QED BY <2>1, <2>3, <3>4, <3>5, <3>6 DEF Keepers
    <2> QED BY <2>1, <2>2, <2>3, FetchCases
  <1>2. ASSUME NEW t \in Threads, Drop(t)
        PROVE  Keepers'
    <2>1. UNCHANGED <<owned, made, closed, freed, done>>
      BY <1>2 DEF Drop
    <2>2. CASE shared' = shared /\ retired' = retired
      BY <2>1, <2>2, KeepersRest
    <2>3. CASE /\ shared = client[t] /\ shared' = None
               /\ retired' = [retired EXCEPT ![client[t]] = @ + 1]
      <3>1. /\ shared # None /\ shared \in Dispatches /\ None \notin Dispatches
            /\ \A d \in Dispatches : retired[d] \in Nat
        BY <1>2, <2>3, RouterAssumption DEF Drop, Clients, Counted, Types, Dispatches, None
      <3>2. /\ retired[shared] = 0 /\ shared \notin closed /\ \A u \in Threads : shared \notin done[u]
            /\ Kept(shared)
        BY <3>1 DEF Keepers, Kept
      <3>3. /\ retired'[shared] = 1
            /\ \A d \in Dispatches : d # shared => retired'[d] = retired[d]
        BY <2>3, <3>1, <3>2 DEF Types
      <3>4. ASSUME NEW d \in Dispatches
            PROVE  Kept(d)' <=> Kept(d)
        BY <2>1, <2>3, <3>1, <3>2, <3>3 DEF Kept
      <3> QED BY <2>1, <2>3, <3>1, <3>2, <3>3, <3>4 DEF Keepers
    <2> QED BY <1>2, <2>2, <2>3 DEF Drop, IsResident
  <1>3. ASSUME NEW t \in Threads, NEW from \in {"drop_drain", "leave_drain"}, NEW to, Drain(t, from, to)
        PROVE  Keepers'
    <2>1. UNCHANGED <<shared, owned, made, closed, freed>> /\ done[t] = {}
      BY <1>3 DEF Drain, Clients
    <2>2. CASE done' = done /\ retired' = retired
      BY <2>1, <2>2, KeepersRest
    <2>3. CASE /\ done' = [done EXCEPT ![t] = Listed \ pools]
               /\ retired' = [d \in Dispatches |-> IF d \in pools THEN retired[d] ELSE 0]
      <3>1. /\ \A d \in Dispatches : retired[d] \in Nat
            /\ \A d \in Dispatches : retired'[d] = IF d \in pools THEN retired[d] ELSE 0
            /\ \A d \in Dispatches : d \in done'[t] <=> retired[d] > 0 /\ d \notin pools
            /\ \A u \in Threads : u # t => done'[u] = done[u]
        BY <2>3 DEF Types, Listed
      <3>2. ASSUME NEW d \in Dispatches
            PROVE  Kept(d)' <=> Kept(d)
        BY <2>1, <3>1 DEF Kept
      <3>3. ASSUME NEW d \in Dispatches
            PROVE  /\ retired'[d] <= 1
                   /\ d = shared => retired'[d] = 0
                   /\ retired'[d] > 0 => d \notin closed
        BY <3>1 DEF Keepers
      <3>4. ASSUME NEW d \in Dispatches, NEW u \in Threads, d \in done'[u]
            PROVE  /\ d # shared /\ retired'[d] = 0 /\ d \notin closed
                   /\ \A v \in Threads : d \in done'[v] => v = u
        <4>1. CASE u = t
          <5>1. retired[d] > 0 /\ d \notin pools
            BY <3>1, <3>4, <4>1
          <5>2. d # shared /\ d \notin closed /\ \A v \in Threads : d \notin done[v]
            BY <3>1, <5>1 DEF Keepers
          <5> QED BY <3>1, <4>1, <5>1, <5>2
        <4>2. CASE u # t
          <5>1. d \in done[u]
            BY <3>1, <3>4, <4>2
          <5>2. /\ d # shared /\ d \notin closed /\ retired[d] = 0
                /\ \A v \in Threads : d \in done[v] => v = u
            BY <5>1 DEF Keepers
          <5> QED BY <3>1, <5>2
        <4> QED BY <4>1, <4>2
      <3> QED BY <2>1, <3>2, <3>3, <3>4 DEF Keepers
    <2> QED BY <1>3, <2>2, <2>3 DEF Drain
  <1>4. ASSUME NEW t \in Threads, NEW from, NEW to, CloseDone(t, from, to)
        PROVE  Keepers'
    <2>1. /\ UNCHANGED <<shared, retired, made, freed>>
          /\ \A d : d \in closed' <=> d \in closed \/ d \in done[t]
          /\ done'[t] = {} /\ \A u \in Threads : u # t => done'[u] = done[u]
      BY <1>4 DEF CloseDone, Types
    <2>2. ASSUME NEW d \in Dispatches
          PROVE  Kept(d)' <=> Kept(d)
      BY <2>1 DEF Kept
    <2>3. ASSUME NEW d \in Dispatches, d \in closed'
          PROVE  d # shared /\ ~(retired[d] > 0)
      BY <2>1, <2>3 DEF Keepers, Types
    <2>4. ASSUME NEW d \in Dispatches, NEW u \in Threads, d \in done'[u]
          PROVE  /\ d # shared /\ retired[d] = 0 /\ d \notin closed'
                 /\ \A v \in Threads : d \in done'[v] => v = u
      <3>1. u # t /\ d \in done[u]
        BY <2>1, <2>4
      <3>2. /\ d # shared /\ d \notin closed /\ retired[d] = 0
            /\ \A v \in Threads : d \in done[v] => v = u
        BY <3>1 DEF Keepers
      <3> QED BY <2>1, <3>1, <3>2
    <2>5. ASSUME NEW d \in Dispatches
          PROVE  /\ d > made => d # shared /\ d \notin freed
                 /\ Kept(d) <=> d <= made
                 /\ retired[d] <= 1
                 /\ d = shared => retired[d] = 0
      BY DEF Keepers
    <2> QED BY <2>1, <2>2, <2>3, <2>4, <2>5 DEF Keepers
  <1>5. CASE UNCHANGED <<shared, retired, made, closed, freed, done>>
    BY <1>5, KeepersRest
  <1> QED
    BY <1>1, <1>2, <1>3, <1>4, <1>5 DEF Next, vars, use_hardware, set_policy, PoolGone,
       RunBegins, Decide, Snapshot, Enter, CallReturns, CallThrows, CallUndefined, Leave,
       DrainUndefined, CloseUndefined, ProbeEnds, Result, Fallback

-----------------------------------------------------------------------------
(* The order of retiring, draining and leaving *)

\* Whoever finds nobody inside is alone, unless a thread is stuck.
LEMMA NobodyInsideMeans ==
    ASSUME Types, Count, NobodyInside
    PROVE  \A t \in Threads : pc[t] \notin Counted
  <1>1. Cardinality(Inside) = 0
    BY InsideFinite DEF Count, NobodyInside
  <1>2. Inside = {}
    BY <1>1, InsideFinite, FS_EmptySet
  <1> QED BY <1>2 DEF Inside

\* Who counted itself in in time keeps a dispatch that nobody drains.
LEMMA InTimeStep ==
    ASSUME Types, Count, Clients, Keepers, InTime, [Next]_vars
    PROVE  InTime'
  <1> USE DEF config, resident, state, thread, history
  <1>1. ASSUME NEW t \in Threads, Enter(t)
        PROVE  InTime'
    <2>1. /\ UNCHANGED <<client, shared, retired>>
          /\ \A u \in Threads : u # t => pc'[u] = pc[u] /\ (u \in late' <=> u \in late)
          /\ t \notin late' => client[t] = shared
      BY <1>1 DEF Enter, Goes, Types
    <2> QED BY <2>1 DEF InTime
  <1>2. ASSUME NEW t \in Threads, Lazy(t) \/ ProbeBegins(t)
        PROVE  InTime'
    <2>1. Fetch(t)
      BY <1>2 DEF Lazy, ProbeBegins
    <2>2. /\ pc'[t] \notin Counted /\ UNCHANGED <<retired, late>>
          /\ \A u \in Threads : u # t => client'[u] = client[u] /\ pc'[u] = pc[u]
      BY <1>2, <2>1 DEF Lazy, ProbeBegins, Fetch, Goes, Types, Counted
    <2>3. ASSUME NEW u \in Threads, pc'[u] \in Counted, u \notin late'
          PROVE  client'[u] = shared' \/ retired'[client'[u]] > 0
      <3>1. u # t /\ pc[u] \in Counted /\ u \notin late /\ client'[u] = client[u]
        BY <2>2, <2>3
      <3>2. client[u] # None /\ (client[u] = shared \/ retired[client[u]] > 0)
        BY <3>1 DEF InTime, Clients
      <3>3. shared = None \/ shared' = shared
        BY <2>1 DEF Fetch
      <3> QED BY <2>2, <3>1, <3>2, <3>3
    <2> QED BY <2>3 DEF InTime
  <1>3. ASSUME NEW t \in Threads, Drop(t)
        PROVE  InTime'
    <2>1. /\ UNCHANGED <<client, late>>
          /\ pc[t] \in Counted
          /\ \A u \in Threads : u # t => pc'[u] = pc[u]
      BY <1>3 DEF Drop, Goes, Types, Counted
    <2>2. CASE shared' = shared /\ retired' = retired
      BY <2>1, <2>2 DEF InTime
    <2>3. CASE shared = client[t] /\ retired' = [retired EXCEPT ![client[t]] = @ + 1]
      <3>1. ASSUME NEW u \in Threads, pc[u] \in Counted, u \notin late
            PROVE  retired'[client[u]] > 0
        <4>1. client[u] \in Dispatches /\ \A d \in Dispatches : retired[d] \in Nat
          BY <3>1, RouterAssumption DEF Clients, Types, Dispatches, None
        <4>2. client[u] = client[t] \/ retired[client[u]] > 0
          BY <2>3, <3>1 DEF InTime
        <4> QED BY <2>3, <4>1, <4>2 DEF Types
      <3> QED BY <2>1, <3>1 DEF InTime
    <2> QED BY <1>3, <2>2, <2>3 DEF Drop, IsResident
  <1>4. ASSUME NEW t \in Threads, NEW from \in {"drop_drain", "leave_drain"},
               NEW to \in {"drop_close", "leave_close"},
               to = "drop_close" => from = "drop_drain", Drain(t, from, to)
        PROVE  InTime'
    <2>1. UNCHANGED <<client, late, shared>>
      BY <1>4 DEF Drain
    <2>2. \A u \in Threads : pc'[u] \in Counted => pc[u] \in Counted
      BY <1>4 DEF Drain, Goes, Types, Counted
    <2>3. CASE NobodyInside
      BY <2>2, <2>3, NobodyInsideMeans DEF InTime
    <2>4. CASE retired' = retired
      BY <2>1, <2>2, <2>4 DEF InTime
    <2> QED BY <1>4, <2>3, <2>4 DEF Drain
  <1>5. ASSUME UNCHANGED <<client, late, shared, retired>>,
               \A u \in Threads : pc'[u] \in Counted => pc[u] \in Counted
        PROVE  InTime'
    BY <1>5 DEF InTime
  <1>6. CASE UNCHANGED <<client, late, shared, retired, pc>>
    BY <1>5, <1>6
  <1>7. CASE use_hardware \/ (\E p \in Policies : set_policy(p))
             \/ (\E d \in Dispatches : PoolGone(d)) \/ UNCHANGED vars
    BY <1>6, <1>7 DEF use_hardware, set_policy, PoolGone, vars
  <1>8. ASSUME NEW t \in Threads,
               \/ RunBegins(t) \/ Decide(t) \/ Snapshot(t)
               \/ (\E pool \in BOOLEAN : CallReturns(t, pool)) \/ CallThrows(t)
               \/ CallUndefined(t) \/ DrainUndefined(t) \/ CloseUndefined(t)
               \/ CloseDone(t, "drop_close", "leave") \/ CloseDone(t, "leave_close", "result")
               \/ Leave(t) \/ ProbeEnds(t) \/ Result(t) \/ Fallback(t)
        PROVE  InTime'
    <2>1. UNCHANGED <<client, late, shared, retired>>
      BY <1>8 DEF RunBegins, Decide, Snapshot, CallReturns, CallThrows, CallUndefined,
                  DrainUndefined, CloseUndefined, CloseDone, Leave, ProbeEnds, Result, Fallback
    <2>2. \A u \in Threads : u # t => pc'[u] = pc[u]
      BY <1>8 DEF RunBegins, Decide, Snapshot, CallReturns, CallThrows, CallUndefined,
                  DrainUndefined, CloseUndefined, CloseDone, Leave, ProbeEnds, Result, Fallback,
                  Goes, Undefined, Types
    <2>3. pc'[t] \in Counted => pc[t] \in Counted
      BY <1>8 DEF RunBegins, Decide, Snapshot, CallReturns, CallThrows, CallUndefined,
                  DrainUndefined, CloseUndefined, CloseDone, Leave, ProbeEnds, Result, Fallback,
                  Goes, Undefined, AfterLeave, Types, Counted
    <2> QED BY <1>5, <2>1, <2>2, <2>3
  <1> QED
    BY <1>1, <1>2, <1>3, <1>4, <1>7, <1>8 DEF Next

\* What the last drain has not seen, a drain to come will.
LEMMA SomebodyDrainsStep ==
    ASSUME Types, Count, SomebodyDrains, [Next]_vars
    PROVE  SomebodyDrains'
  <1> USE DEF config, resident, state, thread, history
  <1> DEFINE Drainer(t) == pc[t] \in Counted \cup {"leave_drain", "undefined"}
  <1>1. ASSUME NEW t \in Threads, pc'[t] \in Counted \cup {"leave_drain", "undefined"}
        PROVE  SomebodyDrains'
    BY <1>1 DEF SomebodyDrains
  <1>2. ASSUME UNCHANGED <<retired, lingers>>, NEW t \in Threads, ~Drainer(t),
               \A u \in Threads : u # t => pc'[u] = pc[u]
        PROVE  SomebodyDrains'
    <2>1. CASE Listed \subseteq lingers
      BY <1>2, <2>1 DEF SomebodyDrains, Listed
    <2>2. CASE \E u \in Threads : Drainer(u)
      BY <1>2, <2>2 DEF SomebodyDrains
    <2> QED BY <2>1, <2>2 DEF SomebodyDrains
  <1>3. ASSUME NEW t \in Threads, Drain(t, "leave_drain", "leave_close")
        PROVE  SomebodyDrains'
    <2>1. CASE NobodyInside
      <3>1. /\ retired' = [d \in Dispatches |-> IF d \in pools THEN retired[d] ELSE 0]
            /\ lingers' = Listed \cap pools
        BY <1>3, <2>1 DEF Drain
      <3>2. Listed' \subseteq lingers'
        BY <3>1 DEF Listed
      <3> QED BY <3>2 DEF SomebodyDrains
    <2>2. CASE ~NobodyInside
      <3>1. /\ \A u \in Threads : u # t => pc'[u] = pc[u]
            /\ pc[t] = "leave_drain"
        BY <1>3, <2>2 DEF Drain, Goes, Types
      <3>2. CASE ~Defined
        <4>1. PICK u \in Threads : pc[u] = "undefined"
          BY <3>2 DEF Defined
        <4> QED BY <1>1, <3>1, <4>1
      <3>3. CASE Defined
        <4>1. Inside # {}
          BY <2>2, <3>3, FS_EmptySet DEF Count, NobodyInside
        <4>2. PICK u \in Threads : pc[u] \in Counted
          BY <4>1 DEF Inside
        <4>3. u # t
          BY <3>1, <4>2 DEF Counted
        <4> QED BY <1>1, <3>1, <4>2, <4>3
      <3> QED BY <3>2, <3>3
    <2> QED BY <2>1, <2>2
  <1>4. ASSUME NEW t \in Threads,
               \/ Enter(t) \/ (\E pool \in BOOLEAN : CallReturns(t, pool)) \/ CallThrows(t)
               \/ CallUndefined(t) \/ DrainUndefined(t) \/ CloseUndefined(t)
               \/ CloseDone(t, "drop_close", "leave") \/ Leave(t)
               \/ Drop(t) \/ Drain(t, "drop_drain", "drop_close")
        PROVE  SomebodyDrains'
    <2>1. pc'[t] \in {"call", "leave", "drop", "undefined", "leave_drain", "drop_drain",
                      "drop_close"}
      BY <1>4 DEF Enter, CallReturns, CallThrows, CallUndefined, DrainUndefined, CloseUndefined,
                  CloseDone, Leave, Drop, Drain, Goes, Undefined, AfterLeave, Types
    <2> QED BY <1>1, <2>1 DEF Counted
  <1>5. ASSUME NEW t \in Threads,
               \/ RunBegins(t) \/ Decide(t) \/ Snapshot(t) \/ Lazy(t) \/ ProbeBegins(t)
               \/ CloseDone(t, "leave_close", "result") \/ ProbeEnds(t) \/ Result(t) \/ Fallback(t)
        PROVE  SomebodyDrains'
    <2>1. UNCHANGED <<retired, lingers>>
      BY <1>5 DEF RunBegins, Decide, Snapshot, Lazy, ProbeBegins, CloseDone, ProbeEnds, Result,
                  Fallback
    <2>2. \A u \in Threads : u # t => pc'[u] = pc[u]
      BY <1>5 DEF RunBegins, Decide, Snapshot, Lazy, ProbeBegins, CloseDone, ProbeEnds, Result,
                  Fallback, Goes, Types
    <2>3. ~Drainer(t)
      BY <1>5 DEF RunBegins, Decide, Snapshot, Lazy, ProbeBegins, CloseDone, ProbeEnds, Result,
                  Fallback, Counted
    <2> QED BY <1>2, <2>1, <2>2, <2>3
  <1>6. CASE UNCHANGED <<retired, lingers, pc>>
    BY <1>6 DEF SomebodyDrains, Listed
  <1>7. CASE use_hardware \/ (\E p \in Policies : set_policy(p))
             \/ (\E d \in Dispatches : PoolGone(d)) \/ UNCHANGED vars
    BY <1>6, <1>7 DEF use_hardware, set_policy, PoolGone, vars
  <1> QED
    BY <1>3, <1>4, <1>5, <1>7 DEF Next

-----------------------------------------------------------------------------
(* The policy *)

\* Every step keeps the decisions taken under a software-only policy.
LEMMA DecidedStep ==
    ASSUME Types, Decided, [Next]_vars
    PROVE  Decided'
  <1> USE DEF config, resident, state, thread, history
  <1>1. CASE \E p \in Policies : set_policy(p)
    BY <1>1 DEF set_policy, Decided
  <1>2. ASSUME NEW t \in Threads, RunBegins(t)
        PROVE  Decided'
    <2>1. /\ UNCHANGED <<policy, backend>> /\ constant' = constant \cup {t} /\ pc'[t] = "decide"
          /\ \A u \in Threads : u # t => pc'[u] = pc[u]
      BY <1>2 DEF RunBegins, Goes, Types
    <2> QED BY <2>1 DEF Decided, Types
  <1>3. ASSUME NEW t \in Threads, Decide(t)
        PROVE  Decided'
    <2>1. /\ UNCHANGED <<policy, constant>> /\ backend'[t] = decide(policy, leg[t])
          /\ \A u \in Threads : u # t => pc'[u] = pc[u] /\ backend'[u] = backend[u]
      BY <1>3 DEF Decide, Goes, Types
    <2>2. policy = "software_only" => backend'[t] # "hardware"
      BY <2>1 DEF decide, SoftwareOrNone
    <2> QED BY <2>1, <2>2 DEF Decided, Types
  <1>4. ASSUME UNCHANGED <<policy, backend, constant>>,
               \A u \in Threads : pc'[u] = "snapshot" => pc[u] = "snapshot"
        PROVE  Decided'
    BY <1>4 DEF Decided, Types
  <1>5. CASE UNCHANGED <<policy, backend, constant, pc>>
    BY <1>4, <1>5
  <1>6. CASE use_hardware \/ (\E d \in Dispatches : PoolGone(d)) \/ UNCHANGED vars
    BY <1>5, <1>6 DEF use_hardware, PoolGone, vars
  <1>7. ASSUME NEW t \in Threads,
               \/ Snapshot(t) \/ Lazy(t) \/ Enter(t)
               \/ (\E pool \in BOOLEAN : CallReturns(t, pool)) \/ CallThrows(t) \/ CallUndefined(t)
               \/ Drop(t) \/ Leave(t) \/ DrainUndefined(t) \/ CloseUndefined(t)
               \/ Drain(t, "drop_drain", "drop_close") \/ Drain(t, "leave_drain", "leave_close")
               \/ CloseDone(t, "drop_close", "leave") \/ CloseDone(t, "leave_close", "result")
               \/ ProbeBegins(t) \/ ProbeEnds(t) \/ Result(t) \/ Fallback(t)
        PROVE  Decided'
    <2>1. UNCHANGED <<policy, backend, constant>>
      BY <1>7 DEF Snapshot, Lazy, Enter, CallReturns, CallThrows, CallUndefined, Drop, Leave,
                  DrainUndefined, CloseUndefined, Drain, CloseDone, ProbeBegins, ProbeEnds, Result,
                  Fallback
    <2>2. PICK label \in PCs \ {"snapshot"} : pc' = [pc EXCEPT ![t] = label]
      BY <1>7 DEF Snapshot, Lazy, Enter, CallReturns, CallThrows, CallUndefined, Drop, Leave,
                  DrainUndefined, CloseUndefined, Drain, CloseDone, ProbeBegins, ProbeEnds, Result,
                  Fallback, Goes, Undefined, AfterLeave, PCs, Counted
    <2> QED BY <1>4, <2>1, <2>2 DEF Types
  <1> QED
    BY <1>1, <1>2, <1>3, <1>6, <1>7 DEF Next

\* The control points of a run on the hardware leg.
OnHardware == Counted \cup {"lazy", "enter", "leave_drain", "leave_close", "result", "fallback"}

\* Every step keeps to that policy.
LEMMA PolicyStep ==
    ASSUME Types, Decided, PolicyHonoured, [Next]_vars
    PROVE  PolicyHonoured'
  <1> USE DEF config, resident, state, thread, history
  <1>1. CASE \E p \in Policies : set_policy(p)
    BY <1>1 DEF set_policy, PolicyHonoured
  <1>2. ASSUME NEW t \in Threads, RunBegins(t)
        PROVE  PolicyHonoured'
    <2>1. /\ policy' = policy /\ constant' = constant \cup {t} /\ pc'[t] = "decide"
          /\ degraded' = degraded \ {t}
          /\ \A u \in Threads : u # t => pc'[u] = pc[u]
      BY <1>2 DEF RunBegins, Goes, Types
    <2>2. pc'[t] \notin OnHardware
      BY <2>1 DEF OnHardware, Counted
    <2> QED BY <2>1, <2>2 DEF PolicyHonoured, Types, OnHardware
  <1>3. ASSUME NEW t \in Threads, Fallback(t)
        PROVE  PolicyHonoured'
    <2>1. /\ UNCHANGED <<policy, constant>> /\ pc'[t] = "idle"
          /\ policy = "hardware_only" => degraded' = degraded
          /\ \A u \in Threads : u # t => pc'[u] = pc[u] /\ (u \in degraded' <=> u \in degraded)
      BY <1>3 DEF Fallback, Strict, Goes, Types
    <2>2. pc'[t] \notin OnHardware
      BY <2>1 DEF OnHardware, Counted
    <2> QED BY <2>1, <2>2 DEF PolicyHonoured, Types, OnHardware
  <1>4. ASSUME UNCHANGED <<policy, constant, degraded>>,
               \A u \in constant : policy = "software_only" /\ pc'[u] \in OnHardware =>
                   pc[u] \in OnHardware
        PROVE  PolicyHonoured'
    BY <1>4 DEF PolicyHonoured, OnHardware
  <1>5. CASE UNCHANGED <<policy, constant, degraded, pc>>
    BY <1>4, <1>5
  <1>6. CASE use_hardware \/ (\E d \in Dispatches : PoolGone(d)) \/ UNCHANGED vars
    BY <1>5, <1>6 DEF use_hardware, PoolGone, vars
  <1>7. ASSUME NEW t \in Threads, Snapshot(t)
        PROVE  PolicyHonoured'
    <2>1. /\ UNCHANGED <<policy, constant, degraded>>
          /\ pc[t] = "snapshot"
          /\ pc'[t] = IF backend[t] = "hardware" /\ hardware THEN "lazy" ELSE "idle"
          /\ \A u \in Threads : u # t => pc'[u] = pc[u]
      BY <1>7 DEF Snapshot, Goes, Types
    <2>2. t \in constant /\ policy = "software_only" => pc'[t] = "idle"
      BY <2>1 DEF Decided
    <2>3. "idle" \notin OnHardware
      BY DEF OnHardware, Counted
    <2> QED BY <1>4, <2>1, <2>2, <2>3 DEF Types
  <1>8. ASSUME NEW t \in Threads,
               \/ Decide(t) \/ Lazy(t) \/ Enter(t)
               \/ (\E pool \in BOOLEAN : CallReturns(t, pool)) \/ CallThrows(t) \/ CallUndefined(t)
               \/ Drop(t) \/ Leave(t) \/ DrainUndefined(t) \/ CloseUndefined(t)
               \/ Drain(t, "drop_drain", "drop_close") \/ Drain(t, "leave_drain", "leave_close")
               \/ CloseDone(t, "drop_close", "leave") \/ CloseDone(t, "leave_close", "result")
               \/ ProbeBegins(t) \/ ProbeEnds(t) \/ Result(t)
        PROVE  PolicyHonoured'
    <2>1. UNCHANGED <<policy, constant, degraded>>
      BY <1>8 DEF Decide, Lazy, Enter, CallReturns, CallThrows, CallUndefined, Drop, Leave,
                  DrainUndefined, CloseUndefined, Drain, CloseDone, ProbeBegins, ProbeEnds, Result
    <2>2. \A u \in Threads : u # t => pc'[u] = pc[u]
      BY <1>8 DEF Decide, Lazy, Enter, CallReturns, CallThrows, CallUndefined, Drop, Leave,
                  DrainUndefined, CloseUndefined, Drain, CloseDone, ProbeBegins, ProbeEnds, Result,
                  Goes, Undefined, Types
    <2>3. pc'[t] \in OnHardware => pc[t] \in OnHardware
      BY <1>8 DEF Decide, Lazy, Enter, CallReturns, CallThrows, CallUndefined, Drop, Leave,
                  DrainUndefined, CloseUndefined, Drain, CloseDone, ProbeBegins, ProbeEnds, Result,
                  Goes, Undefined, AfterLeave, Types, OnHardware, Counted
    <2> QED BY <1>4, <2>1, <2>2, <2>3 DEF Types
  <1> QED
    BY <1>1, <1>2, <1>3, <1>6, <1>7, <1>8 DEF Next

-----------------------------------------------------------------------------
(* The theorems *)

\* The invariant holds before the first dispatch.
LEMMA RouterInvInit == Init => RouterInv
  <1> SUFFICES ASSUME Init PROVE RouterInv
    OBVIOUS
  <1>1. Types
    BY RouterAssumption DEF Init, Types, Dispatches, None, PCs
  <1>2. Inside = {} /\ Defined
    BY DEF Init, Inside, Counted, Defined
  <1>3. Count
    BY <1>2, FS_EmptySet DEF Init, Count
  <1>4. Clients /\ Residence /\ InTime /\ SomebodyDrains /\ Decided /\ PolicyHonoured
    BY DEF Init, Clients, Residence, InTime, SomebodyDrains, Decided, PolicyHonoured, Listed,
           None, Counted
  <1>5. Keepers
    BY RouterAssumption DEF Init, Keepers, Kept, Dispatches, None
  <1> QED BY <1>1, <1>3, <1>4, <1>5 DEF RouterInv

\* Every step keeps the inductive invariant.
LEMMA RouterInvStep == RouterInv /\ [Next]_vars => RouterInv'
  BY TypesStep, CountStep, ClientsStep, ResidenceStep, KeepersStep, InTimeStep,
     SomebodyDrainsStep, DecidedStep, PolicyStep DEF RouterInv

\* The inductive invariant, for every set of threads and number of dispatches.
LEMMA RouterInvariant == Spec => []RouterInv
  BY RouterInvInit, RouterInvStep, PTL DEF Spec

\* No dispatch has two keepers, from the invariant.
LEMMA KeptOnce == RouterInv => OneKeeper
  <1> SUFFICES ASSUME RouterInv PROVE OneKeeper
    OBVIOUS
  <1> USE DEF RouterInv
  <1>1. shared \notin freed
    BY DEF Residence, Types, Dispatches, None
  <1>2. ASSUME NEW d \in 1 .. made
        PROVE  retired[d] + Cardinality({t \in Threads : d \in done[t]})
                 + Cardinality({d} \cap {shared}) + Cardinality({d} \cap closed) = 1
    <2>1. d \in Dispatches /\ d <= made /\ retired[d] \in Nat
      BY RouterAssumption DEF Types, Dispatches
    <2> DEFINE Hands == {t \in Threads : d \in done[t]}
    <2>2. /\ Cardinality({d} \cap {shared}) = IF d = shared THEN 1 ELSE 0
          /\ Cardinality({d} \cap closed) = IF d \in closed THEN 1 ELSE 0
      <3>1. \A S : {d} \cap S = IF d \in S THEN {d} ELSE {}
        OBVIOUS
      <3> QED BY <3>1, FS_EmptySet, FS_Singleton
    <2>3. Hands = {} => Cardinality(Hands) = 0
      BY FS_EmptySet
    <2>4. ASSUME NEW t \in Threads, d \in done[t]
          PROVE  Cardinality(Hands) = 1 /\ d # shared /\ retired[d] = 0 /\ d \notin closed
      <3>1. /\ d # shared /\ retired[d] = 0 /\ d \notin closed
            /\ \A u \in Threads : d \in done[u] => u = t
        BY <2>1, <2>4 DEF Keepers
      <3>2. Hands = {t}
        BY <2>4, <3>1
      <3> QED BY <3>1, <3>2, FS_Singleton
    <2>5. /\ Kept(d) /\ retired[d] <= 1
          /\ d = shared => retired[d] = 0 /\ d \notin closed
          /\ retired[d] > 0 => d \notin closed
      BY <2>1 DEF Keepers
    <2>6. CASE Hands = {}
      <3>1. d = shared \/ retired[d] > 0 \/ d \in closed
        BY <2>5, <2>6 DEF Kept
      <3> QED BY <2>1, <2>2, <2>3, <2>5, <2>6, <3>1
    <2>7. CASE \E t \in Threads : d \in done[t]
      BY <2>1, <2>2, <2>4, <2>7
    <2> QED BY <2>6, <2>7
  <1> QED BY <1>1, <1>2 DEF OneKeeper

\* However many threads fail on whichever dispatch, the count of callers is
\* exact where it is defined, each dispatch has one keeper, and one run's
\* policy is honoured (shared_dsp_call, dsp_drop_shared, drain_retired, run).
THEOREM RoutingIsSound == Spec => []RoutingSound
  <1>1. RouterInv => RoutingSound
    <2> SUFFICES ASSUME RouterInv PROVE RoutingSound
      OBVIOUS
    <2>1. Defined => active = Cardinality({t \in Threads : pc[t] \in Counted})
      BY DEF RouterInv, Count, Inside
    <2>2. TypeOK
      BY <2>1 DEF RouterInv, Types, Count, TypeOK
    <2> QED BY <2>2, KeptOnce DEF RoutingSound, RouterInv
  <1> QED BY <1>1, RouterInvariant, PTL

\* A call beneath which its dispatch is closed counted itself in only after
\* another thread had retired that dispatch (shared_dsp_call).
THEOREM OnlyTheLateAreClosedBeneath == Spec => []ClosedBeneathLate
  <1>1. RouterInv => ClosedBeneathLate
    <2> SUFFICES ASSUME RouterInv, NEW t \in Threads, pc[t] = "call", client[t] \in closed
                 PROVE  t \in late
      BY DEF ClosedBeneathLate
    <2>1. pc[t] \in Counted /\ client[t] \in Dispatches
      BY DEF Counted, RouterInv, Types
    <2>2. client[t] # shared /\ ~(retired[client[t]] > 0)
      BY <2>1 DEF RouterInv, Keepers
    <2> QED BY <2>1, <2>2 DEF RouterInv, InTime
  <1> QED BY <1>1, RouterInvariant, PTL

\* The last thread out drains whatever the others retired (shared_call_leave,
\* drain_retired).
THEOREM NothingIsLeftRetired == Spec => []RestDrained
  <1>1. RouterInv => RestDrained
    BY DEF RouterInv, SomebodyDrains, RestDrained, Counted
  <1> QED BY <1>1, RouterInvariant, PTL
=============================================================================
