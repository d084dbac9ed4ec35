---------------------------- MODULE AccelRouter ----------------------------
(***************************************************************************)
(* AccelRouter::run and the process-resident DSP dispatch its hardware     *)
(* legs share (cpp/src/accel.cpp, cpp/src/detail/dsp_dispatch.hpp).        *)
(*                                                                         *)
(* A thread decides on a leg from the policy and the registered legs,      *)
(* takes a second snapshot of the legs, and runs one.  A hardware leg goes *)
(* through shared_dsp_call: fetch the resident dispatch, count itself in,  *)
(* call, retire the resident on failure, count itself out, close whatever  *)
(* was retired if nobody is inside.  A failed hardware leg degrades to     *)
(* software unless the policy forbids it.  One operation; its arguments    *)
(* and results do not matter.  A dispatch is the number of its creation.   *)
(* One action is one critical section of either mutex or one call.         *)
(* install_dsp_dispatch is a test seam and left out.                       *)
(***************************************************************************)
EXTENDS Integers, FiniteSets

CONSTANTS Threads,        \* application threads
          MaxDispatches,  \* bound: dispatches created
          MaxCalls,       \* bound: calls of run() and probe()
          MaxChanges      \* bound: set_policy, use_hardware and pool events

Dispatches == 1 .. MaxDispatches
None       == 0
Policies   == {"prefer_hardware", "software_only", "hardware_only"}

ASSUME RouterAssumption ==
    /\ IsFiniteSet(Threads)
    /\ MaxDispatches \in Nat /\ MaxCalls \in Nat /\ MaxChanges \in Nat

VARIABLES
  policy,    \* policy_
  software,  \* routes_[op].software is set (register_op only)
  hardware,  \* routes_[op].hardware is set
  changes,   \* configuration changes so far
  shared,    \* ResidentState::shared
  owned,     \* ResidentState::owned
  active,    \* ResidentState::active
  retired,   \* ResidentState::retired: how often each dispatch is on it
  made,      \* dispatches created so far
  closed,    \* dispatches that close() was called on
  freed,     \* dispatches destroyed
  pools,     \* dispatches with live pools
  pc,        \* a thread's control point
  backend,   \* its RouteDecision
  leg,       \* its snapshot: a hardware leg was there
  client,    \* the dispatch it uses
  failed,    \* threads whose hardware call threw
  done,      \* dispatches it is about to close
  calls,     \* calls so far
  late,      \* history: counted in after their dispatch was retired
  lingers,   \* history: retired dispatches a drain left because of their pools
  constant,  \* history: threads whose policy has not changed since they began
  degraded   \* history: threads whose run fell back to software

config   == <<policy, software, hardware, changes>>
resident == <<shared, owned, active, retired, made>>
state    == <<closed, freed, pools>>
thread   == <<backend, leg, client, failed, done>>
history  == <<late, lingers, constant, degraded>>
vars     == <<config, resident, state, pc, thread, calls, history>>

Init ==
    /\ policy \in Policies /\ software \in BOOLEAN /\ hardware = TRUE /\ changes = 0
    /\ shared = None /\ owned = None /\ active = 0 /\ made = 0
    /\ retired = [d \in Dispatches |-> 0]
    /\ closed = {} /\ freed = {} /\ pools = {}
    /\ pc = [t \in Threads |-> "idle"]
    /\ backend = [t \in Threads |-> "none"] /\ leg = [t \in Threads |-> FALSE]
    /\ client = [t \in Threads |-> None] /\ failed = {}
    /\ done = [t \in Threads |-> {}] /\ calls = 0
    /\ late = {} /\ lingers = {} /\ constant = {} /\ degraded = {}

Goes(t, label) == pc' = [pc EXCEPT ![t] = label]

-----------------------------------------------------------------------------
(* AccelRouter: configuration and decision *)

Changes == changes < MaxChanges /\ changes' = changes + 1

set_policy(p) ==
    /\ Changes /\ p # policy
    /\ policy' = p
    /\ constant' = {}
    /\ UNCHANGED <<software, hardware, resident, state, pc, thread, calls, late, lingers,
                   degraded>>

\* use_hardware installs a leg or, with an empty one, removes it.
use_hardware ==
    /\ Changes
    /\ hardware' = ~hardware
    /\ UNCHANGED <<policy, software, resident, state, pc, thread, calls, history>>

\* run(): route() takes its snapshot of the legs.
RunBegins(t) ==
    /\ pc[t] = "idle" /\ calls < MaxCalls
    /\ calls' = calls + 1
    /\ leg' = [leg EXCEPT ![t] = hardware]
    /\ constant' = constant \cup {t}
    /\ degraded' = degraded \ {t}
    /\ Goes(t, "decide")
    /\ UNCHANGED <<config, resident, state, backend, client, failed, done, late,
                   lingers>>

SoftwareOrNone == IF software THEN "software" ELSE "unavailable"

\* decide()
decide(p, has) ==
    IF p = "software_only" \/ ~has THEN SoftwareOrNone ELSE "hardware"

Decide(t) ==
    /\ pc[t] = "decide"
    /\ backend' = [backend EXCEPT ![t] = decide(policy, leg[t])]
    /\ Goes(t, IF decide(policy, leg[t]) = "unavailable" THEN "idle" ELSE "snapshot")
    /\ UNCHANGED <<config, resident, state, leg, client, failed, done, calls, history>>

\* The second snapshot.  The software leg runs and returns; a hardware leg
\* that was removed since is an empty function, whose exception escapes.
Snapshot(t) ==
    /\ pc[t] = "snapshot"
    /\ leg' = [leg EXCEPT ![t] = hardware]
    /\ Goes(t, IF backend[t] = "hardware" /\ hardware THEN "lazy" ELSE "idle")
    /\ UNCHANGED <<config, resident, state, backend, client, failed, done, calls,
                   history>>

-----------------------------------------------------------------------------
(* The resident dispatch *)

\* lazy_dsp_dispatch: the resident, or a new one, whose unique_ptr destroys
\* the previous owned dispatch, retired or not.
Fetch(t) ==
    \/ /\ shared # None
       /\ client' = [client EXCEPT ![t] = shared]
       /\ UNCHANGED <<shared, owned, made, freed>>
    \/ /\ shared = None /\ made < MaxDispatches
       /\ made' = made + 1
       /\ shared' = made + 1
       /\ owned' = made + 1
       /\ freed' = IF owned = None THEN freed ELSE freed \cup {owned}
       /\ client' = [client EXCEPT ![t] = made + 1]

Lazy(t) ==
    /\ pc[t] = "lazy"
    /\ Fetch(t)
    /\ Goes(t, "enter")
    /\ UNCHANGED <<config, active, retired, closed, pools, backend, leg, failed, done,
                   calls, history>>

\* ++active
CountIn == active + 1

\* Counting in is a critical section of its own, after the fetch.
Enter(t) ==
    /\ pc[t] = "enter"
    /\ active' = CountIn
    /\ late' = IF client[t] = shared THEN late \ {t} ELSE late \cup {t}
    /\ Goes(t, "call")
    /\ UNCHANGED <<config, shared, owned, retired, made, state, thread, calls, lingers,
                   constant, degraded>>

\* Touching a destroyed dispatch is undefined; the model stops the thread.
Undefined(t) == pc' = [pc EXCEPT ![t] = "undefined"]

\* The call returns, and may leave a pool with the caller.
CallReturns(t, pool) ==
    /\ pc[t] = "call" /\ client[t] \notin freed
    /\ failed' = failed \ {t}
    /\ pools' = IF pool THEN pools \cup {client[t]} ELSE pools
    /\ Goes(t, "leave")
    /\ UNCHANGED <<config, resident, closed, freed, backend, leg, client, done, calls,
                   history>>

CallThrows(t) ==
    /\ pc[t] = "call" /\ client[t] \notin freed
    /\ failed' = failed \cup {t}
    /\ Goes(t, "drop")
    /\ UNCHANGED <<config, resident, state, backend, leg, client, done, calls, history>>

CallUndefined(t) ==
    /\ pc[t] \in {"call", "probe_call"} /\ client[t] \in freed
    /\ Undefined(t)
    /\ UNCHANGED <<config, resident, state, thread, calls, history>>

\* Mutant: the failed dispatch is retired whether or not it is the resident.
AnyIsOurs(t) == TRUE

\* s.shared == dispatch
IsResident(t) == shared = client[t]

\* dsp_drop_shared
Drop(t) ==
    /\ pc[t] = "drop"
    /\ IF IsResident(t)
       THEN /\ shared' = None
            /\ retired' = [retired EXCEPT ![client[t]] = @ + 1]
            /\ Goes(t, "drop_drain")
       ELSE /\ Goes(t, "leave")
            /\ UNCHANGED <<shared, retired>>
    /\ UNCHANGED <<config, owned, active, made, state, thread, calls, history>>

\* Mutant: retired dispatches are closed with calls in flight.
DrainAlways == TRUE

\* active == 0
NobodyInside == active = 0

\* The dispatches on the retired list, whose order nothing depends on.
Listed == {d \in Dispatches : retired[d] > 0}

\* drain_retired under the lock: take the idle ones off the list.
Drain(t, from, to) ==
    /\ pc[t] = from
    /\ NobodyInside => Listed \cap freed = {}
    /\ IF NobodyInside
       THEN /\ done' = [done EXCEPT ![t] = Listed \ pools]
            /\ retired' = [d \in Dispatches |-> IF d \in pools THEN retired[d] ELSE 0]
            /\ lingers' = Listed \cap pools
       ELSE UNCHANGED <<done, retired, lingers>>
    /\ Goes(t, to)
    /\ UNCHANGED <<config, shared, owned, active, made, state, backend, leg, client,
                   failed, calls, late, constant, degraded>>

\* has_live_pools() on a destroyed dispatch.
DrainUndefined(t) ==
    /\ pc[t] \in {"drop_drain", "leave_drain"}
    /\ NobodyInside /\ Listed \cap freed # {}
    /\ Undefined(t)
    /\ UNCHANGED <<config, resident, state, thread, calls, history>>

\* close(), outside the lock.
CloseDone(t, from, to) ==
    /\ pc[t] = from
    /\ done[t] \cap freed = {}
    /\ closed' = closed \cup done[t]
    /\ done' = [done EXCEPT ![t] = {}]
    /\ Goes(t, to)
    /\ UNCHANGED <<config, resident, freed, pools, backend, leg, client, failed, calls,
                   history>>

CloseUndefined(t) ==
    /\ pc[t] \in {"drop_close", "leave_close"} /\ done[t] \cap freed # {}
    /\ Undefined(t)
    /\ UNCHANGED <<config, resident, state, thread, calls, history>>

\* Mutant: nothing is drained on the way out.
LeavesAtOnce == "result"

\* shared_call_leave: --active, then drain.
AfterLeave == "leave_drain"

Leave(t) ==
    /\ pc[t] = "leave"
    /\ active' = active - 1
    /\ Goes(t, AfterLeave)
    /\ UNCHANGED <<config, shared, owned, retired, made, state, thread, calls, history>>

\* probe_dsp: uses the resident without counting itself in.
ProbeBegins(t) ==
    /\ pc[t] = "idle" /\ calls < MaxCalls
    /\ calls' = calls + 1
    /\ Fetch(t)
    /\ Goes(t, "probe_call")
    /\ UNCHANGED <<config, active, retired, closed, pools, backend, leg, failed, done,
                   history>>

ProbeEnds(t) ==
    /\ pc[t] = "probe_call" /\ client[t] \notin freed
    /\ Goes(t, "idle")
    /\ UNCHANGED <<config, resident, state, thread, calls, history>>

\* The caller lets its last pool of d go.
PoolGone(d) ==
    /\ Changes /\ d \in pools
    /\ pools' = pools \ {d}
    /\ UNCHANGED <<policy, software, hardware, resident, closed, freed, pc, thread, calls, history>>

-----------------------------------------------------------------------------
(* The rest of run() *)

\* A success is counted and returned.
Result(t) ==
    /\ pc[t] = "result"
    /\ Goes(t, IF t \in failed THEN "fallback" ELSE "idle")
    /\ UNCHANGED <<config, resident, state, thread, calls, history>>

\* policy() == HardwareOnly, read after the failure
Strict == policy = "hardware_only"

\* The original error is thrown, or the degradation is recorded and the
\* software leg runs if there is one.
Fallback(t) ==
    /\ pc[t] = "fallback"
    /\ degraded' = IF Strict \/ ~software THEN degraded ELSE degraded \cup {t}
    /\ Goes(t, "idle")
    /\ UNCHANGED <<config, resident, state, thread, calls, late, lingers, constant>>

-----------------------------------------------------------------------------
Next ==
    \/ use_hardware \/ \E p \in Policies : set_policy(p)
    \/ \E d \in Dispatches : PoolGone(d)
    \/ \E t \in Threads :
        \/ RunBegins(t) \/ Decide(t) \/ Snapshot(t)
        \/ Lazy(t) \/ Enter(t)
        \/ \E pool \in BOOLEAN : CallReturns(t, pool)
        \/ CallThrows(t) \/ CallUndefined(t)
        \/ Drop(t) \/ Leave(t)
        \/ Drain(t, "drop_drain", "drop_close")
        \/ Drain(t, "leave_drain", "leave_close")
        \/ DrainUndefined(t)
        \/ CloseDone(t, "drop_close", "leave")
        \/ CloseDone(t, "leave_close", "result")
        \/ CloseUndefined(t)
        \/ ProbeBegins(t) \/ ProbeEnds(t)
        \/ Result(t) \/ Fallback(t)

Spec == Init /\ [][Next]_vars

-----------------------------------------------------------------------------
(* Properties *)

Counted == {"call", "drop", "drop_drain", "drop_close", "leave"}
PCs == Counted \cup {"idle", "decide", "snapshot", "lazy", "enter", "leave_drain",
                     "leave_close", "result", "fallback", "probe_call", "undefined"}
Defined == \A t \in Threads : pc[t] # "undefined"

\* Types, and active counts exactly the threads inside a shared call.
TypeOK ==
    /\ policy \in Policies /\ {software, hardware} \subseteq BOOLEAN
    /\ changes \in 0 .. MaxChanges
    /\ shared \in 0 .. made /\ owned \in 0 .. made /\ made \in 0 .. MaxDispatches
    /\ retired \in [Dispatches -> Nat] /\ active \in Nat
    /\ {closed, freed, pools, lingers} \subseteq SUBSET Dispatches
    /\ pc \in [Threads -> PCs] /\ leg \in [Threads -> BOOLEAN]
    /\ backend \in [Threads -> {"none", "hardware", "software", "unavailable"}]
    /\ client \in [Threads -> 0 .. made] /\ done \in [Threads -> SUBSET Dispatches]
    /\ {failed, late, constant, degraded} \subseteq SUBSET Threads
    /\ calls \in 0 .. MaxCalls
    /\ Defined => active = Cardinality({t \in Threads : pc[t] \in Counted})

\* However many threads fail on whichever dispatch, each dispatch is in exactly
\* one place: the resident, the retired list, the hands of one thread that
\* closes it, or closed.  So none is closed twice, none is forgotten by
\* dsp_drop_shared, and the next caller is given one that was neither retired
\* nor destroyed ("one another thread already replaced is left alone",
\* dsp_dispatch.hpp:47).
OneKeeper ==
    /\ shared \notin freed
    /\ \A d \in 1 .. made :
         retired[d] + Cardinality({t \in Threads : d \in done[t]})
           + Cardinality({d} \cap {shared}) + Cardinality({d} \cap closed) = 1

\* A dispatch is closed beneath a call that has counted itself in only if it
\* was retired between that thread's two critical sections.
ClosedBeneathLate ==
    \A t \in Threads : pc[t] = "call" /\ client[t] \in closed => t \in late

\* When nobody is inside a shared call, nothing is left on the retired list
\* but what the last drain found with live pools: the last one out always
\* sees what the others retired.
RestDrained ==
    (\A t \in Threads : pc[t] = "idle") => Listed \subseteq lingers

\* The policy as one run sees it, if nobody changes it meanwhile:
\* hardware-only never degrades to software after a failure, and
\* software-only never touches the resident dispatch.
PolicyHonoured ==
    \A t \in constant :
        /\ policy = "hardware_only" => t \notin degraded
        /\ policy = "software_only" =>
             pc[t] \notin Counted \cup {"lazy", "enter", "leave_drain", "leave_close",
                                        "result", "fallback"}

\* dsp_dispatch.hpp:46: "Retire the resident after a failure - without closing
\* it beneath whatever is still using it."  A retired dispatch exists until
\* it has been drained.
RetiredExists == Listed \cap freed = {}

\* The resident dispatches and the routing: the count of callers is exact where
\* it is defined, each dispatch has one keeper, and the policy is honoured.
RoutingSound == TypeOK /\ OneKeeper /\ PolicyHonoured
=============================================================================
