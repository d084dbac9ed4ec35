------------------------- MODULE InferencePipeline -------------------------
(***************************************************************************)
(* InferencePipeline (cpp/src/pipeline.cpp) and the device-resident leg of *)
(* Preprocessor (cpp/src/preprocess.cpp): who holds the DSP buffer that a  *)
(* pass feeds to the daemon, on every way out of run() and run_async().    *)
(*                                                                         *)
(* A pass is one call. Its tensor is a Mat, a Frame, or a DspBufferRef;    *)
(* only the ref owns something, and it is released by settle_input(), by   *)
(* the result, or by the destructor of whatever holds it: the call's       *)
(* frame, the closure inside the future, or the result.                    *)
(***************************************************************************)
EXTENDS Naturals

CONSTANTS IpPasses  \* the calls of one pipeline

VARIABLES
  iretain,  \* retain_input
  iasync,   \* whether each pass is a run_async()
  iat,      \* where it is: "idle", "ready", "infer", "decode", "back", "threw", "over"
  iref,     \* its tensor, if it is a ref: "none", "call", "closure", "result", "gone"
  idead,    \* the DSP client was closed: the ref's pool is gone
  ireq,     \* the daemon works on the request
  igave,    \* the request was given up by its deadline
  irel      \* releases of the ref

ivars == <<iretain, iasync, iat, iref, idead, ireq, igave, irel>>

IpInit ==
  /\ iretain \in BOOLEAN
  /\ iasync \in [IpPasses -> BOOLEAN]
  /\ iat = [p \in IpPasses |-> "idle"]
  /\ iref = [p \in IpPasses |-> "none"]
  /\ idead = [p \in IpPasses |-> FALSE]
  /\ ireq = [p \in IpPasses |-> FALSE]
  /\ igave = [p \in IpPasses |-> FALSE]
  /\ irel = [p \in IpPasses |-> 0]

IpGoto(p, where) == iat' = [iat EXCEPT ![p] = where]

(* The tensor the preprocessor returns. The passthrough leg resizes on the  *)
(* DSP into a buffer that stays there; a DspError falls back to pixels      *)
(* unless the policy is hardware-only, and identity geometry, the RGB path  *)
(* and a pipeline without preprocessor give pixels or the source itself.    *)
passthrough(p) == iref' = [iref EXCEPT ![p] = "call"] /\ IpGoto(p, "ready")
Pixels(p) == UNCHANGED iref /\ IpGoto(p, "ready")
Refused(p) == UNCHANGED iref /\ IpGoto(p, "over")

(* resolve_model() and prepare(), on the caller's thread in both calls.     *)
prepare(p) ==
  /\ iat[p] = "idle"
  /\ passthrough(p) \/ Pixels(p) \/ Refused(p)
  /\ UNCHANGED <<iretain, iasync, idead, ireq, igave, irel>>

(* DspBufferRef::release(): once, whatever the pool's state.                *)
Released(p) == [irel EXCEPT ![p] = IF iref[p] \in {"none", "gone"} THEN @ ELSE @ + 1]
Gone(p) == [iref EXCEPT ![p] = IF @ = "none" THEN @ ELSE "gone"]
Destroyed(p) == irel' = Released(p) /\ iref' = Gone(p)

(* settle_input(): a retained tensor is handed on, and on the failure path  *)
(* dropped with the discarded return value; any other ref is released.      *)
settle_input(p) ==
  IF iretain THEN iref' = [iref EXCEPT ![p] = IF @ = "none" THEN @ ELSE "result"] /\ UNCHANGED irel
             ELSE Destroyed(p)

(* to_infer_input() names the ref's buffer, and throws if its pool is gone: *)
(* run() settles and throws, run_async() unwinds with the tensor a local.   *)
to_infer_input(p) ==
  /\ iat[p] = "ready" /\ iref[p] = "call" /\ idead[p]
  /\ Destroyed(p)
  /\ IpGoto(p, "over")
  /\ UNCHANGED <<iretain, iasync, idead, ireq, igave>>

(* A plausible bug: the tensor dies with run_async(), not with its task.    *)
ReleasesEarly(p) ==
  /\ iat[p] = "ready" /\ ~(iref[p] = "call" /\ idead[p])
  /\ ireq' = [ireq EXCEPT ![p] = TRUE]
  /\ IF iasync[p] THEN Destroyed(p) ELSE UNCHANGED <<iref, irel>>
  /\ IpGoto(p, "infer")
  /\ UNCHANGED <<iretain, iasync, idead, igave>>

(* The request goes out. infer_async() starts it on a thread of its own,    *)
(* and the tensor moves into the closure of the second one.                 *)
infer(p) ==
  /\ iat[p] = "ready" /\ ~(iref[p] = "call" /\ idead[p])
  /\ ireq' = [ireq EXCEPT ![p] = TRUE]
  /\ iref' = [iref EXCEPT ![p] = IF @ = "call" /\ iasync[p] THEN "closure" ELSE @]
  /\ IpGoto(p, "infer")
  /\ UNCHANGED <<iretain, iasync, idead, igave, irel>>

(* No thread for infer_async(), or for run_async()'s own task: the closure  *)
(* is destroyed, its future first, which waits for the request.             *)
NoThread(p) ==
  /\ iasync[p] /\ ~ireq[p]
  /\ iat[p] = "infer" \/ (iat[p] = "ready" /\ ~(iref[p] = "call" /\ idead[p]))
  /\ Destroyed(p)
  /\ IpGoto(p, "over")
  /\ UNCHANGED <<iretain, iasync, idead, ireq, igave>>

(* The answer, or an error while the daemon has let go of the request, or   *)
(* the deadline while it may still be reading the buffer.                   *)
InferReturns(p) ==
  /\ iat[p] = "infer" /\ ~ireq[p]
  /\ IpGoto(p, "decode")
  /\ UNCHANGED <<iretain, iasync, iref, idead, ireq, igave, irel>>

(* The catch of run() and of the task: settle, then throw; what settle_input*)
(* hands on is dropped at once.                                             *)
InferThrows(p) ==
  /\ iat[p] = "infer"
  /\ igave' = [igave EXCEPT ![p] = ireq[p]]
  /\ Destroyed(p)
  /\ IpGoto(p, IF iasync[p] THEN "threw" ELSE "over")
  /\ UNCHANGED <<iretain, iasync, idead, ireq>>

(* decode() and settle_input(): the result is returned, or waits in the     *)
(* future.                                                                  *)
Decodes(p) ==
  /\ iat[p] = "decode"
  /\ settle_input(p)
  /\ IpGoto(p, "back")
  /\ UNCHANGED <<iretain, iasync, idead, ireq, igave>>

(* The postprocessor throws: run()'s tensor dies with the call, the task's  *)
(* stays in the closure for as long as the future is kept.                  *)
DecodeThrows(p) ==
  /\ iat[p] = "decode"
  /\ IF iasync[p] THEN IpGoto(p, "threw") /\ UNCHANGED <<iref, irel>>
                  ELSE IpGoto(p, "over") /\ Destroyed(p)
  /\ UNCHANGED <<iretain, iasync, idead, ireq, igave>>

(* PipelineResult::release(), which leaves a plain tensor alone.            *)
ResultRelease(p) ==
  /\ iat[p] = "back" /\ iref[p] = "result"
  /\ Destroyed(p)
  /\ UNCHANGED <<iretain, iasync, iat, idead, ireq, igave>>

(* The result, or the future with its exception and closure, is destroyed.  *)
Dropped(p) ==
  /\ iat[p] \in {"back", "threw"}
  /\ Destroyed(p)
  /\ IpGoto(p, "over")
  /\ UNCHANGED <<iretain, iasync, idead, ireq, igave>>

(* The daemon is done with a request; the DSP client is closed.             *)
DaemonAnswers(p) ==
  /\ ireq[p]
  /\ ireq' = [ireq EXCEPT ![p] = FALSE]
  /\ UNCHANGED <<iretain, iasync, iat, iref, idead, igave, irel>>

DspCloses ==
  /\ \E p \in IpPasses : ~idead[p] /\ iref[p] \in {"call", "closure", "result"}
  /\ idead' = [p \in IpPasses |-> idead[p] \/ iref[p] \in {"call", "closure", "result"}]
  /\ UNCHANGED <<iretain, iasync, iat, iref, ireq, igave, irel>>

IpNext ==
  \/ \E p \in IpPasses :
       \/ prepare(p) \/ to_infer_input(p) \/ infer(p) \/ NoThread(p) \/ InferReturns(p)
       \/ InferThrows(p) \/ Decodes(p) \/ DecodeThrows(p) \/ ResultRelease(p)
       \/ Dropped(p) \/ DaemonAnswers(p)
  \/ DspCloses

IpSpec == IpInit /\ [][IpNext]_ivars

-----------------------------------------------------------------------------
(* The device buffer of a pass is released exactly once, whatever throws    *)
(* and wherever the tensor is by then: never twice, and by the time that    *)
(* the call, its future and its result are gone. The daemon is done with it *)
(* unless the request was given up, a result of a pipeline that does not    *)
(* retain its input never holds a live one, and a failed pass keeps none    *)
(* but in the closure of a future that nobody has dropped.                  *)
InputReleasedOnce ==
  \A p \in IpPasses :
    /\ irel[p] <= 1
    /\ irel[p] = 1 <=> iref[p] = "gone"
    /\ iat[p] = "over" => iref[p] \in {"none", "gone"}
    /\ iref[p] = "gone" => ~ireq[p] \/ igave[p]
    /\ iat[p] = "back" /\ iref[p] = "result" => iretain
    /\ iat[p] = "threw" => iref[p] \in {"none", "gone", "closure"}
=============================================================================
