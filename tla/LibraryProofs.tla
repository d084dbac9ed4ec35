--------------------------- MODULE LibraryProofs ---------------------------
(***************************************************************************)
(* Machine-checked proofs about the smaller components, for every number   *)
(* of passes, clients, subscriptions, threads, users, frames and steps,    *)
(* and every frame size: who holds a pass's device buffer, what the        *)
(* control clients' writes lose, when a handler is quiet, what a returned  *)
(* batch means, whether an audio frame is whole, what plugin discovery's   *)
(* cache misses, who gives a retained frame back, where cropping and       *)
(* resizing put the pixels, what an overlay's fragments show, which boxes  *)
(* are detected, and what the sequence counters count.                     *)
(***************************************************************************)
EXTENDS InferencePipeline, ControlPlane, EventClient, AudioReader, PluginDiscovery,
        FrameRetention, FrameGeometry, OverlayFragments, Detections, EncodedReader,
        FiniteSetTheorems, SequenceTheorems, WellFoundedInduction, TLAPS

-----------------------------------------------------------------------------
(* Induction over the naturals, in the form of sets. *)

\* A nonempty set of naturals has a least element.
LEMMA LeastNatural ==
    ASSUME NEW T, T \subseteq Nat, T # {}
    PROVE  \E n \in T : \A m \in T : n <= m
  <1>1. PICK n \in T : \A m \in T : ~ (<<m, n>> \in OpToRel(<, Nat))
    BY NatLessThanWellFounded, WFMin
  <1>2. \A m \in T : ~ (m < n) BY <1>1 DEF OpToRel
  <1> QED BY <1>2

-----------------------------------------------------------------------------
(* InferencePipeline *)

\* Where the ref of a pass may be while the pass is at each place.
InClosure(p) == IF iasync[p] THEN "closure" ELSE "call"
HeldAt(p) ==
    /\ iat[p] = "idle" => iref[p] = "none"
    /\ iat[p] = "ready" => iref[p] \in {"none", "call"}
    /\ iat[p] \in {"infer", "decode"} => iref[p] \in {"none", InClosure(p)}
    /\ iat[p] = "back" => iref[p] \in {"none", "result", "gone"}
    /\ iat[p] = "threw" => iref[p] \in {"none", "closure", "gone"}
    /\ iat[p] = "over" => iref[p] \in {"none", "gone"}

IpTypes ==
    /\ iretain \in BOOLEAN /\ iasync \in [IpPasses -> BOOLEAN]
    /\ iat \in [IpPasses -> {"idle", "ready", "infer", "decode", "back", "threw", "over"}]
    /\ iref \in [IpPasses -> {"none", "call", "closure", "result", "gone"}]
    /\ ireq \in [IpPasses -> BOOLEAN] /\ igave \in [IpPasses -> BOOLEAN]
    /\ irel \in [IpPasses -> {0, 1}]

\* The inductive invariant: the place decides who holds the ref, the ref was
\* released if and only if it is gone, and the daemon is only ever busy with
\* a pass that waits for it or that gave it up.
PassInv ==
    /\ IpTypes
    /\ \A p \in IpPasses :
          /\ HeldAt(p)
          /\ irel[p] = 1 <=> iref[p] = "gone"
          /\ ireq[p] => iat[p] = "infer" \/ igave[p]
          /\ iref[p] = "result" => iretain

\* The property follows from the invariant.
LEMMA PassInvImplies == PassInv => InputReleasedOnce
  <1> SUFFICES ASSUME PassInv, NEW p \in IpPasses
               PROVE  /\ irel[p] <= 1
                      /\ irel[p] = 1 <=> iref[p] = "gone"
                      /\ iat[p] = "over" => iref[p] \in {"none", "gone"}
                      /\ iref[p] = "gone" => ~ireq[p] \/ igave[p]
                      /\ iat[p] = "back" /\ iref[p] = "result" => iretain
                      /\ iat[p] = "threw" => iref[p] \in {"none", "gone", "closure"}
    BY DEF InputReleasedOnce
  <1>1. irel[p] <= 1 BY DEF PassInv, IpTypes
  <1>2. iref[p] = "gone" => iat[p] # "infer"
    BY DEF PassInv, IpTypes, HeldAt, InClosure
  <1> QED BY <1>1, <1>2 DEF PassInv, IpTypes, HeldAt

\* The invariant holds before the first pass.
LEMMA PassInitial == IpInit => PassInv
  BY DEF IpInit, PassInv, IpTypes, HeldAt, InClosure

\* A step of one pass that releases its ref, wherever the ref is.
LEMMA DestroyedFacts ==
    ASSUME PassInv, NEW p \in IpPasses, Destroyed(p)
    PROVE  /\ iref' \in [IpPasses -> {"none", "call", "closure", "result", "gone"}]
           /\ irel' \in [IpPasses -> {0, 1}]
           /\ iref'[p] \in {"none", "gone"} /\ (irel'[p] = 1 <=> iref'[p] = "gone")
           /\ \A q \in IpPasses \ {p} : iref'[q] = iref[q] /\ irel'[q] = irel[q]
  BY DEF PassInv, IpTypes, Destroyed, Released, Gone

\* Every step of a pass keeps the invariant of all.
LEMMA PassStep ==
    ASSUME PassInv, [IpNext]_ivars
    PROVE  PassInv'
  <1> USE DEF IpGoto
  <1>1. CASE UNCHANGED ivars
    BY <1>1 DEF ivars, PassInv, IpTypes, HeldAt, InClosure
  <1>2. CASE DspCloses
    BY <1>2 DEF DspCloses, PassInv, IpTypes, HeldAt, InClosure
  <1>3. ASSUME NEW p \in IpPasses, prepare(p) PROVE PassInv'
    BY <1>3 DEF prepare, passthrough, Pixels, Refused, PassInv, IpTypes, HeldAt, InClosure
  <1>4. ASSUME NEW p \in IpPasses, to_infer_input(p) PROVE PassInv'
    BY <1>4, DestroyedFacts DEF to_infer_input, PassInv, IpTypes, HeldAt, InClosure
  <1>5. ASSUME NEW p \in IpPasses, infer(p) PROVE PassInv'
    BY <1>5 DEF infer, PassInv, IpTypes, HeldAt, InClosure
  <1>6. ASSUME NEW p \in IpPasses, NoThread(p) PROVE PassInv'
    BY <1>6, DestroyedFacts DEF NoThread, PassInv, IpTypes, HeldAt, InClosure
  <1>7. ASSUME NEW p \in IpPasses, InferReturns(p) PROVE PassInv'
    BY <1>7 DEF InferReturns, PassInv, IpTypes, HeldAt, InClosure
  <1>8. ASSUME NEW p \in IpPasses, InferThrows(p) PROVE PassInv'
    BY <1>8, DestroyedFacts DEF InferThrows, PassInv, IpTypes, HeldAt, InClosure
  <1>9. ASSUME NEW p \in IpPasses, Decodes(p) PROVE PassInv'
    <2>1. CASE iretain
      BY <1>9, <2>1 DEF Decodes, settle_input, PassInv, IpTypes, HeldAt, InClosure
    <2>2. CASE ~iretain
      BY <1>9, <2>2, DestroyedFacts DEF Decodes, settle_input, PassInv, IpTypes, HeldAt, InClosure
    <2> QED BY <2>1, <2>2
  <1>10. ASSUME NEW p \in IpPasses, DecodeThrows(p) PROVE PassInv'
    <2>1. CASE iasync[p]
      BY <1>10, <2>1 DEF DecodeThrows, PassInv, IpTypes, HeldAt, InClosure
    <2>2. CASE ~iasync[p]
      BY <1>10, <2>2, DestroyedFacts DEF DecodeThrows, PassInv, IpTypes, HeldAt, InClosure
    <2> QED BY <2>1, <2>2
  <1>11. ASSUME NEW p \in IpPasses, ResultRelease(p) PROVE PassInv'
    BY <1>11, DestroyedFacts DEF ResultRelease, PassInv, IpTypes, HeldAt, InClosure
  <1>12. ASSUME NEW p \in IpPasses, Dropped(p) PROVE PassInv'
    BY <1>12, DestroyedFacts DEF Dropped, PassInv, IpTypes, HeldAt, InClosure
  <1>13. ASSUME NEW p \in IpPasses, DaemonAnswers(p) PROVE PassInv'
    BY <1>13 DEF DaemonAnswers, PassInv, IpTypes, HeldAt, InClosure
  <1> QED BY <1>1, <1>2, <1>3, <1>4, <1>5, <1>6, <1>7, <1>8, <1>9, <1>10, <1>11, <1>12, <1>13
          DEF IpNext

\* Whatever throws and wherever the tensor is by then, a pass's device buffer
\* is released exactly once (pipeline.cpp, run and run_async).
THEOREM InputIsReleasedOnce == IpSpec => []InputReleasedOnce
  <1>1. PassInv /\ [IpNext]_ivars => PassInv' BY PassStep
  <1> QED BY <1>1, PassInitial, PassInvImplies, PTL DEF IpSpec

-----------------------------------------------------------------------------
(* ControlPlane *)

CtlPlaces == {"idle", "merge", "af", "afoff", "restart"}
CtlSettings == [CtlFields -> CtlClients \cup {CtlUnset}]

CtlTypes ==
    /\ cconf \in CtlSettings /\ cmeant \in CtlSettings
    /\ clost \in SUBSET CtlFields
    /\ cknown \in [CtlClients -> CtlSettings]
    /\ cfresh \in [CtlClients -> BOOLEAN]
    /\ cat \in [CtlClients -> CtlPlaces]
    /\ cfield \in [CtlClients -> CtlFields]

\* A client that nobody has overtaken since it read knows what is there.
FreshMeansKnown == \A c \in CtlClients : cfresh[c] => cknown[c] = cconf

\* The inductive invariant.
CtlInv == CtlTypes /\ FreshMeansKnown /\ NoLostField /\ SequencesRestore

\* The invariant holds before the first call.
LEMMA CtlInitial == CtlInit => CtlInv
  BY DEF CtlInit, CtlInv, CtlTypes, FreshMeansKnown, NoLostField, SequencesRestore,
         Blank, CtlFields, CtlPlaces, CtlSettings

\* What the settings' part of the invariant is.
SettingInv ==
    /\ cconf \in CtlSettings /\ cmeant \in CtlSettings
    /\ clost \in SUBSET CtlFields
    /\ cknown \in [CtlClients -> CtlSettings]
    /\ cfresh \in [CtlClients -> BOOLEAN]
    /\ FreshMeansKnown /\ NoLostField

\* A write that means one field, and that passes for informed only if it
\* leaves the others as the daemon has them, loses no field unnoticed.
LEMMA StoresKeeps ==
    ASSUME SettingInv, NEW c \in CtlClients, NEW f \in CtlFields,
           NEW new \in CtlSettings, NEW informed \in BOOLEAN, new[f] = c,
           informed => \A h \in CtlFields \ {f} : new[h] = cconf[h],
           Stores(c, f, new, informed)
    PROVE  SettingInv'
  <1>1. /\ cconf' = new /\ cknown' = cknown
        /\ cmeant' = [cmeant EXCEPT ![f] = c]
        /\ clost' = (clost \ {f}) \cup {h \in CtlFields \ {f} : new[h] # cconf[h] /\ ~informed}
        /\ cfresh' = [d \in CtlClients |-> FALSE]
    BY DEF Stores
  <1>2. cmeant' \in CtlSettings
    BY <1>1 DEF SettingInv, CtlSettings
  <1>3. NoLostField'
    <2> SUFFICES ASSUME NEW h \in CtlFields PROVE cconf'[h] = cmeant'[h] \/ h \in clost'
      BY DEF NoLostField
    <2>1. CASE h = f
      BY <1>1, <2>1 DEF SettingInv, CtlSettings
    <2>2. CASE h # f /\ new[h] # cconf[h]
      BY <1>1, <2>2
    <2>3. CASE h # f /\ new[h] = cconf[h]
      BY <1>1, <2>3 DEF SettingInv, CtlSettings, NoLostField
    <2> QED BY <2>1, <2>2, <2>3
  <1> QED BY <1>1, <1>2, <1>3 DEF SettingInv, FreshMeansKnown

\* A client that reads the setting keeps the invariant.
LEMMA ReadsKeeps ==
    ASSUME SettingInv, NEW c \in CtlClients, NEW ignores, NEW o \in Outcomes, Reads(c, ignores, o)
    PROVE  SettingInv'
  <1>1. o.applied \in BOOLEAN /\ Blank \in CtlSettings
    BY DEF Outcomes, Blank, CtlSettings
  <1> QED BY <1>1 DEF Reads, SettingInv, FreshMeansKnown, NoLostField

\* What writes no setting keeps the invariant.
LEMMA KeepsKeeps == SettingInv /\ Keeps => SettingInv'
  BY DEF Keeps, SettingInv, FreshMeansKnown, NoLostField

\* A client that writes the setting keeps the invariant.
LEMMA WritesKeeps ==
    ASSUME SettingInv, NEW c \in CtlClients, NEW kind, NEW o \in Outcomes, Writes(c, kind, o)
    PROVE  SettingInv'
  <1>1. CASE ~o.applied
    BY <1>1, KeepsKeeps DEF Writes
  <1>2. CASE o.applied
    <2>1. PICK f \in CtlFields :
             \/ Stores(c, f, [cconf EXCEPT ![f] = c], TRUE)
             \/ Stores(c, f, [cknown[c] EXCEPT ![f] = c], cfresh[c])
             \/ Stores(c, f, [Blank EXCEPT ![f] = c], FALSE)
      BY <1>2 DEF Writes
    <2>2. CASE Stores(c, f, [cconf EXCEPT ![f] = c], TRUE)
      <3>1. /\ [cconf EXCEPT ![f] = c] \in CtlSettings
            /\ [cconf EXCEPT ![f] = c][f] = c
            /\ \A h \in CtlFields \ {f} : [cconf EXCEPT ![f] = c][h] = cconf[h]
        BY DEF SettingInv, CtlSettings
      <3> QED BY <2>2, <3>1, StoresKeeps
    <2>3. CASE Stores(c, f, [cknown[c] EXCEPT ![f] = c], cfresh[c])
      <3>1. /\ [cknown[c] EXCEPT ![f] = c] \in CtlSettings
            /\ [cknown[c] EXCEPT ![f] = c][f] = c
            /\ cfresh[c] => \A h \in CtlFields \ {f} : [cknown[c] EXCEPT ![f] = c][h] = cconf[h]
        BY DEF SettingInv, CtlSettings, FreshMeansKnown
      <3>2. cfresh[c] \in BOOLEAN BY DEF SettingInv
      <3> QED BY ZenonT(30), <2>3, <3>1, <3>2, StoresKeeps
    <2>4. CASE Stores(c, f, [Blank EXCEPT ![f] = c], FALSE)
      <3>1. /\ [Blank EXCEPT ![f] = c] \in CtlSettings
            /\ [Blank EXCEPT ![f] = c][f] = c
        BY DEF Blank, CtlSettings
      <3> QED BY <2>4, <3>1, StoresKeeps
    <2> QED BY <2>1, <2>2, <2>3, <2>4
  <1>3. o.applied \in BOOLEAN BY DEF Outcomes
  <1> QED BY <1>1, <1>2, <1>3

\* A merging write is like a whole one.
LEMMA MergeStores ==
    ASSUME SettingInv, NEW c \in CtlClients, cfield[c] \in CtlFields,
           Stores(c, cfield[c], merged_privacy_mask(cknown[c], cfield[c], c), cfresh[c])
    PROVE  SettingInv'
  <1>1. PICK f \in CtlFields : f = cfield[c]
    OBVIOUS
  <1>2. Stores(c, f, [cknown[c] EXCEPT ![f] = c], cfresh[c])
    BY <1>1 DEF merged_privacy_mask
  <1>3. /\ [cknown[c] EXCEPT ![f] = c] \in CtlSettings
        /\ [cknown[c] EXCEPT ![f] = c][f] = c
        /\ cfresh[c] => \A h \in CtlFields \ {f} : [cknown[c] EXCEPT ![f] = c][h] = cconf[h]
    BY DEF SettingInv, CtlSettings, FreshMeansKnown
  <1>4. cfresh[c] \in BOOLEAN BY DEF SettingInv
  <1>5. PICK new : new = [cknown[c] EXCEPT ![f] = c]
    OBVIOUS
  <1>6. Stores(c, f, new, cfresh[c])
    BY <1>2, <1>5
  <1>7. /\ new \in CtlSettings /\ new[f] = c
        /\ cfresh[c] => \A h \in CtlFields \ {f} : new[h] = cconf[h]
    BY <1>3, <1>5
  <1> QED BY <1>4, <1>6, <1>7, StoresKeeps

\* Every step keeps what the settings promise.
LEMMA SettingStep ==
    ASSUME CtlInv, NEW c \in CtlClients,
           \/ Calling(c) \/ MergeReads(c) \/ MergeWrites(c) \/ UNCHANGED setting
    PROVE  SettingInv'
  <1>0. SettingInv
    BY DEF CtlInv, CtlTypes, SettingInv
  <1>1. CASE Calling(c)
    <2>1. PICK call \in AllCalls, o \in Outcomes :
             \/ Writes(c, call.kind, o) \/ Reads(c, call.ignores, o) \/ Keeps
      BY <1>1 DEF Calling
    <2> QED BY <1>0, <2>1, WritesKeeps, ReadsKeeps, KeepsKeeps
  <1>2. CASE MergeReads(c)
    <2> DEFINE answer == [applied |-> TRUE, answered |-> TRUE]
    <2>1. answer \in Outcomes BY DEF Outcomes
    <2>2. CASE UNCHANGED setting
      BY <1>0, <2>2 DEF setting, SettingInv, FreshMeansKnown, NoLostField
    <2>3. CASE Reads(c, FALSE, answer)
      <3> HIDE DEF answer
      <3> QED BY <1>0, <2>1, <2>3, ReadsKeeps
    <2>4. Reads(c, FALSE, answer) \/ UNCHANGED setting
      BY <1>2 DEF MergeReads
    <2> QED BY <2>2, <2>3, <2>4
  <1>3. CASE MergeWrites(c)
    <2>1. cfield[c] \in CtlFields BY DEF CtlInv, CtlTypes
    <2> QED BY <1>0, <1>3, <2>1, MergeStores, KeepsKeeps DEF MergeWrites
  <1>4. CASE UNCHANGED setting
    BY <1>0, <1>4 DEF setting, SettingInv, FreshMeansKnown, NoLostField
  <1> QED BY <1>1, <1>2, <1>3, <1>4

\* No step of one client takes from another the place that vouches for a
\* continuous autofocus that is held on, or for an app that is restarting.
LEMMA PlacesStep ==
    ASSUME CtlInv, NEW c \in CtlClients,
           \/ Calling(c) \/ MergeReads(c) \/ MergeWrites(c)
           \/ AfBegins(c) \/ AfSettles(c) \/ AfThrows(c) \/ AfEnds(c) \/ focus_auto(c)
           \/ stop_app(c) \/ start_app(c) \/ RestartStops(c) \/ RestartStarts(c)
    PROVE  /\ cat' \in [CtlClients -> CtlPlaces] /\ cfield' \in [CtlClients -> CtlFields]
           /\ SequencesRestore'
  <1> USE DEF CtlInv, CtlTypes, SequencesRestore, CtlPlaces, Goes, Begins
  <1>1. CASE Calling(c) BY <1>1 DEF Calling
  <1>2. CASE MergeReads(c) BY <1>2 DEF MergeReads, setting
  <1>3. CASE MergeWrites(c) BY <1>3 DEF MergeWrites
  <1>4. CASE AfBegins(c) BY <1>4 DEF AfBegins, setting
  <1>5. CASE AfSettles(c) BY <1>5 DEF AfSettles, setting
  <1>6. CASE AfThrows(c) BY <1>6 DEF AfThrows, Abandoned, setting
  <1>7. CASE AfEnds(c) BY <1>7 DEF AfEnds, Abandoned, setting
  <1>8. CASE focus_auto(c) BY <1>8 DEF focus_auto, setting
  <1>9. CASE stop_app(c) BY <1>9 DEF stop_app, setting
  <1>10. CASE start_app(c) BY <1>10 DEF start_app, setting
  <1>11. CASE RestartStops(c) BY <1>11 DEF RestartStops, setting
  <1>12. CASE RestartStarts(c) BY <1>12 DEF RestartStarts, setting
  <1> QED BY <1>1, <1>2, <1>3, <1>4, <1>5, <1>6, <1>7, <1>8, <1>9, <1>10, <1>11, <1>12

\* Every call of a control client keeps the invariant.
LEMMA CtlStep ==
    ASSUME CtlInv, [CtlNext]_cvars
    PROVE  CtlInv'
  <1>1. CASE UNCHANGED cvars
    BY <1>1 DEF cvars, CtlInv, CtlTypes, FreshMeansKnown, NoLostField, SequencesRestore
  <1>2. ASSUME NEW c \in CtlClients,
               \/ Calling(c) \/ MergeReads(c) \/ MergeWrites(c)
               \/ AfBegins(c) \/ AfSettles(c) \/ AfThrows(c) \/ AfEnds(c) \/ focus_auto(c)
               \/ stop_app(c) \/ start_app(c) \/ RestartStops(c) \/ RestartStarts(c)
        PROVE  CtlInv'
    <2>1. Calling(c) \/ MergeReads(c) \/ MergeWrites(c) \/ UNCHANGED setting
      BY <1>2 DEF AfBegins, AfSettles, AfThrows, AfEnds, focus_auto, stop_app, start_app,
                  RestartStops, RestartStarts
    <2>2. SettingInv' BY <2>1, SettingStep
    <2> QED BY <1>2, <2>2, PlacesStep DEF CtlInv, CtlTypes, SettingInv
  <1> QED BY <1>1, <1>2 DEF CtlNext

\* A partial update loses no field but one that a client with an outdated
\* view wrote back (camera.hpp, set_privacy_mask).
THEOREM NoFieldIsLost == CtlSpec => []NoLostField
  <1>1. CtlInv /\ [CtlNext]_cvars => CtlInv' BY CtlStep
  <1>2. CtlInv => NoLostField BY DEF CtlInv
  <1> QED BY <1>1, <1>2, CtlInitial, PTL DEF CtlSpec

\* oneshot_autofocus() and restart_app() put back what they changed unless a
\* call of theirs fails, whatever other clients do meanwhile.
THEOREM SequencesRestoreWhatTheyChange == CtlSpec => []SequencesRestore
  <1>1. CtlInv /\ [CtlNext]_cvars => CtlInv' BY CtlStep
  <1>2. CtlInv => SequencesRestore BY DEF CtlInv
  <1> QED BY <1>1, <1>2, CtlInitial, PTL DEF CtlSpec

-----------------------------------------------------------------------------
(* EventClient *)

EvTypes ==
    /\ vrunning \in BOOLEAN
    /\ vkind \in [EvSubs -> {"push", "pull"}]
    /\ vat \in [EvSubs -> {"none", "start", "loop", "read", "call", "ended"}]
    /\ vborn \in [EvSubs -> BOOLEAN] /\ vcalls \in [EvSubs -> BOOLEAN]
    /\ vlate \in [EvSubs -> {0, 1}]

\* The handlers' part of the inductive invariant: a handler that was late once
\* is past the check that lets it be late again, and one that was made after
\* close() never comes past it.
HandlerInv ==
    /\ EvTypes
    /\ \A h \in EvSubs :
          /\ vrunning => vborn[h]
          /\ vat[h] = "none" => vkind[h] = "pull" /\ ~vcalls[h]
          /\ vkind[h] = "pull" => vat[h] \notin {"start", "call"}
          /\ vlate[h] = 1 => ~vrunning /\ vkind[h] = "push" /\ vat[h] \in {"loop", "ended"}
          /\ ~vborn[h] => ~vcalls[h] /\ (vkind[h] = "push" => vat[h] \notin {"read", "call"})

\* The batch's part: the bus takes what was written and no more than that, and
\* says ok to a whole batch only.
BatchInv ==
    /\ vbatch \in [at : {"idle", "writing", "finish", "returned", "threw"},
                    wrote : Nat, took : Nat, answer : {"none", "ok", "refused", "lost"}]
    /\ vbatch.took <= vbatch.wrote /\ vbatch.wrote <= EvBatch
    /\ vbatch.answer = "ok" => vbatch.took = EvBatch /\ vbatch.at \in {"finish", "returned"}
    /\ vbatch.at = "returned" => vbatch.answer = "ok"

\* Both invariants hold before the first subscription.
LEMMA EvInitial == EvInit => HandlerInv /\ BatchInv
  BY EvAssumption DEF EvInit, HandlerInv, EvTypes, BatchInv, Idle

\* Every step keeps what is known of the handlers.
LEMMA HandlerStep ==
    ASSUME HandlerInv, [EvNext]_vvars
    PROVE  HandlerInv'
  <1> USE DEF HandlerInv, EvTypes, EvGoto
  <1>1. CASE UNCHANGED vvars BY <1>1 DEF vvars
  <1>2. ASSUME NEW h \in EvSubs, on_event(h) PROVE HandlerInv' BY <1>2 DEF on_event
  <1>3. ASSUME NEW h \in EvSubs, EvSubscribes(h) PROVE HandlerInv' BY <1>3 DEF EvSubscribes
  <1>4. ASSUME NEW h \in EvSubs, subscribe(h) PROVE HandlerInv' BY <1>4 DEF subscribe
  <1>5. ASSUME NEW h \in EvSubs, EvLoop(h) PROVE HandlerInv' BY <1>5 DEF EvLoop
  <1>6. ASSUME NEW h \in EvSubs, EvRead(h) PROVE HandlerInv' BY <1>6 DEF EvRead
  <1>7. ASSUME NEW h \in EvSubs, EvReadEnds(h) PROVE HandlerInv' BY <1>7 DEF EvReadEnds
  <1>8. ASSUME NEW h \in EvSubs, EvCallback(h) PROVE HandlerInv' BY <1>8 DEF EvCallback
  <1>9. ASSUME NEW h \in EvSubs, EvDrops(h) PROVE HandlerInv' BY <1>9 DEF EvDrops
  <1>10. CASE publish BY <1>10 DEF publish
  <1>11. CASE BatchWrite BY <1>11 DEF BatchWrite
  <1>12. CASE BatchTake BY <1>12 DEF BatchTake
  <1>13. CASE BatchAnswer BY <1>13 DEF BatchAnswer
  <1>14. CASE BatchFinish BY <1>14 DEF BatchFinish
  <1>15. CASE unsubscribe BY <1>15 DEF unsubscribe
  <1>16. CASE EvClose BY <1>16 DEF EvClose
  <1> QED
    BY <1>1, <1>2, <1>3, <1>4, <1>5, <1>6, <1>7, <1>8, <1>9, <1>10, <1>11, <1>12, <1>13,
       <1>14, <1>15, <1>16 DEF EvNext

\* Every step keeps what is known of a batch.
LEMMA BatchStep ==
    ASSUME BatchInv, [EvNext]_vvars
    PROVE  BatchInv'
  <1> USE EvAssumption DEF BatchInv
  <1>1. CASE vbatch' = vbatch BY <1>1
  <1>2. CASE BatchWrite
    <2>1. CASE vbatch.wrote < EvBatch /\ vbatch' = [vbatch EXCEPT !.at = "writing", !.wrote = @ + 1]
      <3>1. vbatch.wrote \in Nat /\ vbatch.wrote + 1 \in Nat /\ vbatch.took \in Nat
        OBVIOUS
      <3>2. vbatch.took <= vbatch.wrote + 1 /\ vbatch.wrote + 1 <= EvBatch
        BY <2>1, <3>1
      <3>3. /\ vbatch'.at = "writing" /\ vbatch'.wrote = vbatch.wrote + 1
            /\ vbatch'.took = vbatch.took /\ vbatch'.answer = vbatch.answer
        BY <2>1
      <3>4. vbatch.answer # "ok"
        BY <1>2 DEF BatchWrite
      <3>5. vbatch' \in [at : {"idle", "writing", "finish", "returned", "threw"},
                         wrote : Nat, took : Nat, answer : {"none", "ok", "refused", "lost"}]
        BY <2>1, <3>1
      <3> QED BY <3>2, <3>3, <3>4, <3>5
    <2>2. CASE vbatch' = [vbatch EXCEPT !.at = "finish"]
      BY <1>2, <2>2 DEF BatchWrite
    <2> QED BY <1>2, <2>1, <2>2 DEF BatchWrite
  <1>3. CASE BatchTake BY <1>3 DEF BatchTake
  <1>4. CASE BatchAnswer BY <1>4 DEF BatchAnswer
  <1>5. CASE BatchFinish BY <1>5 DEF BatchFinish
  <1> QED
    BY <1>1, <1>2, <1>3, <1>4, <1>5
    DEF EvNext, vvars, on_event, EvSubscribes, subscribe, EvLoop, EvRead, EvReadEnds,
        EvCallback, EvDrops, publish, unsubscribe, EvClose

\* After close() a handler calls back once more at the most, and one that is
\* made after it never does (events.hpp, on_event).
THEOREM HandlersAreQuiet == EvSpec => []HandlerQuiet
  <1>1. HandlerInv /\ [EvNext]_vvars => HandlerInv' BY HandlerStep
  <1>2. HandlerInv => HandlerQuiet BY DEF HandlerInv, EvTypes, HandlerQuiet
  <1> QED BY <1>1, <1>2, EvInitial, PTL DEF EvSpec

\* publish_batch() returns only if the bus has taken the whole batch.
THEOREM BatchIsWhole == EvSpec => []BatchWhole
  <1>1. BatchInv /\ [EvNext]_vvars => BatchInv' BY BatchStep
  <1>2. BatchInv => BatchWhole BY EvAssumption DEF BatchInv, BatchWhole
  <1> QED BY <1>1, <1>2, EvInitial, PTL DEF EvSpec

-----------------------------------------------------------------------------
(* AudioReader *)

AudTypes ==
    /\ arole \in [AudThreads -> AudRoles]
    /\ aat \in [AudThreads -> {"idle", "top", "connect", "header", "payload", "asleep"}]
    /\ afd \in AudConns \cup {0}
    /\ asock \in [AudConns -> {"unused", "start", "middle", "closed"}]
    /\ ahdr \in [AudThreads -> AudConns \cup {0}]
    /\ acloses \in Nat /\ (aclosed => acloses > 0)

\* While calls do not overlap one thread is inside the client, which sleeps
\* only without a socket.
OneInside ==
    ~amixed =>
        /\ \A t, u \in AudThreads : aat[t] # "idle" /\ aat[u] # "idle" => t = u
        /\ \A t \in AudThreads : aat[t] = "asleep" => afd = 0
        /\ AudOpen \subseteq {afd}

\* And a connection that no call kept in mid-message is there only between the
\* two reads of the thread whose header it was.
InStep ==
    ~amixed =>
        /\ abad \subseteq acut
        /\ \A t \in AudThreads :
              aat[t] = "payload" =>
                  afd = 0 \/ afd \in acut \/ (ahdr[t] = afd /\ asock[afd] = "middle")
        /\ afd # 0 /\ asock[afd] = "middle" =>
              afd \in acut \/ \E t \in AudThreads : aat[t] = "payload"

\* The inductive invariant.
AudInv ==
    /\ AudTypes /\ OneInside /\ InStep
    /\ acut # {} => acloses > 0 \/ \E t \in AudThreads : ~Reconnecting(t)
    /\ aaborted => \E t \in AudThreads : arole[t] = "pump"

\* The invariant holds before the first connection.
LEMMA AudInitial == AudInit => AudInv
  <1> SUFFICES ASSUME AudInit PROVE AudInv
    OBVIOUS
  <1>1. AudTypes BY DEF AudInit, AudTypes, AudRoles
  <1>2. AudOpen = {} BY DEF AudInit, AudOpen
  <1> QED BY <1>1, <1>2 DEF AudInit, AudInv, OneInside, InStep

\* A connection made is a new one, at the start of its byte stream.
LEMMA ConnectFacts ==
    ASSUME AudTypes, Connect
    PROVE  /\ afd' \in AudConns /\ afd' # 0
           /\ asock' = [asock EXCEPT ![afd'] = "start"]
           /\ asock' \in [AudConns -> {"unused", "start", "middle", "closed"}]
           /\ asock'[afd'] = "start"
           /\ AudOpen' = AudOpen \cup {afd'}
  <1>1. Fresh \in AudConns
    BY DEF Connect, Fresh
  <1>2. afd' = Fresh /\ asock' = [asock EXCEPT ![Fresh] = "start"]
    BY DEF Connect
  <1>3. 0 \notin AudConns BY DEF AudConns
  <1> QED BY <1>1, <1>2, <1>3 DEF AudTypes, AudOpen

\* A thread that finds no socket, or sleeps without one, connects and goes on.
LEMMA ConnectStep ==
    ASSUME AudInv, NEW t \in AudThreads, NEW where \in {"top", "header"},
           aat[t] = "asleep" \/ (aat[t] = "connect" /\ afd = 0),
           Connect, Goto(t, where),
           UNCHANGED <<arole, ahdr, aclosed, acloses, abad, amixed, acut, aaborted>>
    PROVE  AudInv'
  <1>0. AudTypes BY DEF AudInv
  <1>1. aat' \in [AudThreads -> {"idle", "top", "connect", "header", "payload", "asleep"}] /\ aat'[t] = where
        /\ \A u \in AudThreads \ {t} : aat'[u] = aat[u]
    BY <1>0 DEF AudTypes, Goto
  <1>2. AudTypes'
    BY <1>0, <1>1, ConnectFacts DEF AudTypes
  <1>3. ~amixed => afd = 0 /\ \A u \in AudThreads \ {t} : aat[u] = "idle"
    BY DEF AudInv, OneInside
  <1>4. ~amixed => AudOpen = {}
    <2>1. 0 \notin AudOpen BY DEF AudOpen, AudConns
    <2> QED BY <1>3, <2>1 DEF AudInv, OneInside
  <1>5. OneInside'
    BY <1>0, <1>1, <1>3, <1>4, ConnectFacts DEF AudInv, OneInside
  <1>6. InStep'
    BY <1>0, <1>1, <1>3, ConnectFacts DEF AudInv, InStep
  <1> QED BY <1>2, <1>5, <1>6 DEF AudInv, Reconnecting

\* Every step of reader and closer keeps the invariant.
LEMMA AudStep ==
    ASSUME AudInv, [AudNext]_avars
    PROVE  AudInv'
  <1> USE DEF AudInv, AudTypes, OneInside, InStep, Goto, Reconnecting
  <1>0. 0 \notin AudConns BY DEF AudConns
  <1>1. CASE UNCHANGED avars BY <1>1 DEF avars, AudOpen
  <1>2. ASSUME NEW t \in AudThreads, AudCall(t) PROVE AudInv'
    BY <1>2 DEF AudCall, AudOpen
  <1>3. ASSUME NEW t \in AudThreads, AudTop(t) PROVE AudInv'
    BY <1>3 DEF AudTop, AudOpen
  <1>4. ASSUME NEW t \in AudThreads, AudConnects(t) PROVE AudInv'
    <2>1. CASE afd = 0
      BY <1>4, <2>1, ConnectStep DEF AudConnects
    <2>2. CASE afd # 0
      BY <1>4, <2>2 DEF AudConnects, AudOpen
    <2> QED BY <2>1, <2>2
  <1>5. ASSUME NEW t \in AudThreads, AudConnectThrows(t) PROVE AudInv'
    BY <1>5 DEF AudConnectThrows, AudOpen
  <1>6. ASSUME NEW t \in AudThreads, AudHeader(t) PROVE AudInv'
    BY <1>6, <1>0 DEF AudHeader, Readable, AudOpen
  <1>7. ASSUME NEW t \in AudThreads, AudPayload(t) PROVE AudInv'
    BY <1>7, <1>0 DEF AudPayload, Readable, AudOpen, Back, Forget
  <1>8. ASSUME NEW t \in AudThreads, AudGivesUp(t) PROVE AudInv'
    BY <1>8, <1>0 DEF AudGivesUp, Readable, AudOpen, Back, Forget
  <1>9. ASSUME NEW t \in AudThreads, AudNextFails(t) PROVE AudInv'
    BY <1>9 DEF AudNextFails, AudOpen, Forget
  <1>10. ASSUME NEW t \in AudThreads, AudReconnects(t) PROVE AudInv'
    <2>1. CASE Connect
      BY <1>10, <2>1, ConnectStep DEF AudReconnects
    <2>2. CASE UNCHANGED <<afd, asock>>
      BY <1>10, <2>2 DEF AudReconnects, AudOpen
    <2> QED BY <1>10, <2>1, <2>2 DEF AudReconnects
  <1>11. CASE AudClose
    BY <1>11 DEF AudClose, AudOpen
  <1>12. CASE AudCloseEnds
    BY <1>12 DEF AudCloseEnds, AudOpen
  <1> QED
    BY <1>1, <1>2, <1>3, <1>4, <1>5, <1>6, <1>7, <1>8, <1>9, <1>10, <1>11, <1>12 DEF AudNext

\* Unless calls overlap, a garbled frame comes only from a connection that a
\* call kept in mid-message, which next_frame(true) of a client never closed
\* does not do, and no socket is lost (recv_frame, next_frame).
THEOREM FramesAreWhole == AudSpec => []AudioWhole
  <1>1. AudInv /\ [AudNext]_avars => AudInv' BY AudStep
  <1>2. AudInv => AudioWhole BY DEF AudInv, OneInside, InStep, AudioWhole
  <1> QED BY <1>1, <1>2, AudInitial, PTL DEF AudSpec

-----------------------------------------------------------------------------
(* PluginDiscovery *)

\* Every mtime that was ever seen is at most that of the last change, which is
\* at most the time.
FileTimes ==
    /\ pclock \in Nat /\ pwhen \in Nat \ {0} /\ plast \in Nat /\ ptold \in Nat
    /\ pwhen <= pclock /\ plast <= pwhen
    /\ pmtime = 0 \/ pmtime = pwhen

\* Unless the last change fell into a blind spot, a reload between its two
\* reads holds the document of the time that it is about to read, and so does
\* the cache once it has that time.
FollowsFile ==
    ~pmissed =>
        /\ MidReload => pdoc = pfile
        /\ pmtime # 0 /\ plast = pmtime =>
              /\ pdoc = pfile
              /\ pat = "sleep" => ptold = pmtime \/ pabsorbed

\* A watcher that was stopped and not joined is being joined, unless one of
\* the two sequences that end the process has begun.
StoppedIsJoined ==
    pwatcher = "joinable" /\ ~prunning => pself \/ poverlap \/ Joining # {}

\* The inductive invariant.
DiscoveryInv ==
    /\ puser \in [PlUsers -> {"idle", "stat", "joining"}]
    /\ FileTimes /\ FollowsFile /\ StoppedIsJoined /\ WatcherSafe

\* The invariant holds before the watcher starts.
LEMMA PlInitial == PlInit => DiscoveryInv
  BY DEF PlInit, DiscoveryInv, FileTimes, FollowsFile, StoppedIsJoined, WatcherSafe, MidReload

\* Every step keeps what the cache knows of the file.
LEMMA DiscoveryStep ==
    ASSUME DiscoveryInv, [PlNext]_pvars
    PROVE  DiscoveryInv'
  <1> USE DEF DiscoveryInv, FileTimes, FollowsFile, StoppedIsJoined, WatcherSafe, MidReload, Joining
  <1>1. CASE UNCHANGED pvars BY <1>1 DEF pvars
  <1>2. CASE PlTick BY <1>2 DEF PlTick
  <1>3. CASE PlWrite
    <2>1. FileTimes'
      BY <1>3 DEF PlWrite
    <2>2. FollowsFile'
      <3>1. CASE pwhen = pclock \/ MidReload
        BY <1>3, <3>1 DEF PlWrite
      <3>2. CASE pwhen # pclock /\ ~MidReload
        <4>1. plast < pclock
          BY <3>2
        <4>2. pmtime' = 0 \/ pmtime' = pclock
          BY <1>3 DEF PlWrite
        <4> QED BY <1>3, <3>2, <4>1, <4>2 DEF PlWrite
      <3> QED BY <3>1, <3>2
    <2> QED BY <1>3, <2>1, <2>2 DEF PlWrite
  <1>4. CASE PlWake BY <1>4 DEF PlWake
  <1>5. CASE PlLoad BY <1>5 DEF PlLoad
  <1>6. CASE PlStat BY <1>6 DEF PlStat
  <1>7. CASE PlCall BY <1>7 DEF PlCall
  <1>8. CASE PlDestroy
    <2>1. FileTimes' BY <1>8 DEF PlDestroy
    <2>2. FollowsFile' BY <1>8 DEF PlDestroy
    <2>3. Joining = {} BY <1>8 DEF PlDestroy
    <2>4. StoppedIsJoined' /\ WatcherSafe' BY <1>8, <2>3 DEF PlDestroy
    <2> QED BY <1>8, <2>1, <2>2, <2>4 DEF PlDestroy
  <1>9. ASSUME NEW u \in PlUsers, reload(u) PROVE DiscoveryInv' BY <1>9 DEF reload
  <1>10. ASSUME NEW u \in PlUsers, ReloadStats(u) PROVE DiscoveryInv'
    <2>1. FileTimes' BY <1>10 DEF ReloadStats
    <2>2. pdoc = pfile \/ pmissed BY <1>10 DEF ReloadStats
    <2>3. FollowsFile'
      <3>1. CASE plast = pmtime BY <1>10, <2>2, <3>1 DEF ReloadStats
      <3>2. CASE plast # pmtime BY <1>10, <2>2, <3>2 DEF ReloadStats
      <3> QED BY <3>1, <3>2
    <2>4. puser' \in [PlUsers -> {"idle", "stat", "joining"}]
      BY <1>10 DEF ReloadStats
    <2>5. StoppedIsJoined' /\ WatcherSafe'
      <3>1. Joining \subseteq Joining'
        BY <1>10 DEF ReloadStats
      <3> QED BY <1>10, <3>1 DEF ReloadStats
    <2> QED BY <2>1, <2>3, <2>4, <2>5
  <1>11. ASSUME NEW u \in PlUsers, watch(u) PROVE DiscoveryInv' BY <1>11 DEF watch
  <1>12. ASSUME NEW u \in PlUsers, PlClose(u) PROVE DiscoveryInv' BY <1>12 DEF PlClose
  <1>13. ASSUME NEW u \in PlUsers, PlJoined(u) PROVE DiscoveryInv' BY <1>13 DEF PlJoined
  <1> QED
    BY <1>1, <1>2, <1>3, <1>4, <1>5, <1>6, <1>7, <1>8, <1>9, <1>10, <1>11, <1>12, <1>13 DEF PlNext

\* The cache follows the file but for changes within a second or between a
\* reload's two reads, and the watcher ends the process only after one of the
\* two sequences plugin.cpp does not guard against.
THEOREM DiscoveryIsSound == PlSpec => []DiscoverySound
  <1>1. DiscoveryInv /\ [PlNext]_pvars => DiscoveryInv' BY DiscoveryStep
  <1>2. DiscoveryInv => DiscoverySound
    BY DEF DiscoveryInv, FollowsFile, DiscoverySound, ChangesNoticed
  <1> QED BY <1>1, <1>2, PlInitial, PTL DEF PlSpec

-----------------------------------------------------------------------------
(* FrameRetention *)

\* TypeOK, and that what exists is no newer than the last frame received.
Objects ==
    /\ received \in 0 .. MaxFrames
    /\ refs \in [Frames -> SUBSET Threads] /\ \A f \in Frames : refs[f] # {} => f <= received
    /\ closed \subseteq 1 .. received /\ items \subseteq 1 .. received
    /\ held \subseteq 1 .. received /\ kpc \in {"idle", "release"}
    /\ closes \in 0 .. MaxCloses /\ copies \in 0 .. MaxCopies
    /\ fired \in [Frames -> Nat] /\ raced \subseteq Frames
Controls ==
    /\ mutex \in Threads \cup {None}
    /\ pc \in [Threads -> PCs] /\ handle \in [Threads -> 0 .. received]
    /\ temp \in [Threads -> 0 .. received] /\ pos \in [Threads -> 0 .. received]
    /\ \A t \in Threads :
        /\ mutex = t <=> pc[t] \in {"scan", "compare", "stuck"}
        /\ temp[t] # None => pc[t] = "compare"
        /\ pc[t] = "out" <=> handle[t] = None

\* A thread on its way to the release of a handle owns it, or was its last
\* owner; on its way to retained_mu it has closed it.
BeforeFire(t) == pc[t] \in {"test", "fire"}
MayClose(t, f) ==
    /\ BeforeFire(t) => t \in refs[f] \/ Expired(f)
    /\ pc[t] \in {"lock", "scan", "compare", "stuck"} => f \in closed
Entitled == \A t \in Threads : MayClose(t, handle[t])

\* A handle is closed by the step that runs its closure.
FiredOnce ==
    \A f \in Frames :
        /\ f \in closed <=> fired[f] > 0
        /\ f \notin raced =>
              /\ fired[f] <= 1
              /\ \A t, u \in Threads :
                    pc[t] = "fire" /\ handle[t] = f =>
                        f \notin closed /\ (pc[u] = "fire" /\ handle[u] = f => u = t)

\* What close() owns is closed, or it still has to close it.
CloserOwns ==
    \A f \in Frames :
        /\ f \in held => Closer \in refs[f] /\ kpc = "release"
        /\ Closer \in refs[f] =>
              f \in held \/ f \in closed \/ (handle[Closer] = f /\ BeforeFire(Closer))

\* An entry outlives its handle's release only until the thread that released
\* it has scanned the list, unless that thread destroyed another handle there.
OnItsWay(t, f) ==
    /\ handle[t] = f
    /\ pc[t] = "lock" \/ (pc[t] \in {"scan", "compare"} /\ pos[t] < f)
Entries ==
    /\ \A f \in Frames : f <= received /\ f \notin closed /\ ~Expired(f) => f \in items
    /\ \A f \in items : f \in closed /\ ~Expired(f) =>
          Stuck \/ \E t \in Threads : OnItsWay(t, f)

\* The scan has locked the entry it stands at, or found it expired.
Scans ==
    \A t \in Threads : pc[t] = "compare" =>
        \E f \in items : AtEntry(t, f) /\ (temp[t] = f \/ (temp[t] = None /\ Expired(f)))

\* The inductive invariant.
RetentionInv ==
    /\ Objects /\ Controls /\ Entitled /\ FiredOnce /\ CloserOwns /\ Entries /\ Scans
    /\ NoneForgotten

-----------------------------------------------------------------------------
\* What the steps of a thread inside close() leave to the proof: the threads
\* are not None, and only one is in the critical section.
LEMMA ThreadFacts ==
    ASSUME Objects
    PROVE  /\ Closer \in Threads /\ Holders \subseteq Threads /\ Closer \notin Holders
           /\ None \notin Threads /\ None = 0
           /\ received \in Nat
           /\ \A f : f \in 0 .. received <=> f \in 1 .. received \/ f = None
           /\ \A f : f \in 1 .. received => f \in Frames /\ f \in Nat /\ f > None
           /\ \A f \in Frames : f \in Nat /\ f # None
           /\ \A f \in Frames : f <= received => f \in 1 .. received
  BY RetentionAssumption DEF Threads, Frames, None, Objects

\* The types of the two halves are those of TypeOK.
LEMMA TypesHold == Objects /\ Controls => TypeOK
  <1> SUFFICES ASSUME Objects, Controls PROVE TypeOK
    OBVIOUS
  <1>1. 1 .. received \subseteq Frames /\ 0 .. received \subseteq Frames \cup {None}
    BY ThreadFacts
  <1> QED BY <1>1 DEF TypeOK, Objects, Controls

\* A thread's own step: what it must see to.
LEMMA OwnStep ==
    ASSUME Objects, Controls, NEW t \in Threads, received' = received,
           NEW label \in PCs, NEW f \in 0 .. received, NEW e \in 0 .. received,
           NEW p \in 0 .. received,
           pc' = [pc EXCEPT ![t] = label], handle' = [handle EXCEPT ![t] = f],
           temp' = [temp EXCEPT ![t] = e], pos' = [pos EXCEPT ![t] = p],
           label = "out" <=> f = None, e # None => label = "compare",
           IF label \in {"scan", "compare", "stuck"}
             THEN mutex' = t /\ mutex \in {None, t}
             ELSE mutex' = IF mutex = t THEN None ELSE mutex
    PROVE  Controls'
  <1>1. /\ mutex' \in Threads \cup {None}
        /\ pc' \in [Threads -> PCs] /\ handle' \in [Threads -> 0 .. received']
        /\ temp' \in [Threads -> 0 .. received'] /\ pos' \in [Threads -> 0 .. received']
    BY DEF Controls
  <1>2. ASSUME NEW u \in Threads
        PROVE  /\ mutex' = u <=> pc'[u] \in {"scan", "compare", "stuck"}
               /\ temp'[u] # None => pc'[u] = "compare"
               /\ pc'[u] = "out" <=> handle'[u] = None
    BY ThreadFacts DEF Controls
  <1> QED BY <1>1, <1>2 DEF Controls

\* EXCEPT at the value that is there.
LEMMA SameValue ==
    ASSUME NEW S, NEW T, NEW g \in [S -> T], NEW x \in S
    PROVE  g = [g EXCEPT ![x] = g[x]]
  OBVIOUS

\* Every action moves its own thread only, by the rules of retained_mu.
LEMMA ControlsStep ==
    ASSUME Objects, Controls, [Next]_vars
    PROVE  Controls'
  <1> USE DEF objects, scan, closing, history
  <1>f. /\ \A f \in Frames : f <= received => f \in 0 .. received /\ f # None
        /\ None \in 0 .. received /\ None \notin Threads
        /\ \A x : x \in 1 .. received => x \in 0 .. received /\ x # None
    BY ThreadFacts
  <1>p. {"out", "test", "fire", "lock", "scan", "compare", "stuck"} \subseteq PCs
    BY DEF PCs
  <1>s. \A t \in Threads :
           /\ pc[t] \in PCs /\ handle[t] \in 0 .. received
           /\ temp[t] \in 0 .. received /\ pos[t] \in 0 .. received
           /\ pc = [pc EXCEPT ![t] = pc[t]] /\ handle = [handle EXCEPT ![t] = handle[t]]
           /\ temp = [temp EXCEPT ![t] = temp[t]] /\ pos = [pos EXCEPT ![t] = pos[t]]
    BY SameValue DEF Controls
  <1>m. \A t \in Threads : /\ mutex = t <=> pc[t] \in {"scan", "compare", "stuck"}
                           /\ temp[t] # None => pc[t] = "compare"
                           /\ pc[t] = "out" <=> handle[t] = None
    BY DEF Controls
  <1>1. ASSUME NEW t \in Threads, Receive(t) PROVE Controls'
    <2>1. received' = received + 1 /\ 0 .. received \subseteq 0 .. received'
      BY <1>1, ThreadFacts DEF Receive
    <2> QED BY <1>1, <2>1 DEF Receive, Controls
  <1>2. ASSUME UNCHANGED <<received, mutex, pc, handle, temp, pos>> PROVE Controls'
    BY <1>2 DEF Controls
  <1>3. ASSUME NEW t \in Threads, NEW f \in Frames, f <= received, pc[t] = "out", Enters(t, f),
               UNCHANGED <<received, mutex, scan>>
        PROVE  Controls'
    BY <1>3, <1>f, <1>p, <1>s, <1>m, OwnStep DEF Enters
  <1>4. ASSUME NEW t \in Threads, NEW f \in Frames, Drop(t, f)
        PROVE  Controls'
    <2>1. f <= received BY <1>4 DEF Drop, Objects
    <2>2. CASE Owners(f) = {t}
      BY <1>3, <1>4, <2>1, <2>2 DEF Drop, Destroy
    <2>3. CASE Owners(f) # {t}
      BY <1>2, <1>4, <2>3 DEF Drop
    <2> QED BY <2>2, <2>3
  <1>5. ASSUME NEW t \in Threads, Test(t) PROVE Controls'
    <2>1. CASE Closed(handle[t])
      BY <1>5, <2>1, <1>f, <1>p, <1>s, <1>m, OwnStep DEF Test
    <2>2. CASE ~Closed(handle[t])
      BY <1>5, <2>2, <1>f, <1>p, <1>s, <1>m, OwnStep DEF Test
    <2> QED BY <2>1, <2>2
  <1>6. ASSUME NEW t \in Threads, Fire(t) PROVE Controls'
    <2>1. /\ handle[t] # None /\ temp[t] = None /\ mutex # t /\ mutex' = mutex
          /\ received' = received /\ pc' = [pc EXCEPT ![t] = "lock"]
          /\ temp' = [temp EXCEPT ![t] = temp[t]] /\ pos' = [pos EXCEPT ![t] = pos[t]]
          /\ handle' = [handle EXCEPT ![t] = handle[t]]
      BY <1>6, <1>m, <1>s DEF Fire
    <2>2. "lock" \in PCs /\ "lock" \notin {"out", "compare", "scan", "stuck"} BY <1>p
    <2>3. handle[t] \in 0 .. received /\ temp[t] \in 0 .. received /\ pos[t] \in 0 .. received
      BY <1>s
    <2> QED BY <2>1, <2>2, <2>3, OwnStep
  <1>7. ASSUME NEW t \in Threads, Lock(t) PROVE Controls'
    <2>1. /\ handle[t] # None /\ temp[t] = None /\ mutex = None /\ mutex' = t
          /\ received' = received /\ temp' = [temp EXCEPT ![t] = temp[t]]
          /\ pc' = [pc EXCEPT ![t] = "scan"] /\ pos' = [pos EXCEPT ![t] = None]
          /\ handle' = [handle EXCEPT ![t] = handle[t]]
      BY <1>7, <1>m, <1>s DEF Lock
    <2>2. handle[t] \in 0 .. received /\ temp[t] \in 0 .. received
      BY <1>s
    <2> QED BY <2>1, <2>2, <1>f, <1>p, OwnStep
  <1>8. ASSUME NEW t \in Threads, NEW f \in Frames, ScanLocks(t, f) PROVE Controls'
    <2>1. f \in 0 .. received BY <1>8, <1>f DEF ScanLocks, AtEntry, Objects
    <2> QED BY <1>8, <2>1, <1>f, <1>p, <1>s, <1>m, OwnStep DEF ScanLocks
  <1>9. ASSUME NEW t \in Threads, NEW f \in Frames, ScanPasses(t, f) PROVE Controls'
    <2>1. f \in 0 .. received BY <1>9, <1>f DEF ScanPasses, AtEntry, Objects
    <2> QED BY <1>9, <2>1, <1>f, <1>p, <1>s, <1>m, OwnStep DEF ScanPasses, NextPos
  <1>10. ASSUME NEW t \in Threads, ScanErases(t) \/ ScanEnds(t) PROVE Controls'
    BY <1>10, <1>f, <1>p, <1>s, <1>m, OwnStep DEF ScanErases, ScanEnds, Leaves
  <1>11. ASSUME NEW t \in Threads, ScanDestroys(t) PROVE Controls'
    <2>1. /\ temp[t] # None /\ handle[t] # None /\ mutex = t /\ mutex' = mutex
          /\ received' = received /\ temp' = [temp EXCEPT ![t] = None]
      BY <1>11, <1>m DEF ScanDestroys, Harmless
    <2>2. CASE Closed(temp[t])
      <3>1. /\ pc' = [pc EXCEPT ![t] = "scan"] /\ pos' = [pos EXCEPT ![t] = temp[t]]
            /\ handle' = handle
        BY <1>11, <2>2 DEF ScanDestroys, NextPos
      <3> QED BY <2>1, <3>1, <1>f, <1>p, <1>s, OwnStep
    <2>3. CASE ~Closed(temp[t])
      <3>1. /\ pc' = [pc EXCEPT ![t] = "stuck"] /\ pos' = pos
            /\ handle' = [handle EXCEPT ![t] = temp[t]]
        BY <1>11, <2>3 DEF ScanDestroys
      <3> QED BY <2>1, <3>1, <1>f, <1>p, <1>s, OwnStep
    <2> QED BY <2>2, <2>3
  <1>12. ASSUME NEW f \in Frames, CloseNext(f) PROVE Controls'
    <2>1. f <= received /\ Closer \in Threads
      BY <1>12, ThreadFacts DEF CloseNext, Objects
    <2> QED BY <1>3, <1>12, <2>1 DEF CloseNext
  <1>13. ASSUME NEW t \in Threads, NEW f \in Frames, Release(t, f) PROVE Controls'
    <2>1. f <= received BY <1>13 DEF Release, Objects
    <2> QED BY <1>3, <1>13, <2>1 DEF Release
  <1>14. ASSUME NEW t \in Threads, NEW u \in Holders, NEW f \in Frames, Copy(t, u, f)
         PROVE  Controls'
    BY <1>2, <1>14 DEF Copy
  <1>15. CASE RetainedFrames \/ CloseBegins \/ CloseEnds \/ UNCHANGED vars
    BY <1>2, <1>15 DEF RetainedFrames, CloseBegins, CloseEnds, vars
  <1> QED
    BY <1>1, <1>4, <1>5, <1>6, <1>7, <1>8, <1>9, <1>10, <1>11, <1>12, <1>13, <1>14, <1>15
       DEF Next, Step, App, Closing

\* Every action keeps the sets of handles within the frames received.
LEMMA ObjectsStep ==
    ASSUME Objects, Controls, [Next]_vars
    PROVE  Objects'
  <1> USE DEF Objects, objects, scan, closing, history
  <1>1. ASSUME NEW t \in Threads, Receive(t) PROVE Objects'
    <2>1. received' = received + 1 /\ received' \in 0 .. MaxFrames /\ received' \in Frames
      BY <1>1, RetentionAssumption DEF Receive, Frames
    <2>2. 1 .. received' = (1 .. received) \cup {received'}
      BY <2>1
    <2>3. /\ refs' \in [Frames -> SUBSET Threads]
          /\ \A f \in Frames : refs'[f] # {} => f <= received'
      BY <1>1, <2>1 DEF Receive, Frames
    <2>4. items' \subseteq 1 .. received' BY <1>1, <2>1, <2>2 DEF Receive, Pruned
    <2> QED BY <1>1, <2>1, <2>2, <2>3, <2>4 DEF Receive
  <1>2. ASSUME NEW t \in Threads, NEW u \in Holders, NEW f \in Frames, Copy(t, u, f)
        PROVE  Objects'
    <2>1. refs' \in [Frames -> SUBSET Threads] /\ copies' \in 0 .. MaxCopies
      BY <1>2, RetentionAssumption, ThreadFacts DEF Copy
    <2>2. \A g \in Frames : refs'[g] # {} => g <= received'
      BY <1>2 DEF Copy
    <2> QED BY <1>2, <2>1, <2>2 DEF Copy
  <1>3. ASSUME refs' \in [Frames -> SUBSET Threads],
               \A g \in Frames : refs'[g] \subseteq refs[g],
               items' \subseteq items, held' \subseteq held, kpc' \in {"idle", "release"},
               UNCHANGED <<received, closed, closes, copies, fired>>,
               raced' = raced \/ (\E t \in Threads : raced' \subseteq raced \cup {handle[t]}
                                                     /\ handle[t] \in Frames)
        PROVE  Objects'
    BY <1>3
  <1>4. ASSUME NEW t \in Threads, NEW f \in Frames, Drop(t, f) PROVE Objects'
    BY <1>3, <1>4 DEF Drop
  <1>5. ASSUME NEW t \in Threads, Test(t) PROVE Objects'
    <2>1. handle[t] \in Frames BY <1>5, ThreadFacts DEF Test, Controls
    <2> QED BY <1>3, <1>5, <2>1 DEF Test
  <1>6. ASSUME NEW f \in 1 .. received, closed' = closed \cup {f},
               fired' = [fired EXCEPT ![f] = @ + 1],
               UNCHANGED <<received, refs, items, held, kpc, closes, copies, raced>>
        PROVE  Objects'
    <2>1. f \in Frames BY <1>6, ThreadFacts
    <2> QED BY <1>6, <2>1
  <1>7. ASSUME NEW t \in Threads, Fire(t) PROVE Objects'
    <2>1. handle[t] \in 1 .. received BY <1>7, ThreadFacts DEF Fire, Controls
    <2> QED BY <1>6, <1>7, <2>1 DEF Fire
  <1>8. ASSUME NEW t \in Threads, ScanDestroys(t) PROVE Objects'
    <2>1. temp[t] \in 1 .. received BY <1>8, ThreadFacts DEF ScanDestroys, Harmless, Controls
    <2>2. CASE Closed(temp[t]) BY <1>8, <2>2 DEF ScanDestroys
    <2>3. CASE ~Closed(temp[t]) BY <1>6, <1>8, <2>1, <2>3 DEF ScanDestroys
    <2> QED BY <2>2, <2>3
  <1>9. CASE CloseBegins
    <2>1. refs' \in [Frames -> SUBSET Threads] /\ \A f \in Frames : refs'[f] # {} => f <= received'
      BY <1>9, ThreadFacts DEF CloseBegins, LiveOwned, Pruned
    <2>2. items' \subseteq 1 .. received' /\ held' \subseteq 1 .. received'
      BY <1>9 DEF CloseBegins, Pruned
    <2>3. closes' \in 0 .. MaxCloses BY <1>9, RetentionAssumption DEF CloseBegins
    <2> QED BY <1>9, <2>1, <2>2, <2>3 DEF CloseBegins
  <1>10. ASSUME NEW f \in Frames, CloseNext(f) PROVE Objects'
    BY <1>3, <1>10 DEF CloseNext
  <1>11. CASE CloseEnds BY <1>3, <1>11 DEF CloseEnds
  <1>12. CASE RetainedFrames BY <1>3, <1>12 DEF RetainedFrames, Pruned
  <1>13. ASSUME NEW t \in Threads, NEW f \in Frames,
                Release(t, f) \/ Lock(t) \/ ScanLocks(t, f) \/ ScanPasses(t, f)
         PROVE  Objects'
    BY <1>3, <1>13 DEF Release, Lock, ScanLocks, ScanPasses
  <1>14. ASSUME NEW t \in Threads, Lock(t) \/ ScanErases(t) \/ ScanEnds(t) PROVE Objects'
    BY <1>3, <1>14 DEF Lock, ScanErases, ScanEnds, Erased, Pruned
  <1>15. CASE UNCHANGED vars BY <1>3, <1>15 DEF vars
  <1> QED
    BY <1>1, <1>2, <1>4, <1>5, <1>7, <1>8, <1>9, <1>10, <1>11, <1>12, <1>13, <1>14, <1>15
       DEF Next, Step, App, Closing

-----------------------------------------------------------------------------
(* Owners *)

\* A handle that has lost its last owner gets no other; a thread inside
\* close() keeps the references it has.
LEMMA OwnersStep ==
    ASSUME Objects, Controls, [Next]_vars
    PROVE  /\ \A f \in 1 .. received : Expired(f) => Expired(f)'
           /\ \A f \in Frames, u \in Threads : u \in refs[f] /\ pc[u] # "out" => u \in refs'[f]
  <1> USE DEF objects, scan, closing, history, Expired, Owners
  <1>f. /\ \A f \in 1 .. received : f \in Frames /\ f # received + 1 /\ f # None
        /\ refs \in [Frames -> SUBSET Threads] /\ temp \in [Threads -> 0 .. received]
        /\ Closer \notin Holders
    BY ThreadFacts DEF Objects, Controls
  <1> DEFINE Kept ==
        /\ \A f \in 1 .. received : Expired(f) => Expired(f)'
        /\ \A f \in Frames, u \in Threads : u \in refs[f] /\ pc[u] # "out" => u \in refs'[f]
  <1>1. ASSUME NEW t \in Threads, Receive(t) PROVE Kept
    <2>1. received + 1 \in Frames /\ refs[received + 1] = {}
      BY <1>1, ThreadFacts, RetentionAssumption DEF Receive, Objects, Frames
    <2> QED BY <1>1, <1>f, <2>1 DEF Receive
  <1>2. ASSUME NEW t \in Threads, NEW u \in Holders, NEW f \in Frames, Copy(t, u, f)
        PROVE  Kept
    BY <1>2, <1>f DEF Copy
  <1>3. ASSUME NEW t \in Threads, NEW f \in Frames, Drop(t, f) PROVE Kept
    BY <1>3, <1>f DEF Drop
  <1>4. ASSUME refs' = refs, NEW t \in Threads, temp' = [temp EXCEPT ![t] = None] \/ temp' = temp
        PROVE  Kept
    BY <1>4, <1>f
  <1>5. ASSUME NEW t \in Threads, Test(t) \/ Fire(t) \/ Lock(t) \/ ScanErases(t) \/ ScanEnds(t)
                                  \/ ScanDestroys(t)
        PROVE  Kept
    BY <1>4, <1>5 DEF Test, Fire, Lock, ScanErases, ScanEnds, ScanDestroys
  <1>6. ASSUME NEW t \in Threads, NEW f \in Frames, ScanPasses(t, f) \/ Release(t, f)
        PROVE  Kept
    BY <1>4, <1>6 DEF ScanPasses, Release
  <1>7. ASSUME NEW t \in Threads, NEW f \in Frames, ScanLocks(t, f) PROVE Kept
    BY <1>7, <1>f DEF ScanLocks
  <1>8. CASE CloseBegins
    BY <1>8, <1>f DEF CloseBegins, LiveOwned, Pruned
  <1>9. ASSUME NEW f \in Frames, CloseNext(f) PROVE Kept
    BY <1>9, <1>4, ThreadFacts DEF CloseNext
  <1>10. CASE CloseEnds
    BY <1>10, <1>f DEF CloseEnds
  <1>11. CASE RetainedFrames \/ UNCHANGED vars
    BY <1>11, <1>4, ThreadFacts DEF RetainedFrames, vars
  <1> QED
    BY <1>1, <1>2, <1>3, <1>5, <1>6, <1>7, <1>8, <1>9, <1>10, <1>11
       DEF Next, Step, App, Closing

\* How the threads move, and what becomes closed: the rest of what the
\* conjuncts below need to know of a step.
Still(u) == pc'[u] = pc[u] /\ handle'[u] = handle[u] /\ temp'[u] = temp[u] /\ pos'[u] = pos[u]
\* The three ways into close(): release(), client.close() and the destructor.
LEMMA EntersStep ==
    ASSUME Objects, Controls, NEW t \in Threads, NEW f \in Frames,
           Release(t, f) \/ (CloseNext(f) /\ t = Closer) \/ (Drop(t, f) /\ Owners(f) = {t})
    PROVE  /\ pc[t] = "out" /\ pc'[t] = "test" /\ handle'[t] = f /\ f \in 1 .. received
           /\ temp' = temp /\ pos' = pos
           /\ \A u \in Threads \ {t} : Still(u)
           /\ UNCHANGED <<received, closed, items, mutex, fired, raced>>
  BY ThreadFacts DEF Release, CloseNext, Drop, Destroy, Enters, Still, Objects, Controls, scan,
     history, objects

\* Whoever is about to release a handle owns it, or was its last owner.
LEMMA EntitledStep ==
    ASSUME Objects, Controls, Entitled, CloserOwns, [Next]_vars
    PROVE  Entitled'
  <1> USE DEF MayClose, BeforeFire, objects, scan, closing, history
  <1>0. /\ \A f \in 1 .. received : Expired(f) => Expired(f)'
        /\ \A f \in Frames, u \in Threads : u \in refs[f] /\ pc[u] # "out" => u \in refs'[f]
    BY OwnersStep
  <1>1. ASSUME NEW u \in Threads, NEW f, f = handle[u], pc'[u] = pc[u], closed \subseteq closed'
        PROVE  MayClose(u, f)'
    <2>1. pc[u] # "out" => f \in 1 .. received /\ f \in Frames
      BY <1>1, ThreadFacts DEF Controls
    <2>2. MayClose(u, f)
      BY <1>1 DEF Entitled
    <2> QED BY <1>0, <1>1, <2>1, <2>2
  <1>2. ASSUME closed \subseteq closed', NEW t \in Threads,
               \A u \in Threads \ {t} : pc'[u] = pc[u] /\ handle'[u] = handle[u],
               NEW f, handle'[t] = f, MayClose(t, f)'
        PROVE  Entitled'
    <2>1. ASSUME NEW u \in Threads \ {t}, NEW g, g = handle[u] PROVE MayClose(u, g)'
      BY <1>1, <1>2, <2>1
    <2>2. ASSUME NEW u \in Threads, NEW g, g = handle'[u] PROVE MayClose(u, g)'
      BY <1>2, <2>1, <2>2
    <2> QED BY <2>2 DEF Entitled
  <1>3. ASSUME NEW t \in Threads, NEW f \in Frames,
               Release(t, f) \/ (CloseNext(f) /\ t = Closer) \/ (Drop(t, f) /\ Owners(f) = {t})
        PROVE  Entitled'
    <2>1. /\ pc'[t] = "test" /\ handle'[t] = f /\ closed' = closed
          /\ \A u \in Threads \ {t} : Still(u)
      BY <1>3, EntersStep
    <2>2. t \in refs'[f] \/ Expired(f)'
      <3>1. CASE Release(t, f) BY <3>1 DEF Release
      <3>2. CASE CloseNext(f) /\ t = Closer
        BY <3>2 DEF CloseNext, CloserOwns
      <3>3. CASE Drop(t, f) /\ Owners(f) = {t}
        <4>1. t \in Holders /\ pc[t] = "out" /\ temp[t] = None /\ f # None
          BY <3>3, ThreadFacts DEF Drop, Controls
        <4>2. refs' = [refs EXCEPT ![f] = @ \ {t}] /\ temp' = temp
          BY <3>3 DEF Drop
        <4> QED BY <3>3, <4>1, <4>2 DEF Expired, Owners, Objects
      <3> QED BY <1>3, <3>1, <3>2, <3>3
    <2>3. MayClose(t, f)'
      BY <2>1, <2>2
    <2> QED BY <1>2, <2>1, <2>3 DEF Still
  <1>4. ASSUME NEW t \in Threads, Test(t) PROVE Entitled'
    <2>1. closed' = closed /\ \A u \in Threads \ {t} : pc'[u] = pc[u] /\ handle'[u] = handle[u]
      BY <1>4 DEF Test, Controls
    <2>2. CASE Closed(handle[t])
      <3>1. pc'[t] = "out" /\ handle'[t] = None
        BY <1>4, <2>2 DEF Test, Controls
      <3> QED BY <1>2, <2>1, <3>1
    <2>3. CASE ~Closed(handle[t])
      <3>1. pc[t] = "test" /\ pc'[t] = "fire" /\ handle' = handle /\ refs' = refs /\ temp' = temp
        BY <1>4, <2>3 DEF Test, Controls
      <3>2. PICK f : f = handle[t]
        OBVIOUS
      <3>3. MayClose(t, f)'
        BY <3>1, <3>2 DEF Entitled, Expired, Owners
      <3> QED BY <1>2, <2>1, <3>1, <3>2, <3>3
    <2> QED BY <2>2, <2>3
  <1>5. ASSUME NEW t \in Threads, Fire(t) PROVE Entitled'
    <2>1. /\ closed' = closed \cup {handle[t]} /\ handle' = handle /\ pc'[t] = "lock"
          /\ \A u \in Threads \ {t} : pc'[u] = pc[u]
      BY <1>5 DEF Fire, Controls
    <2>2. PICK f : f = handle[t]
      OBVIOUS
    <2>3. MayClose(t, f)'
      BY <2>1, <2>2
    <2> QED BY <1>2, <2>1, <2>2, <2>3
  <1>6. ASSUME NEW t \in Threads, handle' = handle, closed' = closed,
               pc[t] \in {"lock", "scan", "compare"}, pc'[t] \in {"scan", "compare"},
               \A u \in Threads \ {t} : pc'[u] = pc[u]
        PROVE  Entitled'
    <2>1. PICK f : f = handle[t]
      OBVIOUS
    <2>2. MayClose(t, f)'
      BY <1>6, <2>1 DEF Entitled
    <2> QED BY <1>2, <1>6, <2>1, <2>2
  <1>7. ASSUME NEW t \in Threads, NEW f \in Frames,
               Lock(t) \/ ScanLocks(t, f) \/ ScanPasses(t, f)
        PROVE  Entitled'
    <2>1. /\ handle' = handle /\ closed' = closed
          /\ pc[t] \in {"lock", "scan", "compare"} /\ pc'[t] \in {"scan", "compare"}
          /\ \A u \in Threads \ {t} : pc'[u] = pc[u]
      BY <1>7 DEF Lock, ScanLocks, ScanPasses, Controls
    <2> QED BY <1>6, <2>1
  <1>8. ASSUME NEW t \in Threads, Lock(t) \/ ScanErases(t) \/ ScanEnds(t) PROVE Entitled'
    <2>1. CASE Lock(t)
      <3>1. /\ handle' = handle /\ closed' = closed
            /\ pc[t] = "lock" /\ pc'[t] = "scan"
            /\ \A u \in Threads \ {t} : pc'[u] = pc[u]
        BY <2>1 DEF Lock, Controls
      <3> QED BY <1>6, <3>1
    <2>2. CASE ScanErases(t) \/ ScanEnds(t)
      <3>1. /\ closed' = closed /\ pc'[t] = "out"
            /\ \A u \in Threads \ {t} : pc'[u] = pc[u] /\ handle'[u] = handle[u]
        BY <2>2 DEF ScanErases, ScanEnds, Leaves, Controls
      <3>2. PICK f : f = handle'[t]
        OBVIOUS
      <3> QED BY <1>2, <3>1, <3>2
    <2> QED BY <1>8, <2>1, <2>2
  <1>9. ASSUME NEW t \in Threads, ScanDestroys(t) PROVE Entitled'
    <2>1. CASE Closed(temp[t])
      <3>1. /\ handle' = handle /\ closed' = closed /\ pc[t] = "compare" /\ pc'[t] = "scan"
            /\ \A u \in Threads \ {t} : pc'[u] = pc[u]
        BY <1>9, <2>1 DEF ScanDestroys, Controls
      <3> QED BY <1>6, <3>1
    <2>2. CASE ~Closed(temp[t])
      <3>1. /\ closed' = closed \cup {temp[t]} /\ handle'[t] = temp[t] /\ pc'[t] = "stuck"
            /\ \A u \in Threads \ {t} : pc'[u] = pc[u] /\ handle'[u] = handle[u]
        BY <1>9, <2>2 DEF ScanDestroys, Controls
      <3>2. PICK f : f = temp[t]
        OBVIOUS
      <3>3. MayClose(t, f)'
        BY <3>1, <3>2
      <3> QED BY <1>2, <3>1, <3>2, <3>3
    <2> QED BY <2>1, <2>2
  <1>10. ASSUME UNCHANGED <<pc, handle, closed>> PROVE Entitled'
    <2>1. ASSUME NEW u \in Threads, NEW g, g = handle'[u] PROVE MayClose(u, g)'
      BY <1>1, <1>10, <2>1
    <2> QED BY <2>1 DEF Entitled
  <1>11. ASSUME NEW t \in Threads, NEW f \in Frames, Drop(t, f), Owners(f) # {t}
         PROVE  Entitled'
    BY <1>10, <1>11 DEF Drop
  <1>12. ASSUME NEW t \in Threads, NEW u \in Holders, NEW f \in Frames, Copy(t, u, f)
         PROVE  Entitled'
    BY <1>10, <1>12 DEF Copy
  <1>13. ASSUME NEW t \in Threads, Receive(t) PROVE Entitled'
    BY <1>10, <1>13 DEF Receive
  <1>14. CASE CloseBegins \/ CloseEnds \/ RetainedFrames \/ UNCHANGED vars
    BY <1>10, <1>14 DEF CloseBegins, CloseEnds, RetainedFrames, vars
  <1>15. Closer \in Threads BY ThreadFacts
  <1>16. ASSUME NEW t \in Threads, Step(t) PROVE Entitled'
    BY <1>4, <1>5, <1>7, <1>8, <1>9, <1>16 DEF Step
  <1>17. ASSUME NEW t \in Threads, NEW f \in Frames, Release(t, f) \/ Drop(t, f)
         PROVE  Entitled'
    <2>1. CASE Release(t, f) BY <1>3, <2>1
    <2>2. CASE Drop(t, f) BY <1>3, <1>11, <2>2
    <2> QED BY <1>17, <2>1, <2>2
  <1>18. ASSUME NEW f \in Frames, CloseNext(f) PROVE Entitled'
    BY <1>3, <1>15, <1>18
  <1> QED
    BY <1>12, <1>13, <1>14, <1>16, <1>17, <1>18 DEF Next, App, Closing

\* A handle fires when it is closed, and twice only if two threads had found
\* it open; nobody is on its way to fire one that a scan owns alone.
LEMMA FiredOnceStep ==
    ASSUME Objects, Controls, Entitled, FiredOnce, [Next]_vars
    PROVE  FiredOnce'
  <1> USE DEF objects, scan, closing, history
  <1>1. ASSUME closed' = closed, fired' = fired, raced \subseteq raced',
               \A u \in Threads : pc'[u] = "fire" => pc[u] = "fire" /\ handle'[u] = handle[u]
        PROVE  FiredOnce'
    <2>1. ASSUME NEW f \in Frames
          PROVE  /\ f \in closed' <=> fired'[f] > 0
                 /\ f \notin raced' =>
                      /\ fired'[f] <= 1
                      /\ \A t, u \in Threads :
                            pc'[t] = "fire" /\ handle'[t] = f =>
                                f \notin closed' /\ (pc'[u] = "fire" /\ handle'[u] = f => u = t)
      BY <1>1, <2>1 DEF FiredOnce
    <2> QED BY <2>1 DEF FiredOnce
  <1>2. ASSUME NEW t \in Threads, Test(t) PROVE FiredOnce'
    <2>1. CASE Closed(handle[t])
      <3>1. /\ closed' = closed /\ fired' = fired /\ raced \subseteq raced'
            /\ pc'[t] = "out" /\ \A u \in Threads \ {t} : pc'[u] = pc[u] /\ handle'[u] = handle[u]
        BY <1>2, <2>1 DEF Test, Controls
      <3> QED BY <1>1, <3>1
    <2>2. CASE ~Closed(handle[t])
      <3>1. /\ closed' = closed /\ fired' = fired /\ handle' = handle /\ handle[t] \notin closed
            /\ \A u \in Threads \ {t} : pc'[u] = pc[u]
        BY <1>2, <2>2 DEF Test, Controls, Closed
      <3>2. raced \subseteq raced' /\ (handle[t] \notin raced' =>
               \A u \in Threads \ {t} : ~(pc[u] = "fire" /\ handle[u] = handle[t]))
        BY <1>2 DEF Test
      <3>3. ASSUME NEW f \in Frames
            PROVE  /\ f \in closed' <=> fired'[f] > 0
                   /\ f \notin raced' =>
                        /\ fired'[f] <= 1
                        /\ \A v, u \in Threads :
                              pc'[v] = "fire" /\ handle'[v] = f =>
                                  f \notin closed' /\ (pc'[u] = "fire" /\ handle'[u] = f => u = v)
        BY <3>1, <3>2, <3>3 DEF FiredOnce
      <3> QED BY <3>3 DEF FiredOnce
    <2> QED BY <2>1, <2>2
  <1>3. ASSUME NEW t \in Threads, Fire(t) PROVE FiredOnce'
    <2>1. handle[t] \in Frames
      BY <1>3, ThreadFacts DEF Fire, Controls
    <2>2. /\ closed' = closed \cup {handle[t]} /\ handle' = handle /\ raced' = raced
          /\ fired' = [fired EXCEPT ![handle[t]] = @ + 1]
          /\ pc[t] = "fire" /\ pc'[t] = "lock" /\ \A u \in Threads \ {t} : pc'[u] = pc[u]
      BY <1>3 DEF Fire, Controls
    <2>3. ASSUME NEW f \in Frames
          PROVE  /\ f \in closed' <=> fired'[f] > 0
                 /\ f \notin raced' =>
                      /\ fired'[f] <= 1
                      /\ \A v, u \in Threads :
                            pc'[v] = "fire" /\ handle'[v] = f =>
                                f \notin closed' /\ (pc'[u] = "fire" /\ handle'[u] = f => u = v)
      <3>1. fired[f] \in Nat /\ fired'[f] = IF f = handle[t] THEN fired[f] + 1 ELSE fired[f]
        BY <2>1, <2>2 DEF Objects
      <3> QED BY <2>1, <2>2, <3>1 DEF FiredOnce
    <2> QED BY <2>3 DEF FiredOnce
  <1>4. ASSUME NEW t \in Threads, ScanDestroys(t) PROVE FiredOnce'
    <2>1. CASE Closed(temp[t])
      <3>1. /\ closed' = closed /\ fired' = fired /\ raced' = raced
            /\ pc'[t] = "scan" /\ \A u \in Threads \ {t} : pc'[u] = pc[u] /\ handle'[u] = handle[u]
        BY <1>4, <2>1 DEF ScanDestroys, Controls
      <3> QED BY <1>1, <3>1
    <2>2. CASE ~Closed(temp[t])
      <3>1. temp[t] \in Frames /\ temp[t] \notin closed /\ refs[temp[t]] = {}
        BY <1>4, <2>2, ThreadFacts DEF ScanDestroys, Harmless, Closed, Controls
      <3>2. /\ closed' = closed \cup {temp[t]} /\ raced' = raced
            /\ fired' = [fired EXCEPT ![temp[t]] = @ + 1]
            /\ pc[t] = "compare" /\ pc'[t] = "stuck"
            /\ \A u \in Threads \ {t} : pc'[u] = pc[u] /\ handle'[u] = handle[u]
        BY <1>4, <2>2 DEF ScanDestroys, Controls
      <3>3. \A u \in Threads : ~(pc[u] = "fire" /\ handle[u] = temp[t])
        BY <3>1 DEF Entitled, MayClose, BeforeFire, Expired, Owners
      <3>4. ASSUME NEW f \in Frames
            PROVE  /\ f \in closed' <=> fired'[f] > 0
                   /\ f \notin raced' =>
                        /\ fired'[f] <= 1
                        /\ \A v, u \in Threads :
                              pc'[v] = "fire" /\ handle'[v] = f =>
                                  f \notin closed' /\ (pc'[u] = "fire" /\ handle'[u] = f => u = v)
        <4>1. fired[f] \in Nat /\ fired'[f] = IF f = temp[t] THEN fired[f] + 1 ELSE fired[f]
          BY <3>1, <3>2 DEF Objects
        <4>2. \A u \in Threads : pc'[u] = "fire" => pc[u] = "fire" /\ handle'[u] = handle[u]
          BY <3>2
        <4> QED BY <3>1, <3>2, <3>3, <4>1, <4>2 DEF FiredOnce
      <3> QED BY <3>4 DEF FiredOnce
    <2> QED BY <2>1, <2>2
  <1>5. ASSUME NEW t \in Threads, NEW f \in Frames,
               Release(t, f) \/ (CloseNext(f) /\ t = Closer) \/ (Drop(t, f) /\ Owners(f) = {t})
        PROVE  FiredOnce'
    BY <1>1, <1>5, EntersStep DEF Still
  <1>6. ASSUME UNCHANGED <<pc, handle, closed, fired, raced>> PROVE FiredOnce'
    BY <1>1, <1>6
  <1>7. ASSUME NEW t \in Threads, NEW f \in Frames,
               Release(t, f) \/ Drop(t, f)
        PROVE  FiredOnce'
    <2>1. CASE Release(t, f) BY <1>5, <2>1
    <2>2. CASE Drop(t, f) /\ Owners(f) = {t} BY <1>5, <2>2
    <2>3. CASE Drop(t, f) /\ Owners(f) # {t} BY <1>6, <2>3 DEF Drop
    <2> QED BY <1>7, <2>1, <2>2, <2>3
  <1>8. ASSUME NEW f \in Frames, CloseNext(f) PROVE FiredOnce'
    BY <1>5, <1>8, ThreadFacts
  <1>9. ASSUME NEW t \in Threads, NEW f \in Frames,
               Lock(t) \/ ScanLocks(t, f) \/ ScanPasses(t, f) \/ ScanErases(t) \/ ScanEnds(t)
        PROVE  FiredOnce'
    <2>1. /\ closed' = closed /\ fired' = fired /\ raced' = raced /\ pc'[t] # "fire"
          /\ \A u \in Threads \ {t} : pc'[u] = pc[u] /\ handle'[u] = handle[u]
      BY <1>9 DEF Lock, ScanLocks, ScanPasses, ScanErases, ScanEnds, Leaves, Controls
    <2> QED BY <1>1, <2>1
  <1>10. ASSUME NEW t \in Threads, ScanErases(t) \/ ScanEnds(t) \/ Lock(t)
         PROVE  FiredOnce'
    <2>1. /\ closed' = closed /\ fired' = fired /\ raced' = raced /\ pc'[t] # "fire"
          /\ \A u \in Threads \ {t} : pc'[u] = pc[u] /\ handle'[u] = handle[u]
      BY <1>10 DEF Lock, ScanErases, ScanEnds, Leaves, Controls
    <2> QED BY <1>1, <2>1
  <1>11. ASSUME NEW t \in Threads, NEW u \in Holders, NEW f \in Frames, Copy(t, u, f)
         PROVE  FiredOnce'
    BY <1>6, <1>11 DEF Copy
  <1>12. ASSUME NEW t \in Threads, Receive(t) PROVE FiredOnce'
    BY <1>6, <1>12 DEF Receive
  <1>13. CASE CloseBegins \/ CloseEnds \/ RetainedFrames \/ UNCHANGED vars
    BY <1>6, <1>13 DEF CloseBegins, CloseEnds, RetainedFrames, vars
  <1>14. ASSUME NEW t \in Threads, Step(t) PROVE FiredOnce'
    BY <1>2, <1>3, <1>4, <1>9, <1>10, <1>14 DEF Step
  <1> QED
    BY <1>7, <1>8, <1>11, <1>12, <1>13, <1>14 DEF Next, App, Closing

\* close() closes what it owns before it lets go.
LEMMA CloserOwnsStep ==
    ASSUME Objects, Controls, CloserOwns, [Next]_vars
    PROVE  CloserOwns'
  <1> USE DEF BeforeFire, objects, scan, closing, history
  <1>f. /\ Closer \in Threads /\ Closer \notin Holders /\ refs \in [Frames -> SUBSET Threads]
        /\ received \in Nat
    BY ThreadFacts DEF Objects
  <1>1. ASSUME held' = held, kpc' = kpc, closed \subseteq closed',
               \A f \in Frames : Closer \in refs'[f] <=> Closer \in refs[f],
               BeforeFire(Closer) =>
                   \/ pc'[Closer] \in {"test", "fire"} /\ handle'[Closer] = handle[Closer]
                   \/ handle[Closer] \in closed'
        PROVE  CloserOwns'
    BY <1>1 DEF CloserOwns
  <1>2. ASSUME NEW t \in Threads, Test(t) PROVE CloserOwns'
    <2>1. CASE Closed(handle[t])
      <3>1. /\ held' = held /\ kpc' = kpc /\ closed' = closed /\ refs' = refs
            /\ handle[t] \in closed
            /\ \A u \in Threads \ {t} : pc'[u] = pc[u] /\ handle'[u] = handle[u]
        BY <1>2, <2>1 DEF Test, Controls, Closed
      <3> QED BY <1>1, <1>f, <3>1
    <2>2. CASE ~Closed(handle[t])
      <3>1. /\ held' = held /\ kpc' = kpc /\ closed' = closed /\ refs' = refs
            /\ handle' = handle /\ pc'[t] = "fire" /\ \A u \in Threads \ {t} : pc'[u] = pc[u]
        BY <1>2, <2>2 DEF Test, Controls
      <3> QED BY <1>1, <1>f, <3>1
    <2> QED BY <2>1, <2>2
  <1>3. ASSUME NEW t \in Threads, Fire(t) PROVE CloserOwns'
    <2>1. /\ held' = held /\ kpc' = kpc /\ closed' = closed \cup {handle[t]} /\ refs' = refs
          /\ handle' = handle /\ \A u \in Threads \ {t} : pc'[u] = pc[u]
      BY <1>3 DEF Fire, Controls
    <2> QED BY <1>1, <1>f, <2>1
  <1>4. ASSUME NEW t \in Threads, pc[t] \notin {"test", "fire"}, held' = held, kpc' = kpc,
               closed \subseteq closed', refs' = refs,
               \A u \in Threads \ {t} : pc'[u] = pc[u] /\ handle'[u] = handle[u]
        PROVE  CloserOwns'
    BY <1>1, <1>4, <1>f
  <1>5. ASSUME NEW t \in Threads, NEW f \in Frames, Lock(t) \/ ScanLocks(t, f) \/ ScanPasses(t, f)
        PROVE  CloserOwns'
    <2>1. /\ pc[t] \notin {"test", "fire"} /\ held' = held /\ kpc' = kpc
          /\ closed' = closed /\ refs' = refs
          /\ \A u \in Threads \ {t} : pc'[u] = pc[u] /\ handle'[u] = handle[u]
      BY <1>5 DEF Lock, ScanLocks, ScanPasses, Controls
    <2> QED BY <1>4, <2>1
  <1>6. ASSUME NEW t \in Threads, Lock(t) \/ ScanErases(t) \/ ScanEnds(t)
        PROVE  CloserOwns'
    <2>1. /\ pc[t] \notin {"test", "fire"} /\ held' = held /\ kpc' = kpc
          /\ closed' = closed /\ refs' = refs
          /\ \A u \in Threads \ {t} : pc'[u] = pc[u] /\ handle'[u] = handle[u]
      BY <1>6 DEF Lock, ScanErases, ScanEnds, Leaves, Controls
    <2> QED BY <1>4, <2>1
  <1>7. ASSUME NEW t \in Threads, ScanDestroys(t) PROVE CloserOwns'
    <2>1. /\ pc[t] \notin {"test", "fire"} /\ held' = held /\ kpc' = kpc
          /\ closed \subseteq closed' /\ refs' = refs
          /\ \A u \in Threads \ {t} : pc'[u] = pc[u] /\ handle'[u] = handle[u]
      <3>1. CASE Closed(temp[t]) BY <1>7, <3>1 DEF ScanDestroys, Controls
      <3>2. CASE ~Closed(temp[t]) BY <1>7, <3>2 DEF ScanDestroys, Controls
      <3> QED BY <3>1, <3>2
    <2> QED BY <1>4, <2>1
  <1>8. ASSUME NEW t \in Threads, Step(t) PROVE CloserOwns'
    BY <1>2, <1>3, <1>5, <1>6, <1>7, <1>8 DEF Step
  <1>9. ASSUME UNCHANGED <<held, kpc, closed>>, NEW t \in Holders,
               \A f \in Frames : Closer \in refs'[f] <=> Closer \in refs[f],
               \A u \in Threads \ {t} : pc'[u] = pc[u] /\ handle'[u] = handle[u]
        PROVE  CloserOwns'
    BY <1>1, <1>9, <1>f
  <1>10. ASSUME NEW t \in Threads, NEW f \in Frames, Release(t, f) PROVE CloserOwns'
    BY <1>9, <1>10, <1>f DEF Release, Enters, Controls
  <1>11. ASSUME NEW t \in Threads, NEW f \in Frames, Drop(t, f) PROVE CloserOwns'
    <2>1. \A u \in Threads \ {t} : pc'[u] = pc[u] /\ handle'[u] = handle[u]
      BY <1>11 DEF Drop, Destroy, Enters, Controls
    <2>2. t \in Holders /\ \A g \in Frames : Closer \in refs'[g] <=> Closer \in refs[g]
      BY <1>11, <1>f DEF Drop
    <2> QED BY <1>9, <1>11, <2>1, <2>2 DEF Drop
  <1>12. ASSUME NEW t \in Threads, NEW u \in Holders, NEW f \in Frames, Copy(t, u, f)
         PROVE  CloserOwns'
    <2>1. \A g \in Frames : Closer \in refs'[g] <=> Closer \in refs[g]
      BY <1>12, <1>f DEF Copy
    <2> QED BY <1>9, <1>12, <2>1 DEF Copy
  <1>13. ASSUME NEW t \in Threads, Receive(t) PROVE CloserOwns'
    <2>1. t \in Holders /\ \A g \in Frames : Closer \in refs'[g] <=> Closer \in refs[g]
      <3>1. received + 1 \in Frames /\ refs[received + 1] = {}
        BY <1>13, <1>f, RetentionAssumption DEF Receive, Objects, Frames
      <3> QED BY <1>13, <1>f, <3>1 DEF Receive
    <2> QED BY <1>9, <1>13, <2>1 DEF Receive
  <1>14. CASE CloseBegins
    <2>1. held' = Pruned /\ kpc' = "release" /\ closed' = closed /\ pc' = pc /\ handle' = handle
      BY <1>14 DEF CloseBegins
    <2>2. \A f \in Frames : f \notin held
      BY <1>14 DEF CloseBegins, CloserOwns
    <2>3. \A f \in Frames :
             /\ f \in Pruned => Closer \in refs'[f]
             /\ f \notin Pruned => refs'[f] = refs[f]
      BY <1>14 DEF CloseBegins, LiveOwned
    <2> QED BY <2>1, <2>2, <2>3 DEF CloserOwns
  <1>15. ASSUME NEW f \in Frames, CloseNext(f) PROVE CloserOwns'
    <2>1. /\ pc[Closer] = "out" /\ pc'[Closer] = "test" /\ handle'[Closer] = f
          /\ held' = held \ {f} /\ UNCHANGED <<kpc, closed, refs>>
      BY <1>15, <1>f DEF CloseNext, Enters, Controls
    <2> QED BY <2>1 DEF CloserOwns
  <1>16. CASE CloseEnds
    BY <1>16 DEF CloseEnds, CloserOwns
  <1>17. CASE RetainedFrames \/ UNCHANGED vars
    BY <1>1, <1>17 DEF RetainedFrames, vars
  <1> QED
    BY <1>8, <1>10, <1>11, <1>12, <1>13, <1>14, <1>15, <1>16, <1>17 DEF Next, App, Closing

\* A scan stands at one entry.
LEMMA OneEntry ==
    ASSUME Objects, NEW t, NEW f, AtEntry(t, f), NEW g, AtEntry(t, g)
    PROVE  f = g
  <1>1. f \in Nat /\ g \in Nat /\ f <= g /\ g <= f
    BY ThreadFacts DEF AtEntry, Objects
  <1> QED BY <1>1

\* An open handle keeps its entry: prune takes the expired, a scan takes the
\* handle its thread has closed.
LEMMA OpenEntryStep ==
    ASSUME Objects, Controls, Entitled, Entries, [Next]_vars
    PROVE  \A f \in Frames : f <= received' /\ f \notin closed' /\ ~Expired(f)' => f \in items'
  <1> USE DEF objects, scan, closing, history
  <1> DEFINE Kept ==
        \A f \in Frames : f <= received' /\ f \notin closed' /\ ~Expired(f)' => f \in items'
  <1>1. ASSUME received' = received, closed \subseteq closed',
               \A f \in items : f \notin closed /\ ~Expired(f) => f \in items'
        PROVE  Kept
    BY <1>1, OwnersStep, ThreadFacts DEF Entries
  <1>2. ASSUME NEW t \in Threads, Receive(t) PROVE Kept
    <2>1. /\ received' = received + 1 /\ closed' = closed /\ items' = Pruned \cup {received + 1}
          /\ received \in Nat
      BY <1>2, ThreadFacts DEF Receive
    <2>2. ASSUME NEW f \in Frames, f <= received', f \notin closed', ~Expired(f)'
          PROVE  f \in items'
      <3>1. f = received + 1 \/ f <= received
        BY <2>1, <2>2, ThreadFacts
      <3>2. CASE f <= received
        BY <2>1, <2>2, <3>2, OwnersStep, ThreadFacts DEF Entries, Pruned
      <3> QED BY <2>1, <3>1, <3>2
    <2> QED BY <2>2
  <1>3. ASSUME NEW t \in Threads, ScanErases(t) PROVE Kept
    BY <1>1, <1>3 DEF ScanErases, Erased, Found, Entitled, MayClose
  <1>4. ASSUME NEW t \in Threads, ScanDestroys(t) PROVE Kept
    BY <1>1, <1>4 DEF ScanDestroys
  <1>5. ASSUME NEW t \in Threads, ScanEnds(t) PROVE Kept
    BY <1>1, <1>5 DEF ScanEnds, Pruned
  <1>6. ASSUME NEW t \in Threads, Test(t) \/ Fire(t) \/ Lock(t) PROVE Kept
    BY <1>1, <1>6 DEF Test, Fire, Lock
  <1>7. ASSUME NEW t \in Threads, NEW f \in Frames,
               ScanLocks(t, f) \/ ScanPasses(t, f) \/ Release(t, f) \/ Drop(t, f)
        PROVE  Kept
    BY <1>1, <1>7 DEF ScanLocks, ScanPasses, Release, Drop
  <1>8. ASSUME NEW t \in Threads, NEW u \in Holders, NEW f \in Frames, Copy(t, u, f)
        PROVE  Kept
    BY <1>1, <1>8 DEF Copy
  <1>9. ASSUME NEW f \in Frames, CloseNext(f) PROVE Kept
    BY <1>1, <1>9 DEF CloseNext
  <1>10. CASE RetainedFrames \/ CloseBegins \/ CloseEnds \/ UNCHANGED vars
    BY <1>1, <1>10 DEF RetainedFrames, CloseBegins, CloseEnds, Pruned, vars
  <1>11. ASSUME NEW t \in Threads, Step(t) PROVE Kept
    BY <1>3, <1>4, <1>5, <1>6, <1>7, <1>11 DEF Step
  <1> QED
    BY <1>2, <1>7, <1>8, <1>9, <1>10, <1>11 DEF Next, App, Closing

\* The entry of a closed handle waits for the scan of the thread that closed
\* it, which has not passed it yet.
LEMMA ClosedEntryStep ==
    ASSUME Objects, Controls, Entries, Scans, [Next]_vars
    PROVE  \A f \in items' : f \in closed' /\ ~Expired(f)' =>
               Stuck' \/ \E t \in Threads : OnItsWay(t, f)'
  <1> USE DEF objects, scan, closing, history, OnItsWay
  <1> DEFINE Awaited ==
        \A f \in items' : f \in closed' /\ ~Expired(f)' =>
            Stuck' \/ \E t \in Threads : OnItsWay(t, f)'
  <1>1. ASSUME NEW f \in items, f \in closed, ~Expired(f)', ~Stuck
        PROVE  \E t \in Threads : OnItsWay(t, f)
    BY <1>1, OwnersStep DEF Entries, Objects
  <1>2. ASSUME NEW t \in Threads, pc[t] # "stuck",
               \A u \in Threads \ {t} : Still(u),
               \A f \in items' : f \in closed' /\ ~Expired(f)' =>
                   \/ OnItsWay(t, f)'
                   \/ f \in items /\ f \in closed /\ (OnItsWay(t, f) => Stuck')
        PROVE  Awaited
    <2>1. ASSUME Stuck PROVE Stuck'
      BY <1>2, <2>1 DEF Stuck, Still
    <2>2. ASSUME NEW f \in items', f \in closed', ~Expired(f)', ~Stuck'
          PROVE  \E u \in Threads : OnItsWay(u, f)'
      <3>1. CASE OnItsWay(t, f)' BY <3>1
      <3>2. CASE f \in items /\ f \in closed /\ ~OnItsWay(t, f)
        <4>1. PICK u \in Threads : OnItsWay(u, f)
          BY <1>1, <2>1, <2>2, <3>2
        <4>2. u # t /\ Still(u) BY <1>2, <3>2, <4>1
        <4>3. OnItsWay(u, f)' BY <4>1, <4>2 DEF Still
        <4> QED BY <4>3
      <3> QED BY <1>2, <2>2, <3>1, <3>2
    <2> QED BY <2>2
  <1>3. ASSUME UNCHANGED <<closed, pc, handle, pos>>, items' \cap closed \subseteq items
        PROVE  Awaited
    <2>1. ASSUME NEW f \in items', f \in closed', ~Expired(f)', ~Stuck'
          PROVE  \E u \in Threads : OnItsWay(u, f)'
      <3>1. ~Stuck BY <1>3, <2>1 DEF Stuck
      <3>2. PICK u \in Threads : OnItsWay(u, f) BY <1>1, <1>3, <2>1, <3>1
      <3>3. OnItsWay(u, f)' BY <1>3, <3>2
      <3> QED BY <3>3
    <2> QED BY <2>1
  <1>4. ASSUME NEW t \in Threads, NEW f \in Frames,
               Release(t, f) \/ (CloseNext(f) /\ t = Closer) \/ (Drop(t, f) /\ Owners(f) = {t})
        PROVE  Awaited
    <2>1. /\ pc[t] = "out" /\ closed' = closed /\ items' = items
          /\ \A u \in Threads \ {t} : Still(u)
      BY <1>4, EntersStep
    <2> QED BY <1>2, <2>1
  <1>5. ASSUME NEW t \in Threads, NEW f \in Frames, Release(t, f) \/ Drop(t, f)
        PROVE  Awaited
    <2>1. CASE Release(t, f) BY <1>4, <2>1
    <2>2. CASE Drop(t, f) /\ Owners(f) = {t} BY <1>4, <2>2
    <2>3. CASE Drop(t, f) /\ Owners(f) # {t} BY <1>3, <2>3 DEF Drop
    <2> QED BY <1>5, <2>1, <2>2, <2>3
  <1>6. ASSUME NEW f \in Frames, CloseNext(f) PROVE Awaited
    BY <1>4, <1>6, ThreadFacts
  <1>7. ASSUME NEW t \in Threads, Test(t) PROVE Awaited
    <2>1. /\ pc[t] = "test" /\ closed' = closed /\ items' = items
          /\ \A u \in Threads \ {t} : Still(u)
      <3>1. CASE Closed(handle[t]) BY <1>7, <3>1 DEF Test, Still, Controls
      <3>2. CASE ~Closed(handle[t]) BY <1>7, <3>2 DEF Test, Still, Controls
      <3> QED BY <3>1, <3>2
    <2> QED BY <1>2, <2>1
  <1>8. ASSUME NEW t \in Threads, Fire(t) PROVE Awaited
    <2>1. /\ pc[t] = "fire" /\ closed' = closed \cup {handle[t]} /\ items' = items
          /\ pc'[t] = "lock" /\ handle' = handle /\ \A u \in Threads \ {t} : Still(u)
      BY <1>8 DEF Fire, Still, Controls
    <2> QED BY <1>2, <2>1
  <1>9. ASSUME NEW t \in Threads, Lock(t) PROVE Awaited
    <2>1. /\ pc[t] = "lock" /\ closed' = closed /\ items' = items
          /\ pc'[t] = "scan" /\ pos'[t] = None /\ handle' = handle
          /\ \A u \in Threads \ {t} : Still(u)
      BY <1>9 DEF Lock, Still, Controls
    <2>2. \A f \in items : None < f
      BY ThreadFacts DEF Objects
    <2> QED BY <1>2, <2>1, <2>2
  <1>10. ASSUME NEW t \in Threads, NEW e \in Frames, ScanLocks(t, e) PROVE Awaited
    <2>1. /\ pc[t] = "scan" /\ closed' = closed /\ items' = items
          /\ pc'[t] = "compare" /\ pos' = pos /\ handle' = handle
          /\ \A u \in Threads \ {t} : Still(u)
      BY <1>10 DEF ScanLocks, Still, Controls
    <2> QED BY <1>2, <2>1
  <1>11. ASSUME NEW t \in Threads, NEW e, AtEntry(t, e), pc[t] = "compare", pc'[t] = "scan",
                pos'[t] = e, handle'[t] = handle[t], closed' = closed, items' = items,
                \A u \in Threads \ {t} : Still(u), e = handle[t] => Expired(e)'
         PROVE  Awaited
    <2>1. \A f \in items : f \in Nat BY ThreadFacts DEF Objects
    <2>2. ASSUME NEW f \in items, ~Expired(f)', OnItsWay(t, f) PROVE OnItsWay(t, f)'
      <3>1. e <= f /\ e # f BY <1>11, <2>2 DEF AtEntry
      <3>2. e < f BY <1>11, <2>1, <3>1 DEF AtEntry
      <3> QED BY <1>11, <2>2, <3>2
    <2> QED BY <1>2, <1>11, <2>2
  <1>12. ASSUME NEW t \in Threads, NEW e \in Frames, ScanPasses(t, e) PROVE Awaited
    <2>1. /\ AtEntry(t, e) /\ pc[t] = "compare" /\ pc'[t] = "scan" /\ pos'[t] = e
          /\ handle' = handle /\ closed' = closed /\ items' = items
          /\ \A u \in Threads \ {t} : Still(u)
      BY <1>12 DEF ScanPasses, NextPos, Still, Controls
    <2>2. PICK g \in items : AtEntry(t, g) /\ (temp[t] = g \/ (temp[t] = None /\ Expired(g)))
      BY <2>1 DEF Scans
    <2>3. g = e BY <2>1, <2>2, OneEntry
    <2>4. e = handle[t] => Expired(e)'
      BY <1>12, <2>2, <2>3, OwnersStep DEF ScanPasses, Found, Objects
    <2> QED BY <1>11, <2>1, <2>4
  <1>13. ASSUME NEW t \in Threads, ScanErases(t) PROVE Awaited
    <2>1. /\ pc[t] = "compare" /\ closed' = closed /\ items' = items \ {handle[t]}
          /\ \A u \in Threads \ {t} : Still(u)
      BY <1>13 DEF ScanErases, Erased, Found, Leaves, Still, Controls
    <2> QED BY <1>2, <2>1
  <1>14. ASSUME NEW t \in Threads, ScanEnds(t) PROVE Awaited
    <2>1. /\ pc[t] = "scan" /\ closed' = closed /\ items' \subseteq items
          /\ \A f \in items : f <= pos[t]
          /\ \A u \in Threads \ {t} : Still(u)
      BY <1>14 DEF ScanEnds, Pruned, Leaves, Still, Controls
    <2>2. \A f \in items : ~(pos[t] < f)
      BY <2>1, ThreadFacts DEF Objects, Controls
    <2> QED BY <1>2, <2>1, <2>2
  <1>15. ASSUME NEW t \in Threads, ScanDestroys(t) PROVE Awaited
    <2>1. /\ pc[t] = "compare" /\ temp[t] # None /\ refs[temp[t]] = {} /\ items' = items
          /\ \A u \in Threads \ {t} : Still(u)
      <3>1. CASE Closed(temp[t]) BY <1>15, <3>1 DEF ScanDestroys, Harmless, NextPos, Still, Controls
      <3>2. CASE ~Closed(temp[t]) BY <1>15, <3>2 DEF ScanDestroys, Harmless, NextPos, Still, Controls
      <3> QED BY <3>1, <3>2
    <2>2. CASE Closed(temp[t])
      <3>1. /\ pc'[t] = "scan" /\ pos'[t] = temp[t] /\ handle' = handle /\ closed' = closed
        BY <1>15, <2>2 DEF ScanDestroys, NextPos, Controls
      <3>2. AtEntry(t, temp[t])
        BY <2>1 DEF Scans
      <3>3. \A u \in Threads : temp'[u] # temp[t]
        BY <1>15, <2>1 DEF ScanDestroys, Controls
      <3>4. refs'[temp[t]] = {}
        BY <1>15, <2>1 DEF ScanDestroys
      <3>5. ASSUME NEW e, e = temp[t] PROVE Expired(e)'
        BY <3>3, <3>4, <3>5 DEF Expired, Owners
      <3>6. PICK e : e = temp[t]
        OBVIOUS
      <3> QED BY <1>11, <2>1, <3>1, <3>2, <3>5, <3>6
    <2>3. CASE ~Closed(temp[t])
      <3>1. Stuck'
        BY <1>15, <2>3 DEF ScanDestroys, Stuck, Controls
      <3> QED BY <3>1
    <2> QED BY <2>2, <2>3
  <1>16. ASSUME NEW t \in Threads, NEW u \in Holders, NEW f \in Frames, Copy(t, u, f)
         PROVE  Awaited
    BY <1>3, <1>16 DEF Copy
  <1>17. ASSUME NEW t \in Threads, Receive(t) PROVE Awaited
    <2>1. received + 1 \notin closed
      BY ThreadFacts DEF Objects
    <2> QED BY <1>3, <1>17, <2>1 DEF Receive, Pruned
  <1>18. CASE CloseBegins \/ CloseEnds \/ RetainedFrames \/ UNCHANGED vars
    BY <1>3, <1>18 DEF CloseBegins, CloseEnds, RetainedFrames, Pruned, vars
  <1>19. ASSUME NEW t \in Threads, Step(t) PROVE Awaited
    BY <1>7, <1>8, <1>9, <1>10, <1>12, <1>13, <1>14, <1>15, <1>19 DEF Step
  <1> QED
    BY <1>5, <1>6, <1>16, <1>17, <1>18, <1>19 DEF Next, App, Closing

\* Nobody but the holder of retained_mu disturbs the scan it is in.
LEMMA ScansStep ==
    ASSUME Objects, Controls, Scans, [Next]_vars
    PROVE  Scans'
  <1> USE DEF objects, scan, closing, history
  <1> DEFINE Stands(u, f) == AtEntry(u, f) /\ (temp[u] = f \/ (temp[u] = None /\ Expired(f)))
  <1>1. \A u, w \in Threads : pc[u] = "compare" /\ mutex \in {None, w} => u = w
    BY ThreadFacts DEF Controls
  <1>2. ASSUME NEW u \in Threads, pc[u] = "compare", items' = items, temp'[u] = temp[u],
               pos'[u] = pos[u]
        PROVE  \E f \in items' : Stands(u, f)'
    <2>1. PICK f \in items : Stands(u, f) BY <1>2 DEF Scans
    <2>2. AtEntry(u, f)' BY <1>2, <2>1 DEF AtEntry
    <2>3. Expired(f) => Expired(f)' BY OwnersStep DEF Objects
    <2>4. Stands(u, f)' BY <1>2, <2>1, <2>2, <2>3
    <2> QED BY <1>2, <2>4
  <1>3. ASSUME NEW t \in Threads, items' = items \/ mutex \in {None, t}, pc'[t] # "compare",
               \A u \in Threads \ {t} : Still(u)
        PROVE  Scans'
    <2>1. ASSUME NEW u \in Threads, pc'[u] = "compare" PROVE \E f \in items' : Stands(u, f)'
      BY <1>1, <1>2, <1>3, <2>1 DEF Still
    <2> QED BY <2>1 DEF Scans
  <1>4. ASSUME UNCHANGED <<pc, temp, pos>>, items' = items \/ mutex = None PROVE Scans'
    <2>1. ASSUME NEW u \in Threads, pc'[u] = "compare" PROVE \E f \in items' : Stands(u, f)'
      BY <1>1, <1>2, <1>4, <2>1, ThreadFacts DEF Controls
    <2> QED BY <2>1 DEF Scans
  <1>5. ASSUME NEW t \in Threads, NEW f \in Frames, ScanLocks(t, f) PROVE Scans'
    <2>1. /\ pc[t] = "scan" /\ items' = items /\ pos' = pos /\ refs' = refs
          /\ AtEntry(t, f) /\ f \in items
          /\ temp' = [temp EXCEPT ![t] = IF Expired(f) THEN None ELSE f]
          /\ \A u \in Threads \ {t} : Still(u)
      BY <1>5 DEF ScanLocks, AtEntry, Still, Controls
    <2>2. AtEntry(t, f)' BY <2>1 DEF AtEntry
    <2>3. Expired(f) => Expired(f)' BY <2>1, OwnersStep DEF Objects
    <2>4. Stands(t, f)' BY <2>1, <2>2, <2>3 DEF Controls
    <2>5. ASSUME NEW u \in Threads, pc'[u] = "compare" PROVE \E g \in items' : Stands(u, g)'
      <3>1. CASE u = t BY <2>1, <2>4, <3>1
      <3>2. CASE u # t BY <1>2, <2>1, <2>5, <3>2 DEF Still
      <3> QED BY <3>1, <3>2
    <2> QED BY <2>5 DEF Scans
  <1>6. ASSUME NEW t \in Threads, NEW f \in Frames,
               Release(t, f) \/ (CloseNext(f) /\ t = Closer) \/ (Drop(t, f) /\ Owners(f) = {t})
        PROVE  Scans'
    <2>1. pc'[t] # "compare" /\ items' = items /\ \A u \in Threads \ {t} : Still(u)
      BY <1>6, EntersStep
    <2> QED BY <1>3, <2>1
  <1>7. ASSUME NEW t \in Threads, NEW f \in Frames, Release(t, f) \/ Drop(t, f)
        PROVE  Scans'
    <2>1. CASE Release(t, f) BY <1>6, <2>1
    <2>2. CASE Drop(t, f) /\ Owners(f) = {t} BY <1>6, <2>2
    <2>3. CASE Drop(t, f) /\ Owners(f) # {t} BY <1>4, <2>3 DEF Drop
    <2> QED BY <1>7, <2>1, <2>2, <2>3
  <1>8. ASSUME NEW f \in Frames, CloseNext(f) PROVE Scans'
    BY <1>6, <1>8, ThreadFacts
  <1>9. ASSUME NEW t \in Threads, Test(t) \/ Fire(t) \/ Lock(t) PROVE Scans'
    <2>1. pc'[t] # "compare" /\ items' = items /\ \A u \in Threads \ {t} : Still(u)
      <3>1. CASE Test(t) /\ Closed(handle[t]) BY <3>1 DEF Test, Still, Controls
      <3>2. CASE Test(t) /\ ~Closed(handle[t]) BY <3>2 DEF Test, Still, Controls
      <3>3. CASE Fire(t) BY <3>3 DEF Fire, Still, Controls
      <3>4. CASE Lock(t) BY <3>4 DEF Lock, Still, Controls
      <3> QED BY <1>9, <3>1, <3>2, <3>3, <3>4
    <2> QED BY <1>3, <2>1
  <1>10. ASSUME NEW t \in Threads, NEW f \in Frames, ScanPasses(t, f) PROVE Scans'
    BY <1>3, <1>10 DEF ScanPasses, NextPos, Still, Controls
  <1>11. ASSUME NEW t \in Threads, ScanErases(t) \/ ScanEnds(t) PROVE Scans'
    <2>1. /\ pc'[t] # "compare" /\ mutex \in {None, t} /\ \A u \in Threads \ {t} : Still(u)
      BY <1>11 DEF ScanErases, ScanEnds, Leaves, Still, Controls
    <2> QED BY <1>3, <2>1
  <1>12. ASSUME NEW t \in Threads, ScanDestroys(t) PROVE Scans'
    <2>1. pc'[t] # "compare" /\ items' = items /\ \A u \in Threads \ {t} : Still(u)
      <3>1. CASE Closed(temp[t]) BY <1>12, <3>1 DEF ScanDestroys, NextPos, Still, Controls
      <3>2. CASE ~Closed(temp[t]) BY <1>12, <3>2 DEF ScanDestroys, NextPos, Still, Controls
      <3> QED BY <3>1, <3>2
    <2> QED BY <1>3, <2>1
  <1>13. ASSUME NEW t \in Threads, NEW u \in Holders, NEW f \in Frames, Copy(t, u, f)
         PROVE  Scans'
    BY <1>4, <1>13 DEF Copy
  <1>14. ASSUME NEW t \in Threads, Receive(t) PROVE Scans'
    BY <1>4, <1>14 DEF Receive
  <1>15. CASE CloseBegins \/ CloseEnds \/ RetainedFrames \/ UNCHANGED vars
    BY <1>4, <1>15 DEF CloseBegins, CloseEnds, RetainedFrames, vars
  <1>16. ASSUME NEW t \in Threads, Step(t) PROVE Scans'
    BY <1>5, <1>9, <1>10, <1>11, <1>12, <1>16 DEF Step
  <1> QED
    BY <1>7, <1>8, <1>13, <1>14, <1>15, <1>16 DEF Next, App, Closing

\* A handle that was released or is about to be stays so.
SpokenFor(f) == fired[f] > 0 \/ \E t \in Threads : handle[t] = f /\ BeforeFire(t)

\* Once a handle is released or about to be, every step leaves it so.
LEMMA SpokenForStep ==
    ASSUME Objects, Controls, FiredOnce, [Next]_vars,
           NEW f \in Frames, SpokenFor(f)
    PROVE  SpokenFor(f)'
  <1> USE DEF SpokenFor, BeforeFire, objects, scan, closing, history
  <1>1. ASSUME fired' = fired, \A u \in Threads : BeforeFire(u) => Still(u)
        PROVE  SpokenFor(f)'
    BY <1>1 DEF Still
  <1>2. ASSUME NEW t \in Threads, NEW g \in Frames,
               Release(t, g) \/ (CloseNext(g) /\ t = Closer) \/ (Drop(t, g) /\ Owners(g) = {t})
        PROVE  SpokenFor(f)'
    BY <1>1, <1>2, EntersStep
  <1>3. ASSUME NEW t \in Threads, NEW g \in Frames, Release(t, g) \/ Drop(t, g)
        PROVE  SpokenFor(f)'
    <2>1. CASE Release(t, g) BY <1>2, <2>1
    <2>2. CASE Drop(t, g) /\ Owners(g) = {t} BY <1>2, <2>2
    <2>3. CASE Drop(t, g) /\ Owners(g) # {t} BY <1>1, <2>3 DEF Drop, Still
    <2> QED BY <1>3, <2>1, <2>2, <2>3
  <1>4. ASSUME NEW g \in Frames, CloseNext(g) PROVE SpokenFor(f)'
    BY <1>2, <1>4, ThreadFacts
  <1>5. ASSUME NEW t \in Threads, Test(t) PROVE SpokenFor(f)'
    <2>1. CASE Closed(handle[t])
      <3>1. /\ handle[t] \in closed /\ fired' = fired /\ \A u \in Threads \ {t} : Still(u)
        BY <1>5, <2>1 DEF Test, Still, Controls, Closed
      <3>2. handle[t] = f => fired[f] > 0
        BY <3>1 DEF FiredOnce
      <3> QED BY <3>1, <3>2 DEF Still
    <2>2. CASE ~Closed(handle[t])
      <3>1. /\ pc'[t] = "fire" /\ handle' = handle /\ fired' = fired
            /\ \A u \in Threads \ {t} : Still(u)
        BY <1>5, <2>2 DEF Test, Still, Controls
      <3> QED BY <3>1 DEF Still
    <2> QED BY <2>1, <2>2
  <1>6. ASSUME NEW t \in Threads, Fire(t) PROVE SpokenFor(f)'
    <2>1. /\ fired' = [fired EXCEPT ![handle[t]] = @ + 1] /\ \A u \in Threads \ {t} : Still(u)
      BY <1>6 DEF Fire, Still, Controls
    <2>2. fired[f] \in Nat /\ fired'[f] = IF f = handle[t] THEN fired[f] + 1 ELSE fired[f]
      BY <2>1 DEF Objects
    <2> QED BY <2>1, <2>2 DEF Still
  <1>7. ASSUME NEW t \in Threads, NEW g \in Frames,
               Lock(t) \/ ScanLocks(t, g) \/ ScanPasses(t, g)
        PROVE  SpokenFor(f)'
    <2>1. fired' = fired /\ \A u \in Threads : BeforeFire(u) => Still(u)
      BY <1>7 DEF Lock, ScanLocks, ScanPasses, NextPos, Still, Controls
    <2> QED BY <1>1, <2>1
  <1>8. ASSUME NEW t \in Threads, Lock(t) \/ ScanErases(t) \/ ScanEnds(t)
        PROVE  SpokenFor(f)'
    <2>1. fired' = fired /\ \A u \in Threads : BeforeFire(u) => Still(u)
      BY <1>8 DEF Lock, ScanErases, ScanEnds, Leaves, Still, Controls
    <2> QED BY <1>1, <2>1
  <1>9. ASSUME NEW t \in Threads, ScanDestroys(t) PROVE SpokenFor(f)'
    <2>1. \A u \in Threads : BeforeFire(u) => Still(u)
      <3>1. CASE Closed(temp[t]) BY <1>9, <3>1 DEF ScanDestroys, NextPos, Still, Controls
      <3>2. CASE ~Closed(temp[t]) BY <1>9, <3>2 DEF ScanDestroys, NextPos, Still, Controls
      <3> QED BY <3>1, <3>2
    <2>2. CASE Closed(temp[t])
      <3>1. fired' = fired BY <1>9, <2>2 DEF ScanDestroys
      <3> QED BY <1>1, <2>1, <3>1
    <2>3. CASE ~Closed(temp[t])
      <3>1. fired' = [fired EXCEPT ![temp[t]] = @ + 1] BY <1>9, <2>3 DEF ScanDestroys
      <3>2. fired[f] > 0 => fired'[f] > 0
        BY <3>1 DEF Objects
      <3> QED BY <2>1, <3>2 DEF Still
    <2> QED BY <2>2, <2>3
  <1>10. ASSUME NEW t \in Threads, NEW u \in Holders, NEW g \in Frames, Copy(t, u, g)
         PROVE  SpokenFor(f)'
    BY <1>1, <1>10 DEF Copy, Still
  <1>11. ASSUME NEW t \in Threads, Receive(t) PROVE SpokenFor(f)'
    BY <1>1, <1>11 DEF Receive, Still
  <1>12. CASE CloseBegins \/ CloseEnds \/ RetainedFrames \/ UNCHANGED vars
    BY <1>1, <1>12 DEF CloseBegins, CloseEnds, RetainedFrames, Still, vars
  <1>13. ASSUME NEW t \in Threads, Step(t) PROVE SpokenFor(f)'
    BY <1>5, <1>6, <1>7, <1>8, <1>9, <1>13 DEF Step
  <1> QED
    BY <1>3, <1>4, <1>10, <1>11, <1>12, <1>13 DEF Next, App, Closing

\* The step that takes a handle's last reference has seen to its release.
LEMMA LastOwnerStep ==
    ASSUME Objects, Controls, FiredOnce, CloserOwns, [Next]_vars,
           NEW f \in 1 .. received, ~Expired(f), Expired(f)'
    PROVE  SpokenFor(f)'
  <1> USE DEF Expired, Owners, objects, scan, closing, history
  <1>f. f \in Frames /\ f # None /\ f # received + 1
    BY ThreadFacts
  <1>1. ASSUME NEW t \in Threads, Receive(t) PROVE FALSE
    BY <1>1, <1>f DEF Receive, Objects
  <1>2. ASSUME NEW t \in Threads, NEW u \in Holders, NEW g \in Frames, Copy(t, u, g) PROVE FALSE
    BY <1>2, <1>f DEF Copy, Objects
  <1>3. ASSUME NEW t \in Threads, NEW g \in Frames, Drop(t, g) PROVE SpokenFor(f)'
    <2>1. f = g /\ Owners(f) = {t}
      <3>1. refs' = [refs EXCEPT ![g] = @ \ {t}] /\ temp' = temp
        BY <1>3 DEF Drop
      <3>2. temp[t] = None
        BY <1>3 DEF Drop, Controls
      <3> QED BY <1>f, <3>1, <3>2 DEF Objects
    <2>2. pc'[t] = "test" /\ handle'[t] = f
      BY <1>3, <2>1, EntersStep
    <2> QED BY <2>2 DEF SpokenFor, BeforeFire
  <1>4. CASE CloseEnds
    <2>1. Closer \in refs[f] /\ pc[Closer] = "out" /\ held = {} /\ fired' = fired
      BY <1>4, <1>f DEF CloseEnds, Objects
    <2>2. f \in closed
      BY <1>f, <2>1 DEF CloserOwns, BeforeFire
    <2> QED BY <1>f, <2>1, <2>2 DEF FiredOnce, SpokenFor
  <1>5. ASSUME NEW t \in Threads, Harmless(t), refs' = refs, temp' = [temp EXCEPT ![t] = None]
        PROVE  FALSE
    BY <1>5, <1>f DEF Harmless, Controls
  <1>6. ASSUME NEW t \in Threads, ScanDestroys(t) PROVE SpokenFor(f)'
    <2>1. f = temp[t]
      BY <1>6, <1>f DEF ScanDestroys, Controls
    <2>2. CASE Closed(temp[t])
      BY <1>6, <1>f, <2>1, <2>2 DEF ScanDestroys, Closed, FiredOnce, SpokenFor
    <2>3. CASE ~Closed(temp[t])
      <3>1. fired'[f] = fired[f] + 1 /\ fired[f] \in Nat
        BY <1>6, <1>f, <2>1, <2>3 DEF ScanDestroys, Objects
      <3> QED BY <3>1 DEF SpokenFor
    <2> QED BY <2>2, <2>3
  <1>7. ASSUME refs' = refs /\ temp' = temp PROVE FALSE
    BY <1>7
  <1>8. ASSUME NEW t \in Threads, Test(t) \/ Fire(t) \/ Lock(t) \/ ScanErases(t) \/ ScanEnds(t)
        PROVE  FALSE
    BY <1>5, <1>7, <1>8 DEF Test, Fire, Lock, ScanErases, ScanEnds
  <1>9. ASSUME NEW t \in Threads, NEW g \in Frames, ScanPasses(t, g) \/ Release(t, g) PROVE FALSE
    BY <1>5, <1>7, <1>9 DEF ScanPasses, Release
  <1>10. ASSUME NEW t \in Threads, NEW g \in Frames, ScanLocks(t, g) PROVE FALSE
    BY <1>10, <1>f DEF ScanLocks, Controls
  <1>11. CASE CloseBegins
    BY <1>11, <1>f DEF CloseBegins, LiveOwned, Objects
  <1>12. ASSUME NEW g \in Frames, CloseNext(g) PROVE FALSE
    BY <1>7, <1>12 DEF CloseNext
  <1>13. CASE RetainedFrames \/ UNCHANGED vars
    BY <1>7, <1>13 DEF RetainedFrames, vars
  <1>14. ASSUME NEW t \in Threads, Step(t) PROVE SpokenFor(f)'
    BY <1>6, <1>8, <1>9, <1>10, <1>14 DEF Step
  <1> QED
    BY <1>1, <1>2, <1>3, <1>4, <1>9, <1>11, <1>12, <1>13, <1>14 DEF Next, App, Closing

\* No step leaves a handle without an owner and without its release.
LEMMA NoneForgottenStep ==
    ASSUME Objects, Controls, FiredOnce, CloserOwns, NoneForgotten, [Next]_vars
    PROVE  NoneForgotten'
  <1>1. ASSUME NEW f \in 1 .. received, Expired(f)' PROVE SpokenFor(f)'
    <2>1. CASE Expired(f)
      BY <2>1, SpokenForStep, ThreadFacts DEF NoneForgotten, SpokenFor, BeforeFire
    <2>2. CASE ~Expired(f)
      BY <1>1, <2>2, LastOwnerStep
    <2> QED BY <2>1, <2>2
  <1>2. ASSUME NEW f \in 1 .. received', f \notin 1 .. received PROVE ~Expired(f)'
    <2>1. PICK t \in Threads : Receive(t)
      BY <1>2 DEF Next, Step, App, Closing, Test, Fire, Lock, ScanLocks, ScanPasses, ScanErases,
         ScanEnds, ScanDestroys, Release, Drop, Copy, CloseBegins, CloseNext, CloseEnds,
         RetainedFrames, vars, objects
    <2>2. f = received + 1 /\ received + 1 \in Frames
      BY <1>2, <2>1, ThreadFacts, RetentionAssumption DEF Receive, Frames
    <2>3. t \in refs'[f]
      BY <2>1, <2>2 DEF Receive, Objects
    <2> QED BY <2>3 DEF Expired, Owners
  <1> QED BY <1>1, <1>2 DEF NoneForgotten, SpokenFor, BeforeFire

-----------------------------------------------------------------------------
\* The invariant holds before the first frame.
LEMMA RetentionInvInit == Init => RetentionInv
  <1> SUFFICES ASSUME Init PROVE RetentionInv
    OBVIOUS
  <1> USE DEF Init
  <1>1. Objects BY RetentionAssumption DEF Objects, Frames
  <1>2. Controls BY RetentionAssumption DEF Controls, None, PCs
  <1>3. Entitled /\ Scans BY DEF Entitled, MayClose, BeforeFire, Scans
  <1>4. FiredOnce BY DEF FiredOnce
  <1>5. CloserOwns BY DEF CloserOwns
  <1>6. Entries BY DEF Entries, Frames
  <1>7. NoneForgotten BY DEF NoneForgotten
  <1> QED BY <1>1, <1>2, <1>3, <1>4, <1>5, <1>6, <1>7 DEF RetentionInv

\* Every step keeps the inductive invariant, conjunct by conjunct.
LEMMA RetentionInvNext == RetentionInv /\ [Next]_vars => RetentionInv'
  <1> SUFFICES ASSUME RetentionInv, [Next]_vars PROVE RetentionInv'
    OBVIOUS
  <1>0. /\ Objects /\ Controls /\ Entitled /\ FiredOnce /\ CloserOwns /\ Entries /\ Scans
        /\ NoneForgotten
    BY DEF RetentionInv
  <1>1. Objects' /\ Controls' BY <1>0, ObjectsStep, ControlsStep
  <1>2. Entitled' BY <1>0, EntitledStep
  <1>3. FiredOnce' /\ CloserOwns' BY <1>0, FiredOnceStep, CloserOwnsStep
  <1>4. Entries' BY <1>0, OpenEntryStep, ClosedEntryStep DEF Entries
  <1>5. Scans' /\ NoneForgotten' BY <1>0, ScansStep, NoneForgottenStep
  <1> QED BY <1>1, <1>2, <1>3, <1>4, <1>5 DEF RetentionInv

\* At rest every entry is one that close() would still find.
LEMMA LedgerHolds == RetentionInv => LedgerSound
  <1> SUFFICES ASSUME RetentionInv PROVE LedgerSound
    OBVIOUS
  <1>0. Objects /\ Controls /\ FiredOnce /\ Entries
    BY DEF RetentionInv
  <1>1. TypeOK BY <1>0, TypesHold
  <1>2. ReleasedOnce
    <2>1. ASSUME NEW f \in Frames, f \notin raced PROVE fired[f] <= 1
      BY <1>0, <2>1 DEF FiredOnce
    <2>2. \A f \in Frames : fired[f] \in Nat BY <1>0 DEF Objects
    <2> QED BY <2>1, <2>2 DEF ReleasedOnce
  <1>3. ASSUME Quiet PROVE Pruned = {f \in Frames : refs[f] # {} /\ f \notin closed}
    <2>1. \A f \in Frames : ~Expired(f) <=> refs[f] # {}
      BY <1>0, <1>3, ThreadFacts DEF Quiet, Expired, Owners, Controls
    <2>2. ~Stuck
      BY <1>3 DEF Quiet, Stuck
    <2>3. ASSUME NEW f, NEW t \in Threads PROVE ~OnItsWay(t, f)
      BY <1>3 DEF Quiet, OnItsWay
    <2>4. \A f \in items : f \in Frames
      BY <1>0, ThreadFacts DEF Objects
    <2>5. ASSUME NEW f \in Pruned PROVE f \in Frames /\ refs[f] # {} /\ f \notin closed
      BY <1>0, <2>1, <2>2, <2>3, <2>4, <2>5 DEF Entries, Pruned
    <2>6. ASSUME NEW f \in Frames, refs[f] # {}, f \notin closed PROVE f \in Pruned
      BY <1>0, <2>1, <2>6 DEF Entries, Objects, Pruned
    <2> QED BY <2>5, <2>6
  <1> QED BY <1>1, <1>2, <1>3 DEF LedgerSound, CountExact

\* The inductive invariant, for every number of threads and frames.
LEMMA RetentionInvHolds == Spec => []RetentionInv
  BY RetentionInvInit, RetentionInvNext, PTL DEF Spec

\* For every number of threads, frames, copies and calls of close(): retained_mu
\* has one holder, a handle's release closure runs once unless two threads found
\* it open together, and retained_frames() is exact whenever nobody is inside
\* close() (FrameHandle::close, FrameRetainer).
THEOREM LedgerIsSound == Spec => []LedgerSound
  BY RetentionInvHolds, LedgerHolds, PTL

\* A handle that has lost its last owner has been released, or the thread that
\* dropped it is about to: the frame goes back by destruction (~FrameHandle).
THEOREM NoFrameForgotten == Spec => []NoneForgotten
  <1>1. RetentionInv => NoneForgotten BY DEF RetentionInv
  <1> QED BY <1>1, RetentionInvHolds, PTL

-----------------------------------------------------------------------------
(* FrameGeometry: fractions *)

\* The fractions the geometry works with.
Fracs == Int \X (Nat \ {0})

\* What cancels.
LEMMA Cancel ==
    ASSUME NEW x \in Int, NEW y \in Int, NEW z \in Nat \ {0}, x * z = y * z
    PROVE  x = y
  OBVIOUS

\* Products of positive numbers are positive.
LEMMA ProductType ==
    ASSUME NEW x \in Nat \ {0}, NEW y \in Nat \ {0}
    PROVE  x * y \in Nat \ {0}
  OBVIOUS

\* The two parts of a fraction.
LEMMA FracParts ==
    ASSUME NEW p \in Fracs
    PROVE  p[1] \in Int /\ p[2] \in Nat \ {0} /\ p[2] \in Int /\ p = <<p[1], p[2]>>
  BY DEF Fracs

\* Sums and products of fractions are fractions.
LEMMA FracTypes ==
    ASSUME NEW p \in Fracs, NEW q \in Fracs, NEW n \in Int
    PROVE  Plus(p, q) \in Fracs /\ Times(p, q) \in Fracs /\ Frac(n) \in Fracs
  <1>1. p[2] * q[2] \in Nat \ {0}
    BY FracParts, ProductType
  <1>2. p[1] * q[2] + q[1] * p[2] \in Int /\ p[1] * q[1] \in Int
    BY FracParts
  <1> QED BY <1>1, <1>2 DEF Fracs, Plus, Times, Frac

\* Equality of fractions is transitive.
LEMMA SameTrans ==
    ASSUME NEW p \in Fracs, NEW q \in Fracs, NEW r \in Fracs, Same(p, q), Same(q, r)
    PROVE  Same(p, r)
  <1> DEFINE a == p[1] b == p[2] c == q[1] d == q[2] e == r[1] f == r[2]
  <1>1. /\ a \in Int /\ b \in Int /\ c \in Int /\ d \in Nat \ {0} /\ d \in Int /\ e \in Int /\ f \in Int
        /\ a * d = c * b /\ c * f = e * d
    BY FracParts DEF Same
  <1> SUFFICES a * f = e * b
    BY DEF Same
  <1> HIDE DEF a, b, c, d, e, f
  <1>2. (a * f) * d = (e * b) * d
    BY <1>1
  <1>3. a * f \in Int /\ e * b \in Int
    BY <1>1
  <1> QED BY <1>1, <1>2, <1>3, Cancel

\* Equality of fractions is reflexive.
LEMMA SameRefl == ASSUME NEW p \in Fracs PROVE Same(p, p)
  BY DEF Same

\* Equals may be replaced in a sum.
LEMMA PlusSame ==
    ASSUME NEW p \in Fracs, NEW q \in Fracs, NEW r \in Fracs, Same(p, q)
    PROVE  Same(Plus(p, r), Plus(q, r))
  <1> DEFINE a == p[1] b == p[2] c == q[1] d == q[2] e == r[1] f == r[2]
  <1>1. /\ a \in Int /\ b \in Int /\ c \in Int /\ d \in Int /\ e \in Int /\ f \in Int
        /\ a * d = c * b
    BY FracParts DEF Same
  <1> SUFFICES (a * f + e * b) * (d * f) = (c * f + e * d) * (b * f)
    BY DEF Same, Plus
  <1> HIDE DEF a, b, c, d, e, f
  <1> QED BY <1>1

\* Equals may be replaced in a product.
LEMMA TimesSame ==
    ASSUME NEW p \in Fracs, NEW q \in Fracs, NEW r \in Fracs, Same(p, q)
    PROVE  Same(Times(p, r), Times(q, r))
  <1> DEFINE a == p[1] b == p[2] c == q[1] d == q[2] e == r[1] f == r[2]
  <1>1. /\ a \in Int /\ b \in Int /\ c \in Int /\ d \in Int /\ e \in Int /\ f \in Int
        /\ a * d = c * b
    BY FracParts DEF Same
  <1> SUFFICES (a * e) * (d * f) = (c * e) * (b * f)
    BY DEF Same, Times
  <1> HIDE DEF a, b, c, d, e, f
  <1> QED BY <1>1

\* A product of a sum is the sum of the products.
LEMMA Distribute ==
    ASSUME NEW p \in Fracs, NEW q \in Fracs, NEW r \in Fracs
    PROVE  Same(Times(Plus(p, q), r), Plus(Times(p, r), Times(q, r)))
  <1> DEFINE a == p[1] b == p[2] c == q[1] d == q[2] e == r[1] f == r[2]
  <1>1. a \in Int /\ b \in Int /\ c \in Int /\ d \in Int /\ e \in Int /\ f \in Int
    BY FracParts
  <1> SUFFICES ((a * d + c * b) * e) * ((b * f) * (d * f)) = ((a * e) * (d * f) + (c * e) * (b * f)) * ((b * d) * f)
    BY DEF Same, Times, Plus
  <1> HIDE DEF a, b, c, d, e, f
  <1> QED BY <1>1

\* Sums and products associate.
LEMMA Associate ==
    ASSUME NEW p \in Fracs, NEW q \in Fracs, NEW r \in Fracs
    PROVE  /\ Times(Times(p, q), r) = Times(p, Times(q, r))
           /\ Plus(Plus(p, q), r) = Plus(p, Plus(q, r))
  <1> DEFINE a == p[1] b == p[2] c == q[1] d == q[2] e == r[1] f == r[2]
  <1>1. a \in Int /\ b \in Int /\ c \in Int /\ d \in Int /\ e \in Int /\ f \in Int
    BY FracParts
  <1>2. (a * c) * e = a * (c * e) /\ (b * d) * f = b * (d * f)
    BY <1>1
  <1>3. (a * d + c * b) * f + e * (b * d) = a * (d * f) + (c * f + e * d) * b
    BY <1>1
  <1> QED BY <1>2, <1>3 DEF Times, Plus

-----------------------------------------------------------------------------
(* FrameGeometry: the content box *)

\* What sizes are.
Positive == Nat \ {0}

\* The quotient of two whole numbers.
LEMMA DivFacts ==
    ASSUME NEW x \in Int, NEW y \in Positive
    PROVE  x \div y \in Int /\ y * (x \div y) <= x /\ x < y * (x \div y) + y
  BY DEF Positive

\* A positive factor keeps the order.
LEMMA Order ==
    ASSUME NEW x \in Int, NEW y \in Int, NEW z \in Positive
    PROVE  /\ x * z < y * z => x < y
           /\ x <= y => x * z <= y * z
           /\ x * z <= y * z => x <= y
           /\ x < y => x * z < y * z
  BY DEF Positive

\* Rounding n / d to the nearest keeps below a whole number that bounds it, and
\* is exact on whole numbers.
LEMMA RoundFacts ==
    ASSUME NEW n \in Nat, NEW d \in Positive
    PROVE  /\ lround(n, d) \in Nat
           /\ \A m \in Nat : n <= m * d => lround(n, d) <= m
           /\ \A m \in Nat : n = m * d => lround(n, d) = m
  <1> DEFINE q == lround(n, d)
  <1>1. q \in Int /\ (2 * d) * q <= 2 * n + d /\ 2 * n + d < (2 * d) * q + 2 * d
    <2>1. 2 * n + d \in Int /\ 2 * d \in Positive
      BY DEF Positive
    <2> QED BY <2>1, DivFacts DEF lround
  <1> HIDE DEF q
  <1>2. d \in Nat /\ d > 0
    BY DEF Positive
  <1>3. q >= 0
    <2>1. ASSUME q <= -1 PROVE FALSE
      <3>1. q * (2 * d) <= (-1) * (2 * d)
        BY <1>1, <1>2, <2>1, Order DEF Positive
      <3> QED BY <1>1, <1>2, <3>1
    <2> QED BY <1>1, <2>1
  <1>4. ASSUME NEW m \in Nat, n <= m * d PROVE q <= m
    <2>1. ASSUME q >= m + 1 PROVE FALSE
      <3>1. (m + 1) * (2 * d) <= q * (2 * d)
        BY <1>1, <1>2, <2>1, Order DEF Positive
      <3>2. (m + 1) * (2 * d) = 2 * (m * d) + 2 * d /\ q * (2 * d) = (2 * d) * q
        BY <1>1, <1>2
      <3> HIDE DEF Positive
      <3> QED BY <1>1, <1>2, <1>4, <3>1, <3>2
    <2> QED BY <1>1, <2>1
  <1>5. ASSUME NEW m \in Nat, n = m * d PROVE q >= m
    <2>1. ASSUME q <= m - 1 PROVE FALSE
      <3>1. q * (2 * d) <= (m - 1) * (2 * d)
        BY <1>1, <1>2, <2>1, Order DEF Positive
      <3>2. (m - 1) * (2 * d) = 2 * (m * d) - 2 * d /\ q * (2 * d) = (2 * d) * q
        BY <1>1, <1>2
      <3> QED BY <1>1, <1>2, <1>5, <3>1, <3>2
    <2> QED BY <1>1, <2>1
  <1>6. ASSUME NEW m \in Nat, n = m * d PROVE q = m
    BY <1>1, <1>4, <1>5, <1>6, <1>2
  <1> QED BY <1>1, <1>3, <1>4, <1>6 DEF q

\* Making a size even, downwards but not below two.
LEMMA EvenFacts ==
    ASSUME NEW v \in Nat
    PROVE  /\ even_down(v) \in Positive /\ even_down(v) % 2 = 0
           /\ \A e \in Positive : e % 2 = 0 =>
                (v <= e => even_down(v) <= e) /\ (e <= v => e <= even_down(v))
  BY DEF even_down, Larger, Positive

\* A size on both axes.
Sizes == [Axes -> Positive]

\* What resize_geometry promises of the content box.
BoxOk(box, d, mode, yuv) ==
    /\ \A a \in Axes : box.size[a] \in Positive /\ box.at[a] \in Nat
    /\ mode = "crop" => /\ \A a \in Axes : box.at[a] + d[a] <= box.size[a]
                        /\ \E a \in Axes : d[a] = box.size[a]
    /\ mode # "crop" => /\ \A a \in Axes : box.at[a] + box.size[a] <= d[a]
                        /\ \E a \in Axes : d[a] = box.size[a]
                        /\ yuv => \A a \in Axes : box.at[a] % 2 = 0 /\ box.size[a] % 2 = 0

\* The axis that decides the scale of a letterbox or a crop.
Decides(s, d, mode) == IF (mode = "letterbox") = (d["x"] * s["y"] <= d["y"] * s["x"]) THEN "x" ELSE "y"

\* A size on an axis, as the format wants it.
Even(v, yuv) == IF yuv THEN even_down(v) ELSE v

\* What making a size even, or leaving it, keeps of its order.
LEMMA EvenSizes ==
    ASSUME NEW v \in Positive, NEW e \in Positive, NEW yuv \in BOOLEAN, yuv => e % 2 = 0
    PROVE  /\ Even(v, yuv) \in Positive /\ (yuv => Even(v, yuv) % 2 = 0)
           /\ v <= e => Even(v, yuv) <= e
           /\ v >= e => Even(v, yuv) >= e
           /\ v = e => Even(v, yuv) = e
  BY EvenFacts DEF Even, Positive

\* The content box of a letterbox lies within the canvas and touches two of its
\* sides, that of a crop encloses it and touches two of its sides, and for NV12 and
\* NV21 a letterbox is made of whole chroma samples (geometry.hpp).
LEMMA BoxFacts ==
    ASSUME NEW s \in Sizes, NEW d \in Sizes, NEW mode \in Modes, NEW yuv \in BOOLEAN,
           yuv => \A a \in Axes : d[a] % 2 = 0
    PROVE  BoxOk(resize_geometry(s, d, mode, yuv), d, mode, yuv)
  <1> DEFINE by == Decides(s, d, mode)
             least(a) == IF mode = "letterbox" THEN 1 ELSE d[a]
             wish(a) == Larger(least(a), lround(s[a] * d[by], s[by]))
             size == [a \in Axes |-> Even(wish(a), yuv)]
             pad(a) == (d[a] - size[a]) \div 2
             box == resize_geometry(s, d, mode, yuv)
  <1> SUFFICES BoxOk(box, d, mode, yuv)
    OBVIOUS
  <1>1. by \in Axes /\ \A a \in Axes : s[a] \in Positive /\ d[a] \in Positive
    BY DEF Decides, Axes, Sizes
  <1>2. CASE mode = "stretch"
    <2>1. box = [size |-> d, at |-> [a \in Axes |-> 0]]
      BY <1>2 DEF resize_geometry
    <2> HIDE DEF box
    <2> QED BY <1>1, <1>2, <2>1 DEF BoxOk, Positive
  <1>3. ASSUME NEW a \in Axes
        PROVE  /\ wish(a) \in Positive /\ lround(s[a] * d[by], s[by]) \in Nat
               /\ a = by => wish(a) = d[a]
    <2>1. s[a] \in Positive /\ d[by] \in Positive /\ s[by] \in Positive /\ d[a] \in Positive
      BY <1>1
    <2>2. s[a] * d[by] \in Nat
      BY <2>1 DEF Positive
    <2>3. lround(s[a] * d[by], s[by]) \in Nat
      BY <2>1, <2>2, RoundFacts
    <2>4. a = by => lround(s[a] * d[by], s[by]) = d[a]
      <3>1. a = by => s[a] * d[by] = d[a] * s[by]
        BY <2>1 DEF Positive
      <3> QED BY <2>1, <2>2, <3>1, RoundFacts DEF Positive
    <2> HIDE DEF by
    <2> QED BY <2>1, <2>3, <2>4 DEF Larger, Positive
  <1>4. ASSUME NEW a \in Axes
        PROVE  /\ size[a] \in Positive /\ (yuv => size[a] % 2 = 0) /\ (a = by => size[a] = d[a])
               /\ wish(a) <= d[a] => size[a] <= d[a]
               /\ wish(a) >= d[a] => size[a] >= d[a]
    <2>1. d[a] \in Positive /\ size[a] = Even(wish(a), yuv)
      BY <1>1
    <2>2. wish(a) \in Positive /\ (a = by => wish(a) = d[a])
      BY <1>3
    <2> HIDE DEF wish, size
    <2> QED BY <2>1, <2>2, EvenSizes
  <1>5. CASE mode = "letterbox"
    <2>1. box = [size |-> size,
                 at |-> [a \in Axes |-> IF yuv THEN pad(a) - (pad(a) % 2) ELSE pad(a)]]
      BY <1>5 DEF resize_geometry, Decides, Even
    <2>2. ASSUME NEW a \in Axes, a # by PROVE s[a] * d[by] <= d[a] * s[by]
      <3>1. CASE d["x"] * s["y"] <= d["y"] * s["x"]
        <4>1. by = "x" /\ a = "y" BY <1>5, <2>2, <3>1 DEF Decides, Axes
        <4> QED BY <1>1, <3>1, <4>1 DEF Positive
      <3>2. CASE ~(d["x"] * s["y"] <= d["y"] * s["x"])
        <4>1. by = "y" /\ a = "x" BY <1>5, <2>2, <3>2 DEF Decides, Axes
        <4>2. "x" \in Axes /\ "y" \in Axes BY DEF Axes
        <4> QED BY <1>1, <3>2, <4>1, <4>2 DEF Positive
      <3> QED BY <3>1, <3>2
    <2>3. ASSUME NEW a \in Axes PROVE wish(a) <= d[a]
      <3>1. CASE a = by BY <1>1, <1>3, <3>1 DEF Positive
      <3>2. CASE a # by
        <4>1. s[a] * d[by] \in Nat /\ d[a] \in Nat /\ s[by] \in Positive
          BY <1>1 DEF Positive
        <4>2. lround(s[a] * d[by], s[by]) <= d[a]
          BY <2>2, <3>2, <4>1, RoundFacts
        <4> HIDE DEF by
        <4> QED BY <1>1, <1>3, <1>5, <4>2 DEF Larger, Positive
      <3> QED BY <3>1, <3>2
    <2>4. ASSUME NEW a \in Axes
          PROVE  /\ box.size[a] = size[a] /\ box.size[a] \in Positive /\ box.at[a] \in Nat
                 /\ box.at[a] + box.size[a] <= d[a]
                 /\ yuv => box.at[a] % 2 = 0 /\ box.size[a] % 2 = 0
      <3>1. size[a] \in Positive /\ size[a] <= d[a] /\ d[a] \in Positive /\ (yuv => size[a] % 2 = 0)
        BY <1>1, <1>4, <2>3
      <3>2. box.size[a] = size[a] /\ box.at[a] = IF yuv THEN pad(a) - (pad(a) % 2) ELSE pad(a)
        BY <2>1
      <3> HIDE DEF size, box
      <3> QED BY <3>1, <3>2 DEF Positive
    <2>5. d[by] = box.size[by]
      BY <1>1, <1>4, <2>4
    <2> HIDE DEF box, by
    <2> QED BY <1>1, <1>5, <2>4, <2>5 DEF BoxOk
  <1>6. CASE mode = "crop"
    <2>1. box = [size |-> size, at |-> [a \in Axes |-> (size[a] - d[a]) \div 2]]
      BY <1>6 DEF resize_geometry, Decides, Even
    <2>2. ASSUME NEW a \in Axes PROVE size[a] >= d[a]
      <3>1. wish(a) >= d[a]
        <4> HIDE DEF by
        <4> QED BY <1>1, <1>3, <1>6 DEF Larger, Positive
      <3> QED BY <1>4, <3>1
    <2>3. ASSUME NEW a \in Axes
          PROVE  /\ box.size[a] = size[a] /\ box.size[a] \in Positive /\ box.at[a] \in Nat
                 /\ box.at[a] + d[a] <= box.size[a]
      <3>1. size[a] \in Positive /\ size[a] >= d[a] /\ d[a] \in Positive
        BY <1>1, <1>4, <2>2
      <3>2. box.size[a] = size[a] /\ box.at[a] = (size[a] - d[a]) \div 2
        BY <2>1
      <3> HIDE DEF size, box
      <3> QED BY <3>1, <3>2 DEF Positive
    <2>4. d[by] = box.size[by]
      BY <1>1, <1>4, <2>3
    <2> HIDE DEF box, by
    <2> QED BY <1>1, <1>6, <2>3, <2>4 DEF BoxOk
  <1> QED BY <1>2, <1>5, <1>6 DEF Modes

-----------------------------------------------------------------------------
(* FrameGeometry: transforms *)

\* A transform that starts at the original and takes its corners to pts.
MapsTo(t, pts) ==
    /\ t.src = gorig
    /\ \A a \in Axes : t.scale[a] \in Fracs /\ t.origin[a] \in Fracs
    /\ \A a \in Axes, i \in 1 .. 2 : Same(Takes(t, a, Corner(a, i)), pts[a][i])

\* An answer that misses them by less than a pixel.
Misses(m, pts, a, i) ==
    LET said == Plus(Times(Corner(a, i), m.scale[a]), Frac(m.origin[a]))
        err == Plus(pts[a][i], Times(Frac(-1), said))
    IN err[1] < err[2] /\ -err[1] < err[2]
Answers(m, pts) == m.src = gorig /\ \A a \in Axes, i \in 1 .. 2 : Misses(m, pts, a, i)

\* Positions are fractions of a pixel.
Located(pts) == \A a \in Axes, i \in 1 .. 2 : pts[a][i] \in Fracs

\* The inductive invariant: a frame without a transform is the original.
GeoInv ==
    /\ gsize \in Sizes /\ gorig \in Sizes /\ Located(gpts)
    /\ gtr = {} => gsize = gorig /\ \A a \in Axes, i \in 1 .. 2 : gpts[a][i] = Corner(a, i)
    /\ \A t \in gtr : MapsTo(t, gpts)
    /\ \A m \in gmeta : Answers(m, gpts)
    /\ BoxFits

\* The corners of the original are positions.
LEMMA CornerType ==
    ASSUME gorig \in Sizes, NEW a \in Axes, NEW i \in 1 .. 2
    PROVE  Corner(a, i) \in Fracs
  BY DEF Corner, Sizes, Positive, Frac, Fracs

\* One step more: the transform of the whole way is the composition.
LEMMA ChainFacts ==
    ASSUME GeoInv, NEW step, step.src = gsize,
           \A a \in Axes : step.scale[a] \in Fracs /\ step.origin[a] \in Fracs,
           NEW pts, \A a \in Axes, i \in 1 .. 2 :
              pts[a][i] = Plus(Times(gpts[a][i], step.scale[a]), step.origin[a])
    PROVE  /\ Located(pts) /\ chained_transform(gtr, step) # {}
           /\ \A t \in chained_transform(gtr, step) : MapsTo(t, pts)
  <1>1. \A a \in Axes, i \in 1 .. 2 : gpts[a][i] \in Fracs /\ Corner(a, i) \in Fracs
    BY CornerType DEF GeoInv, Located
  <1>2. Located(pts)
    BY <1>1, FracTypes DEF Located
  <1>3. CASE gtr = {}
    <2>1. chained_transform(gtr, step) = {step}
      BY <1>3 DEF chained_transform
    <2>2. \A a \in Axes, i \in 1 .. 2 : Takes(step, a, Corner(a, i)) = pts[a][i]
      BY <1>3 DEF GeoInv, Takes
    <2>3. MapsTo(step, pts)
      BY <1>2, <1>3, <2>2, SameRefl DEF MapsTo, GeoInv, Located
    <2> QED BY <1>2, <2>1, <2>3
  <1>4. CASE gtr # {}
    <2> DEFINE t == Value(gtr)
               u == compose_transform(t, step)
    <2>1. t \in gtr /\ chained_transform(gtr, step) = {u}
      BY <1>4 DEF chained_transform, Value
    <2>2. MapsTo(t, gpts)
      BY <2>1 DEF GeoInv
    <2>3. u.src = t.src /\ \A a \in Axes : /\ u.scale[a] = Times(t.scale[a], step.scale[a])
                                          /\ u.origin[a] = Plus(Times(t.origin[a], step.scale[a]), step.origin[a])
      BY DEF compose_transform
    <2> HIDE DEF t, u
    <2>4. \A a \in Axes : /\ t.scale[a] \in Fracs /\ t.origin[a] \in Fracs
                          /\ u.scale[a] \in Fracs /\ u.origin[a] \in Fracs
                          /\ Times(t.origin[a], step.scale[a]) \in Fracs
      BY <2>2, <2>3, FracTypes DEF MapsTo
    <2>5. ASSUME NEW a \in Axes, NEW i \in 1 .. 2
          PROVE  Same(Takes(u, a, Corner(a, i)), pts[a][i])
      <3> DEFINE p == Corner(a, i)
                 P == gpts[a][i]
                 ts == t.scale[a]
                 to == t.origin[a]
                 ss == step.scale[a]
                 so == step.origin[a]
                 way == Times(Times(p, ts), ss)
      <3>1. p \in Fracs /\ P \in Fracs /\ ts \in Fracs /\ to \in Fracs /\ ss \in Fracs /\ so \in Fracs
        BY <1>1, <2>4
      <3>2. Same(Plus(Times(p, ts), to), P)
        BY <2>2 DEF MapsTo, Takes
      <3>3. Takes(u, a, p) = Plus(Times(p, Times(ts, ss)), Plus(Times(to, ss), so))
        BY <2>3 DEF Takes
      <3>4. pts[a][i] = Plus(Times(P, ss), so)
        OBVIOUS
      <3> HIDE DEF p, P, ts, to, ss, so
      <3>5. /\ Times(p, ts) \in Fracs /\ way \in Fracs /\ Times(to, ss) \in Fracs
            /\ Plus(Times(p, ts), to) \in Fracs /\ Times(P, ss) \in Fracs
        BY <3>1, FracTypes
      <3>6. Takes(u, a, p) = Plus(Plus(way, Times(to, ss)), so)
        BY <3>1, <3>3, <3>5, Associate
      <3> HIDE DEF way
      <3>7. Same(Times(Plus(Times(p, ts), to), ss), Plus(way, Times(to, ss)))
        BY <3>1, <3>5, Distribute DEF way
      <3>8. Same(Times(Plus(Times(p, ts), to), ss), Times(P, ss))
        BY <3>1, <3>2, <3>5, TimesSame
      <3>9. Same(Plus(way, Times(to, ss)), Times(P, ss))
        <4>1. Same(Plus(way, Times(to, ss)), Times(Plus(Times(p, ts), to), ss))
          BY <3>7 DEF Same
        <4>2. Plus(way, Times(to, ss)) \in Fracs /\ Times(Plus(Times(p, ts), to), ss) \in Fracs
          BY <3>1, <3>5, FracTypes
        <4> QED BY <3>5, <3>8, <4>1, <4>2, SameTrans
      <3>10. Plus(way, Times(to, ss)) \in Fracs
        BY <3>5, FracTypes
      <3>11. Same(Plus(Plus(way, Times(to, ss)), so), Plus(Times(P, ss), so))
        BY <3>1, <3>5, <3>9, <3>10, PlusSame
      <3> QED BY <3>4, <3>6, <3>11 DEF p
    <2>6. MapsTo(u, pts)
      BY <2>2, <2>3, <2>4, <2>5 DEF MapsTo
    <2> QED BY <1>2, <2>1, <2>6
  <1> QED BY <1>3, <1>4

\* What cutting a fraction to a whole number loses.
LEMMA TruncFacts ==
    ASSUME NEW p \in Fracs
    PROVE  /\ Trunc(p) \in Int
           /\ p[1] - Trunc(p) * p[2] < p[2] /\ Trunc(p) * p[2] - p[1] < p[2]
  <1> DEFINE a == p[1]
             b == p[2]
  <1>1. a \in Int /\ b \in Positive /\ b \in Int
    BY FracParts DEF Positive
  <1>2. CASE a >= 0
    <2>1. Trunc(p) = a \div b
      BY <1>2 DEF Trunc
    <2>2. a \div b \in Int /\ b * (a \div b) <= a /\ a < b * (a \div b) + b
      BY <1>1, DivFacts
    <2> HIDE DEF a, b
    <2>3. (a \div b) * b = b * (a \div b) /\ b * (a \div b) \in Int /\ b > 0
      BY <1>1, <2>2 DEF Positive
    <2>4. Trunc(p) \in Int /\ a - Trunc(p) * b < b /\ Trunc(p) * b - a < b
      BY <1>1, <2>1, <2>2, <2>3
    <2> QED BY <2>4 DEF a, b
  <1>3. CASE a < 0
    <2> DEFINE q == (-a) \div b
    <2>1. Trunc(p) = -q
      BY <1>1, <1>3 DEF Trunc
    <2>2. q \in Int /\ b * q <= -a /\ -a < b * q + b
      BY <1>1, DivFacts
    <2> HIDE DEF a, b, q
    <2>3. (-q) * b = -(b * q) /\ b * q \in Int /\ b > 0 /\ -q \in Int
      BY <1>1, <2>2 DEF Positive
    <2>4. Trunc(p) \in Int /\ a - Trunc(p) * b < b /\ Trunc(p) * b - a < b
      BY <1>1, <2>1, <2>2, <2>3
    <2> QED BY <2>4 DEF a, b
  <1> QED BY <1>1, <1>2, <1>3

\* The answer of preprocessing.
LEMMA MetaFacts ==
    ASSUME gorig \in Sizes, NEW pts, Located(pts), NEW tr, \A t \in tr : MapsTo(t, pts), NEW d,
           tr = {} => d = gorig /\ \A a \in Axes, i \in 1 .. 2 : pts[a][i] = Corner(a, i)
    PROVE  \A m \in Meta(tr, d) : Answers(m, pts)
  <1>1. CASE tr = {}
    <2> SUFFICES ASSUME NEW m, m = [src |-> d, scale |-> [a \in Axes |-> Frac(1)], origin |-> [a \in Axes |-> 0]]
                 PROVE  Answers(m, pts)
      BY <1>1 DEF Meta
    <2>1. ASSUME NEW a \in Axes, NEW i \in 1 .. 2 PROVE Misses(m, pts, a, i)
      <3>1. m.scale[a] = <<1, 1>> /\ m.origin[a] = 0 /\ pts[a][i] = Corner(a, i)
        BY <1>1 DEF Frac
      <3> DEFINE c == Corner(a, i)
      <3>2. c[1] \in Int /\ c[2] \in Nat \ {0} /\ c = <<c[1], c[2]>>
        BY CornerType, FracParts
      <3> HIDE DEF c
      <3>3. Plus(Times(c, m.scale[a]), Frac(m.origin[a])) = c
        BY <3>1, <3>2 DEF Plus, Times, Frac
      <3>4. Plus(c, Times(Frac(-1), c)) = <<c[1] * c[2] + (-c[1]) * c[2], c[2] * c[2]>>
        BY <3>2 DEF Plus, Times, Frac
      <3>5. c[1] * c[2] + (-c[1]) * c[2] = 0 /\ c[2] * c[2] > 0
        BY <3>2, ProductType
      <3> QED BY <3>1, <3>3, <3>4, <3>5 DEF Misses, c
    <2> QED BY <1>1, <2>1 DEF Answers
  <1>2. CASE tr # {}
    <2> SUFFICES ASSUME NEW t \in tr
                 PROVE  Answers([src |-> t.src, scale |-> t.scale, origin |-> transform_origin(t)], pts)
      BY <1>2 DEF Meta
    <2> DEFINE m == [src |-> t.src, scale |-> t.scale, origin |-> transform_origin(t)]
    <2>1. MapsTo(t, pts)
      OBVIOUS
    <2>2. ASSUME NEW a \in Axes, NEW i \in 1 .. 2 PROVE Misses(m, pts, a, i)
      <3> DEFINE C == Times(Corner(a, i), t.scale[a])
                 O == t.origin[a]
                 P == pts[a][i]
                 T == Trunc(O)
      <3>1. C \in Fracs /\ O \in Fracs /\ P \in Fracs /\ Same(Plus(C, O), P)
        <4>1. Corner(a, i) \in Fracs /\ t.scale[a] \in Fracs /\ O \in Fracs /\ P \in Fracs
          BY <2>1, CornerType DEF MapsTo, Located
        <4>2. Same(Plus(C, O), P)
          BY <2>1 DEF MapsTo, Takes
        <4> QED BY <4>1, <4>2, FracTypes
      <3>2. m.scale[a] = t.scale[a] /\ m.origin[a] = T
        BY DEF transform_origin
      <3> HIDE DEF m
      <3> SUFFICES LET err == Plus(P, Times(Frac(-1), Plus(C, Frac(T))))
                   IN  err[1] < err[2] /\ -err[1] < err[2]
        BY <3>2 DEF Misses
      <3> HIDE DEF C, O, P, T
      <3> DEFINE n == C[1]  e == C[2]  x == O[1]  y == O[2]  v == P[1]  w == P[2]
      <3>3. /\ n \in Int /\ e \in Positive /\ x \in Int /\ y \in Positive /\ v \in Int /\ w \in Positive
            /\ T \in Int /\ x - T * y < y /\ T * y - x < y
        BY <3>1, FracParts, TruncFacts DEF T, Positive
      <3>4. (n * y + x * e) * w = v * (e * y)
        BY <3>1 DEF Same, Plus
      <3> DEFINE e1 == v * e + (-(n + T * e)) * w
                 e2 == w * e
      <3>5. Plus(P, Times(Frac(-1), Plus(C, Frac(T)))) = <<e1, e2>>
        <4>1. Plus(C, Frac(T)) = <<n + T * e, e>>
          BY <3>3 DEF Plus, Frac, Positive
        <4>2. Times(Frac(-1), Plus(C, Frac(T))) = <<-(n + T * e), e>>
          BY <3>3, <4>1 DEF Times, Frac, Positive
        <4> QED BY <4>2 DEF Plus
      <3> HIDE DEF n, e, x, y, v, w, C, O, P, T
      <3>6. e1 \in Int /\ e2 \in Positive /\ e * w \in Positive
        BY <3>3, ProductType DEF Positive
      <3>7. e1 * y = (x - T * y) * (e * w) /\ (-e1) * y = (T * y - x) * (e * w) /\ e2 * y = y * (e * w)
        BY <3>3, <3>4 DEF Positive
      <3> HIDE DEF e1, e2
      <3>8. x - T * y \in Int /\ T * y - x \in Int /\ y \in Int /\ -e1 \in Int /\ e2 \in Int
        BY <3>3, <3>6 DEF Positive
      <3>9. e1 * y < e2 * y /\ (-e1) * y < e2 * y
        BY <3>3, <3>6, <3>7, <3>8, Order
      <3>10. e1 < e2 /\ -e1 < e2
        BY <3>3, <3>6, <3>8, <3>9, Order
      <3> QED BY <3>5, <3>10
    <2> QED BY <2>1, <2>2 DEF Answers, MapsTo
  <1> QED BY <1>1, <1>2

-----------------------------------------------------------------------------
(* FrameGeometry: the steps *)

\* The sizes that frames have or are given.
LEMMA SizeFacts ==
    ASSUME NEW s \in GeoSizes
    PROVE  OnAxes(s) \in Sizes /\ \A a \in Axes : OnAxes(s)[a] - 1 \in Nat
  <1>1. s[1] \in Positive /\ s[2] \in Positive
    BY GeoAssumption DEF Positive
  <1> QED BY <1>1 DEF OnAxes, Sizes, Positive

\* What a resize does to the pixels, whichever leg it takes: the content is
\* scaled to the box and put in its place, and the transform says so.
LEMMA ResizeFacts ==
    ASSUME GeoInv, NEW d \in Sizes, NEW mode \in Modes, NEW dsp \in BOOLEAN, Resizable(d, dsp),
           NEW r, r = resized(d, mode, dsp)
    PROVE  /\ Located(r.pts) /\ r.tr # {} /\ \A t \in r.tr : MapsTo(t, r.pts)
           /\ \E box : /\ r.box = {[mode |-> mode, size |-> box.size, at |-> box.at]}
                       /\ BoxOk(box, d, mode, is_yuv_format(gfmt))
           /\ r.aligned \/ mode = "crop"
  <1> DEFINE yuv == is_yuv_format(gfmt)
             box == resize_geometry(gsize, d, mode, yuv)
             step == resize_step(gsize, d, mode, box)
  <1>1. BoxOk(box, d, mode, yuv)
    <2>1. yuv \in BOOLEAN /\ (yuv => \A a \in Axes : d[a] % 2 = 0)
      BY DEF Resizable, is_yuv_format
    <2> QED BY <2>1, BoxFacts DEF GeoInv
  <1>2. /\ r.tr = chained_transform(gtr, step) /\ r.pts = resize_packed(gsize, mode, box)
        /\ r.box = {[mode |-> mode, size |-> box.size, at |-> box.at]}
        /\ r.aligned \in BOOLEAN
        /\ r.aligned \/ (yuv /\ ~\A a \in Axes : box.at[a] % 2 = 0 /\ box.size[a] % 2 = 0)
    BY DEF resized, hw_resize, resize_yuv
  <1> HIDE DEF box
  <1>3. ASSUME NEW a \in Axes
        PROVE  /\ step.scale[a] = <<box.size[a], gsize[a]>>
               /\ step.origin[a] = Frac(IF mode = "crop" THEN -box.at[a] ELSE box.at[a])
               /\ step.scale[a] \in Fracs /\ step.origin[a] \in Fracs
    <2>1. box.size[a] \in Int /\ box.at[a] \in Int /\ -box.at[a] \in Int /\ gsize[a] \in Nat \ {0}
      BY <1>1 DEF BoxOk, GeoInv, Sizes, Positive
    <2> QED BY <2>1 DEF resize_step, Frac, Fracs
  <1>4. step.src = gsize
    BY DEF resize_step
  <1> HIDE DEF step
  <1>5. \A a \in Axes, i \in 1 .. 2 : r.pts[a][i] = Plus(Times(gpts[a][i], step.scale[a]), step.origin[a])
    BY <1>2, <1>3 DEF resize_packed, Copied, Scaled
  <1>6. Located(r.pts) /\ r.tr # {} /\ \A t \in r.tr : MapsTo(t, r.pts)
    BY <1>2, <1>3, <1>4, <1>5, ChainFacts
  <1>7. r.aligned \/ mode = "crop"
    BY <1>1, <1>2 DEF BoxOk
  <1> QED BY <1>1, <1>2, <1>6, <1>7

\* The box of a resize fits the frame it makes.
LEMMA ResizedFits ==
    ASSUME GeoInv, NEW d \in Sizes, NEW mode \in Modes, NEW dsp \in BOOLEAN, Resizable(d, dsp),
           NEW r, r = resized(d, mode, dsp), gbox' = r.box, gsize' = d,
           gchroma' = ChromaAfter(r.aligned, mode)
    PROVE  BoxFits'
  <1>1. PICK box : /\ r.box = {[mode |-> mode, size |-> box.size, at |-> box.at]}
                   /\ BoxOk(box, d, mode, is_yuv_format(gfmt))
    BY ResizeFacts
  <1>2. gchroma' # "lost"
    <2>1. r.aligned \/ mode = "crop" BY ResizeFacts
    <2> QED BY <2>1 DEF ChromaAfter, GeoInv, BoxFits
  <1>3. ASSUME NEW b \in gbox'
        PROVE  LET inner == IF b.mode = "crop" THEN gsize' ELSE b.size
                   outer == IF b.mode = "crop" THEN b.size ELSE gsize'
               IN  /\ \A a \in Axes : b.at[a] >= 0 /\ b.at[a] + inner[a] <= outer[a]
                   /\ \E a \in Axes : inner[a] = outer[a]
    <2>1. b.mode = mode /\ b.size = box.size /\ b.at = box.at
      BY <1>1
    <2> QED BY <1>1, <2>1 DEF BoxOk
  <1> QED BY <1>2, <1>3 DEF BoxFits

\* A crop keeps the invariant.
LEMMA CropStep ==
    ASSUME GeoInv, NEW c \in Sizes, NEW at, \A a \in Axes : at[a] \in Nat, crop(c, at)
    PROVE  GeoInv'
  <1> DEFINE step == [src |-> gsize, scale |-> [a \in Axes |-> Frac(1)],
                      origin |-> [a \in Axes |-> Frac(-at[a])]]
  <1>1. /\ gtr' = chained_transform(gtr, step) /\ gsize' = c /\ gbox' = {} /\ gmeta' = {}
        /\ UNCHANGED <<gorig, gchroma>>
        /\ gpts' = [a \in Axes |-> [i \in 1 .. 2 |-> Plus(gpts[a][i], Frac(-at[a]))]]
    BY DEF crop
  <1>2. \A a \in Axes : /\ step.scale[a] = <<1, 1>> /\ step.origin[a] = Frac(-at[a])
                        /\ step.scale[a] \in Fracs /\ step.origin[a] \in Fracs
    BY DEF Frac, Fracs
  <1>3. step.src = gsize
    OBVIOUS
  <1> HIDE DEF step
  <1>4. ASSUME NEW a \in Axes, NEW i \in 1 .. 2
        PROVE  gpts'[a][i] = Plus(Times(gpts[a][i], step.scale[a]), step.origin[a])
    <2>1. gpts[a][i] \in Fracs BY DEF GeoInv, Located
    <2>2. Times(gpts[a][i], step.scale[a]) = gpts[a][i]
      BY <1>2, <2>1, FracParts DEF Times
    <2> QED BY <1>1, <1>2, <2>2
  <1>5. Located(gpts') /\ gtr' # {} /\ \A t \in gtr' : MapsTo(t, gpts')
    BY <1>1, <1>2, <1>3, <1>4, ChainFacts
  <1>6. BoxFits'
    BY <1>1 DEF GeoInv, BoxFits
  <1>7. Located(gpts)' /\ \A t \in gtr' : MapsTo(t, gpts)'
    BY <1>1, <1>5 DEF Located, MapsTo, Corner
  <1> QED BY <1>1, <1>5, <1>6, <1>7 DEF GeoInv

\* A resize keeps the invariant.
LEMMA ResizeStep ==
    ASSUME GeoInv, NEW d \in Sizes, NEW mode \in Modes, NEW dsp \in BOOLEAN, resize(d, mode, dsp)
    PROVE  GeoInv'
  <1> DEFINE r == resized(d, mode, dsp)
  <1>1. /\ gbox' = r.box /\ gtr' = r.tr /\ gpts' = r.pts /\ gchroma' = ChromaAfter(r.aligned, mode)
        /\ gsize' = d /\ gmeta' = {} /\ gorig' = gorig /\ Resizable(d, dsp)
    BY DEF resize
  <1>2. Located(r.pts) /\ r.tr # {} /\ \A t \in r.tr : MapsTo(t, r.pts)
    BY <1>1, ResizeFacts
  <1>3. BoxFits'
    BY <1>1, ResizedFits
  <1> HIDE DEF r
  <1>4. Located(gpts)' /\ \A t \in gtr' : MapsTo(t, gpts)'
    BY <1>1, <1>2 DEF Located, MapsTo, Corner
  <1> QED BY <1>1, <1>2, <1>3, <1>4 DEF GeoInv

\* Preprocessing keeps the invariant.
LEMMA RunStep ==
    ASSUME GeoInv, NEW d \in Sizes, NEW mode \in Modes, NEW dsp \in BOOLEAN, run(d, mode, dsp)
    PROVE  GeoInv'
  <1>0. gmeta = {} /\ gsize' = d /\ gorig' = gorig
    BY DEF run
  <1>1. CASE gsize = d
    <2>1. gmeta' = Meta(gtr, d) /\ UNCHANGED <<gbox, gtr, gpts, gchroma, gsize>>
      BY <1>0, <1>1 DEF run
    <2>2. \A m \in gmeta' : Answers(m, gpts)
      BY <1>1, <2>1, MetaFacts DEF GeoInv
    <2>3. \A m \in gmeta' : Answers(m, gpts)'
      BY <1>0, <2>1, <2>2 DEF Answers, Misses, Corner
    <2>4. Located(gpts)' /\ (\A t \in gtr' : MapsTo(t, gpts)') /\ BoxFits'
      BY <1>0, <2>1 DEF GeoInv, Located, MapsTo, Corner, BoxFits
    <2>5. gtr' = {} => gsize' = gorig' /\ \A a \in Axes, i \in 1 .. 2 : gpts'[a][i] = Corner(a, i)'
      BY <1>0, <2>1 DEF GeoInv, Corner
    <2> QED BY <1>0, <2>1, <2>3, <2>4, <2>5 DEF GeoInv
  <1>2. CASE gsize # d
    <2> DEFINE r == resized(d, mode, dsp)
    <2>1. /\ gbox' = r.box /\ gtr' = r.tr /\ gpts' = r.pts /\ gchroma' = ChromaAfter(r.aligned, mode)
          /\ gmeta' = Meta(r.tr, d) /\ Resizable(d, dsp)
      BY <1>2 DEF run
    <2>2. Located(r.pts) /\ r.tr # {} /\ \A t \in r.tr : MapsTo(t, r.pts)
      BY <2>1, ResizeFacts
    <2>3. BoxFits'
      BY <1>0, <2>1, ResizedFits
    <2> HIDE DEF r
    <2>4. \A m \in Meta(r.tr, d) : Answers(m, r.pts)
      BY <2>2, MetaFacts DEF GeoInv
    <2>5. Located(gpts)' /\ (\A t \in gtr' : MapsTo(t, gpts)') /\ \A m \in gmeta' : Answers(m, gpts)'
      BY <1>0, <2>1, <2>2, <2>4 DEF Located, MapsTo, Corner, Answers, Misses
    <2> QED BY <1>0, <2>1, <2>2, <2>3, <2>5 DEF GeoInv
  <1> QED BY <1>1, <1>2

\* The invariant holds of the original frame.
LEMMA GeoInitial == GeoInit => GeoInv
  <1> SUFFICES ASSUME GeoInit PROVE GeoInv
    OBVIOUS
  <1>1. gorig \in Sizes /\ gsize = gorig
    BY SizeFacts DEF GeoInit
  <1>2. \A a \in Axes, i \in 1 .. 2 : gpts[a][i] = Corner(a, i)
    BY DEF GeoInit, Corner
  <1>3. Located(gpts)
    BY <1>1, <1>2, CornerType DEF Located
  <1> QED BY <1>1, <1>2, <1>3 DEF GeoInv, GeoInit, BoxFits

\* The invariant is inductive.
LEMMA GeoStep == GeoInv /\ [GeoNext]_gvars => GeoInv'
  <1> SUFFICES ASSUME GeoInv, [GeoNext]_gvars PROVE GeoInv'
    OBVIOUS
  <1>1. ASSUME NEW s \in GeoSizes, NEW t \in GeoSizes,
               crop(OnAxes(s), [a \in Axes |-> OnAxes(t)[a] - 1])
        PROVE  GeoInv'
    <2>1. \A a \in Axes : [b \in Axes |-> OnAxes(t)[b] - 1][a] \in Nat
      BY SizeFacts
    <2> QED BY <1>1, <2>1, SizeFacts, CropStep
  <1>2. ASSUME NEW s \in GeoSizes, NEW mode \in Modes, NEW dsp \in BOOLEAN,
               resize(OnAxes(s), mode, dsp) \/ run(OnAxes(s), mode, dsp)
        PROVE  GeoInv'
    BY <1>2, SizeFacts, ResizeStep, RunStep
  <1>3. ASSUME NEW s \in GeoSizes, NEW dsp \in BOOLEAN, passthrough_geometry(OnAxes(s), dsp)
        PROVE  GeoInv'
    BY <1>3, SizeFacts, RunStep DEF passthrough_geometry, Modes
  <1>4. CASE UNCHANGED gvars
    BY <1>4 DEF gvars, GeoInv, Located, MapsTo, Corner, Answers, Misses, BoxFits
  <1> QED BY <1>1, <1>2, <1>3, <1>4 DEF GeoNext

\* For every frame size, target size, mode, leg and number of steps: the
\* transform of a frame takes each corner of the original to where its pixels
\* are, the answer of preprocessing misses it by less than a pixel, and every
\* content box fits its frame (geometry.hpp, frame.cpp, preprocess.cpp).
THEOREM GeometryIsSound == GeoSpec => []GeometrySound
  <1>1. GeoInv => GeometrySound
    BY DEF GeoInv, GeometrySound, MapsBack, MapsTo, Answers, Misses
  <1> QED BY <1>1, GeoInitial, GeoStep, PTL DEF GeoSpec

-----------------------------------------------------------------------------
(* OverlayFragments *)

Windows == Int \X Int \X Int \X Int

\* A window around another.
Around(e, x) == e[1] <= x[1] /\ e[2] <= x[2] /\ x[3] <= e[3] /\ x[4] <= e[4]

OvTypes ==
    /\ oshapes \in Seq(OvShapes) /\ obatch \in OvBatches
    /\ oextent \in Windows /\ ocanvas \in Windows

Nothing == <<OvW, OvH, 0, 0>>

\* The extent the fragments are cut from is around the shapes gathered so far,
\* and the one canvas's is around it, and around the empty one.
OvInv ==
    /\ OvTypes
    /\ \A i \in DOMAIN oshapes : Around(oextent, Extent(oshapes[i]))
    /\ Around(ocanvas, oextent) /\ Around(ocanvas, Nothing)

\* What std::min and std::max do with integers.
LEMMA Clamps ==
    ASSUME NEW a \in Int, NEW b \in Int
    PROVE  /\ min(a, b) \in Int /\ min(a, b) <= a /\ min(a, b) <= b
           /\ min(a, b) = a \/ min(a, b) = b
           /\ max(a, b) \in Int /\ a <= max(a, b) /\ b <= max(a, b)
           /\ max(a, b) = a \/ max(a, b) = b
  BY DEF min, max

\* The same of a number that is known to be the smaller or the larger one.
LEMMA Clamped ==
    ASSUME NEW a \in Int, NEW b \in Int, NEW c
    PROVE  /\ c = max(a, b) => c \in Int /\ a <= c /\ b <= c
           /\ c = min(a, b) => c \in Int /\ c <= a /\ c <= b
  BY Clamps

\* A shape's numbers, and how its extent lies around it.
LEMMA ExtentFacts ==
    ASSUME OvAssumption, NEW s \in OvShapes
    PROVE  /\ s.x1 \in Int /\ s.y1 \in Int /\ s.x2 \in Int /\ s.y2 \in Int
           /\ s.x1 <= s.x2 /\ s.y1 <= s.y2 /\ s.cap \in Nat
           /\ Margin \in Nat /\ Margin = OvThickness + 1 /\ Strip(s) \in Nat
           /\ Extent(s) \in Windows
           /\ Extent(s)[1] <= s.x1 - Margin /\ Extent(s)[2] <= s.y1 - Margin - Strip(s)
           /\ s.x2 + Margin <= Extent(s)[3] /\ s.y2 + Margin <= Extent(s)[4]
           /\ s.kind = "box" => Extent(s) = <<s.x1 - Margin, s.y1 - Margin - Strip(s),
                                              s.x2 + Margin, s.y2 + Margin>>
  <1>1. /\ s.x1 \in Int /\ s.y1 \in Int /\ s.x2 \in Int /\ s.y2 \in Int
        /\ s.x1 <= s.x2 /\ s.y1 <= s.y2 /\ s.cap \in Nat
    BY DEF OvAssumption
  <1>2. Margin \in Nat /\ Margin = OvThickness + 1 BY DEF Margin, OvAssumption
  <1>3. Strip(s) \in Nat BY DEF Strip, OvAssumption
  <1> DEFINE r1 == Reach(s)[1]
             r2 == Reach(s)[2]
             r3 == Reach(s)[3]
             r4 == Reach(s)[4]
  <1>4. /\ r1 \in Int /\ r2 \in Int /\ r3 \in Int /\ r4 \in Int
        /\ r1 <= s.x1 /\ r2 <= s.y1 /\ s.x2 <= r3 /\ s.y2 <= r4
    <2>1. CASE s.kind = "box" BY <1>1, <2>1 DEF Reach
    <2>2. CASE s.kind # "box"
      <3>1. r1 = min(OvW, s.x1) /\ r2 = min(OvH, s.y1) /\ r3 = max(0, s.x2) /\ r4 = max(0, s.y2)
        BY <2>2 DEF Reach
      <3>2. OvW \in Int /\ OvH \in Int /\ 0 \in Int BY DEF OvAssumption
      <3> HIDE DEF r1, r2, r3, r4
      <3> QED BY <1>1, <3>1, <3>2, Clamps
    <2> QED BY <2>1, <2>2
  <1>5. s.kind = "box" => r1 = s.x1 /\ r2 = s.y1 /\ r3 = s.x2 /\ r4 = s.y2
    BY DEF Reach
  <1>6. Extent(s) = <<r1 - Margin, r2 - Margin - Strip(s), r3 + Margin, r4 + Margin>>
    BY DEF Extent
  <1> HIDE DEF r1, r2, r3, r4
  <1> QED BY <1>1, <1>2, <1>3, <1>4, <1>5, <1>6 DEF Windows

\* Widening by a window puts it inside and leaves in what was, and no more.
LEMMA WidenedFacts ==
    ASSUME NEW e \in Windows, NEW x \in Windows
    PROVE  /\ Widened(e, x) \in Windows /\ Around(Widened(e, x), x) /\ Around(Widened(e, x), e)
           /\ \A c \in Windows : Around(c, e) /\ Around(c, x) => Around(c, Widened(e, x))
  <1>1. /\ e[1] \in Int /\ e[2] \in Int /\ e[3] \in Int /\ e[4] \in Int
        /\ x[1] \in Int /\ x[2] \in Int /\ x[3] \in Int /\ x[4] \in Int
    BY DEF Windows
  <1>2. Widened(e, x) = <<min(e[1], x[1]), min(e[2], x[2]), max(e[3], x[3]), max(e[4], x[4])>>
    BY DEF Widened
  <1>3. /\ min(e[1], x[1]) \in Int /\ min(e[1], x[1]) <= x[1] /\ min(e[1], x[1]) <= e[1]
        /\ min(e[2], x[2]) \in Int /\ min(e[2], x[2]) <= x[2] /\ min(e[2], x[2]) <= e[2]
        /\ max(e[3], x[3]) \in Int /\ x[3] <= max(e[3], x[3]) /\ e[3] <= max(e[3], x[3])
        /\ max(e[4], x[4]) \in Int /\ x[4] <= max(e[4], x[4]) /\ e[4] <= max(e[4], x[4])
    BY <1>1, Clamps
  <1>4. /\ min(e[1], x[1]) = e[1] \/ min(e[1], x[1]) = x[1]
        /\ min(e[2], x[2]) = e[2] \/ min(e[2], x[2]) = x[2]
        /\ max(e[3], x[3]) = e[3] \/ max(e[3], x[3]) = x[3]
        /\ max(e[4], x[4]) = e[4] \/ max(e[4], x[4]) = x[4]
    BY <1>1, Clamps
  <1>5. \A c \in Windows : Around(c, e) /\ Around(c, x) => Around(c, Widened(e, x))
    BY <1>2, <1>4 DEF Around
  <1> QED BY <1>2, <1>3, <1>5 DEF Windows, Around

\* A window around one that is around a third is around the third.
LEMMA AroundTransitive ==
    ASSUME NEW a \in Windows, NEW b \in Windows, NEW c \in Windows, Around(a, b), Around(b, c)
    PROVE  Around(a, c)
  <1>1. /\ a[1] \in Int /\ a[2] \in Int /\ a[3] \in Int /\ a[4] \in Int
        /\ b[1] \in Int /\ b[2] \in Int /\ b[3] \in Int /\ b[4] \in Int
        /\ c[1] \in Int /\ c[2] \in Int /\ c[3] \in Int /\ c[4] \in Int
    BY DEF Windows
  <1> QED BY <1>1 DEF Around

\* The one canvas grows by every shape, and is around a shape it grows by.
LEMMA GrownFacts ==
    ASSUME OvAssumption, NEW e \in Windows, NEW s \in OvShapes, Around(e, Nothing)
    PROVE  /\ Grown(e, s) \in Windows /\ Around(Grown(e, s), e)
           /\ Around(Grown(e, s), Extent(s))
  <1>1. CASE s.kind = "box"
    BY <1>1, ExtentFacts, WidenedFacts DEF Grown
  <1>2. CASE s.kind # "box"
    <2> DEFINE x == <<s.x1, s.y1, s.x2, s.y2>>
               w == Widened(e, x)
               r1 == min(OvW, s.x1)
               r2 == min(OvH, s.y1)
               r3 == max(0, s.x2)
               r4 == max(0, s.y2)
    <2>1. x \in Windows BY ExtentFacts DEF Windows
    <2>2. w \in Windows /\ Around(w, e) /\ Around(w, x) BY <2>1, WidenedFacts
    <2>3. Grown(e, s) = <<w[1] - Margin, w[2] - Margin, w[3] + Margin, w[4] + Margin>>
      BY <1>2 DEF Grown
    <2>4. Extent(s) = <<r1 - Margin, r2 - Margin - 0, r3 + Margin, r4 + Margin>>
      BY <1>2 DEF Extent, Reach, Strip, Captioned
    <2>5. /\ r1 \in Int /\ (r1 = OvW \/ r1 = s.x1) /\ r2 \in Int /\ (r2 = OvH \/ r2 = s.y1)
          /\ r3 \in Int /\ (r3 = 0 \/ r3 = s.x2) /\ r4 \in Int /\ (r4 = 0 \/ r4 = s.y2)
      <3>1. /\ s.x1 \in Int /\ s.y1 \in Int /\ s.x2 \in Int /\ s.y2 \in Int
            /\ OvW \in Int /\ OvH \in Int /\ 0 \in Int
        BY ExtentFacts DEF OvAssumption
      <3> QED BY <3>1, Clamps
    <2>6. /\ w[1] <= s.x1 /\ w[2] <= s.y1 /\ s.x2 <= w[3] /\ s.y2 <= w[4]
      BY <2>2 DEF Around
    <2> HIDE DEF w, r1, r2, r3, r4
    <2>7. w[1] \in Int /\ w[2] \in Int /\ w[3] \in Int /\ w[4] \in Int
          /\ e[1] \in Int /\ e[2] \in Int /\ e[3] \in Int /\ e[4] \in Int
          /\ OvW \in Int /\ OvH \in Int /\ Margin \in Nat
      BY <2>2, ExtentFacts DEF Windows, OvAssumption
    <2>8. /\ w[1] <= e[1] /\ w[2] <= e[2] /\ e[3] <= w[3] /\ e[4] <= w[4]
          /\ e[1] <= OvW /\ e[2] <= OvH /\ 0 <= e[3] /\ 0 <= e[4]
      BY <2>2 DEF Around, Nothing
    <2>9. w[1] <= r1 /\ w[2] <= r2 /\ r3 <= w[3] /\ r4 <= w[4]
      BY <2>5, <2>6, <2>7, <2>8
    <2>10. Grown(e, s) \in Windows /\ Around(Grown(e, s), e)
      BY <2>3, <2>7, <2>8 DEF Windows, Around
    <2>11. Around(Grown(e, s), Extent(s))
      BY <2>3, <2>4, <2>5, <2>7, <2>9 DEF Around
    <2> QED BY <2>10, <2>11
  <1> QED BY <1>1, <1>2

\* The empty overlay: nothing drawn, both extents empty.
LEMMA OvInitial == OvAssumption /\ OvInit => OvInv
  BY DEF OvAssumption, OvInit, OvInv, OvTypes, Windows, Around, Nothing

\* One more shape widens both extents, and the one canvas's at least as much.
LEMMA OvStep == OvAssumption /\ OvInv /\ [OvNext]_ovars => OvInv'
  <1> SUFFICES ASSUME OvAssumption, OvInv, [OvNext]_ovars PROVE OvInv'
    OBVIOUS
  <1>1. CASE UNCHANGED ovars
    <2>1. /\ oshapes' = oshapes /\ obatch' = obatch /\ oextent' = oextent /\ ocanvas' = ocanvas
      BY <1>1 DEF ovars
    <2>2. OvTypes' BY <2>1 DEF OvInv, OvTypes
    <2>3. (\A i \in DOMAIN oshapes : Around(oextent, Extent(oshapes[i])))'
      BY <2>1 DEF OvInv, Around, Extent, Reach, Strip, Captioned
    <2>4. (Around(ocanvas, oextent) /\ Around(ocanvas, Nothing))'
      BY <2>1 DEF OvInv, Around, Nothing
    <2> QED BY <2>2, <2>3, <2>4 DEF OvInv
  <1>2. ASSUME NEW s \in OvShapes, OvAdd(s) PROVE OvInv'
    <2>1. /\ oshapes \in Seq(OvShapes) /\ obatch \in OvBatches
          /\ oextent \in Windows /\ ocanvas \in Windows
          /\ oshapes' = Append(oshapes, s) /\ obatch' = obatch
          /\ oextent' = Widened(oextent, Extent(s)) /\ ocanvas' = Grown(ocanvas, s)
      BY <1>2 DEF OvAdd, OvInv, OvTypes
    <2>2. /\ oextent' \in Windows /\ Around(oextent', Extent(s)) /\ Around(oextent', oextent)
      BY <2>1, ExtentFacts, WidenedFacts
    <2>3. /\ ocanvas' \in Windows /\ Around(ocanvas', ocanvas) /\ Around(ocanvas', Extent(s))
      BY <2>1, GrownFacts DEF OvInv
    <2>4. /\ oshapes' \in Seq(OvShapes) /\ Len(oshapes) \in Nat
          /\ DOMAIN oshapes = 1 .. Len(oshapes) /\ DOMAIN oshapes' = 1 .. (Len(oshapes) + 1)
          /\ oshapes'[Len(oshapes) + 1] = s
          /\ \A i \in 1 .. Len(oshapes) : oshapes'[i] = oshapes[i] /\ oshapes[i] \in OvShapes
      BY <2>1, AppendProperties
    <2>5. ASSUME NEW i \in DOMAIN oshapes' PROVE Around(oextent', Extent(oshapes'[i]))
      <3>1. CASE i = Len(oshapes) + 1 BY <2>2, <2>4, <3>1
      <3>2. CASE i # Len(oshapes) + 1
        <4>1. i \in 1 .. Len(oshapes) BY <2>4, <3>2
        <4>2. oshapes'[i] = oshapes[i] /\ Extent(oshapes[i]) \in Windows
          BY <2>4, <4>1, ExtentFacts
        <4>3. Around(oextent, Extent(oshapes[i]))
          BY <2>4, <4>1 DEF OvInv
        <4> QED BY <2>1, <2>2, <4>2, <4>3, AroundTransitive
      <3> QED BY <3>1, <3>2
    <2>6. OvTypes' BY <2>1, <2>2, <2>3, <2>4 DEF OvTypes
    <2>7. (\A i \in DOMAIN oshapes : Around(oextent, Extent(oshapes[i])))'
      BY <2>5 DEF Around, Extent, Reach, Strip, Captioned
    <2>8. Around(ocanvas', oextent) /\ Around(ocanvas', Nothing)
      <3>1. Nothing \in Windows BY DEF Nothing, Windows, OvAssumption
      <3>2. Around(ocanvas, oextent) /\ Around(ocanvas, Nothing) BY DEF OvInv
      <3> QED BY <2>1, <2>3, <3>1, <3>2, AroundTransitive
    <2>9. Around(ocanvas', oextent')
      BY <2>1, <2>3, <2>8, ExtentFacts, WidenedFacts
    <2>10. (Around(ocanvas, oextent) /\ Around(ocanvas, Nothing))'
      BY <2>8, <2>9 DEF Around, Nothing
    <2> QED BY <2>6, <2>7, <2>10 DEF OvInv
  <1> QED BY <1>1, <1>2 DEF OvNext

\* The height a captioned box asks for is an integer and no smaller.
LEMMA TallerFacts ==
    ASSUME OvAssumption, NEW s \in OvShapes, NEW y0 \in Int, NEW ch \in Int
    PROVE  /\ anchored(s, y0) \in Int
           /\ Taller(s, y0, ch) \in Int /\ ch <= Taller(s, y0, ch)
           /\ Captioned(s) /\ anchored(s, y0) >= 0 /\ anchored(s, y0) < ch
                => anchored(s, y0) + OvBelow <= Taller(s, y0, ch)
           /\ \/ Taller(s, y0, ch) = ch
              \/ Captioned(s) /\ Taller(s, y0, ch) = anchored(s, y0) + OvBelow
  <1>1. s.y1 - OvOffset - y0 \in Int /\ OvFloor \in Int /\ OvBelow \in Int
    BY ExtentFacts DEF OvAssumption
  <1>2. anchored(s, y0) \in Int BY <1>1, Clamps DEF anchored
  <1>3. anchored(s, y0) + OvBelow \in Int BY <1>1, <1>2
  <1> DEFINE m == max(ch, anchored(s, y0) + OvBelow)
  <1>4. /\ m \in Int /\ ch <= m /\ anchored(s, y0) + OvBelow <= m
        /\ m = ch \/ m = anchored(s, y0) + OvBelow
    BY <1>3, Clamps
  <1>5. Taller(s, y0, ch) = IF Captioned(s) /\ anchored(s, y0) >= 0 /\ anchored(s, y0) < ch
                              THEN m ELSE ch
    BY DEF Taller
  <1> HIDE DEF m
  <1> QED BY <1>2, <1>4, <1>5

\* The heights of the loop over the boxes, turn by turn.
LEMMA HeightsLoop ==
    ASSUME OvAssumption, OvTypes, NEW f \in Windows
    PROVE  /\ Heights(f)[0] = max(OvMinDim, f[4] - f[2])
           /\ \A i \in 1 .. Len(oshapes) :
                Heights(f)[i] = Taller(oshapes[i], f[2], Heights(f)[i - 1])
  <1> DEFINE N == Len(oshapes)
             base == max(OvMinDim, f[4] - f[2])
             turn(i, ch) == Taller(oshapes[i], f[2], ch)
             is(g, n) == g = [i \in 0 .. n |-> IF i = 0 THEN base ELSE turn(i, g[i - 1])]
             bad == {n \in 0 .. N : ~ \E g : is(g, n)}
  <1>1. N \in Nat BY DEF OvTypes
  <1> HIDE DEF base, turn, N
  <1>2. bad = {}
    <2> SUFFICES ASSUME bad # {} PROVE FALSE
      OBVIOUS
    <2>1. PICK n \in bad : \A m \in bad : n <= m
      <3>1. bad \subseteq Nat BY <1>1
      <3> HIDE DEF bad
      <3> QED BY <3>1, LeastNatural
    <2>2. n # 0
      <3> SUFFICES ASSUME n = 0 PROVE FALSE
        OBVIOUS
      <3> DEFINE g == [i \in 0 .. 0 |-> base]
      <3>1. g = [i \in 0 .. 0 |-> IF i = 0 THEN base ELSE turn(i, g[i - 1])] OBVIOUS
      <3> HIDE DEF g
      <3>2. is(g, 0) BY <3>1
      <3> QED BY <2>1, <3>2
    <2>3. n \in 1 .. N /\ n - 1 \in 0 .. N /\ n - 1 \notin bad
      <3>1. n \in 1 .. N /\ n - 1 \in 0 .. N /\ ~ (n <= n - 1) BY <1>1, <2>1, <2>2
      <3> HIDE DEF bad
      <3> QED BY <2>1, <3>1
    <2>4. PICK g : is(g, n - 1) BY <2>3
    <2> DEFINE h == [i \in 0 .. n |-> IF i = n THEN turn(n, g[n - 1]) ELSE g[i]]
    <2>5. \A i \in 0 .. n : h[i] = IF i = 0 THEN base ELSE turn(i, h[i - 1])
      <3> SUFFICES ASSUME NEW i \in 0 .. n
                   PROVE  h[i] = IF i = 0 THEN base ELSE turn(i, h[i - 1])
        OBVIOUS
      <3>1. CASE i = n
        <4>1. i # 0 /\ n - 1 \in 0 .. n /\ n - 1 # n BY <2>3, <3>1
        <4>2. h[n - 1] = g[n - 1] BY <4>1
        <4> QED BY <3>1, <4>1, <4>2
      <3>2. CASE i # n
        <4>1. i \in 0 .. n - 1 BY <2>3, <3>2
        <4>2. h[i] = g[i] BY <3>2
        <4>3. g[i] = IF i = 0 THEN base ELSE turn(i, g[i - 1]) BY <2>4, <4>1
        <4>4. i # 0 => i - 1 \in 0 .. n /\ i - 1 # n BY <2>3, <4>1
        <4>5. i # 0 => h[i - 1] = g[i - 1] BY <4>4
        <4> QED BY <4>2, <4>3, <4>5
      <3> QED BY <3>1, <3>2
    <2>6. h = [i \in 0 .. n |-> IF i = 0 THEN base ELSE turn(i, h[i - 1])]
      <3>1. h = [i \in 0 .. n |-> h[i]] OBVIOUS
      <3> HIDE DEF h
      <3> QED BY <2>5, <3>1
    <2> HIDE DEF h
    <2>7. is(h, n) BY <2>6
    <2> QED BY <2>1, <2>7
  <1>3. N \in 0 .. N /\ N \notin bad BY <1>1, <1>2
  <1>4. \E g : is(g, N) BY <1>3
  <1>5. Heights(f) = CHOOSE g : is(g, N) BY DEF Heights, N, base, turn
  <1> DEFINE H == Heights(f)
  <1>6. is(H, N) BY <1>4, <1>5
  <1> HIDE DEF H
  <1>7. H[0] = base BY <1>1, <1>6
  <1>8. ASSUME NEW i \in 1 .. N PROVE H[i] = turn(i, H[i - 1])
    <2>1. i \in 0 .. N /\ i # 0 BY <1>1
    <2> QED BY <1>6, <2>1
  <1> QED BY <1>7, <1>8 DEF H, base, turn, N

\* The height ends no smaller than it began, tall enough for every caption
\* that begins in the window, and within any bound on these.
LEMMA HeightsFacts ==
    ASSUME OvAssumption, OvTypes, NEW f \in Windows, NEW B \in Int,
           NEW base \in Int, base = max(OvMinDim, f[4] - f[2])
    PROVE  LET ch == Heights(f)[Len(oshapes)] IN
           /\ ch \in Int /\ base <= ch
           /\ \A i \in DOMAIN oshapes :
                Captioned(oshapes[i]) /\ anchored(oshapes[i], f[2]) >= 0 /\ anchored(oshapes[i], f[2]) < base
                  => anchored(oshapes[i], f[2]) + OvBelow <= ch
           /\ base <= B /\ (\A i \in DOMAIN oshapes :
                              Captioned(oshapes[i]) => anchored(oshapes[i], f[2]) + OvBelow <= B)
                => ch <= B
  <1> DEFINE N == Len(oshapes)
             H == Heights(f)
             a(i) == anchored(oshapes[i], f[2])
             fitted(n) == \A i \in 1 .. n : Captioned(oshapes[i]) /\ a(i) >= 0 /\ a(i) < base
                                            => a(i) + OvBelow <= H[n]
             bounded == base <= B /\ \A i \in 1 .. N : Captioned(oshapes[i]) => a(i) + OvBelow <= B
             P(n) == H[n] \in Int /\ base <= H[n] /\ fitted(n) /\ (bounded => H[n] <= B)
             bad == {n \in 0 .. N : ~ P(n)}
  <1>1. /\ N \in Nat /\ DOMAIN oshapes = 1 .. N /\ f[2] \in Int /\ OvBelow \in Nat
        /\ \A i \in 1 .. N : oshapes[i] \in OvShapes
    <2>1. oshapes \in Seq(OvShapes) BY DEF OvTypes
    <2>2. N \in Nat /\ DOMAIN oshapes = 1 .. N /\ \A i \in 1 .. N : oshapes[i] \in OvShapes
      BY <2>1
    <2>3. f[2] \in Int BY DEF Windows
    <2>4. OvBelow \in Nat BY DEF OvAssumption
    <2> QED BY <2>2, <2>3, <2>4
  <1>2. H[0] = base /\ \A i \in 1 .. N : H[i] = Taller(oshapes[i], f[2], H[i - 1])
    BY HeightsLoop
  <1> HIDE DEF H, N
  <1>3. \A i \in 1 .. N : a(i) \in Int BY <1>1, TallerFacts
  <1>4. ASSUME NEW n \in 1 .. N, H[n - 1] \in Int
        PROVE  /\ H[n] \in Int /\ H[n - 1] <= H[n]
               /\ Captioned(oshapes[n]) /\ a(n) >= 0 /\ a(n) < H[n - 1] => a(n) + OvBelow <= H[n]
               /\ H[n] = H[n - 1] \/ (Captioned(oshapes[n]) /\ H[n] = a(n) + OvBelow)
    <2>1. oshapes[n] \in OvShapes /\ H[n] = Taller(oshapes[n], f[2], H[n - 1]) BY <1>1, <1>2
    <2> QED BY <1>1, <1>4, <2>1, TallerFacts
  <1> HIDE DEF a
  <1>5. bad = {}
    <2> SUFFICES ASSUME bad # {} PROVE FALSE
      OBVIOUS
    <2>1. PICK n \in bad : \A m \in bad : n <= m
      <3>1. bad \subseteq Nat BY <1>1
      <3> HIDE DEF bad
      <3> QED BY <3>1, LeastNatural
    <2>2. n # 0
      <3> SUFFICES ASSUME n = 0 PROVE FALSE
        OBVIOUS
      <3>1. P(0) BY <1>2
      <3> QED BY <2>1, <3>1
    <2>3. n \in 1 .. N /\ n - 1 \in 0 .. N /\ n - 1 \notin bad
      <3>1. n \in 1 .. N /\ n - 1 \in 0 .. N /\ ~ (n <= n - 1) BY <1>1, <2>1, <2>2
      <3> HIDE DEF bad
      <3> QED BY <2>1, <3>1
    <2>4. P(n - 1) BY <2>3
    <2> DEFINE last == H[n - 1]
               this == H[n]
    <2>5. /\ last \in Int /\ base <= last /\ (bounded => last <= B)
          /\ this \in Int /\ last <= this
          /\ Captioned(oshapes[n]) /\ a(n) >= 0 /\ a(n) < last => a(n) + OvBelow <= this
          /\ this = last \/ (Captioned(oshapes[n]) /\ this = a(n) + OvBelow)
      BY <1>4, <2>3, <2>4
    <2>6. fitted(n)
      <3> SUFFICES ASSUME NEW i \in 1 .. n, Captioned(oshapes[i]), a(i) >= 0, a(i) < base
                   PROVE  a(i) + OvBelow <= this
        OBVIOUS
      <3>1. i \in 1 .. N /\ a(i) \in Int BY <1>1, <1>3, <2>3
      <3>2. CASE i = n
        <4> HIDE DEF this, last
        <4> QED BY <2>5, <3>1, <3>2
      <3>3. CASE i # n
        <4>1. i \in 1 .. n - 1 BY <2>3, <3>3
        <4>2. a(i) + OvBelow <= last BY <2>4, <4>1
        <4> HIDE DEF this, last
        <4> QED BY <1>1, <2>5, <3>1, <4>2
      <3> QED BY <3>2, <3>3
    <2>7. bounded => this <= B
      <3> HIDE DEF this, last
      <3> QED BY <2>3, <2>5
    <2>8. base <= this
      <3> HIDE DEF this, last
      <3> QED BY <2>5
    <2>9. P(n) BY <2>5, <2>6, <2>7, <2>8
    <2> QED BY <2>1, <2>9
  <1>6. N \in 0 .. N /\ N \notin bad BY <1>1, <1>5
  <1>7. P(N) BY <1>6
  <1> QED BY <1>1, <1>7 DEF H, N, a

\* The height of a fragment's canvas, rounded up to even.
LEMMA HeightFacts ==
    ASSUME OvAssumption, OvTypes, NEW f \in Windows
    PROVE  /\ Height(f) \in Int /\ Height(f) % 2 = 0
           /\ OvMinDim <= Height(f) /\ f[4] - f[2] <= Height(f)
           /\ \A i \in DOMAIN oshapes :
                Captioned(oshapes[i]) /\ anchored(oshapes[i], f[2]) >= 0
                  /\ (anchored(oshapes[i], f[2]) < OvMinDim \/ anchored(oshapes[i], f[2]) < f[4] - f[2])
                  => anchored(oshapes[i], f[2]) + OvBelow <= Height(f)
           /\ f[4] - f[2] <= OvH /\ (\A i \in DOMAIN oshapes :
                              Captioned(oshapes[i]) => anchored(oshapes[i], f[2]) + OvBelow <= OvH)
                => Height(f) <= OvH
  <1> DEFINE ch == Heights(f)[Len(oshapes)]
             base == max(OvMinDim, f[4] - f[2])
             a(i) == anchored(oshapes[i], f[2])
  <1>1. f[4] - f[2] \in Int /\ OvMinDim \in Int /\ OvH \in Int /\ OvH % 2 = 0 /\ OvMinDim <= OvH
        /\ OvBelow \in Int
    BY DEF Windows, OvAssumption
  <1>2. /\ base \in Int /\ OvMinDim <= base /\ f[4] - f[2] <= base
        /\ base = OvMinDim \/ base = f[4] - f[2]
    BY <1>1, Clamps
  <1>3. /\ ch \in Int /\ base <= ch
        /\ \A i \in DOMAIN oshapes : Captioned(oshapes[i]) /\ a(i) >= 0 /\ a(i) < base => a(i) + OvBelow <= ch
        /\ base <= OvH /\ (\A i \in DOMAIN oshapes : Captioned(oshapes[i]) => a(i) + OvBelow <= OvH)
             => ch <= OvH
    BY <1>1, <1>2, HeightsFacts
  <1>4. \A i \in DOMAIN oshapes : a(i) \in Int
    <2>1. \A i \in DOMAIN oshapes : oshapes[i] \in OvShapes BY DEF OvTypes
    <2>2. f[2] \in Int BY DEF Windows
    <2> QED BY <1>1, <2>1, <2>2, TallerFacts
  <1>5. Height(f) = ch + (ch % 2) BY DEF Height
  <1> HIDE DEF ch, base, a
  <1>6. /\ Height(f) \in Int /\ Height(f) % 2 = 0 /\ ch <= Height(f)
        /\ ch <= OvH => Height(f) <= OvH
    BY <1>1, <1>3, <1>5
  <1>7. \A i \in DOMAIN oshapes :
          Captioned(oshapes[i]) /\ a(i) >= 0 /\ (a(i) < OvMinDim \/ a(i) < f[4] - f[2])
            => a(i) + OvBelow <= Height(f)
    BY <1>1, <1>2, <1>3, <1>4, <1>6
  <1>8. f[4] - f[2] <= OvH /\ (\A i \in DOMAIN oshapes : Captioned(oshapes[i]) => a(i) + OvBelow <= OvH)
          => Height(f) <= OvH
    BY <1>1, <1>2, <1>3, <1>6
  <1>9. OvMinDim <= Height(f) /\ f[4] - f[2] <= Height(f) BY <1>1, <1>2, <1>3, <1>6
  <1> QED BY <1>6, <1>7, <1>8, <1>9 DEF a

Frame == <<0, 0, OvW, OvH>>

\* A pixel of a window, by its coordinates.
LEMMA InsideIff ==
    ASSUME NEW w \in Windows, NEW p
    PROVE  p \in Inside(w) <=> /\ p \in Int \X Int
                               /\ w[1] <= p[1] /\ p[1] < w[3] /\ w[2] <= p[2] /\ p[2] < w[4]
  <1>1. w[1] \in Int /\ w[2] \in Int /\ w[3] \in Int /\ w[4] \in Int BY DEF Windows
  <1> QED BY <1>1 DEF Inside

\* Sliding a canvas back into the frame, along one axis.
Slides(at, lo, len, size) ==
    /\ at \in Int /\ 0 <= at
    /\ len <= size => at + len <= size
    /\ 0 <= lo => at <= lo /\ (at = lo \/ size <= at + len)
    /\ \A hi, p \in Int : hi - lo <= len /\ 0 <= p /\ p < size /\ lo <= p /\ p < hi
                            => at <= p /\ p < at + len

\* The nearest place in the frame does so.
LEMMA Slide ==
    ASSUME NEW lo \in Int, NEW len \in Int, NEW size \in Nat
    PROVE  Slides(max(0, min(lo, size - len)), lo, len, size)
  BY DEF max, min, Slides

\* Where a fragment's canvas lies.
LEMMA SlidFacts ==
    ASSUME OvAssumption, OvTypes, NEW f \in Windows
    PROVE  /\ Slid(f) \in Windows /\ Slid(f)[4] - Slid(f)[2] = Height(f)
           /\ 0 <= Slid(f)[1] /\ 0 <= Slid(f)[2]
           /\ f[3] - f[1] <= OvW => Slid(f)[3] <= OvW
           /\ Height(f) <= OvH => Slid(f)[4] <= OvH
           /\ 0 <= f[1] => Slid(f)[1] <= f[1]
           /\ 0 <= f[2] => Slid(f)[2] <= f[2] /\ (Slid(f)[2] = f[2] \/ OvH <= Slid(f)[4])
           /\ \A p \in Inside(Frame) : f[1] <= p[1] /\ p[1] < f[3] => Slid(f)[1] <= p[1] /\ p[1] < Slid(f)[3]
           /\ \A p \in Inside(Frame) : f[2] <= p[2] /\ p[2] < f[4] => Slid(f)[2] <= p[2] /\ p[2] < Slid(f)[4]
  <1> DEFINE cw == max(OvMinDim, f[3] - f[1])
             ch == Height(f)
             fx == max(0, min(f[1], OvW - cw))
             fy == max(0, min(f[2], OvH - ch))
  <1>1. /\ f[1] \in Int /\ f[2] \in Int /\ f[3] \in Int /\ f[4] \in Int
        /\ f[3] - f[1] \in Int /\ OvMinDim \in Int /\ OvW \in Nat /\ OvH \in Nat /\ OvMinDim <= OvW
    BY DEF Windows, OvAssumption
  <1>2. ch \in Int /\ f[4] - f[2] <= ch BY HeightFacts
  <1>3. /\ cw \in Int /\ f[3] - f[1] <= cw /\ (f[3] - f[1] <= OvW => cw <= OvW)
    BY <1>1, Clamps
  <1>4. Slid(f) = <<fx, fy, fx + cw, fy + ch>> BY DEF Slid
  <1> HIDE DEF cw, ch
  <1>5. /\ fx \in Int /\ 0 <= fx /\ (cw <= OvW => fx + cw <= OvW)
        /\ 0 <= f[1] => fx <= f[1]
        /\ \A hi, p \in Int : hi - f[1] <= cw /\ 0 <= p /\ p < OvW /\ f[1] <= p /\ p < hi
                                => fx <= p /\ p < fx + cw
    <2> DEFINE lo == f[1]
    <2>1. lo \in Int /\ cw \in Int /\ OvW \in Nat /\ fx = max(0, min(lo, OvW - cw)) BY <1>1, <1>3
    <2> HIDE DEF lo, fx
    <2>2. Slides(fx, lo, cw, OvW) BY <2>1, Slide
    <2> QED BY <2>2 DEF lo, Slides
  <1>6. /\ fy \in Int /\ 0 <= fy /\ (ch <= OvH => fy + ch <= OvH)
        /\ 0 <= f[2] => fy <= f[2] /\ (fy = f[2] \/ OvH <= fy + ch)
        /\ \A hi, p \in Int : hi - f[2] <= ch /\ 0 <= p /\ p < OvH /\ f[2] <= p /\ p < hi
                                => fy <= p /\ p < fy + ch
    <2> DEFINE lo == f[2]
    <2>1. lo \in Int /\ ch \in Int /\ OvH \in Nat /\ fy = max(0, min(lo, OvH - ch)) BY <1>1, <1>2
    <2> HIDE DEF lo, fy
    <2>2. Slides(fy, lo, ch, OvH) BY <2>1, Slide
    <2> QED BY <2>2 DEF lo, Slides
  <1> HIDE DEF fx, fy
  <1>7. /\ Slid(f)[1] = fx /\ Slid(f)[2] = fy /\ Slid(f)[3] = fx + cw /\ Slid(f)[4] = fy + ch
        /\ Slid(f) \in Windows
    BY <1>2, <1>3, <1>4, <1>5, <1>6 DEF Windows
  <1>8. \A p \in Inside(Frame) : /\ p[1] \in Int /\ 0 <= p[1] /\ p[1] < OvW
                                 /\ p[2] \in Int /\ 0 <= p[2] /\ p[2] < OvH
    BY <1>1 DEF Inside, Frame
  <1>9. ASSUME NEW p \in Inside(Frame), f[1] <= p[1], p[1] < f[3]
        PROVE  Slid(f)[1] <= p[1] /\ p[1] < Slid(f)[3]
    <2> DEFINE q == p[1]
    <2>1. q \in Int /\ 0 <= q /\ q < OvW /\ f[1] <= q /\ q < f[3] BY <1>8, <1>9
    <2> HIDE DEF q
    <2>2. fx <= q /\ q < fx + cw BY <1>1, <1>3, <1>5, <2>1
    <2> QED BY <1>7, <2>2 DEF q
  <1>10. ASSUME NEW p \in Inside(Frame), f[2] <= p[2], p[2] < f[4]
        PROVE  Slid(f)[2] <= p[2] /\ p[2] < Slid(f)[4]
    <2> DEFINE q == p[2]
    <2>1. q \in Int /\ 0 <= q /\ q < OvH /\ f[2] <= q /\ q < f[4] BY <1>8, <1>10
    <2> HIDE DEF q
    <2>2. fy <= q /\ q < fy + ch BY <1>1, <1>2, <1>6, <2>1
    <2> QED BY <1>7, <2>2 DEF q
  <1>11. Slid(f)[4] - Slid(f)[2] = ch BY <1>2, <1>6, <1>7
  <1> QED BY <1>3, <1>5, <1>6, <1>7, <1>9, <1>10, <1>11 DEF ch

\* A canvas holds what its fragment holds of the frame.
LEMMA SlidCovers ==
    ASSUME OvAssumption, OvTypes, NEW f \in Windows, NEW p \in Inside(Frame), p \in Inside(f)
    PROVE  p \in Inside(Slid(f))
  <1>1. Slid(f) \in Windows BY SlidFacts
  <1>2. p \in Int \X Int /\ f[1] <= p[1] /\ p[1] < f[3] /\ f[2] <= p[2] /\ p[2] < f[4]
    BY InsideIff
  <1>3. Slid(f)[1] <= p[1] /\ p[1] < Slid(f)[3] /\ Slid(f)[2] <= p[2] /\ p[2] < Slid(f)[4]
    BY <1>2, SlidFacts
  <1> QED BY <1>1, <1>2, <1>3, InsideIff

\* The union window: in the frame, and around what is in it of every shape.
LEMMA UnionFacts ==
    ASSUME OvAssumption, OvInv, NEW i \in DOMAIN oshapes
    PROVE  LET u == UnionWindow
               e == Extent(oshapes[i]) IN
           /\ oshapes[i] \in OvShapes /\ e \in Windows
           /\ u \in Windows /\ 0 <= u[1] /\ 0 <= u[2] /\ u[3] <= OvW /\ u[4] <= OvH
           /\ u[1] <= 0 \/ u[1] <= e[1]
           /\ u[2] <= 0 \/ u[2] <= e[2]
           /\ OvW <= u[3] \/ e[3] <= u[3]
           /\ OvH <= u[4] \/ e[4] <= u[4]
  <1> DEFINE u == UnionWindow
             e == Extent(oshapes[i])
             x == oextent
  <1>1. oshapes[i] \in OvShapes BY DEF OvInv, OvTypes
  <1>2. e \in Windows BY <1>1, ExtentFacts
  <1>3. x \in Windows /\ Around(x, e) BY DEF OvInv, OvTypes
  <1>4. u = <<max(0, x[1]), max(0, x[2]), min(OvW, x[3]), min(OvH, x[4])>>
    BY DEF UnionWindow, InFrame
  <1> HIDE DEF u, e
  <1>5. /\ x[1] \in Int /\ x[2] \in Int /\ x[3] \in Int /\ x[4] \in Int
        /\ e[1] \in Int /\ e[2] \in Int /\ e[3] \in Int /\ e[4] \in Int
        /\ OvW \in Int /\ OvH \in Int /\ 0 \in Int
    BY <1>2, <1>3 DEF Windows, OvAssumption
  <1>6. x[1] <= e[1] /\ x[2] <= e[2] /\ e[3] <= x[3] /\ e[4] <= x[4] BY <1>3 DEF Around
  <1>7. /\ u[1] = max(0, x[1]) /\ u[2] = max(0, x[2]) /\ u[3] = min(OvW, x[3]) /\ u[4] = min(OvH, x[4])
    BY <1>4
  <1>8. /\ u[1] \in Int /\ 0 <= u[1] /\ (u[1] = 0 \/ u[1] = x[1])
        /\ u[2] \in Int /\ 0 <= u[2] /\ (u[2] = 0 \/ u[2] = x[2])
        /\ u[3] \in Int /\ u[3] <= OvW /\ (u[3] = OvW \/ u[3] = x[3])
        /\ u[4] \in Int /\ u[4] <= OvH /\ (u[4] = OvH \/ u[4] = x[4])
    <2>1. u[1] \in Int /\ 0 <= u[1] /\ (u[1] = 0 \/ u[1] = x[1])
      <3>1. 0 \in Int /\ x[1] \in Int BY <1>5
      <3>2. /\ max(0, x[1]) \in Int /\ 0 <= max(0, x[1])
            /\ max(0, x[1]) = 0 \/ max(0, x[1]) = x[1]
        BY <3>1, Clamps
      <3> QED BY <1>7, <3>2
    <2>2. u[2] \in Int /\ 0 <= u[2] /\ (u[2] = 0 \/ u[2] = x[2])
      <3>1. 0 \in Int /\ x[2] \in Int BY <1>5
      <3>2. /\ max(0, x[2]) \in Int /\ 0 <= max(0, x[2])
            /\ max(0, x[2]) = 0 \/ max(0, x[2]) = x[2]
        BY <3>1, Clamps
      <3> QED BY <1>7, <3>2
    <2>3. u[3] \in Int /\ u[3] <= OvW /\ (u[3] = OvW \/ u[3] = x[3])
      <3>1. OvW \in Int /\ x[3] \in Int BY <1>5
      <3>2. /\ min(OvW, x[3]) \in Int /\ min(OvW, x[3]) <= OvW
            /\ min(OvW, x[3]) = OvW \/ min(OvW, x[3]) = x[3]
        BY <3>1, Clamps
      <3> QED BY <1>7, <3>2
    <2>4. u[4] \in Int /\ u[4] <= OvH /\ (u[4] = OvH \/ u[4] = x[4])
      <3>1. OvH \in Int /\ x[4] \in Int BY <1>5
      <3>2. /\ min(OvH, x[4]) \in Int /\ min(OvH, x[4]) <= OvH
            /\ min(OvH, x[4]) = OvH \/ min(OvH, x[4]) = x[4]
        BY <3>1, Clamps
      <3> QED BY <1>7, <3>2
    <2> QED BY <2>1, <2>2, <2>3, <2>4
  <1>9. u \in Windows BY <1>4, <1>7, <1>8 DEF Windows
  <1>10. u[1] <= 0 \/ u[1] <= e[1] BY <1>5, <1>6, <1>8
  <1>11. u[2] <= 0 \/ u[2] <= e[2] BY <1>5, <1>6, <1>8
  <1>12. OvW <= u[3] \/ e[3] <= u[3] BY <1>5, <1>6, <1>8
  <1>13. OvH <= u[4] \/ e[4] <= u[4] BY <1>5, <1>6, <1>8
  <1> QED BY <1>1, <1>2, <1>8, <1>9, <1>10, <1>11, <1>12, <1>13 DEF u, e

\* The four windows of a box, by what their edges are the larger or smaller of.
Cut(r, u, L, A, R, T, B, Z, X, Y) ==
    /\ Edges(r) = {<<"top", <<L, A, R, T>> >>, <<"bottom", <<L, B, R, Z>> >>,
                   <<"left", <<L, T, X, B>> >>, <<"right", <<Y, T, R, B>> >>}
    /\ u[1] <= L /\ (L = u[1] \/ L = r.x1 - Margin)
    /\ u[2] <= A /\ r.y1 - Margin - Strip(r) <= A /\ (A = u[2] \/ A = r.y1 - Margin - Strip(r))
    /\ R <= u[3] /\ (R = u[3] \/ r.x2 + Margin <= R)
    /\ Captioned(r) => R = u[3] \/ r.x1 + r.cap <= R
    /\ T <= u[4] /\ T <= r.y1 + Margin /\ (T = u[4] \/ T = r.y1 + Margin)
    /\ u[2] <= B /\ r.y2 - OvThickness <= B /\ (B = u[2] \/ B = r.y2 - OvThickness)
    /\ Z <= u[4] /\ (Z = u[4] \/ Z = r.y2 + Margin)
    /\ X <= u[3] /\ (X = u[3] \/ X = r.x1 + Margin)
    /\ u[1] <= Y /\ (Y = u[1] \/ Y = r.x2 - OvThickness)

\* A box is cut so.
LEMMA EdgeFacts ==
    ASSUME OvAssumption, OvInv, NEW i \in DOMAIN oshapes, oshapes[i].kind = "box",
           NEW r, r = oshapes[i], NEW u, u = UnionWindow
    PROVE  \E L, A, R, T, B, Z, X, Y \in Int : Cut(r, u, L, A, R, T, B, Z, X, Y)
  <1>1. /\ r \in OvShapes /\ u \in Windows
    BY UnionFacts
  <1>2. /\ r.x1 \in Int /\ r.y1 \in Int /\ r.x2 \in Int /\ r.y2 \in Int /\ r.cap \in Int
        /\ Margin \in Int /\ Strip(r) \in Int /\ OvThickness \in Int
    BY <1>1, ExtentFacts DEF OvAssumption
  <1>3. u[1] \in Int /\ u[2] \in Int /\ u[3] \in Int /\ u[4] \in Int BY <1>1 DEF Windows
  <1> DEFINE L == max(u[1], r.x1 - Margin)
             A == max(u[2], r.y1 - Margin - Strip(r))
             tight == min(u[3], r.x2 + Margin)
             wide == min(u[3], max(tight, r.x1 + r.cap))
             R == IF Captioned(r) THEN wide ELSE tight
             T == min(u[4], r.y1 + Margin)
             B == max(u[2], r.y2 - OvThickness)
             Z == min(u[4], r.y2 + Margin)
             X == min(u[3], r.x1 + Margin)
             Y == max(u[1], r.x2 - OvThickness)
  <1>4. Edges(r) = {<<"top", <<L, A, R, T>> >>, <<"bottom", <<L, B, R, Z>> >>,
                    <<"left", <<L, T, X, B>> >>, <<"right", <<Y, T, R, B>> >>}
    BY DEF Edges, StripLeft, StripRight, TopEnd, BottomAt
  <1>5. /\ r.x1 - Margin \in Int /\ r.y1 - Margin - Strip(r) \in Int /\ r.x2 + Margin \in Int
        /\ r.y1 + Margin \in Int /\ r.y2 - OvThickness \in Int /\ r.y2 + Margin \in Int
        /\ r.x1 + Margin \in Int /\ r.x2 - OvThickness \in Int /\ r.x1 + r.cap \in Int
    BY <1>2
  <1>6. L \in Int /\ u[1] <= L /\ (L = u[1] \/ L = r.x1 - Margin)
    <2>1. u[1] \in Int /\ r.x1 - Margin \in Int BY <1>3, <1>5
    <2> QED BY <2>1, Clamps
  <1>7. A \in Int /\ u[2] <= A /\ r.y1 - Margin - Strip(r) <= A /\ (A = u[2] \/ A = r.y1 - Margin - Strip(r))
    <2>1. u[2] \in Int /\ r.y1 - Margin - Strip(r) \in Int BY <1>3, <1>5
    <2> QED BY <2>1, Clamps
  <1>8. tight \in Int /\ tight <= u[3] /\ (tight = u[3] \/ tight = r.x2 + Margin)
    <2>1. u[3] \in Int /\ r.x2 + Margin \in Int BY <1>3, <1>5
    <2> QED BY <2>1, Clamps
  <1>9. R \in Int /\ R <= u[3] /\ (R = u[3] \/ r.x2 + Margin <= R)
        /\ (Captioned(r) => R = u[3] \/ r.x1 + r.cap <= R)
    <2> DEFINE m == max(tight, r.x1 + r.cap)
    <2> HIDE DEF tight
    <2>1. m \in Int /\ tight <= m /\ r.x1 + r.cap <= m BY <1>5, <1>8, Clamps
    <2> HIDE DEF m
    <2>2. min(u[3], m) \in Int /\ min(u[3], m) <= u[3] /\ (min(u[3], m) = u[3] \/ min(u[3], m) = m)
      BY <1>3, <2>1, Clamps
    <2>3. CASE Captioned(r)
      <3>1. R = min(u[3], m) BY <2>3 DEF m
      <3> HIDE DEF R
      <3> QED BY <1>3, <1>5, <1>8, <2>1, <2>2, <3>1
    <2>4. CASE ~ Captioned(r)
      <3>1. R = tight BY <2>4
      <3> HIDE DEF R
      <3> QED BY <1>3, <1>5, <1>8, <2>4, <3>1
    <2> QED BY <2>3, <2>4
  <1>10. T \in Int /\ T <= u[4] /\ T <= r.y1 + Margin /\ (T = u[4] \/ T = r.y1 + Margin)
    <2>1. u[4] \in Int /\ r.y1 + Margin \in Int BY <1>3, <1>5
    <2> QED BY <2>1, Clamps
  <1>11. B \in Int /\ u[2] <= B /\ r.y2 - OvThickness <= B /\ (B = u[2] \/ B = r.y2 - OvThickness)
    <2>1. u[2] \in Int /\ r.y2 - OvThickness \in Int BY <1>3, <1>5
    <2> QED BY <2>1, Clamps
  <1>12. Z \in Int /\ Z <= u[4] /\ (Z = u[4] \/ Z = r.y2 + Margin)
    <2>1. u[4] \in Int /\ r.y2 + Margin \in Int BY <1>3, <1>5
    <2> QED BY <2>1, Clamps
  <1>13. X \in Int /\ X <= u[3] /\ (X = u[3] \/ X = r.x1 + Margin)
    <2>1. u[3] \in Int /\ r.x1 + Margin \in Int BY <1>3, <1>5
    <2> QED BY <2>1, Clamps
  <1>14. Y \in Int /\ u[1] <= Y /\ (Y = u[1] \/ Y = r.x2 - OvThickness)
    <2>1. u[1] \in Int /\ r.x2 - OvThickness \in Int BY <1>3, <1>5
    <2> QED BY <2>1, Clamps
  <1> HIDE DEF L, A, R, T, B, Z, X, Y
  <1>15. /\ L \in Int /\ A \in Int /\ R \in Int /\ T \in Int
         /\ B \in Int /\ Z \in Int /\ X \in Int /\ Y \in Int
    BY <1>6, <1>7, <1>9, <1>10, <1>11, <1>12, <1>13, <1>14
  <1> USE <1>15
  <1> WITNESS L \in Int, A \in Int, R \in Int, T \in Int, B \in Int, Z \in Int, X \in Int, Y \in Int
  <1> QED BY <1>4, <1>6, <1>7, <1>9, <1>10, <1>11, <1>12, <1>13, <1>14 DEF Cut

\* A pixel of a shape's stroke in the frame lies in the union window and in
\* the shape's extent.
LEMMA StrokeInUnion ==
    ASSUME OvAssumption, OvInv, NEW i \in DOMAIN oshapes, NEW p \in Inside(Frame),
           Stroke(oshapes[i], p)
    PROVE  LET u == UnionWindow
               e == Extent(oshapes[i]) IN
           /\ p \in Int \X Int
           /\ u[1] <= p[1] /\ p[1] < u[3] /\ u[2] <= p[2] /\ p[2] < u[4]
           /\ e[1] <= p[1] /\ p[1] < e[3] /\ e[2] <= p[2] /\ p[2] < e[4]
  <1> DEFINE u == UnionWindow
             e == Extent(oshapes[i])
             r == oshapes[i]
  <1>1. /\ r \in OvShapes /\ e \in Windows /\ u \in Windows
        /\ u[1] <= 0 \/ u[1] <= e[1]
        /\ u[2] <= 0 \/ u[2] <= e[2]
        /\ OvW <= u[3] \/ e[3] <= u[3]
        /\ OvH <= u[4] \/ e[4] <= u[4]
    BY UnionFacts
  <1>2. /\ r.x1 \in Int /\ r.y1 \in Int /\ r.x2 \in Int /\ r.y2 \in Int
        /\ Margin = OvThickness + 1 /\ Strip(r) \in Nat /\ OvThickness \in Nat
        /\ e[1] <= r.x1 - Margin /\ e[2] <= r.y1 - Margin - Strip(r)
        /\ r.x2 + Margin <= e[3] /\ r.y2 + Margin <= e[4]
    BY <1>1, ExtentFacts DEF OvAssumption
  <1>3. /\ OvW \in Int /\ OvH \in Int BY DEF OvAssumption
  <1>4. p \in Int \X Int /\ 0 <= p[1] /\ p[1] < OvW /\ 0 <= p[2] /\ p[2] < OvH
    BY <1>3 DEF Inside, Frame
  <1>5. /\ p[1] \in (r.x1 - OvThickness) .. (r.x2 + OvThickness)
        /\ p[2] \in (r.y1 - OvThickness) .. (r.y2 + OvThickness)
    BY DEF Stroke
  <1>6. /\ u[1] \in Int /\ u[2] \in Int /\ u[3] \in Int /\ u[4] \in Int
        /\ e[1] \in Int /\ e[2] \in Int /\ e[3] \in Int /\ e[4] \in Int
    BY <1>1 DEF Windows
  <1> HIDE DEF u, e, r
  <1>7. e[1] <= p[1] /\ p[1] < e[3] /\ e[2] <= p[2] /\ p[2] < e[4]
    BY <1>2, <1>4, <1>5, <1>6
  <1>8. u[1] <= p[1] /\ p[1] < u[3] /\ u[2] <= p[2] /\ p[2] < u[4]
    BY <1>1, <1>3, <1>4, <1>6, <1>7
  <1> QED BY <1>4, <1>7, <1>8 DEF u, e, r

\* A pixel of a shape's stroke in the frame lies in the shape's one window.
LEMMA StrokeInWhole ==
    ASSUME OvAssumption, OvInv, NEW i \in DOMAIN oshapes, NEW p \in Inside(Frame),
           Stroke(oshapes[i], p)
    PROVE  \E f \in ShapeFragment(oshapes[i]) : f[2] \in Windows /\ p \in Inside(f[2])
  <1> DEFINE u == UnionWindow
             e == Extent(oshapes[i])
             w == Whole(oshapes[i])
  <1>1. /\ p \in Int \X Int
        /\ u[1] <= p[1] /\ p[1] < u[3] /\ u[2] <= p[2] /\ p[2] < u[4]
        /\ e[1] <= p[1] /\ p[1] < e[3] /\ e[2] <= p[2] /\ p[2] < e[4]
    BY StrokeInUnion
  <1>2. w = <<max(u[1], e[1]), max(u[2], e[2]), min(u[3], e[3]), min(u[4], e[4])>> BY DEF Whole
  <1>3. u \in Windows /\ e \in Windows BY UnionFacts
  <1> HIDE DEF u, e, w
  <1>4. /\ u[1] \in Int /\ u[2] \in Int /\ u[3] \in Int /\ u[4] \in Int
        /\ e[1] \in Int /\ e[2] \in Int /\ e[3] \in Int /\ e[4] \in Int
    BY <1>3 DEF Windows
  <1>5. /\ w[1] = max(u[1], e[1]) /\ w[2] = max(u[2], e[2])
        /\ w[3] = min(u[3], e[3]) /\ w[4] = min(u[4], e[4])
    BY <1>2
  <1>6. /\ w[1] \in Int /\ (w[1] = u[1] \/ w[1] = e[1])
        /\ w[2] \in Int /\ (w[2] = u[2] \/ w[2] = e[2])
        /\ w[3] \in Int /\ (w[3] = u[3] \/ w[3] = e[3])
        /\ w[4] \in Int /\ (w[4] = u[4] \/ w[4] = e[4])
    BY <1>4, <1>5, Clamps
  <1>7. w[1] <= p[1] /\ p[1] < w[3] /\ w[2] <= p[2] /\ p[2] < w[4] BY <1>1, <1>6
  <1>8. w \in Windows BY <1>2, <1>5, <1>6 DEF Windows
  <1>9. p \in Inside(w) BY <1>1, <1>7, <1>8, InsideIff
  <1>10. w[3] > w[1] /\ w[4] > w[2] BY <1>1, <1>6, <1>7
  <1>11. <<"whole", w>> \in ShapeFragment(oshapes[i]) BY <1>10 DEF ShapeFragment, w
  <1> QED BY <1>8, <1>9, <1>11

\* A pixel of a box's stroke in the frame lies in one of its four windows.
LEMMA StrokeInEdges ==
    ASSUME OvAssumption, OvInv, NEW i \in DOMAIN oshapes, NEW p \in Inside(Frame),
           Stroke(oshapes[i], p), oshapes[i].kind = "box"
    PROVE  \E f \in BoxFragments(oshapes[i]) : f[2] \in Windows /\ p \in Inside(f[2])
  <1> DEFINE u == UnionWindow
             r == oshapes[i]
             t == OvThickness
             q1 == p[1]
             q2 == p[2]
  <1>1. /\ p \in Int \X Int /\ q1 \in Int /\ q2 \in Int
        /\ u[1] <= q1 /\ q1 < u[3] /\ u[2] <= q2 /\ q2 < u[4]
    BY StrokeInUnion
  <1>2. /\ r \in OvShapes /\ u \in Windows BY UnionFacts
  <1>3. u[1] \in Int /\ u[2] \in Int /\ u[3] \in Int /\ u[4] \in Int BY <1>2 DEF Windows
  <1>4. /\ r.x1 \in Int /\ r.y1 \in Int /\ r.x2 \in Int /\ r.y2 \in Int
        /\ r.x1 <= r.x2 /\ r.y1 <= r.y2
        /\ t \in Nat /\ Margin = t + 1 /\ Strip(r) \in Nat
    BY <1>2, ExtentFacts DEF OvAssumption
  <1>5. /\ q1 \in (r.x1 - t) .. (r.x2 + t) /\ q2 \in (r.y1 - t) .. (r.y2 + t)
        /\ \/ q1 \in (r.x1 - t) .. (r.x1 + t) \/ q1 \in (r.x2 - t) .. (r.x2 + t)
           \/ q2 \in (r.y1 - t) .. (r.y1 + t) \/ q2 \in (r.y2 - t) .. (r.y2 + t)
    BY DEF Stroke, Near
  <1> HIDE DEF u, r, t, q1, q2
  <1>12. PICK L, A, R, T, B, Z, X, Y \in Int : Cut(r, u, L, A, R, T, B, Z, X, Y)
    BY EdgeFacts DEF r, u
  <1>6. /\ Edges(r) = {<<"top", <<L, A, R, T>> >>, <<"bottom", <<L, B, R, Z>> >>,
                       <<"left", <<L, T, X, B>> >>, <<"right", <<Y, T, R, B>> >>}
        /\ u[1] <= L /\ (L = u[1] \/ L = r.x1 - Margin)
        /\ u[2] <= A /\ (A = u[2] \/ A = r.y1 - Margin - Strip(r))
        /\ R <= u[3] /\ (R = u[3] \/ r.x2 + Margin <= R)
        /\ Captioned(r) => R = u[3] \/ r.x1 + r.cap <= R
        /\ T <= u[4] /\ T <= r.y1 + Margin /\ (T = u[4] \/ T = r.y1 + Margin)
        /\ u[2] <= B /\ r.y2 - OvThickness <= B /\ (B = u[2] \/ B = r.y2 - OvThickness)
        /\ Z <= u[4] /\ (Z = u[4] \/ Z = r.y2 + Margin)
        /\ X <= u[3] /\ (X = u[3] \/ X = r.x1 + Margin)
        /\ u[1] <= Y /\ (Y = u[1] \/ Y = r.x2 - OvThickness)
    BY <1>12 DEF Cut
  <1>7. L <= q1 /\ q1 < R BY <1>1, <1>3, <1>4, <1>5, <1>6
  <1>8. ASSUME NEW name, NEW w \in Windows, <<name, w>> \in Edges(r),
               name \in {"top", "bottom", "left", "right"},
               w[1] <= q1, q1 < w[3], w[2] <= q2, q2 < w[4]
        PROVE  \E f \in BoxFragments(r) : f[2] \in Windows /\ p \in Inside(f[2])
    <2>1. p \in Inside(w) BY <1>1, <1>8, InsideIff DEF q1, q2
    <2>2. w[4] > w[2] /\ w[3] > w[1]
      <3>1. w[1] \in Int /\ w[2] \in Int /\ w[3] \in Int /\ w[4] \in Int BY <1>8 DEF Windows
      <3> QED BY <1>1, <1>8, <3>1
    <2>3. <<name, w>> \in BoxFragments(r) BY <1>8, <2>2 DEF BoxFragments
    <2> QED BY <1>8, <2>1, <2>3
  <1>9. CASE q2 <= r.y1 + t
    <2>1. A <= q2 /\ q2 < T BY <1>1, <1>3, <1>4, <1>5, <1>6, <1>9
    <2>2. <<L, A, R, T>> \in Windows BY DEF Windows
    <2>3. <<"top", <<L, A, R, T>> >> \in Edges(r) BY <1>6
    <2> QED BY <1>7, <1>8, <2>1, <2>2, <2>3 DEF r
  <1>10. CASE r.y2 - t <= q2
    <2>1. B <= q2 /\ q2 < Z BY <1>1, <1>3, <1>4, <1>5, <1>6, <1>10 DEF t
    <2>2. <<L, B, R, Z>> \in Windows BY DEF Windows
    <2>3. <<"bottom", <<L, B, R, Z>> >> \in Edges(r) BY <1>6
    <2> QED BY <1>7, <1>8, <2>1, <2>2, <2>3 DEF r
  <1>11. CASE r.y1 + t < q2 /\ q2 < r.y2 - t
    <2>1. T <= q2 /\ q2 < B BY <1>1, <1>3, <1>4, <1>5, <1>6, <1>11 DEF t
    <2>2. CASE q1 \in (r.x1 - t) .. (r.x1 + t)
      <3>1. q1 < X BY <1>1, <1>3, <1>4, <1>6, <2>2
      <3>2. <<L, T, X, B>> \in Windows BY DEF Windows
      <3>3. <<"left", <<L, T, X, B>> >> \in Edges(r) BY <1>6
      <3> QED BY <1>7, <1>8, <2>1, <3>1, <3>2, <3>3 DEF r
    <2>3. CASE q1 \in (r.x2 - t) .. (r.x2 + t)
      <3>1. Y <= q1 BY <1>1, <1>3, <1>4, <1>6, <2>3 DEF t
      <3>2. <<Y, T, R, B>> \in Windows BY DEF Windows
      <3>3. <<"right", <<Y, T, R, B>> >> \in Edges(r) BY <1>6
      <3> QED BY <1>7, <1>8, <2>1, <3>1, <3>2, <3>3 DEF r
    <2> QED BY <1>1, <1>4, <1>5, <1>11, <2>2, <2>3
  <1> QED BY <1>1, <1>4, <1>9, <1>10, <1>11

\* Whichever fallback was taken, a pixel of a stroke in the frame lies in the
\* window of a fragment.
LEMMA StrokeInFragments ==
    ASSUME OvAssumption, OvInv, NEW i \in DOMAIN oshapes, NEW p \in Inside(Frame),
           Stroke(oshapes[i], p)
    PROVE  \E f \in Fragments : f[2][2] \in Windows /\ p \in Inside(f[2][2])
  <1>1. CASE Fragments = Tight
    <2>1. PICK e \in TightOf(oshapes[i]) : e[2] \in Windows /\ p \in Inside(e[2])
      <3>1. CASE oshapes[i].kind = "box" BY <3>1, StrokeInEdges DEF TightOf
      <3>2. CASE oshapes[i].kind # "box" BY <3>2, StrokeInWhole DEF TightOf
      <3> QED BY <3>1, <3>2
    <2>2. <<i, e>> \in Tight BY DEF Tight
    <2> QED BY <1>1, <2>1, <2>2
  <1>2. CASE Fragments = PerShape
    <2>1. PICK e \in ShapeFragment(oshapes[i]) : e[2] \in Windows /\ p \in Inside(e[2])
      BY StrokeInWhole
    <2>2. <<i, e>> \in PerShape BY DEF PerShape
    <2> QED BY <1>2, <2>1, <2>2
  <1>3. CASE Fragments = {<<0, <<"all", UnionWindow>> >>}
    <2> DEFINE u == UnionWindow
    <2>1. u \in Windows BY UnionFacts
    <2>2. /\ p \in Int \X Int
          /\ u[1] <= p[1] /\ p[1] < u[3] /\ u[2] <= p[2] /\ p[2] < u[4]
      BY StrokeInUnion
    <2>3. p \in Inside(u) BY <2>1, <2>2, InsideIff
    <2> HIDE DEF u
    <2>4. <<0, <<"all", u>> >> \in Fragments BY <1>3 DEF u
    <2> QED BY <2>1, <2>3, <2>4
  <1> QED BY <1>1, <1>2, <1>3 DEF Fragments

\* A window that has a pixel of a shape's stroke overlaps the shape.
LEMMA StrokeSelects ==
    ASSUME OvAssumption, OvInv, NEW i \in DOMAIN oshapes, NEW p \in Inside(Frame),
           Stroke(oshapes[i], p), NEW w \in Windows, p \in Inside(w)
    PROVE  oshapes[i] \in Selected(w)
  <1> DEFINE e == Extent(oshapes[i])
  <1>1. p \in Int \X Int /\ w[1] <= p[1] /\ p[1] < w[3] /\ w[2] <= p[2] /\ p[2] < w[4]
    BY InsideIff
  <1>2. e \in Windows /\ e[1] <= p[1] /\ p[1] < e[3] /\ e[2] <= p[2] /\ p[2] < e[4]
    BY StrokeInUnion, UnionFacts
  <1> HIDE DEF e
  <1>3. /\ w[1] \in Int /\ w[2] \in Int /\ w[3] \in Int /\ w[4] \in Int
        /\ e[1] \in Int /\ e[2] \in Int /\ e[3] \in Int /\ e[4] \in Int
    BY <1>2 DEF Windows
  <1>4. overlaps(e, w) BY <1>1, <1>2, <1>3 DEF overlaps
  <1> QED BY <1>4 DEF Selected, Drawn, e

\* No stroke is lost.
LEMMA StrokesCovered ==
    ASSUME OvAssumption, OvInv
    PROVE  Within(Frame, draw_strokes(Drawn, render_overlay_rgba))
             \subseteq UNION {draw_strokes(Selected(w), w) : w \in render_overlay_fragments}
  <1> SUFFICES ASSUME NEW p \in Inside(Frame), NEW i \in DOMAIN oshapes, Stroke(oshapes[i], p)
               PROVE  \E w \in render_overlay_fragments :
                        <<p, oshapes[i]>> \in draw_strokes(Selected(w), w)
    BY DEF draw_strokes, Drawn, Within
  <1>1. PICK f \in Fragments : f[2][2] \in Windows /\ p \in Inside(f[2][2])
    BY StrokeInFragments
  <1> DEFINE w == Slid(f[2][2])
  <1>2. p \in Inside(w) /\ w \in Windows
    BY <1>1, SlidCovers, SlidFacts DEF OvInv
  <1>5. w \in {Slid(g[2][2]) : g \in Fragments} OBVIOUS
  <1> HIDE DEF w
  <1>6. oshapes[i] \in Selected(w) BY <1>2, StrokeSelects
  <1>7. w \in render_overlay_fragments BY <1>5, <1>6 DEF render_overlay_fragments
  <1>8. <<p, oshapes[i]>> \in draw_strokes(Selected(w), w) BY <1>2, <1>6 DEF draw_strokes
  <1> QED BY <1>7, <1>8

\* The frame's row for a caption's baseline.
CaptionRow(s) == max(s.y1 - OvOffset, OvFloor)

\* It is an integer, and which one.
LEMMA CaptionRowIs ==
    ASSUME OvAssumption, NEW s \in OvShapes
    PROVE  /\ CaptionRow(s) \in Int /\ s.y1 - OvOffset <= CaptionRow(s) /\ OvFloor <= CaptionRow(s)
           /\ CaptionRow(s) = s.y1 - OvOffset \/ CaptionRow(s) = OvFloor
  <1>1. s.y1 - OvOffset \in Int /\ OvFloor \in Int BY ExtentFacts DEF OvAssumption
  <1> QED BY <1>1, Clamps DEF CaptionRow

\* The one canvas draws the caption of a box in view on that row.
LEMMA CanvasRow ==
    ASSUME OvAssumption, OvInv, NEW i \in DOMAIN oshapes, Captioned(oshapes[i]), InView(oshapes[i]),
           NEW all, all = render_overlay_rgba
    PROVE  text_row(oshapes[i], all[2], all[4] - all[2], FALSE) = {CaptionRow(oshapes[i]) - all[2]}
  <1> DEFINE r == oshapes[i]
             e == Extent(r)
             c == ocanvas
             c2 == c[2]
             c4 == c[4]
             y0 == max(0, c2)
             end == min(OvH, c4)
             ch == max(OvMinDim, end - y0)
             R == CaptionRow(r)
             m == max(r.y1 - OvOffset - y0, OvFloor)
  <1>1. /\ r \in OvShapes /\ e \in Windows /\ c \in Windows /\ Around(c, e)
    <2>1. r \in OvShapes /\ e \in Windows BY UnionFacts
    <2>2. /\ c \in Windows /\ oextent \in Windows
          /\ Around(c, oextent) /\ Around(oextent, e)
      BY DEF OvInv, OvTypes
    <2> QED BY <2>1, <2>2, AroundTransitive
  <1>2. /\ e[2] = r.y1 - Margin - Strip(r) /\ e[4] = r.y2 + Margin
        /\ r.y1 \in Int /\ r.y2 \in Int /\ r.y1 <= r.y2
        /\ Margin = OvThickness + 1 /\ Strip(r) = OvStrip
    BY <1>1, ExtentFacts DEF Captioned, Strip
  <1>3. c2 \in Int /\ c4 \in Int /\ c2 <= e[2] /\ e[4] <= c4
    BY <1>1 DEF Windows, Around
  <1>4. /\ OvH \in Int /\ OvMinDim \in Int /\ OvOffset \in Nat /\ OvFloor \in Nat /\ OvThickness \in Nat \ {0}
        /\ OvStrip \in Nat /\ OvFloor + 2 <= OvMinDim
        /\ OvOffset + OvFloor <= OvStrip + OvThickness + 1
    BY DEF OvAssumption
  <1>5. r.y1 - OvOffset <= OvH - 2 BY DEF InView
  <1>6. all[2] = y0 /\ all[4] = y0 + ch
    BY DEF render_overlay_rgba, InFrame
  <1> HIDE DEF e, c, c2, c4, r
  <1>7. y0 \in Int /\ 0 <= y0 /\ (y0 = 0 \/ y0 = c2)
    <2>1. c2 \in Int /\ 0 \in Int /\ y0 = max(0, c2) BY <1>3
    <2> HIDE DEF y0
    <2> QED BY <2>1, Clamps
  <1>8. end \in Int /\ (end = OvH \/ end = c4) BY <1>3, <1>4, Clamps
  <1> HIDE DEF y0, end
  <1>9. ch \in Int /\ OvMinDim <= ch /\ end - y0 <= ch BY <1>4, <1>7, <1>8, Clamps
  <1> HIDE DEF ch
  <1>10. /\ R \in Int /\ r.y1 - OvOffset <= R /\ OvFloor <= R
         /\ R = r.y1 - OvOffset \/ R = OvFloor
    BY <1>1, CaptionRowIs
  <1>11. m \in Int /\ r.y1 - OvOffset - y0 <= m /\ OvFloor <= m
         /\ (m = r.y1 - OvOffset - y0 \/ m = OvFloor)
    <2> DEFINE d == r.y1 - OvOffset - y0
    <2>1. d \in Int /\ OvFloor \in Int BY <1>2, <1>4, <1>7
    <2>2. m = max(d, OvFloor) OBVIOUS
    <2> HIDE DEF m, d
    <2>3. m \in Int /\ d <= m /\ OvFloor <= m /\ (m = d \/ m = OvFloor) BY <2>1, <2>2, Clamps
    <2> QED BY <2>3 DEF d
  <1> HIDE DEF R, m
  <1>12. m = R - y0
    <2>1. CASE y0 = 0 BY <1>2, <1>4, <1>10, <1>11, <2>1
    <2>2. CASE y0 # 0 BY <1>2, <1>3, <1>4, <1>7, <1>10, <1>11, <2>2
    <2> QED BY <2>1, <2>2
  <1>13. m <= ch - 2
    <2>1. R <= OvH - 2 \/ R = OvFloor BY <1>5, <1>10
    <2>2. CASE m = OvFloor BY <1>4, <1>9, <2>2
    <2>3. CASE m = r.y1 - OvOffset - y0
      <3>1. r.y1 - OvOffset + 2 <= end BY <1>2, <1>3, <1>4, <1>5, <1>8
      <3> QED BY <1>2, <1>4, <1>7, <1>8, <1>9, <2>3, <3>1
    <2> QED BY <1>11, <2>2, <2>3
  <1>14. min(m, ch - 2) = m
    <2>1. ch - 2 \in Int BY <1>9
    <2> QED BY <1>11, <1>13, <2>1 DEF min
  <1>15. all[4] - all[2] = ch BY <1>6, <1>7, <1>9
  <1>16. text_row(r, all[2], all[4] - all[2], FALSE) = {min(m, ch - 2)}
    BY <1>6, <1>15 DEF text_row, m
  <1> QED BY <1>6, <1>12, <1>14, <1>16 DEF R, r

\* The one canvas is around the window that the fragments are cut from.
LEMMA CanvasFacts ==
    ASSUME OvAssumption, OvInv, UnionWindow \in Windows
    PROVE  /\ render_overlay_rgba \in Windows
           /\ \A p \in Inside(UnionWindow) : p \in Inside(render_overlay_rgba)
  <1> DEFINE x == oextent
             c == ocanvas
             u == UnionWindow
             all == render_overlay_rgba
             c1 == c[1]
             c2 == c[2]
             c3 == c[3]
             c4 == c[4]
             x1 == max(0, c1)
             y1 == max(0, c2)
             x2 == min(OvW, c3)
             y2 == min(OvH, c4)
             cw == max(OvMinDim, x2 - x1)
             ch == max(OvMinDim, y2 - y1)
  <1>1. /\ x \in Windows /\ c \in Windows /\ Around(c, x) BY DEF OvInv, OvTypes
  <1>2. u = <<max(0, x[1]), max(0, x[2]), min(OvW, x[3]), min(OvH, x[4])>>
    BY DEF UnionWindow, InFrame
  <1>3. all = <<x1, y1, x1 + cw, y1 + ch>>
    BY DEF render_overlay_rgba, InFrame
  <1>4. /\ c1 \in Int /\ c2 \in Int /\ c3 \in Int /\ c4 \in Int
        /\ c1 <= x[1] /\ c2 <= x[2] /\ x[3] <= c3 /\ x[4] <= c4
        /\ x[1] \in Int /\ x[2] \in Int /\ x[3] \in Int /\ x[4] \in Int
        /\ OvW \in Int /\ OvH \in Int /\ OvMinDim \in Int /\ 0 \in Int
    BY <1>1 DEF Windows, Around, OvAssumption
  <1> HIDE DEF c1, c2, c3, c4, x, all
  <1>5. /\ x1 \in Int /\ (x1 = 0 \/ x1 = c1) /\ y1 \in Int /\ (y1 = 0 \/ y1 = c2)
        /\ x2 \in Int /\ (x2 = OvW \/ x2 = c3) /\ y2 \in Int /\ (y2 = OvH \/ y2 = c4)
    BY <1>4, Clamps
  <1>6. /\ 0 <= u[1] /\ x[1] <= u[1] /\ 0 <= u[2] /\ x[2] <= u[2]
        /\ u[3] <= OvW /\ u[3] <= x[3] /\ u[4] <= OvH /\ u[4] <= x[4]
        /\ u[1] \in Int /\ u[2] \in Int /\ u[3] \in Int /\ u[4] \in Int
    <2>1. /\ u[1] = max(0, x[1]) /\ u[2] = max(0, x[2])
          /\ u[3] = min(OvW, x[3]) /\ u[4] = min(OvH, x[4])
      BY <1>2
    <2> HIDE DEF u
    <2>2. u[1] \in Int /\ 0 <= u[1] /\ x[1] <= u[1]
      <3>1. u[1] = max(0, x[1]) BY <2>1
      <3>2. 0 \in Int /\ x[1] \in Int BY <1>4
      <3> QED BY <3>1, <3>2, Clamped
    <2>3. u[2] \in Int /\ 0 <= u[2] /\ x[2] <= u[2]
      <3>1. u[2] = max(0, x[2]) BY <2>1
      <3>2. 0 \in Int /\ x[2] \in Int BY <1>4
      <3> QED BY <3>1, <3>2, Clamped
    <2>4. u[3] \in Int /\ u[3] <= OvW /\ u[3] <= x[3]
      <3>1. u[3] = min(OvW, x[3]) BY <2>1
      <3>2. OvW \in Int /\ x[3] \in Int BY <1>4
      <3> QED BY <3>1, <3>2, Clamped
    <2>5. u[4] \in Int /\ u[4] <= OvH /\ u[4] <= x[4]
      <3>1. u[4] = min(OvH, x[4]) BY <2>1
      <3>2. OvH \in Int /\ x[4] \in Int BY <1>4
      <3> QED BY <3>1, <3>2, Clamped
    <2> QED BY <2>2, <2>3, <2>4, <2>5
  <1> HIDE DEF x1, y1, x2, y2, u
  <1>7. cw \in Int /\ x2 - x1 <= cw /\ ch \in Int /\ y2 - y1 <= ch
    <2>1. x2 - x1 \in Int /\ y2 - y1 \in Int BY <1>5
    <2> QED BY <1>4, <2>1, Clamps
  <1> HIDE DEF cw, ch
  <1>8. all \in Windows BY <1>3, <1>5, <1>7 DEF Windows
  <1>9. x1 <= u[1] /\ y1 <= u[2] /\ u[3] <= x1 + cw /\ u[4] <= y1 + ch
    BY <1>4, <1>5, <1>6, <1>7
  <1>10. ASSUME NEW p \in Inside(u) PROVE p \in Inside(all)
    <2>1. /\ p \in Int \X Int
          /\ u[1] <= p[1] /\ p[1] < u[3] /\ u[2] <= p[2] /\ p[2] < u[4]
      BY InsideIff DEF u
    <2>2. /\ x1 <= p[1] /\ p[1] < x1 + cw /\ y1 <= p[2] /\ p[2] < y1 + ch
      BY <1>5, <1>6, <1>7, <1>9, <2>1
    <2> QED BY <1>3, <1>8, <2>1, <2>2, InsideIff
  <1> QED BY <1>8, <1>10 DEF all, u

\* The row of the frame that the caption of a box in view has there.
LEMMA CanvasBaseline ==
    ASSUME OvAssumption, OvInv, NEW i \in DOMAIN oshapes, Captioned(oshapes[i]), InView(oshapes[i])
    PROVE  Baselines(oshapes[i], render_overlay_rgba, FALSE) = {CaptionRow(oshapes[i])}
  <1> DEFINE all == render_overlay_rgba
             row == CaptionRow(oshapes[i])
  <1>1. text_row(oshapes[i], all[2], all[4] - all[2], FALSE) = {row - all[2]} BY CanvasRow
  <1>2. row \in Int BY UnionFacts, CaptionRowIs
  <1>3. all[2] \in Int
    <2>1. UnionWindow \in Windows BY UnionFacts
    <2> QED BY <2>1, CanvasFacts DEF Windows
  <1>4. Baselines(oshapes[i], all, FALSE) = {all[2] + (row - all[2])}
    BY <1>1 DEF Baselines
  <1> HIDE DEF all, row
  <1>5. all[2] + (row - all[2]) = row BY <1>2, <1>3
  <1> QED BY <1>4, <1>5 DEF all, row

\* The window of a captioned box's top edge, when the box is in view: it is a
\* fragment, and the canvas made of it draws the caption on the same row and
\* holds what is in the union window of it.
LEMMA CaptionTop ==
    ASSUME OvAssumption, OvInv, Renders,
           NEW i \in DOMAIN oshapes, Captioned(oshapes[i]), InView(oshapes[i]),
           NEW r, r = oshapes[i], NEW u, u = UnionWindow, NEW row, row = CaptionRow(r)
    PROVE  \E f \in Windows :
             /\ <<"top", f>> \in BoxFragments(r)
             /\ 0 <= f[1] /\ (f[1] = u[1] \/ f[1] = r.x1 - Margin)
             /\ f[3] = u[3] \/ r.x1 + r.cap <= f[3]
             /\ Slid(f)[2] <= f[2] /\ (f[2] = u[2] \/ f[2] = r.y1 - Margin - Strip(r))
             /\ text_row(r, Slid(f)[2], Slid(f)[4] - Slid(f)[2], TRUE) = {row - Slid(f)[2]}
             /\ \A q \in Int : u[2] <= q /\ q < u[4] /\ row - OvAscent <= q /\ q <= row + OvBelow - 1
                               => Slid(f)[2] <= q /\ q < Slid(f)[4]
  <1> DEFINE e == Extent(r)
  <1>1. /\ r \in OvShapes /\ e \in Windows /\ u \in Windows
        /\ 0 <= u[1] /\ 0 <= u[2] /\ u[3] <= OvW /\ u[4] <= OvH
        /\ u[2] <= 0 \/ u[2] <= e[2]
        /\ OvH <= u[4] \/ e[4] <= u[4]
        /\ r.kind = "box"
    BY UnionFacts DEF Captioned
  <1>2. /\ e[2] = r.y1 - Margin - Strip(r) /\ e[4] = r.y2 + Margin
        /\ r.x1 \in Int /\ r.y1 \in Int /\ r.y2 \in Int /\ r.y1 <= r.y2 /\ r.cap \in Int
        /\ Margin = OvThickness + 1 /\ Strip(r) = OvStrip
    BY <1>1, ExtentFacts DEF Captioned, Strip
  <1> HIDE DEF e
  <1>3. /\ OvH \in Int /\ OvMinDim \in Int /\ OvOffset \in Nat /\ OvFloor \in Nat /\ OvThickness \in Nat \ {0}
        /\ OvStrip \in Nat /\ OvFloor + 2 <= OvMinDim /\ OvMinDim <= OvH
        /\ OvBelow \in Nat \ {0} /\ OvAscent \in Nat
        /\ OvOffset + OvFloor <= OvStrip + OvThickness + 1
        /\ OvOffset + OvAscent <= OvStrip + OvThickness + 1
    BY DEF OvAssumption
  <1>4. u[1] \in Int /\ u[2] \in Int /\ u[3] \in Int /\ u[4] \in Int /\ u[2] < u[4]
    BY <1>1 DEF Windows, Renders
  <1>5. r.y1 - OvOffset <= OvH - 2 /\ r.y1 + OvThickness >= 0 BY DEF InView
  <1>6. /\ row \in Int /\ r.y1 - OvOffset <= row /\ OvFloor <= row
        /\ row = r.y1 - OvOffset \/ row = OvFloor
    BY <1>1, CaptionRowIs
  <1>7. PICK L, A, R, T, B, Z, X, Y \in Int : Cut(r, u, L, A, R, T, B, Z, X, Y)
    BY <1>1, EdgeFacts
  <1>8. /\ <<"top", <<L, A, R, T>> >> \in Edges(r)
        /\ u[1] <= L /\ (L = u[1] \/ L = r.x1 - Margin)
        /\ u[2] <= A /\ r.y1 - Margin - Strip(r) <= A /\ (A = u[2] \/ A = r.y1 - Margin - Strip(r))
        /\ R = u[3] \/ r.x1 + r.cap <= R
        /\ T <= r.y1 + Margin /\ (T = u[4] \/ T = r.y1 + Margin)
    BY <1>7 DEF Cut
  <1>9. A = 0 \/ A = r.y1 - Margin - Strip(r) BY <1>1, <1>2, <1>4, <1>8
  <1>10. A > 0 => row = r.y1 - OvOffset
    BY <1>2, <1>3, <1>6, <1>9
  <1>11. 0 <= A /\ A <= row BY <1>1, <1>2, <1>3, <1>4, <1>6, <1>8, <1>9, <1>10
  <1>12. T = r.y1 + Margin \/ OvH <= T BY <1>1, <1>2, <1>3, <1>4, <1>8
  <1>13. A < T BY <1>2, <1>3, <1>4, <1>5, <1>8, <1>9, <1>12
  <1>14. row < OvH BY <1>3, <1>5, <1>6
  <1> DEFINE f == <<L, A, R, T>>
             s == Slid(f)
             ch == Height(f)
  <1>15. f \in Windows /\ f[1] = L /\ f[2] = A /\ f[3] = R /\ f[4] = T BY DEF Windows
  <1> HIDE DEF f
  <1>16. <<"top", f>> \in BoxFragments(r)
    <2> DEFINE b == <<"top", f>>
    <2>1. b \in Edges(r) /\ b[1] = "top" /\ b[2] = f BY <1>8 DEF f
    <2> HIDE DEF b
    <2>2. b \in BoxFragments(r) BY <1>13, <1>15, <2>1 DEF BoxFragments
    <2> QED BY <2>2 DEF b
  <1>17. anchored(r, A) = row - A
    <2>1. CASE A = 0 BY <1>2, <1>3, <1>6, <2>1 DEF anchored, CaptionRow
    <2>2. CASE A # 0 BY <1>2, <1>3, <1>10, <1>11, <2>2 DEF anchored
    <2> QED BY <2>1, <2>2
  <1>18. row - A >= 0 /\ (row - A < OvMinDim \/ row - A < T - A)
    BY <1>2, <1>3, <1>6, <1>10, <1>11, <1>12, <1>14
  <1>19. ch \in Int /\ row - A + OvBelow <= ch
    <2>1. OvTypes BY DEF OvInv
    <2>2. ch \in Int /\ (Captioned(oshapes[i]) /\ anchored(oshapes[i], f[2]) >= 0
                            /\ (anchored(oshapes[i], f[2]) < OvMinDim \/ anchored(oshapes[i], f[2]) < f[4] - f[2])
                           => anchored(oshapes[i], f[2]) + OvBelow <= ch)
      BY <1>15, <2>1, HeightFacts
    <2> QED BY <1>15, <1>17, <1>18, <2>2
  <1>20. /\ s[2] \in Int /\ s[4] \in Int /\ 0 <= s[2] /\ s[4] - s[2] = ch
         /\ s[2] <= A /\ (s[2] = A \/ OvH <= s[4])
    <2>1. OvTypes BY DEF OvInv
    <2>2. /\ s \in Windows /\ s[4] - s[2] = ch /\ 0 <= s[2]
          /\ 0 <= f[2] => s[2] <= f[2] /\ (s[2] = f[2] \/ OvH <= s[4])
      BY <1>15, <2>1, SlidFacts
    <2>3. s[2] \in Int /\ s[4] \in Int BY <2>2 DEF Windows
    <2> QED BY <1>11, <1>15, <2>2, <2>3
  <1> HIDE DEF ch, s
  <1>21. s[2] <= row /\ row + 1 <= s[4]
    BY <1>3, <1>6, <1>11, <1>14, <1>19, <1>20
  <1>22. anchored(r, s[2]) = row - s[2]
    <2>1. CASE s[2] = 0 BY <1>2, <1>3, <1>6, <2>1 DEF anchored, CaptionRow
    <2>2. CASE s[2] # 0 BY <1>2, <1>3, <1>10, <1>20, <2>2 DEF anchored
    <2> QED BY <2>1, <2>2
  <1>23. text_row(r, s[2], s[4] - s[2], TRUE) = {row - s[2]}
    <2>1. row - s[2] >= 0 /\ row - s[2] < s[4] - s[2] BY <1>6, <1>20, <1>21
    <2> QED BY <1>22, <2>1 DEF text_row
  <1>24. \A q \in Int : u[2] <= q /\ q < u[4] /\ row - OvAscent <= q /\ q <= row + OvBelow - 1
                        => s[2] <= q /\ q < s[4]
    <2> SUFFICES ASSUME NEW q \in Int, u[2] <= q, q < u[4],
                        row - OvAscent <= q, q <= row + OvBelow - 1
                 PROVE  s[2] <= q /\ q < s[4]
      OBVIOUS
    <2>1. A <= q BY <1>2, <1>3, <1>4, <1>6, <1>8
    <2>2. s[2] <= q BY <1>20, <2>1
    <2>3. q < s[4]
      <3>1. CASE s[2] = A BY <1>3, <1>6, <1>19, <1>20, <3>1
      <3>2. CASE OvH <= s[4] BY <1>1, <1>3, <1>4, <1>20, <3>2
      <3> QED BY <1>20, <3>1, <3>2
    <2> QED BY <2>2, <2>3
  <1>25. 0 <= L BY <1>1, <1>4, <1>8
  <1>26. /\ 0 <= f[1] /\ (f[1] = u[1] \/ f[1] = r.x1 - Margin)
         /\ f[3] = u[3] \/ r.x1 + r.cap <= f[3]
         /\ Slid(f)[2] <= f[2] /\ (f[2] = u[2] \/ f[2] = r.y1 - Margin - Strip(r))
    BY <1>8, <1>15, <1>20, <1>25 DEF s
  <1>27. \A q \in Int : u[2] <= q /\ q < u[4] /\ row - OvAscent <= q /\ q <= row + OvBelow - 1
                        => Slid(f)[2] <= q /\ q < Slid(f)[4]
    BY <1>24 DEF s
  <1>28. f \in Windows BY <1>15
  <1> USE <1>28
  <1> WITNESS f \in Windows
  <1> QED BY <1>16, <1>23, <1>26, <1>27 DEF s

\* What is known of a piece of a caption that a canvas of the whole frame shows.
LEMMA CanvasCaptions ==
    ASSUME NEW v, NEW shapes, NEW win, NEW q \in Within(v, draw_captions(shapes, win, FALSE))
    PROVE  /\ q[1] \in Inside(v) /\ q[2] \in shapes
           /\ q[3] \in Baselines(q[2], win, FALSE) /\ Caption(q[2], q[3], q[1])
           /\ q = <<q[1], q[2], q[3]>>
  <1> DEFINE bases == UNION {Baselines(s, win, FALSE) : s \in shapes}
  <1>1. q \in draw_captions(shapes, win, FALSE) /\ q[1] \in Inside(v) BY DEF Within
  <1>2. q \in Inside(win) \X shapes \X bases BY <1>1 DEF draw_captions
  <1>3. q[3] \in Baselines(q[2], win, FALSE) /\ Caption(q[2], q[3], q[1])
    BY <1>1 DEF draw_captions
  <1> HIDE DEF bases
  <1>4. q[2] \in shapes /\ q = <<q[1], q[2], q[3]>> BY <1>2
  <1> QED BY <1>1, <1>3, <1>4

\* What is known of a piece of a caption that a fragment shows.
LEMMA FragmentCaptions ==
    ASSUME NEW v, NEW shapes, NEW win, NEW q \in Within(v, draw_captions(shapes, win, TRUE))
    PROVE  /\ q[1] \in Inside(v) /\ q[2] \in shapes
           /\ q[3] \in Baselines(q[2], win, TRUE) /\ Caption(q[2], q[3], q[1])
           /\ q = <<q[1], q[2], q[3]>>
  <1> DEFINE bases == UNION {Baselines(s, win, TRUE) : s \in shapes}
  <1>1. q \in draw_captions(shapes, win, TRUE) /\ q[1] \in Inside(v) BY DEF Within
  <1>2. q \in Inside(win) \X shapes \X bases BY <1>1 DEF draw_captions
  <1>3. q[3] \in Baselines(q[2], win, TRUE) /\ Caption(q[2], q[3], q[1])
    BY <1>1 DEF draw_captions
  <1> HIDE DEF bases
  <1>4. q[2] \in shapes /\ q = <<q[1], q[2], q[3]>> BY <1>2
  <1> QED BY <1>1, <1>3, <1>4

\* No caption of a box in view is lost where its tight windows are drawn.
LEMMA CaptionsCovered ==
    ASSUME OvAssumption, OvInv, Renders, Fragments = Tight
    PROVE  Within(UnionWindow, draw_captions({s \in Drawn : InView(s)}, render_overlay_rgba, FALSE))
             \subseteq UNION {draw_captions(Selected(w), w, TRUE) : w \in render_overlay_fragments}
  <1> DEFINE all == render_overlay_rgba
             u == UnionWindow
             shapes == {s \in Drawn : InView(s)}
  <1> HIDE DEF all, u, shapes
  <1>a. ASSUME NEW q \in Within(u, draw_captions(shapes, all, FALSE))
        PROVE  /\ q[1] \in Inside(u) /\ q[2] \in shapes
               /\ q[3] \in Baselines(q[2], all, FALSE) /\ Caption(q[2], q[3], q[1])
               /\ q = <<q[1], q[2], q[3]>>
    BY CanvasCaptions
  <1>0. SUFFICES \A p \in Inside(u), i \in DOMAIN oshapes :
                   InView(oshapes[i])
                   => \A b \in Baselines(oshapes[i], all, FALSE) :
                        Caption(oshapes[i], b, p)
                        => \E w \in render_overlay_fragments :
                             <<p, oshapes[i], b>> \in draw_captions(Selected(w), w, TRUE)
    <2>1. ASSUME NEW q \in Within(u, draw_captions(shapes, all, FALSE))
          PROVE  \E w \in render_overlay_fragments : q \in draw_captions(Selected(w), w, TRUE)
      <3>1. /\ q[1] \in Inside(u) /\ q[2] \in shapes
            /\ q[3] \in Baselines(q[2], all, FALSE) /\ Caption(q[2], q[3], q[1])
            /\ q = <<q[1], q[2], q[3]>>
        BY <1>a
      <3>2. q[2] \in Drawn /\ InView(q[2]) BY <3>1 DEF shapes
      <3>3. PICK i \in DOMAIN oshapes : q[2] = oshapes[i] BY <3>2 DEF Drawn
      <3>4. /\ InView(oshapes[i]) /\ q[3] \in Baselines(oshapes[i], all, FALSE)
            /\ Caption(oshapes[i], q[3], q[1])
        BY <3>1, <3>2, <3>3
      <3>5. PICK w \in render_overlay_fragments :
                 <<q[1], oshapes[i], q[3]>> \in draw_captions(Selected(w), w, TRUE)
        BY <1>0, <3>1, <3>4
      <3>6. q = <<q[1], oshapes[i], q[3]>> BY <3>1, <3>3
      <3> QED BY <3>5, <3>6
    <2> QED BY <2>1 DEF all, u, shapes
  <1> SUFFICES ASSUME NEW p \in Inside(u), NEW i \in DOMAIN oshapes, InView(oshapes[i]),
                      NEW b \in Baselines(oshapes[i], all, FALSE), Caption(oshapes[i], b, p)
               PROVE  \E w \in render_overlay_fragments :
                        <<p, oshapes[i], b>> \in draw_captions(Selected(w), w, TRUE)
    OBVIOUS
  <1> USE DEF all, u
  <1> DEFINE r == oshapes[i]
             e == Extent(r)
             row == CaptionRow(r)
             q1 == p[1]
             q2 == p[2]
  <1>1. Captioned(r) BY DEF Baselines
  <1>2. /\ r \in OvShapes /\ e \in Windows /\ u \in Windows
        /\ 0 <= u[1] /\ 0 <= u[2] /\ u[3] <= OvW /\ u[4] <= OvH
        /\ u[1] <= 0 \/ u[1] <= e[1]
        /\ u[2] <= 0 \/ u[2] <= e[2]
    BY UnionFacts
  <1>3. p \in Int \X Int /\ q1 \in Int /\ q2 \in Int
        /\ u[1] <= q1 /\ q1 < u[3] /\ u[2] <= q2 /\ q2 < u[4]
    BY <1>2, InsideIff
  <1>4. /\ r.x1 \in Int /\ r.y1 \in Int /\ r.x2 \in Int /\ r.y2 \in Int /\ r.cap \in Int
        /\ r.x1 <= r.x2 /\ r.y1 <= r.y2
        /\ Margin = OvThickness + 1 /\ Strip(r) = OvStrip
        /\ e = <<r.x1 - Margin, r.y1 - Margin - Strip(r), r.x2 + Margin, r.y2 + Margin>>
    BY <1>1, <1>2, ExtentFacts DEF Captioned, Strip
  <1>5. /\ OvThickness \in Nat \ {0} /\ OvStrip \in Nat /\ OvOffset \in Nat /\ OvAscent \in Nat /\ OvBelow \in Nat
        /\ OvOffset + OvAscent <= OvStrip + OvThickness + 1
    BY DEF OvAssumption
  <1>6. /\ row \in Int /\ r.y1 - OvOffset <= row BY <1>2, CaptionRowIs
  <1>7. q1 \in r.x1 .. (r.x1 + r.cap - 1) BY DEF Caption
  <1>8. b = row /\ row - OvAscent <= q2 /\ q2 <= row + OvBelow - 1
    <2>1. b = row BY <1>1, CanvasBaseline
    <2>2. q2 \in (row - OvAscent) .. (row + OvBelow - 1) BY <2>1 DEF Caption
    <2> HIDE DEF row, q2
    <2> QED BY <1>3, <1>5, <1>6, <2>1, <2>2
  <1> HIDE DEF all, u, r, e, row, q1, q2
  <1>9. PICK f \in Windows :
             /\ <<"top", f>> \in BoxFragments(r)
             /\ 0 <= f[1] /\ (f[1] = u[1] \/ f[1] = r.x1 - Margin)
             /\ f[3] = u[3] \/ r.x1 + r.cap <= f[3]
             /\ Slid(f)[2] <= f[2] /\ (f[2] = u[2] \/ f[2] = r.y1 - Margin - Strip(r))
             /\ text_row(r, Slid(f)[2], Slid(f)[4] - Slid(f)[2], TRUE) = {row - Slid(f)[2]}
             /\ \A q \in Int : u[2] <= q /\ q < u[4] /\ row - OvAscent <= q /\ q <= row + OvBelow - 1
                               => Slid(f)[2] <= q /\ q < Slid(f)[4]
    <2>1. Captioned(oshapes[i]) /\ r = oshapes[i] /\ u = UnionWindow /\ row = CaptionRow(r)
      BY <1>1 DEF r, u, row
    <2> QED BY <2>1, CaptionTop
  <1> DEFINE w == Slid(f)
  <1>10. w \in Windows /\ (0 <= f[1] => w[1] <= f[1])
    BY SlidFacts DEF OvInv
  <1>11. f[1] \in Int /\ f[2] \in Int /\ f[3] \in Int /\ f[4] \in Int BY DEF Windows
  <1>12. w[2] <= q2 /\ q2 < w[4] BY <1>3, <1>8, <1>9
  <1>13. w[1] <= q1 /\ q1 < w[3]
    <2>1. u[1] \in Int /\ u[3] \in Int BY <1>2 DEF Windows
    <2>2. f[1] <= q1 /\ q1 < f[3] BY <1>3, <1>4, <1>5, <1>7, <1>9, <1>11, <2>1
    <2>3. p \in Inside(Frame)
      <3>1. OvW \in Int /\ OvH \in Int /\ u[2] \in Int /\ u[4] \in Int BY <1>2 DEF Windows, OvAssumption
      <3>2. 0 <= q1 /\ q1 < OvW /\ 0 <= q2 /\ q2 < OvH BY <1>2, <1>3, <2>1, <3>1
      <3>3. Frame \in Windows /\ Frame[1] = 0 /\ Frame[2] = 0 /\ Frame[3] = OvW /\ Frame[4] = OvH
        BY <3>1 DEF Frame, Windows
      <3> QED BY <1>3, <3>2, <3>3, InsideIff DEF q1, q2
    <2>4. OvTypes BY DEF OvInv
    <2> QED BY <2>2, <2>3, <2>4, SlidFacts DEF q1
  <1>14. p \in Inside(w) BY <1>3, <1>10, <1>12, <1>13, InsideIff DEF q1, q2
  <1>15. w \in {Slid(g[2][2]) : g \in Fragments}
    <2>1. <<"top", f>> \in TightOf(oshapes[i]) BY <1>1, <1>9 DEF TightOf, Captioned, r
    <2>2. <<i, <<"top", f>> >> \in Fragments BY <2>1 DEF Tight
    <2> QED BY <2>2
  <1>16. w[1] \in Int /\ w[2] \in Int /\ w[3] \in Int /\ w[4] \in Int
         /\ e[1] = r.x1 - Margin /\ e[2] = r.y1 - Margin - Strip(r)
         /\ e[3] = r.x2 + Margin /\ e[4] = r.y2 + Margin
         /\ u[1] \in Int /\ u[2] \in Int
    BY <1>2, <1>4, <1>10 DEF Windows
  <1>17. r.x2 + OvThickness >= 0 /\ r.y1 + OvThickness >= 0 BY DEF InView, r
  <1>18. w[1] <= f[1] /\ w[2] <= f[2] BY <1>9, <1>10
  <1> HIDE DEF w
  <1>19. overlaps(e, w)
    <2>1. e[1] < w[3] BY <1>3, <1>4, <1>5, <1>7, <1>13, <1>16
    <2>2. w[1] < e[3] BY <1>2, <1>4, <1>5, <1>9, <1>11, <1>16, <1>17, <1>18
    <2>3. e[2] < w[4] BY <1>3, <1>4, <1>5, <1>6, <1>8, <1>12, <1>16
    <2>4. w[2] < e[4] BY <1>2, <1>4, <1>5, <1>9, <1>11, <1>16, <1>17, <1>18
    <2> QED BY <2>1, <2>2, <2>3, <2>4 DEF overlaps
  <1>20. r \in Selected(w) BY <1>19 DEF Selected, Drawn, e, r
  <1>21. w \in render_overlay_fragments BY <1>15, <1>20 DEF render_overlay_fragments
  <1>22. row \in Baselines(r, w, TRUE)
    <2>1. text_row(r, w[2], w[4] - w[2], TRUE) = {row - w[2]} BY <1>9 DEF w
    <2>2. w[2] + (row - w[2]) = row BY <1>6, <1>16
    <2> QED BY <1>1, <2>1, <2>2 DEF Baselines
  <1>23. Caption(r, row, p) BY <1>8 DEF r
  <1>24. <<p, r, row>> \in draw_captions(Selected(w), w, TRUE)
    BY <1>14, <1>20, <1>22, <1>23 DEF draw_captions
  <1> QED BY <1>8, <1>21, <1>24 DEF r

\* What the windows of the fragments are: in the frame but for the sides of a
\* box, which may leave it at the top and the bottom when the box does.
LEMMA FragmentWindows ==
    ASSUME OvAssumption, OvInv, Renders, NEW f \in Fragments
    PROVE  LET w == f[2][2] IN
           /\ w \in Windows /\ w[3] - w[1] <= OvW
           /\ (\A s \in Drawn : Framed(s)) => 0 <= w[2] /\ w[4] - w[2] <= OvH
  <1> DEFINE u == UnionWindow
             good(w) == /\ w \in Windows /\ w[3] - w[1] <= OvW
                        /\ (\A s \in Drawn : Framed(s)) => 0 <= w[2] /\ w[4] - w[2] <= OvH
  <1>1. OvW \in Nat /\ OvH \in Nat /\ OvThickness \in Nat /\ 0 \in Int BY DEF OvAssumption
  <1>2. /\ u \in Windows /\ 0 <= u[1] /\ 0 <= u[2] /\ u[3] <= OvW /\ u[4] <= OvH
    <2>1. oshapes # <<>> /\ oshapes \in Seq(OvShapes) BY DEF Renders, OvInv, OvTypes
    <2>2. 1 \in DOMAIN oshapes BY <2>1
    <2> QED BY <2>2, UnionFacts
  <1>3. u[1] \in Int /\ u[2] \in Int /\ u[3] \in Int /\ u[4] \in Int /\ u[2] < u[4]
    BY <1>2 DEF Windows, Renders
  <1>4. ASSUME NEW a \in Int, NEW b \in Int, NEW c \in Int, NEW d \in Int,
               u[1] <= a, u[2] <= b, c <= u[3], d <= u[4]
        PROVE  good(<<a, b, c, d>>)
    BY <1>1, <1>2, <1>3, <1>4 DEF Windows
  <1> HIDE DEF u, good
  <1>5. good(u)
    <2>1. u = <<u[1], u[2], u[3], u[4]>> BY <1>2 DEF Windows
    <2>2. good(<<u[1], u[2], u[3], u[4]>>) BY <1>3, <1>4
    <2> QED BY <2>1, <2>2
  <1>6. ASSUME NEW i \in DOMAIN oshapes PROVE good(Whole(oshapes[i]))
    <2> DEFINE e == Extent(oshapes[i])
               a == max(u[1], e[1])
               b == max(u[2], e[2])
               c == min(u[3], e[3])
               d == min(u[4], e[4])
    <2>1. e \in Windows BY UnionFacts
    <2>2. e[1] \in Int /\ e[2] \in Int /\ e[3] \in Int /\ e[4] \in Int BY <2>1 DEF Windows
    <2>3. Whole(oshapes[i]) = <<a, b, c, d>> BY DEF Whole, u
    <2> HIDE DEF e
    <2>4. a \in Int /\ u[1] <= a BY <1>3, <2>2, Clamps
    <2>5. b \in Int /\ u[2] <= b BY <1>3, <2>2, Clamps
    <2>6. c \in Int /\ c <= u[3] BY <1>3, <2>2, Clamps
    <2>7. d \in Int /\ d <= u[4] BY <1>3, <2>2, Clamps
    <2> HIDE DEF a, b, c, d
    <2>8. good(<<a, b, c, d>>) BY <1>4, <2>4, <2>5, <2>6, <2>7
    <2> QED BY <2>3, <2>8
  <1>7. ASSUME NEW i \in DOMAIN oshapes, oshapes[i].kind = "box", NEW b \in BoxFragments(oshapes[i])
        PROVE  good(b[2])
    <2> DEFINE r == oshapes[i]
               e == Extent(r)
    <2>1. /\ r \in OvShapes /\ e \in Windows
          /\ u[2] <= 0 \/ u[2] <= e[2]
          /\ OvH <= u[4] \/ e[4] <= u[4]
      BY UnionFacts DEF u
    <2>2. /\ r.x1 \in Int /\ r.y1 \in Int /\ r.x2 \in Int /\ r.y2 \in Int /\ r.y1 <= r.y2
          /\ Margin = OvThickness + 1 /\ Strip(r) \in Nat
          /\ e = <<r.x1 - Margin, r.y1 - Margin - Strip(r), r.x2 + Margin, r.y2 + Margin>>
      BY <1>7, <2>1, ExtentFacts
    <2>3. e[2] = r.y1 - Margin - Strip(r) /\ e[4] = r.y2 + Margin BY <2>2
    <2>4. (\A s \in Drawn : Framed(s)) => r.y1 >= -Margin /\ r.y2 <= OvH
      BY <1>7 DEF Framed, Drawn
    <2>5. PICK L, A, R, T, B, Z, X, Y \in Int : Cut(r, u, L, A, R, T, B, Z, X, Y)
      BY <1>7, EdgeFacts DEF u
    <2> HIDE DEF e, r
    <2>6. /\ Edges(r) = {<<"top", <<L, A, R, T>> >>, <<"bottom", <<L, B, R, Z>> >>,
                         <<"left", <<L, T, X, B>> >>, <<"right", <<Y, T, R, B>> >>}
          /\ u[1] <= L /\ u[2] <= A /\ R <= u[3] /\ T <= u[4] /\ u[2] <= B /\ Z <= u[4]
          /\ X <= u[3] /\ u[1] <= Y
          /\ T = u[4] \/ T = r.y1 + Margin
          /\ B = u[2] \/ B = r.y2 - OvThickness
      BY <2>5 DEF Cut
    <2>7. (\A s \in Drawn : Framed(s)) => 0 <= T /\ B - T <= OvH
      <3> SUFFICES ASSUME \A s \in Drawn : Framed(s) PROVE 0 <= T /\ B - T <= OvH
        OBVIOUS
      <3>1. 0 <= T BY <1>1, <1>2, <1>3, <2>2, <2>4, <2>6
      <3>2. B <= OvH BY <1>1, <1>2, <1>3, <2>2, <2>4, <2>6
      <3> QED BY <1>1, <3>1, <3>2
    <2>8. good(<<L, A, R, T>>) BY <1>4, <2>6
    <2>9. good(<<L, B, R, Z>>) BY <1>4, <2>6
    <2>10. good(<<L, T, X, B>>) /\ good(<<Y, T, R, B>>)
      <3>1. X - L <= OvW /\ R - Y <= OvW BY <1>1, <1>2, <1>3, <2>6
      <3> QED BY <2>7, <3>1 DEF good, Windows
    <2>11. b \in Edges(r) BY DEF BoxFragments, r
    <2>12. b[2] \in {<<L, A, R, T>>, <<L, B, R, Z>>, <<L, T, X, B>>, <<Y, T, R, B>>}
      BY <2>6, <2>11
    <2> QED BY <2>8, <2>9, <2>10, <2>12
  <1>8. ASSUME NEW i \in DOMAIN oshapes, NEW b \in ShapeFragment(oshapes[i]) PROVE good(b[2])
    <2>1. b[2] = Whole(oshapes[i]) BY DEF ShapeFragment
    <2> QED BY <1>6, <2>1
  <1>9. CASE Fragments = Tight
    <2>1. PICK i \in DOMAIN oshapes : f \in {i} \X TightOf(oshapes[i]) BY <1>9 DEF Tight
    <2>2. f[2] \in TightOf(oshapes[i]) BY <2>1
    <2>3. good(f[2][2]) BY <1>7, <1>8, <2>2 DEF TightOf
    <2> QED BY <2>3 DEF good
  <1>10. CASE Fragments = PerShape
    <2>1. PICK i \in DOMAIN oshapes : f \in {i} \X ShapeFragment(oshapes[i])
      BY <1>10 DEF PerShape
    <2>2. f[2] \in ShapeFragment(oshapes[i]) BY <2>1
    <2>3. good(f[2][2]) BY <1>8, <2>2
    <2> QED BY <2>3 DEF good
  <1>11. CASE Fragments = {<<0, <<"all", u>> >>}
    <2>1. f = <<0, <<"all", u>> >> BY <1>11
    <2>2. f[2][2] = u BY <2>1
    <2> QED BY <1>5, <2>2 DEF good
  <1> QED BY <1>9, <1>10, <1>11 DEF Fragments, u

\* A canvas of a fragment lies below and right of the frame's first pixel.
LEMMA PartFacts ==
    ASSUME OvAssumption, OvInv, Renders, NEW w \in render_overlay_fragments
    PROVE  w \in Windows /\ 0 <= w[2]
  <1>1. PICK f \in Fragments : w = Slid(f[2][2]) BY DEF render_overlay_fragments
  <1>2. f[2][2] \in Windows BY FragmentWindows
  <1> QED BY <1>1, <1>2, SlidFacts DEF OvInv

\* A fragment shows the strokes that the one canvas shows there, no more and
\* no less.
LEMMA StrokesEqual ==
    ASSUME OvAssumption, OvInv, Renders, NEW w \in render_overlay_fragments
    PROVE  Within(Frame, draw_strokes(Selected(w), w))
             = Within(Frame, Within(w, draw_strokes(Drawn, render_overlay_rgba)))
  <1> DEFINE all == render_overlay_rgba
             part == Within(Frame, draw_strokes(Selected(w), w))
             whole == Within(Frame, Within(w, draw_strokes(Drawn, all)))
  <1>1. w \in Windows BY PartFacts
  <1>2. \A s \in Selected(w) : s \in Drawn BY DEF Selected
  <1>3. ASSUME NEW q \in part PROVE q \in whole
    <2>1. /\ q \in Inside(w) \X Selected(w) /\ q[1] \in Inside(Frame) /\ Stroke(q[2], q[1])
      BY DEF Within, draw_strokes
    <2>2. PICK i \in DOMAIN oshapes : q[2] = oshapes[i] BY <1>2, <2>1 DEF Drawn
    <2> DEFINE p == q[1]
    <2>3. p \in Inside(Frame) /\ Stroke(oshapes[i], p) BY <2>1, <2>2
    <2>4. UnionWindow \in Windows BY UnionFacts
    <2> HIDE DEF p
    <2>5. p \in Inside(UnionWindow)
      BY <2>3, <2>4, StrokeInUnion, InsideIff
    <2>6. p \in Inside(all) BY <2>4, <2>5, CanvasFacts
    <2>7. q \in Inside(all) \X Drawn BY <1>2, <2>1, <2>6 DEF p
    <2> QED BY <2>1, <2>7 DEF Within, draw_strokes
  <1>4. ASSUME NEW q \in whole PROVE q \in part
    <2>1. /\ q \in Inside(all) \X Drawn /\ q[1] \in Inside(Frame) /\ Stroke(q[2], q[1])
          /\ q[1] \in Inside(w)
      BY DEF Within, draw_strokes
    <2>2. PICK i \in DOMAIN oshapes : q[2] = oshapes[i] BY <2>1 DEF Drawn
    <2>3. q[2] \in Selected(w) BY <1>1, <2>1, <2>2, StrokeSelects
    <2>4. q \in Inside(w) \X Selected(w) BY <2>1, <2>3
    <2> QED BY <2>1, <2>4 DEF Within, draw_strokes
  <1> QED BY <1>3, <1>4

\* Of a caption in view a fragment shows only what the one canvas shows, unless
\* it draws it above the floor.
LEMMA CaptionsEqual ==
    ASSUME OvAssumption, OvInv, Renders, NEW w \in render_overlay_fragments
    PROVE  Within(UnionWindow, draw_captions({s \in Selected(w) : InView(s) /\ ~Unfloored(s, w)}, w, TRUE))
             \subseteq draw_captions(Drawn, render_overlay_rgba, FALSE)
  <1> DEFINE all == render_overlay_rgba
             u == UnionWindow
             shapes == {s \in Selected(w) : InView(s) /\ ~Unfloored(s, w)}
  <1> HIDE DEF all, u, shapes
  <1>a. ASSUME NEW q \in Within(u, draw_captions(shapes, w, TRUE))
        PROVE  /\ q[1] \in Inside(u) /\ q[2] \in shapes
               /\ q[3] \in Baselines(q[2], w, TRUE) /\ Caption(q[2], q[3], q[1])
               /\ q = <<q[1], q[2], q[3]>>
    BY FragmentCaptions
  <1>1. w \in Windows /\ 0 <= w[2] /\ w[2] \in Int BY PartFacts DEF Windows
  <1>0. SUFFICES \A p \in Inside(u), i \in DOMAIN oshapes :
                   InView(oshapes[i]) /\ ~Unfloored(oshapes[i], w)
                   => \A b \in Baselines(oshapes[i], w, TRUE) :
                        Caption(oshapes[i], b, p)
                        => <<p, oshapes[i], b>> \in draw_captions(Drawn, all, FALSE)
    <2>1. ASSUME NEW q \in Within(u, draw_captions(shapes, w, TRUE))
          PROVE  q \in draw_captions(Drawn, all, FALSE)
      <3>1. /\ q[1] \in Inside(u) /\ q[2] \in shapes
            /\ q[3] \in Baselines(q[2], w, TRUE) /\ Caption(q[2], q[3], q[1])
            /\ q = <<q[1], q[2], q[3]>>
        BY <1>a
      <3>2. /\ q[2] \in Drawn /\ InView(q[2]) /\ ~Unfloored(q[2], w)
        BY <3>1 DEF shapes, Selected
      <3>3. PICK i \in DOMAIN oshapes : q[2] = oshapes[i] BY <3>2 DEF Drawn
      <3>4. /\ InView(oshapes[i]) /\ ~Unfloored(oshapes[i], w)
            /\ q[3] \in Baselines(oshapes[i], w, TRUE) /\ Caption(oshapes[i], q[3], q[1])
        BY <3>1, <3>2, <3>3
      <3>5. <<q[1], oshapes[i], q[3]>> \in draw_captions(Drawn, all, FALSE)
        BY <1>0, <3>1, <3>4
      <3>6. q = <<q[1], oshapes[i], q[3]>> BY <3>1, <3>3
      <3> QED BY <3>5, <3>6
    <2> QED BY <2>1 DEF all, u, shapes
  <1> SUFFICES ASSUME NEW p \in Inside(u), NEW i \in DOMAIN oshapes,
                      InView(oshapes[i]), ~Unfloored(oshapes[i], w),
                      NEW b \in Baselines(oshapes[i], w, TRUE), Caption(oshapes[i], b, p)
               PROVE  <<p, oshapes[i], b>> \in draw_captions(Drawn, all, FALSE)
    OBVIOUS
  <1> USE DEF all, u
  <1> DEFINE r == oshapes[i]
             d == r.y1 - OvOffset
  <1>2. Captioned(r) BY DEF Baselines
  <1>3. r \in OvShapes /\ u \in Windows BY UnionFacts
  <1>4. r.y1 \in Int /\ d \in Int /\ OvOffset \in Int /\ OvFloor \in Int
    BY <1>3, ExtentFacts DEF OvAssumption
  <1>5. b = w[2] + anchored(r, w[2]) BY <1>2 DEF Baselines, text_row
  <1>6. anchored(r, w[2]) = IF w[2] = 0 THEN max(d - w[2], OvFloor) ELSE d - w[2]
    BY DEF anchored
  <1>7. w[2] = 0 \/ OvFloor <= d
    BY <1>1, <1>4 DEF Unfloored
  <1>8. CaptionRow(r) = max(d, OvFloor) BY DEF CaptionRow
  <1>9. b = CaptionRow(r)
    <2> HIDE DEF d, r
    <2>1. CASE w[2] = 0
      <3>1. d - w[2] = d BY <1>4, <2>1
      <3>2. max(d, OvFloor) \in Int BY <1>4, Clamps
      <3> QED BY <1>5, <1>6, <1>8, <2>1, <3>1, <3>2
    <2>2. CASE w[2] # 0
      <3>1. b = d BY <1>1, <1>4, <1>5, <1>6, <2>2
      <3>2. max(d, OvFloor) = d BY <1>4, <1>7, <2>2 DEF max
      <3> QED BY <1>8, <3>1, <3>2
    <2> QED BY <2>1, <2>2
  <1>10. b \in Baselines(r, all, FALSE) BY <1>2, <1>9, CanvasBaseline
  <1>11. p \in Inside(all) BY <1>3, CanvasFacts
  <1>12. r \in Drawn BY DEF Drawn
  <1> HIDE DEF all, u, r
  <1> QED BY <1>10, <1>11, <1>12 DEF draw_captions, r

\* The captions of framed boxes ask for no canvas taller than the frame.
LEMMA CaptionsFit ==
    ASSUME OvAssumption, OvInv, \A s \in Drawn : Framed(s), NEW y0 \in Int, 0 <= y0,
           NEW i \in DOMAIN oshapes, Captioned(oshapes[i])
    PROVE  anchored(oshapes[i], y0) + OvBelow <= OvH
  <1> DEFINE r == oshapes[i]
             d == r.y1 - OvOffset - y0
  <1>1. r \in OvShapes BY DEF OvInv, OvTypes
  <1>2. /\ r.y1 \in Int /\ r.y2 \in Int /\ r.y1 <= r.y2 BY <1>1, ExtentFacts
  <1>3. r.y2 <= OvH BY DEF Framed, Drawn, Captioned
  <1>4. /\ OvH \in Int /\ OvOffset \in Int /\ OvFloor \in Int /\ OvBelow \in Int
        /\ OvBelow <= OvOffset /\ OvFloor + OvBelow <= OvH
    BY DEF OvAssumption
  <1>5. d \in Int /\ d + OvBelow <= OvH BY <1>2, <1>3, <1>4
  <1>6. anchored(r, y0) = IF y0 = 0 THEN max(d, OvFloor) ELSE d BY DEF anchored
  <1> HIDE DEF d, r
  <1>7. max(d, OvFloor) = d \/ max(d, OvFloor) = OvFloor BY <1>4, <1>5, Clamps
  <1> QED BY <1>4, <1>5, <1>6, <1>7 DEF r

\* The fragments make no more canvases than a blend job takes, and these lie
\* in the frame.
LEMMA FragmentsAreFit == OvAssumption /\ OvInv => FragmentsFit
  <1> SUFFICES ASSUME OvAssumption, OvInv, Renders
               PROVE  /\ Cardinality(Fragments) <= obatch
                      /\ \A w \in render_overlay_fragments :
                           /\ w[1] >= 0 /\ w[2] >= 0 /\ w[3] <= OvW /\ (w[4] - w[2]) % 2 = 0
                           /\ (\A s \in Drawn : Framed(s)) => w[4] <= OvH
    BY DEF FragmentsFit
  <1>1. OvTypes BY DEF OvInv
  <1>2. Cardinality(Fragments) <= obatch
    <2>1. CASE Cardinality(Tight) <= obatch BY <2>1 DEF Fragments
    <2>2. CASE ~ (Cardinality(Tight) <= obatch) /\ Cardinality(PerShape) <= obatch
      BY <2>2 DEF Fragments
    <2>3. CASE ~ (Cardinality(Tight) <= obatch) /\ ~ (Cardinality(PerShape) <= obatch)
      <3>1. Fragments = {<<0, <<"all", UnionWindow>> >>} BY <2>3 DEF Fragments
      <3>2. Cardinality(Fragments) = 1
        <4> DEFINE one == <<0, <<"all", UnionWindow>> >>
        <4> HIDE DEF one
        <4>1. Cardinality({one}) = 1 BY FS_Singleton
        <4> QED BY <3>1, <4>1 DEF one
      <3>3. obatch \in Nat \ {0} BY <1>1 DEF OvTypes, OvAssumption
      <3> QED BY <3>2, <3>3
    <2> QED BY <2>1, <2>2, <2>3
  <1>3. ASSUME NEW w \in render_overlay_fragments
        PROVE  /\ w[1] >= 0 /\ w[2] >= 0 /\ w[3] <= OvW /\ (w[4] - w[2]) % 2 = 0
               /\ (\A s \in Drawn : Framed(s)) => w[4] <= OvH
    <2>1. PICK f \in Fragments : w = Slid(f[2][2]) BY DEF render_overlay_fragments
    <2> DEFINE g == f[2][2]
    <2>2. /\ g \in Windows /\ g[3] - g[1] <= OvW
          /\ (\A s \in Drawn : Framed(s)) => 0 <= g[2] /\ g[4] - g[2] <= OvH
      BY FragmentWindows
    <2> HIDE DEF g
    <2>3. w = Slid(g) BY <2>1 DEF g
    <2>4. /\ w \in Windows /\ w[4] - w[2] = Height(g) /\ 0 <= w[1] /\ 0 <= w[2] /\ w[3] <= OvW
          /\ Height(g) <= OvH => w[4] <= OvH
      BY <1>1, <2>2, <2>3, SlidFacts
    <2>5. Height(g) % 2 = 0 BY <1>1, <2>2, HeightFacts
    <2>6. ASSUME \A s \in Drawn : Framed(s) PROVE Height(g) <= OvH
      <3>1. g[2] \in Int /\ 0 <= g[2] /\ g[4] - g[2] <= OvH BY <2>2, <2>6 DEF Windows
      <3>2. \A i \in DOMAIN oshapes : Captioned(oshapes[i]) => anchored(oshapes[i], g[2]) + OvBelow <= OvH
        BY <2>6, <3>1, CaptionsFit
      <3> QED BY <1>1, <2>2, <3>1, <3>2, HeightFacts
    <2> QED BY <2>4, <2>5, <2>6 DEF Windows
  <1> QED BY <1>2, <1>3

\* For every frame, set of shapes, number of shapes and limit of a blend job:
\* the fragments show every stroke and every caption in view that the one
\* canvas shows, and nothing else of them unless a caption is unfloored, and
\* the job takes them.
THEOREM FragmentsAreSound == OvSpec => []FragmentsSound
  <1>1. OvInv => FragmentsSound
    <2> SUFFICES ASSUME OvInv PROVE FragmentsCover /\ FragmentsFit
      BY DEF FragmentsSound
    <2>1. FragmentsCover
      <3> SUFFICES ASSUME Renders
                   PROVE  /\ Within(Frame, draw_strokes(Drawn, render_overlay_rgba))
                               \subseteq UNION {draw_strokes(Selected(w), w) : w \in render_overlay_fragments}
                          /\ \A w \in render_overlay_fragments :
                               Within(Frame, draw_strokes(Selected(w), w))
                                 = Within(Frame, Within(w, draw_strokes(Drawn, render_overlay_rgba)))
                          /\ Fragments = Tight =>
                               Within(UnionWindow, draw_captions({s \in Drawn : InView(s)}, render_overlay_rgba, FALSE))
                                 \subseteq UNION {draw_captions(Selected(w), w, TRUE) : w \in render_overlay_fragments}
                          /\ \A w \in render_overlay_fragments :
                               Within(UnionWindow, draw_captions({s \in Selected(w) : InView(s) /\ ~Unfloored(s, w)}, w, TRUE))
                                 \subseteq draw_captions(Drawn, render_overlay_rgba, FALSE)
        BY DEF FragmentsCover, Frame
      <3>1. \A w \in render_overlay_fragments :
               Within(Frame, draw_strokes(Selected(w), w))
                 = Within(Frame, Within(w, draw_strokes(Drawn, render_overlay_rgba)))
        BY OvAssumption, StrokesEqual
      <3>2. \A w \in render_overlay_fragments :
               Within(UnionWindow, draw_captions({s \in Selected(w) : InView(s) /\ ~Unfloored(s, w)}, w, TRUE))
                 \subseteq draw_captions(Drawn, render_overlay_rgba, FALSE)
        BY OvAssumption, CaptionsEqual
      <3> QED BY OvAssumption, StrokesCovered, CaptionsCovered, <3>1, <3>2
    <2> QED BY OvAssumption, <2>1, FragmentsAreFit
  <1>2. OvInit => OvInv BY OvAssumption, OvInitial
  <1>3. OvInv /\ [OvNext]_ovars => OvInv' BY OvAssumption, OvStep
  <1> QED BY <1>1, <1>2, <1>3, PTL DEF OvSpec

-----------------------------------------------------------------------------
(* Detections *)

\* The first of the best classes exists: every head has a class.
LEMMA BestExists ==
    ASSUME NEW cls \in Seq(Int), cls # <<>>
    PROVE  Best(cls) \in DOMAIN cls
  <1> DEFINE top(c, n) == \A k \in 1 .. n : cls[k] <= cls[c]
             bad == {n \in 1 .. Len(cls) : ~ \E c \in 1 .. n : top(c, n)}
             best == {c \in 1 .. Len(cls) : top(c, Len(cls))}
  <1>1. Len(cls) \in Nat \ {0} /\ DOMAIN cls = 1 .. Len(cls)
        /\ \A k \in 1 .. Len(cls) : cls[k] \in Int
    OBVIOUS
  <1>2. bad = {}
    <2> SUFFICES ASSUME bad # {} PROVE FALSE
      OBVIOUS
    <2>1. PICK n \in bad : \A m \in bad : n <= m
      <3>1. bad \subseteq Nat BY <1>1
      <3> HIDE DEF bad
      <3> QED BY <3>1, LeastNatural
    <2>2. n # 1
      <3> SUFFICES ASSUME n = 1 PROVE FALSE
        OBVIOUS
      <3>1. top(1, 1) BY <1>1
      <3> QED BY <2>1, <3>1
    <2>3. n \in 2 .. Len(cls) BY <1>1, <2>1, <2>2
    <2>7. n - 1 \in 1 .. Len(cls) /\ n - 1 \notin bad
      <3>1. n - 1 \in 1 .. Len(cls) /\ ~ (n <= n - 1) BY <2>3
      <3> HIDE DEF bad
      <3> QED BY <2>1, <3>1
    <2>4. PICK c \in 1 .. n - 1 : top(c, n - 1) BY <2>7
    <2>5. CASE cls[n] <= cls[c]
      <3>1. top(c, n) BY <1>1, <2>1, <2>4, <2>5
      <3> QED BY <2>1, <2>4, <3>1
    <2>6. CASE ~ (cls[n] <= cls[c])
      <3>1. top(n, n)
        <4> SUFFICES ASSUME NEW k \in 1 .. n PROVE cls[k] <= cls[n]
          OBVIOUS
        <4>1. cls[k] \in Int /\ cls[n] \in Int /\ cls[c] \in Int
          <5>1. c \in 1 .. n - 1 BY <2>4
          <5> HIDE DEF top
          <5>2. k \in 1 .. Len(cls) /\ n \in 1 .. Len(cls) /\ c \in 1 .. Len(cls)
            BY <1>1, <2>3, <5>1
          <5> QED BY <1>1, <5>2
        <4>2. k # n => cls[k] <= cls[c] BY <2>3, <2>4
        <4> QED
          <5> HIDE DEF top
          <5> QED BY <2>6, <4>1, <4>2
      <3>2. n \in 1 .. n BY <1>1, <2>1
      <3> QED BY <2>1, <3>1, <3>2
    <2> QED BY <2>5, <2>6
  <1>3. best # {} /\ best \subseteq Nat
    <2>1. Len(cls) \in 1 .. Len(cls) BY <1>1
    <2>2. PICK c \in 1 .. Len(cls) : top(c, Len(cls)) BY <1>2, <2>1
    <2>3. c \in best
      <3> HIDE DEF top
      <3> QED BY <2>2
    <2>4. best \subseteq Nat BY <1>1
    <2> HIDE DEF best
    <2> QED BY <2>3, <2>4
  <1>4. PICK c \in best : \A k \in best : c <= k
    <2> HIDE DEF best
    <2> QED BY <1>3, LeastNatural
  <1>5. /\ \A k \in DOMAIN cls : cls[k] <= cls[c]
        /\ \A k \in 1 .. (c - 1) : cls[k] < cls[c]
    <2>1. \A k \in DOMAIN cls : cls[k] <= cls[c] BY <1>1, <1>4
    <2>2. ASSUME NEW k \in 1 .. (c - 1) PROVE cls[k] < cls[c]
      <3>1. k \in 1 .. Len(cls) /\ k \notin best BY <1>1, <1>4
      <3>2. PICK j \in 1 .. Len(cls) : ~ (cls[j] <= cls[k]) BY <3>1
      <3> QED BY <1>1, <1>4, <3>1, <3>2
    <2> QED BY <2>1, <2>2
  <1> QED BY <1>1, <1>4, <1>5 DEF Best

\* Suppression is mutual.
LEMMA Mutual ==
    ASSUME DetAssumption, NEW i \in Indices, NEW j \in Indices,
           \A k \in Indices : dcands[k].box \in DetAnchors
    PROVE  Suppresses(i, j) <=> Suppresses(j, i)
  <1> DEFINE a == dcands[i].box
             b == dcands[j].box
  <1>1. a \in DetAnchors /\ b \in DetAnchors OBVIOUS
  <1>2. {a.x1, a.y1, a.x2, a.y2, b.x1, b.y1, b.x2, b.y2} \subseteq Int
    BY <1>1 DEF DetAssumption
  <1> HIDE DEF a, b
  <1>3. \A x, y \in Int : max(x, y) = max(y, x) /\ min(x, y) = min(y, x)
    BY DEF max, min
  <1>4. Inter(a, b) = Inter(b, a) BY <1>2, <1>3 DEF Inter
  <1>5. \A x, y \in Int : Width(x, y) \in Int BY DEF Width, max
  <1>6. Area(a) \in Int /\ Area(b) \in Int
    <2>1. \A x, y \in Int : x * y \in Int OBVIOUS
    <2> QED BY <1>2, <1>5, <2>1 DEF Area
  <1>7. Area(a) + Area(b) = Area(b) + Area(a) BY <1>6
  <1>8. Exceeds(a, b) <=> Exceeds(b, a) 
    <2>1. Area(a) + Area(b) - Inter(a, b) = Area(b) + Area(a) - Inter(b, a)
      <3>1. Inter(a, b) \in Int
        <4>1. \A x, y \in Int : x * y \in Int OBVIOUS
        <4>2. \A x, y \in Int : max(x, y) \in Int /\ min(x, y) \in Int
          BY DEF max, min
        <4> QED BY <1>2, <1>5, <4>1, <4>2 DEF Inter
      <3> QED BY <1>4, <1>6, <3>1
    <2> QED BY <1>4, <2>1, Zenon DEF Exceeds
  <1> QED BY <1>8 DEF Suppresses, a, b

\* A box is seen in the frame if and only if clipping leaves something of it.
LEMMA SeenIsLeft ==
    ASSUME DetAssumption, NEW b \in DetAnchors
    PROVE  Seen(b) <=> ~ Empty(Clipped(to_source_box(b)))
  <1> DEFINE m == to_source_box(b)
  <1>1. m[1] \in Int /\ m[2] \in Int /\ m[3] \in Int /\ m[4] \in Int
    BY DEF to_source_box, DetAssumption
  <1>2. SourceWidth \in Nat /\ SourceHeight \in Nat
    BY DEF SourceWidth, SourceHeight, DetAssumption
  <1> HIDE DEF m
  <1>3. \A lo, hi \in Int, w \in Nat :
          (\E x \in 0 .. (w - 1) : lo <= x /\ x < hi) <=> min(w, hi) - max(0, lo) > 0
    <2> SUFFICES ASSUME NEW lo \in Int, NEW hi \in Int, NEW w \in Nat
                 PROVE  (\E x \in 0 .. (w - 1) : lo <= x /\ x < hi)
                          <=> min(w, hi) - max(0, lo) > 0
      OBVIOUS
    <2>1. ASSUME min(w, hi) - max(0, lo) > 0
          PROVE  \E x \in 0 .. (w - 1) : lo <= x /\ x < hi
      <3>1. /\ max(0, lo) \in 0 .. (w - 1)
            /\ lo <= max(0, lo) /\ max(0, lo) < hi
        BY <2>1 DEF min, max
      <3> QED BY <3>1
    <2>2. ASSUME NEW x \in 0 .. (w - 1), lo <= x, x < hi
          PROVE  min(w, hi) - max(0, lo) > 0
      BY <2>2 DEF min, max
    <2> QED BY <2>1, <2>2
  <1>4. Seen(b) <=> /\ \E x \in 0 .. (SourceWidth - 1) : m[1] <= x /\ x < m[3]
                    /\ \E y \in 0 .. (SourceHeight - 1) : m[2] <= y /\ y < m[4]
    BY DEF Seen, m
  <1>5. Seen(b) <=> /\ min(SourceWidth, m[3]) - max(0, m[1]) > 0
                    /\ min(SourceHeight, m[4]) - max(0, m[2]) > 0
    BY <1>1, <1>2, <1>3, <1>4
  <1>6. \A w \in Nat, x, y \in Int : min(w, x) - max(0, y) \in Int BY DEF min, max
  <1>7. Empty(Clipped(m)) <=> \/ min(SourceWidth, m[3]) - max(0, m[1]) <= 0
                              \/ min(SourceHeight, m[4]) - max(0, m[2]) <= 0
    BY DEF Empty, Clipped
  <1>8. Seen(b) <=> ~ Empty(Clipped(m))
    <2> DEFINE p == min(SourceWidth, m[3]) - max(0, m[1])
               q == min(SourceHeight, m[4]) - max(0, m[2])
    <2>1. p \in Int /\ q \in Int BY <1>1, <1>2, <1>6
    <2>2. (p > 0 <=> ~ (p <= 0)) /\ (q > 0 <=> ~ (q <= 0))
      <3> HIDE DEF p, q
      <3> QED BY <2>1
    <2> QED BY <1>5, <1>7, <2>2
  <1> QED BY <1>8 DEF m

DetTypes ==
    /\ dseen \in Nat /\ dcands \in Seq([box : DetAnchors, class : Nat, score : Int])
    /\ diou \in DetIous /\ dat \in {"decode", "suppress", "map"} /\ dpos \in Nat \ {0}
    /\ dkeep \in Seq(Indices) /\ dflags \subseteq Indices

\* The candidates the suppression loop has been past.
Passed == {dorder[m] : m \in 1 .. (dpos - 1)}

\* What is kept so far: best first, and none of it overlaps another.
KeptApart ==
    /\ \A m, n \in DOMAIN dkeep : m < n => Before(dkeep[m], dkeep[n])
    /\ \A i, j \in Chosen : i # j => ~ Suppresses(i, j)

\* While the loop runs: it goes through the sorted candidates, the flags mark
\* the kept ones and what they overlap, and what it has been past is kept or
\* lost to a kept one before it.
Suppressing ==
    /\ dpos <= Len(dcands) + 1
    /\ dorder \in [Indices -> Indices] /\ Sorts(dorder)
    /\ Chosen \subseteq Passed
    /\ dflags = Chosen \cup {j \in Indices : \E i \in Chosen : Suppresses(i, j)}
    /\ \A j \in Passed \ Chosen : \E i \in Chosen : Before(i, j) /\ Suppresses(i, j)

\* The objects returned so far: what is seen of the kept ones the loop has
\* been past, best first.
Returned ==
    /\ dpos <= Len(dkeep) + 1
    /\ dout \in Seq([of : Indices, at : Seq(Int)])
    /\ {dout[k].of : k \in DOMAIN dout}
         = {dkeep[k] : k \in {k \in 1 .. (dpos - 1) : Seen(dcands[dkeep[k]].box)}}
    /\ \A m, n \in DOMAIN dout : m < n => Before(dout[m].of, dout[n].of)

\* The inductive invariant of the three loops.
DetInv ==
    /\ DetTypes
    /\ dat = "decode" => dkeep = <<>> /\ dflags = {} /\ dout = <<>>
    /\ dat = "suppress" => KeptApart /\ Suppressing /\ dout = <<>>
    /\ dat = "map" => KeptApart /\ NmsGreedy /\ Returned

\* Who comes before whom and who overlaps whom is settled by the candidates.
LEMMA CandidatesStay ==
    ASSUME dcands' = dcands, diou' = diou
    PROVE  /\ Indices' = Indices
           /\ \A i, j : (Before(i, j) <=> Before(i, j)') /\ (Suppresses(i, j) <=> Suppresses(i, j)')
  BY DEF Indices, Before, Suppresses, Exceeds

\* The boxes of the candidates are anchors.
LEMMA CandidateFacts ==
    ASSUME DetTypes
    PROVE  /\ Len(dcands) \in Nat
           /\ \A k \in Indices : dcands[k].box \in DetAnchors /\ dcands[k].score \in Int
  <1> DEFINE C == [box : DetAnchors, class : Nat, score : Int]
  <1>1. dcands \in Seq(C) BY DEF DetTypes
  <1>2. Len(dcands) \in Nat /\ \A k \in 1 .. Len(dcands) : dcands[k] \in C
    <2> HIDE DEF C
    <2> QED BY <1>1, ElementOfSeq
  <1> QED BY <1>2 DEF Indices

\* Nothing is kept, flagged or returned before the first step.
LEMMA DetInitial == DetInit => DetInv
  BY DEF DetInit, DetInv, DetTypes

\* A decoded anchor is a candidate's record.
LEMMA DecodedFacts ==
    ASSUME DetAssumption, NEW a \in DetAnchors
    PROVE  Decoded(a) \in [box : DetAnchors, class : Nat, score : Int]
  <1>1. /\ a.cls \in Seq(Int) /\ a.cls # <<>> /\ a.obj \in Int
    BY DEF DetAssumption
  <1>2. Best(a.cls) \in DOMAIN a.cls BY <1>1, BestExists
  <1>3. Best(a.cls) \in Nat /\ a.cls[Best(a.cls)] \in Int BY <1>1, <1>2
  <1>4. a.obj * a.cls[Best(a.cls)] \in Int
    <2>1. \A x, y \in Int : x * y \in Int OBVIOUS
    <2> QED BY <1>1, <1>3, <2>1
  <1> QED BY <1>3, <1>4 DEF Decoded, YoloV8Postprocessor, YoloV5Postprocessor

\* A step of the first loop keeps the invariant.
LEMMA DecodesKeeps ==
    ASSUME DetAssumption, DetInv, NEW a \in DetAnchors, DetDecodes(a)
    PROVE  DetInv'
  <1>1. Decoded(a) \in [box : DetAnchors, class : Nat, score : Int]
    BY DecodedFacts
  <1>2. dcands' \in Seq([box : DetAnchors, class : Nat, score : Int])
    BY <1>1, AppendProperties DEF DetInv, DetTypes, DetDecodes
  <1> QED BY <1>2 DEF DetInv, DetTypes, DetDecodes

\* Sorting keeps the invariant.
LEMMA SortsKeeps ==
    ASSUME DetInv, DetSorts
    PROVE  DetInv'
  <1>1. /\ dcands' = dcands /\ diou' = diou /\ dat' = "suppress" /\ dpos' = 1
        /\ dkeep' = <<>> /\ dflags' = {} /\ dout' = <<>>
        /\ dorder' \in [Indices -> Indices] /\ Sorts(dorder')
    BY DEF DetInv, DetSorts
  <1>2. Indices' = Indices BY <1>1, CandidatesStay
  <1>3. Sorts(dorder)'
    BY <1>1, <1>2, CandidatesStay DEF Sorts
  <1>4. Chosen' = {} BY <1>1 DEF Chosen
  <1>5. Passed' = {} BY <1>1 DEF Passed
  <1>6. Suppressing'
    <2>1. Len(dcands) \in Nat BY CandidateFacts DEF DetInv
    <2> QED BY <1>1, <1>2, <1>3, <1>4, <1>5, <2>1 DEF Suppressing
  <1>7. KeptApart' BY <1>1, <1>4 DEF KeptApart
  <1>8. DetTypes' BY <1>1, <1>2 DEF DetInv, DetTypes, DetSorts
  <1> QED BY <1>1, <1>6, <1>7, <1>8 DEF DetInv

\* Whatever the suppression loop has been past comes before what it is at.
LEMMA PassedBefore ==
    ASSUME DetTypes, Suppressing, dpos <= Len(dcands)
    PROVE  /\ dorder[dpos] \in Indices
           /\ Passed \subseteq Indices
           /\ \A k \in Passed : Before(k, dorder[dpos])
  <1>1. dpos \in Indices /\ \A m \in 1 .. (dpos - 1) : m \in Indices /\ m < dpos
    BY CandidateFacts DEF DetTypes, Indices
  <1>2. dorder \in [Indices -> Indices] /\ Sorts(dorder) BY DEF Suppressing
  <1> QED BY <1>1, <1>2 DEF Passed, Sorts

\* An index that is kept joins the kept ones at the end.
LEMMA KeptGrows ==
    ASSUME DetTypes, NEW i \in Indices, dkeep' = Append(dkeep, i)
    PROVE  /\ Chosen' = Chosen \cup {i}
           /\ dkeep' \in Seq(Indices)
           /\ DOMAIN dkeep' = 1 .. Len(dkeep) + 1 /\ DOMAIN dkeep = 1 .. Len(dkeep) /\ Len(dkeep) \in Nat
           /\ dkeep'[Len(dkeep) + 1] = i
           /\ \A m \in 1 .. Len(dkeep) : dkeep'[m] = dkeep[m] /\ dkeep[m] \in Chosen
  <1>1. dkeep \in Seq(Indices) BY DEF DetTypes
  <1>2. /\ Len(dkeep) \in Nat /\ DOMAIN dkeep = 1 .. Len(dkeep)
        /\ dkeep' \in Seq(Indices) /\ Len(dkeep') = Len(dkeep) + 1
        /\ DOMAIN dkeep' = 1 .. Len(dkeep')
        /\ dkeep'[Len(dkeep) + 1] = i
        /\ \A m \in 1 .. Len(dkeep) : dkeep'[m] = dkeep[m]
    BY <1>1, AppendProperties
  <1>3. Chosen' = Chosen \cup {i}
    <2>1. Chosen' = {dkeep'[k] : k \in 1 .. Len(dkeep) + 1} BY <1>2 DEF Chosen
    <2>2. Chosen = {dkeep[k] : k \in 1 .. Len(dkeep)} BY <1>2 DEF Chosen
    <2>3. 1 .. Len(dkeep) + 1 = (1 .. Len(dkeep)) \cup {Len(dkeep) + 1} BY <1>2
    <2> QED BY <1>2, <2>1, <2>2, <2>3
  <1> QED BY <1>2, <1>3 DEF Chosen

\* A turn of the suppression loop keeps the invariant.
LEMMA NmsKeeps ==
    ASSUME DetAssumption, DetInv, nms
    PROVE  DetInv'
  <1> DEFINE i == dorder[dpos]
  <1>1. /\ dcands' = dcands /\ diou' = diou /\ dorder' = dorder
        /\ dat = "suppress" /\ dat' = "suppress" /\ dpos' = dpos + 1
        /\ dpos <= Len(dcands) /\ dpos \in Nat \ {0}
        /\ dout = <<>> /\ dout' = <<>>
        /\ DetTypes /\ KeptApart /\ Suppressing /\ Len(dcands) \in Nat
    BY CandidateFacts DEF DetInv, nms, DetTypes
  <1>2. /\ i \in Indices /\ Passed \subseteq Indices
        /\ \A k \in Passed : Before(k, i)
    BY <1>1, PassedBefore
  <1>3. /\ Indices' = Indices
        /\ \A k, j : (Before(k, j) <=> Before(k, j)') /\ (Suppresses(k, j) <=> Suppresses(k, j)')
    BY <1>1, CandidatesStay
  <1>4. Passed' = Passed \cup {i}
    <2>1. 1 .. (dpos' - 1) = (1 .. (dpos - 1)) \cup {dpos} BY <1>1
    <2> QED BY <1>1, <2>1 DEF Passed
  <1>5. /\ dorder' \in [Indices' -> Indices'] /\ Sorts(dorder)'
        /\ dpos' <= Len(dcands') + 1 /\ dpos' \in Nat \ {0}
    <2>1. dorder \in [Indices -> Indices] /\ Sorts(dorder) BY <1>1 DEF Suppressing
    <2>2. Sorts(dorder)' BY <1>1, <1>3, <2>1 DEF Sorts
    <2> QED BY <1>1, <1>3, <2>1, <2>2
  <1>6. CASE i \in dflags
    <2>1. dkeep' = dkeep /\ dflags' = dflags BY <1>6 DEF nms
    <2>2. Chosen' = Chosen BY <2>1 DEF Chosen
    <2>3. KeptApart' BY <1>1, <1>3, <2>1, <2>2 DEF KeptApart
    <2>4. Suppressing'
      <3>1. \A j \in (Passed \cup {i}) \ Chosen : \E k \in Chosen : Before(k, j) /\ Suppresses(k, j)
        <4>1. i \notin Chosen => \E k \in Chosen : Before(k, i) /\ Suppresses(k, i)
          BY <1>1, <1>2, <1>6 DEF Suppressing
        <4> QED BY <1>1, <4>1 DEF Suppressing
      <3>2. Chosen \subseteq Passed /\ dflags = Chosen \cup {j \in Indices : \E k \in Chosen : Suppresses(k, j)}
        BY <1>1 DEF Suppressing
      <3> QED BY <1>3, <1>4, <1>5, <2>1, <2>2, <3>1, <3>2 DEF Suppressing
    <2>5. DetTypes' BY <1>1, <1>3, <1>5, <2>1 DEF DetTypes, nms
    <2> QED BY <1>1, <2>3, <2>4, <2>5 DEF DetInv
  <1>7. CASE i \notin dflags
    <2>1. dkeep' = Append(dkeep, i) /\ dflags' = dflags \cup {i} \cup {j \in Indices : Suppresses(i, j)}
      BY <1>7 DEF nms, Flags
    <2>2. /\ Chosen' = Chosen \cup {i} /\ dkeep' \in Seq(Indices)
          /\ DOMAIN dkeep' = 1 .. Len(dkeep) + 1 /\ DOMAIN dkeep = 1 .. Len(dkeep) /\ Len(dkeep) \in Nat
          /\ dkeep'[Len(dkeep) + 1] = i
          /\ \A m \in 1 .. Len(dkeep) : dkeep'[m] = dkeep[m] /\ dkeep[m] \in Chosen
      BY <1>1, <1>2, <2>1, KeptGrows
    <2>3. /\ Chosen \subseteq Passed
          /\ dflags = Chosen \cup {j \in Indices : \E k \in Chosen : Suppresses(k, j)}
          /\ \A j \in Passed \ Chosen : \E k \in Chosen : Before(k, j) /\ Suppresses(k, j)
      BY <1>1 DEF Suppressing
    <2>4. \A k \in Chosen : ~ Suppresses(k, i) /\ ~ Suppresses(i, k)
      <3>1. \A k \in Chosen : k \in Indices /\ ~ Suppresses(k, i) BY <1>2, <1>7, <2>3
      <3>2. \A k \in Indices : Suppresses(k, i) <=> Suppresses(i, k)
        BY <1>1, <1>2, CandidateFacts, Mutual
      <3> QED BY <3>1, <3>2
    <2>5. KeptApart'
      <3>1. ASSUME NEW m \in 1 .. Len(dkeep) + 1, NEW n \in 1 .. Len(dkeep) + 1, m < n
            PROVE  Before(dkeep'[m], dkeep'[n])
        <4>1. m \in 1 .. Len(dkeep) /\ dkeep'[m] = dkeep[m] /\ dkeep[m] \in Chosen
          BY <2>2, <3>1
        <4>2. CASE n = Len(dkeep) + 1 BY <1>2, <2>2, <2>3, <4>1, <4>2
        <4>3. CASE n # Len(dkeep) + 1
          <5>1. n \in 1 .. Len(dkeep) BY <2>2, <4>3
          <5>2. m \in DOMAIN dkeep /\ n \in DOMAIN dkeep BY <2>2, <4>1, <5>1
          <5>3. Before(dkeep[m], dkeep[n]) BY <1>1, <3>1, <5>2 DEF KeptApart
          <5> QED BY <2>2, <4>1, <5>1, <5>3
        <4> QED BY <4>2, <4>3
      <3>2. \A k, j \in Chosen \cup {i} : k # j => ~ Suppresses(k, j)
        BY <1>1, <2>4 DEF KeptApart
      <3> QED BY <1>3, <2>2, <3>1, <3>2 DEF KeptApart
    <2>6. Suppressing'
      <3>1. Chosen' \subseteq Passed' BY <1>4, <2>2, <2>3
      <3>2. dflags' = Chosen' \cup {j \in Indices : \E k \in Chosen' : Suppresses(k, j)}
        BY <2>1, <2>2, <2>3
      <3>3. \A j \in Passed' \ Chosen' : \E k \in Chosen' : Before(k, j) /\ Suppresses(k, j)
        BY <1>4, <2>2, <2>3
      <3> QED BY <1>3, <1>5, <3>1, <3>2, <3>3 DEF Suppressing
    <2>7. DetTypes'
      <3>1. dflags' \subseteq Indices BY <1>1, <1>2, <2>1 DEF DetTypes
      <3> QED BY <1>1, <1>3, <1>5, <2>2, <3>1 DEF DetTypes, nms
    <2> QED BY <1>1, <2>5, <2>6, <2>7 DEF DetInv
  <1> QED BY <1>6, <1>7

\* Leaving the suppression loop: the greedy promise is what it has been doing.
LEMMA ThinnedKeeps ==
    ASSUME DetInv, DetThinned
    PROVE  DetInv'
  <1>1. /\ dcands' = dcands /\ diou' = diou /\ dorder' = dorder /\ dkeep' = dkeep
        /\ dflags' = dflags /\ dat' = "map" /\ dpos' = 1 /\ dout' = <<>>
        /\ DetTypes /\ KeptApart /\ Suppressing /\ dpos > Len(dcands)
        /\ Len(dcands) \in Nat /\ dpos \in Nat
    BY CandidateFacts DEF DetInv, DetThinned, DetTypes
  <1>2. /\ Indices' = Indices /\ Chosen' = Chosen
        /\ \A k, j : (Before(k, j) <=> Before(k, j)') /\ (Suppresses(k, j) <=> Suppresses(k, j)')
    BY <1>1, CandidatesStay DEF Chosen
  <1>3. Passed = Indices
    <2>1. dpos = Len(dcands) + 1 BY <1>1 DEF Suppressing
    <2>2. 1 .. (dpos - 1) = Indices BY <1>1, <2>1 DEF Indices
    <2> QED BY <1>1, <2>2 DEF Passed, Suppressing, Sorts
  <1>4. KeptApart' BY <1>1, <1>2 DEF KeptApart
  <1>5. NmsGreedy'
    <2>1. \A j \in Indices \ Chosen : \E k \in Chosen : Before(k, j) /\ Suppresses(k, j)
      BY <1>1, <1>3 DEF Suppressing
    <2>2. DOMAIN dkeep = 1 .. Len(dkeep) BY <1>1 DEF DetTypes
    <2> QED BY <1>1, <1>2, <2>1, <2>2 DEF NmsGreedy, KeptApart
  <1>6. Returned'
    <2>1. Len(dkeep) \in Nat BY <1>1 DEF DetTypes
    <2>2. DOMAIN dout' = {} /\ 1 .. (dpos' - 1) = {} BY <1>1
    <2> QED BY <1>1, <2>1, <2>2 DEF Returned
  <1>7. DetTypes' BY <1>1, <1>2 DEF DetTypes, DetThinned
  <1> QED BY <1>1, <1>4, <1>5, <1>6, <1>7 DEF DetInv

\* A clipped box is four integers.
LEMMA ClippedAreInts ==
    ASSUME DetAssumption, NEW b \in DetAnchors
    PROVE  Clipped(to_source_box(b)) \in Seq(Int)
  <1> DEFINE m == to_source_box(b)
  <1>1. m[1] \in Int /\ m[2] \in Int /\ m[3] \in Int /\ m[4] \in Int
    BY DEF to_source_box, DetAssumption
  <1>2. SourceWidth \in Int /\ SourceHeight \in Int
    BY DEF SourceWidth, SourceHeight, DetAssumption
  <1> HIDE DEF m
  <1>3. \A x, y \in Int : min(x, y) \in Int /\ max(x, y) \in Int BY DEF min, max
  <1>4. /\ max(0, m[1]) \in Int /\ max(0, m[2]) \in Int
        /\ min(SourceWidth, m[3]) \in Int /\ min(SourceHeight, m[4]) \in Int
    <2> DEFINE p == m[1]
               q == m[2]
               r == m[3]
               u == m[4]
    <2>1. p \in Int /\ q \in Int /\ r \in Int /\ u \in Int /\ 0 \in Int BY <1>1
    <2> HIDE DEF p, q, r, u
    <2>2. max(0, p) \in Int /\ max(0, q) \in Int BY <1>3, <2>1
    <2>3. min(SourceWidth, r) \in Int /\ min(SourceHeight, u) \in Int BY <1>2, <1>3, <2>1
    <2> QED BY <2>2, <2>3 DEF p, q, r, u
  <1>5. \A p, q, r, t \in Int : <<p, q, r, t>> \in Seq(Int) OBVIOUS
  <1>6. Clipped(m) \in Seq(Int) BY <1>4, <1>5 DEF Clipped
  <1> QED BY <1>6 DEF m

\* A turn of the last loop keeps the invariant.
LEMMA FinishKeeps ==
    ASSUME DetAssumption, DetInv, finish
    PROVE  DetInv'
  <1> DEFINE i  == dkeep[dpos]
             at == Clipped(to_source_box(dcands[i].box))
             new == [of |-> i, at |-> at]
             seen(n) == {dkeep[k] : k \in {k \in 1 .. n : Seen(dcands[dkeep[k]].box)}}
  <1>1. /\ dcands' = dcands /\ diou' = diou /\ dkeep' = dkeep /\ dflags' = dflags
        /\ dat = "map" /\ dat' = "map" /\ dpos' = dpos + 1
        /\ dpos \in Nat \ {0} /\ dpos <= Len(dkeep)
        /\ dout' = IF Empty(at) THEN dout ELSE Append(dout, new)
        /\ DetTypes /\ KeptApart /\ NmsGreedy /\ Returned
    BY DEF DetInv, finish, DetTypes
  <1>2. /\ Indices' = Indices /\ Chosen' = Chosen
        /\ \A k, j : (Before(k, j) <=> Before(k, j)') /\ (Suppresses(k, j) <=> Suppresses(k, j)')
    BY <1>1, CandidatesStay DEF Chosen
  <1>3. /\ Len(dkeep) \in Nat /\ DOMAIN dkeep = 1 .. Len(dkeep)
        /\ \A k \in 1 .. Len(dkeep) : dkeep[k] \in Indices
    <2> DEFINE S == Indices
    <2>1. dkeep \in Seq(S) BY <1>1 DEF DetTypes
    <2> HIDE DEF S
    <2>2. /\ Len(dkeep) \in Nat /\ DOMAIN dkeep = 1 .. Len(dkeep)
          /\ \A k \in 1 .. Len(dkeep) : dkeep[k] \in S
      BY <2>1
    <2> QED BY <2>2 DEF S
  <1>4. i \in Indices /\ dcands[i].box \in DetAnchors
    BY <1>1, <1>3, CandidateFacts
  <1>5. at \in Seq(Int) BY <1>4, ClippedAreInts
  <1>6. Seen(dcands[i].box) <=> ~ Empty(at) BY <1>4, SeenIsLeft
  <1>7. /\ dout \in Seq([of : Indices, at : Seq(Int)])
        /\ {dout[k].of : k \in DOMAIN dout} = seen(dpos - 1)
        /\ \A m, n \in DOMAIN dout : m < n => Before(dout[m].of, dout[n].of)
    BY <1>1 DEF Returned
  <1>14. \A b : Seen(b)' <=> Seen(b)
    BY DEF Seen, to_source_box, SourceWidth, SourceHeight
  <1> HIDE DEF at
  <1>8. 1 .. dpos = (1 .. (dpos - 1)) \cup {dpos} BY <1>1
  <1>9. \A o \in DOMAIN dout : Before(dout[o].of, i)
    <2> SUFFICES ASSUME NEW o \in DOMAIN dout PROVE Before(dout[o].of, i)
      OBVIOUS
    <2>1. dout[o].of \in seen(dpos - 1) BY <1>7
    <2>2. PICK k \in 1 .. (dpos - 1) : dout[o].of = dkeep[k] BY <2>1
    <2>3. k \in DOMAIN dkeep /\ dpos \in DOMAIN dkeep /\ k < dpos BY <1>1, <1>3, <2>2
    <2> QED BY <1>1, <2>2, <2>3 DEF KeptApart
  <1>10. Returned'
    <2>1. CASE Empty(at)
      <3>1. dout' = dout /\ seen(dpos) = seen(dpos - 1) BY <1>1, <1>6, <1>8, <2>1
      <3>2. dpos' - 1 = dpos /\ dpos' <= Len(dkeep) + 1 BY <1>1, <1>3
      <3>3. seen(dpos' - 1) = seen(dpos) BY <3>2
      <3>4. {dout'[k].of : k \in DOMAIN dout'} = seen(dpos' - 1) BY <1>7, <3>1, <3>3
      <3> QED BY <1>1, <1>2, <1>7, <1>14, <3>1, <3>2, <3>4 DEF Returned
    <2>2. CASE ~ Empty(at)
      <3>1. dout' = Append(dout, new) BY <1>1, <2>2
      <3>2. new \in [of : Indices, at : Seq(Int)] BY <1>4, <1>5
      <3>3. /\ dout' \in Seq([of : Indices, at : Seq(Int)])
            /\ Len(dout) \in Nat /\ DOMAIN dout = 1 .. Len(dout)
            /\ DOMAIN dout' = 1 .. (Len(dout) + 1)
            /\ dout'[Len(dout) + 1] = new
            /\ \A m \in 1 .. Len(dout) : dout'[m] = dout[m]
        <4> DEFINE O == [of : Indices, at : Seq(Int)]
        <4> HIDE DEF O, new
        <4> QED BY <1>7, <3>1, <3>2, AppendProperties DEF O
      <3>4. {dout'[k].of : k \in DOMAIN dout'} = seen(dpos)
        <4>1. 1 .. (Len(dout) + 1) = (1 .. Len(dout)) \cup {Len(dout) + 1} BY <3>3
        <4>2. {dout'[k].of : k \in DOMAIN dout'} = {dout[k].of : k \in DOMAIN dout} \cup {i}
          <5>1. new.of = i OBVIOUS
          <5> HIDE DEF new, i
          <5>2. \A k \in 1 .. Len(dout) : dout'[k].of = dout[k].of BY <3>3
          <5>3. dout'[Len(dout) + 1].of = i BY <3>3, <5>1
          <5> DEFINE last == Len(dout) + 1
          <5>4. DOMAIN dout' = DOMAIN dout \cup {last} BY <3>3, <4>1
          <5>5. \A k \in DOMAIN dout : dout'[k].of = dout[k].of BY <3>3, <5>2
          <5>6. dout'[last].of = i BY <5>3
          <5> HIDE DEF last
          <5> QED BY <5>4, <5>5, <5>6
        <4>3. seen(dpos) = seen(dpos - 1) \cup {i} BY <1>1, <1>6, <1>8, <2>2
        <4> QED BY <1>7, <4>2, <4>3
      <3>5. ASSUME NEW m \in DOMAIN dout', NEW n \in DOMAIN dout', m < n
            PROVE  Before(dout'[m].of, dout'[n].of)
        <4>1. m \in 1 .. Len(dout) /\ dout'[m] = dout[m] BY <3>3, <3>5
        <4>2. CASE n = Len(dout) + 1 BY <1>9, <3>3, <4>1, <4>2
        <4>3. CASE n # Len(dout) + 1
          <5>1. n \in 1 .. Len(dout) BY <3>3, <4>3
          <5> QED BY <1>7, <3>3, <3>5, <4>1, <5>1
        <4> QED BY <4>2, <4>3
      <3>6. dpos' - 1 = dpos /\ dpos' <= Len(dkeep) + 1 BY <1>1, <1>3
      <3>7. seen(dpos' - 1) = seen(dpos) BY <3>6
      <3>8. {dout'[k].of : k \in DOMAIN dout'} = seen(dpos' - 1) BY <3>4, <3>7
      <3>9. \A k : Seen(dcands[dkeep[k]].box)' <=> Seen(dcands[dkeep[k]].box)
        <4> SUFFICES ASSUME NEW k
                     PROVE  Seen(dcands[dkeep[k]].box)' <=> Seen(dcands[dkeep[k]].box)
          OBVIOUS
        <4> QED BY <1>1 DEF Seen, to_source_box, SourceWidth, SourceHeight
      <3>10. ASSUME NEW m \in DOMAIN dout', NEW n \in DOMAIN dout', m < n
             PROVE  Before(dout[m].of, dout[n].of)'
        <4>1. Before(dout'[m].of, dout'[n].of) BY <3>5, <3>10
        <4> QED BY <1>1, <4>1 DEF Before
      <3>11. dout' \in Seq([of : Indices', at : Seq(Int)]) BY <1>2, <3>3
      <3>12. dpos' <= Len(dkeep') + 1 BY <1>1, <3>6
      <3>13. ({dout[k].of : k \in DOMAIN dout}
               = {dkeep[k] : k \in {k \in 1 .. (dpos - 1) : Seen(dcands[dkeep[k]].box)}})'
        BY <1>1, <3>8, <3>9
      <3> QED BY <3>10, <3>11, <3>12, <3>13 DEF Returned
    <2> QED BY <2>1, <2>2
  <1>11. KeptApart' BY <1>1, <1>2 DEF KeptApart
  <1>12. NmsGreedy' BY <1>1, <1>2 DEF NmsGreedy
  <1>13. DetTypes'
    <2>1. dpos' \in Nat \ {0} BY <1>1
    <2> QED BY <1>1, <1>2, <2>1 DEF DetTypes, finish
  <1> QED BY <1>1, <1>10, <1>11, <1>12, <1>13 DEF DetInv

\* Every step keeps the invariant.
LEMMA DetStep == DetAssumption /\ DetInv /\ [DetNext]_dvars => DetInv'
  <1> SUFFICES ASSUME DetAssumption, DetInv, [DetNext]_dvars PROVE DetInv'
    OBVIOUS
  <1>1. CASE \E a \in DetAnchors : DetDecodes(a) BY <1>1, DecodesKeeps
  <1>2. CASE DetSorts BY <1>2, SortsKeeps
  <1>3. CASE nms BY <1>3, NmsKeeps
  <1>4. CASE DetThinned BY <1>4, ThinnedKeeps
  <1>5. CASE finish BY <1>5, FinishKeeps
  <1>6. CASE UNCHANGED dvars
    <2>1. dcands' = dcands /\ diou' = diou /\ dkeep' = dkeep BY <1>6 DEF dvars
    <2>2. /\ Indices' = Indices /\ Chosen' = Chosen
          /\ \A k, j : (Before(k, j) <=> Before(k, j)') /\ (Suppresses(k, j) <=> Suppresses(k, j)')
      BY <2>1, CandidatesStay DEF Chosen
    <2>3. DetTypes' /\ Passed' = Passed BY <1>6, <2>2 DEF dvars, DetInv, DetTypes, Passed
    <2>4. dat = "suppress" => KeptApart' /\ Suppressing'
      BY <1>6, <2>2, <2>3 DEF dvars, DetInv, KeptApart, Suppressing, Sorts
    <2>5. dat = "map" => KeptApart' /\ NmsGreedy'
      BY <1>6, <2>2 DEF dvars, DetInv, KeptApart, NmsGreedy
    <2>6. ASSUME dat = "map" PROVE Returned'
      <3>1. /\ Returned /\ dpos' = dpos /\ dout' = dout /\ dkeep' = dkeep /\ dcands' = dcands
        BY <1>6, <2>6 DEF dvars, DetInv
      <3>2. /\ (dpos <= Len(dkeep) + 1)' /\ (dout \in Seq([of : Indices, at : Seq(Int)]))'
        BY <2>2, <3>1 DEF Returned
      <3>3. \A k : Seen(dcands[dkeep[k]].box)' <=> Seen(dcands[dkeep[k]].box)
        <4> SUFFICES ASSUME NEW k
                     PROVE  Seen(dcands[dkeep[k]].box)' <=> Seen(dcands[dkeep[k]].box)
          OBVIOUS
        <4> QED BY <3>1 DEF Seen, to_source_box, SourceWidth, SourceHeight
      <3>4. ({dout[k].of : k \in DOMAIN dout}
               = {dkeep[k] : k \in {k \in 1 .. (dpos - 1) : Seen(dcands[dkeep[k]].box)}})'
        BY <3>1, <3>3 DEF Returned
      <3>5. ASSUME NEW m \in DOMAIN dout', NEW n \in DOMAIN dout', m < n
            PROVE  Before(dout[m].of, dout[n].of)'
        <4>1. Before(dout[m].of, dout[n].of) BY <3>1, <3>5 DEF Returned
        <4> QED BY <3>1, <4>1 DEF Before
      <3> QED BY <3>2, <3>4, <3>5 DEF Returned
    <2> QED BY <1>6, <2>3, <2>4, <2>5, <2>6 DEF dvars, DetInv
  <1> QED BY <1>1, <1>2, <1>3, <1>4, <1>5, <1>6 DEF DetNext

\* The invariant implies the property.
LEMMA DetInvImplies == DetInv => DetectionsSound
  <1> SUFFICES ASSUME DetInv PROVE NmsGreedy /\ ReturnsVisible
    BY DEF DetectionsSound
  <1>1. NmsGreedy BY DEF DetInv, NmsGreedy
  <1>2. ASSUME dat = "map", dpos > Len(dkeep)
        PROVE  /\ {dout[k].of : k \in DOMAIN dout} = {i \in Chosen : Seen(dcands[i].box)}
               /\ \A m, n \in 1 .. Len(dout) : m < n => Before(dout[m].of, dout[n].of)
    <2>1. /\ DetTypes /\ Returned /\ dpos \in Nat /\ Len(dkeep) \in Nat
          /\ DOMAIN dkeep = 1 .. Len(dkeep)
      BY <1>2 DEF DetInv, DetTypes
    <2>2. 1 .. (dpos - 1) = DOMAIN dkeep
      <3>1. dpos = Len(dkeep) + 1 BY <1>2, <2>1 DEF Returned
      <3> QED BY <2>1, <3>1
    <2>3. {dkeep[k] : k \in {k \in DOMAIN dkeep : Seen(dcands[dkeep[k]].box)}}
            = {i \in Chosen : Seen(dcands[i].box)}
      BY DEF Chosen
    <2>4. DOMAIN dout = 1 .. Len(dout)
      <3>1. dout \in Seq([of : Indices, at : Seq(Int)]) BY <2>1 DEF Returned
      <3> QED BY <3>1
    <2> QED BY <2>1, <2>2, <2>3, <2>4 DEF Returned
  <1>3. ReturnsVisible BY <1>2 DEF ReturnsVisible
  <1> QED BY <1>1, <1>3

\* For every head, threshold and frame: what is kept is what greedy
\* suppression should keep, best first, and what is returned is what can be
\* seen of it (postprocess.cpp, nms and finish).
THEOREM DetectionsAreSound == DetSpec => []DetectionsSound
  <1>1. DetInit => DetInv BY DetInitial
  <1>2. DetInv /\ [DetNext]_dvars => DetInv' BY DetAssumption, DetStep
  <1>3. DetInv => DetectionsSound BY DetInvImplies
  <1> QED BY <1>1, <1>2, <1>3, PTL DEF DetSpec

-----------------------------------------------------------------------------
(* EncodedReader *)

\* The packets, Torn among them.
EncPackets == [life : Nat, seq : Nat]

\* A packet as it is noted once counted, and the order of publication.
Id(p) == <<p.life, p.seq>>
Older(g, h) == g[1] < h[1] \/ (g[1] = h[1] /\ g[2] < h[2])

\* What the publisher has given out.
GivenOut(g) ==
    /\ g \in (Nat \ {0}) \X (1 .. EncMaxSeq)
    /\ g[1] <= epub.life /\ (g[1] = epub.life => g[2] <= epub.seq)

\* Types; and every counted packet was given out.
EncTypes ==
    /\ ekind \in [EncReaders -> {"stream", "once", "get"}]
    /\ ecount \in [EncReaders -> BOOLEAN] /\ econn \in [EncReaders -> {"none", "open", "eof"}]
    /\ ewire \in [EncReaders -> Seq(EncPackets)] /\ epkt \in [EncReaders -> EncPackets]
    /\ eprev \in [EncReaders -> BOOLEAN \X Nat]
    /\ etrk \in [packets : Nat, gaps : Nat, missing : Nat, last : Nat, has : BOOLEAN]
    /\ epub \in [life : Nat \ {0}, seq : Nat, past : Nat] /\ epub.past + epub.seq <= EncMaxSeq
    /\ eseen \subseteq EncReaders /\ IsFiniteSet(eseen)
    /\ IsFiniteSet(egot) /\ \A g \in egot : GivenOut(g)

\* On a connection packets are in order and of one life, the present one
\* while it is open.
Follows(p, q) == p.life = q.life /\ p.seq < q.seq
OnConn(r, p) == GivenOut(Id(p)) /\ (econn[r] = "open" => p.life = epub.life)
EncWires ==
    \A r \in EncReaders :
        /\ \A i \in 1 .. Len(ewire[r]) : ewire[r][i] # Torn =>
              /\ OnConn(r, ewire[r][i])
              /\ ecount[r] => Follows(epkt[r], ewire[r][i])
              /\ \A j \in i + 1 .. Len(ewire[r]) : ewire[r][j] # Torn => Follows(ewire[r][i], ewire[r][j])
        /\ ecount[r] => epkt[r] # Torn /\ OnConn(r, epkt[r])

\* The packets a reader may still count.
Ahead(r, p) ==
    /\ p # Torn
    /\ \/ ecount[r] /\ epkt[r] = p
       \/ \E i \in 1 .. Len(ewire[r]) : ewire[r][i] = p

\* How far the counters have come in a life, when top is the last counted.
Reached(top, life) == IF top[1] = life THEN top[2] ELSE 0
\* A packet ahead is newer than top, and if its life is over, the past has room
\* for it beside what is counted.
HasRoom(top, p) ==
    /\ Older(top, Id(p))
    /\ p.life < epub.life => etrk.packets + etrk.missing + p.seq <= epub.past + Reached(top, p.life)

\* The tracker when top is the newest counted packet (<<0, 0>> before the first).
Summed(top) ==
    /\ IF egot = {} THEN top = <<0, 0>> ELSE top \in egot
    /\ \A g \in egot : g = top \/ Older(g, top)
    /\ etrk.last = top[2] /\ (etrk.has <=> egot # {})
    /\ etrk.packets = Cardinality(egot)
    /\ etrk.packets + etrk.missing <= epub.past + Reached(top, epub.life)
    /\ epub.life = 1 => etrk.missing = Cardinality(Holes)
    /\ \A r \in EncReaders : eseen \subseteq {r} =>
          /\ \A p \in EncPackets : Ahead(r, p) => HasRoom(top, p)
          /\ ecount[r] => eprev[r] = <<etrk.has, etrk.last>>

\* One reader alone has used the client.
OneReader == \A a, b \in eseen : a = b

\* The inductive invariant. While one reader alone has counted, the counters
\* are sums over the packets up to the last counted one.
EncInv ==
    /\ EncTypes /\ EncWires
    /\ etrk.gaps <= etrk.missing /\ Cardinality(egot) <= etrk.packets
    /\ OneReader => \E top \in Nat \X Nat : Summed(top)

\* What reading, appending and looking at a socket's content gives.
LEMMA WireFacts ==
    ASSUME EncTypes, NEW r \in EncReaders
    PROVE  /\ ewire[r] \in Seq(EncPackets) /\ Len(ewire[r]) \in Nat
           /\ \A i \in 1 .. Len(ewire[r]) : ewire[r][i] \in EncPackets
           /\ ewire[r] # <<>> =>
                /\ Head(ewire[r]) = ewire[r][1] /\ Len(ewire[r]) >= 1
                /\ Tail(ewire[r]) \in Seq(EncPackets) /\ Len(Tail(ewire[r])) = Len(ewire[r]) - 1
                /\ \A i \in 1 .. Len(ewire[r]) - 1 : Tail(ewire[r])[i] = ewire[r][i + 1]
           /\ \A p \in EncPackets :
                /\ Append(ewire[r], p) \in Seq(EncPackets)
                /\ Len(Append(ewire[r], p)) = Len(ewire[r]) + 1
                /\ \A i \in 1 .. Len(ewire[r]) : Append(ewire[r], p)[i] = ewire[r][i]
                /\ Append(ewire[r], p)[Len(ewire[r]) + 1] = p
  <1>1. ewire[r] \in Seq(EncPackets) BY DEF EncTypes
  <1>2. Len(ewire[r]) \in Nat /\ \A i \in 1 .. Len(ewire[r]) : ewire[r][i] \in EncPackets
    BY <1>1, LenProperties
  <1>3. ASSUME ewire[r] # <<>>
        PROVE  /\ Head(ewire[r]) = ewire[r][1] /\ Len(ewire[r]) >= 1
               /\ Tail(ewire[r]) \in Seq(EncPackets) /\ Len(Tail(ewire[r])) = Len(ewire[r]) - 1
               /\ \A i \in 1 .. Len(ewire[r]) - 1 : Tail(ewire[r])[i] = ewire[r][i + 1]
    BY <1>1, <1>2, <1>3, HeadTailProperties, EmptySeq
  <1>4. ASSUME NEW p \in EncPackets
        PROVE  /\ Append(ewire[r], p) \in Seq(EncPackets)
               /\ Len(Append(ewire[r], p)) = Len(ewire[r]) + 1
               /\ \A i \in 1 .. Len(ewire[r]) : Append(ewire[r], p)[i] = ewire[r][i]
               /\ Append(ewire[r], p)[Len(ewire[r]) + 1] = p
    BY <1>1, AppendProperties
  <1> QED BY <1>1, <1>2, <1>3, <1>4

\* A cut leaves the content as it is or with a torn packet at its end.
LEMMA CutWire ==
    ASSUME EncTypes, NEW r \in EncReaders, NEW tail \in {<<>>, <<Torn>>}
    PROVE  ewire[r] \o tail \in {ewire[r], Append(ewire[r], Torn)} /\ Torn \in EncPackets
  <1>1. Torn \in EncPackets BY DEF Torn, EncPackets
  <1>2. ewire[r] \in Seq(EncPackets) BY DEF EncTypes
  <1>3. CASE tail = <<>> BY <1>1, <1>2, <1>3, ConcatEmptySeq
  <1>4. CASE tail = <<Torn>> BY <1>1, <1>2, <1>4, AppendIsConcat
  <1> QED BY <1>1, <1>3, <1>4

\* Types, and that everything counted was given out, are kept by a step.
LEMMA EncTypesKept ==
    ASSUME EncTypes, EncWires, [EncNext]_evars
    PROVE  EncTypes'
  <1> USE DEF EncTypes
  <1>0. \A r \in EncReaders : <<>> \in Seq(EncPackets) /\ Torn \in EncPackets
    BY EmptySeq DEF Torn, EncPackets
  <1>1. ASSUME NEW r \in EncReaders, EncConnects(r) PROVE EncTypes'
    BY <1>0, <1>1 DEF EncConnects, GivenOut
  <1>2. ASSUME NEW r \in EncReaders, EncConnectFails(r) PROVE EncTypes'
    BY <1>2 DEF EncConnectFails, GivenOut
  <1>3. ASSUME NEW r \in EncReaders, EncReadFails(r) PROVE EncTypes'
    BY <1>0, <1>3 DEF EncReadFails, AfterFailure, GivenOut
  <1>4. ASSUME NEW r \in EncReaders, EncReads(r) PROVE EncTypes'
    <2>1. Head(ewire[r]) \in EncPackets /\ Tail(ewire[r]) \in Seq(EncPackets)
      BY <1>4, WireFacts DEF EncReads
    <2>2. <<etrk.has, etrk.last>> \in BOOLEAN \X Nat OBVIOUS
    <2> QED BY <1>4, <2>1, <2>2 DEF EncReads, GivenOut
  <1>5. ASSUME NEW r \in EncReaders, EncCounts(r) PROVE EncTypes'
    <2>1. OnConn(r, epkt[r]) BY <1>5 DEF EncCounts, EncWires
    <2>2. GivenOut(<<epkt[r].life, epkt[r].seq>>) BY <2>1 DEF OnConn, Id
    <2>3. \A g \in egot' : GivenOut(g)' BY <1>5, <2>2 DEF EncCounts, GivenOut
    <2>4. IsFiniteSet(egot') BY <1>5, FS_AddElement DEF EncCounts
    <2>5. IsFiniteSet(eseen') /\ eseen' \subseteq EncReaders BY <1>5, FS_AddElement DEF EncCounts
    <2>6. etrk' \in [packets : Nat, gaps : Nat, missing : Nat, last : Nat, has : BOOLEAN]
      <3>1. eprev[r] \in BOOLEAN \X Nat /\ epkt[r].seq \in Nat BY DEF EncPackets
      <3>2. eprev[r][1] \in BOOLEAN /\ eprev[r][2] \in Nat BY <3>1
      <3>3. epkt[r].seq > eprev[r][2] + 1 => epkt[r].seq - eprev[r][2] - 1 \in Nat BY <3>1, <3>2
      <3>4. etrk' = Observed(eprev[r], epkt[r].seq) BY <1>5 DEF EncCounts
      <3>5. CASE eprev[r][1] /\ epkt[r].seq > eprev[r][2] + 1
        <4>1. etrk' = [packets |-> etrk.packets + 1, gaps |-> etrk.gaps + 1,
                       missing |-> etrk.missing + (epkt[r].seq - eprev[r][2] - 1), last |-> epkt[r].seq, has |-> TRUE]
          BY <3>4, <3>5 DEF Observed
        <4>2. PICK m \in Nat : m = etrk.missing + (epkt[r].seq - eprev[r][2] - 1) BY <3>3, <3>5
        <4>3. etrk.packets + 1 \in Nat /\ etrk.gaps + 1 \in Nat OBVIOUS
        <4> HIDE DEF EncTypes
        <4> QED BY <3>1, <4>1, <4>2, <4>3
      <3>6. CASE ~(eprev[r][1] /\ epkt[r].seq > eprev[r][2] + 1)
        BY <3>1, <3>2, <3>4, <3>6 DEF Observed
      <3> QED BY <3>5, <3>6
    <2>7. <<FALSE, 0>> \in BOOLEAN \X Nat OBVIOUS
    <2> QED BY <1>0, <1>5, <2>3, <2>4, <2>5, <2>6, <2>7 DEF EncCounts
  <1>6. ASSUME NEW r \in EncReaders, EncFreshStream(r) PROVE EncTypes'
    BY <1>6 DEF EncFreshStream, GivenOut
  <1>7. ASSUME NEW r \in EncReaders, EncClose(r) PROVE EncTypes'
    BY <1>0, <1>7 DEF EncClose, GivenOut
  <1>8. ASSUME NEW r \in EncReaders, EncCut(r) PROVE EncTypes'
    <2>1. PICK tail \in {<<>>, <<Torn>>} : ewire' = [ewire EXCEPT ![r] = @ \o tail]
      BY <1>8 DEF EncCut
    <2>2. ewire[r] \o tail \in Seq(EncPackets)
      <3>1. Append(ewire[r], Torn) \in Seq(EncPackets) /\ ewire[r] \in Seq(EncPackets) BY <1>0, WireFacts
      <3> HIDE DEF EncTypes
      <3>2. ewire[r] \o tail \in {ewire[r], Append(ewire[r], Torn)} BY CutWire
      <3> QED BY <3>1, <3>2
    <2> QED BY <1>8, <2>1, <2>2 DEF EncCut, GivenOut
  <1>9. CASE EncPublish
    <2>1. [life |-> epub.life, seq |-> epub.seq + 1] \in EncPackets BY DEF EncPackets
    <2>2. PICK to \in SUBSET Listening :
            ewire' = [r \in EncReaders |-> IF r \in to
                        THEN Append(ewire[r], [life |-> epub.life, seq |-> epub.seq + 1]) ELSE ewire[r]]
      BY <1>9 DEF EncPublish
    <2>3. ewire' \in [EncReaders -> Seq(EncPackets)] BY <2>1, <2>2, WireFacts
    <2>4. epub' = [epub EXCEPT !.seq = @ + 1] /\ epub.past + epub.seq < EncMaxSeq BY <1>9 DEF EncPublish
    <2>5. epub' \in [life : Nat \ {0}, seq : Nat, past : Nat] /\ epub'.past + epub'.seq <= EncMaxSeq
      <3>1. epub' = [life |-> epub.life, seq |-> epub.seq + 1, past |-> epub.past] BY <2>4
      <3>2. EncMaxSeq \in Nat /\ epub.seq + 1 \in Nat /\ epub.past \in Nat /\ epub.life \in Nat \ {0}
        BY EncAssumption
      <3>3. epub.past + (epub.seq + 1) <= EncMaxSeq BY <2>4, <3>2
      <3> QED BY <3>1, <3>2, <3>3
    <2>6. \A g \in egot : GivenOut(g)' BY <2>4 DEF GivenOut
    <2> QED BY <1>9, <2>3, <2>5, <2>6 DEF EncPublish
  <1>10. CASE EncRestart
    <2>1. epub' = [life |-> epub.life + 1, seq |-> 0, past |-> epub.past + epub.seq] BY <1>10 DEF EncRestart
    <2>2. epub' \in [life : Nat \ {0}, seq : Nat, past : Nat] /\ epub'.past + epub'.seq <= EncMaxSeq
      BY <2>1, EncAssumption
    <2>3. \A g \in egot : GivenOut(g)' BY <2>1 DEF GivenOut
    <2>4. econn' \in [EncReaders -> {"none", "open", "eof"}] BY <1>10 DEF EncRestart
    <2> QED BY <1>10, <2>2, <2>3, <2>4 DEF EncRestart
  <1>11. CASE UNCHANGED evars BY <1>11 DEF evars, GivenOut
  <1> QED BY <1>1, <1>2, <1>3, <1>4, <1>5, <1>6, <1>7, <1>8, <1>9, <1>10, <1>11 DEF EncNext

\* The order on each connection is kept: the publisher appends newer packets,
\* a reader takes the first, and a new connection begins empty.
LEMMA EncWiresKept ==
    ASSUME EncTypes, EncWires, [EncNext]_evars
    PROVE  EncWires'
  <1> DEFINE Good(r) == /\ \A i \in 1 .. Len(ewire[r]) : ewire[r][i] # Torn =>
                             /\ OnConn(r, ewire[r][i])
                             /\ ecount[r] => Follows(epkt[r], ewire[r][i])
                             /\ \A j \in i + 1 .. Len(ewire[r]) :
                                   ewire[r][j] # Torn => Follows(ewire[r][i], ewire[r][j])
                        /\ ecount[r] => epkt[r] # Torn /\ OnConn(r, epkt[r])
  <1>0. \A r \in EncReaders : Good(r) BY DEF EncWires
  <1> SUFFICES ASSUME NEW u \in EncReaders PROVE Good(u)' BY DEF EncWires
  <1>a. Good(u) BY <1>0
  <1>b. Len(<<>>) = 0 OBVIOUS
  <1>c. u \in EncReaders /\ EncTypes /\ ecount[u] \in BOOLEAN BY DEF EncTypes
  <1> HIDE DEF Good
  <1>k. ASSUME ewire'[u] = ewire[u], ecount'[u] = ecount[u], epkt'[u] = epkt[u],
               econn'[u] = econn[u] \/ econn'[u] # "open", epub' = epub
        PROVE  Good(u)'
    BY <1>a, <1>k DEF Good, OnConn, GivenOut
  <1>e. ASSUME ewire'[u] = <<>>, ~ecount'[u] PROVE Good(u)' BY <1>b, <1>e DEF Good
  <1>1. ASSUME NEW r \in EncReaders, EncConnects(r) PROVE Good(u)'
    <2>1. CASE r = u BY <1>1, <1>c, <1>e, <2>1 DEF EncConnects, Connecting, EncTypes
    <2>2. CASE r # u BY <1>1, <1>k, <2>2 DEF EncConnects, EncTypes
    <2> QED BY <2>1, <2>2
  <1>2. ASSUME NEW r \in EncReaders, EncConnectFails(r) PROVE Good(u)'
    BY <1>2, <1>k DEF EncConnectFails
  <1>3. ASSUME NEW r \in EncReaders, EncReadFails(r) PROVE Good(u)'
    <2>1. CASE r = u BY <1>3, <1>c, <1>e, <2>1 DEF EncReadFails, AfterFailure, Reading, EncTypes
    <2>2. CASE r # u BY <1>3, <1>k, <2>2 DEF EncReadFails, AfterFailure, EncTypes
    <2> QED BY <2>1, <2>2
  <1>4. ASSUME NEW r \in EncReaders, EncReads(r) PROVE Good(u)'
    <2>1. CASE r = u
      <3>1. ewire[u] # <<>> /\ Head(ewire[u]) # Torn /\ ewire'[u] = Tail(ewire[u]) /\ epkt'[u] = Head(ewire[u])
            /\ ecount'[u] /\ econn' = econn /\ epub' = epub
        BY <1>4, <2>1 DEF EncReads, EncTypes
      <3>2. /\ Len(ewire[u]) \in Nat /\ Len(ewire[u]) >= 1 /\ Head(ewire[u]) = ewire[u][1]
            /\ Len(ewire'[u]) = Len(ewire[u]) - 1
            /\ \A i \in 1 .. Len(ewire[u]) - 1 : ewire'[u][i] = ewire[u][i + 1]
        BY <3>1, <1>c, WireFacts
      <3>3. epkt'[u] # Torn /\ OnConn(u, epkt[u])' BY <1>a, <3>1, <3>2 DEF Good, OnConn, GivenOut
      <3>4. ASSUME NEW i \in 1 .. Len(ewire'[u]), ewire'[u][i] # Torn
            PROVE  /\ OnConn(u, ewire[u][i])' /\ Follows(epkt'[u], ewire'[u][i])
                   /\ \A j \in i + 1 .. Len(ewire'[u]) : ewire'[u][j] # Torn => Follows(ewire'[u][i], ewire'[u][j])
        <4>1. i + 1 \in 2 .. Len(ewire[u]) /\ ewire'[u][i] = ewire[u][i + 1] BY <3>2
        <4>2. OnConn(u, ewire[u][i + 1]) /\ Follows(ewire[u][1], ewire[u][i + 1])
          BY <1>a, <3>1, <3>2, <3>4, <4>1 DEF Good
        <4>3. ASSUME NEW j \in i + 1 .. Len(ewire'[u]), ewire'[u][j] # Torn
              PROVE  Follows(ewire'[u][i], ewire'[u][j])
          <5>1. j + 1 \in (i + 1) + 1 .. Len(ewire[u]) /\ ewire'[u][j] = ewire[u][j + 1] BY <3>2, <4>3
          <5>2. i + 1 \in 1 .. Len(ewire[u]) BY <4>1, <3>2
          <5> QED BY <1>a, <3>4, <4>1, <4>3, <5>1, <5>2 DEF Good
        <4> QED BY <3>1, <3>2, <4>1, <4>2, <4>3 DEF OnConn, GivenOut
      <3> QED BY <3>3, <3>4 DEF Good
    <2>2. CASE r # u BY <1>4, <1>k, <2>2 DEF EncReads, EncTypes
    <2> QED BY <2>1, <2>2
  <1>5. ASSUME NEW r \in EncReaders, EncCounts(r) PROVE Good(u)'
    <2>1. CASE r = u
      <3>1. ewire' = ewire /\ ~ecount'[u] /\ econn' = econn /\ epub' = epub
        BY <1>5, <2>1 DEF EncCounts, EncTypes
      <3> QED BY <1>a, <3>1 DEF Good, OnConn, GivenOut
    <2>2. CASE r # u BY <1>5, <1>k, <2>2 DEF EncCounts, EncTypes
    <2> QED BY <2>1, <2>2
  <1>6. ASSUME NEW r \in EncReaders, EncFreshStream(r) PROVE Good(u)'
    BY <1>6, <1>k DEF EncFreshStream
  <1>7. ASSUME NEW r \in EncReaders, EncClose(r) PROVE Good(u)'
    <2>1. CASE r = u BY <1>7, <1>c, <1>e, <2>1 DEF EncClose, Reading, EncTypes
    <2>2. CASE r # u BY <1>7, <1>k, <2>2 DEF EncClose, EncTypes
    <2> QED BY <2>1, <2>2
  <1>8. ASSUME NEW r \in EncReaders, EncCut(r) PROVE Good(u)'
    <2>1. PICK tail \in {<<>>, <<Torn>>} : ewire' = [ewire EXCEPT ![r] = @ \o tail]
      BY <1>8 DEF EncCut
    <2>2. ecount' = ecount /\ epkt' = epkt /\ epub' = epub BY <1>8 DEF EncCut
    <2>3. CASE r # u BY <1>8, <1>k, <2>1, <2>2, <2>3 DEF EncCut, EncTypes
    <2>4. CASE r = u
      <3>1. econn'[u] = "eof" BY <1>8, <2>4 DEF EncCut, EncTypes
      <3>2. ewire'[u] = ewire[u] \o tail BY <2>1, <2>4 DEF EncTypes
      <3>3. CASE ewire'[u] = ewire[u] BY <1>k, <2>2, <3>1, <3>3
      <3>4. CASE ewire'[u] = Append(ewire[u], Torn)
        <4>1. /\ Len(ewire[u]) \in Nat /\ Len(ewire'[u]) = Len(ewire[u]) + 1
              /\ \A i \in 1 .. Len(ewire[u]) : ewire'[u][i] = ewire[u][i]
              /\ ewire'[u][Len(ewire[u]) + 1] = Torn
          BY <3>4, <1>c, CutWire, WireFacts
        <4>2. ASSUME NEW i \in 1 .. Len(ewire'[u]), ewire'[u][i] # Torn
              PROVE  i \in 1 .. Len(ewire[u]) /\ ewire'[u][i] = ewire[u][i]
          BY <4>1, <4>2
        <4>3. ASSUME NEW i \in 1 .. Len(ewire'[u]), ewire'[u][i] # Torn
              PROVE  /\ OnConn(u, ewire[u][i])' /\ (ecount'[u] => Follows(epkt'[u], ewire'[u][i]))
                     /\ \A j \in i + 1 .. Len(ewire'[u]) : ewire'[u][j] # Torn => Follows(ewire'[u][i], ewire'[u][j])
          <5>1. i \in 1 .. Len(ewire[u]) /\ ewire'[u][i] = ewire[u][i] BY <4>2, <4>3
          <5>2. OnConn(u, ewire[u][i]) /\ (ecount[u] => Follows(epkt[u], ewire[u][i]))
            BY <1>a, <4>3, <5>1 DEF Good
          <5>3. ASSUME NEW j \in i + 1 .. Len(ewire'[u]), ewire'[u][j] # Torn
                PROVE  Follows(ewire'[u][i], ewire'[u][j])
            <6>1. j \in 1 .. Len(ewire'[u]) BY <5>1, <4>1
            <6>2. j \in i + 1 .. Len(ewire[u]) /\ ewire'[u][j] = ewire[u][j] BY <5>3, <4>2, <6>1
            <6> QED BY <1>a, <4>3, <5>1, <5>3, <6>2 DEF Good
          <5> QED BY <2>2, <3>1, <5>1, <5>2, <5>3 DEF OnConn, GivenOut
        <4>4. ecount'[u] => epkt'[u] # Torn /\ OnConn(u, epkt[u])'
          BY <1>a, <2>2, <3>1 DEF Good, OnConn, GivenOut
        <4> QED BY <4>3, <4>4 DEF Good
      <3> QED BY <3>2, <3>3, <3>4, <1>c, CutWire
    <2> QED BY <2>3, <2>4
  <1>9. CASE EncPublish
    <2>0. PICK new \in EncPackets : new = [life |-> epub.life, seq |-> epub.seq + 1]
      <3>1. epub.life \in Nat /\ epub.seq + 1 \in Nat BY DEF EncTypes
      <3> QED BY <3>1 DEF EncPackets
    <2>1. PICK to \in SUBSET Listening :
            ewire' = [r \in EncReaders |-> IF r \in to THEN Append(ewire[r], new) ELSE ewire[r]]
      BY <1>9, <2>0 DEF EncPublish
    <2>2. ecount' = ecount /\ epkt' = epkt /\ econn' = econn /\ epub' = [epub EXCEPT !.seq = @ + 1]
          /\ epub.past + epub.seq < EncMaxSeq
      BY <1>9 DEF EncPublish
    <2>3. epub \in [life : Nat \ {0}, seq : Nat, past : Nat] BY DEF EncTypes
    <2>4. /\ epub'.life = epub.life /\ epub'.seq = epub.seq + 1
          /\ GivenOut(Id(new))' /\ new # Torn /\ new.life = epub.life /\ new.seq = epub.seq + 1
      <3>1. epub'.life = epub.life /\ epub'.seq = epub.seq + 1 BY <2>2, <2>3
      <3>2. new # Torn /\ new.life = epub.life /\ new.seq = epub.seq + 1 BY <2>0, <2>3 DEF Torn
      <3>3. epub.seq + 1 \in 1 .. EncMaxSeq BY <2>2, <2>3, EncAssumption
      <3> QED BY <2>3, <3>1, <3>2, <3>3 DEF GivenOut, Id
    <2>5. \A p : OnConn(u, p) => OnConn(u, p)' BY <2>2, <2>3, <2>4 DEF OnConn, GivenOut
    <2>6. CASE u \notin to
      <3>1. ewire'[u] = ewire[u] BY <2>1, <2>6
      <3> QED BY <1>a, <2>2, <2>5, <3>1 DEF Good
    <2>7. CASE u \in to
      <3>1. econn[u] = "open" /\ ewire'[u] = Append(ewire[u], new) BY <2>1, <2>7 DEF Listening
      <3>2. /\ Len(ewire[u]) \in Nat /\ Len(ewire'[u]) = Len(ewire[u]) + 1
            /\ \A i \in 1 .. Len(ewire[u]) : ewire'[u][i] = ewire[u][i]
            /\ ewire'[u][Len(ewire[u]) + 1] = new
        BY <2>4, <3>1, <1>c, WireFacts
      <3>3. OnConn(u, new)' BY <2>4 DEF OnConn
      <3>4. \A p : OnConn(u, p) => Follows(p, new)
        BY <2>3, <2>4, <3>1 DEF OnConn, GivenOut, Id, Follows
      <3>5. ASSUME NEW i \in 1 .. Len(ewire'[u]), ewire'[u][i] # Torn
            PROVE  /\ OnConn(u, ewire[u][i])' /\ (ecount'[u] => Follows(epkt'[u], ewire'[u][i]))
                   /\ \A j \in i + 1 .. Len(ewire'[u]) : ewire'[u][j] # Torn => Follows(ewire'[u][i], ewire'[u][j])
        <4>1. CASE i \in 1 .. Len(ewire[u])
          <5>1. ewire'[u][i] = ewire[u][i] BY <3>2, <4>1
          <5>2. OnConn(u, ewire[u][i]) /\ (ecount[u] => Follows(epkt[u], ewire[u][i]))
            BY <1>a, <3>5, <4>1, <5>1 DEF Good
          <5>3. ASSUME NEW j \in i + 1 .. Len(ewire'[u]), ewire'[u][j] # Torn
                PROVE  Follows(ewire'[u][i], ewire'[u][j])
            <6>1. CASE j = Len(ewire[u]) + 1 BY <3>2, <3>4, <5>1, <5>2, <6>1
            <6>2. CASE j # Len(ewire[u]) + 1
              <7>1. j \in i + 1 .. Len(ewire[u]) /\ j \in 1 .. Len(ewire[u]) BY <3>2, <4>1, <6>2
              <7> QED BY <1>a, <3>2, <3>5, <4>1, <5>1, <5>3, <7>1 DEF Good
            <6> QED BY <6>1, <6>2
          <5> QED BY <2>2, <2>5, <5>1, <5>2, <5>3
        <4>2. CASE i = Len(ewire[u]) + 1
          <5>1. ecount[u] => OnConn(u, epkt[u]) BY <1>a DEF Good
          <5> QED BY <2>2, <3>2, <3>3, <3>4, <4>2, <5>1
        <4> QED BY <3>2, <4>1, <4>2
      <3>6. ecount'[u] => epkt'[u] # Torn /\ OnConn(u, epkt[u])' BY <1>a, <2>2, <2>5 DEF Good
      <3> QED BY <3>5, <3>6 DEF Good
    <2> QED BY <2>6, <2>7
  <1>10. CASE EncRestart
    <2>1. /\ epub' = [life |-> epub.life + 1, seq |-> 0, past |-> epub.past + epub.seq]
          /\ ewire' = ewire /\ ecount' = ecount /\ epkt' = epkt /\ econn'[u] # "open"
      BY <1>10 DEF EncRestart
    <2>2. epub \in [life : Nat \ {0}, seq : Nat, past : Nat] BY DEF EncTypes
    <2>3. \A p : OnConn(u, p) => OnConn(u, p)' BY <2>1, <2>2 DEF OnConn, GivenOut
    <2> QED BY <1>a, <2>1, <2>3 DEF Good
  <1>11. CASE UNCHANGED evars BY <1>11, <1>k DEF evars
  <1> QED BY <1>1, <1>2, <1>3, <1>4, <1>5, <1>6, <1>7, <1>8, <1>9, <1>10, <1>11 DEF EncNext

\* What a step adds to the packets a reader may still count, and what it
\* leaves alone unless it counts one.
LEMMA AheadStep ==
    ASSUME EncTypes, EncWires, [EncNext]_evars, NEW u \in EncReaders, NEW p \in EncPackets, Ahead(u, p)'
    PROVE  \/ Ahead(u, p) /\ (EncCounts(u) => Follows(epkt[u], p))
           \/ EncPublish /\ p = [life |-> epub.life, seq |-> epub.seq + 1]
  <1>0. ecount[u] \in BOOLEAN /\ Len(<<>>) = 0 BY DEF EncTypes
  <1>k. ASSUME ewire'[u] = ewire[u], ecount'[u] = ecount[u], epkt'[u] = epkt[u], ~EncCounts(u)
        PROVE  Ahead(u, p) /\ ~EncCounts(u)
    BY <1>k DEF Ahead
  <1>e. ASSUME ewire'[u] = <<>>, ~ecount'[u] PROVE FALSE BY <1>0, <1>e DEF Ahead
  <1>c. EncCounts(u) => ecount[u] /\ ~ecount'[u] BY DEF EncCounts, EncTypes
  <1>1. ASSUME NEW r \in EncReaders, EncConnects(r) PROVE Ahead(u, p) /\ ~EncCounts(u)
    <2>1. CASE r = u BY <1>1, <1>e, <2>1 DEF EncConnects, Connecting, EncTypes
    <2>2. CASE r # u BY <1>1, <1>k, <1>c, <2>2 DEF EncConnects, EncTypes
    <2> QED BY <2>1, <2>2
  <1>2. ASSUME NEW r \in EncReaders, EncConnectFails(r) PROVE Ahead(u, p) /\ ~EncCounts(u)
    BY <1>2, <1>k, <1>c DEF EncConnectFails
  <1>3. ASSUME NEW r \in EncReaders, EncReadFails(r) PROVE Ahead(u, p) /\ ~EncCounts(u)
    <2>1. CASE r = u BY <1>3, <1>e, <2>1 DEF EncReadFails, AfterFailure, Reading, EncTypes
    <2>2. CASE r # u BY <1>3, <1>k, <1>c, <2>2 DEF EncReadFails, AfterFailure, EncTypes
    <2> QED BY <2>1, <2>2
  <1>4. ASSUME NEW r \in EncReaders, EncReads(r) PROVE Ahead(u, p) /\ ~EncCounts(u)
    <2>1. CASE r = u
      <3>1. ewire[u] # <<>> /\ ewire'[u] = Tail(ewire[u]) /\ epkt'[u] = Head(ewire[u]) /\ ~ecount[u]
        BY <1>4, <2>1 DEF EncReads, Reading, EncTypes
      <3>2. /\ Len(ewire[u]) \in Nat /\ Len(ewire[u]) >= 1 /\ Head(ewire[u]) = ewire[u][1]
            /\ Len(ewire'[u]) = Len(ewire[u]) - 1
            /\ \A i \in 1 .. Len(ewire[u]) - 1 : ewire'[u][i] = ewire[u][i + 1]
        BY <3>1, WireFacts
      <3>3. CASE p = epkt'[u] BY <1>c, <3>1, <3>2, <3>3 DEF Ahead
      <3>4. CASE \E i \in 1 .. Len(ewire'[u]) : ewire'[u][i] = p
        <4>1. PICK i \in 1 .. Len(ewire'[u]) : ewire'[u][i] = p BY <3>4
        <4>2. i + 1 \in 1 .. Len(ewire[u]) /\ ewire[u][i + 1] = p BY <3>2, <4>1
        <4> QED BY <1>c, <3>1, <4>2 DEF Ahead
      <3> QED BY <3>3, <3>4 DEF Ahead
    <2>2. CASE r # u BY <1>4, <1>k, <1>c, <2>2 DEF EncReads, EncTypes
    <2> QED BY <2>1, <2>2
  <1>5. ASSUME NEW r \in EncReaders, EncCounts(r)
        PROVE  Ahead(u, p) /\ (EncCounts(u) => Follows(epkt[u], p))
    <2>1. CASE r = u
      <3>1. ewire' = ewire /\ ~ecount'[u] /\ ecount[u] BY <1>5, <2>1 DEF EncCounts, EncTypes
      <3> QED BY <3>1 DEF Ahead, EncWires
    <2>2. CASE r # u
      <3>1. ewire'[u] = ewire[u] /\ ecount'[u] = ecount[u] /\ epkt'[u] = epkt[u]
        BY <1>5, <2>2 DEF EncCounts, EncTypes
      <3> QED BY <1>k, <1>c, <3>1
    <2> QED BY <2>1, <2>2
  <1>6. ASSUME NEW r \in EncReaders, EncFreshStream(r) PROVE Ahead(u, p) /\ ~EncCounts(u)
    BY <1>6, <1>k, <1>c DEF EncFreshStream
  <1>7. ASSUME NEW r \in EncReaders, EncClose(r) PROVE Ahead(u, p) /\ ~EncCounts(u)
    <2>1. CASE r = u BY <1>7, <1>e, <2>1 DEF EncClose, Reading, EncTypes
    <2>2. CASE r # u BY <1>7, <1>k, <1>c, <2>2 DEF EncClose, EncTypes
    <2> QED BY <2>1, <2>2
  <1>8. ASSUME NEW r \in EncReaders, EncCut(r) PROVE Ahead(u, p) /\ ~EncCounts(u)
    <2>1. PICK tail \in {<<>>, <<Torn>>} : ewire' = [ewire EXCEPT ![r] = @ \o tail]
      BY <1>8 DEF EncCut
    <2>2. ecount' = ecount /\ epkt' = epkt BY <1>8 DEF EncCut
    <2>3. ewire'[u] \in {ewire[u], Append(ewire[u], Torn)} BY <2>1, CutWire DEF EncTypes
    <2>4. CASE ewire'[u] = ewire[u] BY <1>k, <1>c, <2>2, <2>4
    <2>5. CASE ewire'[u] = Append(ewire[u], Torn)
      <3>1. /\ Len(ewire[u]) \in Nat /\ Len(ewire'[u]) = Len(ewire[u]) + 1
            /\ \A i \in 1 .. Len(ewire[u]) : ewire'[u][i] = ewire[u][i]
            /\ ewire'[u][Len(ewire[u]) + 1] = Torn
        BY <2>5, CutWire, WireFacts
      <3> QED BY <1>c, <2>2, <3>1 DEF Ahead
    <2> QED BY <2>3, <2>4, <2>5
  <1>9. CASE EncPublish
    <2>0. PICK new \in EncPackets : new = [life |-> epub.life, seq |-> epub.seq + 1]
      <3>1. epub.life \in Nat /\ epub.seq + 1 \in Nat BY DEF EncTypes
      <3> QED BY <3>1 DEF EncPackets
    <2>1. ewire'[u] \in {ewire[u], Append(ewire[u], new)} BY <1>9, <2>0 DEF EncPublish
    <2>2. ecount' = ecount /\ epkt' = epkt BY <1>9 DEF EncPublish
    <2>3. CASE ewire'[u] = ewire[u] BY <1>k, <1>c, <2>2, <2>3
    <2>4. CASE ewire'[u] = Append(ewire[u], new)
      <3>1. /\ Len(ewire[u]) \in Nat /\ Len(ewire'[u]) = Len(ewire[u]) + 1
            /\ \A i \in 1 .. Len(ewire[u]) : ewire'[u][i] = ewire[u][i]
            /\ ewire'[u][Len(ewire[u]) + 1] = new
        BY <2>4, WireFacts
      <3> QED BY <1>9, <1>c, <2>0, <2>2, <3>1 DEF Ahead
    <2> QED BY <2>1, <2>3, <2>4
  <1>10. CASE EncRestart BY <1>10, <1>k, <1>c DEF EncRestart
  <1>11. CASE UNCHANGED evars BY <1>11, <1>k, <1>c DEF evars
  <1> QED BY <1>1, <1>2, <1>3, <1>4, <1>5, <1>6, <1>7, <1>8, <1>9, <1>10, <1>11 DEF EncNext

\* Being older is an order on the identities of packets.
LEMMA OlderFacts ==
    ASSUME NEW f \in Nat \X Nat, NEW g \in Nat \X Nat, NEW h \in Nat \X Nat
    PROVE  (Older(f, g) /\ Older(g, h) => Older(f, h)) /\ ~Older(f, f) /\ f = <<f[1], f[2]>>
  <1>1. f[1] \in Nat /\ f[2] \in Nat /\ g[1] \in Nat /\ g[2] \in Nat /\ h[1] \in Nat /\ h[2] \in Nat
    OBVIOUS
  <1>2. f = <<f[1], f[2]>> OBVIOUS
  <1> QED BY <1>1, <1>2 DEF Older

\* The two numbers of a packet.
LEMMA PacketFacts ==
    ASSUME NEW p \in EncPackets
    PROVE  /\ p.life \in Nat /\ p.seq \in Nat /\ Id(p) \in Nat \X Nat
           /\ Id(p)[1] = p.life /\ Id(p)[2] = p.seq
  BY DEF EncPackets, Id

\* What a reader may still count was given out.
LEMMA AheadFacts ==
    ASSUME EncTypes, EncWires, NEW u \in EncReaders, NEW p \in EncPackets, Ahead(u, p)
    PROVE  GivenOut(Id(p))
  BY DEF Ahead, EncWires, OnConn

\* The last counted packet was given out; before the first there is none.
LEMMA TopFacts ==
    ASSUME EncTypes, NEW top, Summed(top)
    PROVE  /\ top \in Nat \X Nat /\ top[1] \in Nat /\ top[2] \in Nat
           /\ top[1] <= epub.life /\ (top[1] = epub.life => top[2] <= epub.seq)
           /\ egot # {} => top[1] >= 1 /\ top \in egot
           /\ egot = {} => top[1] = 0 /\ top[2] = 0
           /\ epub.life >= 1 /\ \A life : Reached(top, life) \in Nat
  <1>1. CASE egot = {}
    <2>1. top = <<0, 0>> BY <1>1 DEF Summed
    <2>2. top[1] = 0 /\ top[2] = 0 /\ top \in Nat \X Nat BY <2>1
    <2>3. epub.life \in Nat \ {0} BY DEF EncTypes
    <2> QED BY <1>1, <2>2, <2>3 DEF Reached
  <1>2. CASE egot # {}
    <2>1. top \in egot BY <1>2 DEF Summed
    <2>2. GivenOut(top) BY <2>1 DEF EncTypes
    <2>3. top[1] \in Nat \ {0} /\ top[2] \in Nat /\ top \in Nat \X Nat BY <2>2 DEF GivenOut
    <2>4. epub.life \in Nat \ {0} BY DEF EncTypes
    <2> QED BY <1>2, <2>1, <2>2, <2>3, <2>4 DEF GivenOut, Reached
  <1> QED BY <1>1, <1>2

\* Whoever loads the tracker's last number in this step loads the present one.
LoadsNow ==
    \A u \in EncReaders : ecount'[u] =>
        eprev'[u] = <<etrk.has, etrk.last>> \/ (ecount[u] /\ eprev'[u] = eprev[u])

\* A step that counts nothing keeps the sums: what it adds to the packets
\* ahead is newer, and a restart moves the numbers of a life into the past.
LEMMA QuietKept ==
    ASSUME EncTypes, EncWires, [EncNext]_evars, etrk' = etrk, egot' = egot, eseen' = eseen,
           LoadsNow,
           epub' = epub \/ EncPublish \/ EncRestart,
           NEW top, Summed(top)
    PROVE  Summed(top)'
  <1>0. /\ epub.life \in Nat \ {0} /\ epub.seq \in Nat /\ epub.past \in Nat
        /\ etrk.packets \in Nat /\ etrk.missing \in Nat
    BY DEF EncTypes
  <1>t. /\ top[1] \in Nat /\ top[2] \in Nat /\ top[1] <= epub.life /\ (top[1] = epub.life => top[2] <= epub.seq)
        /\ \A life : Reached(top, life) \in Nat
    BY TopFacts
  <1>s. etrk.packets + etrk.missing <= epub.past + Reached(top, epub.life) BY DEF Summed
  <1>1. EncPublish => epub'.life = epub.life /\ epub'.past = epub.past /\ epub'.seq = epub.seq + 1
    BY <1>0 DEF EncPublish, EncTypes
  <1>2. EncRestart => epub'.life = epub.life + 1 /\ epub'.past = epub.past + epub.seq /\ epub'.seq = 0
    BY DEF EncRestart
  <1>3. etrk.packets + etrk.missing <= epub'.past + Reached(top, epub'.life)
    BY <1>0, <1>1, <1>2, <1>s, <1>t DEF Reached
  <1>4. epub'.life = 1 => epub.life = 1 BY <1>0, <1>1, <1>2
  <1>5. epub'.life = epub.life => Holes' = Holes BY DEF Holes
  <1>6. epub'.life = 1 => etrk.missing = Cardinality(Holes') BY <1>4, <1>5 DEF Summed
  <1>7. ASSUME NEW u \in EncReaders, eseen \subseteq {u}, NEW p \in EncPackets, Ahead(u, p)'
        PROVE  HasRoom(top, p)'
    <2>0. p.life \in Nat /\ p.seq \in Nat /\ Id(p)[1] = p.life /\ Id(p)[2] = p.seq BY PacketFacts
    <2>1. CASE Ahead(u, p)
      <3>1. HasRoom(top, p) BY <1>7, <2>1 DEF Summed
      <3>2. p.life <= epub.life /\ (p.life = epub.life => p.seq <= epub.seq)
        BY <2>0, <2>1, AheadFacts DEF GivenOut
      <3>3. Older(top, Id(p)) BY <3>1 DEF HasRoom
      <3>4. ASSUME p.life < epub'.life
            PROVE  etrk.packets + etrk.missing + p.seq <= epub'.past + Reached(top, p.life)
        <4>1. CASE p.life < epub.life
          <5>1. etrk.packets + etrk.missing + p.seq <= epub.past + Reached(top, p.life)
            BY <3>1, <4>1 DEF HasRoom
          <5>2. epub'.past \in Nat /\ epub'.past >= epub.past BY <1>0, <1>1, <1>2
          <5>3. Reached(top, p.life) \in Nat BY <1>t
          <5> QED BY <1>0, <2>0, <5>1, <5>2, <5>3
        <4>2. CASE ~(p.life < epub.life)
          <5>1. p.life = epub.life /\ EncRestart BY <1>0, <1>1, <1>2, <2>0, <3>2, <3>4, <4>2
          <5>2. Reached(top, p.life) \in Nat /\ p.seq <= epub.seq /\ epub'.past = epub.past + epub.seq
            BY <1>2, <1>t, <3>2, <5>1
          <5> QED BY <1>0, <1>s, <2>0, <5>1, <5>2
        <4> QED BY <4>1, <4>2
      <3> QED BY <3>3, <3>4 DEF HasRoom
    <2>2. CASE EncPublish /\ p = [life |-> epub.life, seq |-> epub.seq + 1]
      <3>1. p.life = epub.life /\ p.seq = epub.seq + 1 BY <2>2
      <3>2. Older(top, Id(p)) BY <1>0, <1>t, <2>0, <3>1 DEF Older
      <3>3. ~(p.life < epub'.life) BY <1>0, <1>1, <2>2, <3>1
      <3> QED BY <3>2, <3>3 DEF HasRoom
    <2> QED BY <1>7, <2>1, <2>2, AheadStep
  <1>8. ASSUME NEW u \in EncReaders, eseen \subseteq {u}, ecount'[u]
        PROVE  eprev'[u] = <<etrk.has, etrk.last>>
    BY <1>8 DEF Summed, LoadsNow
  <1> QED BY <1>3, <1>6, <1>7, <1>8 DEF Summed

\* Counting packet n of the first life after packet top adds exactly the
\* numbers between them to the holes.
LEMMA HolesGrow ==
    ASSUME EncTypes, NEW n \in 1 .. EncMaxSeq, NEW top \in 1 .. EncMaxSeq, top < n,
           <<1, top>> \in egot, \A g \in egot : g[1] = 1 /\ (g[2] = top \/ g[2] < top),
           egot' = egot \cup {<<1, n>>}, epub.life = 1, epub' = epub
    PROVE  Cardinality(Holes') = Cardinality(Holes) + (n - top - 1)
  <1>0. EncMaxSeq \in Nat /\ n \in Nat /\ top \in Nat BY EncAssumption
  <1> DEFINE Gap == (top + 1) .. (n - 1)
             Got(s) == <<1, s>> \in egot
  <1>1. \A s \in 1 .. EncMaxSeq : Got(s) => s <= top
    <2>1. ASSUME NEW s \in 1 .. EncMaxSeq, Got(s) PROVE s <= top
      <3>1. <<1, s>>[2] = top \/ <<1, s>>[2] < top BY <2>1
      <3> QED BY <1>0, <3>1
    <2> QED BY <2>1
  <1>2. \A s \in 1 .. EncMaxSeq : <<1, s>> \in egot' <=> Got(s) \/ s = n
    <2>1. \A s : <<1, s>> = <<1, n>> <=> s = n OBVIOUS
    <2> QED BY <2>1
  <1>3. Holes = {s \in 1 .. EncMaxSeq : ~Got(s) /\ \E a, b \in 1 .. EncMaxSeq : a < s /\ s < b /\ Got(a) /\ Got(b)}
    BY DEF Holes
  <1>4. \A s : s \in Holes' <=>
                 /\ s \in 1 .. EncMaxSeq /\ ~(Got(s) \/ s = n)
                 /\ \E a, b \in 1 .. EncMaxSeq : a < s /\ s < b /\ (Got(a) \/ a = n) /\ (Got(b) \/ b = n)
    <2>1. epub'.life = 1 OBVIOUS
    <2>2. \A s : s \in Holes' <=>
                   /\ s \in 1 .. EncMaxSeq /\ <<1, s>> \notin egot'
                   /\ \E a, b \in 1 .. EncMaxSeq : a < s /\ s < b /\ <<1, a>> \in egot' /\ <<1, b>> \in egot'
      <3> DEFINE Pair(a, b) == {<<epub'.life, a>>, <<epub'.life, b>>} \subseteq egot'
                 Both(a, b) == <<1, a>> \in egot' /\ <<1, b>> \in egot'
                 Lost(s) == <<epub'.life, s>> \notin egot'
      <3>1. \A s : Lost(s) <=> <<1, s>> \notin egot' BY <2>1
      <3>2. \A s : s \in Holes' <=>
                     /\ s \in 1 .. EncMaxSeq /\ Lost(s)
                     /\ \E a, b \in 1 .. EncMaxSeq : a < s /\ s < b /\ Pair(a, b)
        BY Zenon DEF Holes
      <3>3. \A a, b : Pair(a, b) <=> Both(a, b) BY <2>1
      <3> HIDE DEF Pair, Both, Lost
      <3>4. \A s : s \in Holes' <=>
                     /\ s \in 1 .. EncMaxSeq /\ <<1, s>> \notin egot'
                     /\ \E a, b \in 1 .. EncMaxSeq : a < s /\ s < b /\ Both(a, b)
        BY <3>1, <3>2, <3>3
      <3> QED BY <3>4 DEF Both
    <2> HIDE DEF Got
    <2> QED BY <1>2, <2>2
  <1>5. Got(top) OBVIOUS
  <1> HIDE DEF Got
  <1>6. ASSUME NEW s \in Holes' PROVE s \in Holes \cup Gap
    <2>1. s \in 1 .. EncMaxSeq /\ ~Got(s) /\ s # n BY <1>4
    <2>2. PICK a \in 1 .. EncMaxSeq, b \in 1 .. EncMaxSeq :
            a < s /\ s < b /\ (Got(a) \/ a = n) /\ (Got(b) \/ b = n)
      BY <1>4
    <2>3. b <= n BY <1>0, <1>1, <2>2
    <2>4. a # n BY <1>0, <2>1, <2>2, <2>3
    <2>5. Got(a) BY <2>2, <2>4
    <2>6. CASE s < top BY <1>3, <1>5, <2>1, <2>2, <2>5, <2>6
    <2>7. CASE s > top BY <1>0, <2>1, <2>2, <2>3, <2>7
    <2> QED BY <1>0, <1>5, <2>1, <2>6, <2>7
  <1>7. ASSUME NEW s \in Holes PROVE s \in Holes' /\ s < top
    <2>1. PICK a \in 1 .. EncMaxSeq, b \in 1 .. EncMaxSeq : a < s /\ s < b /\ Got(a) /\ Got(b) BY <1>3
    <2>2. s \in 1 .. EncMaxSeq /\ ~Got(s) /\ s < top BY <1>0, <1>1, <1>3, <2>1
    <2> QED BY <1>0, <1>4, <2>1, <2>2
  <1>8. ASSUME NEW s \in Gap PROVE s \in Holes'
    <2>1. s \in 1 .. EncMaxSeq /\ top < s /\ s < n BY <1>0
    <2>2. ~Got(s) BY <1>0, <1>1, <2>1
    <2> QED BY <1>0, <1>4, <1>5, <2>1, <2>2
  <1>9. Holes' = Holes \cup Gap BY <1>6, <1>7, <1>8
  <1>10. Holes \cap Gap = {} BY <1>0, <1>7
  <1>11. IsFiniteSet(Holes)
    <2>1. Holes \in SUBSET (1 .. EncMaxSeq) BY DEF Holes
    <2>2. IsFiniteSet(1 .. EncMaxSeq) BY <1>0, FS_Interval
    <2> QED BY <2>1, <2>2, FS_Subset
  <1>12. IsFiniteSet(Gap) /\ Cardinality(Gap) = n - top - 1
    <2>1. PICK low \in Int, high \in Int : low = top + 1 /\ high = n - 1 BY <1>0
    <2>2. IsFiniteSet(low .. high) /\ Cardinality(low .. high) = IF low > high THEN 0 ELSE high - low + 1
      BY FS_Interval
    <2> QED BY <1>0, <2>1, <2>2
  <1>13. Cardinality(Holes) \in Nat BY <1>11, FS_CardinalityType
  <1>14. Cardinality({}) = 0 BY FS_EmptySet
  <1> HIDE DEF Gap
  <1>15. Cardinality(Holes') = Cardinality(Holes) + Cardinality(Gap) - 0
    BY <1>9, <1>10, <1>11, <1>12, <1>14, FS_Union
  <1> QED BY <1>0, <1>12, <1>13, <1>15

\* Counting a packet keeps the sums while one reader has counted: it is newer
\* than all counted ones, and the counters grow by its distance to the last.
LEMMA CountsKept ==
    ASSUME EncTypes, EncWires, NEW r \in EncReaders, EncCounts(r), eseen \subseteq {r},
           NEW top, Summed(top)
    PROVE  \E new \in Nat \X Nat : Summed(new)'
  <1>a. PICK p \in EncPackets : p = epkt[r] BY DEF EncTypes
  <1>b. PICK new \in Nat \X Nat : new = Id(p) BY PacketFacts
  <1>0. /\ epub.life \in Nat \ {0} /\ epub.seq \in Nat /\ epub.past \in Nat
        /\ etrk.packets \in Nat /\ etrk.missing \in Nat 
        /\ IsFiniteSet(egot)
    BY DEF EncTypes
  <1>t. /\ top \in Nat \X Nat /\ top[1] \in Nat /\ top[2] \in Nat
        /\ top[1] <= epub.life /\ (top[1] = epub.life => top[2] <= epub.seq)
        /\ (egot # {} => top[1] >= 1 /\ top \in egot) /\ (egot = {} => top[1] = 0 /\ top[2] = 0)
        /\ \A life : Reached(top, life) \in Nat
    BY TopFacts
  <1>s. etrk.packets + etrk.missing <= epub.past + Reached(top, epub.life) BY DEF Summed
  <1>p. /\ p.life \in Nat /\ p.seq \in Nat /\ new[1] = p.life /\ new[2] = p.seq
    BY <1>b, PacketFacts
  <1>1. Ahead(r, p) /\ eprev[r] = <<etrk.has, etrk.last>> /\ HasRoom(top, p)
    BY <1>a DEF EncCounts, EncWires, Ahead, Summed
  <1>2. p.life >= 1 /\ p.seq \in 1 .. EncMaxSeq /\ p.life <= epub.life
        /\ (p.life = epub.life => p.seq <= epub.seq)
    BY <1>0, <1>1, <1>b, <1>p, AheadFacts DEF GivenOut
  <1>3. Older(top, new) BY <1>1, <1>b DEF HasRoom
  <1>4. \A g \in egot : Older(g, new) /\ g # new
    <2>1. \A g \in egot : g \in Nat \X Nat /\ (g = top \/ Older(g, top))
      <3>1. \A g \in egot : GivenOut(g) BY DEF EncTypes
      <3>2. \A g \in egot : g \in Nat \X Nat BY <3>1, EncAssumption DEF GivenOut
      <3>3. \A g \in egot : g = top \/ Older(g, top) BY DEF Summed
      <3> QED BY <3>2, <3>3
    <2>2. ASSUME NEW g \in egot PROVE Older(g, new) BY <1>3, <1>t, <1>p, <2>1, OlderFacts
    <2>3. ~Older(new, new) BY <1>p, OlderFacts
    <2> QED BY <2>2, <2>3
  <1>5. /\ egot' = egot \cup {new} /\ epub' = epub /\ ~ecount'[r] /\ eseen' = eseen \cup {r}
        /\ etrk' = Observed(<<etrk.has, etrk.last>>, p.seq)
    BY <1>1, <1>a, <1>b DEF EncCounts, EncTypes, Id
  <1>6. etrk.last = top[2] /\ (etrk.has <=> egot # {}) /\ etrk.packets = Cardinality(egot) BY DEF Summed
  <1>7. Cardinality(egot') = etrk.packets + 1
    <2>1. new \notin egot BY <1>4
    <2>2. Cardinality(egot \cup {new}) = Cardinality(egot) + 1 BY <1>0, <2>1, FS_AddElement
    <2> QED BY <1>5, <1>6, <2>2
  \* What this packet adds to the two counters.
  <1>8. PICK more \in Nat : /\ etrk'.missing = etrk.missing + more /\ etrk'.packets = etrk.packets + 1
                            /\ etrk'.last = p.seq /\ etrk'.has
                            /\ more + 1 <= p.seq /\ (egot = {} => more = 0)
                            /\ top[1] = p.life => more + 1 = p.seq - top[2]
    <2>1. CASE etrk.has /\ p.seq > top[2] + 1
      <3>1. p.seq - top[2] - 1 \in Nat BY <1>t, <1>p, <2>1
      <3>2. /\ etrk'.missing = etrk.missing + (p.seq - top[2] - 1) /\ etrk'.packets = etrk.packets + 1
            /\ etrk'.last = p.seq /\ etrk'.has
        BY <1>5, <1>6, <2>1 DEF Observed
      <3> QED BY <1>t, <1>p, <1>6, <2>1, <3>1, <3>2
    <2>2. CASE ~(etrk.has /\ p.seq > top[2] + 1)
      <3>1. /\ etrk'.missing = etrk.missing + 0 /\ etrk'.packets = etrk.packets + 1
            /\ etrk'.last = p.seq /\ etrk'.has
        BY <1>5, <1>6, <2>2 DEF Observed
      <3>2. top[1] = p.life => p.seq > top[2] /\ etrk.has BY <1>2, <1>3, <1>6, <1>t, <1>p DEF Older
      <3> QED BY <1>t, <1>2, <1>p, <2>2, <3>1, <3>2
    <2> QED BY <2>1, <2>2
  <1>9. more + 1 <= p.seq - Reached(top, p.life) BY <1>8, <1>p, <1>t DEF Reached
  <1>10. etrk'.packets + etrk'.missing <= epub'.past + Reached(new, epub'.life)
    <2>1. CASE p.life = epub.life
      <3>1. Reached(new, epub'.life) = p.seq BY <1>p, <1>5, <2>1 DEF Reached
      <3>2. Reached(top, p.life) \in Nat BY <1>t
      <3> QED BY <1>0, <1>5, <1>8, <1>9, <1>p, <1>s, <2>1, <3>1, <3>2
    <2>2. CASE p.life # epub.life
      <3>1. etrk.packets + etrk.missing + p.seq <= epub.past + Reached(top, p.life)
        BY <1>0, <1>1, <1>2, <1>p, <2>2 DEF HasRoom
      <3>2. Reached(top, p.life) \in Nat /\ Reached(new, epub'.life) = 0 BY <1>p, <1>t, <1>5, <2>2 DEF Reached
      <3> QED BY <1>0, <1>5, <1>8, <1>9, <1>p, <3>1, <3>2
    <2> QED BY <2>1, <2>2
  <1>11. ASSUME NEW u \in EncReaders, eseen' \subseteq {u}
         PROVE  /\ \A q \in EncPackets : Ahead(u, q)' => HasRoom(new, q)'
                /\ ~ecount'[u]
    <2>1. u = r BY <1>5, <1>11
    <2>2. ASSUME NEW q \in EncPackets, Ahead(r, q)' PROVE HasRoom(new, q)'
      <3>1. ~EncPublish
        <4>1. EncPublish => epub'.seq = epub.seq + 1 BY <1>0 DEF EncPublish, EncTypes
        <4> QED BY <1>0, <1>5, <4>1
      <3>2. Ahead(r, q) /\ Follows(p, q) BY <1>a, <2>2, <3>1, AheadStep DEF EncNext
      <3>3. q.life \in Nat /\ q.seq \in Nat /\ Id(q)[1] = q.life /\ Id(q)[2] = q.seq BY PacketFacts
      <3>4. Older(new, Id(q)) BY <1>p, <3>2, <3>3 DEF Older, Follows
      <3>5. ASSUME q.life < epub'.life
            PROVE  etrk'.packets + etrk'.missing + q.seq <= epub'.past + Reached(new, q.life)
        <4>1. etrk.packets + etrk.missing + q.seq <= epub.past + Reached(top, p.life)
          BY <1>5, <3>2, <3>5 DEF Summed, HasRoom, Follows
        <4>2. Reached(new, q.life) = p.seq BY <1>p, <3>2 DEF Reached, Follows
        <4>3. Reached(top, p.life) \in Nat BY <1>t
        <4> QED BY <1>0, <1>5, <1>8, <1>9, <1>p, <3>3, <4>1, <4>2, <4>3
      <3> QED BY <3>4, <3>5 DEF HasRoom
    <2> QED BY <1>5, <2>1, <2>2
  <1>12. epub'.life = 1 => etrk'.missing = Cardinality(Holes')
    <2> SUFFICES ASSUME epub.life = 1 PROVE etrk'.missing = Cardinality(Holes') BY <1>5
    <2>1. p.life = 1 /\ etrk.missing = Cardinality(Holes) BY <1>2, <1>p DEF Summed
    <2>2. CASE egot = {}
      <3>1. Holes = {} BY <2>2 DEF Holes
      <3>2. Holes' = {}
        <4>1. SUFFICES ASSUME NEW s \in Holes' PROVE FALSE OBVIOUS
        <4>2. PICK a \in 1 .. EncMaxSeq, b \in 1 .. EncMaxSeq :
                a < s /\ s < b /\ <<epub'.life, a>> \in egot' /\ <<epub'.life, b>> \in egot'
          BY <4>1 DEF Holes
        <4>3. <<epub'.life, a>> = new /\ <<epub'.life, b>> = new BY <1>5, <2>2, <4>2
        <4>4. a = new[2] /\ b = new[2] BY <4>3
        <4>5. s \in 1 .. EncMaxSeq BY <4>1 DEF Holes
        <4> QED BY <4>2, <4>4, <4>5, EncAssumption
      <3> QED BY <1>0, <1>8, <2>1, <2>2, <3>1, <3>2
    <2>3. CASE egot # {}
      <3>1. top[1] = 1 /\ top \in egot BY <1>t, <2>3
      <3>2. PICK m \in Nat, n \in Nat : m = top[2] /\ n = p.seq BY <1>t, <1>p
      <3>3. /\ top = <<1, m>> /\ new = <<1, n>> /\ n \in 1 .. EncMaxSeq /\ m \in 1 .. EncMaxSeq /\ m < n
        <4>1. top = <<top[1], top[2]>> /\ new = <<new[1], new[2]>> BY <1>t, OlderFacts
        <4>2. m \in 1 .. EncMaxSeq BY <3>1, <3>2 DEF EncTypes, GivenOut
        <4>3. m < n BY <1>3, <1>p, <2>1, <3>1, <3>2 DEF Older
        <4> QED BY <1>2, <1>p, <2>1, <3>1, <3>2, <4>1, <4>2, <4>3
      <3>4. \A g \in egot : g[1] = 1 /\ (g[2] = m \/ g[2] < m)
        <4>1. ASSUME NEW g \in egot PROVE g[1] = 1 /\ (g[2] = m \/ g[2] < m)
          <5>1. GivenOut(g) /\ (g = top \/ Older(g, top)) BY DEF EncTypes, Summed
          <5>2. g[1] \in Nat \ {0} /\ g[1] <= 1 BY <5>1 DEF GivenOut
          <5>3. g[1] = 1 BY <5>2
          <5> QED BY <3>1, <3>2, <5>1, <5>3 DEF Older
        <4> QED BY <4>1
      <3>5. Cardinality(Holes') = Cardinality(Holes) + (n - m - 1)
        BY <1>5, <3>1, <3>3, <3>4, HolesGrow
      <3> QED BY <1>0, <1>8, <2>1, <3>1, <3>2, <3>5
    <2> QED BY <2>2, <2>3
  <1>13. \A g \in egot' : g = new \/ Older(g, new) BY <1>4, <1>5
  <1>14. new \in egot' /\ egot' # {} BY <1>5
  <1> HIDE DEF Summed
  <1>15. Summed(new)'
    BY <1>7, <1>8, <1>10, <1>11, <1>12, <1>13, <1>14, <1>p DEF Summed
  <1> QED BY <1>15

\* Nothing is counted and nothing is on its way in the beginning.
LEMMA EncInitial == EncInit => EncInv
  <1> SUFFICES ASSUME EncInit PROVE EncInv OBVIOUS
  <1>1. EncTypes /\ Cardinality(egot) = 0
    <2>1. Torn \in EncPackets /\ <<>> \in Seq(EncPackets) BY EmptySeq DEF Torn, EncPackets
    <2>2. IsFiniteSet({}) /\ Cardinality({}) = 0 BY FS_EmptySet
    <2>3. <<FALSE, 0>> \in BOOLEAN \X Nat OBVIOUS
    <2>4. 0 <= EncMaxSeq /\ EncMaxSeq \in Nat BY EncAssumption
    <2> QED BY <2>1, <2>2, <2>3, <2>4 DEF EncInit, EncTypes
  <1>2. \A r \in EncReaders : ~ecount[r] /\ Len(ewire[r]) = 0 BY DEF EncInit
  <1>3. EncWires BY <1>2 DEF EncWires
  <1>4. Summed(<<0, 0>>)
    <2>1. Holes = {} BY DEF EncInit, Holes
    <2>2. Cardinality({}) = 0 BY FS_EmptySet
    <2>3. \A r \in EncReaders, p \in EncPackets : ~Ahead(r, p) BY <1>2 DEF Ahead
    <2>4. <<0, 0>>[1] = 0 /\ <<0, 0>>[2] = 0 OBVIOUS
    <2>5. Reached(<<0, 0>>, epub.life) = 0 BY <2>4 DEF Reached
    <2> QED BY <1>2, <2>1, <2>2, <2>3, <2>4, <2>5 DEF EncInit, Summed
  <1>5. <<0, 0>> \in Nat \X Nat OBVIOUS
  <1> QED BY <1>1, <1>3, <1>4, <1>5 DEF EncInv, EncInit

\* Every step keeps the invariant.
LEMMA EncStep == EncInv /\ [EncNext]_evars => EncInv'
  <1> SUFFICES ASSUME EncInv, [EncNext]_evars PROVE EncInv' OBVIOUS
  <1>0. EncTypes /\ EncWires /\ EncTypes' /\ EncWires' BY EncTypesKept, EncWiresKept DEF EncInv
  <1>i. etrk.gaps <= etrk.missing /\ Cardinality(egot) <= etrk.packets
        /\ (OneReader => \E top \in Nat \X Nat : Summed(top))
    BY DEF EncInv
  <1>1. ASSUME NEW r \in EncReaders, EncCounts(r) PROVE EncInv'
    <2>1. /\ etrk.gaps \in Nat /\ etrk.missing \in Nat /\ etrk.packets \in Nat /\ IsFiniteSet(egot)
          /\ eprev[r][2] \in Nat /\ epkt[r].seq \in Nat
      <3>1. epkt[r] \in EncPackets /\ eprev[r] \in BOOLEAN \X Nat BY <1>0 DEF EncTypes
      <3> QED BY <1>0, <3>1, PacketFacts DEF EncTypes
    <2>2. etrk' = Observed(eprev[r], epkt[r].seq) /\ egot' = egot \cup {<<epkt[r].life, epkt[r].seq>>}
          /\ eseen' = eseen \cup {r}
      BY <1>1 DEF EncCounts
    <2>3. etrk'.gaps <= etrk'.missing
      <3>1. CASE eprev[r][1] /\ epkt[r].seq > eprev[r][2] + 1
        <4>1. etrk'.gaps = etrk.gaps + 1 /\ etrk'.missing = etrk.missing + (epkt[r].seq - eprev[r][2] - 1)
          BY <2>2, <3>1 DEF Observed
        <4> QED BY <1>i, <2>1, <3>1, <4>1
      <3>2. CASE ~(eprev[r][1] /\ epkt[r].seq > eprev[r][2] + 1)
        <4>1. etrk'.gaps = etrk.gaps + 0 /\ etrk'.missing = etrk.missing + 0 BY <2>2, <3>2 DEF Observed
        <4> QED BY <1>i, <2>1, <4>1
      <3> QED BY <3>1, <3>2
    <2>4. Cardinality(egot') <= etrk'.packets
      <3>1. etrk'.packets = etrk.packets + 1 BY <2>2 DEF Observed
      <3>2. Cardinality(egot) \in Nat BY <2>1, FS_CardinalityType
      <3>3. Cardinality(egot') <= Cardinality(egot) + 1
        <4>1. PICK g : egot' = egot \cup {g} BY <2>2
        <4>2. Cardinality(egot \cup {g}) = IF g \in egot THEN Cardinality(egot) ELSE Cardinality(egot) + 1
          BY <2>1, FS_AddElement
        <4> QED BY <3>2, <4>1, <4>2
      <3>4. Cardinality(egot') \in Nat BY <1>0, FS_CardinalityType DEF EncTypes
      <3> QED BY <1>i, <2>1, <3>1, <3>2, <3>3, <3>4
    <2>5. ASSUME OneReader' PROVE \E top \in Nat \X Nat : Summed(top)'
      <3>1. OneReader /\ eseen \subseteq {r} BY <2>2, <2>5 DEF OneReader
      <3>2. PICK top \in Nat \X Nat : Summed(top) BY <1>i, <3>1
      <3> QED BY <1>0, <1>1, <3>1, <3>2, CountsKept
    <2> QED BY <1>0, <2>3, <2>4, <2>5 DEF EncInv
  <1>2. ASSUME etrk' = etrk, egot' = egot, eseen' = eseen,
               LoadsNow,
               epub' = epub \/ EncPublish \/ EncRestart
        PROVE  EncInv'
    <2>1. ASSUME OneReader' PROVE \E top \in Nat \X Nat : Summed(top)'
      <3>1. PICK top \in Nat \X Nat : Summed(top) BY <1>2, <1>i, <2>1 DEF OneReader
      <3> QED BY <1>0, <1>2, <3>1, QuietKept
    <2> QED BY <1>0, <1>2, <1>i, <2>1 DEF EncInv
  <1>3. ASSUME NEW r \in EncReaders, EncReads(r) PROVE EncInv'
    <2>1. LoadsNow
      <3>1. eprev'[r] = <<etrk.has, etrk.last>> /\ \A u \in EncReaders \ {r} : eprev'[u] = eprev[u]
        BY <1>0, <1>3 DEF EncReads, EncTypes
      <3>2. \A u \in EncReaders \ {r} : ecount'[u] => ecount[u] BY <1>0, <1>3 DEF EncReads, EncTypes
      <3> QED BY <3>1, <3>2 DEF LoadsNow
    <2>2. etrk' = etrk /\ egot' = egot /\ eseen' = eseen /\ epub' = epub BY <1>3 DEF EncReads
    <2> QED BY <1>2, <2>1, <2>2
  <1>4. ASSUME NEW r \in EncReaders,
               \/ EncConnects(r) \/ EncConnectFails(r) \/ EncReadFails(r) \/ EncFreshStream(r)
               \/ EncClose(r) \/ EncCut(r)
        PROVE  EncInv'
    BY <1>2, <1>4 DEF EncConnects, EncConnectFails, EncReadFails, EncFreshStream, EncClose, EncCut, LoadsNow
  <1>5. CASE EncPublish BY <1>2, <1>5 DEF EncPublish, LoadsNow
  <1>6. CASE EncRestart BY <1>2, <1>6 DEF EncRestart, LoadsNow
  <1>7. CASE UNCHANGED evars BY <1>2, <1>7 DEF evars, LoadsNow
  <1> QED BY <1>1, <1>3, <1>4, <1>5, <1>6, <1>7 DEF EncNext

\* The counters of SeqTracker (encoded_stream_client.cpp): whatever the readers
\* do, holes are counted with their packets and no packet is uncounted; as long
\* as one reader alone has used the client, every packet is counted once, none
\* that was received is counted as missing, and in the publisher's first life
\* the missing ones are exactly the holes.
THEOREM SequenceIsExact == EncSpec => []SeqExact
  <1>1. EncInv => SeqExact
    <2> SUFFICES ASSUME EncInv PROVE SeqExact OBVIOUS
    <2>1. EncTypes /\ etrk.gaps <= etrk.missing /\ Cardinality(egot) <= etrk.packets
          /\ (OneReader => \E top \in Nat \X Nat : Summed(top))
      BY DEF EncInv
    <2>2. ASSUME Cardinality(eseen) <= 1 PROVE OneReader
      <3>1. IsFiniteSet(eseen) /\ Cardinality(eseen) \in Nat BY <2>1, FS_CardinalityType DEF EncTypes
      <3>2. Cardinality(eseen) = 0 \/ Cardinality(eseen) = 1 BY <2>2, <3>1
      <3>3. eseen = {} \/ \E x : eseen = {x} BY <3>1, <3>2, FS_EmptySet, FS_Singleton
      <3> QED BY <3>3 DEF OneReader
    <2>3. ASSUME NEW top, Summed(top)
          PROVE  /\ etrk.packets = Cardinality(egot)
                 /\ etrk.packets + etrk.missing <= epub.past + epub.seq
                 /\ epub.life = 1 => etrk.missing = Cardinality(Holes)
      <3>1. /\ etrk.packets = Cardinality(egot) /\ (epub.life = 1 => etrk.missing = Cardinality(Holes))
            /\ etrk.packets + etrk.missing <= epub.past + Reached(top, epub.life)
        BY <2>3 DEF Summed
      <3>2. Reached(top, epub.life) <= epub.seq /\ Reached(top, epub.life) \in Nat
        BY <2>1, <2>3, TopFacts DEF Reached, EncTypes
      <3> QED BY <2>1, <3>1, <3>2 DEF EncTypes
    <2> QED BY <2>1, <2>2, <2>3 DEF SeqExact
  <1> QED BY <1>1, EncInitial, EncStep, PTL DEF EncSpec
=============================================================================
