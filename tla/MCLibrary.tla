------------------------------ MODULE MCLibrary ------------------------------
(***************************************************************************)
(* The parts of the library that share no state with each other, for model *)
(* checking in one run. The initial state chooses the part that moves; the *)
(* others stay as they began. What is explored is the union of the parts'  *)
(* state spaces, each of them whole.                                       *)
(***************************************************************************)
EXTENDS EncodedReader, AudioReader, EventClient, PluginDiscovery, InferencePipeline, ControlPlane,
        FrameGeometry, OverlayFragments, Detections, TLC

VARIABLE part   \* the part that moves

Parts == {"encoded", "audio", "events", "plugins", "inference", "control",
          "geometry", "overlay", "detections"}

lib == <<part, evars, avars, vvars, pvars, ivars, cvars, gvars, ovars, dvars>>

(* A part that does not move begins in one of its initial states.           *)
Still(init, mine, var, value) == init /\ (~mine => var = value)

LibInit ==
  /\ part \in Parts
  /\ Still(EncInit, part = "encoded", ekind, [r \in EncReaders |-> "stream"])
  /\ Still(AudInit, part = "audio", arole, [t \in AudThreads |-> "get"])
  /\ EvInit
  /\ Still(PlInit, part = "plugins", pfile, PlEmpty)
  /\ Still(IpInit, part = "inference", <<iretain, iasync>>, <<FALSE, [p \in IpPasses |-> FALSE]>>)
  /\ CtlInit
  /\ Still(GeoInit, part = "geometry", <<gorig, gfmt>>, <<OnAxes(<<2, 2>>), "RGB">>)
  /\ Still(OvInit, part = "overlay", obatch, 5)
  /\ Still(DetInit, part = "detections", <<diou, dhead>>, <<<<1, 2>>, "v8">>)

LibNext ==
  /\ UNCHANGED part
  /\ \/ part = "encoded"    /\ EncNext /\ UNCHANGED <<avars, vvars, pvars, ivars, cvars, gvars, ovars, dvars>>
     \/ part = "audio"      /\ AudNext /\ UNCHANGED <<evars, vvars, pvars, ivars, cvars, gvars, ovars, dvars>>
     \/ part = "events"     /\ EvNext  /\ UNCHANGED <<evars, avars, pvars, ivars, cvars, gvars, ovars, dvars>>
     \/ part = "plugins"    /\ PlNext  /\ UNCHANGED <<evars, avars, vvars, ivars, cvars, gvars, ovars, dvars>>
     \/ part = "inference"  /\ IpNext  /\ UNCHANGED <<evars, avars, vvars, pvars, cvars, gvars, ovars, dvars>>
     \/ part = "control"    /\ CtlNext /\ UNCHANGED <<evars, avars, vvars, pvars, ivars, gvars, ovars, dvars>>
     \/ part = "geometry"   /\ GeoNext /\ UNCHANGED <<evars, avars, vvars, pvars, ivars, cvars, ovars, dvars>>
     \/ part = "overlay"    /\ OvNext  /\ UNCHANGED <<evars, avars, vvars, pvars, ivars, cvars, gvars, dvars>>
     \/ part = "detections" /\ DetNext /\ UNCHANGED <<evars, avars, vvars, pvars, ivars, cvars, gvars, ovars>>

LibSpec == LibInit /\ [][LibNext]_lib

(* The parts' readers, threads, subscriptions, users, passes and clients    *)
(* are the same two model values, which no part tells apart.                *)
Symmetry == Permutations(EncReaders)

-----------------------------------------------------------------------------
(* The bounded inputs. *)

(* Odd and even, wide and high, larger and smaller; one pixel.              *)
MCSizes == {<<1, 1>>, <<2, 2>>, <<3, 2>>, <<4, 2>>, <<4, 6>>, <<5, 3>>, <<2, 6>>}

(* Boxes inside, across each edge of the 12 x 14 frame, across two of them, *)
(* taller than it, and outside, above, below and on either side; with and   *)
(* without a caption, wider than its box or not; and lines. The last two    *)
(* meet: the caption of one is near the top, in the side of the other.      *)
MCBox(x, y, cap) == [kind |-> "box", x1 |-> x[1], y1 |-> y[1], x2 |-> x[2], y2 |-> y[2], cap |-> cap]
MCLine(y) == [kind |-> "line", x1 |-> 3, y1 |-> y, x2 |-> 6, y2 |-> y + 4, cap |-> 0]
MCShapes ==
  {MCBox(x, y, cap) : x \in {<<1, 5>>, <<-5, -3>>, <<-3, 7>>, <<8, 13>>, <<14, 16>>},
                      y \in {<<-4, -3>>, <<-2, 8>>, <<0, 0>>, <<3, 11>>, <<12, 14>>, <<16, 17>>, <<-9, 14>>},
                      cap \in {0, 6}}
  \cup {MCLine(y) : y \in {-9, -2, 5, 11, 17}}
  \cup {MCBox(<<1, 5>>, <<0, 11>>, 0), MCBox(<<2, 9>>, <<6, 10>>, 6)}

(* Boxes that overlap by more, by exactly and by less than a threshold, one *)
(* of them turned over and one beyond the frame.                            *)
MCAnchors ==
  {[x1 |-> b[1], y1 |-> b[2], x2 |-> b[3], y2 |-> b[4], obj |-> s[1], cls |-> s[2]] :
     b \in {<<0, 0, 2, 2>>, <<1, 0, 4, 4>>, <<1, 1, 4, 4>>, <<3, 1, 5, 6>>, <<5, 5, 3, 6>>},
     s \in {<<2, <<1, 1>>>>, <<1, <<3, 2>>>>, <<1, <<0, 2>>>>}}
MCIous == {<<0, 1>>, <<1, 2>>, <<1, 1>>}
MCSource == [w |-> 1, h |-> 2]
=============================================================================
