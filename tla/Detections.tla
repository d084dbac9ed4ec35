----------------------------- MODULE Detections -----------------------------
(***************************************************************************)
(* The YOLO postprocessors: the anchors of a head are decoded to a box, a  *)
(* class and a score, thresholded, thinned by greedy non-maximum           *)
(* suppression, mapped back to the original frame and clipped to it.       *)
(*                                                                         *)
(* One step is one turn of a loop: over the anchors (decode), over the     *)
(* candidates in the order of their scores (nms), over the kept ones       *)
(* (finish). Coordinates and scores are integers, thresholds on a ratio    *)
(* are fractions <<n, d>>.                                                 *)
(***************************************************************************)
EXTENDS Clamping, Sequences

CONSTANTS
  DetAnchors,     \* anchors [x1, y1, x2, y2, obj, cls]; cls: a score per class
  DetMaxAnchors,  \* bound: anchors of one head
  DetScore,       \* score_threshold
  DetIous,        \* values of iou_threshold, as fractions
  DetSource,      \* [w, h]: the original frame's size
  DetOrigin,      \* the content's place in the model's input (letterbox pad)
  DetScale        \* input pixels per original pixel

(* A head without a class is refused; a frame has a size.                   *)
ASSUME DetAssumption ==
  /\ \A a \in DetAnchors : /\ {a.x1, a.y1, a.x2, a.y2, a.obj} \subseteq Int
                           /\ a.cls \in Seq(Int) /\ a.cls # <<>>
  /\ DetMaxAnchors \in Nat /\ {DetScore, DetOrigin} \subseteq Int
  /\ DetIous \subseteq Int \X Int
  /\ DetSource.w \in Nat /\ DetSource.h \in Nat /\ DetScale \in Nat

VARIABLES
  dseen,     \* anchors decoded so far
  dcands,    \* those that reached the threshold
  diou,      \* iou_threshold
  dhead,     \* which postprocessor: "v5" or "v8"
  dat,       \* the loop that runs: "decode", "suppress" or "map"
  dpos,      \* the place it has reached
  dorder,    \* the candidates' indices, best first
  dflags,    \* suppressed
  dkeep,     \* the kept indices, in that order
  dout       \* the objects returned: [of, at]

dvars == <<dseen, dcands, diou, dhead, dat, dpos, dorder, dflags, dkeep, dout>>

DetInit ==
  /\ dseen = 0 /\ dcands = <<>> /\ diou \in DetIous /\ dhead \in {"v5", "v8"}
  /\ dat = "decode" /\ dpos = 1 /\ dorder = <<>> /\ dflags = {}
  /\ dkeep = <<>> /\ dout = <<>>

(* Decoding: the first of the best classes, whose score a v5 head weights   *)
(* by the anchor's objectness.                                              *)
Best(cls) == CHOOSE c \in DOMAIN cls :
               /\ \A k \in DOMAIN cls : cls[k] <= cls[c]
               /\ \A k \in 1..(c - 1) : cls[k] < cls[c]
YoloV8Postprocessor(a) == [box |-> a, class |-> Best(a.cls), score |-> a.cls[Best(a.cls)]]
YoloV5Postprocessor(a) == [box |-> a, class |-> Best(a.cls), score |-> a.obj * a.cls[Best(a.cls)]]
Decoded(a) == IF dhead = "v8" THEN YoloV8Postprocessor(a) ELSE YoloV5Postprocessor(a)

(* One more anchor; it is a candidate if it scores enough.                  *)
DetDecodes(a) ==
  /\ dat = "decode" /\ dseen < DetMaxAnchors
  /\ dseen' = dseen + 1
  /\ dcands' = IF Decoded(a).score >= DetScore THEN Append(dcands, Decoded(a)) ELSE dcands
  /\ UNCHANGED <<diou, dhead, dat, dpos, dorder, dflags, dkeep, dout>>

(* Intersection over union, of boxes that may be empty or turned over.      *)
Width(lo, hi) == max(hi - lo, 0)
Area(b) == Width(b.x1, b.x2) * Width(b.y1, b.y2)
Inter(a, b) == Width(max(a.x1, b.x1), min(a.x2, b.x2)) * Width(max(a.y1, b.y1), min(a.y2, b.y2))
Exceeds(a, b) ==
  LET all == Area(a) + Area(b) - Inter(a, b)
  IN all > 0 /\ Inter(a, b) * diou[2] > diou[1] * all

Suppresses(i, j) == /\ dcands[i].class = dcands[j].class
                    /\ Exceeds(dcands[i].box, dcands[j].box)

(* By descending score, ties by ascending index: what stable_sort leaves.   *)
Indices == 1..Len(dcands)
Before(i, j) == \/ dcands[i].score > dcands[j].score
                \/ dcands[i].score = dcands[j].score /\ i < j
Sorts(p) == /\ \A m, n \in Indices : m < n => Before(p[m], p[n])
            /\ \A i \in Indices : \E m \in Indices : p[m] = i

DetSorts ==
  /\ dat = "decode"
  /\ dat' = "suppress" /\ dpos' = 1
  /\ dorder' \in {p \in [Indices -> Indices] : Sorts(p)}
  /\ UNCHANGED <<dseen, dcands, diou, dhead, dflags, dkeep, dout>>

(* A plausible bug: the flags that earlier boxes set are forgotten.         *)
FlagsOfLast(i) == {i} \cup {j \in Indices : Suppresses(i, j)}

(* Each index kept flags itself and what overlaps it too much.              *)
Flags(i) == dflags \cup {i} \cup {j \in Indices : Suppresses(i, j)}

nms ==
  /\ dat = "suppress" /\ dpos <= Len(dcands)
  /\ dpos' = dpos + 1
  /\ IF dorder[dpos] \in dflags THEN UNCHANGED <<dkeep, dflags>>
     ELSE dkeep' = Append(dkeep, dorder[dpos]) /\ dflags' = Flags(dorder[dpos])
  /\ UNCHANGED <<dseen, dcands, diou, dhead, dat, dorder, dout>>

DetThinned ==
  /\ dat = "suppress" /\ dpos > Len(dcands)
  /\ dat' = "map" /\ dpos' = 1
  /\ UNCHANGED <<dseen, dcands, diou, dhead, dorder, dflags, dkeep, dout>>

SourceWidth  == DetSource.w * DetScale
SourceHeight == DetSource.h * DetScale

(* A box in the original frame, with edges as numerators over DetScale,     *)
(* clipped; one that is nothing but padding is left out.                    *)
to_source_box(b) == <<b.x1 - DetOrigin, b.y1 - DetOrigin, b.x2 - DetOrigin, b.y2 - DetOrigin>>
Clipped(m) == <<max(0, m[1]), max(0, m[2]), min(SourceWidth, m[3]), min(SourceHeight, m[4])>>
Empty(m) == m[3] - m[1] <= 0 \/ m[4] - m[2] <= 0

finish ==
  /\ dat = "map" /\ dpos <= Len(dkeep)
  /\ dpos' = dpos + 1
  /\ LET at == Clipped(to_source_box(dcands[dkeep[dpos]].box))
     IN dout' = IF Empty(at) THEN dout ELSE Append(dout, [of |-> dkeep[dpos], at |-> at])
  /\ UNCHANGED <<dseen, dcands, diou, dhead, dat, dorder, dflags, dkeep>>

DetNext == (\E a \in DetAnchors : DetDecodes(a)) \/ DetSorts \/ nms \/ DetThinned \/ finish

DetSpec == DetInit /\ [][DetNext]_dvars

-----------------------------------------------------------------------------
Chosen == {dkeep[k] : k \in DOMAIN dkeep}

(* What suppression is for, said without saying how: of two kept boxes of a *)
(* class neither overlaps the other beyond the threshold; every candidate   *)
(* that is not kept is overlapped by a kept one of its class that scores    *)
(* no less, and comes first if it scores the same; and the kept ones come   *)
(* best first. Classes do not meet, and equal boxes survive threshold 1.    *)
NmsGreedy ==
  dat = "map" =>
    /\ \A i, j \in Chosen : i # j => ~Suppresses(i, j)
    /\ \A j \in Indices \ Chosen : \E i \in Chosen : Before(i, j) /\ Suppresses(i, j)
    /\ \A m, n \in 1..Len(dkeep) : m < n => Before(dkeep[m], dkeep[n])

(* What is returned lies in the original frame and has an area there, and a *)
(* kept box with any area there is returned: clipping drops the padding's   *)
(* boxes and no others, and leaves the best first.                          *)
Seen(b) == \E x \in 0..(SourceWidth - 1), y \in 0..(SourceHeight - 1) :
             LET m == to_source_box(b) IN m[1] <= x /\ x < m[3] /\ m[2] <= y /\ y < m[4]
ReturnsVisible ==
  dat = "map" /\ dpos > Len(dkeep) =>
    /\ {dout[k].of : k \in DOMAIN dout} = {i \in Chosen : Seen(dcands[i].box)}
    /\ \A m, n \in 1..Len(dout) : m < n => Before(dout[m].of, dout[n].of)

(* Both together: the postprocessors return the right boxes.                *)
DetectionsSound == NmsGreedy /\ ReturnsVisible
=============================================================================
