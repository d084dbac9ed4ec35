--------------------------- MODULE FrameGeometry ---------------------------
(***************************************************************************)
(* Where the pixels go: Frame::crop() and Frame::resize() on the CPU and   *)
(* the DSP leg, the transform each step leaves in the frame's metadata,    *)
(* and the Preprocessor's answer to "where in the original was this?".     *)
(*                                                                         *)
(* Pixels are followed by the positions of the original frame's two        *)
(* corners, which every step moves as the code moves the pixels; the       *)
(* metadata is computed beside it as the code computes it. The code works  *)
(* in doubles, the model in fractions <<n, d>> with d > 0.                 *)
(***************************************************************************)
EXTENDS Integers

CONSTANTS
  GeoSizes,     \* the sizes <<width, height>> that frames have or are given
  GeoFormats,   \* of "NV12", "NV21", "RGB", "YUYV" (YUYV stands for others)
  GeoMaxSteps   \* steps taken before the frame is preprocessed

ASSUME GeoAssumption == GeoSizes \subseteq (Nat \ {0}) \X (Nat \ {0})

Axes == {"x", "y"}
OnAxes(size) == [a \in Axes |-> IF a = "x" THEN size[1] ELSE size[2]]

Frac(n)   == <<n, 1>>
Plus(p, q)  == <<p[1] * q[2] + q[1] * p[2], p[2] * q[2]>>
Times(p, q) == <<p[1] * q[1], p[2] * q[2]>>
Same(p, q)  == p[1] * q[2] = q[1] * p[2]
(* The conversion of a double to int, which drops the fraction.             *)
Trunc(p) == IF p[1] >= 0 THEN p[1] \div p[2] ELSE -((-p[1]) \div p[2])
lround(n, d) == (2 * n + d) \div (2 * d)
Larger(a, b) == IF a > b THEN a ELSE b

is_packed_format(fmt) == fmt = "RGB"
is_yuv_format(fmt) == fmt \in {"NV12", "NV21"}
is_dsp_resize_format(fmt) == fmt \in {"NV12", "RGB"}

even_down(v) == Larger(2, v - (v % 2))

(* The content box "size" and its placement "at", on each axis.             *)
resize_geometry(s, d, mode, yuv) ==
  LET xFirst == d["x"] * s["y"] <= d["y"] * s["x"]   \* dw / sw <= dh / sh
      by == IF (mode = "letterbox") = xFirst THEN "x" ELSE "y"
      least(a) == IF mode = "letterbox" THEN 1 ELSE d[a]
      even(v) == IF yuv THEN even_down(v) ELSE v
      size == [a \in Axes |-> even(Larger(least(a), lround(s[a] * d[by], s[by])))]
      pad(a) == (d[a] - size[a]) \div 2
  IN CASE mode = "stretch"   -> [size |-> d, at |-> [a \in Axes |-> 0]]
       [] mode = "letterbox" -> [size |-> size,
                                 at |-> [a \in Axes |-> IF yuv THEN pad(a) - (pad(a) % 2) ELSE pad(a)]]
       [] mode = "crop"      -> [size |-> size, at |-> [a \in Axes |-> (size[a] - d[a]) \div 2]]

Modes == {"stretch", "letterbox", "crop"}

VARIABLES
  gsize,    \* the frame's width and height
  gfmt,     \* its format
  gorig,    \* the size of the original frame
  gbox,     \* the content box of the resize that made it, if one did
  gtr,      \* its transform [src, scale, origin], if it has one
  gpts,     \* where the pixels of the original's corners are now, per axis
  gchroma,  \* the chroma plane: "aligned" with the luma plane, shifted
            \* against it by a "crop", or by anything else ("lost")
  gsteps,   \* steps taken
  gmeta     \* what preprocessing returned [src, scale, origin], once it has

gvars == <<gsize, gfmt, gorig, gbox, gtr, gpts, gchroma, gsteps, gmeta>>

GeoInit ==
  /\ \E s \in GeoSizes : gorig = OnAxes(s)
  /\ gsize = gorig
  /\ gfmt \in GeoFormats
  /\ is_yuv_format(gfmt) => \A a \in Axes : gorig[a] % 2 = 0
  /\ gbox = {} /\ gtr = {} /\ gmeta = {} /\ gchroma = "aligned" /\ gsteps = 0
  /\ gpts = [a \in Axes |-> <<Frac(0), Frac(gorig[a])>>]

(* A plausible bug: the two steps in the wrong order.                       *)
compose_backwards(prev, cur) ==
  [src    |-> prev.src,
   scale  |-> [a \in Axes |-> Times(prev.scale[a], cur.scale[a])],
   origin |-> [a \in Axes |-> Plus(prev.origin[a], Times(cur.origin[a], prev.scale[a]))]]

compose_transform(prev, cur) ==
  [src    |-> prev.src,
   scale  |-> [a \in Axes |-> Times(prev.scale[a], cur.scale[a])],
   origin |-> [a \in Axes |-> Plus(Times(prev.origin[a], cur.scale[a]), cur.origin[a])]]

(* An optional value is a set of at most one.                               *)
Value(opt) == CHOOSE v \in opt : TRUE

chained_transform(parent, step) == {IF parent = {} THEN step ELSE compose_transform(Value(parent), step)}

(* The step that a resize records: the content's scale, and where it is.    *)
resize_step(s, d, mode, box) ==
  [src    |-> s,
   scale  |-> [a \in Axes |-> <<box.size[a], s[a]>>],
   origin |-> [a \in Axes |-> Frac(IF mode = "crop" THEN -box.at[a] ELSE box.at[a])]]

(* The pixels of s are scaled to the box; a letterbox copies them into the  *)
(* canvas at the box's place, a crop copies out of them from there on.      *)
Scaled(pt, a, s, box) == Times(pt, <<box.size[a], s[a]>>)
Copied(pt, a, mode, box) == Plus(pt, Frac(IF mode = "crop" THEN -box.at[a] ELSE box.at[a]))

resize_packed(s, mode, box) ==
  [a \in Axes |-> [i \in 1..2 |-> Copied(Scaled(gpts[a][i], a, s, box), a, mode, box)]]

(* The planes of NV12 and NV21 are scaled and copied apart; the chroma      *)
(* plane pairs U and V bytes, so an odd column or row there is not the      *)
(* luma's, and an odd column swaps U for V.                                 *)
resize_yuv(s, mode, box) ==
  [pts |-> resize_packed(s, mode, box),
   aligned |-> \A a \in Axes : box.at[a] % 2 = 0 /\ box.size[a] % 2 = 0]

(* The DSP scales to the same box, and the rest is the CPU's copy.          *)
hw_resize(s, mode, box) == IF is_yuv_format(gfmt) THEN resize_yuv(s, mode, box)
                           ELSE [pts |-> resize_packed(s, mode, box), aligned |-> TRUE]

crop(c, at) ==
  /\ gsteps < GeoMaxSteps /\ gmeta = {}
  /\ \A a \in Axes : c[a] > 0 /\ at[a] >= 0 /\ at[a] + c[a] <= gsize[a]
  /\ \/ is_packed_format(gfmt)
     \/ is_yuv_format(gfmt) /\ \A a \in Axes : c[a] % 2 = 0 /\ at[a] % 2 = 0
  /\ gtr' = chained_transform(gtr, [src |-> gsize, scale |-> [a \in Axes |-> Frac(1)],
                                    origin |-> [a \in Axes |-> Frac(-at[a])]])
  /\ gpts' = [a \in Axes |-> [i \in 1..2 |-> Plus(gpts[a][i], Frac(-at[a]))]]
  /\ gsize' = c
  /\ gbox' = {}
  /\ gsteps' = gsteps + 1
  /\ UNCHANGED <<gfmt, gorig, gchroma, gmeta>>

(* The size, transform and pixels after a resize, which throws unless       *)
(* Resizable. DSP is whether the frame has a live handle and the router     *)
(* and the daemon serve it.                                                 *)
Resizable(d, dsp) ==
  /\ is_yuv_format(gfmt) => \A a \in Axes : d[a] % 2 = 0
  /\ dsp => is_dsp_resize_format(gfmt)
  /\ dsp \/ is_yuv_format(gfmt) \/ is_packed_format(gfmt)

resized(d, mode, dsp) ==
  LET box == resize_geometry(gsize, d, mode, is_yuv_format(gfmt))
      pixels == IF dsp THEN hw_resize(gsize, mode, box)
                ELSE IF is_yuv_format(gfmt) THEN resize_yuv(gsize, mode, box)
                ELSE [pts |-> resize_packed(gsize, mode, box), aligned |-> TRUE]
  IN [tr |-> chained_transform(gtr, resize_step(gsize, d, mode, box)),
      box |-> {[mode |-> mode, size |-> box.size, at |-> box.at]},
      pts |-> pixels.pts, aligned |-> pixels.aligned]

ChromaAfter(aligned, mode) == IF aligned THEN gchroma
                              ELSE IF mode = "crop" /\ gchroma # "lost" THEN "crop" ELSE "lost"

resize(d, mode, dsp) ==
  /\ gsteps < GeoMaxSteps /\ gmeta = {}
  /\ Resizable(d, dsp)
  /\ LET r == resized(d, mode, dsp) IN
       gbox' = r.box /\ gtr' = r.tr /\ gpts' = r.pts /\ gchroma' = ChromaAfter(r.aligned, mode)
  /\ gsize' = d
  /\ gsteps' = gsteps + 1
  /\ UNCHANGED <<gfmt, gorig, gmeta>>

(* The answer kept for postprocessing; the origin is cut to whole pixels.   *)
transform_origin(t) == [a \in Axes |-> Trunc(t.origin[a])]
Meta(tr, d) ==
  IF tr = {} THEN {[src |-> d, scale |-> [a \in Axes |-> Frac(1)], origin |-> [a \in Axes |-> 0]]}
  ELSE {[src |-> t.src, scale |-> t.scale, origin |-> transform_origin(t)] : t \in tr}

(* Preprocessor::run(): a frame of the model's size is taken as it is, with *)
(* the transform it carries; any other is resized.                          *)
run(d, mode, dsp) ==
  /\ gmeta = {}
  /\ IF gsize = d
       THEN /\ gmeta' = Meta(gtr, d)
            /\ UNCHANGED <<gbox, gtr, gpts, gchroma>>
       ELSE /\ Resizable(d, dsp)
            /\ LET r == resized(d, mode, dsp) IN
                 /\ gbox' = r.box /\ gtr' = r.tr /\ gpts' = r.pts /\ gchroma' = ChromaAfter(r.aligned, mode)
                 /\ gmeta' = Meta(r.tr, d)
  /\ gfmt \in {"NV12", "RGB"}      \* else to_color() throws
  /\ gsize' = d
  /\ UNCHANGED <<gfmt, gorig, gsteps>>

(* Preprocessor::passthrough(): NV12 only, always stretched, on the DSP or  *)
(* the CPU, and never converted.                                            *)
passthrough_geometry(d, dsp) == gfmt = "NV12" /\ run(d, "stretch", dsp)

GeoNext ==
  \/ \E s, t \in GeoSizes : crop(OnAxes(s), [a \in Axes |-> OnAxes(t)[a] - 1])
  \/ \E s \in GeoSizes, mode \in Modes, dsp \in BOOLEAN : resize(OnAxes(s), mode, dsp)
  \/ \E s \in GeoSizes, mode \in Modes, dsp \in BOOLEAN : run(OnAxes(s), mode, dsp)
  \/ \E s \in GeoSizes, dsp \in BOOLEAN : passthrough_geometry(OnAxes(s), dsp)

GeoSpec == GeoInit /\ [][GeoNext]_gvars

-----------------------------------------------------------------------------
Takes(t, a, p) == Plus(Times(p, t.scale[a]), t.origin[a])
Corner(a, i) == IF i = 1 THEN Frac(0) ELSE Frac(gorig[a])

(* However a frame was cropped and resized, on whichever leg, its transform *)
(* takes a position in the original to where those pixels now are; and the  *)
(* answer of preprocessing, whose origin is cut to whole pixels, names the  *)
(* original's size and misses by less than one pixel of the model's input.  *)
MapsBack ==
  /\ \A t \in gtr :
       /\ t.src = gorig
       /\ \A a \in Axes, i \in 1..2 : Same(Takes(t, a, Corner(a, i)), gpts[a][i])
  /\ \A m \in gmeta :
       /\ m.src = gorig
       /\ \A a \in Axes, i \in 1..2 :
            LET said == Plus(Times(Corner(a, i), m.scale[a]), Frac(m.origin[a]))
                err == Plus(gpts[a][i], Times(Frac(-1), said))
            IN err[1] < err[2] /\ -err[1] < err[2]

(* The content box fits: a letterbox inside the canvas, touching two of its *)
(* sides, and what a crop reads inside the content it scaled. For NV12 and  *)
(* NV21 the letterbox is aligned to the chroma samples, so that however a   *)
(* frame was resized and cropped its chroma is shifted against its luma by  *)
(* nothing but a resize in "crop" mode, whose offset is not made even.      *)
BoxFits ==
  /\ gchroma # "lost"
  /\ \A b \in gbox :
       LET inner == IF b.mode = "crop" THEN gsize ELSE b.size
           outer == IF b.mode = "crop" THEN b.size ELSE gsize
       IN /\ \A a \in Axes : b.at[a] >= 0 /\ b.at[a] + inner[a] <= outer[a]
          /\ \E a \in Axes : inner[a] = outer[a]

(* Both together, for every chain of crops and resizes (geometry.hpp,       *)
(* frame.cpp, preprocess.cpp).                                              *)
GeometrySound == MapsBack /\ BoxFits
=============================================================================
