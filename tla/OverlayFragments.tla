-------------------------- MODULE OverlayFragments --------------------------
(***************************************************************************)
(* The two renderers of an overlay for the DSP's blend: one canvas over    *)
(* all shapes (render_overlay_rgba), and tight canvases around the strokes *)
(* (render_overlay_fragments), which are to show the same.                 *)
(*                                                                         *)
(* A canvas is a window <<x0, y0, x1, y1>> of the frame, half open. What   *)
(* it shows is which shapes paint which of its pixels, and for a caption   *)
(* the row of the frame that its baseline is on. A box is                  *)
(* [kind |-> "box", x1, y1, x2, y2, cap] with cap the width of its caption *)
(* (0: none); a polygon or track is [kind |-> "line", ...] by the extent   *)
(* of its points. The pixel constants of draw.hpp and draw.cpp are         *)
(* parameters, so that small frames meet them.                             *)
(***************************************************************************)
EXTENDS Clamping, Sequences, FiniteSets

CONSTANTS
  OvW, OvH,         \* the frame's size
  OvShapes,         \* the shapes that may be drawn
  OvMaxShapes,      \* bound: how many at a time
  OvThickness,
  OvBatches,        \* values of kMaxOverlayBatch
  OvMinDim,         \* kMinOverlayDim
  OvStrip,          \* kLabelStrip
  OvOffset, OvFloor, OvBelow,   \* kTextOffset, kTextFloor, kTextBelow
  OvAscent          \* rows of a caption above its baseline

(* A shape's corners are in order; the DSP takes frames of even height, at  *)
(* least as large as its smallest canvas; and the pixel constants leave a   *)
(* caption room in its strip and in the smallest canvas.                    *)
ASSUME OvAssumption ==
  /\ \A s \in OvShapes :
       /\ s.kind \in {"box", "line"} /\ s.cap \in Nat
       /\ s.x1 \in Int /\ s.y1 \in Int /\ s.x2 \in Int /\ s.y2 \in Int
       /\ s.x1 <= s.x2 /\ s.y1 <= s.y2
  /\ OvMaxShapes \in Nat /\ OvBatches \subseteq Nat \ {0}
  /\ OvW \in Nat /\ OvH \in Nat /\ OvThickness \in Nat \ {0} /\ OvMinDim \in Nat
  /\ OvStrip \in Nat /\ OvOffset \in Nat /\ OvFloor \in Nat /\ OvBelow \in Nat \ {0} /\ OvAscent \in Nat
  /\ OvMinDim <= OvW /\ OvMinDim <= OvH /\ OvH % 2 = 0
  /\ OvFloor + OvBelow <= OvH /\ OvFloor + 2 <= OvMinDim /\ OvBelow <= OvOffset
  /\ OvOffset + OvFloor <= OvStrip + OvThickness + 1
  /\ OvOffset + OvAscent <= OvStrip + OvThickness + 1

VARIABLES
  oshapes,  \* the shapes to draw, boxes first
  obatch,   \* the limit of one blend job
  oextent,  \* x_min, y_min, x_max, y_max of render_overlay_fragments
  ocanvas   \* and of render_overlay_rgba

ovars == <<oshapes, obatch, oextent, ocanvas>>

OvInit == /\ oshapes = <<>> /\ obatch \in OvBatches
          /\ oextent = <<OvW, OvH, 0, 0>> /\ ocanvas = <<OvW, OvH, 0, 0>>

Captioned(s) == s.kind = "box" /\ s.cap > 0
Strip(s) == IF Captioned(s) THEN OvStrip ELSE 0
Margin == OvThickness + 1

(* The extent of a shape's strokes and caption strip. The points of a line  *)
(* are gathered from the empty extent of the frame, so one that lies        *)
(* outside reaches back to the frame's edge.                                *)
Reach(s) == IF s.kind = "box" THEN <<s.x1, s.y1, s.x2, s.y2>>
            ELSE <<min(OvW, s.x1), min(OvH, s.y1), max(0, s.x2), max(0, s.y2)>>
Extent(s) == <<Reach(s)[1] - Margin, Reach(s)[2] - Margin - Strip(s),
               Reach(s)[3] + Margin, Reach(s)[4] + Margin>>

Widened(e, x) == <<min(e[1], x[1]), min(e[2], x[2]), max(e[3], x[3]), max(e[4], x[4])>>

(* render_overlay_rgba's extent grows by a margin for every line, also for  *)
(* one that lies inside what there already is.                              *)
Grown(e, s) ==
  IF s.kind = "box" THEN Widened(e, Extent(s))
  ELSE LET w == Widened(e, <<s.x1, s.y1, s.x2, s.y2>>)
       IN <<w[1] - Margin, w[2] - Margin, w[3] + Margin, w[4] + Margin>>

(* One more shape: a turn of the loops that gather rects and lines and      *)
(* their extents.                                                           *)
OvAdd(s) ==
  /\ Len(oshapes) < OvMaxShapes
  /\ s.kind = "box" => \A i \in DOMAIN oshapes : oshapes[i].kind = "box"
  /\ oshapes' = Append(oshapes, s)
  /\ oextent' = Widened(oextent, Extent(s))
  /\ ocanvas' = Grown(ocanvas, s)
  /\ UNCHANGED obatch

OvNext == \E s \in OvShapes : OvAdd(s)
OvSpec == OvInit /\ [][OvNext]_ovars

Drawn == {oshapes[i] : i \in DOMAIN oshapes}
InFrame(e) == <<max(0, e[1]), max(0, e[2]), min(OvW, e[3]), min(OvH, e[4])>>
UnionWindow == InFrame(oextent)

(* Both renderers throw on no shapes, and when all lie outside the frame.   *)
Renders == /\ oshapes # <<>>
           /\ UnionWindow[3] > UnionWindow[1] /\ UnionWindow[4] > UnionWindow[2]

Inside(win) == (win[1]..(win[3] - 1)) \X (win[2]..(win[4] - 1))

(* The row of a canvas that a caption's baseline is drawn on: the one       *)
(* canvas holds every caption, a fragment only those whose row it has.      *)
anchored(s, y0) == LET row == s.y1 - OvOffset - y0 IN IF y0 = 0 THEN max(row, OvFloor) ELSE row
text_row(s, y0, ch, fragment) ==
  IF fragment THEN {row \in {anchored(s, y0)} : row >= 0 /\ row < ch}
  ELSE {min(max(s.y1 - OvOffset - y0, OvFloor), ch - 2)}

(* draw_masks() and colorize(): the pixels of a canvas that shapes paint.   *)
Near(v, e) == v \in (e - OvThickness)..(e + OvThickness)
Stroke(s, p) ==
  /\ p[1] \in (s.x1 - OvThickness)..(s.x2 + OvThickness)
  /\ p[2] \in (s.y1 - OvThickness)..(s.y2 + OvThickness)
  /\ s.kind = "box" => Near(p[1], s.x1) \/ Near(p[1], s.x2) \/ Near(p[2], s.y1) \/ Near(p[2], s.y2)

(* The rows of the frame that a caption's baseline is on, one or none.      *)
Baselines(s, win, fragment) ==
  {win[2] + row : row \in IF Captioned(s) THEN text_row(s, win[2], win[4] - win[2], fragment) ELSE {}}

Caption(s, base, p) ==
  /\ p[1] \in s.x1..(s.x1 + s.cap - 1)
  /\ p[2] \in (base - OvAscent)..(base + OvBelow - 1)

draw_strokes(shapes, win) == {q \in Inside(win) \X shapes : Stroke(q[2], q[1])}
draw_captions(shapes, win, fragment) ==
  {q \in Inside(win) \X shapes \X UNION {Baselines(s, win, fragment) : s \in shapes} :
     q[3] \in Baselines(q[2], win, fragment) /\ Caption(q[2], q[3], q[1])}

(* The one canvas.                                                          *)
render_overlay_rgba ==
  LET u == InFrame(ocanvas)
  IN <<u[1], u[2], u[1] + max(OvMinDim, u[3] - u[1]), u[2] + max(OvMinDim, u[4] - u[2])>>

(* The windows of a box: its caption and top edge, its bottom edge, and its *)
(* sides in between.                                                        *)
StripLeft(r) == max(UnionWindow[1], r.x1 - Margin)
StripRight(r) ==
  LET tight == min(UnionWindow[3], r.x2 + Margin)
  IN IF Captioned(r) THEN min(UnionWindow[3], max(tight, r.x1 + r.cap)) ELSE tight
TopEnd(r)   == min(UnionWindow[4], r.y1 + Margin)
BottomAt(r) == max(UnionWindow[2], r.y2 - OvThickness)
Edges(r) ==
  {<<"top", <<StripLeft(r), max(UnionWindow[2], r.y1 - Margin - Strip(r)), StripRight(r), TopEnd(r)>> >>,
   <<"bottom", <<StripLeft(r), BottomAt(r), StripRight(r), min(UnionWindow[4], r.y2 + Margin)>> >>,
   <<"left", <<StripLeft(r), TopEnd(r), min(UnionWindow[3], r.x1 + Margin), BottomAt(r)>> >>,
   <<"right", <<max(UnionWindow[1], r.x2 - OvThickness), TopEnd(r), StripRight(r), BottomAt(r)>> >>}

(* A plausible bug: the sides of a box are left out.                        *)
NoSides(r) == {e \in Edges(r) : e[1] \in {"top", "bottom"} /\ e[2][4] > e[2][2]}

(* Up to four of them; one is a pair of what it is of and its window.       *)
BoxFragments(r) ==
  {e \in Edges(r) : e[2][4] > e[2][2] /\ (e[1] \in {"left", "right"} => e[2][3] > e[2][1])}

(* The one window of a shape, clamped.                                      *)
Whole(s) ==
  LET u == UnionWindow
      e == Extent(s)
  IN <<max(u[1], e[1]), max(u[2], e[2]), min(u[3], e[3]), min(u[4], e[4])>>
ShapeFragment(s) == {e \in {<<"whole", Whole(s)>>} : e[2][3] > e[2][1] /\ e[2][4] > e[2][2]}

TightOf(s) == IF s.kind = "box" THEN BoxFragments(s) ELSE ShapeFragment(s)
Tight    == UNION {{i} \X TightOf(oshapes[i]) : i \in DOMAIN oshapes}
PerShape == UNION {{i} \X ShapeFragment(oshapes[i]) : i \in DOMAIN oshapes}

(* Past the limit of one blend job, a canvas per shape, and past it again   *)
(* one for all.                                                             *)
Fragments == IF Cardinality(Tight) <= obatch THEN Tight
             ELSE IF Cardinality(PerShape) <= obatch THEN PerShape
             ELSE {<<0, <<"all", UnionWindow>> >>}

(* The height of a fragment's canvas: at least the smallest the daemon      *)
(* takes, tall enough for the captions in it as they are met, and even.     *)
Taller(s, y0, ch) ==
  LET row == anchored(s, y0)
  IN IF Captioned(s) /\ row >= 0 /\ row < ch THEN max(ch, row + OvBelow) ELSE ch
Heights(f) ==
  LET h[i \in 0..Len(oshapes)] == IF i = 0 THEN max(OvMinDim, f[4] - f[2])
                                  ELSE Taller(oshapes[i], f[2], h[i - 1])
  IN h
Height(f) == LET ch == Heights(f)[Len(oshapes)] IN ch + (ch % 2)

(* The canvas of a fragment, slid back into the frame.                      *)
Slid(f) ==
  LET cw == max(OvMinDim, f[3] - f[1])
      fx == max(0, min(f[1], OvW - cw))
      fy == max(0, min(f[2], OvH - Height(f)))
  IN <<fx, fy, fx + cw, fy + Height(f)>>

overlaps(a, b) == a[1] < b[3] /\ b[1] < a[3] /\ a[2] < b[4] /\ b[2] < a[4]
Selected(win) == {s \in Drawn : overlaps(Extent(s), win)}

render_overlay_fragments == {win \in {Slid(f[2][2]) : f \in Fragments} : Selected(win) # {}}

-----------------------------------------------------------------------------
(* "Fragment pixels then equal canvas pixels region for region"            *)
(* (draw.cpp:341). So it is with the strokes, in the whole frame, whatever  *)
(* is outside it and whichever fallback was taken: a fragment shows of each *)
(* shape what the one canvas shows there, and all of them show all of it.   *)
(* A caption that the one canvas shows in the window the fragments are cut  *)
(* from is in a fragment, on the same row, if no fallback was taken and its *)
(* box is in view: not left of the frame, nor with its top edge above or    *)
(* below it. And a fragment shows no other piece of one, unless it is       *)
(* Unfloored there. (A fragment leaves out the caption of a shape that it   *)
(* does not overlap; which of that caption and a shape it does draw is on   *)
(* top is not compared.)                                                    *)
InView(s) == s.x2 + OvThickness >= 0 /\ s.y1 + OvThickness >= 0 /\ s.y1 - OvOffset <= OvH - 2

(* A caption so near the top that the one canvas moves it down to the floor *)
(* row: a fragment that starts at the first row of the frame does the same, *)
(* one that starts between there and the caption's own row does not, and    *)
(* the caption is drawn twice.                                              *)
Unfloored(s, w) == w[2] > 0 /\ s.y1 - OvOffset < OvFloor

Within(win, painted) == {q \in painted : q[1] \in Inside(win)}
FragmentsCover ==
  Renders =>
    LET all == render_overlay_rgba
        parts == render_overlay_fragments
        frame == <<0, 0, OvW, OvH>>
    IN /\ Within(frame, draw_strokes(Drawn, all))
            \subseteq UNION {draw_strokes(Selected(w), w) : w \in parts}
       /\ \A w \in parts :
            Within(frame, draw_strokes(Selected(w), w))
              = Within(frame, Within(w, draw_strokes(Drawn, all)))
       /\ Fragments = Tight =>
            Within(UnionWindow, draw_captions({s \in Drawn : InView(s)}, all, FALSE))
              \subseteq UNION {draw_captions(Selected(w), w, TRUE) : w \in parts}
       /\ \A w \in parts :
            Within(UnionWindow, draw_captions({s \in Selected(w) : InView(s) /\ ~Unfloored(s, w)}, w, TRUE))
              \subseteq draw_captions(Drawn, all, FALSE)

(* "The return always fits one blend job" (draw.hpp:154): no more canvases  *)
(* than the job takes, each of even height and in the frame; as to its      *)
(* bottom edge, when no box reaches out of the frame at the top or bottom.  *)
Framed(s) == s.kind = "box" => s.y1 >= -Margin /\ s.y2 <= OvH
FragmentsFit ==
  Renders =>
    /\ Cardinality(Fragments) <= obatch
    /\ \A w \in render_overlay_fragments :
         /\ w[1] >= 0 /\ w[2] >= 0 /\ w[3] <= OvW /\ (w[4] - w[2]) % 2 = 0
         /\ (\A s \in Drawn : Framed(s)) => w[4] <= OvH

(* The fragments can take the one canvas's place in a blend job: they show  *)
(* the same and the job takes them (draw.cpp, render_overlay_fragments).    *)
FragmentsSound == FragmentsCover /\ FragmentsFit
=============================================================================
