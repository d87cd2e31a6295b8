---------------------------- MODULE PlanarMotion ----------------------------
(***************************************************************************)
(* Planar poses and the two operations of the odometry code on them, over  *)
(* a grid: positions are integers and a heading is a number of quarter     *)
(* turns, so that cos and sin are exact.  The structure that the code can  *)
(* get wrong is kept: composition does not commute, and headings wrap.     *)
(***************************************************************************)
EXTENDS Integers, Sequences, SequencesExt

Headings == 0..3

Pose == [x : Int, y : Int, h : Headings]

\* A movement as it is reported: the heading lies in [-pi, pi).
Movement == [x : Int, y : Int, h : -2..1]

Zero == [x |-> 0, y |-> 0, h |-> 0]

Cos(h) == IF h % 4 = 0 THEN 1 ELSE IF h % 4 = 2 THEN -1 ELSE 0
Sin(h) == IF h % 4 = 1 THEN 1 ELSE IF h % 4 = 3 THEN -1 ELSE 0

\* constraitRadNegativePiToPi: the equal angle in [-pi, pi).
ConstraitRadNegativePiToPi(h) == ((h + 2) % 4) - 2

\* a.inverseTimes(b): pose b as seen from pose a.
InverseTimes(a, b) ==
  [x |-> (b.x - a.x) * Cos(a.h) + (b.y - a.y) * Sin(a.h),
   y |-> (b.y - a.y) * Cos(a.h) - (b.x - a.x) * Sin(a.h),
   h |-> ConstraitRadNegativePiToPi(b.h - a.h)]

\* Pose a moved by d, where d is relative to a; the heading wraps.
Moved(a, d) ==
  [x |-> a.x + d.x * Cos(a.h) - d.y * Sin(a.h),
   y |-> a.y + d.x * Sin(a.h) + d.y * Cos(a.h),
   h |-> (a.h + d.h) % 4]

\* Slip: the increment turns the frame before it is added.
AccumulateTurnFirst(steps) ==
  LET total == FoldLeft(LAMBDA a, d : Moved([a EXCEPT !.h = a.h + d.h], [d EXCEPT !.h = 0]),
                        Zero, steps)
  IN  [total EXCEPT !.h = ConstraitRadNegativePiToPi(@)]

\* The sum of the first k increments, for each k.
Sums(steps) ==
  LET sum[k \in 0..Len(steps)] ==
        IF k = 0 THEN Zero ELSE Moved(sum[k - 1], steps[k])
  IN  sum

\* The loop of getDeadReckon over the increments received since last time.
Accumulate(steps) ==
  LET total == Sums(steps)[Len(steps)]
  IN  [total EXCEPT !.h = ConstraitRadNegativePiToPi(@)]
=============================================================================
