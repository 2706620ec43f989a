------------------------------- MODULE Boxes -------------------------------
(***************************************************************************)
(* Bounding boxes (app/utils/geometry.py, clamp_box).                      *)
(*                                                                         *)
(* The side of a frame is Grid units.  With a power of two for Grid the    *)
(* code's floats are exact, as the integers here are.                      *)
(***************************************************************************)
EXTENDS Rounding, Lists, FiniteSetsExt

CONSTANT Grid

ASSUME GridAssumption == Grid \in Nat \ {0}

Right(b) == b.x + b.width
Bottom(b) == b.y + b.height
Area(b) == b.width * b.height

\* The point has half units: px and py are doubled.
Covers(b, px, py) ==
    /\ 2 * b.x <= px /\ px < 2 * Right(b)
    /\ 2 * b.y <= py /\ py < 2 * Bottom(b)

\* Mutant: what overlaps counts twice.
SumOfAreas(boxes) == MapThenSumSet(Area, boxes)

\* The plane is cut at the edges of the boxes; a cell counts when its centre is covered.
UnionArea(boxes) ==
    LET solid == {b \in boxes : b.width > 0 /\ b.height > 0}
        xs == Ascending({b.x : b \in solid} \cup {Right(b) : b \in solid})
        ys == Ascending({b.y : b \in solid} \cup {Bottom(b) : b \in solid})
        cells == {c \in (1..(Len(xs) - 1)) \X (1..(Len(ys) - 1)) :
                    \E b \in solid : Covers(b, xs[c[1]] + xs[c[1] + 1], ys[c[2]] + ys[c[2] + 1])}
    IN IF solid = {} THEN 0
       ELSE SumFunction([c \in cells |->
                (xs[c[1] + 1] - xs[c[1]]) * (ys[c[2] + 1] - ys[c[2]])])

IntersectionArea(a, b) ==
    LET width == Least(Right(a), Right(b)) - Greatest(a.x, b.x)
        height == Least(Bottom(a), Bottom(b)) - Greatest(a.y, b.y)
    IN IF width <= 0 \/ height <= 0 THEN 0 ELSE width * height

\* Intersection over union.
Iou(a, b) ==
    LET overlap == IntersectionArea(a, b)
    IN IF overlap = 0 THEN Ratio(0, 1) ELSE Ratio(overlap, Area(a) + Area(b) - overlap)

InFrame(v) == Least(Greatest(v, 0), Grid)

\* A box that lies in the frame is returned as it is; in integers that is the same formula.
ClampBox(b) ==
    LET left == InFrame(b.x)
        top == InFrame(b.y)
    IN [x |-> left, y |-> top,
        width |-> Greatest(InFrame(Right(b)) - left, 0),
        height |-> Greatest(InFrame(Bottom(b)) - top, 0)]
=============================================================================
