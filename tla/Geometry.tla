------------------------------ MODULE Geometry ------------------------------
(***************************************************************************)
(* The plane geometry of common/math, on whole coordinates: vec2d.cc,      *)
(* line_segment2d.cc, box2d.cc and polygon2d.cc.  Headings are numbers of  *)
(* quarter turns.  A distance is known by its square, a fraction           *)
(* [num, den] with den > 0; nothing here needs the tolerance kMathEpsilon. *)
(***************************************************************************)
EXTENDS Integers, SequencesExt, FiniteSetsExt

-----------------------------------------------------------------------------
(* Vec2d *)

Vec(x, y) == [x |-> x, y |-> y]

Plus(v, w)  == Vec(v.x + w.x, v.y + w.y)
Minus(v, w) == Vec(v.x - w.x, v.y - w.y)
Scaled(k, v) == Vec(k * v.x, k * v.y)

InnerProd(v, w) == v.x * w.x + v.y * w.y
CrossProd(v, w) == v.x * w.y - v.y * w.x
LengthSquare(v) == InnerProd(v, v)
DistanceSquareTo(v, w) == LengthSquare(Minus(v, w))

UnitVec(q) == <<Vec(1, 0), Vec(0, 1), Vec(-1, 0), Vec(0, -1)>>[(q % 4) + 1]

\* SelfRotate, by q quarter turns
Rotated(v, q) ==
  Vec(InnerProd(v, Vec(UnitVec(q).x, -UnitVec(q).y)),
      InnerProd(v, Vec(UnitVec(q).y, UnitVec(q).x)))

\* Angle of a vector along an axis; that of no direction is 0.
Angle(v) ==
  IF v.x = 0 /\ v.y = 0 THEN 0
  ELSE CHOOSE q \in 0 .. 3 : InnerProd(v, UnitVec(q)) > 0 /\ CrossProd(v, UnitVec(q)) = 0

\* Length of a vector along an axis.
Length(v) == InnerProd(v, UnitVec(Angle(v)))

-----------------------------------------------------------------------------
(* LineSegment2d *)

Segment(start, end) == [start |-> start, end |-> end]

Along(s) == Minus(s.end, s.start)

SegmentPointIn(s, p) ==
  /\ CrossProd(Minus(p, s.start), Along(s)) = 0
  /\ InnerProd(Minus(p, s.start), Minus(p, s.end)) <= 0

Fraction(num, den) == [num |-> num, den |-> den]
Zero == Fraction(0, 1)

LessEq(f, g) == f.num * g.den <= g.num * f.den

Least(fractions) == CHOOSE f \in fractions : \A g \in fractions : LessEq(f, g)

\* PtSegDistance, DistanceSquareTo
SegmentDistance(p, s) ==
  LET proj == InnerProd(Minus(p, s.start), Along(s))
      cross == CrossProd(Minus(p, s.start), Along(s))
      len == LengthSquare(Along(s))
  IN IF len = 0 \/ proj <= 0 THEN Fraction(DistanceSquareTo(p, s.start), 1)
     ELSE IF proj >= len THEN Fraction(DistanceSquareTo(p, s.end), 1)
     \* along an axis, where the distance is whole
     ELSE IF 0 \in {Along(s).x, Along(s).y}
     THEN LET d == cross \div Length(Along(s)) IN Fraction(d * d, 1)
     ELSE Fraction(cross * cross, len)

\* The quotient of two whole numbers, which the callers know to be whole.
Quotient(a, b) == IF b < 0 THEN (-a) \div (-b) ELSE a \div b

\* GetIntersect: the point it finds, in a set, or nothing.  Segments along the
\* axes meet in whole points.
GetIntersect(s, o) ==
  LET cc1 == CrossProd(Along(s), Minus(o.start, s.start))
      cc2 == CrossProd(Along(s), Minus(o.end, s.start))
      cc3 == CrossProd(Along(o), Minus(s.start, o.start))
      cc4 == CrossProd(Along(o), Minus(s.end, o.start))
  IN IF SegmentPointIn(s, o.start) THEN {o.start}
     ELSE IF SegmentPointIn(s, o.end) THEN {o.end}
     ELSE IF SegmentPointIn(o, s.start) THEN {s.start}
     ELSE IF SegmentPointIn(o, s.end) THEN {s.end}
     ELSE IF cc1 * cc2 >= 0 \/ cc3 * cc4 >= 0 THEN {}
     ELSE {Vec(Quotient(s.start.x * cc4 - s.end.x * cc3, cc4 - cc3),
               Quotient(s.start.y * cc4 - s.end.y * cc3, cc4 - cc3))}

HasIntersect(s, o) == GetIntersect(s, o) # {}

Heading(s) == Angle(Along(s))

Translated(s, distance, q) ==
  Segment(Plus(s.start, Scaled(distance, UnitVec(q))),
          Plus(s.end, Scaled(distance, UnitVec(q))))

\* Extend moves the end only.
Extended(s, distance) ==
  [s EXCEPT !.end = Plus(@, Scaled(distance, UnitVec(Heading(s))))]

\* The distance of a point to the left of the line.
ProductOntoUnit(s, p) == CrossProd(UnitVec(Heading(s)), Minus(p, s.start))

-----------------------------------------------------------------------------
(* Box2d *)

Box(center, heading, half_length, half_width) ==
  [center |-> center, heading |-> heading,
   half_length |-> half_length, half_width |-> half_width]

Corners(b) ==
  {Plus(b.center, Plus(Scaled(i * b.half_length, UnitVec(b.heading)),
                       Scaled(j * b.half_width, UnitVec(b.heading + 1)))) :
     i \in {-1, 1}, j \in {-1, 1}}

LateralExtend(b, extension) == [b EXCEPT !.half_width = @ + extension \div 2]

\* A point in the frame of the box: its axis, and the right of it.
InFrame(b, p) ==
  Vec(InnerProd(Minus(p, b.center), UnitVec(b.heading)),
      InnerProd(Minus(p, b.center), UnitVec(b.heading - 1)))

\* Beside the box (1, -1) or in its range (0).
Beside(x, half) == IF x >= half THEN 1 ELSE IF x <= -half THEN -1 ELSE 0

\* A segment is mirrored so that it begins on the positive side of an axis.
Mirror(x1, x2, half) ==
  IF \/ Beside(x1, half) < 0
     \/ Beside(x1, half) = 0 /\ Beside(x2, half) < 0 THEN -1 ELSE 1

\* Mutant: the upper corner is taken for the lower one.
BesideWrongCorner(p1, p2, corner) ==
  LET s == Segment(p1, p2)
  IN IF Beside(p1.y, corner.y) = 1 \/ Beside(p2.x, corner.x) >= 0
     THEN SegmentDistance(corner, s)
     ELSE Zero

\* The cases that Box2d::DistanceTo(LineSegment2d) distinguishes, once it has
\* mirrored the segment and exchanged the axes.
BesideDistance(p1, p2, corner) ==
  LET s == Segment(p1, p2)
      zone == Beside(p2.x, corner.x) * 3 + Beside(p2.y, corner.y)
      from(c) == SegmentDistance(c, s)
      side(c) == CrossProd(Along(s), Minus(c, p1))
      straight(d) == Fraction(d * d, 1)
      low == Vec(corner.x, -corner.y)
      far == Vec(-corner.x, corner.y)
  IN IF Beside(p1.y, corner.y) = 1
     THEN CASE zone = 4  -> from(corner)
            [] zone = 3  -> IF p1.x > p2.x THEN straight(p2.x - corner.x) ELSE from(corner)
            [] zone = 2  -> IF p1.x > p2.x THEN from(low) ELSE from(corner)
            [] zone = -1 -> IF side(low) >= 0 THEN Zero ELSE from(low)
            [] zone = -4 -> IF side(low) <= 0 THEN from(low)
                            ELSE IF side(far) <= 0 THEN Zero ELSE from(far)
     ELSE CASE zone = 4 -> IF p1.x < p2.x THEN straight(p1.x - corner.x) ELSE from(corner)
            [] zone = 3 -> straight((IF p1.x < p2.x THEN p1.x ELSE p2.x) - corner.x)
            [] zone \in {1, -2} -> IF side(corner) <= 0 THEN Zero ELSE from(corner)
            [] zone = -3 -> Zero

BoxDistance(b, s) ==
  LET p1 == InFrame(b, s.start)
      p2 == InFrame(b, s.end)
      inside(p) == Beside(p.x, b.half_length) = 0 /\ Beside(p.y, b.half_width) = 0
      mx == Mirror(p1.x, p2.x, b.half_length)
      my == Mirror(p1.y, p2.y, b.half_width)
      m1 == Vec(mx * p1.x, my * p1.y)
      m2 == Vec(mx * p2.x, my * p2.y)
      gx1 == Beside(m1.x, b.half_length)  gy1 == Beside(m1.y, b.half_width)
      gx2 == Beside(m2.x, b.half_length)  gy2 == Beside(m2.y, b.half_width)
  IN IF inside(p1) \/ inside(p2) THEN Zero
     ELSE IF gx1 < gy1 \/ (gx1 = gy1 /\ gx2 < gy2)
     THEN BesideDistance(Vec(m1.y, m1.x), Vec(m2.y, m2.x), Vec(b.half_width, b.half_length))
     ELSE BesideDistance(m1, m2, Vec(b.half_length, b.half_width))

BoxHasOverlap(b, s) ==
  IF s.start = s.end
  THEN LET p == InFrame(b, s.start)
       IN p.x \in -b.half_length .. b.half_length /\ p.y \in -b.half_width .. b.half_width
  ELSE BoxDistance(b, s).num = 0

-----------------------------------------------------------------------------
(* Polygon2d: a sequence of points *)

Following(points, i) == points[(i % Len(points)) + 1]

Edges(points) == [i \in DOMAIN points |-> Segment(points[i], Following(points, i))]

Turn(points, i) ==
  CrossProd(Along(Edges(points)[i]), Along(Following(Edges(points), i)))

\* IsConvexPolygon, of at least three points: all turns have one direction.
IsConvexPolygon(points) ==
  \/ \A i \in DOMAIN points : Turn(points, i) > 0
  \/ \A i \in DOMAIN points : Turn(points, i) < 0

TwiceArea(points) ==
  FoldFunction(+, 0, [i \in DOMAIN points |->
    CrossProd(Minus(points[i], points[1]), Minus(Following(points, i), points[1]))])

\* BuildFromPoints turns the points counterclockwise.
Polygon(points) == IF TwiceArea(points) < 0 THEN Reverse(points) ELSE points

\* IsPointIn counts the edges that a ray crosses.
PolygonPointIn(points, p) ==
  LET crosses(e) ==
        /\ (e.start.y > p.y) # (e.end.y > p.y)
        /\ LET side == CrossProd(Minus(e.end, p), Minus(e.start, p))
           IN IF e.end.y < e.start.y THEN side > 0 ELSE side < 0
      edges == Edges(points)
  IN \/ \E i \in DOMAIN edges : SegmentPointIn(edges[i], p)
     \/ Cardinality({i \in DOMAIN edges : crosses(edges[i])}) % 2 = 1

\* HasOverlap with a segment
PolygonHasOverlap(points, s) ==
  \/ PolygonPointIn(points, s.start) \/ PolygonPointIn(points, s.end)
  \/ \E i \in DOMAIN points : HasIntersect(Edges(points)[i], s)

\* ClipConvexHull: the part of a polygon to the left of a line.
ClipConvexHull(line, points) ==
  LET prod(p) == CrossProd(Along(line), Minus(p, line.start))
      between(p, q) ==
        Vec(Quotient(p.x * prod(q) - q.x * prod(p), prod(q) - prod(p)),
            Quotient(p.y * prod(q) - q.y * prod(p), prod(q) - prod(p)))
      piece(p, q) == (IF prod(p) >= 0 THEN <<p>> ELSE <<>>) \o
                     (IF prod(p) * prod(q) < 0 THEN <<between(p, q)>> ELSE <<>>)
  IN FlattenSeq([i \in DOMAIN points |-> piece(points[i], Following(points, i))])

\* ComputeConvexHull: the points sorted, to and fro; a point that does not turn
\* left drops the one before it, down to the first ones of the half.
ConvexHull(points) ==
  LET less(p, q) == p.x < q.x \/ (p.x = q.x /\ p.y < q.y)
      there == SortSeq(points, less)
      walk == there \o Reverse(there)
      n == Len(points)
      push[i \in 0 .. 2 * n] ==
        IF i = 0 THEN [hull |-> <<>>, last |-> 1]
        ELSE LET last == IF i = n + 1 THEN Len(push[i-1].hull) ELSE push[i-1].last
                 hull == push[i-1].hull
                 turns(k) == CrossProd(Minus(hull[k], hull[k-1]), Minus(walk[i], hull[k])) > 0
                 kept == CHOOSE k \in 0 .. Len(hull) :
                           /\ \A j \in k + 1 .. Len(hull) : j > last /\ ~turns(j)
                           /\ k > last => turns(k)
             IN [hull |-> Append(SubSeq(hull, 1, kept), walk[i]), last |-> last]
      all == push[2 * n].hull
  IN SubSeq(all, 1, Len(all) - 1)

\* ComputeOverlap, ComputeIoU: the areas of the overlap and of the union, twice.
Overlap(points, others) ==
  LET clipped == FoldLeft(LAMBDA rest, edge :
                            IF Len(rest) < 3 THEN <<>> ELSE ClipConvexHull(edge, rest),
                          others, Edges(points))
      hull == IF Len(clipped) < 3 THEN <<>> ELSE ConvexHull(clipped)
  IN IF Len(hull) < 3 THEN <<>> ELSE Polygon(hull)

IoU(points, others) ==
  LET overlap == Overlap(points, others)
      area == IF overlap = <<>> THEN 0 ELSE TwiceArea(overlap)
  IN Fraction(area, TwiceArea(points) + TwiceArea(others) - area)

-----------------------------------------------------------------------------
(* Properties *)

Lesser(a, b) == IF a < b THEN a ELSE b
Greater(a, b) == IF a < b THEN b ELSE a

Overlapping(a1, a2, b1, b2) == Lesser(a1, a2) <= Greater(b1, b2) /\ Lesser(b1, b2) <= Greater(a1, a2)

(* A box around the origin and a segment meet unless a side of the box or  *)
(* the segment separates them: what Box2d::HasOverlap is to tell.          *)
MeetsBox(s, hl, hw) ==
  /\ Overlapping(s.start.x, s.end.x, -hl, hl)
  /\ Overlapping(s.start.y, s.end.y, -hw, hw)
  /\ LET side(x, y) == CrossProd(Along(s), Minus(Vec(x, y), s.start))
         sides == {side(x, y) : x \in {-hl, hl}, y \in {-hw, hw}}
     IN ~(\A a \in sides : a > 0) /\ ~(\A a \in sides : a < 0)
=============================================================================
