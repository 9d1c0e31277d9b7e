---------------------- MODULE OpenSpaceRoiDeciderProofs ----------------------
(***************************************************************************)
(* What the region-of-interest decider promises, for every lot along the   *)
(* axes, every vehicle and every pose: a lot that passes the size check    *)
(* holds the whole vehicle at the goal and is open towards the vehicle     *)
(* (LotsHoldVehicles), and the bounds of a region hold the start and the   *)
(* goal (RegionsSpanManeuvers).                                            *)
(*                                                                         *)
(* The two go along different lines.  The first relabels: whatever corner  *)
(* the labels start from, and whatever NormalizeVerticesForSlotGeometry    *)
(* and StabilizeSlotOpeningForLocalGoal make of them, the four corners     *)
(* stay those of one rectangle, in turn (IsLot, ExtractedLots).  The sizes *)
(* that LotStatus compares are its sides (LotSizes), and the goal is read  *)
(* off two of them.  The second needs that finitely many points have a     *)
(* least one (LeastIsThere, by induction along the points).                *)
(*                                                                         *)
(* And what the decider asks of the geometry: HasOverlap misses no point   *)
(* that a segment has in a box, and finds none that it has not             *)
(* (CollisionsAreSeen).  The table of cases is read case by case, once the *)
(* mirrored and exchanged axes are undone; and no separating line is there *)
(* exactly if there is a point in common (OverlapsAreMeetings).  Two       *)
(* segments intersect if and only if they share a point                    *)
(* (IntersectionsAreFound): one of the four ends, or where their lines     *)
(* cross, or of segments along each other again an end.                    *)
(***************************************************************************)
EXTENDS OpenSpaceRoiDecider, WellFoundedInduction, TLAPS

\* Points of the plane, in whole numbers of 5 cm.
Points == [x : Int, y : Int]

-----------------------------------------------------------------------------
(* Directions *)

\* A point is made of its coordinates.
LEMMA PointsAre ==
  /\ \A a, b \in Int : Vec(a, b) \in Points /\ Vec(a, b).x = a /\ Vec(a, b).y = b
  /\ \A p \in Points : p = Vec(p.x, p.y) /\ p.x \in Int /\ p.y \in Int
BY DEF Vec, Points

\* The directions are the axes, counterclockwise.
LEMMA Axes ==
  ASSUME NEW q \in Int
  PROVE  /\ q % 4 = 0 => UnitVec(q) = Vec(1, 0)
         /\ q % 4 = 1 => UnitVec(q) = Vec(0, 1)
         /\ q % 4 = 2 => UnitVec(q) = Vec(-1, 0)
         /\ q % 4 = 3 => UnitVec(q) = Vec(0, -1)
<1> DEFINE r == q % 4
           units == <<Vec(1, 0), Vec(0, 1), Vec(-1, 0), Vec(0, -1)>>
<1>1. r \in 0 .. 3
  OBVIOUS
<1>2. UnitVec(q) = units[r + 1]
  BY DEF UnitVec
<1>3. units[1] = Vec(1, 0) /\ units[2] = Vec(0, 1) /\ units[3] = Vec(-1, 0) /\ units[4] = Vec(0, -1)
  OBVIOUS
<1> HIDE DEF r, units
<1>4. r = 0 => UnitVec(q) = Vec(1, 0)
  BY <1>1, <1>2, <1>3
<1>5. r = 1 => UnitVec(q) = Vec(0, 1)
  BY <1>1, <1>2, <1>3
<1>6. r = 2 => UnitVec(q) = Vec(-1, 0)
  BY <1>1, <1>2, <1>3
<1>7. r = 3 => UnitVec(q) = Vec(0, -1)
  BY <1>1, <1>2, <1>3
<1> QED BY <1>4, <1>5, <1>6, <1>7 DEF r

\* The directions that are named by a number.
LEMMA AxisVectors ==
  /\ UnitVec(0) = Vec(1, 0) /\ UnitVec(1) = Vec(0, 1) /\ UnitVec(2) = Vec(-1, 0) /\ UnitVec(3) = Vec(0, -1)
  /\ UnitVec(4) = Vec(1, 0) /\ UnitVec(5) = Vec(0, 1)
<1>1. 0 % 4 = 0 /\ 1 % 4 = 1 /\ 2 % 4 = 2 /\ 3 % 4 = 3 /\ 4 % 4 = 0 /\ 5 % 4 = 1
  OBVIOUS
<1>2. UnitVec(0) = Vec(1, 0) /\ UnitVec(1) = Vec(0, 1)
  BY <1>1, Axes
<1>3. UnitVec(2) = Vec(-1, 0) /\ UnitVec(3) = Vec(0, -1)
  BY <1>1, Axes
<1>4. UnitVec(4) = Vec(1, 0) /\ UnitVec(5) = Vec(0, 1)
  BY <1>1, Axes
<1> QED BY <1>2, <1>3, <1>4

\* The inner products of a vector with the axes.
LEMMA AlongAxes ==
  ASSUME NEW v \in Points
  PROVE  /\ InnerProd(v, UnitVec(0)) = v.x /\ InnerProd(v, UnitVec(1)) = v.y
         /\ InnerProd(v, UnitVec(2)) = -v.x /\ InnerProd(v, UnitVec(3)) = -v.y
         /\ CrossProd(v, UnitVec(0)) = -v.y /\ CrossProd(v, UnitVec(1)) = v.x
         /\ CrossProd(v, UnitVec(2)) = v.y /\ CrossProd(v, UnitVec(3)) = -v.x
<1>1. v.x \in Int /\ v.y \in Int
  BY PointsAre
<1>2. \A a, b \in Int : InnerProd(v, Vec(a, b)) = v.x * a + v.y * b /\ CrossProd(v, Vec(a, b)) = v.x * b - v.y * a
  BY PointsAre DEF InnerProd, CrossProd
<1> DEFINE x == v.x
           y == v.y
<1>3. x \in Int /\ y \in Int
  BY <1>1
<1>4. 0 \in Int /\ 1 \in Int /\ -1 \in Int
  OBVIOUS
<1>5. InnerProd(v, UnitVec(0)) = x /\ CrossProd(v, UnitVec(0)) = -y
  <2>1. InnerProd(v, UnitVec(0)) = x * 1 + y * 0 /\ CrossProd(v, UnitVec(0)) = x * 0 - y * 1
    BY <1>2, <1>4, AxisVectors
  <2> HIDE DEF x, y
  <2>2. x * 1 + y * 0 = x /\ x * 0 - y * 1 = -y
    BY <1>3
  <2> QED BY <2>1, <2>2
<1>6. InnerProd(v, UnitVec(1)) = y /\ CrossProd(v, UnitVec(1)) = x
  <2>1. InnerProd(v, UnitVec(1)) = x * 0 + y * 1 /\ CrossProd(v, UnitVec(1)) = x * 1 - y * 0
    BY <1>2, <1>4, AxisVectors
  <2> HIDE DEF x, y
  <2>2. x * 0 + y * 1 = y /\ x * 1 - y * 0 = x
    BY <1>3
  <2> QED BY <2>1, <2>2
<1>7. InnerProd(v, UnitVec(2)) = -x /\ CrossProd(v, UnitVec(2)) = y
  <2>1. InnerProd(v, UnitVec(2)) = x * (-1) + y * 0 /\ CrossProd(v, UnitVec(2)) = x * 0 - y * (-1)
    BY <1>2, <1>4, AxisVectors
  <2> HIDE DEF x, y
  <2>2. x * (-1) + y * 0 = -x /\ x * 0 - y * (-1) = y
    BY <1>3
  <2> QED BY <2>1, <2>2
<1>8. InnerProd(v, UnitVec(3)) = -y /\ CrossProd(v, UnitVec(3)) = -x
  <2>1. InnerProd(v, UnitVec(3)) = x * 0 + y * (-1) /\ CrossProd(v, UnitVec(3)) = x * (-1) - y * 0
    BY <1>2, <1>4, AxisVectors
  <2> HIDE DEF x, y
  <2>2. x * 0 + y * (-1) = -y /\ x * (-1) - y * 0 = -x
    BY <1>3
  <2> QED BY <2>1, <2>2
<1> QED BY <1>5, <1>6, <1>7, <1>8

\* A vector along an axis has its direction and its length.
LEMMA DirectionIs ==
  ASSUME NEW v \in Points, NEW q \in 0 .. 3, InnerProd(v, UnitVec(q)) > 0, CrossProd(v, UnitVec(q)) = 0
  PROVE  Angle(v) = q /\ Length(v) = InnerProd(v, UnitVec(q))
<1> DEFINE fits(r) == InnerProd(v, UnitVec(r)) > 0 /\ CrossProd(v, UnitVec(r)) = 0
<1>1. q = 0 \/ q = 1 \/ q = 2 \/ q = 3
  OBVIOUS
<1>2. ~(v.x = 0 /\ v.y = 0)
  <2>1. v.x \in Int /\ v.y \in Int
    BY PointsAre
  <2> QED BY <1>1, <2>1, AlongAxes
<1>3. \A r \in 0 .. 3 : fits(r) => r = q
  <2> SUFFICES ASSUME NEW r \in 0 .. 3, fits(r) PROVE r = q
    OBVIOUS
  <2>1. v.x \in Int /\ v.y \in Int
    BY PointsAre
  <2>2. r = 0 \/ r = 1 \/ r = 2 \/ r = 3
    OBVIOUS
  <2> QED BY <1>1, <2>1, <2>2, AlongAxes
<1>4. Angle(v) = CHOOSE r \in 0 .. 3 : fits(r)
  BY <1>2 DEF Angle
<1>5. fits(q)
  OBVIOUS
<1> HIDE DEF fits
<1>6. Angle(v) = q
  BY <1>3, <1>4, <1>5
<1> QED BY <1>6 DEF Length

\* From one point to another along an axis.
LEMMA EdgeIs ==
  ASSUME NEW a \in Points, NEW b \in Points
  PROVE  /\ a.y = b.y /\ a.x < b.x => Angle(Minus(b, a)) = 0 /\ Distance(b, a) = b.x - a.x
         /\ a.x = b.x /\ a.y < b.y => Angle(Minus(b, a)) = 1 /\ Distance(b, a) = b.y - a.y
         /\ a.y = b.y /\ a.x > b.x => Angle(Minus(b, a)) = 2 /\ Distance(b, a) = a.x - b.x
         /\ a.x = b.x /\ a.y > b.y => Angle(Minus(b, a)) = 3 /\ Distance(b, a) = a.y - b.y
<1> DEFINE v == Minus(b, a)
<1>1. a.x \in Int /\ a.y \in Int /\ b.x \in Int /\ b.y \in Int
  BY PointsAre
<1>2. v \in Points /\ v.x = b.x - a.x /\ v.y = b.y - a.y
  BY <1>1, PointsAre DEF Minus
<1>3. Distance(b, a) = Length(v)
  BY DEF Distance
<1> HIDE DEF v
<1> DEFINE same(q) == InnerProd(v, UnitVec(q)) > 0 /\ CrossProd(v, UnitVec(q)) = 0
<1>4. ASSUME NEW q \in 0 .. 3, same(q) PROVE Angle(v) = q /\ Length(v) = InnerProd(v, UnitVec(q))
  BY <1>2, <1>4, DirectionIs
<1>5. CASE a.y = b.y /\ a.x < b.x
  <2>1. same(0)
    BY <1>1, <1>2, <1>5, AlongAxes
  <2> QED BY <1>2, <1>3, <1>4, <1>5, <2>1, AlongAxes, <1>1 DEF v
<1>6. CASE a.x = b.x /\ a.y < b.y
  <2>1. same(1)
    BY <1>1, <1>2, <1>6, AlongAxes
  <2> QED BY <1>2, <1>3, <1>4, <1>6, <2>1, AlongAxes, <1>1 DEF v
<1>7. CASE a.y = b.y /\ a.x > b.x
  <2>1. same(2)
    BY <1>1, <1>2, <1>7, AlongAxes
  <2> QED BY <1>2, <1>3, <1>4, <1>7, <2>1, AlongAxes, <1>1 DEF v
<1>8. CASE a.x = b.x /\ a.y > b.y
  <2>1. same(3)
    BY <1>1, <1>2, <1>8, AlongAxes
  <2> QED BY <1>2, <1>3, <1>4, <1>8, <2>1, AlongAxes, <1>1 DEF v
<1> QED BY <1>1, <1>5, <1>6, <1>7, <1>8

-----------------------------------------------------------------------------
(* Lots *)

\* Corners of a rectangle along the axes, in turn.
IsLot(v) ==
  /\ v \in [1 .. 4 -> Points]
  /\ \/ /\ v[1].x = v[2].x /\ v[3].x = v[4].x /\ v[1].x # v[3].x
        /\ v[1].y = v[4].y /\ v[2].y = v[3].y /\ v[1].y # v[3].y
     \/ /\ v[1].y = v[2].y /\ v[3].y = v[4].y /\ v[1].y # v[3].y
        /\ v[1].x = v[4].x /\ v[2].x = v[3].x /\ v[1].x # v[3].x

\* The corners of a lot in another order are those of the same lot.
LEMMA RelabelledLots ==
  ASSUME NEW v, IsLot(v)
  PROVE  \A w \in {<<v[1], v[4], v[3], v[2]>>, <<v[4], v[1], v[2], v[3]>>, <<v[3], v[4], v[1], v[2]>>,
                   Mirrored(v)} :
           IsLot(w) /\ Range(w) = Range(v)
<1>1. DOMAIN v = 1 .. 4 /\ v[1] \in Points /\ v[2] \in Points /\ v[3] \in Points /\ v[4] \in Points
  BY DEF IsLot
<1>2. ASSUME NEW a \in Points, NEW b \in Points, NEW c \in Points, NEW d \in Points
      PROVE  /\ <<a, b, c, d>> \in [1 .. 4 -> Points] /\ DOMAIN <<a, b, c, d>> = 1 .. 4
             /\ <<a, b, c, d>>[1] = a /\ <<a, b, c, d>>[2] = b /\ <<a, b, c, d>>[3] = c
             /\ <<a, b, c, d>>[4] = d
  OBVIOUS
<1>3. \A f : DOMAIN f = 1 .. 4 => Range(f) = {f[1], f[2], f[3], f[4]}
  <2> SUFFICES ASSUME NEW f, DOMAIN f = 1 .. 4 PROVE Range(f) = {f[1], f[2], f[3], f[4]}
    OBVIOUS
  <2>1. 1 .. 4 = {1, 2, 3, 4}
    OBVIOUS
  <2> QED BY <2>1 DEF Range
<1>4. Range(v) = {v[1], v[2], v[3], v[4]}
  BY <1>1, <1>3
<1>5. ASSUME NEW w \in {<<v[1], v[4], v[3], v[2]>>, <<v[4], v[1], v[2], v[3]>>,
                        <<v[3], v[4], v[1], v[2]>>, <<v[2], v[1], v[4], v[3]>>}
      PROVE  IsLot(w) /\ Range(w) = Range(v)
  <2>1. DOMAIN w = 1 .. 4 /\ w \in [1 .. 4 -> Points]
    BY <1>1, <1>2
  <2>2. Range(w) = {w[1], w[2], w[3], w[4]}
    BY <1>3, <2>1
  <2>3. CASE w = <<v[1], v[4], v[3], v[2]>>
    <3>1. w[1] = v[1] /\ w[2] = v[4] /\ w[3] = v[3] /\ w[4] = v[2]
      BY <2>3
    <3> QED BY <1>4, <2>1, <2>2, <3>1 DEF IsLot
  <2>4. CASE w = <<v[4], v[1], v[2], v[3]>>
    <3>1. w[1] = v[4] /\ w[2] = v[1] /\ w[3] = v[2] /\ w[4] = v[3]
      BY <2>4
    <3> QED BY <1>4, <2>1, <2>2, <3>1 DEF IsLot
  <2>5. CASE w = <<v[3], v[4], v[1], v[2]>>
    <3>1. w[1] = v[3] /\ w[2] = v[4] /\ w[3] = v[1] /\ w[4] = v[2]
      BY <2>5
    <3> QED BY <1>4, <2>1, <2>2, <3>1 DEF IsLot
  <2>6. CASE w = <<v[2], v[1], v[4], v[3]>>
    <3>1. w[1] = v[2] /\ w[2] = v[1] /\ w[3] = v[4] /\ w[4] = v[3]
      BY <2>6
    <3> QED BY <1>4, <2>1, <2>2, <3>1 DEF IsLot
  <2> QED BY <2>3, <2>4, <2>5, <2>6
<1> QED BY <1>5 DEF Mirrored

\* So are those that ExtractVertices takes.
LEMMA ExtractedLots ==
  ASSUME NEW lot, IsLot(lot.vertices), NEW position
  PROVE  /\ IsLot(NormalizedVertices(lot, position)) /\ IsLot(Vertices(lot, position))
         /\ Range(Vertices(lot, position)) = Range(lot.vertices)
<1> DEFINE v == lot.vertices
           w == NormalizedVertices(lot, position)
<1>1. w \in {v, <<v[1], v[4], v[3], v[2]>>, <<v[4], v[1], v[2], v[3]>>, <<v[3], v[4], v[1], v[2]>>}
  BY DEF NormalizedVertices
<1> HIDE DEF w, v
<1>2. IsLot(w) /\ Range(w) = Range(v)
  <2>1. IsLot(v)
    BY DEF v
  <2> QED BY <1>1, <2>1, RelabelledLots
<1>3. Vertices(lot, position) \in {w, Mirrored(w)}
  BY DEF w, Vertices, StabilizedVertices
<1>4. IsLot(Vertices(lot, position)) /\ Range(Vertices(lot, position)) = Range(w)
  BY <1>2, <1>3, RelabelledLots
<1> QED BY <1>2, <1>4 DEF w, v

\* The edges of a lot, in either axis of its depth.
LEMMA LotEdges ==
  ASSUME NEW v, IsLot(v)
  PROVE  /\ v[1] \in Points /\ v[2] \in Points /\ v[3] \in Points /\ v[4] \in Points
         /\ \/ /\ v[1].x = v[2].x /\ v[3].x = v[4].x /\ v[1].x # v[3].x
               /\ v[1].y = v[4].y /\ v[2].y = v[3].y /\ v[1].y # v[3].y
            \/ /\ v[1].y = v[2].y /\ v[3].y = v[4].y /\ v[1].y # v[3].y
               /\ v[1].x = v[4].x /\ v[2].x = v[3].x /\ v[1].x # v[3].x
BY DEF IsLot

\* How deep and how wide a lot is.
LEMMA LotSizes ==
  ASSUME NEW v, IsLot(v)
  PROVE  LET depth == (Distance(v[1], v[2]) + Distance(v[4], v[3])) \div 2
             width == (Distance(v[1], v[4]) + Distance(v[2], v[3])) \div 2
             dx == IF v[1].x < v[3].x THEN v[3].x - v[1].x ELSE v[1].x - v[3].x
             dy == IF v[1].y < v[3].y THEN v[3].y - v[1].y ELSE v[1].y - v[3].y
         IN IF v[1].x = v[2].x THEN depth = dy /\ width = dx ELSE depth = dx /\ width = dy
<1> DEFINE dx == IF v[1].x < v[3].x THEN v[3].x - v[1].x ELSE v[1].x - v[3].x
           dy == IF v[1].y < v[3].y THEN v[3].y - v[1].y ELSE v[1].y - v[3].y
<1>1. /\ v[1] \in Points /\ v[2] \in Points /\ v[3] \in Points /\ v[4] \in Points
      /\ \A i \in 1 .. 4 : v[i].x \in Int /\ v[i].y \in Int
  BY PointsAre DEF IsLot
<1>2. \A n \in Int : (n + n) \div 2 = n
  OBVIOUS
<1>3. \A a, b \in Points :
        /\ a.x = b.x /\ a.y # b.y => Distance(a, b) = IF a.y < b.y THEN b.y - a.y ELSE a.y - b.y
        /\ a.y = b.y /\ a.x # b.x => Distance(a, b) = IF a.x < b.x THEN b.x - a.x ELSE a.x - b.x
  <2> SUFFICES ASSUME NEW a \in Points, NEW b \in Points
               PROVE  /\ a.x = b.x /\ a.y # b.y =>
                           Distance(a, b) = IF a.y < b.y THEN b.y - a.y ELSE a.y - b.y
                      /\ a.y = b.y /\ a.x # b.x =>
                           Distance(a, b) = IF a.x < b.x THEN b.x - a.x ELSE a.x - b.x
    OBVIOUS
  <2>1. a.x \in Int /\ a.y \in Int /\ b.x \in Int /\ b.y \in Int
    BY PointsAre
  <2> QED BY <2>1, EdgeIs
<1>4. dx \in Int /\ dy \in Int
  BY <1>1
<1>5. CASE v[1].x = v[2].x
  <2>1. /\ v[3].x = v[4].x /\ v[1].x # v[3].x /\ v[1].y = v[4].y /\ v[2].y = v[3].y /\ v[1].y # v[3].y
    BY <1>5, LotEdges
  <2>2. Distance(v[1], v[2]) = dy
    BY <1>1, <1>3, <1>5, <2>1
  <2>3. Distance(v[4], v[3]) = dy
    BY <1>1, <1>3, <2>1
  <2>4. Distance(v[1], v[4]) = dx
    BY <1>1, <1>3, <2>1
  <2>5. Distance(v[2], v[3]) = dx
    BY <1>1, <1>3, <1>5, <2>1
  <2> HIDE DEF dx, dy
  <2>6. (dy + dy) \div 2 = dy /\ (dx + dx) \div 2 = dx
    BY <1>2, <1>4
  <2> QED BY <1>5, <2>2, <2>3, <2>4, <2>5, <2>6 DEF dx, dy
<1>6. CASE v[1].x # v[2].x
  <2>1. /\ v[1].y = v[2].y /\ v[3].y = v[4].y /\ v[1].y # v[3].y /\ v[1].x = v[4].x /\ v[2].x = v[3].x
        /\ v[1].x # v[3].x
    BY <1>6, LotEdges
  <2>2. Distance(v[1], v[2]) = dx
    BY <1>1, <1>3, <2>1
  <2>3. Distance(v[4], v[3]) = dx
    BY <1>1, <1>3, <2>1
  <2>4. Distance(v[1], v[4]) = dy
    BY <1>1, <1>3, <2>1
  <2>5. Distance(v[2], v[3]) = dy
    BY <1>1, <1>3, <2>1
  <2> HIDE DEF dx, dy
  <2>6. (dy + dy) \div 2 = dy /\ (dx + dx) \div 2 = dx
    BY <1>2, <1>4
  <2> QED BY <1>6, <2>2, <2>3, <2>4, <2>5, <2>6 DEF dx, dy
<1> QED BY <1>5, <1>6

\* The least and the greatest of two numbers.
LEMMA LeastOfTwo ==
  ASSUME NEW a \in Int, NEW b \in Int
  PROVE  /\ Min({a, b}) = IF a <= b THEN a ELSE b
         /\ Max({a, b}) = IF a <= b THEN b ELSE a
<1>1. Min({a, b}) \in {a, b} /\ \A y \in {a, b} : Min({a, b}) <= y
  <2>1. \E x \in {a, b} : \A y \in {a, b} : x <= y
    <3>1. a <= b \/ b <= a
      OBVIOUS
    <3> QED BY <3>1
  <2> QED BY <2>1 DEF Min
<1>2. Max({a, b}) \in {a, b} /\ \A y \in {a, b} : Max({a, b}) >= y
  <2>1. \E x \in {a, b} : \A y \in {a, b} : x >= y
    <3>1. a >= b \/ b >= a
      OBVIOUS
    <3> QED BY <3>1
  <2> QED BY <2>1 DEF Max
<1> DEFINE m == Min({a, b})
           n == Max({a, b})
<1>3. (m = a \/ m = b) /\ m <= a /\ m <= b /\ (n = a \/ n = b) /\ n >= a /\ n >= b
  BY <1>1, <1>2
<1> HIDE DEF m, n
<1>4. m = (IF a <= b THEN a ELSE b) /\ n = (IF a <= b THEN b ELSE a)
  BY <1>3
<1> QED BY <1>4 DEF m, n

\* The bounds of a lot are those of two opposite corners.
LEMMA LotBounds ==
  ASSUME NEW v, IsLot(v)
  PROVE  LET b == BoundsOf(Range(v))
         IN /\ b.xmin = (IF v[1].x <= v[3].x THEN v[1].x ELSE v[3].x)
            /\ b.xmax = (IF v[1].x <= v[3].x THEN v[3].x ELSE v[1].x)
            /\ b.ymin = (IF v[1].y <= v[3].y THEN v[1].y ELSE v[3].y)
            /\ b.ymax = (IF v[1].y <= v[3].y THEN v[3].y ELSE v[1].y)
<1> DEFINE corners == {v[1], v[2], v[3], v[4]}
<1>1. Range(v) = corners
  <2>1. DOMAIN v = 1 .. 4 /\ 1 .. 4 = {1, 2, 3, 4}
    BY DEF IsLot
  <2> QED BY <2>1 DEF Range
<1>2. v[1].x \in Int /\ v[1].y \in Int /\ v[3].x \in Int /\ v[3].y \in Int
  BY LotEdges, PointsAre
<1>3. {p.x : p \in corners} = {v[1].x, v[3].x} /\ {p.y : p \in corners} = {v[1].y, v[3].y}
  <2>1. {p.x : p \in corners} = {v[1].x, v[2].x, v[3].x, v[4].x}
    OBVIOUS
  <2>2. {p.y : p \in corners} = {v[1].y, v[2].y, v[3].y, v[4].y}
    OBVIOUS
  <2>3. v[2].x \in {v[1].x, v[3].x} /\ v[4].x \in {v[1].x, v[3].x}
    BY LotEdges
  <2>4. v[2].y \in {v[1].y, v[3].y} /\ v[4].y \in {v[1].y, v[3].y}
    BY LotEdges
  <2> QED BY <2>1, <2>2, <2>3, <2>4
<1>4. BoundsOf(Range(v)) = [xmin |-> Min({v[1].x, v[3].x}), xmax |-> Max({v[1].x, v[3].x}),
                            ymin |-> Min({v[1].y, v[3].y}), ymax |-> Max({v[1].y, v[3].y})]
  <2> HIDE DEF corners
  <2> QED BY <1>1, <1>3 DEF BoundsOf, Bounds
<1> QED BY <1>2, <1>4, LeastOfTwo

\* The corners of a box along an axis.
LEMMA BoxCorners ==
  ASSUME NEW center \in Points, NEW q \in 0 .. 3, NEW h \in Int, NEW w \in Int,
         NEW c \in Corners(Box(center, q, h, w))
  PROVE  /\ c \in Points
         /\ q \in {0, 2} => c.x \in {center.x - h, center.x + h} /\ c.y \in {center.y - w, center.y + w}
         /\ q \in {1, 3} => c.x \in {center.x - w, center.x + w} /\ c.y \in {center.y - h, center.y + h}
<1> DEFINE b == Box(center, q, h, w)
<1>1. b.center = center /\ b.heading = q /\ b.half_length = h /\ b.half_width = w
  BY DEF Box
<1>2. PICK i \in {-1, 1} : \E j \in {-1, 1} :
        c = Plus(center, Plus(Scaled(i * h, UnitVec(q)), Scaled(j * w, UnitVec(q + 1))))
  BY <1>1 DEF Corners
<1>3. PICK j \in {-1, 1} :
        c = Plus(center, Plus(Scaled(i * h, UnitVec(q)), Scaled(j * w, UnitVec(q + 1))))
  BY <1>2
<1> DEFINE m == i * h
           n == j * w
<1>4. m \in Int /\ n \in Int /\ (m = h \/ m = -h) /\ (n = w \/ n = -w)
  <2>1. i = 1 \/ i = -1
    OBVIOUS
  <2>2. j = 1 \/ j = -1
    OBVIOUS
  <2>3. 1 * h = h /\ (-1) * h = -h /\ 1 * w = w /\ (-1) * w = -w
    OBVIOUS
  <2> QED BY <2>1, <2>2, <2>3
<1>5. center.x \in Int /\ center.y \in Int
  BY PointsAre
<1>6. c = Plus(center, Plus(Scaled(m, UnitVec(q)), Scaled(n, UnitVec(q + 1))))
  BY <1>3
<1> HIDE DEF b, m, n
<1>7. \A k \in Int, d \in Points : Scaled(k, d) = Vec(k * d.x, k * d.y)
  BY DEF Scaled
<1>8. /\ Scaled(m, Vec(1, 0)) = Vec(m, 0) /\ Scaled(m, Vec(0, 1)) = Vec(0, m)
      /\ Scaled(m, Vec(-1, 0)) = Vec(-m, 0) /\ Scaled(m, Vec(0, -1)) = Vec(0, -m)
  BY <1>4, PointsAre DEF Scaled
<1>9. /\ Scaled(n, Vec(1, 0)) = Vec(n, 0) /\ Scaled(n, Vec(0, 1)) = Vec(0, n)
      /\ Scaled(n, Vec(-1, 0)) = Vec(-n, 0) /\ Scaled(n, Vec(0, -1)) = Vec(0, -n)
  BY <1>4, PointsAre DEF Scaled
<1>10. \A a1, a2, b1, b2 \in Int : Plus(Vec(a1, a2), Vec(b1, b2)) = Vec(a1 + b1, a2 + b2)
  BY PointsAre DEF Plus
<1>11. \A a, d \in Int : Plus(center, Vec(a, d)) = Vec(center.x + a, center.y + d)
  BY PointsAre DEF Plus
<1>12. \A x \in Int : x + m \in {x - h, x + h} /\ x + (-m) \in {x - h, x + h}
  BY <1>4
<1>13. \A x \in Int : x + n \in {x - w, x + w} /\ x + (-n) \in {x - w, x + w}
  BY <1>4
<1>14. CASE q = 0
  <2>1. c = Plus(center, Plus(Vec(m, 0), Vec(0, n)))
    BY <1>6, <1>8, <1>9, <1>14, AxisVectors
  <2>2. Plus(Vec(m, 0), Vec(0, n)) = Vec(m, n)
    BY <1>4, <1>10
  <2>3. c = Vec(center.x + m, center.y + n)
    BY <1>4, <1>11, <2>1, <2>2
  <2>4. c \in Points /\ c.x = center.x + m /\ c.y = center.y + n
    BY <1>4, <1>5, <2>3, PointsAre
  <2>5. q \notin {1, 3}
    BY <1>14
  <2>6. c.x \in {center.x - h, center.x + h}
    BY <1>5, <1>12, <1>13, <2>4
  <2>7. c.y \in {center.y - w, center.y + w}
    BY <1>5, <1>12, <1>13, <2>4
  <2> QED BY <2>4, <2>5, <2>6, <2>7
<1>15. CASE q = 1
  <2>1. c = Plus(center, Plus(Vec(0, m), Vec(-n, 0)))
    BY <1>6, <1>8, <1>9, <1>15, AxisVectors
  <2>2. Plus(Vec(0, m), Vec(-n, 0)) = Vec(-n, m)
    BY <1>4, <1>10
  <2>3. c = Vec(center.x + (-n), center.y + m)
    BY <1>4, <1>11, <2>1, <2>2
  <2>4. c \in Points /\ c.x = center.x + (-n) /\ c.y = center.y + m
    BY <1>4, <1>5, <2>3, PointsAre
  <2>5. q \notin {0, 2}
    BY <1>15
  <2>6. c.x \in {center.x - w, center.x + w}
    BY <1>5, <1>12, <1>13, <2>4
  <2>7. c.y \in {center.y - h, center.y + h}
    BY <1>5, <1>12, <1>13, <2>4
  <2> QED BY <2>4, <2>5, <2>6, <2>7
<1>16. CASE q = 2
  <2>1. c = Plus(center, Plus(Vec(-m, 0), Vec(0, -n)))
    BY <1>6, <1>8, <1>9, <1>16, AxisVectors
  <2>2. Plus(Vec(-m, 0), Vec(0, -n)) = Vec(-m, -n)
    BY <1>4, <1>10
  <2>3. c = Vec(center.x + (-m), center.y + (-n))
    BY <1>4, <1>11, <2>1, <2>2
  <2>4. c \in Points /\ c.x = center.x + (-m) /\ c.y = center.y + (-n)
    BY <1>4, <1>5, <2>3, PointsAre
  <2>5. q \notin {1, 3}
    BY <1>16
  <2>6. c.x \in {center.x - h, center.x + h}
    BY <1>5, <1>12, <1>13, <2>4
  <2>7. c.y \in {center.y - w, center.y + w}
    BY <1>5, <1>12, <1>13, <2>4
  <2> QED BY <2>4, <2>5, <2>6, <2>7
<1>17. CASE q = 3
  <2>1. c = Plus(center, Plus(Vec(0, -m), Vec(n, 0)))
    BY <1>6, <1>8, <1>9, <1>17, AxisVectors
  <2>2. Plus(Vec(0, -m), Vec(n, 0)) = Vec(n, -m)
    BY <1>4, <1>10
  <2>3. c = Vec(center.x + n, center.y + (-m))
    BY <1>4, <1>11, <2>1, <2>2
  <2>4. c \in Points /\ c.x = center.x + n /\ c.y = center.y + (-m)
    BY <1>4, <1>5, <2>3, PointsAre
  <2>5. q \notin {0, 2}
    BY <1>17
  <2>6. c.x \in {center.x - w, center.x + w}
    BY <1>5, <1>12, <1>13, <2>4
  <2>7. c.y \in {center.y - h, center.y + h}
    BY <1>5, <1>12, <1>13, <2>4
  <2> QED BY <2>4, <2>5, <2>6, <2>7
<1> QED BY <1>14, <1>15, <1>16, <1>17

-----------------------------------------------------------------------------
(* The goal in a lot *)

\* The vehicle has the edges of one.
Sized == Vehicle \in [front : Nat, back : Nat, half_width : Nat]

\* Vehicles along an axis, at whole numbers around their middles.
LEMMA VehicleFits ==
  ASSUME Sized
  PROVE  LET c == (Vehicle.front - Vehicle.back) \div 2
             h == VehicleLength \div 2
         IN /\ c \in Int /\ h \in Nat /\ Vehicle.half_width \in Nat /\ Vehicle.front \in Nat
            /\ VehicleLength \in Nat /\ Width = 2 * Vehicle.half_width
            /\ c + h <= Vehicle.front /\ h - c = Vehicle.back /\ VehicleLength = Vehicle.front + Vehicle.back
            /\ 2 * h <= VehicleLength
<1> DEFINE f == Vehicle.front
           b == Vehicle.back
           c == (f - b) \div 2
           h == (f + b) \div 2
<1>1. f \in Nat /\ b \in Nat /\ Vehicle.half_width \in Nat
  BY DEF Sized
<1>2. VehicleLength = f + b /\ Width = 2 * Vehicle.half_width
  BY DEF VehicleLength, Width
<1> HIDE DEF f, b
<1>3. c \in Int /\ h \in Nat /\ c + h <= f /\ h - c = b /\ 2 * h <= f + b
  BY <1>1
<1> QED BY <1>1, <1>2, <1>3 DEF f, b

\* A number between two, seen from one of them.
LEMMA InRange ==
  ASSUME NEW p \in Int, NEW q \in Int, NEW w \in Nat, NEW d \in {p, q}, NEW e \in {p, q}, d # e,
         (IF d < e THEN e - d ELSE d - e) >= 2 * w + 2
  PROVE  \A k \in {((d + e) \div 2) - w, ((d + e) \div 2) + w} :
           k \in (IF p <= q THEN p ELSE q) - 4 .. (IF p <= q THEN q ELSE p) + 4
OBVIOUS

\* Sums along the axes.
LEMMA Moved ==
  ASSUME NEW p \in Points, NEW n \in Int, NEW k \in Int
  PROVE  /\ k % 4 = 0 => Plus(p, Scaled(n, UnitVec(k))) = Vec(p.x + n, p.y)
         /\ k % 4 = 1 => Plus(p, Scaled(n, UnitVec(k))) = Vec(p.x, p.y + n)
         /\ k % 4 = 2 => Plus(p, Scaled(n, UnitVec(k))) = Vec(p.x - n, p.y)
         /\ k % 4 = 3 => Plus(p, Scaled(n, UnitVec(k))) = Vec(p.x, p.y - n)
<1>1. p.x \in Int /\ p.y \in Int
  BY PointsAre
<1>2. /\ Scaled(n, Vec(1, 0)) = Vec(n, 0) /\ Scaled(n, Vec(0, 1)) = Vec(0, n)
      /\ Scaled(n, Vec(-1, 0)) = Vec(-n, 0) /\ Scaled(n, Vec(0, -1)) = Vec(0, -n)
  BY PointsAre DEF Scaled
<1>3. \A a, d \in Int : Plus(p, Vec(a, d)) = Vec(p.x + a, p.y + d)
  BY PointsAre DEF Plus
<1>4. 0 \in Int /\ -n \in Int /\ p.x + 0 = p.x /\ p.y + 0 = p.y /\ p.x + (-n) = p.x - n /\ p.y + (-n) = p.y - n
  BY <1>1
<1>5. k % 4 = 0 => Plus(p, Scaled(n, UnitVec(k))) = Vec(p.x + n, p.y)
  BY <1>2, <1>3, <1>4, Axes
<1>6. k % 4 = 1 => Plus(p, Scaled(n, UnitVec(k))) = Vec(p.x, p.y + n)
  BY <1>2, <1>3, <1>4, Axes
<1>7. k % 4 = 2 => Plus(p, Scaled(n, UnitVec(k))) = Vec(p.x - n, p.y)
  BY <1>2, <1>3, <1>4, Axes
<1>8. k % 4 = 3 => Plus(p, Scaled(n, UnitVec(k))) = Vec(p.x, p.y - n)
  BY <1>2, <1>3, <1>4, Axes
<1> QED BY <1>5, <1>6, <1>7, <1>8

\* Where the edges of a vehicle are.
LEMMA VehicleCorners ==
  ASSUME Sized, NEW p \in Points, NEW k \in Int, NEW c \in Corners(VehicleBox(Pose(p, k)))
  PROVE  /\ k % 4 = 0 => /\ c.x \in p.x - Vehicle.back .. p.x + Vehicle.front
                         /\ c.y \in {p.y - Vehicle.half_width, p.y + Vehicle.half_width}
         /\ k % 4 = 1 => /\ c.y \in p.y - Vehicle.back .. p.y + Vehicle.front
                         /\ c.x \in {p.x - Vehicle.half_width, p.x + Vehicle.half_width}
         /\ k % 4 = 2 => /\ c.x \in p.x - Vehicle.front .. p.x + Vehicle.back
                         /\ c.y \in {p.y - Vehicle.half_width, p.y + Vehicle.half_width}
         /\ k % 4 = 3 => /\ c.y \in p.y - Vehicle.front .. p.y + Vehicle.back
                         /\ c.x \in {p.x - Vehicle.half_width, p.x + Vehicle.half_width}
<1> DEFINE m == (Vehicle.front - Vehicle.back) \div 2
           h == VehicleLength \div 2
           w == Vehicle.half_width
           f == Vehicle.front
           b == Vehicle.back
           q == k % 4
           center == Plus(p, Scaled(m, UnitVec(q)))
<1>1. /\ m \in Int /\ h \in Nat /\ w \in Nat /\ f \in Nat /\ b \in Nat /\ m + h <= f /\ h - m = b
  BY VehicleFits DEF Sized
<1>2. q \in 0 .. 3 /\ q % 4 = q
  <2>1. q \in 0 .. 3
    OBVIOUS
  <2> HIDE DEF q
  <2> QED BY <2>1
<1>3. VehicleBox(Pose(p, k)) = Box(center, q, h, w)
  BY DEF VehicleBox, Pose, Plus
<1>4. p.x \in Int /\ p.y \in Int
  BY PointsAre
<1> HIDE DEF m, h, w, f, b, q
<1>5. center = CASE q = 0 -> Vec(p.x + m, p.y) [] q = 1 -> Vec(p.x, p.y + m)
                 [] q = 2 -> Vec(p.x - m, p.y) [] q = 3 -> Vec(p.x, p.y - m)
  BY <1>1, <1>2, Moved
<1> HIDE DEF center
<1>6. CASE q = 0
  <2>1. center = Vec(p.x + m, p.y)
    BY <1>5, <1>6
  <2>2. center \in Points /\ center.x = p.x + m /\ center.y = p.y
    BY <1>1, <1>4, <2>1, PointsAre
  <2>3. c.x \in {center.x - h, center.x + h} /\ c.y \in {center.y - w, center.y + w}
    BY <1>1, <1>2, <1>3, <1>6, <2>2, BoxCorners
  <2>4. c.x \in p.x - b .. p.x + f
    BY <1>1, <1>4, <2>2, <2>3
  <2> QED BY <1>6, <2>2, <2>3, <2>4 DEF q, w, f, b
<1>7. CASE q = 1
  <2>1. center = Vec(p.x, p.y + m)
    BY <1>5, <1>7
  <2>2. center \in Points /\ center.x = p.x /\ center.y = p.y + m
    BY <1>1, <1>4, <2>1, PointsAre
  <2>3. c.x \in {center.x - w, center.x + w} /\ c.y \in {center.y - h, center.y + h}
    BY <1>1, <1>2, <1>3, <1>7, <2>2, BoxCorners
  <2>4. c.y \in p.y - b .. p.y + f
    BY <1>1, <1>4, <2>2, <2>3
  <2> QED BY <1>7, <2>2, <2>3, <2>4 DEF q, w, f, b
<1>8. CASE q = 2
  <2>1. center = Vec(p.x - m, p.y)
    BY <1>5, <1>8
  <2>2. center \in Points /\ center.x = p.x - m /\ center.y = p.y
    BY <1>1, <1>4, <2>1, PointsAre
  <2>3. c.x \in {center.x - h, center.x + h} /\ c.y \in {center.y - w, center.y + w}
    BY <1>1, <1>2, <1>3, <1>8, <2>2, BoxCorners
  <2>4. c.x \in p.x - f .. p.x + b
    BY <1>1, <1>4, <2>2, <2>3
  <2> QED BY <1>8, <2>2, <2>3, <2>4 DEF q, w, f, b
<1>9. CASE q = 3
  <2>1. center = Vec(p.x, p.y - m)
    BY <1>5, <1>9
  <2>2. center \in Points /\ center.x = p.x /\ center.y = p.y - m
    BY <1>1, <1>4, <2>1, PointsAre
  <2>3. c.x \in {center.x - w, center.x + w} /\ c.y \in {center.y - h, center.y + h}
    BY <1>1, <1>2, <1>3, <1>9, <2>2, BoxCorners
  <2>4. c.y \in p.y - f .. p.y + b
    BY <1>1, <1>4, <2>2, <2>3
  <2> QED BY <1>9, <2>2, <2>3, <2>4 DEF q, w, f, b
<1> QED BY <1>2, <1>6, <1>7, <1>8, <1>9

\* How far two numbers are apart.
Apart(a, b) == IF a < b THEN b - a ELSE a - b

\* What the checks ask of the size of a lot.
LEMMA NormalLots ==
  ASSUME Sized, NEW type, NEW v, IsLot(v), LotStatus(type, v) = "NORMAL"
  PROVE  LET depth == IF v[1].x = v[2].x THEN Apart(v[1].y, v[3].y) ELSE Apart(v[1].x, v[3].x)
             width == IF v[1].x = v[2].x THEN Apart(v[1].x, v[3].x) ELSE Apart(v[1].y, v[3].y)
         IN /\ Upright(type) => depth >= VehicleLength /\ width >= Width + 2
            /\ type = "LATERAL" => depth >= Width + 2 /\ width >= VehicleLength + 10
<1> DEFINE depth == IF v[1].x = v[2].x THEN Apart(v[1].y, v[3].y) ELSE Apart(v[1].x, v[3].x)
           width == IF v[1].x = v[2].x THEN Apart(v[1].x, v[3].x) ELSE Apart(v[1].y, v[3].y)
           d == (Distance(v[1], v[2]) + Distance(v[4], v[3])) \div 2
           w == (Distance(v[1], v[4]) + Distance(v[2], v[3])) \div 2
<1>1. d = depth /\ w = width
  <2>1. \A a, b : Apart(a, b) = IF a < b THEN b - a ELSE a - b
    BY DEF Apart
  <2>2. IF v[1].x = v[2].x THEN d = Apart(v[1].y, v[3].y) /\ w = Apart(v[1].x, v[3].x)
        ELSE d = Apart(v[1].x, v[3].x) /\ w = Apart(v[1].y, v[3].y)
    <3> HIDE DEF d, w
    <3> QED BY <2>1, LotSizes DEF d, w
  <2> HIDE DEF d, w
  <2> QED BY <2>2
<1>2. depth \in Int /\ width \in Int
  <2>1. \A a, b \in Int : Apart(a, b) \in Int
    BY DEF Apart
  <2>2. v[1].x \in Int /\ v[1].y \in Int /\ v[3].x \in Int /\ v[3].y \in Int
    BY LotEdges, PointsAre
  <2> QED BY <2>1, <2>2
<1>3. ~(Upright(type) /\ (d < VehicleLength \/ w < Width + 2))
  BY DEF LotStatus, vertical_min_parklot_lateral_buffer
<1>4. ~(type = "LATERAL" /\ (d < Width + 2 \/ w < VehicleLength + 10))
  BY DEF LotStatus, lateral_min_parklot_lateral_buffer, lateral_slot_longitudinal_buffer
<1>5. VehicleLength \in Int /\ Width \in Int
  <2>1. Vehicle.half_width \in Int /\ VehicleLength \in Int /\ Width = 2 * Vehicle.half_width
    BY VehicleFits
  <2> QED BY <2>1
<1> HIDE DEF depth, width, d, w
<1> QED BY <1>1, <1>2, <1>3, <1>4, <1>5 DEF depth, width

\* A vehicle whose corners lie within the bounds of a lot and the buffer is held by it.
LEMMA HeldWithin ==
  ASSUME NEW v, IsLot(v), NEW goal,
         \A c \in Corners(VehicleBox(goal)) :
           /\ c.x \in (IF v[1].x <= v[3].x THEN v[1].x ELSE v[3].x) - 4
                      .. (IF v[1].x <= v[3].x THEN v[3].x ELSE v[1].x) + 4
           /\ c.y \in (IF v[1].y <= v[3].y THEN v[1].y ELSE v[3].y) - 4
                      .. (IF v[1].y <= v[3].y THEN v[3].y ELSE v[1].y) + 4
  PROVE  Holds(Range(v), goal)
<1> DEFINE b == BoundsOf(Range(v))
           grown == Grown(b)
<1>1. /\ b.xmin = (IF v[1].x <= v[3].x THEN v[1].x ELSE v[3].x)
      /\ b.xmax = (IF v[1].x <= v[3].x THEN v[3].x ELSE v[1].x)
      /\ b.ymin = (IF v[1].y <= v[3].y THEN v[1].y ELSE v[3].y)
      /\ b.ymax = (IF v[1].y <= v[3].y THEN v[3].y ELSE v[1].y)
  BY LotBounds
<1> HIDE DEF b
<1>2. /\ grown.xmin = b.xmin - 4 /\ grown.xmax = b.xmax + 4
      /\ grown.ymin = b.ymin - 4 /\ grown.ymax = b.ymax + 4
  BY DEF Grown, Bounds, parking_depth_buffer
<1> HIDE DEF grown
<1>3. \A c \in Corners(VehicleBox(goal)) : Within(c, grown)
  BY <1>1, <1>2 DEF Within
<1> QED BY <1>3 DEF Holds, grown, b

\* The goal of a lot that the vehicle backs into.
LEMMA UprightHolds ==
  ASSUME Sized, NEW type, Upright(type), NEW v, IsLot(v), LotStatus(type, v) = "NORMAL"
  PROVE  Holds(Range(v), NonLateralSlotEndPose(v))
<1> DEFINE f == Vehicle.front
           b == Vehicle.back
           w == Vehicle.half_width
           q == Angle(Minus(v[2], v[1]))
           middle == Middle(v[1], v[4])
           p == Plus(middle, Scaled(f + 4, UnitVec(q)))
           goal == NonLateralSlotEndPose(v)
<1>1. f \in Nat /\ b \in Nat /\ w \in Nat /\ VehicleLength = f + b /\ Width = 2 * w
  BY VehicleFits DEF Sized
<1>2. /\ v[1] \in Points /\ v[2] \in Points /\ v[3] \in Points /\ v[4] \in Points
      /\ v[1].x \in Int /\ v[1].y \in Int /\ v[2].x \in Int /\ v[2].y \in Int
      /\ v[3].x \in Int /\ v[3].y \in Int /\ v[4].x \in Int /\ v[4].y \in Int
  BY LotEdges, PointsAre
<1>3. goal = Pose(p, q + 2)
  BY DEF NonLateralSlotEndPose, parking_depth_buffer
<1>4. middle = Vec((v[1].x + v[4].x) \div 2, (v[1].y + v[4].y) \div 2)
  BY <1>2, PointsAre DEF Middle, Half, Plus
<1>5. middle \in Points /\ middle.x = (v[1].x + v[4].x) \div 2 /\ middle.y = (v[1].y + v[4].y) \div 2
  <2>1. (v[1].x + v[4].x) \div 2 \in Int /\ (v[1].y + v[4].y) \div 2 \in Int
    BY <1>2
  <2> QED BY <1>4, <2>1, PointsAre
<1>6. \A n \in Int : (n + n) \div 2 = n
  OBVIOUS
<1>7. /\ v[1].x = v[2].x => /\ Apart(v[1].y, v[3].y) >= f + b /\ Apart(v[1].x, v[3].x) >= 2 * w + 2
      /\ v[1].x # v[2].x => /\ Apart(v[1].x, v[3].x) >= f + b /\ Apart(v[1].y, v[3].y) >= 2 * w + 2
  BY <1>1, NormalLots
<1> HIDE DEF goal, p, middle, f, b, w
<1>8. SUFFICES ASSUME NEW c \in Corners(VehicleBox(goal))
               PROVE  /\ c.x \in (IF v[1].x <= v[3].x THEN v[1].x ELSE v[3].x) - 4
                                 .. (IF v[1].x <= v[3].x THEN v[3].x ELSE v[1].x) + 4
                      /\ c.y \in (IF v[1].y <= v[3].y THEN v[1].y ELSE v[3].y) - 4
                                 .. (IF v[1].y <= v[3].y THEN v[3].y ELSE v[1].y) + 4
  BY <1>8, HeldWithin DEF goal
<1>9. f + 4 \in Int
  BY <1>1
<1> HIDE DEF q
<1>10. CASE v[1].y = v[2].y /\ v[1].x < v[2].x
  <2>1. /\ v[3].y = v[4].y /\ v[1].y # v[3].y
        /\ v[1].x = v[4].x /\ v[2].x = v[3].x
    BY <1>2, <1>10, LotEdges
  <2>2. q = 0 /\ q + 2 \in Int /\ q % 4 = 0 /\ (q + 2) % 4 = 2
    <3>1. q = 0
      BY <1>2, <1>10, EdgeIs DEF q
    <3> QED BY <3>1
  <2>3. p = Vec(middle.x + (f + 4), middle.y)
    BY <1>5, <1>9, <2>2, Moved DEF p
  <2>4. p \in Points /\ p.x = middle.x + (f + 4) /\ p.y = middle.y
    <3>1. middle.x \in Int /\ middle.y \in Int
      BY <1>5, PointsAre
    <3> QED BY <1>9, <2>3, <3>1, PointsAre
  <2>5. /\ c.x \in p.x - f .. p.x + b
        /\ c.y \in {p.y - w, p.y + w}
    BY <1>3, <2>2, <2>4, VehicleCorners DEF f, b, w
  <2>6. middle.x = v[1].x
    BY <1>2, <1>5, <1>6, <2>1
  <2>7. c.x \in (IF v[1].x <= v[3].x THEN v[1].x ELSE v[3].x) - 4
               .. (IF v[1].x <= v[3].x THEN v[3].x ELSE v[1].x) + 4
    <3>1. Apart(v[1].x, v[3].x) >= f + b
      BY <1>2, <1>7, <1>10
    <3> QED BY <1>1, <1>2, <1>10, <2>1, <2>4, <2>5, <2>6, <3>1 DEF Apart
  <2>8. c.y \in (IF v[1].y <= v[3].y THEN v[1].y ELSE v[3].y) - 4
               .. (IF v[1].y <= v[3].y THEN v[3].y ELSE v[1].y) + 4
    <3>1. Apart(v[1].y, v[4].y) >= 2 * w + 2
      BY <1>2, <1>7, <1>10, <2>1
    <3>2. p.y = (v[1].y + v[4].y) \div 2
      BY <1>5, <2>4
    <3> QED BY <1>1, <1>2, <2>1, <2>5, <3>1, <3>2, InRange DEF Apart
  <2> QED BY <2>7, <2>8
<1>11. CASE v[1].x = v[2].x /\ v[1].y < v[2].y
  <2>1. /\ v[3].x = v[4].x /\ v[1].x # v[3].x
        /\ v[1].y = v[4].y /\ v[2].y = v[3].y
    BY <1>2, <1>11, LotEdges
  <2>2. q = 1 /\ q + 2 \in Int /\ q % 4 = 1 /\ (q + 2) % 4 = 3
    <3>1. q = 1
      BY <1>2, <1>11, EdgeIs DEF q
    <3> QED BY <3>1
  <2>3. p = Vec(middle.x, middle.y + (f + 4))
    BY <1>5, <1>9, <2>2, Moved DEF p
  <2>4. p \in Points /\ p.x = middle.x /\ p.y = middle.y + (f + 4)
    <3>1. middle.x \in Int /\ middle.y \in Int
      BY <1>5, PointsAre
    <3> QED BY <1>9, <2>3, <3>1, PointsAre
  <2>5. /\ c.y \in p.y - f .. p.y + b
        /\ c.x \in {p.x - w, p.x + w}
    BY <1>3, <2>2, <2>4, VehicleCorners DEF f, b, w
  <2>6. middle.y = v[1].y
    BY <1>2, <1>5, <1>6, <2>1
  <2>7. c.y \in (IF v[1].y <= v[3].y THEN v[1].y ELSE v[3].y) - 4
               .. (IF v[1].y <= v[3].y THEN v[3].y ELSE v[1].y) + 4
    <3>1. Apart(v[1].y, v[3].y) >= f + b
      BY <1>2, <1>7, <1>11
    <3> QED BY <1>1, <1>2, <1>11, <2>1, <2>4, <2>5, <2>6, <3>1 DEF Apart
  <2>8. c.x \in (IF v[1].x <= v[3].x THEN v[1].x ELSE v[3].x) - 4
               .. (IF v[1].x <= v[3].x THEN v[3].x ELSE v[1].x) + 4
    <3>1. Apart(v[1].x, v[4].x) >= 2 * w + 2
      BY <1>2, <1>7, <1>11, <2>1
    <3>2. p.x = (v[1].x + v[4].x) \div 2
      BY <1>5, <2>4
    <3> QED BY <1>1, <1>2, <2>1, <2>5, <3>1, <3>2, InRange DEF Apart
  <2> QED BY <2>7, <2>8
<1>12. CASE v[1].y = v[2].y /\ v[1].x > v[2].x
  <2>1. /\ v[3].y = v[4].y /\ v[1].y # v[3].y
        /\ v[1].x = v[4].x /\ v[2].x = v[3].x
    BY <1>2, <1>12, LotEdges
  <2>2. q = 2 /\ q + 2 \in Int /\ q % 4 = 2 /\ (q + 2) % 4 = 0
    <3>1. q = 2
      BY <1>2, <1>12, EdgeIs DEF q
    <3> QED BY <3>1
  <2>3. p = Vec(middle.x - (f + 4), middle.y)
    BY <1>5, <1>9, <2>2, Moved DEF p
  <2>4. p \in Points /\ p.x = middle.x - (f + 4) /\ p.y = middle.y
    <3>1. middle.x \in Int /\ middle.y \in Int
      BY <1>5, PointsAre
    <3> QED BY <1>9, <2>3, <3>1, PointsAre
  <2>5. /\ c.x \in p.x - b .. p.x + f
        /\ c.y \in {p.y - w, p.y + w}
    BY <1>3, <2>2, <2>4, VehicleCorners DEF f, b, w
  <2>6. middle.x = v[1].x
    BY <1>2, <1>5, <1>6, <2>1
  <2>7. c.x \in (IF v[1].x <= v[3].x THEN v[1].x ELSE v[3].x) - 4
               .. (IF v[1].x <= v[3].x THEN v[3].x ELSE v[1].x) + 4
    <3>1. Apart(v[1].x, v[3].x) >= f + b
      BY <1>2, <1>7, <1>12
    <3> QED BY <1>1, <1>2, <1>12, <2>1, <2>4, <2>5, <2>6, <3>1 DEF Apart
  <2>8. c.y \in (IF v[1].y <= v[3].y THEN v[1].y ELSE v[3].y) - 4
               .. (IF v[1].y <= v[3].y THEN v[3].y ELSE v[1].y) + 4
    <3>1. Apart(v[1].y, v[4].y) >= 2 * w + 2
      BY <1>2, <1>7, <1>12, <2>1
    <3>2. p.y = (v[1].y + v[4].y) \div 2
      BY <1>5, <2>4
    <3> QED BY <1>1, <1>2, <2>1, <2>5, <3>1, <3>2, InRange DEF Apart
  <2> QED BY <2>7, <2>8
<1>13. CASE v[1].x = v[2].x /\ v[1].y > v[2].y
  <2>1. /\ v[3].x = v[4].x /\ v[1].x # v[3].x
        /\ v[1].y = v[4].y /\ v[2].y = v[3].y
    BY <1>2, <1>13, LotEdges
  <2>2. q = 3 /\ q + 2 \in Int /\ q % 4 = 3 /\ (q + 2) % 4 = 1
    <3>1. q = 3
      BY <1>2, <1>13, EdgeIs DEF q
    <3> QED BY <3>1
  <2>3. p = Vec(middle.x, middle.y - (f + 4))
    BY <1>5, <1>9, <2>2, Moved DEF p
  <2>4. p \in Points /\ p.x = middle.x /\ p.y = middle.y - (f + 4)
    <3>1. middle.x \in Int /\ middle.y \in Int
      BY <1>5, PointsAre
    <3> QED BY <1>9, <2>3, <3>1, PointsAre
  <2>5. /\ c.y \in p.y - b .. p.y + f
        /\ c.x \in {p.x - w, p.x + w}
    BY <1>3, <2>2, <2>4, VehicleCorners DEF f, b, w
  <2>6. middle.y = v[1].y
    BY <1>2, <1>5, <1>6, <2>1
  <2>7. c.y \in (IF v[1].y <= v[3].y THEN v[1].y ELSE v[3].y) - 4
               .. (IF v[1].y <= v[3].y THEN v[3].y ELSE v[1].y) + 4
    <3>1. Apart(v[1].y, v[3].y) >= f + b
      BY <1>2, <1>7, <1>13
    <3> QED BY <1>1, <1>2, <1>13, <2>1, <2>4, <2>5, <2>6, <3>1 DEF Apart
  <2>8. c.x \in (IF v[1].x <= v[3].x THEN v[1].x ELSE v[3].x) - 4
               .. (IF v[1].x <= v[3].x THEN v[3].x ELSE v[1].x) + 4
    <3>1. Apart(v[1].x, v[4].x) >= 2 * w + 2
      BY <1>2, <1>7, <1>13, <2>1
    <3>2. p.x = (v[1].x + v[4].x) \div 2
      BY <1>5, <2>4
    <3> QED BY <1>1, <1>2, <2>1, <2>5, <3>1, <3>2, InRange DEF Apart
  <2> QED BY <2>7, <2>8
<1>14. \/ v[1].y = v[2].y /\ (v[1].x < v[2].x \/ v[1].x > v[2].x)
       \/ v[1].x = v[2].x /\ (v[1].y < v[2].y \/ v[1].y > v[2].y)
  BY <1>2, LotEdges
<1> QED BY <1>10, <1>11, <1>12, <1>13, <1>14

\* The goal of a lot that the vehicle stands in lengthwise.
LEMMA LateralHolds ==
  ASSUME Sized, NEW v, IsLot(v), LotStatus("LATERAL", v) = "NORMAL", NEW right \in BOOLEAN
  PROVE  Holds(Range(v), LateralSlotEndPose(v, right))
<1> DEFINE f == Vehicle.front
           b == Vehicle.back
           w == Vehicle.half_width
           rear == (f - b) \div 2
           along == Angle(Minus(v[4], v[1]))
           heading == IF right THEN along ELSE along + 2
           q == Angle(Minus(v[3], v[4]))
           middle == Middle(v[1], v[4])
           behind == Plus(middle, Scaled(rear, UnitVec(heading + 2)))
           p == Plus(behind, Scaled(4 + w, UnitVec(q)))
           goal == LateralSlotEndPose(v, right)
<1>1. f \in Nat /\ b \in Nat /\ w \in Nat /\ VehicleLength = f + b /\ Width = 2 * w
  BY VehicleFits DEF Sized
<1>2. rear \in Int /\ rear + b <= f - rear /\ 2 * (f - rear) <= f + b + 1
  <2> HIDE DEF f, b
  <2> QED BY <1>1
<1>3. /\ v[1] \in Points /\ v[2] \in Points /\ v[3] \in Points /\ v[4] \in Points
      /\ v[1].x \in Int /\ v[1].y \in Int /\ v[2].x \in Int /\ v[2].y \in Int
      /\ v[3].x \in Int /\ v[3].y \in Int /\ v[4].x \in Int /\ v[4].y \in Int
  BY LotEdges, PointsAre
<1>4. goal = Pose(p, heading)
  BY DEF LateralSlotEndPose, parking_depth_buffer
<1>5. middle = Vec((v[1].x + v[4].x) \div 2, (v[1].y + v[4].y) \div 2)
  BY <1>3, PointsAre DEF Middle, Half, Plus
<1>6. /\ middle \in Points /\ middle.x \in Int /\ middle.y \in Int
      /\ middle.x = (v[1].x + v[4].x) \div 2 /\ middle.y = (v[1].y + v[4].y) \div 2
  <2>1. (v[1].x + v[4].x) \div 2 \in Int /\ (v[1].y + v[4].y) \div 2 \in Int
    BY <1>3
  <2> QED BY <1>5, <2>1, PointsAre
<1>7. \A n \in Int : (n + n) \div 2 = n
  OBVIOUS
<1>8. /\ v[1].x = v[2].x => /\ Apart(v[1].y, v[3].y) >= 2 * w + 2 /\ Apart(v[1].x, v[3].x) >= f + b + 10
      /\ v[1].x # v[2].x => /\ Apart(v[1].x, v[3].x) >= 2 * w + 2 /\ Apart(v[1].y, v[3].y) >= f + b + 10
  BY <1>1, NormalLots
<1> HIDE DEF goal, p, behind, middle, rear, f, b, w
<1>9. SUFFICES ASSUME NEW c \in Corners(VehicleBox(goal))
               PROVE  /\ c.x \in (IF v[1].x <= v[3].x THEN v[1].x ELSE v[3].x) - 4
                                 .. (IF v[1].x <= v[3].x THEN v[3].x ELSE v[1].x) + 4
                      /\ c.y \in (IF v[1].y <= v[3].y THEN v[1].y ELSE v[3].y) - 4
                                 .. (IF v[1].y <= v[3].y THEN v[3].y ELSE v[1].y) + 4
  BY <1>9, HeldWithin DEF goal
<1>10. 4 + w \in Int
  BY <1>1
<1>11. CASE v[1].x = v[2].x
  <2>1. /\ v[3].x = v[4].x /\ v[1].x # v[3].x /\ v[1].x # v[4].x
        /\ v[1].y = v[4].y /\ v[2].y = v[3].y /\ v[1].y # v[3].y /\ v[3].y # v[4].y
    BY <1>3, <1>11, LotEdges
  <2>2. along = 0 \/ along = 2
    BY <1>3, <2>1, EdgeIs
  <2>3. q = 1 \/ q = 3
    BY <1>3, <2>1, EdgeIs
  <2>4. v[4].y < v[3].y <=> q = 1
    BY <1>3, <2>1, EdgeIs
  <2>5. heading = 0 \/ heading = 2 \/ heading = 2 + 2
    BY <2>2
  <2> HIDE DEF along, heading, q
  <2>6. heading \in Int /\ heading + 2 \in Int /\ q \in Int
    BY <2>3, <2>5
  <2>7. \/ heading % 4 = 0 /\ (heading + 2) % 4 = 2
        \/ heading % 4 = 2 /\ (heading + 2) % 4 = 0
    BY <2>5
  <2>8. (q = 1 => q % 4 = 1) /\ (q = 3 => q % 4 = 3)
    BY <2>3
  <2> DEFINE x == behind.x
  <2>9. /\ behind \in Points /\ behind.y = middle.y /\ x \in Int
        /\ heading % 4 = 0 => x = middle.x - rear
        /\ heading % 4 = 2 => x = middle.x + rear
    <3>1. CASE heading % 4 = 0
      <4>1. (heading + 2) % 4 = 2
        BY <2>7, <3>1
      <4>2. behind = Vec(middle.x - rear, middle.y)
        BY <1>2, <1>6, <2>6, <4>1, Moved DEF behind
      <4>3. behind \in Points /\ behind.y = middle.y /\ x = middle.x - rear
        BY <1>2, <1>6, <4>2, PointsAre
      <4> QED BY <1>2, <1>6, <3>1, <4>3
    <3>2. CASE heading % 4 = 2
      <4>1. (heading + 2) % 4 = 0
        BY <2>7, <3>2
      <4>2. behind = Vec(middle.x + rear, middle.y)
        BY <1>2, <1>6, <2>6, <4>1, Moved DEF behind
      <4>3. behind \in Points /\ behind.y = middle.y /\ x = middle.x + rear
        BY <1>2, <1>6, <4>2, PointsAre
      <4> QED BY <1>2, <1>6, <3>2, <4>3
    <3> QED BY <2>7, <3>1, <3>2
  <2>10. /\ p \in Points /\ p.x = x
         /\ p.y = IF v[4].y < v[3].y THEN middle.y + (4 + w) ELSE middle.y - (4 + w)
    <3>1. CASE q = 1
      <4>1. p = Vec(behind.x, behind.y + (4 + w))
        BY <1>10, <2>6, <2>8, <2>9, <3>1, Moved DEF p
      <4>2. p \in Points /\ p.x = x /\ p.y = middle.y + (4 + w)
        BY <1>6, <1>10, <2>9, <4>1, PointsAre
      <4> QED BY <2>4, <3>1, <4>2
    <3>2. CASE q = 3
      <4>1. p = Vec(behind.x, behind.y - (4 + w))
        BY <1>10, <2>6, <2>8, <2>9, <3>2, Moved DEF p
      <4>2. p \in Points /\ p.x = x /\ p.y = middle.y - (4 + w)
        BY <1>6, <1>10, <2>9, <4>1, PointsAre
      <4>3. ~(v[4].y < v[3].y)
        BY <2>4, <3>2
      <4> QED BY <4>2, <4>3
    <3> QED BY <2>3, <3>1, <3>2
  <2>11. /\ heading % 4 = 0 => c.x \in p.x - b .. p.x + f
         /\ heading % 4 = 2 => c.x \in p.x - f .. p.x + b
         /\ c.y \in {p.y - w, p.y + w}
    BY <1>4, <2>6, <2>7, <2>10, VehicleCorners DEF f, b, w
  <2> HIDE DEF x
  <2>12. c.x \in middle.x - (f - rear) .. middle.x + (f - rear)
    <3>1. CASE heading % 4 = 0
      BY <1>1, <1>2, <1>6, <2>9, <2>10, <2>11, <3>1
    <3>2. CASE heading % 4 = 2
      BY <1>1, <1>2, <1>6, <2>9, <2>10, <2>11, <3>2
    <3> QED BY <2>7, <3>1, <3>2
  <2>13. Apart(v[1].x, v[3].x) >= f + b + 10 /\ Apart(v[1].y, v[3].y) >= 2 * w + 2
    BY <1>3, <1>8, <1>11, <2>1, LotEdges
  <2>14. c.x \in (IF v[1].x <= v[3].x THEN v[1].x ELSE v[3].x) - 4
                .. (IF v[1].x <= v[3].x THEN v[3].x ELSE v[1].x) + 4
    BY <1>1, <1>2, <1>3, <1>6, <2>1, <2>12, <2>13 DEF Apart
  <2>15. middle.y = v[1].y
    BY <1>3, <1>6, <1>7, <2>1
  <2>16. c.y \in (IF v[1].y <= v[3].y THEN v[1].y ELSE v[3].y) - 4
                .. (IF v[1].y <= v[3].y THEN v[3].y ELSE v[1].y) + 4
    BY <1>1, <1>3, <2>1, <2>10, <2>11, <2>13, <2>15 DEF Apart
  <2> QED BY <2>14, <2>16
<1>12. CASE v[1].y = v[2].y
  <2>1. /\ v[3].y = v[4].y /\ v[1].y # v[3].y /\ v[1].y # v[4].y
        /\ v[1].x = v[4].x /\ v[2].x = v[3].x /\ v[1].x # v[3].x /\ v[3].x # v[4].x
    BY <1>3, <1>12, LotEdges
  <2>2. along = 1 \/ along = 3
    BY <1>3, <2>1, EdgeIs
  <2>3. q = 0 \/ q = 2
    BY <1>3, <2>1, EdgeIs
  <2>4. v[4].x < v[3].x <=> q = 0
    BY <1>3, <2>1, EdgeIs
  <2>5. heading = 1 \/ heading = 3 \/ heading = 3 + 2
    BY <2>2
  <2> HIDE DEF along, heading, q
  <2>6. heading \in Int /\ heading + 2 \in Int /\ q \in Int
    BY <2>3, <2>5
  <2>7. \/ heading % 4 = 1 /\ (heading + 2) % 4 = 3
        \/ heading % 4 = 3 /\ (heading + 2) % 4 = 1
    BY <2>5
  <2>8. (q = 0 => q % 4 = 0) /\ (q = 2 => q % 4 = 2)
    BY <2>3
  <2> DEFINE x == behind.y
  <2>9. /\ behind \in Points /\ behind.x = middle.x /\ x \in Int
        /\ heading % 4 = 1 => x = middle.y - rear
        /\ heading % 4 = 3 => x = middle.y + rear
    <3>1. CASE heading % 4 = 1
      <4>1. (heading + 2) % 4 = 3
        BY <2>7, <3>1
      <4>2. behind = Vec(middle.x, middle.y - rear)
        BY <1>2, <1>6, <2>6, <4>1, Moved DEF behind
      <4>3. behind \in Points /\ behind.x = middle.x /\ x = middle.y - rear
        BY <1>2, <1>6, <4>2, PointsAre
      <4> QED BY <1>2, <1>6, <3>1, <4>3
    <3>2. CASE heading % 4 = 3
      <4>1. (heading + 2) % 4 = 1
        BY <2>7, <3>2
      <4>2. behind = Vec(middle.x, middle.y + rear)
        BY <1>2, <1>6, <2>6, <4>1, Moved DEF behind
      <4>3. behind \in Points /\ behind.x = middle.x /\ x = middle.y + rear
        BY <1>2, <1>6, <4>2, PointsAre
      <4> QED BY <1>2, <1>6, <3>2, <4>3
    <3> QED BY <2>7, <3>1, <3>2
  <2>10. /\ p \in Points /\ p.y = x
         /\ p.x = IF v[4].x < v[3].x THEN middle.x + (4 + w) ELSE middle.x - (4 + w)
    <3>1. CASE q = 0
      <4>1. p = Vec(behind.x + (4 + w), behind.y)
        BY <1>10, <2>6, <2>8, <2>9, <3>1, Moved DEF p
      <4>2. p \in Points /\ p.y = x /\ p.x = middle.x + (4 + w)
        BY <1>6, <1>10, <2>9, <4>1, PointsAre
      <4> QED BY <2>4, <3>1, <4>2
    <3>2. CASE q = 2
      <4>1. p = Vec(behind.x - (4 + w), behind.y)
        BY <1>10, <2>6, <2>8, <2>9, <3>2, Moved DEF p
      <4>2. p \in Points /\ p.y = x /\ p.x = middle.x - (4 + w)
        BY <1>6, <1>10, <2>9, <4>1, PointsAre
      <4>3. ~(v[4].x < v[3].x)
        BY <2>4, <3>2
      <4> QED BY <4>2, <4>3
    <3> QED BY <2>3, <3>1, <3>2
  <2>11. /\ heading % 4 = 1 => c.y \in p.y - b .. p.y + f
         /\ heading % 4 = 3 => c.y \in p.y - f .. p.y + b
         /\ c.x \in {p.x - w, p.x + w}
    BY <1>4, <2>6, <2>7, <2>10, VehicleCorners DEF f, b, w
  <2> HIDE DEF x
  <2>12. c.y \in middle.y - (f - rear) .. middle.y + (f - rear)
    <3>1. CASE heading % 4 = 1
      BY <1>1, <1>2, <1>6, <2>9, <2>10, <2>11, <3>1
    <3>2. CASE heading % 4 = 3
      BY <1>1, <1>2, <1>6, <2>9, <2>10, <2>11, <3>2
    <3> QED BY <2>7, <3>1, <3>2
  <2>13. Apart(v[1].y, v[3].y) >= f + b + 10 /\ Apart(v[1].x, v[3].x) >= 2 * w + 2
    BY <1>3, <1>8, <1>12, <2>1, LotEdges
  <2>14. c.y \in (IF v[1].y <= v[3].y THEN v[1].y ELSE v[3].y) - 4
                .. (IF v[1].y <= v[3].y THEN v[3].y ELSE v[1].y) + 4
    BY <1>1, <1>2, <1>3, <1>6, <2>1, <2>12, <2>13 DEF Apart
  <2>15. middle.x = v[1].x
    BY <1>3, <1>6, <1>7, <2>1
  <2>16. c.x \in (IF v[1].x <= v[3].x THEN v[1].x ELSE v[3].x) - 4
                .. (IF v[1].x <= v[3].x THEN v[3].x ELSE v[1].x) + 4
    BY <1>1, <1>3, <2>1, <2>10, <2>11, <2>13, <2>15 DEF Apart
  <2> QED BY <2>14, <2>16
<1>13. v[1].x = v[2].x \/ v[1].y = v[2].y
  BY LotEdges
<1> QED BY <1>11, <1>12, <1>13

-----------------------------------------------------------------------------
(* The opening of a lot *)

\* What OpeningFacingScore is of a place t along the axis of a lot from its opening to its rear.
ScoreOn(t, opening, rear) ==
  IF opening < rear THEN 20 * (t - opening) + 7 * (t - ((opening + rear) \div 2))
  ELSE 20 * (opening - t) + 7 * (((opening + rear) \div 2) - t)

\* Whether t is beyond the rear, seen from the opening.
BeyondOn(t, opening, rear) == IF opening < rear THEN t > rear ELSE t < rear

\* Beyond the rear the score is worse, by more than the margin of the switch.
LEMMA ScoresSwitch ==
  ASSUME NEW t \in Int, NEW a \in Int, NEW b \in Int, a # b, BeyondOn(t, a, b)
  PROVE  ScoreOn(t, b, a) + 60 < ScoreOn(t, a, b) /\ ~(ScoreOn(t, a, b) <= ScoreOn(t, b, a) + 60)
<1> DEFINE m == (a + b) \div 2
<1>1. m \in Int /\ a + b - 1 <= 2 * m /\ 2 * m <= a + b /\ b + a = a + b
  OBVIOUS
<1>2. CASE a < b
  <2>1. ScoreOn(t, a, b) = 20 * (t - a) + 7 * (t - m)
    BY <1>2 DEF ScoreOn
  <2>2. ScoreOn(t, b, a) = 20 * (b - t) + 7 * (m - t)
    <3>1. ~(b < a)
      BY <1>2
    <3> QED BY <1>1, <3>1 DEF ScoreOn
  <2>3. t > b
    BY <1>2 DEF BeyondOn
  <2> HIDE DEF m
  <2> QED BY <1>1, <1>2, <2>1, <2>2, <2>3
<1>3. CASE b < a
  <2>1. ScoreOn(t, a, b) = 20 * (a - t) + 7 * (m - t)
    <3>1. ~(a < b)
      BY <1>3
    <3> QED BY <3>1 DEF ScoreOn
  <2>2. ScoreOn(t, b, a) = 20 * (t - b) + 7 * (t - m)
    BY <1>1, <1>3 DEF ScoreOn
  <2>3. t < b
    <3>1. ~(a < b)
      BY <1>3
    <3> QED BY <3>1 DEF BeyondOn
  <2> HIDE DEF m
  <2> QED BY <1>1, <1>3, <2>1, <2>2, <2>3
<1> QED BY <1>2, <1>3

\* A product is positive if its factors have the same sign.
LEMMA SignOfProduct ==
  ASSUME NEW x \in Int, NEW y \in Int
  PROVE  /\ y > 0 => (x * y > 0 <=> x > 0)
         /\ y < 0 => (x * y > 0 <=> x < 0)
<1>1. ASSUME y > 0 PROVE x * y > 0 <=> x > 0
  <2>1. x > 0 => x * y > 0
    BY <1>1
  <2>2. x <= 0 => x * y <= 0
    <3> SUFFICES ASSUME x <= 0 PROVE x * y <= 0
      OBVIOUS
    <3>1. (-x) * y >= 0 /\ (-x) * y = -(x * y)
      BY <1>1
    <3> DEFINE z == x * y
    <3>2. z \in Int /\ -z >= 0
      BY <3>1
    <3> HIDE DEF z
    <3>3. z <= 0
      BY <3>2
    <3> QED BY <3>3 DEF z
  <2>3. x > 0 \/ x <= 0
    OBVIOUS
  <2> DEFINE z == x * y
  <2>4. z \in Int
    OBVIOUS
  <2> HIDE DEF z
  <2>5. (x > 0 => z > 0) /\ (x <= 0 => z <= 0)
    BY <2>1, <2>2 DEF z
  <2>6. z > 0 <=> x > 0
    BY <2>3, <2>4, <2>5
  <2> QED BY <2>6 DEF z
<1>2. ASSUME y < 0 PROVE x * y > 0 <=> x < 0
  <2> DEFINE z == x * y
             u == -x
             v == -y
  <2>1. z \in Int /\ u \in Int /\ v \in Int /\ v > 0 /\ u * v = z
    BY <1>2
  <2> HIDE DEF z, u, v
  <2>2. u > 0 => z > 0
    BY <2>1
  <2>3. u <= 0 => z <= 0
    <3> SUFFICES ASSUME u <= 0 PROVE z <= 0
      OBVIOUS
    <3>1. (-u) * v >= 0 /\ (-u) * v = -(u * v)
      BY <2>1
    <3> QED BY <2>1, <3>1
  <2>4. z > 0 <=> u > 0
    BY <2>1, <2>2, <2>3
  <2>5. u > 0 <=> x < 0
    BY DEF u
  <2> QED BY <2>4, <2>5 DEF z
<1> QED BY <1>1, <1>2

\* Where the opening and the rear are, and what is in between.
LEMMA OpeningIs ==
  ASSUME NEW v, IsLot(v)
  PROVE  /\ Middle(v[1], v[4]) \in Points /\ Middle(v[2], v[3]) \in Points
         /\ Middle(Middle(v[1], v[4]), Middle(v[2], v[3])) \in Points
         /\ v[1].x = v[4].x =>
              /\ Middle(v[1], v[4]).x = v[1].x /\ Middle(v[2], v[3]).x = v[2].x /\ v[1].x # v[2].x
              /\ Middle(v[1], v[4]).y = Middle(v[2], v[3]).y
              /\ Middle(Middle(v[1], v[4]), Middle(v[2], v[3])).x = (v[1].x + v[2].x) \div 2
         /\ v[1].x # v[4].x =>
              /\ Middle(v[1], v[4]).y = v[1].y /\ Middle(v[2], v[3]).y = v[2].y /\ v[1].y # v[2].y
              /\ Middle(v[1], v[4]).x = Middle(v[2], v[3]).x
              /\ Middle(Middle(v[1], v[4]), Middle(v[2], v[3])).y = (v[1].y + v[2].y) \div 2
<1>1. /\ v[1] \in Points /\ v[2] \in Points /\ v[3] \in Points /\ v[4] \in Points
      /\ v[1].x \in Int /\ v[1].y \in Int /\ v[2].x \in Int /\ v[2].y \in Int
      /\ v[3].x \in Int /\ v[3].y \in Int /\ v[4].x \in Int /\ v[4].y \in Int
  BY LotEdges, PointsAre
<1>2. \A p, r \in Points :
        /\ Middle(p, r) \in Points
        /\ Middle(p, r).x = (p.x + r.x) \div 2 /\ Middle(p, r).y = (p.y + r.y) \div 2
  <2> SUFFICES ASSUME NEW p \in Points, NEW r \in Points
               PROVE  /\ Middle(p, r) \in Points
                      /\ Middle(p, r).x = (p.x + r.x) \div 2 /\ Middle(p, r).y = (p.y + r.y) \div 2
    OBVIOUS
  <2>1. p.x \in Int /\ p.y \in Int /\ r.x \in Int /\ r.y \in Int
    BY PointsAre
  <2>2. Middle(p, r) = Vec((p.x + r.x) \div 2, (p.y + r.y) \div 2)
    BY <2>1, PointsAre DEF Middle, Half, Plus
  <2>3. (p.x + r.x) \div 2 \in Int /\ (p.y + r.y) \div 2 \in Int
    BY <2>1
  <2> QED BY <2>2, <2>3, PointsAre
<1>3. \A n \in Int : (n + n) \div 2 = n
  OBVIOUS
<1> DEFINE opening == Middle(v[1], v[4])
           rear == Middle(v[2], v[3])
<1>4. opening \in Points /\ rear \in Points
  BY <1>1, <1>2
<1>5. opening.x = (v[1].x + v[4].x) \div 2 /\ opening.y = (v[1].y + v[4].y) \div 2
  BY <1>1, <1>2
<1>6. rear.x = (v[2].x + v[3].x) \div 2 /\ rear.y = (v[2].y + v[3].y) \div 2
  BY <1>1, <1>2
<1> HIDE DEF opening, rear
<1>7. /\ Middle(opening, rear) \in Points
      /\ Middle(opening, rear).x = (opening.x + rear.x) \div 2
      /\ Middle(opening, rear).y = (opening.y + rear.y) \div 2
  BY <1>2, <1>4
<1>8. ASSUME v[1].x = v[4].x
      PROVE  opening.x = v[1].x /\ rear.x = v[2].x /\ v[1].x # v[2].x /\ opening.y = rear.y
  <2>1. v[2].x = v[3].x /\ v[1].x # v[2].x /\ v[1].y = v[2].y /\ v[3].y = v[4].y
    BY <1>8, LotEdges
  <2>2. opening.x = v[1].x /\ rear.x = v[2].x
    BY <1>1, <1>3, <1>5, <1>6, <1>8, <2>1
  <2> QED BY <1>1, <1>5, <1>6, <2>1, <2>2
<1>9. ASSUME v[1].x # v[4].x
      PROVE  opening.y = v[1].y /\ rear.y = v[2].y /\ v[1].y # v[2].y /\ opening.x = rear.x
  <2>1. v[2].y = v[3].y /\ v[1].y # v[2].y /\ v[1].x = v[2].x /\ v[3].x = v[4].x /\ v[1].y = v[4].y
    BY <1>9, LotEdges
  <2>2. opening.y = v[1].y /\ rear.y = v[2].y
    BY <1>1, <1>3, <1>5, <1>6, <2>1
  <2> QED BY <1>1, <1>5, <1>6, <2>1, <2>2
<1> QED BY <1>4, <1>7, <1>8, <1>9 DEF opening, rear

\* The score of an opening, and what is beyond the rear, along the axis of the lot.
LEMMA OpeningScores ==
  ASSUME NEW v, IsLot(v), NEW pose, pose.x \in Int, pose.y \in Int
  PROVE  /\ v[1].x = v[4].x =>
              /\ OpeningFacingScore(v, pose) = ScoreOn(pose.x, v[1].x, v[2].x)
              /\ Beyond(v[2], v[3], v[1], v[4], pose) <=> BeyondOn(pose.x, v[1].x, v[2].x)
         /\ v[1].x # v[4].x =>
              /\ OpeningFacingScore(v, pose) = ScoreOn(pose.y, v[1].y, v[2].y)
              /\ Beyond(v[2], v[3], v[1], v[4], pose) <=> BeyondOn(pose.y, v[1].y, v[2].y)
<1> DEFINE opening == Middle(v[1], v[4])
           rear == Middle(v[2], v[3])
           middle == Middle(opening, rear)
           q == Angle(Minus(rear, opening))
           from == Minus(pose, opening)
           off == Minus(pose, middle)
           past == Minus(pose, rear)
           outwards == Minus(rear, opening)
<1>1. opening \in Points /\ rear \in Points /\ middle \in Points
  BY OpeningIs
<1>2. /\ opening.x \in Int /\ opening.y \in Int /\ rear.x \in Int /\ rear.y \in Int
      /\ middle.x \in Int /\ middle.y \in Int
  BY <1>1, PointsAre
<1>3. /\ v[1].x = v[4].x => /\ opening.x = v[1].x /\ rear.x = v[2].x /\ v[1].x # v[2].x
                            /\ opening.y = rear.y /\ middle.x = (v[1].x + v[2].x) \div 2
      /\ v[1].x # v[4].x => /\ opening.y = v[1].y /\ rear.y = v[2].y /\ v[1].y # v[2].y
                            /\ opening.x = rear.x /\ middle.y = (v[1].y + v[2].y) \div 2
  BY OpeningIs
<1>4. OpeningFacingScore(v, pose) = 20 * InnerProd(from, UnitVec(q)) + 7 * InnerProd(off, UnitVec(q))
  BY DEF OpeningFacingScore
<1>5. Beyond(v[2], v[3], v[1], v[4], pose) <=> InnerProd(past, outwards) > 0
  BY DEF Beyond
<1> HIDE DEF opening, rear, middle
<1>6. /\ from \in Points /\ from.x = pose.x - opening.x /\ from.y = pose.y - opening.y
      /\ off \in Points /\ off.x = pose.x - middle.x /\ off.y = pose.y - middle.y
      /\ past \in Points /\ past.x = pose.x - rear.x /\ past.y = pose.y - rear.y
      /\ outwards \in Points /\ outwards.x = rear.x - opening.x /\ outwards.y = rear.y - opening.y
  <2>1. /\ from = Vec(pose.x - opening.x, pose.y - opening.y) /\ off = Vec(pose.x - middle.x, pose.y - middle.y)
        /\ past = Vec(pose.x - rear.x, pose.y - rear.y)
        /\ outwards = Vec(rear.x - opening.x, rear.y - opening.y)
    BY DEF Minus
  <2>2. from \in Points /\ from.x = pose.x - opening.x /\ from.y = pose.y - opening.y
    BY <1>2, <2>1, PointsAre
  <2>3. off \in Points /\ off.x = pose.x - middle.x /\ off.y = pose.y - middle.y
    BY <1>2, <2>1, PointsAre
  <2>4. past \in Points /\ past.x = pose.x - rear.x /\ past.y = pose.y - rear.y
    BY <1>2, <2>1, PointsAre
  <2>5. outwards \in Points /\ outwards.x = rear.x - opening.x /\ outwards.y = rear.y - opening.y
    BY <1>2, <2>1, PointsAre
  <2> QED BY <2>2, <2>3, <2>4, <2>5
<1>7. InnerProd(past, outwards) = past.x * outwards.x + past.y * outwards.y
  BY DEF InnerProd
<1>8. /\ rear.y = opening.y /\ opening.x < rear.x => q = 0
      /\ rear.x = opening.x /\ opening.y < rear.y => q = 1
      /\ rear.y = opening.y /\ opening.x > rear.x => q = 2
      /\ rear.x = opening.x /\ opening.y > rear.y => q = 3
  BY <1>1, EdgeIs
<1> HIDE DEF from, off, past, outwards, q
<1>9. /\ InnerProd(from, UnitVec(0)) = from.x /\ InnerProd(from, UnitVec(1)) = from.y
      /\ InnerProd(from, UnitVec(2)) = -from.x /\ InnerProd(from, UnitVec(3)) = -from.y
  BY <1>6, AlongAxes
<1>10. /\ InnerProd(off, UnitVec(0)) = off.x /\ InnerProd(off, UnitVec(1)) = off.y
       /\ InnerProd(off, UnitVec(2)) = -off.x /\ InnerProd(off, UnitVec(3)) = -off.y
  BY <1>6, AlongAxes
<1>11. ASSUME v[1].x = v[4].x
       PROVE  /\ OpeningFacingScore(v, pose) = ScoreOn(pose.x, v[1].x, v[2].x)
              /\ Beyond(v[2], v[3], v[1], v[4], pose) <=> BeyondOn(pose.x, v[1].x, v[2].x)
  <2> DEFINE a == v[1].x
             b == v[2].x
             t == pose.x
             m == (a + b) \div 2
             x == past.x
             y == outwards.x
             z == past.y
  <2>1. /\ a \in Int /\ b \in Int /\ t \in Int /\ a # b /\ opening.x = a /\ rear.x = b
        /\ opening.y = rear.y /\ middle.x = m /\ m \in Int
    BY <1>2, <1>3, <1>11
  <2>2. from.x = t - a /\ off.x = t - m /\ x = t - b /\ y = b - a /\ z \in Int /\ outwards.y = 0
    BY <1>2, <1>6, <2>1
  <2>3. Beyond(v[2], v[3], v[1], v[4], pose) <=> x * y > 0
    <3>1. InnerProd(past, outwards) = x * y + z * 0
      BY <1>7, <2>1, <2>2
    <3> HIDE DEF x, y, z
    <3>2. x * y + z * 0 = x * y
      BY <2>1, <2>2
    <3> QED BY <1>5, <3>1, <3>2
  <2>4. x * y > 0 <=> BeyondOn(t, a, b)
    <3>1. x \in Int /\ y \in Int
      BY <2>1, <2>2
    <3> HIDE DEF a, b, t, x, y
    <3>2. /\ y > 0 => (x * y > 0 <=> x > 0)
          /\ y < 0 => (x * y > 0 <=> x < 0)
      BY <3>1, SignOfProduct
    <3> DEFINE product == x * y > 0
    <3>3. (a < b => (product <=> t > b)) /\ (b < a => (product <=> t < b))
      <4>1. (y > 0 => (product <=> x > 0)) /\ (y < 0 => (product <=> x < 0))
        BY <3>2
      <4> HIDE DEF product
      <4> QED BY <2>1, <2>2, <4>1
    <3> HIDE DEF product
    <3>4. product <=> BeyondOn(t, a, b)
      BY <2>1, <3>3 DEF BeyondOn
    <3> QED BY <3>4 DEF product
  <2>5. OpeningFacingScore(v, pose) = ScoreOn(t, a, b)
    <3>1. CASE a < b
      <4>1. q = 0
        BY <1>8, <2>1, <3>1
      <4>2. OpeningFacingScore(v, pose) = 20 * (t - a) + 7 * (t - m)
        BY <1>4, <1>9, <1>10, <2>2, <4>1
      <4> QED BY <3>1, <4>2 DEF ScoreOn
    <3>2. CASE b < a
      <4>1. q = 2
        BY <1>8, <2>1, <3>2
      <4>2. OpeningFacingScore(v, pose) = 20 * (-(t - a)) + 7 * (-(t - m))
        BY <1>4, <1>9, <1>10, <2>2, <4>1
      <4>3. 20 * (-(t - a)) + 7 * (-(t - m)) = 20 * (a - t) + 7 * (m - t)
        <5> HIDE DEF a, t, m
        <5> QED BY <2>1
      <4>4. ~(a < b)
        BY <2>1, <3>2
      <4> QED BY <4>2, <4>3, <4>4 DEF ScoreOn
    <3> QED BY <2>1, <3>1, <3>2
  <2> QED BY <2>3, <2>4, <2>5
<1>12. ASSUME v[1].x # v[4].x
       PROVE  /\ OpeningFacingScore(v, pose) = ScoreOn(pose.y, v[1].y, v[2].y)
              /\ Beyond(v[2], v[3], v[1], v[4], pose) <=> BeyondOn(pose.y, v[1].y, v[2].y)
  <2> DEFINE a == v[1].y
             b == v[2].y
             t == pose.y
             m == (a + b) \div 2
             x == past.y
             y == outwards.y
             z == past.x
  <2>1. /\ a \in Int /\ b \in Int /\ t \in Int /\ a # b /\ opening.y = a /\ rear.y = b
        /\ opening.x = rear.x /\ middle.y = m /\ m \in Int
    BY <1>2, <1>3, <1>12
  <2>2. from.y = t - a /\ off.y = t - m /\ x = t - b /\ y = b - a /\ z \in Int /\ outwards.x = 0
    BY <1>2, <1>6, <2>1
  <2>3. Beyond(v[2], v[3], v[1], v[4], pose) <=> x * y > 0
    <3>1. InnerProd(past, outwards) = x * y + z * 0
      BY <1>7, <2>1, <2>2
    <3> HIDE DEF x, y, z
    <3>2. x * y + z * 0 = x * y
      BY <2>1, <2>2
    <3> QED BY <1>5, <3>1, <3>2
  <2>4. x * y > 0 <=> BeyondOn(t, a, b)
    <3>1. x \in Int /\ y \in Int
      BY <2>1, <2>2
    <3> HIDE DEF a, b, t, x, y
    <3>2. /\ y > 0 => (x * y > 0 <=> x > 0)
          /\ y < 0 => (x * y > 0 <=> x < 0)
      BY <3>1, SignOfProduct
    <3> DEFINE product == x * y > 0
    <3>3. (a < b => (product <=> t > b)) /\ (b < a => (product <=> t < b))
      <4>1. (y > 0 => (product <=> x > 0)) /\ (y < 0 => (product <=> x < 0))
        BY <3>2
      <4> HIDE DEF product
      <4> QED BY <2>1, <2>2, <4>1
    <3> HIDE DEF product
    <3>4. product <=> BeyondOn(t, a, b)
      BY <2>1, <3>3 DEF BeyondOn
    <3> QED BY <3>4 DEF product
  <2>5. OpeningFacingScore(v, pose) = ScoreOn(t, a, b)
    <3>1. CASE a < b
      <4>1. q = 1
        BY <1>8, <2>1, <3>1
      <4>2. OpeningFacingScore(v, pose) = 20 * (t - a) + 7 * (t - m)
        BY <1>4, <1>9, <1>10, <2>2, <4>1
      <4> QED BY <3>1, <4>2 DEF ScoreOn
    <3>2. CASE b < a
      <4>1. q = 3
        BY <1>8, <2>1, <3>2
      <4>2. OpeningFacingScore(v, pose) = 20 * (-(t - a)) + 7 * (-(t - m))
        BY <1>4, <1>9, <1>10, <2>2, <4>1
      <4>3. 20 * (-(t - a)) + 7 * (-(t - m)) = 20 * (a - t) + 7 * (m - t)
        <5> HIDE DEF a, t, m
        <5> QED BY <2>1
      <4>4. ~(a < b)
        BY <2>1, <3>2
      <4> QED BY <4>2, <4>3, <4>4 DEF ScoreOn
    <3> QED BY <2>1, <3>1, <3>2
  <2> QED BY <2>3, <2>4, <2>5
<1> QED BY <1>11, <1>12

\* The opening that is preferred is not the one beyond which the vehicle would stand.
LEMMA OpeningIsPreferred ==
  ASSUME NEW current, IsLot(current), NEW candidate, IsLot(candidate),
         NEW pose, pose.x \in Int, pose.y \in Int,
         \/ candidate = <<current[2], current[1], current[4], current[3]>>
         \/ candidate = <<current[3], current[4], current[1], current[2]>>
  PROVE  IF PrefersOpening(candidate, current, pose)
         THEN ~Beyond(candidate[2], candidate[3], candidate[1], candidate[4], pose)
         ELSE ~Beyond(current[2], current[3], current[1], current[4], pose)
<1> DEFINE there(v) == Beyond(v[2], v[3], v[1], v[4], pose)
           score(v) == OpeningFacingScore(v, pose)
<1>1. PrefersOpening(candidate, current, pose) =>
        score(candidate) + 60 < score(current) \/ score(candidate) <= score(current) + 60
  BY DEF PrefersOpening
<1>2. score(candidate) + 60 < score(current) => PrefersOpening(candidate, current, pose)
  BY DEF PrefersOpening
<1>3. /\ current[1].x = current[4].x <=> candidate[1].x = candidate[4].x
      /\ current[1].x = current[4].x => candidate[1].x = current[2].x /\ candidate[2].x = current[1].x
      /\ current[1].x # current[4].x => candidate[1].y = current[2].y /\ candidate[2].y = current[1].y
  <2>1. CASE candidate = <<current[2], current[1], current[4], current[3]>>
    <3>1. candidate[1] = current[2] /\ candidate[2] = current[1] /\ candidate[4] = current[3]
      BY <2>1
    <3> QED BY <3>1, LotEdges
  <2>2. CASE candidate = <<current[3], current[4], current[1], current[2]>>
    <3>1. candidate[1] = current[3] /\ candidate[2] = current[4] /\ candidate[4] = current[2]
      BY <2>2
    <3> QED BY <3>1, LotEdges
  <2> QED BY <2>1, <2>2
<1>4. ASSUME NEW t \in Int, NEW a \in Int, NEW b \in Int, a # b,
             score(current) = ScoreOn(t, a, b), score(candidate) = ScoreOn(t, b, a),
             there(current) <=> BeyondOn(t, a, b), there(candidate) <=> BeyondOn(t, b, a)
      PROVE  IF PrefersOpening(candidate, current, pose) THEN ~there(candidate) ELSE ~there(current)
  <2>1. ScoreOn(t, a, b) \in Int /\ ScoreOn(t, b, a) \in Int
    <3>1. \A m, n \in Int : ScoreOn(t, m, n) \in Int
      BY DEF ScoreOn
    <3> QED BY <1>4, <3>1
  <2>2. BeyondOn(t, a, b) => score(candidate) + 60 < score(current)
    BY <1>4, ScoresSwitch
  <2>3. BeyondOn(t, b, a) =>
          ScoreOn(t, a, b) + 60 < ScoreOn(t, b, a) /\ ~(ScoreOn(t, b, a) <= ScoreOn(t, a, b) + 60)
    BY <1>4, ScoresSwitch
  <2> DEFINE s == ScoreOn(t, a, b)
             r == ScoreOn(t, b, a)
  <2>4. BeyondOn(t, b, a) => ~(r + 60 < s) /\ ~(r <= s + 60)
    <3>1. s \in Int /\ r \in Int
      BY <2>1
    <3>2. BeyondOn(t, b, a) => s + 60 < r /\ ~(r <= s + 60)
      BY <2>3
    <3> HIDE DEF s, r
    <3> QED BY <3>1, <3>2
  <2> HIDE DEF there, score
  <2> QED BY <1>1, <1>2, <1>4, <2>2, <2>4
<1>5. /\ current[1].x \in Int /\ current[1].y \in Int /\ current[2].x \in Int /\ current[2].y \in Int
  BY LotEdges, PointsAre
<1>6. CASE current[1].x = current[4].x
  <2> DEFINE t == pose.x
             a == current[1].x
             b == current[2].x
  <2>1. t \in Int /\ a \in Int /\ b \in Int /\ a # b
    BY <1>5, <1>6, LotEdges
  <2>2. score(current) = ScoreOn(t, a, b) /\ (there(current) <=> BeyondOn(t, a, b))
    BY <1>6, OpeningScores
  <2>3. score(candidate) = ScoreOn(t, b, a) /\ (there(candidate) <=> BeyondOn(t, b, a))
    BY <1>3, <1>6, OpeningScores
  <2> HIDE DEF t, a, b, score, there
  <2>4. IF PrefersOpening(candidate, current, pose) THEN ~there(candidate) ELSE ~there(current)
    BY <1>4, <2>1, <2>2, <2>3
  <2> QED BY <2>4 DEF there
<1>7. CASE current[1].x # current[4].x
  <2> DEFINE t == pose.y
             a == current[1].y
             b == current[2].y
  <2>1. t \in Int /\ a \in Int /\ b \in Int /\ a # b
    BY <1>5, <1>7, LotEdges
  <2>2. score(current) = ScoreOn(t, a, b) /\ (there(current) <=> BeyondOn(t, a, b))
    BY <1>7, OpeningScores
  <2>3. score(candidate) = ScoreOn(t, b, a) /\ (there(candidate) <=> BeyondOn(t, b, a))
    BY <1>3, <1>7, OpeningScores
  <2> HIDE DEF t, a, b, score, there
  <2>4. IF PrefersOpening(candidate, current, pose) THEN ~there(candidate) ELSE ~there(current)
    BY <1>4, <2>1, <2>2, <2>3
  <2> QED BY <2>4 DEF there
<1> QED BY <1>6, <1>7

\* The opening of a lot that the vehicle backs into faces the vehicle.
LEMMA OpeningsFaceVehicles ==
  ASSUME NEW lot, IsLot(lot.vertices), Upright(lot.type), NEW pose, pose.x \in Int, pose.y \in Int
  PROVE  OpeningFacesVehicle(Vertices(lot, pose), pose)
<1> DEFINE v == lot.vertices
           w == NormalizedVertices(lot, pose)
           turned == <<v[1], v[4], v[3], v[2]>>
           beside == <<v[4], v[1], v[2], v[3]>>
           opposite == <<v[3], v[4], v[1], v[2]>>
           there(u) == Beyond(u[2], u[3], u[1], u[4], pose)
<1>1. IsLot(v) /\ IsLot(turned) /\ IsLot(beside) /\ IsLot(opposite) /\ IsLot(w)
  <2>1. IsLot(turned) /\ IsLot(beside) /\ IsLot(opposite)
    BY RelabelledLots
  <2> QED BY <2>1, ExtractedLots
<1>2. \/ w = IF PrefersOpening(beside, turned, pose) THEN beside ELSE turned
      \/ w = IF PrefersOpening(opposite, v, pose) THEN opposite ELSE v
  BY DEF NormalizedVertices
<1>3. beside = <<turned[2], turned[1], turned[4], turned[3]>>
  OBVIOUS
<1>4. IF PrefersOpening(beside, turned, pose) THEN ~there(beside) ELSE ~there(turned)
  <2> HIDE DEF beside, turned, v
  <2> QED BY <1>1, <1>3, OpeningIsPreferred
<1>5. IF PrefersOpening(opposite, v, pose) THEN ~there(opposite) ELSE ~there(v)
  <2>1. opposite = <<v[3], v[4], v[1], v[2]>>
    OBVIOUS
  <2> HIDE DEF opposite, v
  <2> QED BY <1>1, <2>1, OpeningIsPreferred
<1> HIDE DEF w, beside, turned, opposite, v, there
<1>6. ~there(w)
  BY <1>2, <1>4, <1>5
<1>7. Vertices(lot, pose) = StabilizedVertices(w)
  BY DEF Vertices, w
<1>8. CASE TargetHeading(w) = 2 /\ TargetHeading(Mirrored(w)) # 2
  <2>1. Vertices(lot, pose) = Mirrored(w)
    BY <1>7, <1>8 DEF StabilizedVertices
  <2>2. Mirrored(Mirrored(w))[1] = w[1] /\ Mirrored(Mirrored(w))[2] = w[2]
    BY DEF Mirrored
  <2>3. TargetHeading(Mirrored(Mirrored(w))) = TargetHeading(w)
    BY <2>2 DEF TargetHeading
  <2> QED BY <1>8, <2>1, <2>3 DEF OpeningFacesVehicle
<1>9. CASE ~(TargetHeading(w) = 2 /\ TargetHeading(Mirrored(w)) # 2)
  <2>1. Vertices(lot, pose) = w
    BY <1>7, <1>9 DEF StabilizedVertices
  <2> QED BY <1>6, <2>1 DEF OpeningFacesVehicle, there
<1> QED BY <1>8, <1>9

(* Whatever the vehicle's size and pose, and however a lot along the axes  *)
(* is labelled and said to be large: if it passes the checks, it holds the *)
(* whole vehicle at the goal, but for the depth buffer, and opens towards  *)
(* the vehicle (Process, CheckReceiveParkinglot, the end poses).           *)
THEOREM LotsHoldVehicles ==
  ASSUME Sized, NEW memory, NEW lot, IsLot(lot.vertices),
         lot.type \in {"VERTICAL", "OBLIQUE", "LATERAL"},
         NEW pose, pose.x \in Int, pose.y \in Int
  PROVE  LotHoldsVehicle(memory, lot, pose)
<1> DEFINE type == lot.type
           v == Vertices(lot, pose)
           right == IsParkLotInRightSide(v, pose)
           a == Process(memory, lot, pose)
<1> SUFFICES ASSUME a.ok
             PROVE  /\ Holds(Range(lot.vertices), a.goal)
                    /\ Upright(type) => OpeningFacesVehicle(a.vertices, pose)
  BY DEF LotHoldsVehicle
<1>1. IsLot(v) /\ Range(v) = Range(lot.vertices)
  BY ExtractedLots
<1>2. right \in BOOLEAN
  BY DEF IsParkLotInRightSide
<1>3. a = Checked(memory, type, v, pose, right)
  BY DEF Process, Labelled
<1> HIDE DEF v, right, a
<1>4. LotStatus(type, v) = "NORMAL"
  <2> SUFFICES ASSUME LotStatus(type, v) # "NORMAL" PROVE FALSE
    OBVIOUS
  <2>1. a = [ok |-> FALSE, status |-> LotStatus(type, v), memory |-> memory]
    BY <1>3 DEF Checked
  <2>2. a.ok = FALSE
    BY <2>1
  <2> QED BY <2>2
<1>5. a.goal = EndPose(type, v, right) /\ a.vertices = v
  BY <1>3, <1>4 DEF Checked, Aimed, Accepted
<1>6. CASE Upright(type)
  <2>1. a.goal = NonLateralSlotEndPose(v)
    BY <1>5, <1>6 DEF EndPose, Upright
  <2>2. Holds(Range(v), NonLateralSlotEndPose(v))
    BY <1>1, <1>4, <1>6, UprightHolds
  <2>3. OpeningFacesVehicle(v, pose)
    BY <1>6, OpeningsFaceVehicles DEF v
  <2> QED BY <1>1, <1>5, <2>1, <2>2, <2>3
<1>7. CASE ~Upright(type)
  <2>1. type = "LATERAL"
    BY <1>7 DEF Upright
  <2>2. a.goal = LateralSlotEndPose(v, right)
    BY <1>5, <1>7, <2>1 DEF EndPose
  <2>3. Holds(Range(v), LateralSlotEndPose(v, right))
    BY <1>1, <1>2, <1>4, <2>1, LateralHolds
  <2> QED BY <1>1, <1>7, <2>2, <2>3
<1> QED BY <1>6, <1>7

-----------------------------------------------------------------------------
(* The bounds of a region *)

\* What holds of 0 and, with a number, of the next one holds of all.
LEMMA SetInduction ==
  ASSUME NEW S \in SUBSET Nat, 0 \in S, \A n \in S : n + 1 \in S
  PROVE  S = Nat
<1> SUFFICES ASSUME Nat \ S # {} PROVE FALSE
  OBVIOUS
<1>1. IsWellFoundedOn(OpToRel(<, Nat), Nat)
  BY NatLessThanWellFounded
<1>2. PICK n \in Nat \ S : \A m \in Nat \ S : ~(<<m, n>> \in OpToRel(<, Nat))
  BY <1>1, WFMin
<1>3. \A m \in Nat \ S : ~(m < n)
  BY <1>2 DEF OpToRel
<1>4. n # 0 /\ n - 1 \in Nat /\ n - 1 \in S
  BY <1>3
<1> QED BY <1>3, <1>4

\* Of finitely many numbers one is least.
LEMMA LeastIsThere ==
  ASSUME NEW n \in Nat \ {0}, NEW f \in [1 .. n -> Int]
  PROVE  \E i \in 1 .. n : \A j \in 1 .. n : f[i] <= f[j]
<1> DEFINE S == {m \in Nat : m + 1 <= n => \E i \in 1 .. m + 1 : \A j \in 1 .. m + 1 : f[i] <= f[j]}
<1>1. 0 \in S
  <2>1. 1 \in 1 .. 0 + 1 /\ \A j \in 1 .. 0 + 1 : j = 1
    OBVIOUS
  <2>2. f[1] \in Int
    OBVIOUS
  <2>3. \A j \in 1 .. 0 + 1 : f[1] <= f[j]
    BY <2>1, <2>2
  <2> QED BY <2>1, <2>3
<1>2. ASSUME NEW m \in S PROVE m + 1 \in S
  <2> SUFFICES ASSUME m + 1 + 1 <= n
               PROVE  \E i \in 1 .. m + 1 + 1 : \A j \in 1 .. m + 1 + 1 : f[i] <= f[j]
    OBVIOUS
  <2>1. m \in Nat /\ m + 1 <= n
    OBVIOUS
  <2>2. PICK i \in 1 .. m + 1 : \A j \in 1 .. m + 1 : f[i] <= f[j]
    BY <2>1
  <2> HIDE DEF S
  <2> DEFINE k == m + 1 + 1
  <2>3. i \in 1 .. n /\ k \in 1 .. n /\ i \in 1 .. k /\ k \in 1 .. k
    BY <2>1
  <2>4. \A j \in 1 .. k : j = k \/ j \in 1 .. m + 1
    BY <2>1
  <2>5. \A j \in 1 .. k : f[j] \in Int
    BY <2>1
  <2> HIDE DEF k
  <2>6. f[i] \in Int /\ f[k] \in Int
    BY <2>3
  <2>7. CASE f[i] <= f[k]
    <3>1. \A j \in 1 .. k : f[i] <= f[j]
      BY <2>2, <2>4, <2>7
    <3> QED BY <2>3, <3>1 DEF k
  <2>8. CASE f[k] <= f[i]
    <3>1. \A j \in 1 .. k : f[k] <= f[j]
      <4> SUFFICES ASSUME NEW j \in 1 .. k PROVE f[k] <= f[j]
        OBVIOUS
      <4>1. CASE j = k
        BY <2>6, <4>1
      <4>2. CASE j \in 1 .. m + 1
        <5>1. f[i] <= f[j] /\ f[j] \in Int
          BY <2>2, <2>5, <4>2
        <5> QED BY <2>6, <2>8, <5>1
      <4> QED BY <2>4, <4>1, <4>2
    <3> QED BY <2>3, <3>1 DEF k
  <2>9. f[i] <= f[k] \/ f[k] <= f[i]
    BY <2>6
  <2> QED BY <2>7, <2>8, <2>9
<1>3. S = Nat
  <2> HIDE DEF S
  <2>1. S \in SUBSET Nat
    BY DEF S
  <2> QED BY <1>1, <1>2, <2>1, SetInduction
<1>4. n - 1 \in S /\ n - 1 + 1 = n
  <2> HIDE DEF S
  <2> QED BY <1>3
<1> QED BY <1>4

\* So the bounds of finitely many points are numbers.
LEMMA BoundsAreNumbers ==
  ASSUME NEW n \in Nat \ {0}, NEW f \in [1 .. n -> Points]
  PROVE  LET b == BoundsOf({f[i] : i \in 1 .. n})
         IN b.xmin \in Int /\ b.xmax \in Int /\ b.ymin \in Int /\ b.ymax \in Int
<1> DEFINE S == {f[i] : i \in 1 .. n}
<1>1. \A i \in 1 .. n : f[i].x \in Int /\ f[i].y \in Int
  BY PointsAre
<1>2. ASSUME NEW g \in [1 .. n -> Int]
      PROVE  Min({g[i] : i \in 1 .. n}) \in Int /\ Max({g[i] : i \in 1 .. n}) \in Int
  <2> DEFINE T == {g[i] : i \in 1 .. n}
             h == [i \in 1 .. n |-> -g[i]]
  <2>1. \E a \in T : \A c \in T : a <= c
    <3>1. PICK i \in 1 .. n : \A j \in 1 .. n : g[i] <= g[j]
      BY LeastIsThere
    <3> QED BY <3>1
  <2>2. \E a \in T : \A c \in T : a >= c
    <3>1. h \in [1 .. n -> Int]
      OBVIOUS
    <3>2. PICK i \in 1 .. n : \A j \in 1 .. n : h[i] <= h[j]
      BY <3>1, LeastIsThere
    <3>3. \A j \in 1 .. n : g[i] >= g[j]
      BY <3>2
    <3> QED BY <3>3
  <2>3. T \subseteq Int
    OBVIOUS
  <2> HIDE DEF T
  <2>4. Min(T) \in T
    BY <2>1 DEF Min
  <2>5. Max(T) \in T
    BY <2>2 DEF Max
  <2> QED BY <2>3, <2>4, <2>5 DEF T
<1> DEFINE xs == [i \in 1 .. n |-> f[i].x]
           ys == [i \in 1 .. n |-> f[i].y]
<1>3. xs \in [1 .. n -> Int] /\ ys \in [1 .. n -> Int]
  BY <1>1
<1>4. {p.x : p \in S} = {xs[i] : i \in 1 .. n} /\ {p.y : p \in S} = {ys[i] : i \in 1 .. n}
  OBVIOUS
<1> HIDE DEF S, xs, ys
<1>5. BoundsOf(S) = [xmin |-> Min({xs[i] : i \in 1 .. n}), xmax |-> Max({xs[i] : i \in 1 .. n}),
                     ymin |-> Min({ys[i] : i \in 1 .. n}), ymax |-> Max({ys[i] : i \in 1 .. n})]
  BY <1>4 DEF BoundsOf, Bounds
<1>6. Min({xs[i] : i \in 1 .. n}) \in Int /\ Max({xs[i] : i \in 1 .. n}) \in Int
  BY <1>2, <1>3
<1>7. Min({ys[i] : i \in 1 .. n}) \in Int /\ Max({ys[i] : i \in 1 .. n}) \in Int
  BY <1>2, <1>3
<1> DEFINE b == BoundsOf(S)
           xl == Min({xs[i] : i \in 1 .. n})
           xu == Max({xs[i] : i \in 1 .. n})
           yl == Min({ys[i] : i \in 1 .. n})
           yu == Max({ys[i] : i \in 1 .. n})
<1> HIDE DEF xl, xu, yl, yu
<1>8. b = [xmin |-> xl, xmax |-> xu, ymin |-> yl, ymax |-> yu]
  BY <1>5 DEF xl, xu, yl, yu
<1>9. xl \in Int /\ xu \in Int /\ yl \in Int /\ yu \in Int
  BY <1>6, <1>7 DEF xl, xu, yl, yu
<1> HIDE DEF b
<1>10. b.xmin \in Int /\ b.xmax \in Int /\ b.ymin \in Int /\ b.ymax \in Int
  BY <1>8, <1>9
<1> QED BY <1>10 DEF b, S

\* Points whose coordinates are numbers, Min and Max of two.
LEMMA Clamped ==
  ASSUME NEW b, b.xmin \in Int, b.xmax \in Int, b.ymin \in Int, b.ymax \in Int,
         NEW sensed, sensed.xmin \in Int, sensed.xmax \in Int, sensed.ymin \in Int, sensed.ymax \in Int,
         NEW q \in Points, NEW padding \in Nat, Within(q, sensed)
  PROVE  LET e == Expanded(b, q, padding, sensed)
         IN /\ e.xmin \in Int /\ e.xmax \in Int /\ e.ymin \in Int /\ e.ymax \in Int
            /\ Within(q, e)
            /\ \A p \in Points : Within(p, b) /\ Within(p, sensed) => Within(p, e)
<1> DEFINE e == Expanded(b, q, padding, sensed)
           Lower(m, n) == IF m <= n THEN m ELSE n
           Upper(m, n) == IF m <= n THEN n ELSE m
<1>1. q.x \in Int /\ q.y \in Int
  BY PointsAre
<1>2. \A m, n \in Int : Min({m, n}) = Lower(m, n) /\ Max({m, n}) = Upper(m, n)
  BY LeastOfTwo
<1>3. q.x - padding \in Int /\ q.x + padding \in Int /\ q.y - padding \in Int /\ q.y + padding \in Int
  BY <1>1
<1>4. \A m, n \in Int : Lower(m, n) \in Int /\ Upper(m, n) \in Int
  OBVIOUS
<1>5. /\ e.xmin = Max({sensed.xmin, Min({b.xmin, q.x - padding})})
      /\ e.xmax = Min({sensed.xmax, Max({b.xmax, q.x + padding})})
      /\ e.ymin = Max({sensed.ymin, Min({b.ymin, q.y - padding})})
      /\ e.ymax = Min({sensed.ymax, Max({b.ymax, q.y + padding})})
  BY DEF Expanded, Bounds
<1> HIDE DEF e, Lower, Upper
<1>6. /\ e.xmin = Upper(sensed.xmin, Lower(b.xmin, q.x - padding))
      /\ e.ymin = Upper(sensed.ymin, Lower(b.ymin, q.y - padding))
  BY <1>2, <1>3, <1>4, <1>5
<1>7. /\ e.xmax = Lower(sensed.xmax, Upper(b.xmax, q.x + padding))
      /\ e.ymax = Lower(sensed.ymax, Upper(b.ymax, q.y + padding))
  <2>1. \A s, m, c \in Int : Min({s, Max({m, c})}) = Lower(s, Upper(m, c))
    BY <1>2, <1>4
  <2>2. e.xmax = Lower(sensed.xmax, Upper(b.xmax, q.x + padding))
    BY <1>3, <1>5, <2>1
  <2>3. e.ymax = Lower(sensed.ymax, Upper(b.ymax, q.y + padding))
    BY <1>3, <1>5, <2>1
  <2> QED BY <2>2, <2>3
<1>8. /\ e.xmin \in Int /\ e.xmax \in Int /\ e.ymin \in Int /\ e.ymax \in Int
  <2>1. \A s, m, c \in Int : Lower(s, Upper(m, c)) \in Int /\ Upper(s, Lower(m, c)) \in Int
    BY <1>4
  <2>2. Upper(sensed.xmin, Lower(b.xmin, q.x - padding)) \in Int
    BY <1>3, <2>1
  <2>3. Upper(sensed.ymin, Lower(b.ymin, q.y - padding)) \in Int
    BY <1>3, <2>1
  <2>4. Lower(sensed.xmax, Upper(b.xmax, q.x + padding)) \in Int
    BY <1>3, <2>1
  <2>5. Lower(sensed.ymax, Upper(b.ymax, q.y + padding)) \in Int
    BY <1>3, <2>1
  <2> QED BY <1>6, <1>7, <2>2, <2>3, <2>4, <2>5
<1>9. \A s, m, c, x \in Int : s <= x /\ (m <= x \/ c <= x) => Upper(s, Lower(m, c)) <= x
  BY DEF Lower, Upper
<1>10. \A s, m, c, x \in Int : x <= s /\ (x <= m \/ x <= c) => x <= Lower(s, Upper(m, c))
  BY DEF Lower, Upper
<1>11. ASSUME NEW p \in Points, Within(p, sensed), p = q \/ Within(p, b) PROVE Within(p, e)
  <2>1. p.x \in Int /\ p.y \in Int
    BY PointsAre
  <2>2. /\ sensed.xmin <= p.x /\ p.x <= sensed.xmax /\ sensed.ymin <= p.y /\ p.y <= sensed.ymax
    BY <1>11 DEF Within
  <2>3. /\ b.xmin <= p.x \/ q.x - padding <= p.x
        /\ p.x <= b.xmax \/ p.x <= q.x + padding
        /\ b.ymin <= p.y \/ q.y - padding <= p.y
        /\ p.y <= b.ymax \/ p.y <= q.y + padding
    BY <1>1, <1>11, <2>1 DEF Within
  <2>4. e.xmin <= p.x /\ e.ymin <= p.y
    BY <1>3, <1>6, <1>9, <2>1, <2>2, <2>3
  <2>5. p.x <= e.xmax /\ p.y <= e.ymax
    BY <1>3, <1>7, <1>10, <2>1, <2>2, <2>3
  <2> QED BY <1>8, <2>1, <2>4, <2>5 DEF Within
<1>12. Within(q, e)
  BY <1>11
<1> QED BY <1>8, <1>11, <1>12 DEF e

\* Quarter turns of a vector.
LEMMA Turned ==
  ASSUME NEW v \in Points, NEW q \in Int
  PROVE  /\ q % 4 = 0 => Rotated(v, q) = Vec(v.x, v.y)
         /\ q % 4 = 1 => Rotated(v, q) = Vec(-v.y, v.x)
         /\ q % 4 = 2 => Rotated(v, q) = Vec(-v.x, -v.y)
         /\ q % 4 = 3 => Rotated(v, q) = Vec(v.y, -v.x)
<1> DEFINE x == v.x
           y == v.y
           r == q % 4
           u == UnitVec(q)
<1>1. x \in Int /\ y \in Int
  BY PointsAre
<1>2. \A a, b \in Int : u = Vec(a, b) => Rotated(v, q) = Vec(x * a + y * (-b), x * b + y * a)
  <2> SUFFICES ASSUME NEW a \in Int, NEW b \in Int, u = Vec(a, b)
               PROVE  Rotated(v, q) = Vec(x * a + y * (-b), x * b + y * a)
    OBVIOUS
  <2>1. u.x = a /\ u.y = b /\ -b \in Int
    BY PointsAre
  <2>2. InnerProd(v, Vec(a, -b)) = x * a + y * (-b) /\ InnerProd(v, Vec(b, a)) = x * b + y * a
    BY <2>1, PointsAre DEF InnerProd
  <2> QED BY <2>1, <2>2 DEF Rotated
<1>3. /\ r = 0 => u = Vec(1, 0)
      /\ r = 1 => u = Vec(0, 1)
      /\ r = 2 => u = Vec(-1, 0)
      /\ r = 3 => u = Vec(0, -1)
  BY Axes
<1> HIDE DEF x, y, r, u
<1>4. /\ x * 1 + y * (-0) = x /\ x * 0 + y * 1 = y
      /\ x * 0 + y * (-1) = -y /\ x * 1 + y * 0 = x
  BY <1>1
<1>5. /\ x * (-1) + y * (-0) = -x /\ x * 0 + y * (-1) = -y
      /\ x * 0 + y * (-(-1)) = y /\ x * (-1) + y * 0 = -x
  BY <1>1
<1>6. r = 0 => Rotated(v, q) = Vec(x, y)
  BY <1>2, <1>3, <1>4
<1>7. r = 1 => Rotated(v, q) = Vec(-y, x)
  BY <1>2, <1>3, <1>4
<1>8. r = 2 => Rotated(v, q) = Vec(-x, -y)
  <2>1. u = Vec(-1, 0) => Rotated(v, q) = Vec(x * (-1) + y * (-0), x * 0 + y * (-1))
    BY <1>2
  <2> QED BY <1>3, <1>5, <2>1
<1>9. r = 3 => Rotated(v, q) = Vec(y, -x)
  <2>1. u = Vec(0, -1) => Rotated(v, q) = Vec(x * 0 + y * (-(-1)), x * (-1) + y * 0)
    BY <1>2
  <2> QED BY <1>3, <1>5, <2>1
<1> QED BY <1>6, <1>7, <1>8, <1>9 DEF x, y, r

\* A point in the frame of a lot, by the quarter turns of the frame.
LEMMA LocalPoints ==
  ASSUME NEW o, o.x \in Int, o.y \in Int, o.heading \in Int, NEW p, p.x \in Int, p.y \in Int
  PROVE  LET l == ToLocalPoint(p, o)
             r == (-o.heading) % 4
         IN /\ l \in Points
            /\ r \in 0 .. 3
            /\ r = 0 => l.x = p.x - o.x /\ l.y = p.y - o.y
            /\ r = 1 => l.x = o.y - p.y /\ l.y = p.x - o.x
            /\ r = 2 => l.x = o.x - p.x /\ l.y = o.y - p.y
            /\ r = 3 => l.x = p.y - o.y /\ l.y = o.x - p.x
<1> DEFINE v == Minus(p, o)
           q == -o.heading
           l == ToLocalPoint(p, o)
           a == p.x - o.x
           b == p.y - o.y
<1>1. a \in Int /\ b \in Int /\ q \in Int /\ v = Vec(a, b)
  BY DEF Minus
<1>2. v \in Points /\ v.x = a /\ v.y = b
  BY <1>1, PointsAre
<1>3. l = Rotated(v, q)
  BY DEF ToLocalPoint
<1>4. -a = o.x - p.x /\ -b = o.y - p.y
  OBVIOUS
<1>5. q % 4 \in 0 .. 3
  BY <1>1
<1>6. /\ q % 4 = 0 => l = Vec(a, b)
      /\ q % 4 = 1 => l = Vec(-b, a)
      /\ q % 4 = 2 => l = Vec(-a, -b)
      /\ q % 4 = 3 => l = Vec(b, -a)
  <2> HIDE DEF v, q, l, a, b
  <2> QED BY <1>1, <1>2, <1>3, Turned
<1> DEFINE r == q % 4
<1> HIDE DEF v, l, r, q, a, b
<1>7. -a \in Int /\ -b \in Int
  BY <1>1
<1>8. CASE r = 0
  BY <1>1, <1>6, <1>7, <1>8, PointsAre DEF r, q, l, a, b
<1>9. CASE r = 1
  <2>1. l \in Points /\ l.x = -b /\ l.y = a
    BY <1>1, <1>6, <1>7, <1>9, PointsAre DEF r
  <2> QED BY <1>4, <1>5, <1>9, <2>1 DEF r, q, l, a, b
<1>10. CASE r = 2
  <2>1. l \in Points /\ l.x = -a /\ l.y = -b
    BY <1>1, <1>6, <1>7, <1>10, PointsAre DEF r
  <2> QED BY <1>4, <1>5, <1>10, <2>1 DEF r, q, l, a, b
<1>11. CASE r = 3
  <2>1. l \in Points /\ l.x = b /\ l.y = -a
    BY <1>1, <1>6, <1>7, <1>11, PointsAre DEF r
  <2> QED BY <1>4, <1>5, <1>11, <2>1 DEF r, q, l, a, b
<1> QED BY <1>5, <1>8, <1>9, <1>10, <1>11 DEF r

\* The corners of a box along the axes, as the sensed area around a vehicle is.
LEMMA SensedCorners ==
  ASSUME NEW p, p.x \in Int, p.y \in Int, NEW d \in Nat
  PROVE  Corners(Box(p, 0, d, d)) = {Vec(p.x - d, p.y - d), Vec(p.x - d, p.y + d),
                                     Vec(p.x + d, p.y - d), Vec(p.x + d, p.y + d)}
<1> DEFINE x == p.x
           y == p.y
           c(i, j) == Plus(p, Plus(Scaled(i * d, UnitVec(0)), Scaled(j * d, UnitVec(0 + 1))))
           S == {c(i, j) : i \in {-1, 1}, j \in {-1, 1}}
<1>1. Corners(Box(p, 0, d, d)) = S
  BY DEF Corners, Box
<1>2. S = {c(-1, -1), c(-1, 1), c(1, -1), c(1, 1)}
  <2> HIDE DEF c
  <2> QED OBVIOUS
<1>3. \A m, n \in Int : Plus(p, Plus(Scaled(m, UnitVec(0)), Scaled(n, UnitVec(0 + 1)))) = Vec(x + m, y + n)
  <2> SUFFICES ASSUME NEW m \in Int, NEW n \in Int
               PROVE  Plus(p, Plus(Scaled(m, UnitVec(0)), Scaled(n, UnitVec(0 + 1)))) = Vec(x + m, y + n)
    OBVIOUS
  <2>1. 0 + 1 = 1 /\ UnitVec(0) = Vec(1, 0) /\ UnitVec(1) = Vec(0, 1)
    BY AxisVectors
  <2>2. Scaled(m, Vec(1, 0)) = Vec(m, 0) /\ Scaled(n, Vec(0, 1)) = Vec(0, n)
    BY PointsAre DEF Scaled
  <2>3. Plus(Vec(m, 0), Vec(0, n)) = Vec(m, n)
    BY PointsAre DEF Plus
  <2>4. Plus(p, Vec(m, n)) = Vec(x + m, y + n)
    BY PointsAre DEF Plus
  <2> QED BY <2>1, <2>2, <2>3, <2>4
<1>4. (-1) * d = -d /\ 1 * d = d /\ -d \in Int /\ x + (-d) = x - d /\ y + (-d) = y - d
  OBVIOUS
<1>5. c(-1, -1) = Vec(x - d, y - d)
  BY <1>3, <1>4
<1>6. c(-1, 1) = Vec(x - d, y + d)
  BY <1>3, <1>4
<1>7. c(1, -1) = Vec(x + d, y - d)
  BY <1>3, <1>4
<1>8. c(1, 1) = Vec(x + d, y + d)
  BY <1>3, <1>4
<1> HIDE DEF c
<1> QED BY <1>1, <1>2, <1>5, <1>6, <1>7, <1>8

\* The area that is sensed, in the frame of a lot: as far around the vehicle as in its own.
LEMMA SensedArea ==
  ASSUME NEW o, o.x \in Int, o.y \in Int, o.heading \in Int, NEW p, p.x \in Int, p.y \in Int, NEW d \in Nat
  PROVE  LET l == ToLocalPoint(p, o)
             b == BoundsOf({ToLocalPoint(c, o) : c \in Corners(Box(p, 0, d, d))})
         IN b.xmin = l.x - d /\ b.xmax = l.x + d /\ b.ymin = l.y - d /\ b.ymax = l.y + d
<1> DEFINE l == ToLocalPoint(p, o)
           r == (-o.heading) % 4
           c1 == Vec(p.x - d, p.y - d)
           c2 == Vec(p.x - d, p.y + d)
           c3 == Vec(p.x + d, p.y - d)
           c4 == Vec(p.x + d, p.y + d)
           C == {c1, c2, c3, c4}
           T == {ToLocalPoint(c, o) : c \in C}
           xs == {ToLocalPoint(c1, o).x, ToLocalPoint(c2, o).x, ToLocalPoint(c3, o).x, ToLocalPoint(c4, o).x}
           ys == {ToLocalPoint(c1, o).y, ToLocalPoint(c2, o).y, ToLocalPoint(c3, o).y, ToLocalPoint(c4, o).y}
<1>1. Corners(Box(p, 0, d, d)) = C
  BY SensedCorners
<1>2. {t.x : t \in T} = xs /\ {t.y : t \in T} = ys
  <2> HIDE DEF c1, c2, c3, c4
  <2>1. T = {ToLocalPoint(c1, o), ToLocalPoint(c2, o), ToLocalPoint(c3, o), ToLocalPoint(c4, o)}
    OBVIOUS
  <2> HIDE DEF T
  <2>2. {t.x : t \in T} = xs
    BY <2>1
  <2>3. {t.y : t \in T} = ys
    BY <2>1
  <2> QED BY <2>2, <2>3
<1>3. /\ c1.x = p.x - d /\ c1.y = p.y - d /\ c2.x = p.x - d /\ c2.y = p.y + d
      /\ c3.x = p.x + d /\ c3.y = p.y - d /\ c4.x = p.x + d /\ c4.y = p.y + d
      /\ p.x - d \in Int /\ p.x + d \in Int /\ p.y - d \in Int /\ p.y + d \in Int
  BY PointsAre
<1> HIDE DEF c1, c2, c3, c4
<1>4. /\ l \in Points /\ r \in 0 .. 3
      /\ r = 0 => l.x = p.x - o.x /\ l.y = p.y - o.y
      /\ r = 1 => l.x = o.y - p.y /\ l.y = p.x - o.x
      /\ r = 2 => l.x = o.x - p.x /\ l.y = o.y - p.y
      /\ r = 3 => l.x = p.y - o.y /\ l.y = o.x - p.x
  BY LocalPoints
<1> DEFINE L(c) == ToLocalPoint(c, o)
<1>5. ASSUME NEW c \in {c1, c2, c3, c4}
      PROVE  /\ r = 0 => L(c).x = c.x - o.x /\ L(c).y = c.y - o.y
             /\ r = 1 => L(c).x = o.y - c.y /\ L(c).y = c.x - o.x
             /\ r = 2 => L(c).x = o.x - c.x /\ L(c).y = o.y - c.y
             /\ r = 3 => L(c).x = c.y - o.y /\ L(c).y = o.x - c.x
  <2>1. c.x \in Int /\ c.y \in Int
    BY <1>3
  <2> QED BY <2>1, LocalPoints
<1>6. l.x \in Int /\ l.y \in Int
  BY <1>4, PointsAre
<1> DEFINE xx == {L(c1).x, L(c2).x, L(c3).x, L(c4).x}
           yy == {L(c1).y, L(c2).y, L(c3).y, L(c4).y}
           within == xx = {l.x - d, l.x + d} /\ yy = {l.y - d, l.y + d}
<1> HIDE DEF r
<1> HIDE DEF l, L
<1>7. ASSUME r = 0 PROVE within
  <2>1. /\ L(c1).x = l.x - d /\ L(c2).x = l.x - d /\ L(c3).x = l.x + d /\ L(c4).x = l.x + d
        /\ L(c1).y = l.y - d /\ L(c2).y = l.y + d /\ L(c3).y = l.y - d /\ L(c4).y = l.y + d
    BY <1>3, <1>4, <1>5, <1>7
  <2> QED BY <2>1
<1>8. ASSUME r = 1 PROVE within
  <2>1. /\ L(c1).x = l.x + d /\ L(c2).x = l.x - d /\ L(c3).x = l.x + d /\ L(c4).x = l.x - d
        /\ L(c1).y = l.y - d /\ L(c2).y = l.y - d /\ L(c3).y = l.y + d /\ L(c4).y = l.y + d
    BY <1>3, <1>4, <1>5, <1>8
  <2> QED BY <2>1
<1>9. ASSUME r = 2 PROVE within
  <2>1. /\ L(c1).x = l.x + d /\ L(c2).x = l.x + d /\ L(c3).x = l.x - d /\ L(c4).x = l.x - d
        /\ L(c1).y = l.y + d /\ L(c2).y = l.y - d /\ L(c3).y = l.y + d /\ L(c4).y = l.y - d
    BY <1>3, <1>4, <1>5, <1>9
  <2> QED BY <2>1
<1>10. ASSUME r = 3 PROVE within
  <2>1. /\ L(c1).x = l.x - d /\ L(c2).x = l.x + d /\ L(c3).x = l.x - d /\ L(c4).x = l.x + d
        /\ L(c1).y = l.y + d /\ L(c2).y = l.y + d /\ L(c3).y = l.y - d /\ L(c4).y = l.y - d
    BY <1>3, <1>4, <1>5, <1>10
  <2> QED BY <2>1
<1>11. within
  <2> HIDE DEF within
  <2>1. r = 0 \/ r = 1 \/ r = 2 \/ r = 3
    BY <1>4
  <2> QED BY <2>1, <1>7, <1>8, <1>9, <1>10
<1>12. xs = {l.x - d, l.x + d} /\ ys = {l.y - d, l.y + d}
  BY <1>11 DEF L
<1>13. /\ Min({l.x - d, l.x + d}) = l.x - d /\ Max({l.x - d, l.x + d}) = l.x + d
       /\ Min({l.y - d, l.y + d}) = l.y - d /\ Max({l.y - d, l.y + d}) = l.y + d
  <2>1. \A n \in Int : n - d \in Int /\ n + d \in Int /\ n - d <= n + d
    OBVIOUS
  <2> QED BY <1>6, <2>1, LeastOfTwo
<1> HIDE DEF T, xs, ys
<1>14. BoundsOf(T) = [xmin |-> l.x - d, xmax |-> l.x + d, ymin |-> l.y - d, ymax |-> l.y + d]
  BY <1>2, <1>12, <1>13 DEF BoundsOf, Bounds
<1>15. BoundsOf({ToLocalPoint(c, o) : c \in Corners(Box(p, 0, d, d))}) = BoundsOf(T)
  BY <1>1 DEF T
<1> QED BY <1>14, <1>15 DEF l

\* Two points are as far from each other in the frame of a lot.
LEMMA SensedPoints ==
  ASSUME NEW o, o.x \in Int, o.y \in Int, o.heading \in Int,
         NEW p, p.x \in Int, p.y \in Int, NEW g, g.x \in Int, g.y \in Int, NEW d \in Nat,
         g.x \in p.x - d .. p.x + d, g.y \in p.y - d .. p.y + d
  PROVE  LET l == ToLocalPoint(p, o)
             m == ToLocalPoint(g, o)
         IN m.x \in l.x - d .. l.x + d /\ m.y \in l.y - d .. l.y + d
<1> DEFINE l == ToLocalPoint(p, o)
           m == ToLocalPoint(g, o)
           r == (-o.heading) % 4
<1>1. /\ l \in Points /\ r \in 0 .. 3
      /\ r = 0 => l.x = p.x - o.x /\ l.y = p.y - o.y
      /\ r = 1 => l.x = o.y - p.y /\ l.y = p.x - o.x
      /\ r = 2 => l.x = o.x - p.x /\ l.y = o.y - p.y
      /\ r = 3 => l.x = p.y - o.y /\ l.y = o.x - p.x
  BY LocalPoints
<1>2. /\ m \in Points
      /\ r = 0 => m.x = g.x - o.x /\ m.y = g.y - o.y
      /\ r = 1 => m.x = o.y - g.y /\ m.y = g.x - o.x
      /\ r = 2 => m.x = o.x - g.x /\ m.y = o.y - g.y
      /\ r = 3 => m.x = g.y - o.y /\ m.y = o.x - g.x
  BY LocalPoints
<1> HIDE DEF l, m, r
<1>3. r = 0 \/ r = 1 \/ r = 2 \/ r = 3
  BY <1>1
<1>4. m.x \in l.x - d .. l.x + d /\ m.y \in l.y - d .. l.y + d
  BY <1>1, <1>2, <1>3
<1> QED BY <1>4 DEF l, m

(* Of every region with a corner the bounds hold the vehicle and the goal, *)
(* as far as the goal is sensed: whatever the polygon, the lot's frame and *)
(* the two poses (GetParkingBoundary, ExpandRoiBoundaryToIncludePoint).    *)
THEOREM RegionsSpanManeuvers ==
  ASSUME Sized, NEW points \in Seq(Points), points # <<>>,
         NEW origin \in [x : Int, y : Int, heading : Int],
         NEW pose \in [x : Int, y : Int, heading : Int],
         NEW goal \in [x : Int, y : Int, heading : Int],
         goal.x \in pose.x - kFspSensorRange .. pose.x + kFspSensorRange,
         goal.y \in pose.y - kFspSensorRange .. pose.y + kFspSensorRange
  PROVE  SpansManeuver(ParkingBounds(points, origin, pose, goal), origin, pose, goal)
<1> DEFINE n == Len(points)
           f == [i \in 1 .. n |-> ToLocalPoint(points[i], origin)]
           d == kFspSensorRange
           sensed == BoundsOf({ToLocalPoint(c, origin) : c \in Corners(Box(pose, 0, d, d))})
           roi == BoundsOf({ToLocalPoint(p, origin) : p \in Range(points)})
           cut == Bounds(Max({roi.xmin, sensed.xmin}), Min({roi.xmax, sensed.xmax}),
                         Max({roi.ymin, sensed.ymin}), Min({roi.ymax, sensed.ymax}))
           padding == Max({roi_edge_buffer, Vehicle.half_width}) + 4
           l == ToLocalPoint(pose, origin)
           m == ToLocalPoint(goal, origin)
           around == Expanded(cut, l, padding, sensed)
           b == Expanded(around, m, 10, sensed)
<1>1. ParkingBounds(points, origin, pose, goal) = b
  BY DEF ParkingBounds
<1>2. d \in Nat /\ padding \in Nat
  <2>1. roi_edge_buffer \in Nat /\ Vehicle.half_width \in Nat /\ kFspSensorRange \in Nat
    BY DEF roi_edge_buffer, kFspSensorRange, Sized
  <2>2. \A i, j \in Nat : Max({i, j}) \in Nat
    BY LeastOfTwo
  <2>3. Max({roi_edge_buffer, Vehicle.half_width}) \in Nat
    BY <2>1, <2>2
  <2>4. \A i \in Nat : i + 4 \in Nat
    OBVIOUS
  <2>5. padding \in Nat
    BY <2>3, <2>4
  <2> QED BY <2>1, <2>5
<1>3. l \in Points /\ m \in Points
  <2>1. l \in Points
    BY LocalPoints
  <2>2. m \in Points
    BY LocalPoints
  <2> QED BY <2>1, <2>2
<1>4. sensed.xmin = l.x - d /\ sensed.xmax = l.x + d /\ sensed.ymin = l.y - d /\ sensed.ymax = l.y + d
  BY <1>2, SensedArea
<1>5. m.x \in l.x - d .. l.x + d /\ m.y \in l.y - d .. l.y + d
  BY <1>2, SensedPoints
<1>6. roi.xmin \in Int /\ roi.xmax \in Int /\ roi.ymin \in Int /\ roi.ymax \in Int
  <2>1. n \in Nat \ {0} /\ DOMAIN points = 1 .. n /\ \A i \in 1 .. n : points[i] \in Points
    OBVIOUS
  <2>2. \A i \in 1 .. n : ToLocalPoint(points[i], origin) \in Points
    <3> SUFFICES ASSUME NEW i \in 1 .. n PROVE ToLocalPoint(points[i], origin) \in Points
      OBVIOUS
    <3>1. points[i].x \in Int /\ points[i].y \in Int
      BY <2>1, PointsAre
    <3> QED BY <3>1, LocalPoints
  <2>3. f \in [1 .. n -> Points]
    BY <2>2
  <2>4. {ToLocalPoint(p, origin) : p \in Range(points)} = {f[i] : i \in 1 .. n}
    <3>1. Range(points) = {points[i] : i \in 1 .. n}
      BY <2>1 DEF Range
    <3> QED BY <3>1
  <2> HIDE DEF n, f
  <2> QED BY <2>1, <2>3, <2>4, BoundsAreNumbers
<1> HIDE DEF d, sensed, roi, padding, l, m
<1>7. l.x \in Int /\ l.y \in Int /\ m.x \in Int /\ m.y \in Int
  BY <1>3, PointsAre
<1>8. sensed.xmin \in Int /\ sensed.xmax \in Int /\ sensed.ymin \in Int /\ sensed.ymax \in Int
  <2>1. \A i \in Int : i - d \in Int /\ i + d \in Int
    BY <1>2
  <2> QED BY <1>4, <1>7, <2>1
<1>9. Within(l, sensed) /\ Within(m, sensed)
  <2>1. Within(l, sensed)
    BY <1>2, <1>4, <1>7 DEF Within
  <2>2. Within(m, sensed)
    BY <1>4, <1>5 DEF Within
  <2> QED BY <2>1, <2>2
<1>10. cut.xmin \in Int /\ cut.xmax \in Int /\ cut.ymin \in Int /\ cut.ymax \in Int
  <2>1. \A i, j \in Int : Max({i, j}) \in Int /\ Min({i, j}) \in Int
    BY LeastOfTwo
  <2>2. /\ cut.xmin = Max({roi.xmin, sensed.xmin}) /\ cut.xmax = Min({roi.xmax, sensed.xmax})
        /\ cut.ymin = Max({roi.ymin, sensed.ymin}) /\ cut.ymax = Min({roi.ymax, sensed.ymax})
    BY DEF Bounds
  <2>3. Max({roi.xmin, sensed.xmin}) \in Int /\ Min({roi.xmax, sensed.xmax}) \in Int
    BY <1>6, <1>8, <2>1
  <2>4. Max({roi.ymin, sensed.ymin}) \in Int /\ Min({roi.ymax, sensed.ymax}) \in Int
    BY <1>6, <1>8, <2>1
  <2> HIDE DEF cut
  <2> QED BY <2>2, <2>3, <2>4
<1> HIDE DEF cut
<1>11. /\ around.xmin \in Int /\ around.xmax \in Int /\ around.ymin \in Int /\ around.ymax \in Int
       /\ Within(l, around)
  BY <1>2, <1>3, <1>8, <1>9, <1>10, Clamped
<1> HIDE DEF around
<1>12. /\ Within(m, b)
       /\ \A p \in Points : Within(p, around) /\ Within(p, sensed) => Within(p, b)
  BY <1>3, <1>8, <1>9, <1>11, Clamped
<1>13. Within(l, b)
  BY <1>3, <1>9, <1>11, <1>12
<1> HIDE DEF b
<1> QED BY <1>1, <1>12, <1>13 DEF SpansManeuver, l, m

-----------------------------------------------------------------------------
(* Collisions *)

\* d times the coordinate that is n of d parts of the way from a to b.
PartWay(a, b, n, d) == (d - n) * a + n * b

\* A part of the way is a number, and mirrored as its ends are.
LEMMA PartWays ==
  ASSUME NEW a \in Int, NEW b \in Int, NEW d \in Nat \ {0}, NEW n \in 0 .. d
  PROVE  PartWay(a, b, n, d) \in Int
BY DEF PartWay

LEMMA PartWaysMirrored ==
  ASSUME NEW a \in Int, NEW b \in Int, NEW d \in Nat \ {0}, NEW n \in 0 .. d
  PROVE  PartWay(-a, -b, n, d) = -PartWay(a, b, n, d)
BY DEF PartWay

\* A segment from (x1, y1) to (x2, y2) meets the box around the origin.
MeetsAt(x1, y1, x2, y2, hx, hy, n, d) ==
  /\ -(d * hx) <= PartWay(x1, x2, n, d) /\ PartWay(x1, x2, n, d) <= d * hx
  /\ -(d * hy) <= PartWay(y1, y2, n, d) /\ PartWay(y1, y2, n, d) <= d * hy

HasPointIn(x1, y1, x2, y2, hx, hy) ==
  \E d \in Nat \ {0} : \E n \in 0 .. d : MeetsAt(x1, y1, x2, y2, hx, hy, n, d)

\* It goes through a point.
GoesThrough(x1, y1, x2, y2, px, py) ==
  \E d \in Nat \ {0} : \E n \in 0 .. d :
    PartWay(x1, x2, n, d) = d * px /\ PartWay(y1, y2, n, d) = d * py

\* The mirror images of a box and a segment.
LEMMA MirrorImages ==
  ASSUME NEW x1 \in Int, NEW y1 \in Int, NEW x2 \in Int, NEW y2 \in Int,
         NEW hx \in Nat, NEW hy \in Nat, NEW mx \in {-1, 1}, NEW my \in {-1, 1}
  PROVE  HasPointIn(mx * x1, my * y1, mx * x2, my * y2, hx, hy) <=>
           HasPointIn(x1, y1, x2, y2, hx, hy)
<1>1. ASSUME NEW d \in Nat \ {0}, NEW n \in 0 .. d, NEW a \in Int, NEW b \in Int, NEW h \in Nat
      PROVE  (-(d * h) <= PartWay(-a, -b, n, d) /\ PartWay(-a, -b, n, d) <= d * h) <=>
               (-(d * h) <= PartWay(a, b, n, d) /\ PartWay(a, b, n, d) <= d * h)
  <2>1. PICK w \in Int : w = PartWay(a, b, n, d) /\ PartWay(-a, -b, n, d) = -w
    <3>1. PartWay(a, b, n, d) \in Int
      BY PartWays
    <3>2. PartWay(-a, -b, n, d) = -PartWay(a, b, n, d)
      BY PartWaysMirrored
    <3> QED BY <3>1, <3>2
  <2>2. PICK v \in Int : v = d * h
    OBVIOUS
  <2> QED BY <2>1, <2>2
<1>2. ASSUME NEW d \in Nat \ {0}, NEW n \in 0 .. d
      PROVE  MeetsAt(mx * x1, my * y1, mx * x2, my * y2, hx, hy, n, d) <=>
               MeetsAt(x1, y1, x2, y2, hx, hy, n, d)
  <2>1. \A a \in Int : 1 * a = a /\ (-1) * a = -a
    OBVIOUS
  <2>2. (-(d * hx) <= PartWay(mx * x1, mx * x2, n, d) /\ PartWay(mx * x1, mx * x2, n, d) <= d * hx) <=>
          (-(d * hx) <= PartWay(x1, x2, n, d) /\ PartWay(x1, x2, n, d) <= d * hx)
    <3>1. CASE mx = 1
      <4>1. mx * x1 = x1 /\ mx * x2 = x2
        BY <2>1, <3>1
      <4> QED BY <4>1
    <3>2. CASE mx = -1
      <4>1. mx * x1 = -x1 /\ mx * x2 = -x2
        BY <2>1, <3>2
      <4> QED BY <1>1, <4>1, Zenon
    <3> QED BY <3>1, <3>2
  <2>3. (-(d * hy) <= PartWay(my * y1, my * y2, n, d) /\ PartWay(my * y1, my * y2, n, d) <= d * hy) <=>
          (-(d * hy) <= PartWay(y1, y2, n, d) /\ PartWay(y1, y2, n, d) <= d * hy)
    <3>1. CASE my = 1
      <4>1. my * y1 = y1 /\ my * y2 = y2
        BY <2>1, <3>1
      <4> QED BY <4>1
    <3>2. CASE my = -1
      <4>1. my * y1 = -y1 /\ my * y2 = -y2
        BY <2>1, <3>2
      <4> QED BY <1>1, <4>1, Zenon
    <3> QED BY <3>1, <3>2
  <2> QED BY <2>2, <2>3 DEF MeetsAt
<1> QED BY <1>2 DEF HasPointIn

\* The axes may be exchanged.
LEMMA AxesExchanged ==
  ASSUME NEW x1, NEW y1, NEW x2, NEW y2, NEW hx, NEW hy
  PROVE  HasPointIn(y1, x1, y2, x2, hy, hx) <=> HasPointIn(x1, y1, x2, y2, hx, hy)
BY DEF HasPointIn, MeetsAt

\* What two squares add up to is 0 if they are.
LEMMA SquaresVanish ==
  ASSUME NEW a \in Int, NEW b \in Int
  PROVE  a * a + b * b \in Nat /\ (a * a + b * b = 0 <=> a = 0 /\ b = 0) /\ (a * a = 0 <=> a = 0)
<1>1. \A x \in Int : x * x >= 0 /\ (x # 0 => x * x > 0)
  <2>1. ASSUME NEW x \in Int PROVE x * x >= 0 /\ (x # 0 => x * x > 0)
    <3>1. CASE x > 0
      BY <3>1
    <3>2. CASE x = 0
      BY <3>2
    <3>3. CASE x < 0
      <4>1. -x \in Nat \ {0} /\ x * x = (-x) * (-x)
        BY <3>3
      <4>2. \A y \in Nat \ {0} : y * y > 0
        OBVIOUS
      <4> QED BY <4>1, <4>2
    <3> QED BY <3>1, <3>2, <3>3
  <2> QED BY <2>1
<1>2. PICK u \in Int, v \in Int : u = a * a /\ v = b * b
  OBVIOUS
<1> QED BY <1>1, <1>2

\* What a segment along (ax, ay) has to do with a point at (dx, dy) from its begin.
Reaches(ax, ay, dx, dy, n, d) == n * ax = d * dx /\ n * ay = d * dy

IsReached(ax, ay, dx, dy) ==
  \E d \in Nat \ {0} : \E n \in 0 .. d : Reaches(ax, ay, dx, dy, n, d)

LEMMA ThroughIsReached ==
  ASSUME NEW x1 \in Int, NEW y1 \in Int, NEW x2 \in Int, NEW y2 \in Int,
         NEW px \in Int, NEW py \in Int
  PROVE  GoesThrough(x1, y1, x2, y2, px, py) <=> IsReached(x2 - x1, y2 - y1, px - x1, py - y1)
<1>1. ASSUME NEW a \in Int, NEW b \in Int, NEW c \in Int, NEW d \in Nat \ {0}, NEW n \in 0 .. d
      PROVE  PartWay(a, b, n, d) = d * c <=> n * (b - a) = d * (c - a)
  BY <1>1 DEF PartWay
<1>2. ASSUME NEW d \in Nat \ {0}, NEW n \in 0 .. d
      PROVE  (PartWay(x1, x2, n, d) = d * px /\ PartWay(y1, y2, n, d) = d * py) <=>
               Reaches(x2 - x1, y2 - y1, px - x1, py - y1, n, d)
  BY <1>1 DEF Reaches
<1> QED BY <1>2, Zenon DEF GoesThrough, IsReached

\* How far along a segment, and how far beside it, a point on it is.
LEMMA ReachedAlong ==
  ASSUME NEW ax \in Int, NEW ay \in Int, NEW dx \in Int, NEW dy \in Int,
         NEW d \in Nat \ {0}, NEW n \in 0 .. d, Reaches(ax, ay, dx, dy, n, d)
  PROVE  /\ d * (dx * ax + dy * ay) = n * (ax * ax + ay * ay)
         /\ dx * ay - dy * ax = 0
<1>1. d * (dx * ax + dy * ay) = n * (ax * ax + ay * ay)
  <2>1. d * (dx * ax + dy * ay) = (d * dx) * ax + (d * dy) * ay
    OBVIOUS
  <2>2. (n * ax) * ax + (n * ay) * ay = n * (ax * ax + ay * ay)
    OBVIOUS
  <2> QED BY <2>1, <2>2 DEF Reaches
<1>2. d * (dx * ay - dy * ax) = 0
  <2>1. d * (dx * ay - dy * ax) = (d * dx) * ay - (d * dy) * ax
    OBVIOUS
  <2>2. (n * ax) * ay - (n * ay) * ax = 0
    OBVIOUS
  <2> QED BY <2>1, <2>2 DEF Reaches
<1>3. PICK c \in Int : c = dx * ay - dy * ax
  OBVIOUS
<1>4. c = 0
  <2>1. \A m \in Nat \ {0} : \A k \in Int : m * k = 0 => k = 0
    OBVIOUS
  <2> QED BY <1>2, <1>3, <2>1
<1> QED BY <1>1, <1>3, <1>4

\* A multiple of a positive number is no more than another if its factor is no more.
LEMMA Factors ==
  ASSUME NEW d \in Nat \ {0}
  PROVE  \A a \in Int, b \in Int : (d * a <= d * b <=> a <= b) /\ (d * a = d * b <=> a = b)
<1>1. ASSUME NEW a \in Int, NEW b \in Int, a < b PROVE d * a < d * b
  <2>1. PICK k \in Nat \ {0} : b = a + k
    <3>1. b - a \in Nat \ {0} /\ b = a + (b - a)
      BY <1>1
    <3> QED BY <3>1
  <2>2. d * b = d * a + d * k /\ d * k > 0
    BY <2>1
  <2> QED BY <2>2
<1>2. \A a \in Int : d * a \in Int
  OBVIOUS
<1> QED BY <1>1, <1>2

\* A segment goes through what is before its begin if that is its begin; through
\* what is past its end if that is its end; and else if it is not beside it.
OnceReached(ax, ay, dx, dy, proj, len) ==
  /\ len > 0
  /\ proj <= 0 => (IsReached(ax, ay, dx, dy) <=> dx = 0 /\ dy = 0)
  /\ proj >= len => (IsReached(ax, ay, dx, dy) <=> dx = ax /\ dy = ay)
  /\ (0 < proj /\ proj < len) => (IsReached(ax, ay, dx, dy) <=> dx * ay - dy * ax = 0)

\* All segments do so.
LEMMA PointsReached ==
  ASSUME NEW ax \in Int, NEW ay \in Int, NEW dx \in Int, NEW dy \in Int, ax # 0 \/ ay # 0,
         NEW proj \in Int, proj = dx * ax + dy * ay,
         NEW len \in Int, len = ax * ax + ay * ay
  PROVE  OnceReached(ax, ay, dx, dy, proj, len)
<1>1. len > 0
  BY SquaresVanish
<1>2. ASSUME proj <= 0 PROVE IsReached(ax, ay, dx, dy) <=> dx = 0 /\ dy = 0
  <2>1. ASSUME NEW d \in Nat \ {0}, NEW n \in 0 .. d, Reaches(ax, ay, dx, dy, n, d)
        PROVE  dx = 0 /\ dy = 0
    <3>1. d * proj = n * len
      BY <2>1, ReachedAlong
    <3>2. d * proj <= 0
      <4>1. \A m \in Nat, k \in Nat : m * (-k) <= 0
        OBVIOUS
      <4>2. -proj \in Nat /\ -(-proj) = proj
        BY <1>2
      <4> QED BY <4>1, <4>2
    <3>3. n = 0
      <4>1. \A m \in Nat, k \in Nat \ {0} : m * k <= 0 => m = 0
        OBVIOUS
      <4> QED BY <1>1, <3>1, <3>2, <4>1
    <3>4. d * dx = 0 /\ d * dy = 0
      BY <2>1, <3>3 DEF Reaches
    <3> QED BY <3>4
  <2>2. ASSUME dx = 0, dy = 0 PROVE IsReached(ax, ay, dx, dy)
    <3>1. Reaches(ax, ay, dx, dy, 0, 1)
      BY <2>2 DEF Reaches
    <3>2. 1 \in Nat \ {0} /\ 0 \in 0 .. 1
      OBVIOUS
    <3> QED BY <3>1, <3>2 DEF IsReached
  <2> QED BY <2>1, <2>2 DEF IsReached
<1>3. ASSUME proj >= len PROVE IsReached(ax, ay, dx, dy) <=> dx = ax /\ dy = ay
  <2>1. ASSUME NEW d \in Nat \ {0}, NEW n \in 0 .. d, Reaches(ax, ay, dx, dy, n, d)
        PROVE  dx = ax /\ dy = ay
    <3>1. d * proj = n * len
      BY <2>1, ReachedAlong
    <3>2. d * len <= d * proj
      BY <1>3, Factors
    <3>3. d <= n
      <4>1. len \in Nat \ {0} /\ len * d <= len * n
        BY <1>1, <3>1, <3>2
      <4> QED BY <4>1, Factors
    <3>4. d * dx = d * ax /\ d * dy = d * ay
      BY <2>1, <3>3 DEF Reaches
    <3> QED BY <3>4, Factors
  <2>2. ASSUME dx = ax, dy = ay PROVE IsReached(ax, ay, dx, dy)
    <3>1. Reaches(ax, ay, dx, dy, 1, 1)
      BY <2>2 DEF Reaches
    <3>2. 1 \in Nat \ {0} /\ 1 \in 0 .. 1
      OBVIOUS
    <3> QED BY <3>1, <3>2 DEF IsReached
  <2> QED BY <2>1, <2>2 DEF IsReached
<1>4. ASSUME 0 < proj, proj < len PROVE IsReached(ax, ay, dx, dy) <=> dx * ay - dy * ax = 0
  <2>1. ASSUME NEW d \in Nat \ {0}, NEW n \in 0 .. d, Reaches(ax, ay, dx, dy, n, d)
        PROVE  dx * ay - dy * ax = 0
    BY <2>1, ReachedAlong
  <2>2. ASSUME dx * ay - dy * ax = 0 PROVE IsReached(ax, ay, dx, dy)
    <3>1. proj * ax - len * dx = -(ay * (dx * ay - dy * ax))
      OBVIOUS
    <3>2. proj * ay - len * dy = ax * (dx * ay - dy * ax)
      OBVIOUS
    <3>3. proj * ax = len * dx /\ proj * ay = len * dy
      <4>1. ay * 0 = 0 /\ ax * 0 = 0
        OBVIOUS
      <4> QED BY <2>2, <3>1, <3>2, <4>1
    <3>4. len \in Nat \ {0} /\ proj \in 0 .. len
      BY <1>1, <1>4
    <3> QED BY <3>3, <3>4 DEF Reaches, IsReached
  <2> QED BY <2>1, <2>2 DEF IsReached
<1> QED BY <1>1, <1>2, <1>3, <1>4 DEF OnceReached

Segments == [start : Points, end : Points]

\* The parts of the distance of a point from a segment.
LEMMA DistanceParts ==
  ASSUME NEW p \in Points, NEW s \in Segments
  PROVE  /\ Minus(p, s.start) = Vec(p.x - s.start.x, p.y - s.start.y)
         /\ Along(s) = Vec(s.end.x - s.start.x, s.end.y - s.start.y)
         /\ InnerProd(Minus(p, s.start), Along(s)) =
              (p.x - s.start.x) * (s.end.x - s.start.x) + (p.y - s.start.y) * (s.end.y - s.start.y)
         /\ CrossProd(Minus(p, s.start), Along(s)) =
              (p.x - s.start.x) * (s.end.y - s.start.y) - (p.y - s.start.y) * (s.end.x - s.start.x)
         /\ LengthSquare(Along(s)) =
              (s.end.x - s.start.x) * (s.end.x - s.start.x) + (s.end.y - s.start.y) * (s.end.y - s.start.y)
BY DEF Minus, Vec, Along, InnerProd, CrossProd, LengthSquare

\* The length of a vector along an axis is how far it goes there.
LEMMA AxisLength ==
  ASSUME NEW x \in Int, NEW y \in Int, x = 0 \/ y = 0, x # 0 \/ y # 0
  PROVE  /\ Length(Vec(x, y)) \in Nat \ {0}
         /\ x = 0 => Length(Vec(x, y)) \in {y, -y}
         /\ y = 0 => Length(Vec(x, y)) \in {x, -x}
<1> DEFINE q == Angle(Vec(x, y))
<1>1. \A k \in 0 .. 3 : InnerProd(Vec(x, y), UnitVec(k)) =
        IF k = 0 THEN x ELSE IF k = 1 THEN y ELSE IF k = 2 THEN -x ELSE -y
  BY AxisVectors DEF InnerProd, Vec
<1>2. \A k \in 0 .. 3 : CrossProd(Vec(x, y), UnitVec(k)) =
        IF k = 0 THEN -y ELSE IF k = 1 THEN x ELSE IF k = 2 THEN y ELSE -x
  BY AxisVectors DEF CrossProd, Vec
<1>3. \E k \in 0 .. 3 : InnerProd(Vec(x, y), UnitVec(k)) > 0 /\ CrossProd(Vec(x, y), UnitVec(k)) = 0
  BY <1>1, <1>2
<1>4. q \in 0 .. 3 /\ InnerProd(Vec(x, y), UnitVec(q)) > 0 /\ CrossProd(Vec(x, y), UnitVec(q)) = 0
  <2>1. ~(Vec(x, y).x = 0 /\ Vec(x, y).y = 0)
    BY DEF Vec
  <2> QED BY <1>3, <2>1 DEF Angle
<1>5. Length(Vec(x, y)) = InnerProd(Vec(x, y), UnitVec(q))
  BY DEF Length
<1> HIDE DEF q
<1> QED BY <1>1, <1>2, <1>4, <1>5

\* A whole quotient of a multiple vanishes if the other factor does.
LEMMA QuotientVanishes ==
  ASSUME NEW l \in Nat \ {0}, NEW k \in Int, NEW c \in Int, c = k * l \/ c = -(k * l)
  PROVE  c \div l \in Int /\ (c \div l = 0 <=> c = 0)
<1>1. \A m \in Int : (m * l) \div l = m
  OBVIOUS
<1>2. PICK m \in Int : c = m * l
  <2>1. CASE c = k * l
    BY <2>1
  <2>2. CASE c = -(k * l)
    <3>1. c = (-k) * l /\ -k \in Int
      BY <2>2
    <3> QED BY <3>1
  <2> QED BY <2>1, <2>2
<1>3. m * l = 0 <=> m = 0
  OBVIOUS
<1> QED BY <1>1, <1>2, <1>3

\* The distance of a point from a segment is 0 if and only if the segment goes through it.
LEMMA DistanceVanishes ==
  ASSUME NEW p \in Points, NEW s \in Segments, s.start # s.end
  PROVE  SegmentDistance(p, s).num = 0 <=>
           GoesThrough(s.start.x, s.start.y, s.end.x, s.end.y, p.x, p.y)
<1>1. PICK ax \in Int, ay \in Int, dx \in Int, dy \in Int :
        /\ ax = s.end.x - s.start.x /\ ay = s.end.y - s.start.y
        /\ dx = p.x - s.start.x /\ dy = p.y - s.start.y
  BY DEF Points, Segments
<1>2. ax # 0 \/ ay # 0
  BY <1>1 DEF Points, Segments
<1>3. PICK proj \in Int, cross \in Int, len \in Int :
        /\ proj = dx * ax + dy * ay /\ cross = dx * ay - dy * ax /\ len = ax * ax + ay * ay
  OBVIOUS
<1>4. /\ Along(s) = Vec(ax, ay)
      /\ InnerProd(Minus(p, s.start), Along(s)) = proj
      /\ CrossProd(Minus(p, s.start), Along(s)) = cross
      /\ LengthSquare(Along(s)) = len
  BY <1>1, <1>3, DistanceParts
<1>6. GoesThrough(s.start.x, s.start.y, s.end.x, s.end.y, p.x, p.y) <=> IsReached(ax, ay, dx, dy)
  <2>1. s.start.x \in Int /\ s.start.y \in Int /\ s.end.x \in Int /\ s.end.y \in Int
        /\ p.x \in Int /\ p.y \in Int
    BY DEF Points, Segments
  <2> QED BY <1>1, <2>1, ThroughIsReached
<1>7. /\ len > 0
      /\ proj <= 0 => (IsReached(ax, ay, dx, dy) <=> dx = 0 /\ dy = 0)
      /\ proj >= len => (IsReached(ax, ay, dx, dy) <=> dx = ax /\ dy = ay)
      /\ (0 < proj /\ proj < len) => (IsReached(ax, ay, dx, dy) <=> cross = 0)
  <2>1. OnceReached(ax, ay, dx, dy, proj, len)
    BY <1>2, <1>3, PointsReached, Zenon
  <2> QED BY <1>3, <2>1 DEF OnceReached
<1>8. DistanceSquareTo(p, s.start) = dx * dx + dy * dy
  BY <1>1 DEF DistanceSquareTo, LengthSquare, InnerProd, Minus, Vec, Points, Segments
<1>9. DistanceSquareTo(p, s.end) = (dx - ax) * (dx - ax) + (dy - ay) * (dy - ay)
  <2>1. p.x - s.end.x = dx - ax /\ p.y - s.end.y = dy - ay
    BY <1>1 DEF Points, Segments
  <2> QED BY <2>1 DEF DistanceSquareTo, LengthSquare, InnerProd, Minus, Vec
<1> DEFINE far == LET d == cross \div Length(Vec(ax, ay)) IN Fraction(d * d, 1)
<1>10. SegmentDistance(p, s) =
         IF len = 0 \/ proj <= 0 THEN Fraction(dx * dx + dy * dy, 1)
         ELSE IF proj >= len THEN Fraction((dx - ax) * (dx - ax) + (dy - ay) * (dy - ay), 1)
         ELSE IF 0 \in {ax, ay} THEN far ELSE Fraction(cross * cross, len)
  <2>1. Vec(ax, ay).x = ax /\ Vec(ax, ay).y = ay
    BY DEF Vec
  <2> QED BY <1>4, <1>8, <1>9, <2>1 DEF SegmentDistance
<1>11. 0 \in {ax, ay} => (far.num = 0 <=> cross = 0)
  <2>1. SUFFICES ASSUME ax = 0 \/ ay = 0 PROVE far.num = 0 <=> cross = 0
    BY Zenon
  <2>2. PICK l \in Nat \ {0} : /\ l = Length(Vec(ax, ay))
                               /\ ax = 0 => l \in {ay, -ay}
                               /\ ay = 0 => l \in {ax, -ax}
    BY <1>2, <2>1, AxisLength
  <2>3. \E k \in Int : cross = k * l \/ cross = -(k * l)
    <3>1. CASE ax = 0
      <4>1. cross = dx * ay
        BY <1>3, <3>1
      <4>2. dx * ay = dx * l \/ dx * ay = -(dx * l)
        BY <2>2, <3>1
      <4> QED BY <4>1, <4>2
    <3>2. CASE ay = 0
      <4>1. cross = -(dy * ax)
        BY <1>3, <3>2
      <4>2. dy * ax = dy * l \/ dy * ax = -(dy * l)
        BY <2>2, <3>2
      <4>3. -(-(dy * l)) = dy * l
        OBVIOUS
      <4> QED BY <4>1, <4>2, <4>3
    <3> QED BY <2>1, <3>1, <3>2
  <2>4. PICK f : f = cross \div l
    OBVIOUS
  <2>5. f \in Int /\ (f = 0 <=> cross = 0)
    BY <2>3, <2>4, QuotientVanishes
  <2>6. far.num = f * f
    BY <2>2, <2>4 DEF Fraction
  <2> QED BY <2>5, <2>6, SquaresVanish
<1> HIDE DEF far
<1>12. CASE proj <= 0
  <2>1. SegmentDistance(p, s).num = dx * dx + dy * dy
    BY <1>10, <1>12 DEF Fraction
  <2> QED BY <1>6, <1>7, <1>12, <2>1, SquaresVanish
<1>13. CASE ~(proj <= 0) /\ proj >= len
  <2>1. SegmentDistance(p, s).num = (dx - ax) * (dx - ax) + (dy - ay) * (dy - ay)
    BY <1>7, <1>10, <1>13 DEF Fraction
  <2>2. PICK u \in Int, v \in Int : u = dx - ax /\ v = dy - ay
    OBVIOUS
  <2>3. u * u + v * v = 0 <=> u = 0 /\ v = 0
    BY SquaresVanish
  <2>4. (u = 0 <=> dx = ax) /\ (v = 0 <=> dy = ay)
    BY <2>2
  <2> QED BY <1>6, <1>7, <1>13, <2>1, <2>2, <2>3, <2>4
<1>14. CASE ~(proj <= 0) /\ ~(proj >= len)
  <2>1. SegmentDistance(p, s).num = 0 <=> cross = 0
    <3>1. CASE 0 \in {ax, ay}
      BY <1>7, <1>10, <1>11, <1>14, <3>1
    <3>2. CASE ~(0 \in {ax, ay})
      <4>1. SegmentDistance(p, s).num = cross * cross
        BY <1>7, <1>10, <1>14, <3>2 DEF Fraction
      <4> QED BY <4>1, SquaresVanish
    <3> QED BY <3>1, <3>2
  <2> QED BY <1>6, <1>7, <1>14, <2>1
<1> QED BY <1>12, <1>13, <1>14

\* What is n of d parts of the way between two numbers that are no less than h.
LEMMA WayAbove ==
  ASSUME NEW a \in Int, NEW b \in Int, NEW h \in Int, a >= h, b >= h,
         NEW d \in Nat \ {0}, NEW n \in 0 .. d
  PROVE  /\ PartWay(a, b, n, d) >= d * h
         /\ PartWay(a, b, n, d) = d * h => (n = d \/ a = h) /\ (n = 0 \/ b = h)
<1>1. PICK u \in Nat, v \in Nat : a = h + u /\ b = h + v
  <2>1. a - h \in Nat /\ b - h \in Nat /\ a = h + (a - h) /\ b = h + (b - h)
    OBVIOUS
  <2> QED BY <2>1
<1>2. PICK m \in Nat : d = m + n
  <2>1. d - n \in Nat /\ d = (d - n) + n
    OBVIOUS
  <2> QED BY <2>1
<1>3. PartWay(a, b, n, d) = d * h + (m * u + n * v)
  <2>1. d - n = m
    BY <1>2
  <2>2. PartWay(a, b, n, d) = m * (h + u) + n * (h + v)
    BY <1>1, <2>1 DEF PartWay
  <2>3. m * (h + u) + n * (h + v) = (m + n) * h + (m * u + n * v)
    OBVIOUS
  <2> QED BY <1>2, <2>2, <2>3
<1>4. \A j \in Nat, k \in Nat : j * k \in Nat /\ (j * k = 0 => j = 0 \/ k = 0)
  OBVIOUS
<1>5. PICK mu \in Nat, nv \in Nat : mu = m * u /\ nv = n * v
  BY <1>4
<1>6. PICK w \in Int : w = d * h
  OBVIOUS
<1>7. PartWay(a, b, n, d) = w + (mu + nv)
  BY <1>3, <1>5, <1>6
<1>8. ASSUME mu = 0, nv = 0 PROVE (n = d \/ a = h) /\ (n = 0 \/ b = h)
  <2>1. (m = 0 \/ u = 0) /\ (n = 0 \/ v = 0)
    BY <1>4, <1>5, <1>8
  <2> QED BY <1>1, <1>2, <2>1
<1> QED BY <1>6, <1>7, <1>8

\* And between two that are no more.
LEMMA WayBelow ==
  ASSUME NEW a \in Int, NEW b \in Int, NEW h \in Int, a <= h, b <= h,
         NEW d \in Nat \ {0}, NEW n \in 0 .. d
  PROVE  PartWay(a, b, n, d) <= d * h
<1>1. PartWay(-a, -b, n, d) >= d * (-h)
  <2>1. -a >= -h /\ -b >= -h /\ -a \in Int /\ -b \in Int /\ -h \in Int
    OBVIOUS
  <2> QED BY <2>1, WayAbove
<1>2. PartWay(-a, -b, n, d) = -PartWay(a, b, n, d)
  BY PartWaysMirrored
<1>3. PICK w \in Int : w = PartWay(a, b, n, d)
  BY PartWays
<1>4. PICK v \in Int : v = d * h /\ d * (-h) = -v
  OBVIOUS
<1> QED BY <1>1, <1>2, <1>3, <1>4

\* The ends of the way.
LEMMA WayEnds ==
  ASSUME NEW a \in Int, NEW b \in Int, NEW d \in Nat \ {0}
  PROVE  PartWay(a, b, 0, d) = d * a /\ PartWay(a, b, d, d) = d * b /\ 0 \in 0 .. d /\ d \in 0 .. d
BY DEF PartWay

\* A way from a number past h to one that is not comes to h.
LEMMA WayTo ==
  ASSUME NEW a \in Int, NEW b \in Int, NEW h \in Int, a > b, a >= h, h >= b
  PROVE  /\ a - b \in Nat \ {0} /\ a - h \in 0 .. a - b
         /\ PartWay(a, b, a - h, a - b) = (a - b) * h
<1>1. a - b \in Nat \ {0} /\ a - h \in 0 .. a - b
  OBVIOUS
<1>2. (a - b) - (a - h) = h - b
  OBVIOUS
<1>3. (h - b) * a + (a - h) * b = (a - b) * h
  OBVIOUS
<1> QED BY <1>1, <1>2, <1>3 DEF PartWay

\* On which side of the line a point is.
SideOf(x1, y1, x2, y2, cx, cy) == (x2 - x1) * (cy - y1) - (y2 - y1) * (cx - x1)

\* Where a segment comes to a vertical line, and by how much it is above a point there.
ComesTo(x1, y1, x2, y2, h, c, n, d) ==
  PartWay(y1, y2, n, d) = d * c + SideOf(x1, y1, x2, y2, h, c)

\* It comes there where it is across.
LEMMA WayBeside ==
  ASSUME NEW x1 \in Int, NEW y1 \in Int, NEW x2 \in Int, NEW y2 \in Int,
         NEW h \in Int, NEW c \in Int, NEW n \in Int, NEW d \in Int, n = x1 - h, d = x1 - x2
  PROVE  ComesTo(x1, y1, x2, y2, h, c, n, d)
<1>1. (x1 - x2) - (x1 - h) = h - x2
  OBVIOUS
<1>2. (h - x2) * y1 + (x1 - h) * y2 = (x1 - x2) * c + ((x2 - x1) * (c - y1) - (y2 - y1) * (h - x1))
  OBVIOUS
<1> QED BY <1>1, <1>2 DEF PartWay, SideOf, ComesTo

\* On which side of a line a point is, with the axes exchanged.
LEMMA SidesExchanged ==
  ASSUME NEW x1 \in Int, NEW y1 \in Int, NEW x2 \in Int, NEW y2 \in Int,
         NEW cx \in Int, NEW cy \in Int
  PROVE  SideOf(y1, x1, y2, x2, cy, cx) = -SideOf(x1, y1, x2, y2, cx, cy)
BY DEF SideOf

\* A point of the way is beside a point of the plane as the way's line is.
LiesBeside(x1, y1, x2, y2, cx, cy, n, d) ==
  d * SideOf(x1, y1, x2, y2, cx, cy) =
    (x2 - x1) * (d * cy - PartWay(y1, y2, n, d)) - (y2 - y1) * (d * cx - PartWay(x1, x2, n, d))

\* Every point of the way does.
LEMMA PartBeside ==
  ASSUME NEW x1 \in Int, NEW y1 \in Int, NEW x2 \in Int, NEW y2 \in Int,
         NEW cx \in Int, NEW cy \in Int, NEW d \in Nat \ {0}, NEW n \in 0 .. d
  PROVE  LiesBeside(x1, y1, x2, y2, cx, cy, n, d)
<1>1. PICK ax \in Int, ay \in Int : ax = x2 - x1 /\ ay = y2 - y1
  OBVIOUS
<1>2. PartWay(x1, x2, n, d) = d * x1 + n * ax /\ PartWay(y1, y2, n, d) = d * y1 + n * ay
  <2>1. (d - n) * x1 + n * x2 = d * x1 + n * (x2 - x1)
    OBVIOUS
  <2>2. (d - n) * y1 + n * y2 = d * y1 + n * (y2 - y1)
    OBVIOUS
  <2> QED BY <1>1, <2>1, <2>2 DEF PartWay
<1>3. d * (ax * (cy - y1) - ay * (cx - x1)) =
        ax * (d * cy - (d * y1 + n * ay)) - ay * (d * cx - (d * x1 + n * ax))
  OBVIOUS
<1> QED BY <1>1, <1>2, <1>3 DEF SideOf, LiesBeside

\* Signs of products.
LEMMA ProductSigns ==
  ASSUME NEW a \in Int, NEW b \in Int
  PROVE  /\ a >= 0 /\ b >= 0 => a * b >= 0
         /\ a <= 0 /\ b <= 0 => a * b >= 0
         /\ a <= 0 /\ b >= 0 => a * b <= 0
         /\ a >= 0 /\ b <= 0 => a * b <= 0
<1>1. \A j \in Nat, k \in Nat : j * k \in Nat
  OBVIOUS
<1>2. a * (-b) = -(a * b) /\ (-a) * b = -(a * b) /\ (-a) * (-b) = a * b
  OBVIOUS
<1>3. PICK w \in Int : w = a * b
  OBVIOUS
<1>4. a >= 0 /\ b >= 0 => w >= 0
  BY <1>1, <1>3
<1>5. a <= 0 /\ b <= 0 => w >= 0
  <2>1. a <= 0 /\ b <= 0 => -a \in Nat /\ -b \in Nat
    OBVIOUS
  <2>2. a <= 0 /\ b <= 0 => (-a) * (-b) \in Nat
    BY <1>1, <2>1
  <2> QED BY <1>2, <1>3, <2>2
<1>6. a <= 0 /\ b >= 0 => w <= 0
  <2>1. a <= 0 /\ b >= 0 => (-a) * b \in Nat
    <3>1. a <= 0 /\ b >= 0 => -a \in Nat /\ b \in Nat
      OBVIOUS
    <3> QED BY <1>1, <3>1
  <2> QED BY <1>2, <1>3, <2>1
<1>7. a >= 0 /\ b <= 0 => w <= 0
  <2>1. a >= 0 /\ b <= 0 => a * (-b) \in Nat
    <3>1. a >= 0 /\ b <= 0 => a \in Nat /\ -b \in Nat
      OBVIOUS
    <3> QED BY <1>1, <3>1
  <2> QED BY <1>2, <1>3, <2>1
<1> QED BY <1>3, <1>4, <1>5, <1>6, <1>7

\* A number has the sign of what is d times that.
LEMMA SignOfMultiple ==
  ASSUME NEW d \in Nat \ {0}, NEW k \in Int
  PROVE  (d * k >= 0 => k >= 0) /\ (d * k <= 0 => k <= 0)
<1>1. d * 0 = 0
  OBVIOUS
<1> QED BY <1>1, Factors

\* On which side of a segment's line what lies by (u, v) from n of d parts of its way is.
BesideBy(ax, ay, u, v, side) ==
  /\ ax <= 0 /\ ay <= 0 /\ v <= 0 /\ u >= 0 => side >= 0
  /\ ax <= 0 /\ ay <= 0 /\ v >= 0 /\ u <= 0 => side <= 0
  /\ ax <= 0 /\ ay >= 0 /\ v >= 0 /\ u >= 0 => side <= 0

\* All segments are beside the points so.
LEMMA PointsBeside ==
  ASSUME NEW x1 \in Int, NEW y1 \in Int, NEW x2 \in Int, NEW y2 \in Int,
         NEW cx \in Int, NEW cy \in Int, NEW d \in Nat \ {0}, NEW n \in 0 .. d,
         NEW u \in Int, u = d * cx - PartWay(x1, x2, n, d),
         NEW v \in Int, v = d * cy - PartWay(y1, y2, n, d)
  PROVE  BesideBy(x2 - x1, y2 - y1, u, v, SideOf(x1, y1, x2, y2, cx, cy))
<1>1. PICK ax \in Int, ay \in Int : ax = x2 - x1 /\ ay = y2 - y1
  OBVIOUS
<1>2. d * SideOf(x1, y1, x2, y2, cx, cy) = ax * v - ay * u
  <2>1. LiesBeside(x1, y1, x2, y2, cx, cy, n, d)
    BY PartBeside
  <2> QED BY <1>1, <2>1 DEF LiesBeside
<1>3. PICK side \in Int : side = SideOf(x1, y1, x2, y2, cx, cy)
  BY DEF SideOf
<1>4. PICK s \in Int, t \in Int : s = ax * v /\ t = ay * u
  OBVIOUS
<1>5. d * side = s - t
  BY <1>2, <1>3, <1>4
<1>6. (s - t >= 0 => side >= 0) /\ (s - t <= 0 => side <= 0)
  BY <1>5, SignOfMultiple
<1>7. /\ ax <= 0 /\ v <= 0 => s >= 0
      /\ ax <= 0 /\ v >= 0 => s <= 0
  BY <1>4, ProductSigns
<1>8. /\ ay <= 0 /\ u >= 0 => t <= 0
      /\ ay <= 0 /\ u <= 0 => t >= 0
      /\ ay >= 0 /\ u >= 0 => t >= 0
  BY <1>4, ProductSigns
<1> QED BY <1>1, <1>3, <1>6, <1>7, <1>8 DEF BesideBy

\* A part of a segment in the box is on no side of a corner that the segment passes.
LEMMA InsideCorners ==
  ASSUME NEW x1 \in Int, NEW y1 \in Int, NEW x2 \in Int, NEW y2 \in Int,
         NEW hx \in Nat, NEW hy \in Nat, HasPointIn(x1, y1, x2, y2, hx, hy)
  PROVE  /\ x2 <= x1 /\ y2 <= y1 => SideOf(x1, y1, x2, y2, hx, -hy) >= 0
         /\ x2 <= x1 /\ y2 <= y1 => SideOf(x1, y1, x2, y2, -hx, hy) <= 0
         /\ x2 <= x1 /\ y2 >= y1 => SideOf(x1, y1, x2, y2, hx, hy) <= 0
<1>1. PICK d \in Nat \ {0} : \E n \in 0 .. d : MeetsAt(x1, y1, x2, y2, hx, hy, n, d)
  BY DEF HasPointIn
<1>2. PICK n \in 0 .. d : MeetsAt(x1, y1, x2, y2, hx, hy, n, d)
  BY <1>1
<1>3. PICK X \in Int, Y \in Int : X = PartWay(x1, x2, n, d) /\ Y = PartWay(y1, y2, n, d)
  BY PartWays
<1>4. PICK dx \in Int, dy \in Int : /\ dx = d * hx /\ d * (-hx) = -dx
                                    /\ dy = d * hy /\ d * (-hy) = -dy
  OBVIOUS
<1>5. -dx <= X /\ X <= dx /\ -dy <= Y /\ Y <= dy
  BY <1>2, <1>3, <1>4 DEF MeetsAt
<1>6. /\ hx \in Int /\ hy \in Int /\ -hx \in Int /\ -hy \in Int
      /\ dx - X \in Int /\ -dx - X \in Int /\ dy - Y \in Int /\ -dy - Y \in Int
  OBVIOUS
<1>7. BesideBy(x2 - x1, y2 - y1, dx - X, -dy - Y, SideOf(x1, y1, x2, y2, hx, -hy))
  BY <1>3, <1>4, <1>6, PointsBeside
<1>8. BesideBy(x2 - x1, y2 - y1, -dx - X, dy - Y, SideOf(x1, y1, x2, y2, -hx, hy))
  BY <1>3, <1>4, <1>6, PointsBeside
<1>9. BesideBy(x2 - x1, y2 - y1, dx - X, dy - Y, SideOf(x1, y1, x2, y2, hx, hy))
  BY <1>3, <1>4, <1>6, PointsBeside
<1> QED BY <1>5, <1>7, <1>8, <1>9 DEF BesideBy

\* A segment that goes through a corner has a point in the box.
LEMMA CornersAreIn ==
  ASSUME NEW x1 \in Int, NEW y1 \in Int, NEW x2 \in Int, NEW y2 \in Int,
         NEW hx \in Nat, NEW hy \in Nat, NEW cx \in {-hx, hx}, NEW cy \in {-hy, hy},
         GoesThrough(x1, y1, x2, y2, cx, cy)
  PROVE  HasPointIn(x1, y1, x2, y2, hx, hy)
<1>1. PICK d \in Nat \ {0} : \E n \in 0 .. d :
        PartWay(x1, x2, n, d) = d * cx /\ PartWay(y1, y2, n, d) = d * cy
  BY DEF GoesThrough
<1>2. PICK n \in 0 .. d : PartWay(x1, x2, n, d) = d * cx /\ PartWay(y1, y2, n, d) = d * cy
  BY <1>1
<1>3. \A h \in Nat : \A c \in {-h, h} : -(d * h) <= d * c /\ d * c <= d * h
  <2>1. ASSUME NEW h \in Nat, NEW c \in {-h, h} PROVE -(d * h) <= d * c /\ d * c <= d * h
    <3>1. PICK w \in Nat : w = d * h /\ d * (-h) = -w
      <4>1. d * h \in Nat /\ d * (-h) = -(d * h)
        OBVIOUS
      <4> QED BY <4>1
    <3>2. d * c = w \/ d * c = -w
      BY <3>1
    <3> QED BY <3>1, <3>2
  <2> QED BY <2>1
<1>4. MeetsAt(x1, y1, x2, y2, hx, hy, n, d)
  BY <1>2, <1>3 DEF MeetsAt
<1> QED BY <1>4 DEF HasPointIn

\* An end of a segment in the box.
LEMMA EndsAreIn ==
  ASSUME NEW x1 \in Int, NEW y1 \in Int, NEW x2 \in Int, NEW y2 \in Int,
         NEW hx \in Nat, NEW hy \in Nat,
         \/ -hx <= x1 /\ x1 <= hx /\ -hy <= y1 /\ y1 <= hy
         \/ -hx <= x2 /\ x2 <= hx /\ -hy <= y2 /\ y2 <= hy
  PROVE  HasPointIn(x1, y1, x2, y2, hx, hy)
<1>1. 1 \in Nat \ {0} /\ \A h \in Nat : 1 * h = h
  OBVIOUS
<1>2. \A a \in Int : 1 * a = a
  OBVIOUS
<1>3. PartWay(x1, x2, 0, 1) = x1 /\ PartWay(y1, y2, 0, 1) = y1
  BY <1>1, <1>2, WayEnds
<1>4. PartWay(x1, x2, 1, 1) = x2 /\ PartWay(y1, y2, 1, 1) = y2
  BY <1>1, <1>2, WayEnds
<1>5. MeetsAt(x1, y1, x2, y2, hx, hy, 0, 1) \/ MeetsAt(x1, y1, x2, y2, hx, hy, 1, 1)
  BY <1>1, <1>3, <1>4 DEF MeetsAt
<1>6. 0 \in 0 .. 1 /\ 1 \in 0 .. 1
  OBVIOUS
<1> QED BY <1>1, <1>5, <1>6 DEF HasPointIn

\* A segment goes through its ends.
LEMMA EndsThrough ==
  ASSUME NEW x1 \in Int, NEW y1 \in Int, NEW x2 \in Int, NEW y2 \in Int
  PROVE  GoesThrough(x1, y1, x2, y2, x1, y1) /\ GoesThrough(x1, y1, x2, y2, x2, y2)
<1>1. 1 \in Nat \ {0} /\ 0 \in 0 .. 1 /\ 1 \in 0 .. 1
  OBVIOUS
<1>2. PartWay(x1, x2, 0, 1) = 1 * x1 /\ PartWay(y1, y2, 0, 1) = 1 * y1
  BY <1>1, WayEnds
<1>3. PartWay(x1, x2, 1, 1) = 1 * x2 /\ PartWay(y1, y2, 1, 1) = 1 * y2
  BY <1>1, WayEnds
<1> QED BY <1>1, <1>2, <1>3 DEF GoesThrough

\* A segment that is driven back goes through the same points.
LEMMA ThroughReversed ==
  ASSUME NEW x1 \in Int, NEW y1 \in Int, NEW x2 \in Int, NEW y2 \in Int,
         NEW px \in Int, NEW py \in Int, GoesThrough(x2, y2, x1, y1, px, py)
  PROVE  GoesThrough(x1, y1, x2, y2, px, py)
<1>1. PICK d \in Nat \ {0} : \E n \in 0 .. d :
        PartWay(x2, x1, n, d) = d * px /\ PartWay(y2, y1, n, d) = d * py
  BY DEF GoesThrough
<1>2. PICK n \in 0 .. d : PartWay(x2, x1, n, d) = d * px /\ PartWay(y2, y1, n, d) = d * py
  BY <1>1
<1>3. PICK m \in 0 .. d : m = d - n /\ n = d - m
  OBVIOUS
<1>4. \A a \in Int, b \in Int : PartWay(a, b, m, d) = PartWay(b, a, n, d)
  <2>1. \A a \in Int, b \in Int : n * a + m * b = m * b + n * a
    OBVIOUS
  <2> QED BY <1>3, <2>1 DEF PartWay
<1>5. PartWay(x1, x2, m, d) = d * px /\ PartWay(y1, y2, m, d) = d * py
  BY <1>2, <1>4
<1> QED BY <1>5 DEF GoesThrough

\* A segment along an axis goes through what is between its ends.
LEMMA UprightThrough ==
  ASSUME NEW x \in Int, NEW y1 \in Int, NEW y2 \in Int, NEW py \in Int,
         (y1 >= py /\ py >= y2) \/ (y2 >= py /\ py >= y1)
  PROVE  GoesThrough(x, y1, x, y2, x, py)
<1>1. ASSUME NEW a \in Int, NEW b \in Int, a > b, a >= py, py >= b
      PROVE  GoesThrough(x, a, x, b, x, py)
  <2>1. PICK d \in Nat \ {0} : \E n \in 0 .. d : PartWay(a, b, n, d) = d * py
    <3>1. a - b \in Nat \ {0} /\ a - py \in 0 .. a - b /\ PartWay(a, b, a - py, a - b) = (a - b) * py
      BY <1>1, WayTo
    <3> QED BY <3>1
  <2>2. PICK n \in 0 .. d : PartWay(a, b, n, d) = d * py
    BY <2>1
  <2>3. PartWay(x, x, n, d) = d * x
    BY DEF PartWay
  <2> QED BY <2>2, <2>3 DEF GoesThrough
<1>2. CASE y1 > y2
  BY <1>1, <1>2
<1>3. CASE y2 > y1
  <2>1. GoesThrough(x, y2, x, y1, x, py)
    BY <1>1, <1>3
  <2> QED BY <2>1, ThroughReversed
<1>4. CASE y1 = y2
  <2>1. py = y1
    BY <1>4
  <2> QED BY <2>1, EndsThrough
<1> QED BY <1>2, <1>3, <1>4

\* A segment beyond a side of the box has its points in the box on that side.
LEMMA PointsOnSide ==
  ASSUME NEW x1 \in Int, NEW y1 \in Int, NEW x2 \in Int, NEW y2 \in Int,
         NEW hx \in Nat, NEW hy \in Nat, x1 >= hx, x2 >= hx, HasPointIn(x1, y1, x2, y2, hx, hy)
  PROVE  \/ x1 = hx /\ x2 = hx
         \/ x1 = hx /\ x2 > hx /\ -hy <= y1 /\ y1 <= hy
         \/ x2 = hx /\ x1 > hx /\ -hy <= y2 /\ y2 <= hy
<1>1. PICK d \in Nat \ {0} : \E n \in 0 .. d : MeetsAt(x1, y1, x2, y2, hx, hy, n, d)
  BY DEF HasPointIn
<1>2. PICK n \in 0 .. d : MeetsAt(x1, y1, x2, y2, hx, hy, n, d)
  BY <1>1
<1>3. PICK w \in Int : w = d * hx
  OBVIOUS
<1>4. PICK X \in Int : X = PartWay(x1, x2, n, d)
  BY PartWays
<1>5. X >= w /\ (X = w => (n = d \/ x1 = hx) /\ (n = 0 \/ x2 = hx))
  BY <1>3, <1>4, WayAbove
<1>6. X <= w
  BY <1>2, <1>3, <1>4 DEF MeetsAt
<1>7. (n = d \/ x1 = hx) /\ (n = 0 \/ x2 = hx)
  BY <1>5, <1>6
<1>8. \A y \in Int : -(d * hy) <= d * y /\ d * y <= d * hy => -hy <= y /\ y <= hy
  <2>1. d * (-hy) = -(d * hy) /\ -hy \in Int
    OBVIOUS
  <2> QED BY <2>1, Factors
<1>9. CASE n = 0
  <2>1. PartWay(y1, y2, n, d) = d * y1
    BY <1>9, WayEnds
  <2>2. -hy <= y1 /\ y1 <= hy
    BY <1>2, <1>8, <2>1 DEF MeetsAt
  <2>3. x1 = hx
    BY <1>7, <1>9
  <2> QED BY <2>2, <2>3
<1>10. CASE n # 0 /\ n = d
  <2>1. PartWay(y1, y2, n, d) = d * y2
    BY <1>10, WayEnds
  <2>2. -hy <= y2 /\ y2 <= hy
    BY <1>2, <1>8, <2>1 DEF MeetsAt
  <2>3. x2 = hx
    BY <1>7, <1>10
  <2> QED BY <2>2, <2>3
<1>11. CASE n # 0 /\ n # d
  BY <1>7, <1>11
<1> QED BY <1>9, <1>10, <1>11

\* A segment from the upper right of a box into it, or across it, goes down its right
\* side or down its top.
LEMMA CrossesTheSide ==
  ASSUME NEW x1 \in Int, NEW y1 \in Int, NEW x2 \in Int, NEW y2 \in Int,
         NEW hx \in Nat, NEW hy \in Nat, x1 >= hx, hx >= x2, x1 > x2,
         SideOf(x1, y1, x2, y2, hx, -hy) >= 0, SideOf(x1, y1, x2, y2, hx, hy) <= 0
  PROVE  HasPointIn(x1, y1, x2, y2, hx, hy)
<1>1. PICK d \in Nat \ {0}, n \in Int : d = x1 - x2 /\ n = x1 - hx
  OBVIOUS
<1>2. n \in 0 .. d /\ PartWay(x1, x2, n, d) = d * hx
  BY <1>1, WayTo
<1>3. PICK low \in Int, top \in Int :
        low = SideOf(x1, y1, x2, y2, hx, -hy) /\ top = SideOf(x1, y1, x2, y2, hx, hy)
  <2>1. SideOf(x1, y1, x2, y2, hx, -hy) \in Int /\ SideOf(x1, y1, x2, y2, hx, hy) \in Int
    BY DEF SideOf
  <2> QED BY <2>1
<1>4. PICK v \in Int, w \in Nat : v = d * hx /\ w = d * hy /\ d * (-hy) = -w /\ v >= 0
  <2>1. \A j \in Nat, k \in Nat : j * k \in Nat
    OBVIOUS
  <2>2. d * (-hy) = -(d * hy)
    OBVIOUS
  <2> QED BY <2>1, <2>2
<1>5. PartWay(y1, y2, n, d) = d * hy + top
  <2>1. ComesTo(x1, y1, x2, y2, hx, hy, n, d)
    <3>1. hx \in Int /\ hy \in Int /\ n \in Int /\ d \in Int /\ n = x1 - hx /\ d = x1 - x2
      BY <1>1
    <3> QED BY ONLY <3>1, x1 \in Int, y1 \in Int, x2 \in Int, y2 \in Int, WayBeside
  <2> QED BY <1>3, <2>1 DEF ComesTo
<1>6. PartWay(y1, y2, n, d) = d * (-hy) + low
  <2>1. -hy \in Int /\ hx \in Int
    OBVIOUS
  <2>2. ComesTo(x1, y1, x2, y2, hx, -hy, n, d)
    <3>1. hx \in Int /\ -hy \in Int /\ n \in Int /\ d \in Int /\ n = x1 - hx /\ d = x1 - x2
      BY <1>1
    <3> QED BY ONLY <3>1, x1 \in Int, y1 \in Int, x2 \in Int, y2 \in Int, WayBeside
  <2> QED BY <1>3, <2>2 DEF ComesTo
<1>7. low >= 0 /\ top <= 0
  BY <1>3
<1>8. MeetsAt(x1, y1, x2, y2, hx, hy, n, d)
  BY <1>2, <1>4, <1>5, <1>6, <1>7 DEF MeetsAt
<1> QED BY <1>2, <1>8 DEF HasPointIn

\* Or it is beside the upper corner, and goes down its top.
LEMMA CrossesTheTop ==
  ASSUME NEW x1 \in Int, NEW y1 \in Int, NEW x2 \in Int, NEW y2 \in Int,
         NEW hx \in Nat, NEW hy \in Nat, y1 >= hy, hy >= y2, y1 > y2,
         SideOf(x1, y1, x2, y2, hx, hy) >= 0, SideOf(x1, y1, x2, y2, -hx, hy) <= 0
  PROVE  HasPointIn(x1, y1, x2, y2, hx, hy)
<1>1. \A c \in Int : SideOf(x1, y1, x2, y2, c, hy) \in Int
  BY DEF SideOf
<1>2. hx \in Int /\ -hx \in Int /\ hy \in Int
  OBVIOUS
<1>3. SideOf(y1, x1, y2, x2, hy, -hx) >= 0
  <2>1. SideOf(y1, x1, y2, x2, hy, -hx) = -SideOf(x1, y1, x2, y2, -hx, hy)
    BY <1>2, SidesExchanged
  <2> QED BY <1>1, <1>2, <2>1
<1>4. SideOf(y1, x1, y2, x2, hy, hx) <= 0
  <2>1. SideOf(y1, x1, y2, x2, hy, hx) = -SideOf(x1, y1, x2, y2, hx, hy)
    BY <1>2, SidesExchanged
  <2> QED BY <1>1, <1>2, <2>1
<1>5. HasPointIn(y1, x1, y2, x2, hy, hx)
  BY <1>3, <1>4, CrossesTheSide
<1> QED BY <1>5, AxesExchanged

\* From the upper right of a box to its upper right.
LEMMA UpperRightToUpperRight ==
  ASSUME NEW x1 \in Int, NEW y1 \in Int, NEW x2 \in Int, NEW y2 \in Int,
         NEW hx \in Nat \ {0}, NEW hy \in Nat \ {0}, x1 >= hx, y1 >= hy, x2 >= hx, y2 >= hy
  PROVE  HasPointIn(x1, y1, x2, y2, hx, hy) <=> GoesThrough(x1, y1, x2, y2, hx, hy)
<1>1. ASSUME HasPointIn(x1, y1, x2, y2, hx, hy)
      PROVE  GoesThrough(x1, y1, x2, y2, hx, hy)
  <2>1. PICK d \in Nat \ {0} : \E n \in 0 .. d : MeetsAt(x1, y1, x2, y2, hx, hy, n, d)
    BY <1>1 DEF HasPointIn
  <2>2. PICK n \in 0 .. d : MeetsAt(x1, y1, x2, y2, hx, hy, n, d)
    BY <2>1
  <2>3. PartWay(x1, x2, n, d) >= d * hx /\ PartWay(y1, y2, n, d) >= d * hy
    BY WayAbove
  <2>4. PICK X \in Int, Y \in Int : X = PartWay(x1, x2, n, d) /\ Y = PartWay(y1, y2, n, d)
    BY PartWays
  <2>5. PICK v \in Int, w \in Int : v = d * hx /\ w = d * hy
    OBVIOUS
  <2>6. X = v /\ Y = w
    BY <2>2, <2>3, <2>4, <2>5 DEF MeetsAt
  <2> QED BY <2>4, <2>5, <2>6 DEF GoesThrough
<1>2. ASSUME GoesThrough(x1, y1, x2, y2, hx, hy)
      PROVE  HasPointIn(x1, y1, x2, y2, hx, hy)
  BY <1>2, CornersAreIn
<1> QED BY <1>1, <1>2

\* From the upper right of a box to its right.
LEMMA UpperRightToRight ==
  ASSUME NEW x1 \in Int, NEW y1 \in Int, NEW x2 \in Int, NEW y2 \in Int,
         NEW hx \in Nat \ {0}, NEW hy \in Nat \ {0}, x1 >= hx, y1 >= hy, x2 >= hx, -hy < y2, y2 < hy
  PROVE  HasPointIn(x1, y1, x2, y2, hx, hy) <=> IF x1 > x2 THEN x2 = hx ELSE GoesThrough(x1, y1, x2, y2, hx, hy)
<1>1. ASSUME HasPointIn(x1, y1, x2, y2, hx, hy)
      PROVE  \/ x1 = hx /\ x2 = hx
             \/ x1 = hx /\ x2 > hx /\ -hy <= y1 /\ y1 <= hy
             \/ x2 = hx /\ x1 > hx
  BY <1>1, PointsOnSide
<1>2. ASSUME x2 = hx PROVE HasPointIn(x1, y1, x2, y2, hx, hy)
  <2>1. -hx <= x2 /\ x2 <= hx
    BY <1>2
  <2> QED BY <2>1, EndsAreIn
<1>3. ASSUME GoesThrough(x1, y1, x2, y2, hx, hy)
      PROVE  HasPointIn(x1, y1, x2, y2, hx, hy)
  BY <1>3, CornersAreIn
<1>4. ASSUME x1 = hx, x2 = hx \/ y1 = hy PROVE GoesThrough(x1, y1, x2, y2, hx, hy)
  <2>1. CASE x2 = hx
    BY <1>4, <2>1, UprightThrough
  <2>2. CASE y1 = hy
    BY <1>4, <2>2, EndsThrough
  <2> QED BY <1>4, <2>1, <2>2
<1>5. CASE x1 > x2
  BY <1>1, <1>2, <1>5
<1>6. CASE ~(x1 > x2)
  <2>1. ASSUME HasPointIn(x1, y1, x2, y2, hx, hy)
        PROVE  x1 = hx /\ (x2 = hx \/ y1 = hy)
    BY <1>1, <1>6, <2>1
  <2> QED BY <1>3, <1>4, <1>6, <2>1
<1> QED BY <1>5, <1>6

\* From the upper right of a box to its lower right.
LEMMA UpperRightToLowerRight ==
  ASSUME NEW x1 \in Int, NEW y1 \in Int, NEW x2 \in Int, NEW y2 \in Int,
         NEW hx \in Nat \ {0}, NEW hy \in Nat \ {0}, x1 >= hx, y1 >= hy, x2 >= hx, y2 <= -hy
  PROVE  HasPointIn(x1, y1, x2, y2, hx, hy) <=>
           IF x1 > x2 THEN GoesThrough(x1, y1, x2, y2, hx, -hy) ELSE GoesThrough(x1, y1, x2, y2, hx, hy)
<1>1. ASSUME HasPointIn(x1, y1, x2, y2, hx, hy)
      PROVE  \/ x1 = hx /\ x2 = hx
             \/ x1 = hx /\ x2 > hx /\ y1 = hy
             \/ x2 = hx /\ x1 > hx /\ y2 = -hy
  BY <1>1, PointsOnSide
<1>2. ASSUME GoesThrough(x1, y1, x2, y2, hx, hy) \/ GoesThrough(x1, y1, x2, y2, hx, -hy)
      PROVE  HasPointIn(x1, y1, x2, y2, hx, hy)
  BY <1>2, CornersAreIn
<1>3. ASSUME x1 = hx, x2 = hx \/ y1 = hy PROVE GoesThrough(x1, y1, x2, y2, hx, hy)
  <2>1. CASE x2 = hx
    BY <1>3, <2>1, UprightThrough
  <2>2. CASE y1 = hy
    BY <1>3, <2>2, EndsThrough
  <2> QED BY <1>3, <2>1, <2>2
<1>4. ASSUME x2 = hx, y2 = -hy PROVE GoesThrough(x1, y1, x2, y2, hx, -hy)
  BY <1>4, EndsThrough
<1>5. CASE x1 > x2
  <2>1. ASSUME HasPointIn(x1, y1, x2, y2, hx, hy) PROVE x2 = hx /\ y2 = -hy
    BY <1>1, <1>5, <2>1
  <2> QED BY <1>2, <1>4, <1>5, <2>1
<1>6. CASE ~(x1 > x2)
  <2>1. ASSUME HasPointIn(x1, y1, x2, y2, hx, hy)
        PROVE  x1 = hx /\ (x2 = hx \/ y1 = hy)
    BY <1>1, <1>6, <2>1
  <2> QED BY <1>2, <1>3, <1>6, <2>1
<1> QED BY <1>5, <1>6

\* From the right of a box to its upper right.
LEMMA RightToUpperRight ==
  ASSUME NEW x1 \in Int, NEW y1 \in Int, NEW x2 \in Int, NEW y2 \in Int,
         NEW hx \in Nat \ {0}, NEW hy \in Nat \ {0}, x1 >= hx, -hy < y1, y1 < hy, x2 >= hx, y2 >= hy
  PROVE  HasPointIn(x1, y1, x2, y2, hx, hy) <=> IF x1 < x2 THEN x1 = hx ELSE GoesThrough(x1, y1, x2, y2, hx, hy)
<1>1. ASSUME HasPointIn(x1, y1, x2, y2, hx, hy)
      PROVE  \/ x1 = hx /\ x2 = hx
             \/ x1 = hx /\ x2 > hx
             \/ x2 = hx /\ x1 > hx /\ y2 = hy
  BY <1>1, PointsOnSide
<1>2. ASSUME x1 = hx PROVE HasPointIn(x1, y1, x2, y2, hx, hy)
  <2>1. -hx <= x1 /\ x1 <= hx
    BY <1>2
  <2> QED BY <2>1, EndsAreIn
<1>3. ASSUME GoesThrough(x1, y1, x2, y2, hx, hy)
      PROVE  HasPointIn(x1, y1, x2, y2, hx, hy)
  BY <1>3, CornersAreIn
<1>4. ASSUME x2 = hx, x1 = hx \/ y2 = hy PROVE GoesThrough(x1, y1, x2, y2, hx, hy)
  <2>1. CASE x1 = hx
    BY <1>4, <2>1, UprightThrough
  <2>2. CASE y2 = hy
    BY <1>4, <2>2, EndsThrough
  <2> QED BY <1>4, <2>1, <2>2
<1>5. CASE x1 < x2
  BY <1>1, <1>2, <1>5
<1>6. CASE ~(x1 < x2)
  <2>1. ASSUME HasPointIn(x1, y1, x2, y2, hx, hy)
        PROVE  x2 = hx /\ (x1 = hx \/ y2 = hy)
    BY <1>1, <1>6, <2>1
  <2> QED BY <1>3, <1>4, <1>6, <2>1
<1> QED BY <1>5, <1>6

\* From the right of a box to its right.
LEMMA RightToRight ==
  ASSUME NEW x1 \in Int, NEW y1 \in Int, NEW x2 \in Int, NEW y2 \in Int,
         NEW hx \in Nat \ {0}, NEW hy \in Nat \ {0}, 
         x1 >= hx, -hy < y1, y1 < hy, x2 >= hx, -hy < y2, y2 < hy
  PROVE  HasPointIn(x1, y1, x2, y2, hx, hy) <=> (IF x1 < x2 THEN x1 ELSE x2) = hx
<1>1. ASSUME HasPointIn(x1, y1, x2, y2, hx, hy) PROVE x1 = hx \/ x2 = hx
  BY <1>1, PointsOnSide
<1>2. ASSUME x1 = hx \/ x2 = hx PROVE HasPointIn(x1, y1, x2, y2, hx, hy)
  <2>1. x1 = hx => -hx <= x1 /\ x1 <= hx
    OBVIOUS
  <2>2. x2 = hx => -hx <= x2 /\ x2 <= hx
    OBVIOUS
  <2> QED BY <1>2, <2>1, <2>2, EndsAreIn
<1> QED BY <1>1, <1>2

\* A segment whose begin is past a vertical line goes through the points of the line that
\* are on no side of it; and on no side is what it goes through.
LEMMA SidesThrough ==
  ASSUME NEW x1 \in Int, NEW y1 \in Int, NEW x2 \in Int, NEW y2 \in Int,
         NEW px \in Int, NEW py \in Int, x1 >= px, px >= x2, x1 > x2
  PROVE  GoesThrough(x1, y1, x2, y2, px, py) <=> SideOf(x1, y1, x2, y2, px, py) = 0
<1>1. PICK d \in Nat \ {0}, n \in Int : d = x1 - x2 /\ n = x1 - px
  OBVIOUS
<1>2. n \in 0 .. d /\ PartWay(x1, x2, n, d) = d * px
  BY <1>1, WayTo
<1>3. PICK side \in Int : side = SideOf(x1, y1, x2, y2, px, py)
  BY DEF SideOf
<1>4. PartWay(y1, y2, n, d) = d * py + side
  <2>1. ComesTo(x1, y1, x2, y2, px, py, n, d)
    BY <1>1, WayBeside
  <2> QED BY <1>3, <2>1 DEF ComesTo
<1>5. ASSUME side = 0 PROVE GoesThrough(x1, y1, x2, y2, px, py)
  BY <1>2, <1>4, <1>5 DEF GoesThrough
<1>6. ASSUME GoesThrough(x1, y1, x2, y2, px, py) PROVE side = 0
  <2>1. PICK m \in Nat \ {0} : \E k \in 0 .. m :
          PartWay(x1, x2, k, m) = m * px /\ PartWay(y1, y2, k, m) = m * py
    BY <1>6 DEF GoesThrough
  <2>2. PICK k \in 0 .. m : PartWay(x1, x2, k, m) = m * px /\ PartWay(y1, y2, k, m) = m * py
    BY <2>1
  <2>3. LiesBeside(x1, y1, x2, y2, px, py, k, m)
    BY PartBeside
  <2>4. m * side = (x2 - x1) * 0 - (y2 - y1) * 0
    <3>1. \A a \in Int : a - a = 0
      OBVIOUS
    <3>2. m * px \in Int /\ m * py \in Int
      OBVIOUS
    <3>3. m * px - PartWay(x1, x2, k, m) = 0 /\ m * py - PartWay(y1, y2, k, m) = 0
      BY <2>2, <3>1, <3>2
    <3> QED BY <1>3, <2>3, <3>3 DEF LiesBeside
  <2>5. m * side = 0
    BY <2>4
  <2> QED BY <2>5
<1> QED BY <1>3, <1>5, <1>6

\* A point between whose height the ends are, and which neither is to the left of, is on
\* the left side of a segment that goes down.
LEMMA LeftOfIt ==
  ASSUME NEW x1 \in Int, NEW y1 \in Int, NEW x2 \in Int, NEW y2 \in Int,
         NEW cx \in Int, NEW cy \in Int, x1 >= cx, x2 >= cx, y1 >= cy, cy >= y2
  PROVE  SideOf(x1, y1, x2, y2, cx, cy) <= 0
<1>1. PICK a \in Nat, b \in Nat, u \in Nat, v \in Nat :
        x1 = cx + a /\ x2 = cx + b /\ y1 = cy + u /\ y2 = cy - v
  <2>1. /\ x1 - cx \in Nat /\ x1 = cx + (x1 - cx) /\ x2 - cx \in Nat /\ x2 = cx + (x2 - cx)
        /\ y1 - cy \in Nat /\ y1 = cy + (y1 - cy) /\ cy - y2 \in Nat /\ y2 = cy - (cy - y2)
    OBVIOUS
  <2> QED BY <2>1
<1>2. x2 - x1 = b - a /\ cy - y1 = -u /\ y2 - y1 = -(u + v) /\ cx - x1 = -a
  BY <1>1
<1>3. (b - a) * (-u) - (-(u + v)) * (-a) = -(b * u + v * a)
  OBVIOUS
<1>4. \A j \in Nat, k \in Nat : j * k \in Nat
  OBVIOUS
<1>5. PICK s \in Nat, t \in Nat : s = b * u /\ t = v * a
  BY <1>4
<1>6. SideOf(x1, y1, x2, y2, cx, cy) = -(s + t)
  BY <1>2, <1>3, <1>5 DEF SideOf
<1> QED BY <1>6

\* From the upper right of a box to below it.
LEMMA UpperRightToBelow ==
  ASSUME NEW x1 \in Int, NEW y1 \in Int, NEW x2 \in Int, NEW y2 \in Int,
         NEW hx \in Nat \ {0}, NEW hy \in Nat \ {0}, 
         x1 >= hx, y1 >= hy, -hx < x2, x2 < hx, y2 <= -hy
  PROVE  HasPointIn(x1, y1, x2, y2, hx, hy) <=>
           (SideOf(x1, y1, x2, y2, hx, -hy) >= 0 \/ GoesThrough(x1, y1, x2, y2, hx, -hy))
<1>1. \A c \in Int : SideOf(x1, y1, x2, y2, hx, c) \in Int /\ SideOf(x1, y1, x2, y2, c, hy) \in Int
  BY DEF SideOf
<1>2. hx \in Int /\ -hx \in Int /\ hy \in Int /\ -hy \in Int
  OBVIOUS
<1>3. ASSUME HasPointIn(x1, y1, x2, y2, hx, hy) PROVE SideOf(x1, y1, x2, y2, hx, -hy) >= 0
  <2>1. x2 <= x1 /\ y2 <= y1
    OBVIOUS
  <2> QED BY <1>3, <2>1, InsideCorners
<1>4. ASSUME GoesThrough(x1, y1, x2, y2, hx, -hy) PROVE HasPointIn(x1, y1, x2, y2, hx, hy)
  BY <1>4, CornersAreIn
<1>5. ASSUME SideOf(x1, y1, x2, y2, hx, -hy) >= 0 PROVE HasPointIn(x1, y1, x2, y2, hx, hy)
  <2>1. CASE SideOf(x1, y1, x2, y2, hx, hy) <= 0
    <3>1. hx >= x2 /\ x1 > x2
      OBVIOUS
    <3> QED BY <1>5, <2>1, <3>1, CrossesTheSide
  <2>2. CASE ~(SideOf(x1, y1, x2, y2, hx, hy) <= 0)
    <3>1. SideOf(x1, y1, x2, y2, -hx, hy) <= 0
      <4>1. x1 >= -hx /\ x2 >= -hx /\ hy >= y2
        OBVIOUS
      <4> QED BY <1>2, <4>1, LeftOfIt
    <3>2. hy >= y2 /\ y1 > y2
      OBVIOUS
    <3>3. SideOf(x1, y1, x2, y2, hx, hy) >= 0
      BY <1>1, <1>2, <2>2
    <3> QED BY <3>1, <3>2, <3>3, CrossesTheTop
  <2> QED BY <2>1, <2>2
<1> QED BY <1>3, <1>4, <1>5

\* From the upper right of a box to its lower left.
LEMMA UpperRightToLowerLeft ==
  ASSUME NEW x1 \in Int, NEW y1 \in Int, NEW x2 \in Int, NEW y2 \in Int,
         NEW hx \in Nat \ {0}, NEW hy \in Nat \ {0}, 
         x1 >= hx, y1 >= hy, x2 <= -hx, y2 <= -hy
  PROVE  HasPointIn(x1, y1, x2, y2, hx, hy) <=>
           IF SideOf(x1, y1, x2, y2, hx, -hy) <= 0 THEN GoesThrough(x1, y1, x2, y2, hx, -hy)
           ELSE SideOf(x1, y1, x2, y2, -hx, hy) <= 0 \/ GoesThrough(x1, y1, x2, y2, -hx, hy)
<1>1. \A c \in Int : SideOf(x1, y1, x2, y2, hx, c) \in Int /\ SideOf(x1, y1, x2, y2, c, hy) \in Int
  BY DEF SideOf
<1>2. hx \in Int /\ -hx \in Int /\ hy \in Int /\ -hy \in Int
  OBVIOUS
<1>3. ASSUME HasPointIn(x1, y1, x2, y2, hx, hy)
      PROVE  SideOf(x1, y1, x2, y2, hx, -hy) >= 0 /\ SideOf(x1, y1, x2, y2, -hx, hy) <= 0
  <2>1. x2 <= x1 /\ y2 <= y1
    OBVIOUS
  <2> QED BY <1>3, <2>1, InsideCorners
<1>4. ASSUME GoesThrough(x1, y1, x2, y2, hx, -hy) \/ GoesThrough(x1, y1, x2, y2, -hx, hy) PROVE HasPointIn(x1, y1, x2, y2, hx, hy)
  BY <1>4, CornersAreIn
<1>5. ASSUME SideOf(x1, y1, x2, y2, hx, -hy) = 0 PROVE GoesThrough(x1, y1, x2, y2, hx, -hy)
  <2>1. x1 >= hx /\ hx >= x2 /\ x1 > x2
    OBVIOUS
  <2> QED BY <1>2, <1>5, <2>1, SidesThrough
<1>6. ASSUME SideOf(x1, y1, x2, y2, hx, -hy) >= 0, SideOf(x1, y1, x2, y2, -hx, hy) <= 0
      PROVE  HasPointIn(x1, y1, x2, y2, hx, hy)
  <2>1. CASE SideOf(x1, y1, x2, y2, hx, hy) <= 0
    <3>1. hx >= x2 /\ x1 > x2
      OBVIOUS
    <3> QED BY <1>6, <2>1, <3>1, CrossesTheSide
  <2>2. CASE ~(SideOf(x1, y1, x2, y2, hx, hy) <= 0)
    <3>1. hy >= y2 /\ y1 > y2
      OBVIOUS
    <3>2. SideOf(x1, y1, x2, y2, hx, hy) >= 0
      BY <1>1, <1>2, <2>2
    <3> QED BY <1>6, <3>1, <3>2, CrossesTheTop
  <2> QED BY <2>1, <2>2
<1>7. CASE SideOf(x1, y1, x2, y2, hx, -hy) <= 0
  <2>1. ASSUME HasPointIn(x1, y1, x2, y2, hx, hy) PROVE GoesThrough(x1, y1, x2, y2, hx, -hy)
    BY <1>1, <1>2, <1>3, <1>5, <1>7, <2>1
  <2> QED BY <1>4, <1>7, <2>1
<1>8. CASE ~(SideOf(x1, y1, x2, y2, hx, -hy) <= 0)
  <2>1. SideOf(x1, y1, x2, y2, hx, -hy) >= 0
    BY <1>1, <1>2, <1>8
  <2> QED BY <1>3, <1>4, <1>6, <1>8, <2>1
<1> QED BY <1>7, <1>8

\* From the right of a box to the upper left of its right side.
LEMMA RightToUpper ==
  ASSUME NEW x1 \in Int, NEW y1 \in Int, NEW x2 \in Int, NEW y2 \in Int,
         NEW hx \in Nat \ {0}, NEW hy \in Nat \ {0}, 
         x1 >= hx, -hy < y1, y1 < hy, x2 < hx, y2 >= hy
  PROVE  HasPointIn(x1, y1, x2, y2, hx, hy) <=>
           (SideOf(x1, y1, x2, y2, hx, hy) <= 0 \/ GoesThrough(x1, y1, x2, y2, hx, hy))
<1>1. \A c \in Int : SideOf(x1, y1, x2, y2, hx, c) \in Int
  BY DEF SideOf
<1>2. hx \in Int /\ hy \in Int /\ -hy \in Int
  OBVIOUS
<1>3. ASSUME HasPointIn(x1, y1, x2, y2, hx, hy) PROVE SideOf(x1, y1, x2, y2, hx, hy) <= 0
  <2>1. x2 <= x1 /\ y2 >= y1
    OBVIOUS
  <2> QED BY <1>3, <2>1, InsideCorners
<1>4. ASSUME GoesThrough(x1, y1, x2, y2, hx, hy) PROVE HasPointIn(x1, y1, x2, y2, hx, hy)
  BY <1>4, CornersAreIn
<1>5. SideOf(x1, y1, x2, y2, hx, -hy) >= 0
  <2>1. y1 >= -hy /\ y2 >= -hy /\ x1 >= hx /\ hx >= x2
    OBVIOUS
  <2>2. SideOf(y1, x1, y2, x2, -hy, hx) <= 0
    BY <1>2, <2>1, LeftOfIt
  <2>3. SideOf(y1, x1, y2, x2, -hy, hx) = -SideOf(x1, y1, x2, y2, hx, -hy)
    BY <1>2, SidesExchanged
  <2> QED BY <1>1, <1>2, <2>2, <2>3
<1>6. ASSUME SideOf(x1, y1, x2, y2, hx, hy) <= 0 PROVE HasPointIn(x1, y1, x2, y2, hx, hy)
  <2>1. hx >= x2 /\ x1 > x2
    OBVIOUS
  <2> QED BY <1>5, <1>6, <2>1, CrossesTheSide
<1> QED BY <1>3, <1>4, <1>6

\* From the right of a box to its left.
LEMMA RightToLeft ==
  ASSUME NEW x1 \in Int, NEW y1 \in Int, NEW x2 \in Int, NEW y2 \in Int,
         NEW hx \in Nat \ {0}, NEW hy \in Nat \ {0}, 
         x1 >= hx, -hy < y1, y1 < hy, x2 <= -hx, -hy < y2, y2 < hy
  PROVE  HasPointIn(x1, y1, x2, y2, hx, hy)
<1>1. hx \in Int /\ hy \in Int /\ -hy \in Int
  OBVIOUS
<1>2. PICK d \in Nat \ {0}, n \in Int : d = x1 - x2 /\ n = x1 - hx
  <2>1. x1 - x2 \in Nat \ {0} /\ x1 - hx \in Int
    OBVIOUS
  <2> QED BY <2>1
<1>3. n \in 0 .. d /\ PartWay(x1, x2, n, d) = d * hx
  <2>1. x1 > x2 /\ hx >= x2
    OBVIOUS
  <2> QED BY <1>2, <2>1, WayTo
<1>4. PartWay(y1, y2, n, d) >= d * (-hy) /\ PartWay(y1, y2, n, d) <= d * hy
  <2>1. y1 >= -hy /\ y2 >= -hy /\ y1 <= hy /\ y2 <= hy
    OBVIOUS
  <2> QED BY <1>1, <1>3, <2>1, WayAbove, WayBelow
<1>5. PICK v \in Nat, w \in Nat : v = d * hx /\ w = d * hy /\ d * (-hy) = -w
  <2>1. \A j \in Nat, k \in Nat : j * k \in Nat
    OBVIOUS
  <2>2. d * (-hy) = -(d * hy)
    OBVIOUS
  <2> QED BY <2>1, <2>2
<1>6. MeetsAt(x1, y1, x2, y2, hx, hy, n, d)
  BY <1>3, <1>4, <1>5 DEF MeetsAt
<1> QED BY <1>3, <1>6 DEF HasPointIn

\* The sides of a box that a number is beside.
LEMMA BesideIs ==
  ASSUME NEW x \in Int, NEW half \in Nat \ {0}
  PROVE  /\ Beside(x, half) \in {-1, 0, 1}
         /\ Beside(x, half) = 1 <=> x >= half
         /\ Beside(x, half) = 0 <=> -half < x /\ x < half
         /\ Beside(x, half) = -1 <=> x <= -half
BY DEF Beside

\* The table of cases answers 0 if and only if the segment has a point in the box.
LEMMA BesideVanishes ==
  ASSUME NEW p1 \in Points, NEW p2 \in Points, NEW corner \in Points, p1 # p2,
         corner.x > 0, corner.y > 0,
         NEW gy1 \in {0, 1}, gy1 = Beside(p1.y, corner.y), Beside(p1.x, corner.x) = 1,
         NEW gx2 \in {-1, 0, 1}, gx2 = Beside(p2.x, corner.x),
         NEW gy2 \in {-1, 0, 1}, gy2 = Beside(p2.y, corner.y),
         ~(gx2 = 0 /\ gy2 = 0), IF gy1 = 1 THEN gx2 >= gy2 ELSE gy2 >= 0
  PROVE  BesideDistance(p1, p2, corner).num = 0 <=>
           HasPointIn(p1.x, p1.y, p2.x, p2.y, corner.x, corner.y)
<1>1. PICK x1 \in Int, y1 \in Int, x2 \in Int, y2 \in Int, hx \in Nat \ {0}, hy \in Nat \ {0} :
        /\ x1 = p1.x /\ y1 = p1.y /\ x2 = p2.x /\ y2 = p2.y /\ hx = corner.x /\ hy = corner.y
  BY DEF Points
<1> DEFINE In == HasPointIn(x1, y1, x2, y2, hx, hy)
           Through(cx, cy) == GoesThrough(x1, y1, x2, y2, cx, cy)
           Side(cx, cy) == SideOf(x1, y1, x2, y2, cx, cy)
           From(c) == SegmentDistance(c, Segment(p1, p2))
           D == BesideDistance(p1, p2, corner)
           LowCorner == Vec(corner.x, -corner.y)
           FarCorner == Vec(-corner.x, corner.y)
<1>2. /\ corner \in Points /\ corner.x = hx /\ corner.y = hy
      /\ LowCorner \in Points /\ LowCorner.x = hx /\ LowCorner.y = -hy
      /\ FarCorner \in Points /\ FarCorner.x = -hx /\ FarCorner.y = hy
  BY <1>1 DEF Points, Vec
<1>3. \A c \in Points : From(c).num = 0 <=> Through(c.x, c.y)
  <2>1. Segment(p1, p2) \in Segments /\ Segment(p1, p2).start = p1 /\ Segment(p1, p2).end = p2
    BY DEF Segment, Segments
  <2> QED BY <1>1, <2>1, DistanceVanishes
<1>4. \A c \in Points : CrossProd(Along(Segment(p1, p2)), Minus(c, p1)) = Side(c.x, c.y)
  BY <1>1 DEF Along, Segment, Minus, Vec, CrossProd, SideOf, Points
<1>5. \A d \in Int : Fraction(d * d, 1).num = 0 <=> d = 0
  BY SquaresVanish DEF Fraction
<1>6. Zero.num = 0
  BY DEF Zero, Fraction
<1>7. D = LET zone == gx2 * 3 + gy2
              straight(d) == Fraction(d * d, 1)
          IN IF gy1 = 1
             THEN CASE zone = 4  -> From(corner)
                    [] zone = 3  -> IF x1 > x2 THEN straight(x2 - hx) ELSE From(corner)
                    [] zone = 2  -> IF x1 > x2 THEN From(LowCorner) ELSE From(corner)
                    [] zone = -1 -> IF Side(hx, -hy) >= 0 THEN Zero ELSE From(LowCorner)
                    [] zone = -4 -> IF Side(hx, -hy) <= 0 THEN From(LowCorner)
                                    ELSE IF Side(-hx, hy) <= 0 THEN Zero ELSE From(FarCorner)
             ELSE CASE zone = 4 -> IF x1 < x2 THEN straight(x1 - hx) ELSE From(corner)
                    [] zone = 3 -> straight((IF x1 < x2 THEN x1 ELSE x2) - hx)
                    [] zone \in {1, -2} -> IF Side(hx, hy) <= 0 THEN Zero ELSE From(corner)
                    [] zone = -3 -> Zero
  <2>1. /\ CrossProd(Along(Segment(p1, p2)), Minus(corner, p1)) = Side(hx, hy)
        /\ CrossProd(Along(Segment(p1, p2)), Minus(LowCorner, p1)) = Side(hx, -hy)
        /\ CrossProd(Along(Segment(p1, p2)), Minus(FarCorner, p1)) = Side(-hx, hy)
    BY <1>2, <1>4
  <2> QED BY <1>1, <2>1 DEF BesideDistance
<1>8. /\ From(corner).num = 0 <=> Through(hx, hy)
      /\ From(LowCorner).num = 0 <=> Through(hx, -hy)
      /\ From(FarCorner).num = 0 <=> Through(-hx, hy)
  BY <1>2, <1>3
<1>9. /\ x1 >= hx
      /\ gy1 = 1 <=> y1 >= hy
      /\ gy1 = 0 <=> -hy < y1 /\ y1 < hy
      /\ gx2 = 1 <=> x2 >= hx
      /\ gx2 = 0 <=> -hx < x2 /\ x2 < hx
      /\ gx2 = -1 <=> x2 <= -hx
      /\ gy2 = 1 <=> y2 >= hy
      /\ gy2 = 0 <=> -hy < y2 /\ y2 < hy
      /\ gy2 = -1 <=> y2 <= -hy
  BY <1>1, BesideIs
<1> SUFFICES D.num = 0 <=> In
  BY <1>1
<1> HIDE DEF D, From
<1>10. CASE gy1 = 1 /\ gx2 = 1 /\ gy2 = 1
  <2>1. D = From(corner)
    BY <1>7, <1>10
  <2> QED BY <1>8, <1>9, <1>10, <2>1, UpperRightToUpperRight
<1>11. CASE gy1 = 1 /\ gx2 = 1 /\ gy2 = 0
  <2>1. D = IF x1 > x2 THEN Fraction((x2 - hx) * (x2 - hx), 1) ELSE From(corner)
    BY <1>7, <1>11
  <2>2. In <=> IF x1 > x2 THEN x2 = hx ELSE Through(hx, hy)
    BY <1>9, <1>11, UpperRightToRight
  <2>3. Fraction((x2 - hx) * (x2 - hx), 1).num = 0 <=> x2 = hx
    BY <1>5
  <2> QED BY <1>8, <2>1, <2>2, <2>3
<1>12. CASE gy1 = 1 /\ gx2 = 1 /\ gy2 = -1
  <2>1. D = IF x1 > x2 THEN From(LowCorner) ELSE From(corner)
    BY <1>7, <1>12
  <2>2. In <=> IF x1 > x2 THEN Through(hx, -hy) ELSE Through(hx, hy)
    BY <1>9, <1>12, UpperRightToLowerRight
  <2> QED BY <1>8, <2>1, <2>2
<1>13. CASE gy1 = 1 /\ gx2 = 0 /\ gy2 = -1
  <2>1. D = IF Side(hx, -hy) >= 0 THEN Zero ELSE From(LowCorner)
    BY <1>7, <1>13
  <2>2. In <=> Side(hx, -hy) >= 0 \/ Through(hx, -hy)
    BY <1>9, <1>13, UpperRightToBelow
  <2> QED BY <1>6, <1>8, <2>1, <2>2
<1>14. CASE gy1 = 1 /\ gx2 = -1 /\ gy2 = -1
  <2>1. D = IF Side(hx, -hy) <= 0 THEN From(LowCorner)
            ELSE IF Side(-hx, hy) <= 0 THEN Zero ELSE From(FarCorner)
    BY <1>7, <1>14
  <2>2. In <=> IF Side(hx, -hy) <= 0 THEN Through(hx, -hy)
               ELSE Side(-hx, hy) <= 0 \/ Through(-hx, hy)
    BY <1>9, <1>14, UpperRightToLowerLeft
  <2> QED BY <1>6, <1>8, <2>1, <2>2
<1>15. CASE gy1 = 0 /\ gx2 = 1 /\ gy2 = 1
  <2>1. D = IF x1 < x2 THEN Fraction((x1 - hx) * (x1 - hx), 1) ELSE From(corner)
    BY <1>7, <1>15
  <2>2. In <=> IF x1 < x2 THEN x1 = hx ELSE Through(hx, hy)
    BY <1>9, <1>15, RightToUpperRight
  <2>3. Fraction((x1 - hx) * (x1 - hx), 1).num = 0 <=> x1 = hx
    BY <1>5
  <2> QED BY <1>8, <2>1, <2>2, <2>3
<1>16. CASE gy1 = 0 /\ gx2 = 1 /\ gy2 = 0
  <2>1. PICK x \in Int : x = IF x1 < x2 THEN x1 ELSE x2
    OBVIOUS
  <2>2. D = Fraction((x - hx) * (x - hx), 1)
    BY <1>7, <1>16, <2>1
  <2>3. In <=> x = hx
    BY <1>9, <1>16, <2>1, RightToRight
  <2>4. Fraction((x - hx) * (x - hx), 1).num = 0 <=> x = hx
    BY <1>5
  <2> QED BY <2>2, <2>3, <2>4
<1>17. CASE gy1 = 0 /\ gx2 \in {0, -1} /\ gy2 = 1
  <2>1. D = IF Side(hx, hy) <= 0 THEN Zero ELSE From(corner)
    BY <1>7, <1>17
  <2>2. In <=> Side(hx, hy) <= 0 \/ Through(hx, hy)
    <3>1. x2 < hx
      BY <1>9, <1>17
    <3>2. -hy < y1 /\ y1 < hy /\ y2 >= hy
      BY <1>9, <1>17
    <3> QED BY <1>9, <3>1, <3>2, RightToUpper
  <2> QED BY <1>6, <1>8, <2>1, <2>2
<1>18. CASE gy1 = 0 /\ gx2 = -1 /\ gy2 = 0
  <2>1. D = Zero
    BY <1>7, <1>18
  <2>2. In
    BY <1>9, <1>18, RightToLeft
  <2> QED BY <1>6, <2>1, <2>2
<1> QED BY <1>10, <1>11, <1>12, <1>13, <1>14, <1>15, <1>16, <1>17, <1>18

Boxes == [center : Points, heading : Int, half_length : Nat \ {0}, half_width : Nat \ {0}]

\* Points in the frame of a box are points, and others are other ones.
LEMMA FramesAreSharp ==
  ASSUME NEW b \in Boxes
  PROVE  \A p \in Points : /\ InFrame(b, p) \in Points
                           /\ \A q \in Points : InFrame(b, p) = InFrame(b, q) => p = q
<1>1. PICK k \in 0 .. 3 : b.heading % 4 = k /\ (b.heading - 1) % 4 = IF k = 0 THEN 3 ELSE k - 1
  <2>1. b.heading \in Int
    BY DEF Boxes
  <2> QED BY <2>1
<1>2. /\ \A n \in Int : n % 4 = 0 => UnitVec(n) = Vec(1, 0)
      /\ \A n \in Int : n % 4 = 1 => UnitVec(n) = Vec(0, 1)
      /\ \A n \in Int : n % 4 = 2 => UnitVec(n) = Vec(-1, 0)
      /\ \A n \in Int : n % 4 = 3 => UnitVec(n) = Vec(0, -1)
  BY Axes
<1>3. /\ UnitVec(b.heading) = << Vec(1, 0), Vec(0, 1), Vec(-1, 0), Vec(0, -1) >>[k + 1]
      /\ UnitVec(b.heading - 1) = << Vec(0, -1), Vec(1, 0), Vec(0, 1), Vec(-1, 0) >>[k + 1]
  <2>1. b.heading \in Int /\ b.heading - 1 \in Int
    BY DEF Boxes
  <2> QED BY <1>1, <1>2, <2>1
<1>4. b.center \in Points
  BY DEF Boxes
<1>5. ASSUME NEW p \in Points
      PROVE  LET u == p.x - b.center.x
                 v == p.y - b.center.y
             IN /\ u \in Int /\ v \in Int
                /\ k = 0 => InFrame(b, p) = Vec(u, -v)
                /\ k = 1 => InFrame(b, p) = Vec(v, u)
                /\ k = 2 => InFrame(b, p) = Vec(-u, v)
                /\ k = 3 => InFrame(b, p) = Vec(-v, -u)
  <2>1. PICK u \in Int, v \in Int : u = p.x - b.center.x /\ v = p.y - b.center.y
    BY <1>4 DEF Points
  <2>2. Minus(p, b.center) = Vec(u, v)
    BY <2>1 DEF Minus
  <2>4. InFrame(b, p) = Vec(InnerProd(Vec(u, v), UnitVec(b.heading)),
                            InnerProd(Vec(u, v), UnitVec(b.heading - 1)))
    BY <2>2 DEF InFrame
  <2>5. /\ InnerProd(Vec(u, v), Vec(1, 0)) = u /\ InnerProd(Vec(u, v), Vec(0, 1)) = v
        /\ InnerProd(Vec(u, v), Vec(-1, 0)) = -u /\ InnerProd(Vec(u, v), Vec(0, -1)) = -v
    BY DEF InnerProd, Vec
  <2>6. /\ k = 0 => UnitVec(b.heading) = Vec(1, 0) /\ UnitVec(b.heading - 1) = Vec(0, -1)
        /\ k = 1 => UnitVec(b.heading) = Vec(0, 1) /\ UnitVec(b.heading - 1) = Vec(1, 0)
        /\ k = 2 => UnitVec(b.heading) = Vec(-1, 0) /\ UnitVec(b.heading - 1) = Vec(0, 1)
        /\ k = 3 => UnitVec(b.heading) = Vec(0, -1) /\ UnitVec(b.heading - 1) = Vec(-1, 0)
    BY <1>3
  <2> QED BY <2>1, <2>4, <2>5, <2>6
<1>6. ASSUME NEW p \in Points PROVE InFrame(b, p) \in Points
  <2>1. \A x \in Int, y \in Int : Vec(x, y) \in Points
    BY DEF Vec, Points
  <2>2. PICK u \in Int, v \in Int : InFrame(b, p) \in {Vec(u, -v), Vec(v, u), Vec(-u, v), Vec(-v, -u)}
    BY <1>5
  <2> QED BY <2>1, <2>2
<1>7. ASSUME NEW p \in Points, NEW q \in Points, InFrame(b, p) = InFrame(b, q) PROVE p = q
  <2>1. \A x, y, z, w \in Int : Vec(x, y) = Vec(z, w) => x = z /\ y = w
    BY DEF Vec
  <2>2. PICK u1 \in Int, v1 \in Int, u2 \in Int, v2 \in Int :
          /\ u1 = p.x - b.center.x /\ v1 = p.y - b.center.y
          /\ u2 = q.x - b.center.x /\ v2 = q.y - b.center.y
    BY <1>4 DEF Points
  <2>3. u1 = u2 /\ v1 = v2
    <3>1. CASE k = 0
      <4>1. Vec(u1, -v1) = Vec(u2, -v2)
        BY <1>5, <1>7, <2>2, <3>1
      <4> QED BY <2>1, <4>1
    <3>2. CASE k = 1
      <4>1. Vec(v1, u1) = Vec(v2, u2)
        BY <1>5, <1>7, <2>2, <3>2
      <4> QED BY <2>1, <4>1
    <3>3. CASE k = 2
      <4>1. Vec(-u1, v1) = Vec(-u2, v2)
        BY <1>5, <1>7, <2>2, <3>3
      <4> QED BY <2>1, <4>1
    <3>4. CASE k = 3
      <4>1. Vec(-v1, -u1) = Vec(-v2, -u2)
        BY <1>5, <1>7, <2>2, <3>4
      <4> QED BY <2>1, <4>1
    <3> QED BY <3>1, <3>2, <3>3, <3>4
  <2>4. p.x = q.x /\ p.y = q.y
    <3>1. /\ p.x \in Int /\ p.y \in Int /\ q.x \in Int /\ q.y \in Int
          /\ b.center.x \in Int /\ b.center.y \in Int
      BY <1>4 DEF Points
    <3> QED BY <2>2, <2>3, <3>1
  <2> QED BY <2>4 DEF Points
<1> QED BY <1>6, <1>7

\* A segment is mirrored so that it begins on the positive side or ends there.
LEMMA MirrorIs ==
  ASSUME NEW x1 \in Int, NEW x2 \in Int, NEW half \in Nat \ {0},
         NEW m \in {-1, 1}, m = Mirror(x1, x2, half),
         NEW u1 \in Int, u1 = m * x1, NEW u2 \in Int, u2 = m * x2
  PROVE  /\ Beside(u1, half) >= 0
         /\ Beside(u1, half) = 0 => Beside(u2, half) >= 0
         /\ Beside(u1, half) = 0 <=> Beside(x1, half) = 0
         /\ Beside(u2, half) = 0 <=> Beside(x2, half) = 0
<1>1. u1 = (IF m = 1 THEN x1 ELSE -x1) /\ u2 = (IF m = 1 THEN x2 ELSE -x2)
  OBVIOUS
<1> QED BY <1>1 DEF Mirror, Beside

\* Box2d::DistanceTo is 0 if and only if the segment has a point in the box.
LEMMA BoxDistanceVanishes ==
  ASSUME NEW b \in Boxes, NEW s \in Segments, s.start # s.end,
         NEW p1, p1 = InFrame(b, s.start), NEW p2, p2 = InFrame(b, s.end)
  PROVE  BoxDistance(b, s).num = 0 <=>
           HasPointIn(p1.x, p1.y, p2.x, p2.y, b.half_length, b.half_width)
<1>1. p1 \in Points /\ p2 \in Points /\ p1 # p2
  BY FramesAreSharp DEF Segments
<1>2. PICK x1 \in Int, y1 \in Int, x2 \in Int, y2 \in Int, hx \in Nat \ {0}, hy \in Nat \ {0} :
        /\ x1 = p1.x /\ y1 = p1.y /\ x2 = p2.x /\ y2 = p2.y
        /\ hx = b.half_length /\ hy = b.half_width
  BY <1>1 DEF Points, Boxes
<1>3. PICK mx \in {-1, 1}, my \in {-1, 1} : mx = Mirror(x1, x2, hx) /\ my = Mirror(y1, y2, hy)
  BY DEF Mirror
<1>4. PICK u1 \in Int, v1 \in Int, u2 \in Int, v2 \in Int :
        u1 = mx * x1 /\ v1 = my * y1 /\ u2 = mx * x2 /\ v2 = my * y2
  OBVIOUS
<1> DEFINE inside(x, y) == Beside(x, hx) = 0 /\ Beside(y, hy) = 0
           In == HasPointIn(x1, y1, x2, y2, hx, hy)
           D == BoxDistance(b, s)
           swap == \/ Beside(u1, hx) < Beside(v1, hy)
                   \/ Beside(u1, hx) = Beside(v1, hy) /\ Beside(u2, hx) < Beside(v2, hy)
<1>5. D = IF inside(x1, y1) \/ inside(x2, y2) THEN Zero
          ELSE IF swap THEN BesideDistance(Vec(v1, u1), Vec(v2, u2), Vec(hy, hx))
          ELSE BesideDistance(Vec(u1, v1), Vec(u2, v2), Vec(hx, hy))
  BY <1>2, <1>3, <1>4 DEF BoxDistance, Vec
<1>6. In <=> HasPointIn(u1, v1, u2, v2, hx, hy)
  BY <1>4, MirrorImages
<1>7. In <=> HasPointIn(v1, u1, v2, u2, hy, hx)
  BY <1>6, AxesExchanged
<1>8. /\ Beside(u1, hx) \in {0, 1} /\ Beside(v1, hy) \in {0, 1}
      /\ Beside(u2, hx) \in {-1, 0, 1} /\ Beside(v2, hy) \in {-1, 0, 1}
      /\ Beside(u1, hx) = 0 => Beside(u2, hx) >= 0
      /\ Beside(v1, hy) = 0 => Beside(v2, hy) >= 0
      /\ inside(x1, y1) <=> inside(u1, v1)
      /\ inside(x2, y2) <=> inside(u2, v2)
  <2>1. /\ Beside(u1, hx) >= 0
        /\ Beside(u1, hx) = 0 => Beside(u2, hx) >= 0
        /\ Beside(u1, hx) = 0 <=> Beside(x1, hx) = 0
        /\ Beside(u2, hx) = 0 <=> Beside(x2, hx) = 0
    BY <1>3, <1>4, MirrorIs
  <2>2. /\ Beside(v1, hy) >= 0
        /\ Beside(v1, hy) = 0 => Beside(v2, hy) >= 0
        /\ Beside(v1, hy) = 0 <=> Beside(y1, hy) = 0
        /\ Beside(v2, hy) = 0 <=> Beside(y2, hy) = 0
    BY <1>3, <1>4, MirrorIs
  <2>3. /\ Beside(u1, hx) \in {-1, 0, 1} /\ Beside(v1, hy) \in {-1, 0, 1}
        /\ Beside(u2, hx) \in {-1, 0, 1} /\ Beside(v2, hy) \in {-1, 0, 1}
    BY BesideIs
  <2> QED BY <2>1, <2>2, <2>3
<1>9. u1 # u2 \/ v1 # v2
  <2>1. x1 # x2 \/ y1 # y2
    BY <1>1, <1>2 DEF Points
  <2>2. /\ u1 = (IF mx = 1 THEN x1 ELSE -x1) /\ u2 = (IF mx = 1 THEN x2 ELSE -x2)
        /\ v1 = (IF my = 1 THEN y1 ELSE -y1) /\ v2 = (IF my = 1 THEN y2 ELSE -y2)
    BY <1>4
  <2> QED BY <2>1, <2>2
<1>10. \A x \in Int, y \in Int : Vec(x, y) \in Points /\ Vec(x, y).x = x /\ Vec(x, y).y = y
  BY DEF Vec, Points
<1> SUFFICES D.num = 0 <=> In
  BY <1>2
<1> HIDE DEF D, In
<1>11. CASE inside(x1, y1) \/ inside(x2, y2)
  <2>1. D.num = 0
    BY <1>5, <1>11 DEF Zero, Fraction
  <2>2. In
    <3>1. \/ -hx < x1 /\ x1 < hx /\ -hy < y1 /\ y1 < hy
          \/ -hx < x2 /\ x2 < hx /\ -hy < y2 /\ y2 < hy
      BY <1>11, BesideIs
    <3>2. \/ -hx <= x1 /\ x1 <= hx /\ -hy <= y1 /\ y1 <= hy
          \/ -hx <= x2 /\ x2 <= hx /\ -hy <= y2 /\ y2 <= hy
      BY <3>1
    <3> QED BY <3>2, EndsAreIn DEF In
  <2> QED BY <2>1, <2>2
<1>12. CASE ~(inside(x1, y1) \/ inside(x2, y2)) /\ swap
  <2>1. D = BesideDistance(Vec(v1, u1), Vec(v2, u2), Vec(hy, hx))
    BY <1>5, <1>12
  <2>2. Beside(v1, hy) = 1
    BY <1>8, <1>12
  <2>3. /\ Vec(v1, u1) \in Points /\ Vec(v1, u1).x = v1 /\ Vec(v1, u1).y = u1
        /\ Vec(v2, u2) \in Points /\ Vec(v2, u2).x = v2 /\ Vec(v2, u2).y = u2
        /\ Vec(hy, hx) \in Points /\ Vec(hy, hx).x = hy /\ Vec(hy, hx).y = hx
        /\ Vec(v1, u1) # Vec(v2, u2)
    BY <1>9, <1>10
  <2>4. /\ ~(Beside(v2, hy) = 0 /\ Beside(u2, hx) = 0)
        /\ IF Beside(u1, hx) = 1 THEN Beside(v2, hy) >= Beside(u2, hx) ELSE Beside(u2, hx) >= 0
    BY <1>8, <1>12, <2>2
  <2>5. D.num = 0 <=> HasPointIn(v1, u1, v2, u2, hy, hx)
    BY <1>8, <2>1, <2>2, <2>3, <2>4, BesideVanishes
  <2> QED BY <1>7, <2>5
<1>13. CASE ~(inside(x1, y1) \/ inside(x2, y2)) /\ ~swap
  <2>1. D = BesideDistance(Vec(u1, v1), Vec(u2, v2), Vec(hx, hy))
    BY <1>5, <1>13
  <2>2. Beside(u1, hx) = 1
    BY <1>8, <1>13
  <2>3. /\ Vec(u1, v1) \in Points /\ Vec(u1, v1).x = u1 /\ Vec(u1, v1).y = v1
        /\ Vec(u2, v2) \in Points /\ Vec(u2, v2).x = u2 /\ Vec(u2, v2).y = v2
        /\ Vec(hx, hy) \in Points /\ Vec(hx, hy).x = hx /\ Vec(hx, hy).y = hy
        /\ Vec(u1, v1) # Vec(u2, v2)
    BY <1>9, <1>10
  <2>4. /\ ~(Beside(u2, hx) = 0 /\ Beside(v2, hy) = 0)
        /\ IF Beside(v1, hy) = 1 THEN Beside(u2, hx) >= Beside(v2, hy) ELSE Beside(v2, hy) >= 0
    BY <1>8, <1>13, <2>2
  <2>5. D.num = 0 <=> HasPointIn(u1, v1, u2, v2, hx, hy)
    BY <1>8, <2>1, <2>2, <2>3, <2>4, BesideVanishes
  <2> QED BY <1>6, <2>5
<1> QED BY <1>11, <1>12, <1>13

\* A segment has a point in the box that is in the box.
Touches(b, s) ==
  LET p == InFrame(b, s.start)
      q == InFrame(b, s.end)
  IN HasPointIn(p.x, p.y, q.x, q.y, b.half_length, b.half_width)

(* Box2d::HasOverlap tells whether a segment, of any direction and also of *)
(* no length, has a point in a box or on its border, wherever the box is   *)
(* and whatever its size: the table of cases misses no collision and       *)
(* invents none.                                                           *)
THEOREM CollisionsAreSeen ==
  ASSUME NEW b \in Boxes, NEW s \in Segments
  PROVE  BoxHasOverlap(b, s) <=> Touches(b, s)
<1>1. PICK p1 \in Points, p2 \in Points : p1 = InFrame(b, s.start) /\ p2 = InFrame(b, s.end)
  BY FramesAreSharp DEF Segments
<1>2. Touches(b, s) <=> HasPointIn(p1.x, p1.y, p2.x, p2.y, b.half_length, b.half_width)
  BY <1>1 DEF Touches
<1>3. CASE s.start = s.end
  <2>1. p1 = p2
    BY <1>1, <1>3
  <2>2. PICK x \in Int, y \in Int, hx \in Nat \ {0}, hy \in Nat \ {0} :
          x = p1.x /\ y = p1.y /\ hx = b.half_length /\ hy = b.half_width
    BY DEF Points, Boxes
  <2>3. BoxHasOverlap(b, s) <=> -hx <= x /\ x <= hx /\ -hy <= y /\ y <= hy
    BY <1>1, <1>3, <2>2 DEF BoxHasOverlap
  <2>4. ASSUME HasPointIn(x, y, x, y, hx, hy)
        PROVE  -hx <= x /\ x <= hx /\ -hy <= y /\ y <= hy
    <3>1. PICK d \in Nat \ {0} : \E n \in 0 .. d : MeetsAt(x, y, x, y, hx, hy, n, d)
      BY <2>4 DEF HasPointIn
    <3>2. PICK n \in 0 .. d : MeetsAt(x, y, x, y, hx, hy, n, d)
      BY <3>1
    <3>3. PartWay(x, x, n, d) = d * x /\ PartWay(y, y, n, d) = d * y
      BY DEF PartWay
    <3>4. d * (-hx) = -(d * hx) /\ d * (-hy) = -(d * hy) /\ -hx \in Int /\ -hy \in Int
      OBVIOUS
    <3> QED BY <3>2, <3>3, <3>4, Factors DEF MeetsAt
  <2> QED BY <1>2, <2>1, <2>2, <2>3, <2>4, EndsAreIn
<1>4. CASE s.start # s.end
  <2>1. BoxHasOverlap(b, s) <=> BoxDistance(b, s).num = 0
    BY <1>4 DEF BoxHasOverlap
  <2>2. BoxDistance(b, s).num = 0 <=>
          HasPointIn(p1.x, p1.y, p2.x, p2.y, b.half_length, b.half_width)
    BY <1>1, <1>4, BoxDistanceVanishes
  <2> QED BY <1>2, <2>1, <2>2
<1> QED BY <1>3, <1>4

\* On one side of a segment are all corners of the box.
AllAbove(x1, y1, x2, y2, hx, hy) ==
  \A cx \in {-hx, hx}, cy \in {-hy, hy} : SideOf(x1, y1, x2, y2, cx, cy) > 0
AllBelow(x1, y1, x2, y2, hx, hy) ==
  \A cx \in {-hx, hx}, cy \in {-hy, hy} : SideOf(x1, y1, x2, y2, cx, cy) < 0

\* Nothing separates a segment and a box around the origin.
Inseparable(x1, y1, x2, y2, hx, hy) ==
  /\ ~(x1 > hx /\ x2 > hx) /\ ~(x1 < -hx /\ x2 < -hx)
  /\ ~(y1 > hy /\ y2 > hy) /\ ~(y1 < -hy /\ y2 < -hy)
  /\ ~AllAbove(x1, y1, x2, y2, hx, hy) /\ ~AllBelow(x1, y1, x2, y2, hx, hy)

LEMMA MeetsBoxIs ==
  ASSUME NEW s \in Segments, NEW hx \in Nat, NEW hy \in Nat
  PROVE  MeetsBox(s, hx, hy) <=> Inseparable(s.start.x, s.start.y, s.end.x, s.end.y, hx, hy)
<1>1. PICK x1 \in Int, y1 \in Int, x2 \in Int, y2 \in Int :
        x1 = s.start.x /\ y1 = s.start.y /\ x2 = s.end.x /\ y2 = s.end.y
  BY DEF Segments, Points
<1>2. \A a \in Int, b \in Int, h \in Nat :
        Overlapping(a, b, -h, h) <=> ~(a > h /\ b > h) /\ ~(a < -h /\ b < -h)
  BY DEF Overlapping, Lesser, Greater
<1>3. \A cx \in Int, cy \in Int :
        CrossProd(Along(s), Minus(Vec(cx, cy), s.start)) = SideOf(x1, y1, x2, y2, cx, cy)
  BY <1>1 DEF CrossProd, Along, Minus, Vec, SideOf
<1>4. \A cx \in {-hx, hx}, cy \in {-hy, hy} : cx \in Int /\ cy \in Int
  OBVIOUS
<1> DEFINE sides == {CrossProd(Along(s), Minus(Vec(cx, cy), s.start)) : cx \in {-hx, hx}, cy \in {-hy, hy}}
<1>5. (\A a \in sides : a > 0) <=> AllAbove(x1, y1, x2, y2, hx, hy)
  BY <1>3, <1>4 DEF AllAbove
<1>6. (\A a \in sides : a < 0) <=> AllBelow(x1, y1, x2, y2, hx, hy)
  BY <1>3, <1>4 DEF AllBelow
<1>7. MeetsBox(s, hx, hy) <=>
        /\ Overlapping(x1, x2, -hx, hx) /\ Overlapping(y1, y2, -hy, hy)
        /\ ~(\A a \in sides : a > 0) /\ ~(\A a \in sides : a < 0)
  BY <1>1 DEF MeetsBox
<1> HIDE DEF sides
<1>8. /\ Overlapping(x1, x2, -hx, hx) <=> ~(x1 > hx /\ x2 > hx) /\ ~(x1 < -hx /\ x2 < -hx)
      /\ Overlapping(y1, y2, -hy, hy) <=> ~(y1 > hy /\ y2 > hy) /\ ~(y1 < -hy /\ y2 < -hy)
  BY <1>2
<1> QED BY <1>1, <1>5, <1>6, <1>7, <1>8 DEF Inseparable

\* A way whose ends are both past h is nowhere at h.
LEMMA WayPast ==
  ASSUME NEW a \in Int, NEW b \in Int, NEW h \in Int, NEW d \in Nat \ {0}, NEW n \in 0 .. d
  PROVE  /\ a > h /\ b > h => PartWay(a, b, n, d) > d * h
         /\ a < h /\ b < h => PartWay(a, b, n, d) < d * h
<1>1. PICK w \in Int : w = PartWay(a, b, n, d)
  BY PartWays
<1>2. PICK v \in Int : v = d * h /\ d * (h + 1) = v + d /\ d * (h - 1) = v - d
  OBVIOUS
<1>3. a > h /\ b > h => w >= v + d
  <2>1. ASSUME a > h, b > h PROVE w >= v + d
    <3>1. a >= h + 1 /\ b >= h + 1 /\ h + 1 \in Int
      BY <2>1
    <3>2. PartWay(a, b, n, d) >= d * (h + 1)
      BY <3>1, WayAbove
    <3> QED BY <1>1, <1>2, <3>2
  <2> QED BY <2>1
<1>4. a < h /\ b < h => w <= v - d
  <2>1. ASSUME a < h, b < h PROVE w <= v - d
    <3>1. a <= h - 1 /\ b <= h - 1 /\ h - 1 \in Int
      BY <2>1
    <3> QED BY <1>1, <1>2, <3>1, WayBelow
  <2> QED BY <2>1
<1> QED BY <1>1, <1>2, <1>3, <1>4

\* What has a point in the box cannot be separated from it.
LEMMA TouchingAreInseparable ==
  ASSUME NEW x1 \in Int, NEW y1 \in Int, NEW x2 \in Int, NEW y2 \in Int,
         NEW hx \in Nat, NEW hy \in Nat, HasPointIn(x1, y1, x2, y2, hx, hy)
  PROVE  Inseparable(x1, y1, x2, y2, hx, hy)
<1>1. PICK d \in Nat \ {0} : \E n \in 0 .. d : MeetsAt(x1, y1, x2, y2, hx, hy, n, d)
  BY DEF HasPointIn
<1>2. PICK n \in 0 .. d : MeetsAt(x1, y1, x2, y2, hx, hy, n, d)
  BY <1>1
<1>3. PICK X \in Int, Y \in Int : X = PartWay(x1, x2, n, d) /\ Y = PartWay(y1, y2, n, d)
  BY PartWays
<1>4. PICK dx \in Int, dy \in Int : /\ dx = d * hx /\ d * (-hx) = -dx
                                    /\ dy = d * hy /\ d * (-hy) = -dy
  OBVIOUS
<1>5. -dx <= X /\ X <= dx /\ -dy <= Y /\ Y <= dy
  BY <1>2, <1>3, <1>4 DEF MeetsAt
<1>6. hx \in Int /\ -hx \in Int /\ hy \in Int /\ -hy \in Int
  OBVIOUS
<1>7. ~(x1 > hx /\ x2 > hx) /\ ~(x1 < -hx /\ x2 < -hx)
  <2>1. /\ x1 > hx /\ x2 > hx => X > dx
        /\ x1 < -hx /\ x2 < -hx => X < -dx
    <3>1. x1 > hx /\ x2 > hx => PartWay(x1, x2, n, d) > d * hx
      BY <1>6, WayPast
    <3>2. x1 < -hx /\ x2 < -hx => PartWay(x1, x2, n, d) < d * (-hx)
      BY <1>6, WayPast
    <3> QED BY <1>3, <1>4, <3>1, <3>2
  <2> QED BY <1>5, <2>1
<1>8. ~(y1 > hy /\ y2 > hy) /\ ~(y1 < -hy /\ y2 < -hy)
  <2>1. /\ y1 > hy /\ y2 > hy => Y > dy
        /\ y1 < -hy /\ y2 < -hy => Y < -dy
    <3>1. y1 > hy /\ y2 > hy => PartWay(y1, y2, n, d) > d * hy
      BY <1>6, WayPast
    <3>2. y1 < -hy /\ y2 < -hy => PartWay(y1, y2, n, d) < d * (-hy)
      BY <1>6, WayPast
    <3> QED BY <1>3, <1>4, <3>1, <3>2
  <2> QED BY <1>5, <2>1
<1>9. PICK ax \in Int, ay \in Int : ax = x2 - x1 /\ ay = y2 - y1
  OBVIOUS
<1>10. ASSUME NEW cx \in {-hx, hx}, NEW cy \in {-hy, hy}
       PROVE  LET side == SideOf(x1, y1, x2, y2, cx, cy)
                  u == d * cx - X
                  v == d * cy - Y
              IN /\ side \in Int /\ u \in Int /\ v \in Int
                 /\ d * side = ax * v - ay * u
                 /\ cx = hx => u >= 0
                 /\ cx = -hx => u <= 0
                 /\ cy = hy => v >= 0
                 /\ cy = -hy => v <= 0
  <2>1. cx \in Int /\ cy \in Int
    BY <1>6
  <2>2. LiesBeside(x1, y1, x2, y2, cx, cy, n, d)
    BY <2>1, PartBeside
  <2>3. d * SideOf(x1, y1, x2, y2, cx, cy) = ax * (d * cy - Y) - ay * (d * cx - X)
    BY <1>3, <1>9, <2>2 DEF LiesBeside
  <2>4. SideOf(x1, y1, x2, y2, cx, cy) \in Int /\ d * cx - X \in Int /\ d * cy - Y \in Int
    BY <2>1 DEF SideOf
  <2> QED BY <1>4, <1>5, <2>3, <2>4
<1>11. ASSUME NEW cx \in {-hx, hx}, NEW cy \in {-hy, hy}
       PROVE  LET side == SideOf(x1, y1, x2, y2, cx, cy)
              IN /\ (IF ax >= 0 THEN cy = hy ELSE cy = -hy) /\ (IF ay >= 0 THEN cx = -hx ELSE cx = hx)
                      => side >= 0
                 /\ (IF ax >= 0 THEN cy = -hy ELSE cy = hy) /\ (IF ay >= 0 THEN cx = hx ELSE cx = -hx)
                      => side <= 0
  <2>1. PICK side \in Int, u \in Int, v \in Int :
          /\ side = SideOf(x1, y1, x2, y2, cx, cy)
          /\ d * side = ax * v - ay * u
          /\ cx = hx => u >= 0
          /\ cx = -hx => u <= 0
          /\ cy = hy => v >= 0
          /\ cy = -hy => v <= 0
    BY <1>10
  <2>2. PICK p \in Int, q \in Int : p = ax * v /\ q = ay * u
    OBVIOUS
  <2>3. (p - q >= 0 => side >= 0) /\ (p - q <= 0 => side <= 0)
    BY <2>1, <2>2, SignOfMultiple
  <2>4. /\ ax >= 0 /\ v >= 0 => p >= 0
        /\ ax <= 0 /\ v <= 0 => p >= 0
        /\ ax <= 0 /\ v >= 0 => p <= 0
        /\ ax >= 0 /\ v <= 0 => p <= 0
    BY <2>2, ProductSigns
  <2>5. /\ ay >= 0 /\ u >= 0 => q >= 0
        /\ ay <= 0 /\ u <= 0 => q >= 0
        /\ ay <= 0 /\ u >= 0 => q <= 0
        /\ ay >= 0 /\ u <= 0 => q <= 0
    BY <2>2, ProductSigns
  <2> QED BY <2>1, <2>3, <2>4, <2>5
<1>12. ~AllBelow(x1, y1, x2, y2, hx, hy)
  <2>1. PICK cx \in {-hx, hx}, cy \in {-hy, hy} :
          (IF ax >= 0 THEN cy = hy ELSE cy = -hy) /\ (IF ay >= 0 THEN cx = -hx ELSE cx = hx)
    OBVIOUS
  <2>2. SideOf(x1, y1, x2, y2, cx, cy) >= 0 /\ SideOf(x1, y1, x2, y2, cx, cy) \in Int
    BY <1>10, <1>11, <2>1
  <2> QED BY <2>2 DEF AllBelow
<1>13. ~AllAbove(x1, y1, x2, y2, hx, hy)
  <2>1. PICK cx \in {-hx, hx}, cy \in {-hy, hy} :
          (IF ax >= 0 THEN cy = -hy ELSE cy = hy) /\ (IF ay >= 0 THEN cx = hx ELSE cx = -hx)
    OBVIOUS
  <2>2. SideOf(x1, y1, x2, y2, cx, cy) <= 0 /\ SideOf(x1, y1, x2, y2, cx, cy) \in Int
    BY <1>10, <1>11, <2>1
  <2> QED BY <2>2 DEF AllAbove
<1> QED BY <1>7, <1>8, <1>12, <1>13 DEF Inseparable

\* The mirror images of a segment that cannot be separated from a box.
LEMMA MirrorsInseparable ==
  ASSUME NEW x1 \in Int, NEW y1 \in Int, NEW x2 \in Int, NEW y2 \in Int,
         NEW hx \in Nat, NEW hy \in Nat, Inseparable(x1, y1, x2, y2, hx, hy)
  PROVE  Inseparable(-x1, y1, -x2, y2, hx, hy) /\ Inseparable(x1, -y1, x2, -y2, hx, hy)
<1>1. \A cx \in Int, cy \in Int :
        /\ SideOf(x1, y1, x2, y2, cx, cy) \in Int
        /\ SideOf(-x1, y1, -x2, y2, -cx, cy) = -SideOf(x1, y1, x2, y2, cx, cy)
        /\ SideOf(x1, -y1, x2, -y2, cx, -cy) = -SideOf(x1, y1, x2, y2, cx, cy)
  <2>1. ASSUME NEW cx \in Int, NEW cy \in Int
        PROVE  /\ SideOf(x1, y1, x2, y2, cx, cy) \in Int
               /\ SideOf(-x1, y1, -x2, y2, -cx, cy) = -SideOf(x1, y1, x2, y2, cx, cy)
               /\ SideOf(x1, -y1, x2, -y2, cx, -cy) = -SideOf(x1, y1, x2, y2, cx, cy)
    <3>1. SideOf(x1, y1, x2, y2, cx, cy) \in Int
      BY DEF SideOf
    <3>2. (-x2 - (-x1)) * (cy - y1) - (y2 - y1) * (-cx - (-x1)) =
            -((x2 - x1) * (cy - y1) - (y2 - y1) * (cx - x1))
      OBVIOUS
    <3>3. (x2 - x1) * (-cy - (-y1)) - (-y2 - (-y1)) * (cx - x1) =
            -((x2 - x1) * (cy - y1) - (y2 - y1) * (cx - x1))
      OBVIOUS
    <3> QED BY <3>1, <3>2, <3>3 DEF SideOf
  <2> QED BY <2>1
<1>2. \A h \in Nat : \A c \in {-h, h} : c \in Int /\ -c \in {-h, h} /\ -(-c) = c
  OBVIOUS
<1>3. ASSUME NEW cx \in {-hx, hx}, NEW cy \in {-hy, hy}
      PROVE  /\ SideOf(x1, y1, x2, y2, cx, cy) \in Int
             /\ SideOf(-x1, y1, -x2, y2, -cx, cy) = -SideOf(x1, y1, x2, y2, cx, cy)
             /\ SideOf(x1, -y1, x2, -y2, cx, -cy) = -SideOf(x1, y1, x2, y2, cx, cy)
             /\ -cx \in {-hx, hx} /\ -cy \in {-hy, hy}
  BY <1>1, <1>2
<1>4. PICK cx \in {-hx, hx}, cy \in {-hy, hy} : ~(SideOf(x1, y1, x2, y2, cx, cy) > 0)
  BY DEF Inseparable, AllAbove
<1>5. PICK ox \in {-hx, hx}, oy \in {-hy, hy} : ~(SideOf(x1, y1, x2, y2, ox, oy) < 0)
  BY DEF Inseparable, AllBelow
<1>6. /\ ~AllBelow(-x1, y1, -x2, y2, hx, hy) /\ ~AllBelow(x1, -y1, x2, -y2, hx, hy)
  <2>1. ~(SideOf(-x1, y1, -x2, y2, -cx, cy) < 0) /\ ~(SideOf(x1, -y1, x2, -y2, cx, -cy) < 0)
    BY <1>3, <1>4
  <2> QED BY <1>3, <2>1 DEF AllBelow
<1>7. /\ ~AllAbove(-x1, y1, -x2, y2, hx, hy) /\ ~AllAbove(x1, -y1, x2, -y2, hx, hy)
  <2>1. ~(SideOf(-x1, y1, -x2, y2, -ox, oy) > 0) /\ ~(SideOf(x1, -y1, x2, -y2, ox, -oy) > 0)
    BY <1>3, <1>5
  <2> QED BY <1>3, <2>1 DEF AllAbove
<1>8. /\ ~(-x1 > hx /\ -x2 > hx) /\ ~(-x1 < -hx /\ -x2 < -hx)
      /\ ~(-y1 > hy /\ -y2 > hy) /\ ~(-y1 < -hy /\ -y2 < -hy)
  BY DEF Inseparable
<1> QED BY <1>6, <1>7, <1>8 DEF Inseparable

\* A segment to the lower left that cannot be separated from a box comes in by its right
\* side or its top, if it does not begin in it.
LEMMA DownwardsInseparable ==
  ASSUME NEW x1 \in Int, NEW y1 \in Int, NEW x2 \in Int, NEW y2 \in Int,
         NEW hx \in Nat, NEW hy \in Nat, Inseparable(x1, y1, x2, y2, hx, hy), x2 <= x1, y2 <= y1
  PROVE  HasPointIn(x1, y1, x2, y2, hx, hy)
<1>1. PICK ax \in Int, ay \in Int : ax = x2 - x1 /\ ay = y2 - y1 /\ ax <= 0 /\ ay <= 0
  <2>1. x2 - x1 \in Int /\ y2 - y1 \in Int /\ x2 - x1 <= 0 /\ y2 - y1 <= 0
    OBVIOUS
  <2> QED BY <2>1
<1>2. ASSUME NEW cx \in Int, NEW cy \in Int, NEW kx \in Int, NEW ky \in Int, cx <= kx, cy >= ky
      PROVE  SideOf(x1, y1, x2, y2, cx, cy) <= SideOf(x1, y1, x2, y2, kx, ky)
  <2>1. SideOf(x1, y1, x2, y2, kx, ky) - SideOf(x1, y1, x2, y2, cx, cy) =
          ax * (ky - cy) - ay * (kx - cx)
    <3>1. (ax * (ky - y1) - ay * (kx - x1)) - (ax * (cy - y1) - ay * (cx - x1)) =
            ax * (ky - cy) - ay * (kx - cx)
      OBVIOUS
    <3> QED BY <1>1, <3>1 DEF SideOf
  <2>2. ax * (ky - cy) >= 0 /\ ay * (kx - cx) <= 0
    <3>1. ky - cy \in Int /\ ky - cy <= 0 /\ kx - cx \in Int /\ kx - cx >= 0
      BY <1>2
    <3> QED BY <1>1, <3>1, ProductSigns
  <2>3. PICK p \in Int, q \in Int : p = ax * (ky - cy) /\ q = ay * (kx - cx)
    OBVIOUS
  <2>4. SideOf(x1, y1, x2, y2, kx, ky) \in Int /\ SideOf(x1, y1, x2, y2, cx, cy) \in Int
    BY DEF SideOf
  <2> QED BY <2>1, <2>2, <2>3, <2>4
<1>3. hx \in Int /\ -hx \in Int /\ hy \in Int /\ -hy \in Int /\ -hx <= hx /\ -hy <= hy
  OBVIOUS
<1>4. \A cx \in Int, cy \in Int : SideOf(x1, y1, x2, y2, cx, cy) \in Int
  BY DEF SideOf
<1>5. SideOf(x1, y1, x2, y2, hx, -hy) >= 0
  <2>1. PICK cx \in {-hx, hx}, cy \in {-hy, hy} : ~(SideOf(x1, y1, x2, y2, cx, cy) < 0)
    BY DEF Inseparable, AllBelow
  <2>2. SideOf(x1, y1, x2, y2, cx, cy) <= SideOf(x1, y1, x2, y2, hx, -hy)
    BY <1>2, <1>3
  <2> QED BY <1>3, <1>4, <2>1, <2>2
<1>6. SideOf(x1, y1, x2, y2, -hx, hy) <= 0
  <2>1. PICK cx \in {-hx, hx}, cy \in {-hy, hy} : ~(SideOf(x1, y1, x2, y2, cx, cy) > 0)
    BY DEF Inseparable, AllAbove
  <2>2. SideOf(x1, y1, x2, y2, -hx, hy) <= SideOf(x1, y1, x2, y2, cx, cy)
    BY <1>2, <1>3
  <2> QED BY <1>3, <1>4, <2>1, <2>2
<1>7. x2 <= hx /\ x1 >= -hx /\ y2 <= hy /\ y1 >= -hy
  BY DEF Inseparable
<1>8. SideOf(x1, y1, x2, y2, hx, hy) = ax * (hy - y1) - ay * (hx - x1)
  BY <1>1 DEF SideOf
<1>9. CASE x1 <= hx /\ y1 <= hy
  BY <1>7, <1>9, EndsAreIn
<1>10. CASE x1 > hx /\ SideOf(x1, y1, x2, y2, hx, hy) <= 0
  <2>1. x1 >= hx /\ hx >= x2 /\ x1 > x2
    BY <1>7, <1>10
  <2> QED BY <1>5, <1>10, <2>1, CrossesTheSide
<1>11. CASE y1 > hy /\ SideOf(x1, y1, x2, y2, hx, hy) >= 0
  <2>1. y1 >= hy /\ hy >= y2 /\ y1 > y2
    BY <1>7, <1>11
  <2> QED BY <1>6, <1>11, <2>1, CrossesTheTop
<1>12. PICK p \in Int, q \in Int : p = ax * (hy - y1) /\ q = ay * (hx - x1)
  OBVIOUS
<1>13. x1 > hx /\ y1 <= hy => SideOf(x1, y1, x2, y2, hx, hy) <= 0
  <2>1. ASSUME x1 > hx, y1 <= hy PROVE p <= 0 /\ q >= 0
    <3>1. hy - y1 \in Int /\ hy - y1 >= 0 /\ hx - x1 \in Int /\ hx - x1 <= 0
      BY <2>1
    <3> QED BY <1>1, <1>12, <3>1, ProductSigns
  <2> QED BY <1>8, <1>12, <2>1
<1>14. y1 > hy /\ x1 <= hx => SideOf(x1, y1, x2, y2, hx, hy) >= 0
  <2>1. ASSUME y1 > hy, x1 <= hx PROVE p >= 0 /\ q <= 0
    <3>1. hy - y1 \in Int /\ hy - y1 <= 0 /\ hx - x1 \in Int /\ hx - x1 >= 0
      BY <2>1
    <3> QED BY <1>1, <1>12, <3>1, ProductSigns
  <2> QED BY <1>8, <1>12, <2>1
<1>15. PICK side \in Int : side = SideOf(x1, y1, x2, y2, hx, hy)
  BY <1>3, <1>4
<1>16. \/ x1 <= hx /\ y1 <= hy
       \/ x1 > hx /\ side <= 0
       \/ y1 > hy /\ side >= 0
  BY <1>13, <1>14, <1>15
<1> QED BY <1>9, <1>10, <1>11, <1>15, <1>16

\* What cannot be separated from the box has a point in it.
LEMMA InseparableTouch ==
  ASSUME NEW x1 \in Int, NEW y1 \in Int, NEW x2 \in Int, NEW y2 \in Int,
         NEW hx \in Nat, NEW hy \in Nat
  PROVE  Inseparable(x1, y1, x2, y2, hx, hy) <=> HasPointIn(x1, y1, x2, y2, hx, hy)
<1>1. ASSUME NEW u1 \in Int, NEW v1 \in Int, NEW u2 \in Int, NEW v2 \in Int,
             Inseparable(u1, v1, u2, v2, hx, hy), u2 <= u1
      PROVE  HasPointIn(u1, v1, u2, v2, hx, hy)
  <2>1. CASE v2 <= v1
    BY <1>1, <2>1, DownwardsInseparable
  <2>2. CASE ~(v2 <= v1)
    <3>1. Inseparable(u1, -v1, u2, -v2, hx, hy) /\ -v2 <= -v1 /\ -v1 \in Int /\ -v2 \in Int
      BY <1>1, <2>2, MirrorsInseparable
    <3>2. HasPointIn(u1, -v1, u2, -v2, hx, hy)
      BY <1>1, <3>1, DownwardsInseparable
    <3>3. 1 * u1 = u1 /\ 1 * u2 = u2 /\ (-1) * v1 = -v1 /\ (-1) * v2 = -v2
      OBVIOUS
    <3>4. HasPointIn(1 * u1, (-1) * v1, 1 * u2, (-1) * v2, hx, hy) <=>
            HasPointIn(u1, v1, u2, v2, hx, hy)
      BY MirrorImages
    <3> QED BY <3>2, <3>3, <3>4
  <2> QED BY <2>1, <2>2
<1>2. ASSUME Inseparable(x1, y1, x2, y2, hx, hy) PROVE HasPointIn(x1, y1, x2, y2, hx, hy)
  <2>1. CASE x2 <= x1
    BY <1>1, <1>2, <2>1
  <2>2. CASE ~(x2 <= x1)
    <3>1. Inseparable(-x1, y1, -x2, y2, hx, hy) /\ -x2 <= -x1 /\ -x1 \in Int /\ -x2 \in Int
      BY <1>2, <2>2, MirrorsInseparable
    <3>2. HasPointIn(-x1, y1, -x2, y2, hx, hy)
      BY <1>1, <3>1
    <3>3. (-1) * x1 = -x1 /\ (-1) * x2 = -x2 /\ 1 * y1 = y1 /\ 1 * y2 = y2
      OBVIOUS
    <3>4. HasPointIn((-1) * x1, 1 * y1, (-1) * x2, 1 * y2, hx, hy) <=>
            HasPointIn(x1, y1, x2, y2, hx, hy)
      BY MirrorImages
    <3> QED BY <3>2, <3>3, <3>4
  <2> QED BY <2>1, <2>2
<1> QED BY <1>2, TouchingAreInseparable

(* A segment is seen to meet a box if and only if neither a side of the    *)
(* box nor the segment separates them (Box2d::HasOverlap); boxes around    *)
(* the origin and their segments are turned together by any quarter turns. *)
THEOREM OverlapsAreMeetings ==
  ASSUME NEW s \in Segments, NEW q \in Int, NEW hl \in Nat \ {0}, NEW hw \in Nat \ {0},
         NEW turned, turned = Segment(Rotated(s.start, q), Rotated(s.end, q))
  PROVE  BoxHasOverlap(Box(Vec(0, 0), q, hl, hw), turned) <=> MeetsBox(s, hl, hw)
<1> DEFINE b == Box(Vec(0, 0), q, hl, hw)
<1>1. b \in Boxes /\ b.half_length = hl /\ b.half_width = hw
  BY DEF Box, Boxes, Vec, Points
<1>2. ASSUME NEW p \in Points
      PROVE  /\ Rotated(p, q) \in Points
             /\ InFrame(b, Rotated(p, q)) = Vec(p.x, -p.y)
  <2>1. PICK u \in Int, v \in Int : u = p.x /\ v = p.y /\ p = Vec(u, v)
    <3>1. p.x \in Int /\ p.y \in Int /\ p = [x |-> p.x, y |-> p.y]
      BY DEF Points
    <3> QED BY <3>1 DEF Vec
  <2>2. PICK k \in 0 .. 3 : q % 4 = k /\ (q - 1) % 4 = IF k = 0 THEN 3 ELSE k - 1
    OBVIOUS
  <2>3. /\ UnitVec(q) = << Vec(1, 0), Vec(0, 1), Vec(-1, 0), Vec(0, -1) >>[k + 1]
        /\ UnitVec(q - 1) = << Vec(0, -1), Vec(1, 0), Vec(0, 1), Vec(-1, 0) >>[k + 1]
    <3>1. /\ \A n \in Int : n % 4 = 0 => UnitVec(n) = Vec(1, 0)
          /\ \A n \in Int : n % 4 = 1 => UnitVec(n) = Vec(0, 1)
          /\ \A n \in Int : n % 4 = 2 => UnitVec(n) = Vec(-1, 0)
          /\ \A n \in Int : n % 4 = 3 => UnitVec(n) = Vec(0, -1)
      BY Axes
    <3>2. q \in Int /\ q - 1 \in Int
      OBVIOUS
    <3> QED BY <2>2, <3>1, <3>2
  <2>4. /\ k = 0 => UnitVec(q) = Vec(1, 0) /\ UnitVec(q - 1) = Vec(0, -1)
        /\ k = 1 => UnitVec(q) = Vec(0, 1) /\ UnitVec(q - 1) = Vec(1, 0)
        /\ k = 2 => UnitVec(q) = Vec(-1, 0) /\ UnitVec(q - 1) = Vec(0, 1)
        /\ k = 3 => UnitVec(q) = Vec(0, -1) /\ UnitVec(q - 1) = Vec(-1, 0)
    BY <2>3
  <2>5. /\ k = 0 => Rotated(p, q) = Vec(u, v)
        /\ k = 1 => Rotated(p, q) = Vec(-v, u)
        /\ k = 2 => Rotated(p, q) = Vec(-u, -v)
        /\ k = 3 => Rotated(p, q) = Vec(v, -u)
    BY <2>1, <2>4 DEF Rotated, InnerProd, Vec
  <2>6. \A x \in Int, y \in Int : Minus(Vec(x, y), Vec(0, 0)) = Vec(x, y)
    BY DEF Minus, Vec
  <2>7. InFrame(b, Rotated(p, q)) =
          Vec(InnerProd(Rotated(p, q), UnitVec(q)), InnerProd(Rotated(p, q), UnitVec(q - 1)))
    <3>1. Minus(Rotated(p, q), Vec(0, 0)) = Rotated(p, q)
      BY <2>5, <2>6
    <3> QED BY <3>1 DEF InFrame, Box
  <2>8. InFrame(b, Rotated(p, q)) = Vec(u, -v)
    BY <2>4, <2>5, <2>7 DEF InnerProd, Vec
  <2>9. Rotated(p, q) \in Points
    BY <2>5 DEF Vec, Points
  <2> QED BY <2>1, <2>8, <2>9
<1> HIDE DEF b
<1>3. PICK x1 \in Int, y1 \in Int, x2 \in Int, y2 \in Int :
        x1 = s.start.x /\ y1 = s.start.y /\ x2 = s.end.x /\ y2 = s.end.y
  BY DEF Segments, Points
<1>4. /\ turned \in Segments
      /\ InFrame(b, turned.start) = Vec(x1, -y1) /\ InFrame(b, turned.end) = Vec(x2, -y2)
  BY <1>2, <1>3 DEF Segment, Segments
<1>5. BoxHasOverlap(b, turned) <=> HasPointIn(x1, -y1, x2, -y2, hl, hw)
  BY <1>1, <1>4, CollisionsAreSeen DEF Touches, Vec
<1>6. HasPointIn(x1, -y1, x2, -y2, hl, hw) <=> HasPointIn(x1, y1, x2, y2, hl, hw)
  <2>1. 1 * x1 = x1 /\ 1 * x2 = x2 /\ (-1) * y1 = -y1 /\ (-1) * y2 = -y2
    OBVIOUS
  <2>2. HasPointIn(1 * x1, (-1) * y1, 1 * x2, (-1) * y2, hl, hw) <=>
          HasPointIn(x1, y1, x2, y2, hl, hw)
    BY MirrorImages
  <2> QED BY <2>1, <2>2
<1>7. MeetsBox(s, hl, hw) <=> HasPointIn(x1, y1, x2, y2, hl, hw)
  <2>1. MeetsBox(s, hl, hw) <=> Inseparable(x1, y1, x2, y2, hl, hw)
    BY <1>3, MeetsBoxIs
  <2> QED BY <2>1, InseparableTouch
<1> QED BY <1>5, <1>6, <1>7 DEF b

\* How a point lies to a segment: along it, beside it, and how far it is.
LEMMA AlongAndBeside ==
  ASSUME NEW ax \in Int, NEW ay \in Int, NEW dx \in Int, NEW dy \in Int,
         NEW proj \in Int, proj = dx * ax + dy * ay,
         NEW len \in Int, len = ax * ax + ay * ay,
         NEW cross \in Int, cross = dx * ay - dy * ax,
         NEW far \in Int, far = dx * dx + dy * dy
  PROVE  /\ far * len = proj * proj + cross * cross
         /\ dx * (dx - ax) + dy * (dy - ay) = far - proj
         /\ (dx - ax) * (dx - ax) + (dy - ay) * (dy - ay) = (far - proj) - (proj - len)
<1>1. far * len = proj * proj + cross * cross
  <2>1. (dx * dx + dy * dy) * (ax * ax + ay * ay) =
          (dx * ax + dy * ay) * (dx * ax + dy * ay) + (dx * ay - dy * ax) * (dx * ay - dy * ax)
    OBVIOUS
  <2> QED BY <2>1
<1>2. dx * (dx - ax) + dy * (dy - ay) = far - proj
  OBVIOUS
<1>3. (dx - ax) * (dx - ax) + (dy - ay) * (dy - ay) = (far - proj) - (proj - len)
  OBVIOUS
<1> QED BY <1>1, <1>2, <1>3

\* A point is in a segment if it goes through the point.
LEMMA PointInIs ==
  ASSUME NEW s \in Segments, NEW p \in Points
  PROVE  SegmentPointIn(s, p) <=>
           GoesThrough(s.start.x, s.start.y, s.end.x, s.end.y, p.x, p.y)
<1>1. PICK x1 \in Int, y1 \in Int, x2 \in Int, y2 \in Int, px \in Int, py \in Int :
        /\ x1 = s.start.x /\ y1 = s.start.y /\ x2 = s.end.x /\ y2 = s.end.y /\ px = p.x /\ py = p.y
  BY DEF Segments, Points
<1>2. PICK ax \in Int, ay \in Int, dx \in Int, dy \in Int :
        ax = x2 - x1 /\ ay = y2 - y1 /\ dx = px - x1 /\ dy = py - y1
  OBVIOUS
<1>3. PICK proj \in Int, len \in Int, cross \in Int, far \in Int :
        /\ proj = dx * ax + dy * ay /\ len = ax * ax + ay * ay
        /\ cross = dx * ay - dy * ax /\ far = dx * dx + dy * dy
  OBVIOUS
<1>4. SegmentPointIn(s, p) <=> cross = 0 /\ far <= proj
  <2>1. CrossProd(Minus(p, s.start), Along(s)) = cross
    BY <1>1, <1>2, <1>3 DEF CrossProd, Minus, Along, Vec
  <2>2. InnerProd(Minus(p, s.start), Minus(p, s.end)) = dx * (dx - ax) + dy * (dy - ay)
    <3>1. px - x2 = dx - ax /\ py - y2 = dy - ay
      BY <1>2
    <3> QED BY <1>1, <1>2, <3>1 DEF InnerProd, Minus, Vec
  <2>3. dx * (dx - ax) + dy * (dy - ay) = far - proj
    BY <1>3, AlongAndBeside
  <2> QED BY <2>1, <2>2, <2>3 DEF SegmentPointIn
<1>5. GoesThrough(s.start.x, s.start.y, s.end.x, s.end.y, p.x, p.y) <=> IsReached(ax, ay, dx, dy)
  BY <1>1, <1>2, ThroughIsReached
<1>6. far >= 0 /\ (far = 0 <=> dx = 0 /\ dy = 0)
  BY <1>3, SquaresVanish
<1>7. CASE ax = 0 /\ ay = 0
  <2>1. proj = 0 /\ cross = 0
    BY <1>3, <1>7
  <2>2. IsReached(ax, ay, dx, dy) <=> dx = 0 /\ dy = 0
    <3>1. \A n \in Nat, d \in Nat \ {0} :
            Reaches(0, 0, dx, dy, n, d) <=> dx = 0 /\ dy = 0
      <4>1. \A d \in Nat \ {0}, k \in Int : d * k = 0 <=> k = 0
        OBVIOUS
      <4>2. \A n \in Nat : n * 0 = 0
        OBVIOUS
      <4> QED BY <4>1, <4>2 DEF Reaches
    <3>2. 1 \in Nat \ {0} /\ 0 \in 0 .. 1 /\ \A d \in Nat : 0 .. d \subseteq Nat
      OBVIOUS
    <3> QED BY <1>7, <3>1, <3>2 DEF IsReached
  <2> QED BY <1>4, <1>5, <1>6, <2>1, <2>2
<1>8. CASE ax # 0 \/ ay # 0
  <2>1. OnceReached(ax, ay, dx, dy, proj, len)
    BY <1>3, <1>8, PointsReached
  <2>2. /\ far * len = proj * proj + cross * cross
        /\ (dx - ax) * (dx - ax) + (dy - ay) * (dy - ay) = (far - proj) - (proj - len)
    BY <1>3, AlongAndBeside
  <2>3. (far - proj) - (proj - len) >= 0 /\ ((far - proj) - (proj - len) = 0 <=> dx = ax /\ dy = ay)
    <3>1. PICK u \in Int, v \in Int : u = dx - ax /\ v = dy - ay
      OBVIOUS
    <3>2. u * u + v * v >= 0 /\ (u * u + v * v = 0 <=> u = 0 /\ v = 0)
      BY SquaresVanish
    <3> QED BY <2>2, <3>1, <3>2
  <2>4. len \in Nat \ {0}
    BY <2>1 DEF OnceReached
  <2>5. cross = 0 => far * len = proj * proj
    BY <2>2
  <2>6. CASE proj <= 0
    <3>1. IsReached(ax, ay, dx, dy) <=> far = 0
      BY <1>6, <2>1, <2>6 DEF OnceReached
    <3>2. ASSUME far = 0 PROVE cross = 0 /\ proj = 0
      <4>1. dx = 0 /\ dy = 0
        BY <1>6, <3>2
      <4> QED BY <1>3, <4>1
    <3> QED BY <1>4, <1>5, <1>6, <2>6, <3>1, <3>2
  <2>7. CASE 0 < proj /\ proj < len
    <3>1. IsReached(ax, ay, dx, dy) <=> cross = 0
      BY <1>3, <2>1, <2>7 DEF OnceReached
    <3>2. ASSUME cross = 0 PROVE far <= proj
      <4>1. len * far = proj * proj
        BY <2>5, <3>2
      <4>2. proj * proj <= proj * len
        <5>1. proj \in Nat \ {0} /\ proj <= len
          BY <2>7
        <5> QED BY <5>1, Factors
      <4>3. len * far <= len * proj
        BY <4>1, <4>2
      <4> QED BY <2>4, <4>3, Factors
    <3> QED BY <1>4, <1>5, <3>1, <3>2
  <2>8. CASE proj >= len
    <3>1. IsReached(ax, ay, dx, dy) <=> dx = ax /\ dy = ay
      BY <2>1, <2>8 DEF OnceReached
    <3>2. ASSUME dx = ax, dy = ay PROVE cross = 0 /\ far = proj
      BY <1>3, <3>2
    <3>3. ASSUME cross = 0, far <= proj PROVE dx = ax /\ dy = ay
      BY <2>3, <2>8, <3>3
    <3> QED BY <1>4, <1>5, <3>1, <3>2, <3>3
  <2> QED BY <2>6, <2>7, <2>8
<1> QED BY <1>7, <1>8

\* The point n of d parts along (ax, ay), whose begin is (ex, ey) from that of
\* (bx, by), is the point m of d parts along (bx, by).
Joins(ex, ey, ax, ay, bx, by, n, m, d) ==
  d * ex + n * ax = m * bx /\ d * ey + n * ay = m * by

Joined(ex, ey, ax, ay, bx, by) ==
  \E d \in Nat \ {0} : \E n \in 0 .. d : \E m \in 0 .. d : Joins(ex, ey, ax, ay, bx, by, n, m, d)

\* One of the four ends lies on the other segment.
AnEndIsReached(ex, ey, ax, ay, bx, by) ==
  \/ IsReached(ax, ay, -ex, -ey) \/ IsReached(ax, ay, bx - ex, by - ey)
  \/ IsReached(bx, by, ex, ey) \/ IsReached(bx, by, ex + ax, ey + ay)

LEMMA ReachedJoins ==
  ASSUME NEW ex \in Int, NEW ax \in Int, NEW bx \in Int,
         NEW d \in Nat \ {0}, NEW k \in 0 .. d
  PROVE  /\ k * ax = d * (-ex) <=> d * ex + k * ax = 0 * bx
         /\ k * ax = d * (bx - ex) <=> d * ex + k * ax = d * bx
         /\ k * bx = d * ex <=> d * ex + 0 * ax = k * bx
         /\ k * bx = d * (ex + ax) <=> d * ex + d * ax = k * bx
<1>1. PICK p \in Int, q \in Int, r \in Int, t \in Int, w \in Int :
        p = k * ax /\ q = k * bx /\ r = d * ex /\ t = d * ax /\ w = d * bx
  OBVIOUS
<1>2. d * (-ex) = -r /\ d * (bx - ex) = w - r /\ d * (ex + ax) = r + t /\ 0 * bx = 0 /\ 0 * ax = 0
  BY <1>1
<1> QED BY <1>1, <1>2

LEMMA EndsJoin ==
  ASSUME NEW ex \in Int, NEW ey \in Int, NEW ax \in Int, NEW ay \in Int,
         NEW bx \in Int, NEW by \in Int
  PROVE  \A d \in Nat \ {0} : \A k \in 0 .. d :
           /\ Reaches(ax, ay, -ex, -ey, k, d) <=> Joins(ex, ey, ax, ay, bx, by, k, 0, d)
           /\ Reaches(ax, ay, bx - ex, by - ey, k, d) <=> Joins(ex, ey, ax, ay, bx, by, k, d, d)
           /\ Reaches(bx, by, ex, ey, k, d) <=> Joins(ex, ey, ax, ay, bx, by, 0, k, d)
           /\ Reaches(bx, by, ex + ax, ey + ay, k, d) <=> Joins(ex, ey, ax, ay, bx, by, d, k, d)
<1>1. SUFFICES ASSUME NEW d \in Nat \ {0}, NEW k \in 0 .. d
      PROVE  /\ Reaches(ax, ay, -ex, -ey, k, d) <=> Joins(ex, ey, ax, ay, bx, by, k, 0, d)
             /\ Reaches(ax, ay, bx - ex, by - ey, k, d) <=> Joins(ex, ey, ax, ay, bx, by, k, d, d)
             /\ Reaches(bx, by, ex, ey, k, d) <=> Joins(ex, ey, ax, ay, bx, by, 0, k, d)
             /\ Reaches(bx, by, ex + ax, ey + ay, k, d) <=> Joins(ex, ey, ax, ay, bx, by, d, k, d)
  OBVIOUS
<1>2. /\ k * ax = d * (-ex) <=> d * ex + k * ax = 0 * bx
      /\ k * ax = d * (bx - ex) <=> d * ex + k * ax = d * bx
      /\ k * bx = d * ex <=> d * ex + 0 * ax = k * bx
      /\ k * bx = d * (ex + ax) <=> d * ex + d * ax = k * bx
  BY ReachedJoins
<1>3. /\ k * ay = d * (-ey) <=> d * ey + k * ay = 0 * by
      /\ k * ay = d * (by - ey) <=> d * ey + k * ay = d * by
      /\ k * by = d * ey <=> d * ey + 0 * ay = k * by
      /\ k * by = d * (ey + ay) <=> d * ey + d * ay = k * by
  BY ReachedJoins
<1> QED BY <1>2, <1>3, Zenon DEF Reaches, Joins

\* An end that lies on the other segment is a point of both.
LEMMA ReachedAreJoined ==
  ASSUME NEW ex \in Int, NEW ey \in Int, NEW ax \in Int, NEW ay \in Int,
         NEW bx \in Int, NEW by \in Int, AnEndIsReached(ex, ey, ax, ay, bx, by)
  PROVE  Joined(ex, ey, ax, ay, bx, by)
<1>1. \A d \in Nat \ {0} : 0 \in 0 .. d /\ d \in 0 .. d
  OBVIOUS
<1>2. \A d \in Nat \ {0} : \A k \in 0 .. d :
        /\ Reaches(ax, ay, -ex, -ey, k, d) <=> Joins(ex, ey, ax, ay, bx, by, k, 0, d)
        /\ Reaches(ax, ay, bx - ex, by - ey, k, d) <=> Joins(ex, ey, ax, ay, bx, by, k, d, d)
        /\ Reaches(bx, by, ex, ey, k, d) <=> Joins(ex, ey, ax, ay, bx, by, 0, k, d)
        /\ Reaches(bx, by, ex + ax, ey + ay, k, d) <=> Joins(ex, ey, ax, ay, bx, by, d, k, d)
  BY EndsJoin
<1>3. CASE IsReached(ax, ay, -ex, -ey)
  BY <1>1, <1>3, <1>2, Zenon DEF IsReached, Joined
<1>4. CASE IsReached(ax, ay, bx - ex, by - ey)
  BY <1>1, <1>4, <1>2, Zenon DEF IsReached, Joined
<1>5. CASE IsReached(bx, by, ex, ey)
  BY <1>1, <1>5, <1>2, Zenon DEF IsReached, Joined
<1>6. CASE IsReached(bx, by, ex + ax, ey + ay)
  BY <1>1, <1>6, <1>2, Zenon DEF IsReached, Joined
<1> QED BY <1>3, <1>4, <1>5, <1>6, Zenon DEF AnEndIsReached

\* Else a common point is inside of both.
LEMMA JoinedInside ==
  ASSUME NEW ex \in Int, NEW ey \in Int, NEW ax \in Int, NEW ay \in Int,
         NEW bx \in Int, NEW by \in Int, ~AnEndIsReached(ex, ey, ax, ay, bx, by),
         NEW d \in Nat \ {0}, NEW n \in 0 .. d, NEW m \in 0 .. d,
         Joins(ex, ey, ax, ay, bx, by, n, m, d)
  PROVE  0 < n /\ n < d /\ 0 < m /\ m < d
<1>1. \A k \in 0 .. d :
        /\ Reaches(ax, ay, -ex, -ey, k, d) <=> Joins(ex, ey, ax, ay, bx, by, k, 0, d)
        /\ Reaches(ax, ay, bx - ex, by - ey, k, d) <=> Joins(ex, ey, ax, ay, bx, by, k, d, d)
        /\ Reaches(bx, by, ex, ey, k, d) <=> Joins(ex, ey, ax, ay, bx, by, 0, k, d)
        /\ Reaches(bx, by, ex + ax, ey + ay, k, d) <=> Joins(ex, ey, ax, ay, bx, by, d, k, d)
  BY EndsJoin
<1>2. n \in 0 .. d /\ m \in 0 .. d
  OBVIOUS
<1>3. m # 0
  <2>1. ~Joins(ex, ey, ax, ay, bx, by, n, 0, d)
    BY <1>1, <1>2, Zenon DEF AnEndIsReached, IsReached
  <2> QED BY <2>1, Zenon
<1>4. m # d
  <2>1. ~Joins(ex, ey, ax, ay, bx, by, n, d, d)
    BY <1>1, <1>2, Zenon DEF AnEndIsReached, IsReached
  <2> QED BY <2>1, Zenon
<1>5. n # 0
  <2>1. ~Joins(ex, ey, ax, ay, bx, by, 0, m, d)
    BY <1>1, <1>2, Zenon DEF AnEndIsReached, IsReached
  <2> QED BY <2>1, Zenon
<1>6. n # d
  <2>1. ~Joins(ex, ey, ax, ay, bx, by, d, m, d)
    BY <1>1, <1>2, Zenon DEF AnEndIsReached, IsReached
  <2> QED BY <2>1, Zenon
<1> QED BY ONLY <1>3, <1>4, <1>5, <1>6, n \in 0 .. d, m \in 0 .. d, d \in Nat \ {0}

\* On which sides of the one segment the ends of the other lie.
IsBeside(ex, ey, ax, ay, bx, by, c, c1, c2, c3, c4) ==
  /\ c = ax * by - ay * bx
  /\ c1 = ay * ex - ax * ey /\ c2 = c1 + c
  /\ c3 = bx * ey - by * ex /\ c4 = c3 - c

\* How far the point where the lines meet is along each.
LEMMA JoinsBeside ==
  ASSUME NEW ex \in Int, NEW ey \in Int, NEW ax \in Int, NEW ay \in Int,
         NEW bx \in Int, NEW by \in Int, NEW c \in Int, NEW c1 \in Int, NEW c3 \in Int,
         c = ax * by - ay * bx, c1 = ay * ex - ax * ey, c3 = bx * ey - by * ex
  PROVE  /\ c * ex + c3 * ax = -c1 * bx
         /\ c * ey + c3 * ay = -c1 * by
<1>1. (ax * by - ay * bx) * ex + (bx * ey - by * ex) * ax = -(ay * ex - ax * ey) * bx
  OBVIOUS
<1>2. (ax * by - ay * bx) * ey + (bx * ey - by * ex) * ay = -(ay * ex - ax * ey) * by
  OBVIOUS
<1> QED BY <1>1, <1>2

\* As many parts of the way between the sides as along.
LieAlong(c, c1, c3, n, m, d) == d * c1 = -(m * c) /\ d * c3 = n * c

LEMMA JoinedBeside ==
  ASSUME NEW ex \in Int, NEW ey \in Int, NEW ax \in Int, NEW ay \in Int,
         NEW bx \in Int, NEW by \in Int,
         NEW c \in Int, NEW c1 \in Int, NEW c2 \in Int, NEW c3 \in Int, NEW c4 \in Int,
         IsBeside(ex, ey, ax, ay, bx, by, c, c1, c2, c3, c4),
         NEW d \in Nat \ {0}, NEW n \in 0 .. d, NEW m \in 0 .. d,
         Joins(ex, ey, ax, ay, bx, by, n, m, d)
  PROVE  LieAlong(c, c1, c3, n, m, d)
<1>1. c = ax * by - ay * bx /\ c1 = ay * ex - ax * ey /\ c3 = bx * ey - by * ex
  BY DEF IsBeside
<1>2. d * ex = m * bx - n * ax /\ d * ey = m * by - n * ay
  <2>1. PICK p \in Int, q \in Int, r \in Int, t \in Int, u \in Int, v \in Int :
          p = d * ex /\ q = d * ey /\ r = n * ax /\ t = n * ay /\ u = m * bx /\ v = m * by
    OBVIOUS
  <2> QED BY <2>1 DEF Joins
<1>3. d * c1 = ay * (d * ex) - ax * (d * ey)
  BY <1>1
<1>4. ay * (m * bx - n * ax) - ax * (m * by - n * ay) = -(m * c)
  BY <1>1
<1>5. d * c3 = bx * (d * ey) - by * (d * ex)
  BY <1>1
<1>6. bx * (m * by - n * ay) - by * (m * bx - n * ax) = n * c
  BY <1>1
<1> QED BY <1>2, <1>3, <1>4, <1>5, <1>6 DEF LieAlong

\* Segments each of which has its ends on both sides of the other have a point in common.
LEMMA CrossingAreJoined ==
  ASSUME NEW ex \in Int, NEW ey \in Int, NEW ax \in Int, NEW ay \in Int,
         NEW bx \in Int, NEW by \in Int,
         NEW c \in Int, NEW c1 \in Int, NEW c2 \in Int, NEW c3 \in Int, NEW c4 \in Int,
         IsBeside(ex, ey, ax, ay, bx, by, c, c1, c2, c3, c4),
         c1 * c2 < 0, c3 * c4 < 0
  PROVE  Joined(ex, ey, ax, ay, bx, by)
<1>1. /\ (c1 < 0 /\ c2 > 0) \/ (c1 > 0 /\ c2 < 0)
      /\ (c3 < 0 /\ c4 > 0) \/ (c3 > 0 /\ c4 < 0)
  <2>1. \A p \in Int, q \in Int : p * q < 0 => (p < 0 /\ q > 0) \/ (p > 0 /\ q < 0)
    <3>1. \A p \in Nat, q \in Nat : p * q >= 0 /\ (-p) * (-q) = p * q
      OBVIOUS
    <3>2. SUFFICES ASSUME NEW p \in Int, NEW q \in Int, p * q < 0
                   PROVE  (p < 0 /\ q > 0) \/ (p > 0 /\ q < 0)
      OBVIOUS
    <3>3. ~(p >= 0 /\ q >= 0)
      BY <3>1, <3>2
    <3>4. ~(p <= 0 /\ q <= 0)
      <4>1. p <= 0 /\ q <= 0 => -p \in Nat /\ -q \in Nat /\ -(-p) = p /\ -(-q) = q
        OBVIOUS
      <4> QED BY <3>1, <3>2, <4>1
    <3> QED BY ONLY <3>3, <3>4, p \in Int, q \in Int
  <2> QED BY <2>1
<1>2. c2 = c1 + c /\ c4 = c3 - c
  BY DEF IsBeside
<1>3. c * ex + c3 * ax = -c1 * bx /\ c * ey + c3 * ay = -c1 * by
  BY JoinsBeside DEF IsBeside
<1>4. CASE c > 0
  <2>1. c \in Nat \ {0} /\ c3 \in 0 .. c /\ -c1 \in 0 .. c
    BY ONLY <1>1, <1>2, <1>4, c \in Int, c1 \in Int, c2 \in Int, c3 \in Int, c4 \in Int
  <2>2. Joins(ex, ey, ax, ay, bx, by, c3, -c1, c)
    BY <1>3 DEF Joins
  <2> QED BY <2>1, <2>2, Zenon DEF Joined
<1>5. CASE c < 0
  <2>1. -c \in Nat \ {0} /\ -c3 \in 0 .. -c /\ c1 \in 0 .. -c
    BY ONLY <1>1, <1>2, <1>5, c \in Int, c1 \in Int, c2 \in Int, c3 \in Int, c4 \in Int
  <2>2. ASSUME NEW g \in Int, NEW a \in Int, NEW b \in Int, c * g + c3 * a = -c1 * b
        PROVE  -c * g + -c3 * a = c1 * b
    <3>1. PICK u \in Int, v \in Int, w \in Int : u = c * g /\ v = c3 * a /\ w = c1 * b
      OBVIOUS
    <3>2. -c * g = -u /\ -c3 * a = -v /\ -c1 * b = -w
      BY <3>1
    <3> QED BY ONLY <2>2, <3>1, <3>2, u \in Int, v \in Int, w \in Int
  <2>3. -c * ex + -c3 * ax = c1 * bx /\ -c * ey + -c3 * ay = c1 * by
    BY <1>3, <2>2
  <2>4. Joins(ex, ey, ax, ay, bx, by, -c3, c1, -c)
    BY <2>3 DEF Joins
  <2> QED BY <2>1, <2>4, Zenon DEF Joined
<1>6. c # 0
  BY <1>1, <1>2
<1> QED BY <1>4, <1>5, <1>6

\* Opposite sides, from how far along the common point is.
LEMMA SidesOfParts ==
  ASSUME NEW d \in Nat \ {0}, NEW n \in 1 .. d - 1, NEW c \in Int, c # 0,
         NEW a \in Int, d * a = n * c
  PROVE  a * (a - c) < 0
<1>1. d * (a - c) = -((d - n) * c)
  <2>1. PICK u \in Int, v \in Int, w \in Int : u = d * a /\ v = d * c /\ w = n * c
    OBVIOUS
  <2>2. d * (a - c) = u - v /\ (d - n) * c = v - w
    BY <2>1
  <2> QED BY <2>1, <2>2
<1>2. n \in Nat \ {0} /\ d - n \in Nat \ {0}
  OBVIOUS
<1>3. \A k \in Nat \ {0}, x \in Int : (k * x > 0 <=> x > 0) /\ (k * x < 0 <=> x < 0)
  <2>1. SUFFICES ASSUME NEW k \in Nat \ {0}, NEW x \in Int
                 PROVE  (k * x > 0 <=> x > 0) /\ (k * x < 0 <=> x < 0)
    OBVIOUS
  <2>2. k * 0 = 0
    OBVIOUS
  <2>3. (k * x <= k * 0 <=> x <= 0) /\ (k * 0 <= k * x <=> 0 <= x)
    BY Factors
  <2> QED BY <2>2, <2>3
<1>4. PICK b \in Int : b = a - c
  OBVIOUS
<1>5. (a > 0 /\ b < 0) \/ (a < 0 /\ b > 0)
  <2>1. (d * a > 0 <=> c > 0) /\ (d * a < 0 <=> c < 0)
    BY <1>2, <1>3
  <2>2. PICK w \in Int : w = (d - n) * c
    OBVIOUS
  <2>3. (w > 0 <=> c > 0) /\ (w < 0 <=> c < 0)
    BY <1>2, <1>3, <2>2
  <2>4. d * b = -w
    BY <1>1, <1>4, <2>2
  <2>5. (d * a > 0 <=> a > 0) /\ (d * a < 0 <=> a < 0) /\ (d * b > 0 <=> b > 0) /\ (d * b < 0 <=> b < 0)
    BY <1>3
  <2>6. PICK y \in Int, z \in Int : y = d * a /\ z = d * b
    OBVIOUS
  <2> QED BY ONLY c \in Int, c # 0, a \in Int, b \in Int, w \in Int, y \in Int, z \in Int, <2>1, <2>3, <2>4, <2>5, <2>6
<1>6. \A x \in Int, y \in Int : x > 0 /\ y < 0 => x * y < 0
  <2>1. SUFFICES ASSUME NEW x \in Int, NEW y \in Int, x > 0, y < 0 PROVE x * y < 0
    OBVIOUS
  <2>2. x \in Nat \ {0}
    BY <2>1
  <2>3. (x * 0 <= x * y <=> 0 <= y) /\ x * 0 = 0
    BY <2>2, Factors
  <2> QED BY <2>1, <2>3
<1>7. a * b = b * a
  OBVIOUS
<1> QED BY <1>4, <1>5, <1>6, <1>7

\* Segments with a common point inside of both that do not run along each other
\* have their ends on both sides.
LEMMA JoinedCross ==
  ASSUME NEW ex \in Int, NEW ey \in Int, NEW ax \in Int, NEW ay \in Int,
         NEW bx \in Int, NEW by \in Int,
         NEW c \in Int, NEW c1 \in Int, NEW c2 \in Int, NEW c3 \in Int, NEW c4 \in Int,
         IsBeside(ex, ey, ax, ay, bx, by, c, c1, c2, c3, c4), c # 0,
         Joined(ex, ey, ax, ay, bx, by), ~AnEndIsReached(ex, ey, ax, ay, bx, by)
  PROVE  c1 * c2 < 0 /\ c3 * c4 < 0
<1>1. PICK d \in Nat \ {0} : \E n \in 0 .. d : \E m \in 0 .. d : Joins(ex, ey, ax, ay, bx, by, n, m, d)
  BY DEF Joined
<1>2. PICK n \in 0 .. d, m \in 0 .. d : Joins(ex, ey, ax, ay, bx, by, n, m, d)
  BY <1>1
<1>3. n \in 1 .. d - 1 /\ m \in 1 .. d - 1
  <2>1. 0 < n /\ n < d /\ 0 < m /\ m < d
    BY <1>2, JoinedInside
  <2> QED BY <2>1
<1>4. d * c1 = -(m * c) /\ d * c3 = n * c
  <2>1. LieAlong(c, c1, c3, n, m, d)
    BY <1>2, JoinedBeside
  <2> QED BY <2>1 DEF LieAlong
<1>5. c2 = c1 + c /\ c4 = c3 - c
  BY DEF IsBeside
<1>6. c3 * c4 < 0
  BY <1>3, <1>4, <1>5, SidesOfParts
<1>7. c1 * c2 < 0
  <2>1. -c \in Int /\ -c # 0 /\ m * (-c) = -(m * c) /\ c2 = c1 - (-c)
    BY <1>5
  <2> QED BY <1>3, <1>4, <2>1, SidesOfParts
<1> QED BY <1>6, <1>7

\* Segments with a common point that run along each other: an end of one lies on
\* the other.
LEMMA JoinedAlong ==
  ASSUME NEW ex \in Int, NEW ey \in Int, NEW ax \in Int, NEW ay \in Int,
         NEW bx \in Int, NEW by \in Int, ax * by - ay * bx = 0,
         Joined(ex, ey, ax, ay, bx, by)
  PROVE  AnEndIsReached(ex, ey, ax, ay, bx, by)
<1>1. SUFFICES ASSUME ~AnEndIsReached(ex, ey, ax, ay, bx, by) PROVE FALSE
  BY Zenon
<1>2. PICK d \in Nat \ {0} : \E n \in 0 .. d : \E m \in 0 .. d : Joins(ex, ey, ax, ay, bx, by, n, m, d)
  BY DEF Joined
<1>3. PICK n \in 0 .. d, m \in 0 .. d : Joins(ex, ey, ax, ay, bx, by, n, m, d)
  BY <1>2
<1>4. 0 < n /\ n < d /\ 0 < m /\ m < d
  BY <1>1, <1>3, JoinedInside
<1>5. ax # 0 \/ ay # 0
  <2>1. SUFFICES ASSUME ax = 0, ay = 0 PROVE FALSE
    OBVIOUS
  <2>2. Joins(ex, ey, ax, ay, bx, by, 0, m, d)
    <3>1. n * ax = 0 * ax /\ n * ay = 0 * ay
      BY <2>1
    <3> QED BY <1>3, <3>1 DEF Joins
  <2>3. 0 \in 0 .. d
    OBVIOUS
  <2>4. 0 < 0 /\ 0 < d /\ 0 < m /\ m < d
    BY <1>1, <2>2, <2>3, JoinedInside
  <2> QED BY <2>4
<1>6. PICK len \in Int, k \in Int, p \in Int :
        len = ax * ax + ay * ay /\ k = ax * bx + ay * by /\ p = -(ax * ex + ay * ey)
  OBVIOUS
<1>7. d * p = n * len - m * k
  <2>1. d * ex = m * bx - n * ax /\ d * ey = m * by - n * ay
    <3>1. PICK a \in Int, b \in Int, r \in Int, t \in Int, u \in Int, v \in Int :
            a = d * ex /\ b = d * ey /\ r = n * ax /\ t = n * ay /\ u = m * bx /\ v = m * by
      OBVIOUS
    <3> QED BY <1>3, <3>1 DEF Joins
  <2>2. d * p = -(ax * (d * ex) + ay * (d * ey))
    BY <1>6
  <2>3. -(ax * (m * bx - n * ax) + ay * (m * by - n * ay)) = n * len - m * k
    BY <1>6
  <2> QED BY <2>1, <2>2, <2>3
<1>8. ax * by = ay * bx
  <2>1. PICK u \in Int, v \in Int : u = ax * by /\ v = ay * bx
    OBVIOUS
  <2> QED BY <2>1
<1>9. len * bx = k * ax /\ len * by = k * ay
  <2>1. len * bx = ax * (ax * bx) + ay * (ay * bx) /\ len * by = ax * (ax * by) + ay * (ay * by)
    BY <1>6
  <2>2. k * ax = ax * (ax * bx) + ay * (ax * by) /\ k * ay = ax * (ay * bx) + ay * (ay * by)
    BY <1>6
  <2> QED BY <1>8, <2>1, <2>2
<1>10. len > 0
  BY <1>5, <1>6, SquaresVanish
<1>11. p <= 0 \/ p >= len
  <2>1. (-ex) * ay - (-ey) * ax = 0
    <3>1. PICK u \in Int : u = ay * (-ex) - ax * (-ey) /\ u = (-ex) * ay - (-ey) * ax
      <4>1. ay * (-ex) - ax * (-ey) \in Int /\ (-ex) * ay = ay * (-ex) /\ (-ey) * ax = ax * (-ey)
        OBVIOUS
      <4> QED BY <4>1
    <3>2. d * u = 0
      <4>1. d * ex = m * bx - n * ax /\ d * ey = m * by - n * ay
        <5>1. PICK a \in Int, b \in Int, r \in Int, t \in Int, v \in Int, w \in Int :
                a = d * ex /\ b = d * ey /\ r = n * ax /\ t = n * ay /\ v = m * bx /\ w = m * by
          OBVIOUS
        <5> QED BY <1>3, <5>1 DEF Joins
      <4>2. d * u = ax * (d * ey) - ay * (d * ex)
        BY <3>1
      <4>3. ax * (m * by - n * ay) - ay * (m * bx - n * ax) = m * (ax * by - ay * bx)
        OBVIOUS
      <4>4. m * 0 = 0
        OBVIOUS
      <4> QED BY <4>1, <4>2, <4>3, <4>4
    <3>3. d * 0 = 0
      OBVIOUS
    <3>4. u = 0
      BY <3>2, <3>3, Factors
    <3> QED BY <3>1, <3>4
  <2>2. p = (-ex) * ax + (-ey) * ay
    BY <1>6
  <2>3. -ex \in Int /\ -ey \in Int
    OBVIOUS
  <2>4. OnceReached(ax, ay, -ex, -ey, p, len)
    BY <1>5, <1>6, <2>2, <2>3, PointsReached
  <2>5. (0 < p /\ p < len) => IsReached(ax, ay, -ex, -ey)
    BY <2>1, <2>4 DEF OnceReached
  <2>6. ~IsReached(ax, ay, -ex, -ey)
    BY <1>1, Zenon DEF AnEndIsReached
  <2> QED BY ONLY <2>5, <2>6, p \in Int, len \in Int
<1>12. PICK nl \in Int, dl \in Int, mk \in Int, dk \in Int, dp \in Int :
         nl = n * len /\ dl = d * len /\ mk = m * k /\ dk = d * k /\ dp = d * p
  OBVIOUS
<1>13. dp = nl - mk
  BY <1>7, <1>12
<1>14. 0 < nl /\ nl < dl
  <2>1. len \in Nat \ {0} /\ nl = len * n /\ dl = len * d /\ len * 0 = 0
    BY <1>10, <1>12
  <2>2. (len * n <= len * 0 <=> n <= 0) /\ (len * d <= len * n <=> d <= n)
    BY <2>1, Factors
  <2> QED BY <1>4, <2>1, <2>2
<1>15. /\ (0 < mk <=> 0 < k) /\ (mk < 0 <=> k < 0)
       /\ (k > 0 => mk < dk) /\ (k < 0 => dk < mk)
  <2>1. m \in Nat \ {0} /\ m * 0 = 0
    BY <1>4
  <2>2. (m * k <= m * 0 <=> k <= 0) /\ (m * 0 <= m * k <=> 0 <= k)
    BY <2>1, Factors
  <2>3. d - m \in Nat \ {0} /\ (d - m) * 0 = 0 /\ (d - m) * k = dk - mk
    BY <1>4, <1>12
  <2>4. ((d - m) * k <= (d - m) * 0 <=> k <= 0) /\ ((d - m) * 0 <= (d - m) * k <=> 0 <= k)
    BY <2>3, Factors
  <2> QED BY ONLY <1>12, <2>1, <2>2, <2>3, <2>4, k \in Int, mk \in Int, dk \in Int
\* The one begins before the other, whose begin it therefore goes through;
<1>16. CASE p <= 0
  <2>1. dp <= 0
    <3>1. (d * p <= d * 0 <=> p <= 0) /\ d * 0 = 0
      BY Factors
    <3> QED BY <1>12, <1>16, <3>1
  <2>2. dk \in Nat \ {0} /\ mk - nl \in 0 .. dk
    BY ONLY <1>13, <1>14, <1>15, <2>1, k \in Int, mk \in Int, dk \in Int, nl \in Int, dl \in Int, dp \in Int
  <2>3. ASSUME NEW e \in Int, NEW a \in Int, NEW b \in Int, len * b = k * a, d * e + n * a = m * b
        PROVE  (mk - nl) * b = dk * e
    <3>1. (m * k - n * len) * b = k * (m * b) - n * (len * b)
      BY <1>6
    <3>2. n * (k * a) = k * (n * a)
      BY <1>6
    <3>3. k * (d * e + n * a) - k * (n * a) = (d * k) * e
      BY <1>6
    <3> QED BY <1>12, <2>3, <3>1, <3>2, <3>3
  <2>4. Reaches(bx, by, ex, ey, mk - nl, dk)
    BY <1>3, <1>9, <2>3 DEF Reaches, Joins
  <2>5. IsReached(bx, by, ex, ey)
    BY <2>2, <2>4, Zenon DEF IsReached
  <2> QED BY <1>1, <2>5, Zenon DEF AnEndIsReached
\* or past the end of the other, which it goes through.
<1>17. CASE p >= len
  <2>1. dp >= dl
    <3>1. d * len <= d * p <=> len <= p
      BY <1>6, Factors
    <3> QED BY <1>12, <1>17, <3>1
  <2>2. -dk \in Nat \ {0} /\ nl - dl - mk \in 0 .. -dk
    BY ONLY <1>13, <1>14, <1>15, <2>1, k \in Int, mk \in Int, dk \in Int, nl \in Int, dl \in Int, dp \in Int
  <2>3. PICK w \in Int, g \in Int : w = nl - dl - mk /\ g = -dk
    OBVIOUS
  <2> DEFINE Scales(u, b, v, e) == u * b = v * e
  <2>4. ASSUME NEW e \in Int, NEW a \in Int, NEW b \in Int,
               Scales(len, b, k, a), d * e + n * a = m * b
        PROVE  Scales(w, b, g, e + a)
    <3>1. (n * len - d * len - m * k) * b = (n - d) * (len * b) - k * (m * b)
      BY <1>6
    <3>2. (n - d) * (k * a) - k * (d * e + n * a) = (-(d * k)) * (e + a)
      BY <1>6
    <3>3. w = n * len - d * len - m * k /\ g = -(d * k)
      BY <1>12, <2>3
    <3> QED BY <2>4, <3>1, <3>2, <3>3
  <2>5. Reaches(bx, by, ex + ax, ey + ay, w, g)
    <3>1. Scales(len, bx, k, ax) /\ Scales(len, by, k, ay)
      BY <1>9
    <3>2. d * ex + n * ax = m * bx /\ d * ey + n * ay = m * by
      BY <1>3 DEF Joins
    <3> HIDE DEF Scales
    <3>3. Scales(w, bx, g, ex + ax)
      BY <2>4, <3>1, <3>2
    <3>4. Scales(w, by, g, ey + ay)
      BY <2>4, <3>1, <3>2
    <3> QED BY <3>3, <3>4 DEF Reaches, Scales
  <2>6. IsReached(bx, by, ex + ax, ey + ay)
    BY <2>2, <2>3, <2>5, Zenon DEF IsReached
  <2> QED BY <1>1, <2>6, Zenon DEF AnEndIsReached
<1> QED BY <1>11, <1>16, <1>17

\* What two segments have in common.
Share(s, o) ==
  \E d \in Nat \ {0} : \E n \in 0 .. d : \E m \in 0 .. d :
    /\ PartWay(s.start.x, s.end.x, n, d) = PartWay(o.start.x, o.end.x, m, d)
    /\ PartWay(s.start.y, s.end.y, n, d) = PartWay(o.start.y, o.end.y, m, d)

\* GetIntersect (line_segment2d.cc) finds a point of two segments if and only if
\* they have one in common, whether they cross, touch, run along each other or are
\* points: first its tests of the four ends, then that each has its ends on both
\* sides of the other.
THEOREM IntersectionsAreFound ==
  ASSUME NEW s \in Segments, NEW o \in Segments
  PROVE  HasIntersect(s, o) <=> Share(s, o)
<1>1. PICK x1 \in Int, y1 \in Int, x2 \in Int, y2 \in Int, u1 \in Int, v1 \in Int, u2 \in Int, v2 \in Int :
        /\ x1 = s.start.x /\ y1 = s.start.y /\ x2 = s.end.x /\ y2 = s.end.y
        /\ u1 = o.start.x /\ v1 = o.start.y /\ u2 = o.end.x /\ v2 = o.end.y
  BY DEF Segments, Points
<1>2. PICK ex \in Int, ey \in Int, ax \in Int, ay \in Int, bx \in Int, by \in Int :
        /\ ex = x1 - u1 /\ ey = y1 - v1
        /\ ax = x2 - x1 /\ ay = y2 - y1 /\ bx = u2 - u1 /\ by = v2 - v1
  OBVIOUS
<1>3. PICK c \in Int, c1 \in Int, c2 \in Int, c3 \in Int, c4 \in Int :
        IsBeside(ex, ey, ax, ay, bx, by, c, c1, c2, c3, c4)
  <2>1. PICK c \in Int, c1 \in Int, c3 \in Int :
          c = ax * by - ay * bx /\ c1 = ay * ex - ax * ey /\ c3 = bx * ey - by * ex
    OBVIOUS
  <2>2. c1 + c \in Int /\ c3 - c \in Int
    OBVIOUS
  <2> QED BY <2>1, <2>2 DEF IsBeside
<1>4. s.start \in Points /\ s.end \in Points /\ o.start \in Points /\ o.end \in Points
  BY DEF Segments
<1>5. /\ SegmentPointIn(s, o.start) <=> IsReached(ax, ay, -ex, -ey)
      /\ SegmentPointIn(s, o.end) <=> IsReached(ax, ay, bx - ex, by - ey)
      /\ SegmentPointIn(o, s.start) <=> IsReached(bx, by, ex, ey)
      /\ SegmentPointIn(o, s.end) <=> IsReached(bx, by, ex + ax, ey + ay)
  <2>1. SegmentPointIn(s, o.start) <=> IsReached(ax, ay, -ex, -ey)
    <3>1. u1 - x1 = -ex /\ v1 - y1 = -ey
      BY <1>2
    <3>2. GoesThrough(x1, y1, x2, y2, u1, v1) <=> IsReached(x2 - x1, y2 - y1, u1 - x1, v1 - y1)
      BY ThroughIsReached
    <3> QED BY <1>1, <1>2, <1>4, <3>1, <3>2, PointInIs
  <2>2. SegmentPointIn(s, o.end) <=> IsReached(ax, ay, bx - ex, by - ey)
    <3>1. u2 - x1 = bx - ex /\ v2 - y1 = by - ey
      BY <1>2
    <3>2. GoesThrough(x1, y1, x2, y2, u2, v2) <=> IsReached(x2 - x1, y2 - y1, u2 - x1, v2 - y1)
      BY ThroughIsReached
    <3> QED BY <1>1, <1>2, <1>4, <3>1, <3>2, PointInIs
  <2>3. SegmentPointIn(o, s.start) <=> IsReached(bx, by, ex, ey)
    <3>2. GoesThrough(u1, v1, u2, v2, x1, y1) <=> IsReached(u2 - u1, v2 - v1, x1 - u1, y1 - v1)
      BY ThroughIsReached
    <3> QED BY <1>1, <1>2, <1>4, <3>2, PointInIs
  <2>4. SegmentPointIn(o, s.end) <=> IsReached(bx, by, ex + ax, ey + ay)
    <3>1. x2 - u1 = ex + ax /\ y2 - v1 = ey + ay
      BY <1>2
    <3>2. GoesThrough(u1, v1, u2, v2, x2, y2) <=> IsReached(u2 - u1, v2 - v1, x2 - u1, y2 - v1)
      BY ThroughIsReached
    <3> QED BY <1>1, <1>2, <1>4, <3>1, <3>2, PointInIs
  <2> QED BY <2>1, <2>2, <2>3, <2>4
<1>6. /\ CrossProd(Along(s), Minus(o.start, s.start)) = c1
      /\ CrossProd(Along(s), Minus(o.end, s.start)) = c2
      /\ CrossProd(Along(o), Minus(s.start, o.start)) = c3
      /\ CrossProd(Along(o), Minus(s.end, o.start)) = c4
  <2>1. Along(s) = Vec(ax, ay) /\ Along(o) = Vec(bx, by)
    BY <1>1, <1>2 DEF Along, Minus, Vec
  <2>2. /\ Minus(o.start, s.start) = Vec(-ex, -ey)
        /\ Minus(o.end, s.start) = Vec(bx - ex, by - ey)
        /\ Minus(s.start, o.start) = Vec(ex, ey)
        /\ Minus(s.end, o.start) = Vec(ex + ax, ey + ay)
    BY <1>1, <1>2 DEF Minus, Vec
  <2>3. /\ ax * (-ey) - ay * (-ex) = ay * ex - ax * ey
        /\ ax * (by - ey) - ay * (bx - ex) = (ay * ex - ax * ey) + (ax * by - ay * bx)
        /\ bx * (ey + ay) - by * (ex + ax) = (bx * ey - by * ex) - (ax * by - ay * bx)
    <3>1. ax * (-ey) - ay * (-ex) = ay * ex - ax * ey
      OBVIOUS
    <3>2. ax * (by - ey) - ay * (bx - ex) = (ay * ex - ax * ey) + (ax * by - ay * bx)
      OBVIOUS
    <3>3. bx * (ey + ay) - by * (ex + ax) = (bx * ey - by * ex) - (ax * by - ay * bx)
      OBVIOUS
    <3> QED BY <3>1, <3>2, <3>3
  <2>4. \A a, b, e, f : CrossProd(Vec(a, b), Vec(e, f)) = a * f - b * e
    BY DEF CrossProd, Vec
  <2> QED BY <1>3, <2>1, <2>2, <2>3, <2>4 DEF IsBeside
<1>7. HasIntersect(s, o) <=> \/ AnEndIsReached(ex, ey, ax, ay, bx, by)
                             \/ c1 * c2 < 0 /\ c3 * c4 < 0
  <2>1. c1 * c2 \in Int /\ c3 * c4 \in Int
    OBVIOUS
  <2>2. \A p : {p} # {}
    OBVIOUS
  <2>3. (c1 * c2 >= 0 \/ c3 * c4 >= 0) <=> ~(c1 * c2 < 0 /\ c3 * c4 < 0)
    BY <2>1
  <2> QED BY <1>5, <1>6, <2>2, <2>3, Zenon DEF HasIntersect, GetIntersect, AnEndIsReached
<1>8. Share(s, o) <=> Joined(ex, ey, ax, ay, bx, by)
  <2>1. ASSUME NEW p1 \in Int, NEW p2 \in Int, NEW q1 \in Int, NEW q2 \in Int,
               NEW d \in Nat \ {0}, NEW n \in 0 .. d, NEW m \in 0 .. d
        PROVE  PartWay(p1, p2, n, d) = PartWay(q1, q2, m, d) <=>
                 d * (p1 - q1) + n * (p2 - p1) = m * (q2 - q1)
    <3>1. PartWay(p1, p2, n, d) = d * p1 + n * (p2 - p1)
      BY DEF PartWay
    <3>2. PartWay(q1, q2, m, d) = d * q1 + m * (q2 - q1)
      BY DEF PartWay
    <3>3. d * (p1 - q1) = d * p1 - d * q1
      OBVIOUS
    <3>4. PICK a \in Int, b \in Int, e \in Int, f \in Int :
            a = d * p1 /\ b = d * q1 /\ e = n * (p2 - p1) /\ f = m * (q2 - q1)
      OBVIOUS
    <3> QED BY <3>1, <3>2, <3>3, <3>4
  <2>2. ASSUME NEW d \in Nat \ {0}, NEW n \in 0 .. d, NEW m \in 0 .. d
        PROVE  (/\ PartWay(x1, x2, n, d) = PartWay(u1, u2, m, d)
                /\ PartWay(y1, y2, n, d) = PartWay(v1, v2, m, d)) <=>
                 Joins(ex, ey, ax, ay, bx, by, n, m, d)
    <3>1. PartWay(x1, x2, n, d) = PartWay(u1, u2, m, d) <=> d * ex + n * ax = m * bx
      BY <1>2, <2>1
    <3>2. PartWay(y1, y2, n, d) = PartWay(v1, v2, m, d) <=> d * ey + n * ay = m * by
      BY <1>2, <2>1
    <3> QED BY <3>1, <3>2, Zenon DEF Joins
  <2> QED BY <1>1, <2>2, Zenon DEF Share, Joined
<1>9. c = ax * by - ay * bx
  BY <1>3 DEF IsBeside
<1>10. ASSUME AnEndIsReached(ex, ey, ax, ay, bx, by) \/ (c1 * c2 < 0 /\ c3 * c4 < 0)
       PROVE  Joined(ex, ey, ax, ay, bx, by)
  BY <1>3, <1>10, ReachedAreJoined, CrossingAreJoined
<1>11. ASSUME Joined(ex, ey, ax, ay, bx, by)
       PROVE  AnEndIsReached(ex, ey, ax, ay, bx, by) \/ (c1 * c2 < 0 /\ c3 * c4 < 0)
  <2>1. CASE c = 0
    <3>1. AnEndIsReached(ex, ey, ax, ay, bx, by)
      BY <1>9, <1>11, <2>1, JoinedAlong
    <3> QED BY <3>1
  <2>2. CASE c # 0
    BY <1>3, <1>11, <2>2, JoinedCross
  <2> QED BY <2>1, <2>2
<1> QED BY <1>7, <1>8, <1>10, <1>11

=============================================================================
