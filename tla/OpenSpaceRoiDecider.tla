------------------------ MODULE OpenSpaceRoiDecider ------------------------
(***************************************************************************)
(* The region-of-interest decider of open_space_roi_decider.cc, as a       *)
(* function: Process(memory, lot, pose) is what one call answers and what  *)
(* the decider remembers.  Lengths are whole numbers of 5 cm, headings     *)
(* numbers of quarter turns; lots are rectangles along the axes, whose     *)
(* corners may be labelled in any order.                                   *)
(*                                                                         *)
(* avp_enable_parking_inwards and enable_adapt_lidar_sensor_roi are FALSE  *)
(* in this build and nothing sets them, so that the car always backs into  *)
(* a lot and the larger region is never used.                              *)
(***************************************************************************)
EXTENDS Geometry

CONSTANT Vehicle \* front, back, half_width: edges from the rear axle's centre

Width == 2 * Vehicle.half_width
VehicleLength == Vehicle.front + Vehicle.back

(* RoiDeciderConfig *)
vertical_min_parklot_lateral_buffer == 2
lateral_min_parklot_lateral_buffer == 2
lateral_slot_longitudinal_buffer == 10
parking_depth_buffer == 4
roi_longitudinal_range == 160
vertical_expand_buffer == 20
lateral_expand_buffer == 140
lateral_expand_bottom_buffer == 10
roi_slack_distance == 20
roi_edge_buffer == 20
open_space_lane_width == 120
kFspSensorRange == 400

\* A lot: its type, what the HMI says of its size, and its corners
\* <<left_top, left_down, right_down, right_top>> as they are labelled.
LotTypes == {"VERTICAL", "OBLIQUE", "LATERAL", "NONE"}

Upright(type) == type \in {"VERTICAL", "OBLIQUE"}

Half(v) == Vec(v.x \div 2, v.y \div 2)

Middle(v, w) == Half(Plus(v, w))

Distance(v, w) == Length(Minus(v, w))

-----------------------------------------------------------------------------
(* ExtractVertices *)

\* AverageEdgeLength
AverageEdgeLength(a, b, c, d) == (Distance(a, b) + Distance(c, d)) \div 2

\* ComputeOpeningFacingScore, times 20 (0.35 = 7/20)
OpeningFacingScore(v, position) ==
  LET opening == Middle(v[1], v[4])
      rear == Middle(v[2], v[3])
      inward == UnitVec(Angle(Minus(rear, opening)))
  IN 20 * InnerProd(Minus(position, opening), inward)
     + 7 * InnerProd(Minus(position, Middle(opening, rear)), inward)

\* Whether sqrt(a) + 1 < sqrt(b): nearer by more than kDistanceSwitchMargin.  Of
\* points within 1 km of each other a difference above 40000 is always enough.
Nearer(a, b) ==
  LET d == b - a - 1
  IN d > 40000 \/ (d > 0 /\ 4 * a < d * d)

\* ShouldPreferOpeningCandidate; kScoreSwitchMargin is 3 units.
PrefersOpening(candidate, current, position) ==
  LET score(v) == OpeningFacingScore(v, position)
      distance(v) == DistanceSquareTo(Middle(v[1], v[4]), position)
  IN \/ score(candidate) + 60 < score(current)
     \/ /\ score(candidate) <= score(current) + 60
        /\ Nearer(distance(candidate), distance(current))

\* NormalizeVerticesForSlotGeometry: the axis that the HMI's width and depth
\* name, and the opening that faces the vehicle.
NormalizedVertices(lot, position) ==
  LET v == lot.vertices
      Abs(n) == IF n < 0 THEN -n ELSE n
      a == AverageEdgeLength(v[1], v[2], v[4], v[3])
      b == AverageEdgeLength(v[1], v[4], v[2], v[3])
      keep == Abs(a - lot.depth) + Abs(b - lot.width)
      swap == Abs(a - lot.width) + Abs(b - lot.depth)
      current   == IF swap < keep THEN <<v[1], v[4], v[3], v[2]>> ELSE v
      candidate == IF swap < keep THEN <<v[4], v[1], v[2], v[3]>>
                                  ELSE <<v[3], v[4], v[1], v[2]>>
  IN IF ~Upright(lot.type) THEN v
     ELSE IF PrefersOpening(candidate, current, position) THEN candidate ELSE current

\* ComputePlannerTargetHeadingForSlot: out of the lot.
TargetHeading(v) == (Angle(Minus(v[2], v[1])) + 2) % 4

\* BuildMirroredOpeningVertices
Mirrored(v) == <<v[2], v[1], v[4], v[3]>>

\* StabilizeSlotOpeningForLocalGoal: of the headings, only that of half a turn is
\* further than a quarter turn from the axis.
StabilizedVertices(v) ==
  IF TargetHeading(v) = 2 /\ TargetHeading(Mirrored(v)) # 2 THEN Mirrored(v) ELSE v

Vertices(lot, position) ==
  LET v == NormalizedVertices(lot, position)
  IN IF Upright(lot.type) THEN StabilizedVertices(v) ELSE v

-----------------------------------------------------------------------------
(* The checks and the goal *)

\* Mutant: the depth is not looked at.
LotStatusOfWidth(type, v) ==
  IF ~IsConvexPolygon(v) THEN "NONCONVEX"
  ELSE IF Upright(type) /\ Distance(v[1], v[4]) < Width THEN "SMALL" ELSE "NORMAL"

\* CheckReceiveParkinglot
LotStatus(type, v) ==
  LET depth == (Distance(v[1], v[2]) + Distance(v[4], v[3])) \div 2
      width == (Distance(v[1], v[4]) + Distance(v[2], v[3])) \div 2
  IN IF ~IsConvexPolygon(v) THEN "NONCONVEX"
     ELSE IF \/ /\ Upright(type)
                /\ \/ depth < VehicleLength
                   \/ width < Width + vertical_min_parklot_lateral_buffer
             \/ /\ type = "LATERAL"
                /\ \/ depth < Width + lateral_min_parklot_lateral_buffer
                   \/ width < VehicleLength + lateral_slot_longitudinal_buffer
     THEN "SMALL" ELSE "NORMAL"

\* The point in the frame of the vehicle: x ahead, y to the left.
ENUToVRF(p, pose) == Rotated(Minus(p, pose), -pose.heading)

\* IsParkLotInRightSide compares how far the corners are to the left.
IsParkLotInRightSide(v, pose) == ENUToVRF(v[4], pose).y > ENUToVRF(v[1], pose).y

Pose(p, heading) == [x |-> p.x, y |-> p.y, heading |-> heading % 4]

\* SetNonLateralSlotEndPose: backwards into the lot.  The projection of an
\* oblique lot does not move the corners of a rectangle.
NonLateralSlotEndPose(v) ==
  LET inward == Angle(Minus(v[2], v[1]))
  IN Pose(Plus(Middle(v[1], v[4]),
               Scaled(Vehicle.front + parking_depth_buffer, UnitVec(inward))), inward + 2)

\* SetLateralSlotEndPose
LateralSlotEndPose(v, is_right_side) ==
  LET along == Angle(Minus(v[4], v[1]))
      heading == IF is_right_side THEN along ELSE along + 2
      rear_axis_to_center == (Vehicle.front - Vehicle.back) \div 2
  IN Pose(Plus(Plus(Middle(v[1], v[4]), Scaled(rear_axis_to_center, UnitVec(heading + 2))),
               Scaled(parking_depth_buffer + Vehicle.half_width,
                      UnitVec(Angle(Minus(v[3], v[4]))))), heading)

\* A lot of no type leaves the goal where it was created.
EndPose(type, v, is_right_side) ==
  CASE Upright(type)    -> NonLateralSlotEndPose(v)
    [] type = "LATERAL" -> LateralSlotEndPose(v, is_right_side)
    [] OTHER            -> Pose(Vec(0, 0), 0)

\* VehicleConfigHelper::GetBoundingBox
VehicleBox(pose) ==
  Box(Plus(pose, Scaled((Vehicle.front - Vehicle.back) \div 2, UnitVec(pose.heading))),
      pose.heading, VehicleLength \div 2, Vehicle.half_width)

-----------------------------------------------------------------------------
(* The region: its polygon, and the box around it in the lot's frame *)

\* CalculateAdcHeight
AdcHeight(pose, bottom) ==
  Max({LET d == ProductOntoUnit(bottom, c) IN IF d < 0 THEN -d ELSE d :
         c \in Corners(VehicleBox(pose))})

\* Twice road_width_, which only grows.
RoadWidth(memory, v, pose) ==
  Max({memory.road, AdcHeight(pose, Segment(v[2], v[3])) - Distance(v[1], v[2]) + 50})

\* How much a region is wider than the lot.
EdgeExpandBuffer(type, top) ==
  IF type = "LATERAL" THEN VehicleLength + lateral_expand_buffer - Length(Along(top))
  ELSE Width + vertical_expand_buffer - Length(Along(top))

\* CalculateInnerRoi: the lane in front of the lot, with the lot as a recess.
\* The edges that are lengthened are used only when the recess is widened.
InnerRoi(type, v, road) ==
  LET top == Segment(v[1], v[4])
      along == Heading(top)
      buffer == EdgeExpandBuffer(type, top)
      down == IF type = "LATERAL" THEN lateral_expand_bottom_buffer ELSE 0
      left == Translated(Extended(Segment(v[1], v[2]), down), buffer \div 2, along + 2)
      right == Translated(Extended(Segment(v[4], v[3]), down), buffer \div 2, along)
      recess == IF buffer > 2 THEN <<left.start, left.end, right.end, right.start>> ELSE v
      range == roi_longitudinal_range - Length(Along(top)) \div 2
      lane == Extended(Translated(top, range, along + 2), 2 * range)
      far == Translated(lane, road, along + 1)
  IN <<lane.start>> \o recess \o <<lane.end, far.end, far.start>>

\* Point k of a polygon, counted round.
PointAt(points, k) == points[((k - 1) % Len(points)) + 1]

\* The edge that ends in point i, lengthened at both ends.
SlackLine(points, i) ==
  LET s == Segment(PointAt(points, i - 1), PointAt(points, i))
  IN Extended(Translated(s, roi_slack_distance, Heading(s) + 2), 2 * roi_slack_distance)

\* The way out of the polygon for the edge that ends in point i.
Outwards(points, i) ==
  LET n == Len(points)
  IN Heading(Segment(PointAt(points, i), PointAt(points, i + 1)))
     + (IF Turn(points, ((i + n - 2) % n) + 1) > 0 THEN 2 ELSE 0)

EndOf(meeting, p) == IF meeting = {} THEN p ELSE CHOOSE q \in meeting : TRUE

\* Edge i has moved to the lane; only the edges before the last are cut.
MovedEdge(points, slack, i, lane, hit) ==
  LET end(other, p) == IF i < Len(points) THEN EndOf(GetIntersect(lane, other), p) ELSE p
      \* the edge of i - 2 is the one before the last, seen from the first
  IN [points |-> [points EXCEPT
        ![i - 1] = end(SlackLine(points, i + Len(points) - 1), lane.start),
        ![i] = end(SlackLine(points, i + 1), lane.end)],
      slack |-> IF hit THEN [slack EXCEPT ![i] = @ + roi_slack_distance] ELSE slack]

HitEdge(points, slack, i, moved, outwards, hit) ==
  MovedEdge(points, slack, i,
            IF hit THEN Translated(moved, roi_slack_distance, outwards) ELSE moved, hit)

TouchedEdge(points, slack, i, boxes, moved, outwards) ==
  HitEdge(points, slack, i, moved, outwards, \E b \in boxes : BoxHasOverlap(b, moved))

\* RoiBoundarySlack: each edge that touches the vehicle or its goal is moved
\* outwards, and stays moved; its ends are where it meets the edges beside it.
SlackEdge(points, slack, i, boxes) ==
  TouchedEdge(points, slack, i, boxes,
              Translated(Segment(PointAt(points, i - 1), PointAt(points, i)),
                         slack[i], Outwards(points, i)),
              Outwards(points, i))

RoiBoundarySlack(points, last_slack, pose, goal) ==
  LET boxes == {LateralExtend(VehicleBox(pose), roi_edge_buffer), VehicleBox(goal)}
      begin == [points |-> points,
                slack |-> IF Len(last_slack) = Len(points) THEN last_slack
                          ELSE [i \in DOMAIN points |-> 0]]
  IN FoldLeft(LAMBDA roi, i : SlackEdge(roi.points, roi.slack, i, boxes),
              begin, [i \in 1 .. Len(points) - 1 |-> i + 1])

\* ClipPolygonToAabb, one side: what lies on the inner side of the line of points
\* whose coordinate inwards is least.
ClipSide(points, least, inwards) ==
  LET depth(p) == InnerProd(p, UnitVec(inwards)) - least
      cut(p) == Minus(p, Scaled(depth(p), UnitVec(inwards)))
      piece(i) ==
        LET cur == points[i]
            prv == points[((i + Len(points) - 2) % Len(points)) + 1]
            \* an edge along an axis crosses the side at a right angle
        IN (IF depth(cur) * depth(prv) < 0 \/ (depth(cur) = 0 /\ depth(prv) < 0)
               \/ (depth(prv) = 0 /\ depth(cur) < 0)
            THEN <<cut(prv)>> ELSE <<>>) \o
           (IF depth(cur) >= 0 THEN <<cur>> ELSE <<>>)
  IN FlattenSeq([i \in DOMAIN points |-> piece(i)])

ClipPolygonToAabb(points, center, range) ==
  FoldLeft(LAMBDA rest, q : ClipSide(rest, InnerProd(center, UnitVec(q)) - range, q),
           points, <<0, 2, 1, 3>>)

\* A point in the frame of the lot.
ToLocalPoint(p, origin) == Rotated(Minus(p, origin), -origin.heading)

Bounds(xmin, xmax, ymin, ymax) == [xmin |-> xmin, xmax |-> xmax, ymin |-> ymin, ymax |-> ymax]

BoundsOf(points) ==
  Bounds(Min({p.x : p \in points}), Max({p.x : p \in points}),
         Min({p.y : p \in points}), Max({p.y : p \in points}))

\* ExpandRoiBoundaryToIncludePoint
Expanded(bounds, p, padding, sensed) ==
  Bounds(Max({sensed.xmin, Min({bounds.xmin, p.x - padding})}),
         Min({sensed.xmax, Max({bounds.xmax, p.x + padding})}),
         Max({sensed.ymin, Min({bounds.ymin, p.y - padding})}),
         Min({sensed.ymax, Max({bounds.ymax, p.y + padding})}))

\* TransRoiAndSetBoundary and the rest of GetParkingBoundary.  Of a polygon that
\* the sensed area cuts away the code reads a first point that does not exist.
ParkingBounds(points, origin, pose, goal) ==
  LET local == {ToLocalPoint(p, origin) : p \in Range(points)}
      sensed == BoundsOf({ToLocalPoint(c, origin) :
                  c \in Corners(Box(pose, 0, kFspSensorRange, kFspSensorRange))})
      roi == BoundsOf(local)
      cut == Bounds(Max({roi.xmin, sensed.xmin}), Min({roi.xmax, sensed.xmax}),
                    Max({roi.ymin, sensed.ymin}), Min({roi.ymax, sensed.ymax}))
      padding == Max({roi_edge_buffer, Vehicle.half_width}) + 4
  IN Expanded(Expanded(cut, ToLocalPoint(pose, origin), padding, sensed),
              ToLocalPoint(goal, origin), 10, sensed)

-----------------------------------------------------------------------------
\* CalculateParkingInRegion: the box around the goal in which a path may end.
DestRegion(type, goal) ==
  IF type = "LATERAL" THEN Box(goal, goal.heading, 3, 8) ELSE Box(goal, goal.heading, 2, 1)

\* ParkingScenarioTypeDecision
Scenario(type, is_right_side) ==
  IF type = "NONE" THEN <<"DEFAULT_TYPE">>
  ELSE <<IF is_right_side THEN "RIGHT" ELSE "LEFT", type>>

\* A decider that has seen no lot.
NewDecider == [road |-> 2 * open_space_lane_width, slack |-> <<>>]

\* What is answered for a lot that may be parked in, from the region on.
Accepted(memory, type, v, pose, right, goal, road, origin, roi) ==
  LET inner == ClipPolygonToAabb(roi.points, pose, kFspSensorRange)
  IN [ok |-> TRUE, vertices |-> v, right |-> right, origin |-> origin, goal |-> goal,
      sensed |-> inner # <<>>,
      bounds |-> IF inner = <<>> THEN <<>> ELSE ParkingBounds(inner, origin, pose, goal),
      region |-> DestRegion(type, goal), scenario |-> Scenario(type, right),
      memory |-> [road |-> road, slack |-> roi.slack]]

\* From the goal on.
Aimed(memory, type, v, pose, right, goal, road) ==
  Accepted(memory, type, v, pose, right, goal, road, Pose(v[1], Angle(Minus(v[4], v[1]))),
           RoiBoundarySlack(InnerRoi(type, v, road), memory.slack, pose, goal))

\* From the checks on.
Checked(memory, type, v, pose, right) ==
  IF LotStatus(type, v) # "NORMAL"
  THEN [ok |-> FALSE, status |-> LotStatus(type, v), memory |-> memory]
  ELSE Aimed(memory, type, v, pose, right, EndPose(type, v, right), RoadWidth(memory, v, pose))

\* From the side on which the lot lies on.
Labelled(memory, type, v, pose) ==
  Checked(memory, type, v, pose, IsParkLotInRightSide(v, pose))

Process(memory, lot, pose) == Labelled(memory, lot.type, Vertices(lot, pose), pose)

-----------------------------------------------------------------------------
(* Properties *)

Within(p, b) == p.x \in b.xmin .. b.xmax /\ p.y \in b.ymin .. b.ymax

\* The lot, and the depth buffer around it.
Grown(lot) ==
  Bounds(lot.xmin - parking_depth_buffer, lot.xmax + parking_depth_buffer,
         lot.ymin - parking_depth_buffer, lot.ymax + parking_depth_buffer)

\* The vehicle at a goal is within a lot, but for the depth buffer.
Holds(lot, goal) ==
  \A grown \in {Grown(BoundsOf(lot))} : \A c \in Corners(VehicleBox(goal)) : Within(c, grown)

\* How far the vehicle is beyond the middle of the edge from a to b, seen from
\* that from c to d.
Beyond(a, b, c, d, pose) ==
  LET outwards == Minus(Middle(a, b), Middle(c, d))
  IN InnerProd(Minus(pose, Middle(a, b)), outwards) > 0

\* A vehicle that stands beyond one end of a lot it backs into finds the lot open at
\* that end, whichever end the labels call the top, unless its goal heading were then
\* half a turn: for that StabilizeSlotOpeningForLocalGoal turns the lot round, wherever
\* the vehicle stands.
OpeningFacesVehicle(v, pose) == Beyond(v[2], v[3], v[1], v[4], pose) => TargetHeading(Mirrored(v)) = 2

(* A lot that passes the size check holds the whole vehicle at the goal,   *)
(* but for the depth buffer by which it keeps off the opening, whatever    *)
(* corner the labels start from, and the opening is the one the vehicle    *)
(* stands before (Process, CheckReceiveParkinglot, SetNonLateralSlotEndPose *)
(* and SetLateralSlotEndPose).                                             *)
LotHoldsVehicle(memory, lot, pose) ==
  \A a \in {Process(memory, lot, pose)} : a.ok =>
    /\ Holds(Range(lot.vertices), a.goal)
    /\ Upright(lot.type) => OpeningFacesVehicle(a.vertices, pose)

(* The bounds of a region hold the start and the goal                      *)
(* (ExpandRoiBoundaryToIncludePoint).                                      *)
SpansManeuver(bounds, origin, pose, goal) ==
  Within(ToLocalPoint(pose, origin), bounds) /\ Within(ToLocalPoint(goal, origin), bounds)
=============================================================================
