-------------------------- MODULE AdapterDecisions --------------------------
(***************************************************************************)
(* What the stage-parking adapter decides before it asks for a path: the   *)
(* lots and obstacles it takes over, the check of a region, why a path is  *)
(* planned again, and the rest of the remembered path that the new one is  *)
(* spliced to.  Functions of one frame; PathProviderFrame and              *)
(* StageParkingAdapter have the state they are applied to.                 *)
(*                                                                         *)
(* Lengths are whole numbers of 5 cm, headings of paths 48ths of a turn,   *)
(* those of vehicles and boxes quarter turns.                              *)
(***************************************************************************)
EXTENDS Trajectories

CONSTANT Vehicle \* as in OpenSpaceRoiDecider

Roi == INSTANCE OpenSpaceRoiDecider

-----------------------------------------------------------------------------
(* Lots.  A point of a lot has a place, in p, and a position.              *)

CornerPositions == {"TOP_LEFT", "BOTTOM_LEFT", "BOTTOM_RIGHT", "TOP_RIGHT"}

\* The lot that was asked for, in a set, or nothing.
SelectParkingLot(lots, opt_parking_seq) ==
  LET named == {i \in DOMAIN lots : lots[i].parking_seq = opt_parking_seq}
  IN {lots[i] : i \in {n \in named : \A m \in named : n <= m}}

\* Of the two lists of points, the one in ENU coordinates if there is one.
LotPoints(lot) == IF lot.pts_enu # <<>> THEN lot.pts_enu ELSE lot.pts_vrf

\* Mutant: three corners are enough.
HasSomeCorners(points) ==
  Len(points) >= 4 /\ \A i \in DOMAIN points : points[i].finite

HasUsableCorners(points) ==
  /\ Len(points) >= 4
  /\ \A i \in DOMAIN points : points[i].finite
  /\ CornerPositions \subseteq {points[i].position : i \in DOMAIN points}

\* Sorted around their centre, corners enclose an area if they do not lie on one
\* line; points where to stop do not count.
HasUsableCornerGeometry(points) ==
  LET corners == {points[i].p : i \in {n \in DOMAIN points : points[n].position \in CornerPositions}}
  IN /\ \E a, b \in corners : a.x # b.x
     /\ \E a, b \in corners : a.y # b.y
     /\ \E a, b, c \in corners : CrossProd(Minus(b, a), Minus(c, a)) # 0

\* Of several corners of one position the last one counts (ExtractVertices).
LotVertices(points) ==
  LET last(position) ==
        LET at == {i \in DOMAIN points : points[i].position = position}
        IN points[CHOOSE i \in at : \A j \in at : j <= i].p
  IN <<last("TOP_LEFT"), last("BOTTOM_LEFT"), last("BOTTOM_RIGHT"), last("TOP_RIGHT")>>

\* A size that is not positive or not finite is 0.  The lot in a set, or nothing.
ConvertParkingLot(lot) ==
  LET points == LotPoints(lot)
  IN IF HasUsableCorners(points) /\ HasUsableCornerGeometry(points)
        /\ lot.hmi_depth > 0 /\ lot.hmi_width > 0
     THEN {[type |-> lot.type, depth |-> lot.hmi_depth, width |-> lot.hmi_width,
            vertices |-> LotVertices(points)]}
     ELSE {}

\* ValidateVehicleNearParkingLot; has_vehicle_state is in the vehicle.
VehicleNearLot(points, vehicle) ==
  LET b == Roi!BoundsOf({points[i].p : i \in DOMAIN points})
      span == Max({b.xmax - b.xmin, b.ymax - b.ymin})
      margin == Max({400, 4 * span})
  IN vehicle.has_vehicle_state =>
       /\ b.xmin < b.xmax /\ b.ymin < b.ymax
       /\ vehicle.x \in b.xmin - margin .. b.xmax + margin
       /\ vehicle.y \in b.ymin - margin .. b.ymax + margin

\* BuildStartPathPoint, BuildVehicleState: the pose planning starts from.
StartPose(vehicle, fake_pose) ==
  IF vehicle.has_vehicle_state THEN Roi!Pose(vehicle, vehicle.heading) ELSE fake_pose

-----------------------------------------------------------------------------
(* Obstacles *)

kMaxExternalObstacleCount == 128

\* UpdateObstacles: all of them or none.
UpdateObstacles(obstacles, input) ==
  IF /\ Len(input) <= kMaxExternalObstacleCount
     /\ \A i \in DOMAIN input : input[i].finite /\ input[i].length > 0 /\ input[i].width > 0
  THEN input ELSE obstacles

\* BuildObstacleSignature, a hash of all of this; that two lists share a hash is
\* left out.
ObstacleSignature(obstacles) ==
  [i \in DOMAIN obstacles |->
     LET o == obstacles[i]
     IN <<o.id, o.type, o.is_dynamic, o.center, o.heading, o.length, o.width, o.velocity>>]

\* BuildObstacleSegments makes the four edges between the corners of each; a
\* moving obstacle counts as one that stands where it is.
ObstacleBoxes(obstacles) ==
  [i \in DOMAIN obstacles |->
     Box(obstacles[i].center, obstacles[i].heading,
         obstacles[i].length \div 2, obstacles[i].width \div 2)]

-----------------------------------------------------------------------------
(* RunPathProviderPreCheck, with finite numbers *)

kMinRoiSpan == 10
kLocalBoundsMargin == 200
kMaxPathProviderObstacleSegments == 500
kObstacleLocalBoundsMargin == 5000

NearBounds(p, bounds, margin) ==
  /\ p.x \in bounds.xmin - margin .. bounds.xmax + margin
  /\ p.y \in bounds.ymin - margin .. bounds.ymax + margin

PreCheck(roi, start, obstacles) ==
  LET b == roi.bounds
      near(p, margin) == NearBounds(Roi!ToLocalPoint(p, roi.origin), b, margin)
  IN /\ b.xmax - b.xmin >= kMinRoiSpan /\ b.ymax - b.ymin >= kMinRoiSpan
     /\ near(start, kLocalBoundsMargin) /\ near(roi.goal, kLocalBoundsMargin)
     /\ roi.region.half_length > 0 /\ roi.region.half_width > 0
     /\ 4 * Len(obstacles) <= kMaxPathProviderObstacleSegments
     /\ \A box \in Range(ObstacleBoxes(obstacles)) :
          \A c \in Corners(box) : near(c, kObstacleLocalBoundsMargin)

\* BuildPathProviderPrePlanInputs: the other lots of the message, one decider
\* for all of them.
PrePlanRegions(lots, selected, start, obstacles) ==
  LET step(seen, lot) ==
        IF lot.parking_seq = selected \/ ConvertParkingLot(lot) = {} THEN seen
        ELSE LET of(roi) ==
                   [memory |-> roi.memory,
                    regions |-> IF roi.ok /\ roi.sensed /\ PreCheck(roi, start, obstacles)
                                THEN Append(seen.regions, roi) ELSE seen.regions]
             IN of(Roi!Process(seen.memory, CHOOSE l \in ConvertParkingLot(lot) : TRUE, start))
  IN IF Len(lots) <= 1 THEN <<>>
     ELSE FoldLeft(step, [memory |-> Roi!NewDecider, regions |-> <<>>], lots).regions

-----------------------------------------------------------------------------
(* Why a path is planned again.  What is remembered is a record with       *)
(* has_history, the number of the lot, end_pose, the signature of the      *)
(* obstacles and segments: a sequence of paths with their gears.           *)

\* HasUsablePathOutput; an output with an error has no segments.
HasUsablePath(segments) == FoldLeft(LAMBDA n, seg : n + Len(seg.path), 0, segments) >= 2

kReuseDistance == 6
kReuseHeading == 3

IsHistoryPathReusable(history, start) ==
  /\ history.has_history /\ HasUsablePath(history.segments)
  /\ \E i \in DOMAIN history.segments :
       LET path == history.segments[i].path
       IN \/ IsPointIn(path, start, kReuseDistance, kReuseHeading)
          \/ path # <<>> /\ IsSamePoint(path[1], start, kReuseDistance, kReuseHeading)

\* BuildPathProviderDecision: the reasons to plan.  Poses are the same within
\* less than a unit.
ReplanReasons(history, parking_seq, end_pose, start, obstacles, speed_replan, collision_risk) ==
  (IF ~history.has_history \/ ~HasUsablePath(history.segments) THEN {"NO_VALID_PATH"}
   ELSE (IF history.path_id # parking_seq \/ history.end_pose # end_pose THEN {"TARGET_UPDATE"} ELSE {})
        \cup (IF history.signature # ObstacleSignature(obstacles)
              THEN {"BLOCK_BY_STATIC_OBSTACLE"} ELSE {})
        \cup (IF ~IsHistoryPathReusable(history, start) THEN {"TRACE_REPLAN"} ELSE {}))
  \cup (IF speed_replan THEN {"REPLAN_FOR_SPEED_WARN"} ELSE {})
  \cup (IF collision_risk THEN {"DYNAMIC_REPLAN"} ELSE {})

-----------------------------------------------------------------------------
(* The rest of the remembered path *)

kMaxWarmStartLatOffset == 24
kMinWarmStartLength == 10

\* Mutant: another lot is no reason.
TraceReplanAtAnyTarget(reasons) ==
  /\ "TRACE_REPLAN" \in reasons
  /\ reasons \cap {"BLOCK_BY_STATIC_OBSTACLE", "DYNAMIC_REPLAN", "REPLAN_FOR_SPEED_WARN"} = {}

ShouldUseHistoryWarmStart(reasons) ==
  /\ "TRACE_REPLAN" \in reasons
  /\ reasons \cap {"TARGET_UPDATE", "BLOCK_BY_STATIC_OBSTACLE", "DYNAMIC_REPLAN",
                   "REPLAN_FOR_SPEED_WARN"} = {}

PathPiece(path, i) == Segment(path[i], path[i+1])

\* The pieces of a path that have a length.
PathPieces(path) == {i \in 1 .. Len(path) - 1 : LengthSquare(Along(PathPiece(path, i))) > 0}

\* The first of the pieces nearest to a point.
NearestPiece(path, p) ==
  LET distance(i) == SegmentDistance(p, PathPiece(path, i))
  IN CHOOSE i \in PathPieces(path) : \A j \in PathPieces(path) :
       LessEq(distance(i), distance(j)) /\ (LessEq(distance(j), distance(i)) => i <= j)

\* ProjectPointToPathGeometry: the point after the foot of p, and how far p is
\* from the line of the piece the foot is on.
Projection(path, p) ==
  LET i == NearestPiece(path, p)
      s == PathPiece(path, i)
      behind == InnerProd(Minus(p, s.start), Along(s)) >= LengthSquare(Along(s))
      l == ProductOntoUnit(s, p)
  IN [next |-> IF behind THEN i + 2 ELSE i + 1, l |-> IF l < 0 THEN -l ELSE l]

\* RebaseWarmStartPath: the first point of the rest gives way to the start.
Rebased(start, path, next) ==
  NormalizeDiscretizedPath(<<start>> \o SubSeq(path, next + 1, Len(path)))

\* The rest of a path from the start on, or <<>> if it is of no use.
Rest(path, start, foot) ==
  IF foot.l < kMaxWarmStartLatOffset /\ foot.next <= Len(path)
     /\ PathLength(Rebased(start, path, foot.next)) >= kMinWarmStartLength
  THEN Rebased(start, path, foot.next) ELSE <<>>

RestOf(path, start) ==
  IF Len(path) < 2 \/ PathPieces(path) = {} THEN <<>> ELSE Rest(path, start, Projection(path, start))

\* BuildWarmStartPathFromHistory: of the first segment that has a rest.
WarmStart(history, start, reasons) ==
  LET useful == {i \in DOMAIN history.segments : RestOf(history.segments[i].path, start) # <<>>}
      first == CHOOSE i \in useful : \A j \in useful : i <= j
  IN IF ~HasUsablePath(history.segments) \/ ~ShouldUseHistoryWarmStart(reasons) \/ useful = {}
     THEN [path |-> <<>>, gear |-> "GEAR_NONE"]
     ELSE [path |-> RestOf(history.segments[first].path, start),
           gear |-> history.segments[first].gear]

GearToMovingDirection(gear) ==
  CASE gear = "GEAR_DRIVE" -> 1 [] gear = "GEAR_REVERSE" -> -1 [] OTHER -> 0

\* EvaluateTraceAdjust; kMinTraceAdjustPathLength is that of a warm start.
TraceAdjustEnabled(reasons, path) ==
  ShouldUseHistoryWarmStart(reasons) /\ Len(path) > 1 /\ PathLength(path) >= kMinWarmStartLength

\* ApplyPathProviderStrategy, what depends on the frame
PathStrategy(history, reasons, warm_start) ==
  [init_moving_direction |->
     IF Len(warm_start.path) > 1 THEN GearToMovingDirection(warm_start.gear) ELSE 0,
   enable_init_kappa_cost |-> Len(warm_start.path) > 1,
   limit_init_steer_margin |-> history.has_history,
   is_trace_adjust |-> TraceAdjustEnabled(reasons, warm_start.path)]

Planned(history, start, reasons, warm_start) ==
  [start |-> start, reasons |-> reasons, warm_start |-> warm_start,
   strategy |-> PathStrategy(history, reasons, warm_start)]

\* What a frame asks the provider for, if it does not reuse the history:
\* BuildPathProviderInput.
PlanInput(history, start, reasons) ==
  Planned(history, start, reasons, WarmStart(history, start, reasons))
=============================================================================
