---------------------------- MODULE Trajectories ----------------------------
(***************************************************************************)
(* From a path and a speed curve to the points that are published: the     *)
(* paths of discretized_path.cc and what is interpolated on them, the cut  *)
(* before an obstacle, the trajectories of open_space_speed_optimizer.cc,  *)
(* and the messages that the stage-parking adapter makes of paths and      *)
(* trajectories.                                                           *)
(*                                                                         *)
(* Coordinates and ways are whole; in the trajectories they count halves   *)
(* of a unit, as the ways of SpeedCurves do.  A heading is a number of     *)
(* 48ths of a turn.                                                        *)
(***************************************************************************)
EXTENDS Geometry, SpeedCurves

-----------------------------------------------------------------------------
(* Headings and interpolation *)

Turn48 == 48

NormalizeAngle(a) == ((a + Turn48 \div 2) % Turn48) - Turn48 \div 2

\* What a grows by on a share part/whole of the way to b.
Share(a, b, part, whole) == Quotient((b - a) * part, whole)

lerp(v0, t0, v1, t1, t) == IF t1 = t0 THEN v0 ELSE v0 + Share(v0, v1, t - t0, t1 - t0)

\* Headings are interpolated over the shorter arc.
slerp(a0, t0, a1, t1, t) ==
  IF t1 = t0 THEN NormalizeAngle(a0)
  ELSE LET from == NormalizeAngle(a0)
           d == NormalizeAngle(a1) - from
           arc == IF 2 * d > Turn48 THEN d - Turn48
                  ELSE IF 2 * d < -Turn48 THEN d + Turn48 ELSE d
       IN NormalizeAngle(from + Share(0, arc, t - t0, t1 - t0))

\* A point of a path, with the way to it.
PathPoint(x, y, theta, s) == [x |-> x, y |-> y, theta |-> theta, s |-> s]

\* InterpolateUsingLinearApproximation
Between(p0, p1, s) ==
  PathPoint(lerp(p0.x, p0.s, p1.x, p1.s, s), lerp(p0.y, p0.s, p1.y, p1.s, s),
            slerp(p0.theta, p0.s, p1.theta, p1.s, s), s)

-----------------------------------------------------------------------------
(* DiscretizedPath: a sequence of points *)

\* The way from a point to another, rounded down.
PointDistance(p, q) ==
  LET d == DistanceSquareTo(p, q)
      size(n) == IF n < 0 THEN -n ELSE n
  IN CHOOSE n \in 0 .. size(p.x - q.x) + size(p.y - q.y) : n * n <= d /\ d < (n + 1) * (n + 1)

\* NormalizeDiscretizedPath: the ways are counted anew.
NormalizeDiscretizedPath(path) ==
  LET way[i \in DOMAIN path] == IF i = 1 THEN 0 ELSE way[i-1] + PointDistance(path[i-1], path[i])
  IN [i \in DOMAIN path |-> PathPoint(path[i].x, path[i].y, NormalizeAngle(path[i].theta), way[i])]

PathLength(path) == IF path = <<>> THEN 0 ELSE path[Len(path)].s - path[1].s

\* QueryLowerBound: the first point at s or beyond, or none.
LowerBound(path, s) == {i \in DOMAIN path : path[i].s >= s /\ \A j \in 1 .. i - 1 : path[j].s < s}

Evaluate(path, s) ==
  IF LowerBound(path, s) = {} THEN path[Len(path)]
  ELSE LET i == CHOOSE n \in LowerBound(path, s) : TRUE
       IN IF i = 1 THEN path[1] ELSE Between(path[i-1], path[i], s)

\* The chord on which MatchToPath looks for the foot of a point: between the
\* neighbours of the nearest vertex, past that itself.
Chord(path, p) ==
  LET near(i) == \A j \in DOMAIN path :
                   \/ DistanceSquareTo(path[i], p) < DistanceSquareTo(path[j], p)
                   \/ DistanceSquareTo(path[i], p) = DistanceSquareTo(path[j], p) /\ i <= j
      i == CHOOSE n \in DOMAIN path : near(n)
  IN Segment(path[IF i = 1 THEN 1 ELSE i - 1], path[IF i = Len(path) THEN i ELSE i + 1])

IsSamePoint(p, q, dis_threshold, ang_threshold) ==
  LET size(d) == IF d < 0 THEN -d ELSE d
  IN /\ size(p.x - q.x) < dis_threshold
     /\ size(p.y - q.y) < dis_threshold
     /\ size(NormalizeAngle(p.theta - q.theta)) < ang_threshold

\* IsPointIn: the heading counts for a path of one point only, and the foot is
\* never off the path.
IsPointIn(path, p, dis_threshold, ang_threshold) ==
  /\ path # <<>>
  /\ IF Len(path) = 1
     THEN IsSamePoint(path[1], p, dis_threshold, ang_threshold)
     ELSE LET f == SegmentDistance(p, Chord(path, p))
          IN f.num < dis_threshold * dis_threshold * f.den

\* GenerateStopPath
StopPath(pose, points) == [i \in 1 .. points |-> PathPoint(pose.x, pose.y, pose.theta, 0)]

-----------------------------------------------------------------------------
(* PathHandle::CutOffPathByCollisionInfo *)

\* Mutant: the reserve is not kept.
CutWithoutReserve(path, first_collision_index, stop_reserve_distance) ==
  SubSeq(path, 1, first_collision_index)

\* The path up to where it stops before the collision.
CutOffPath(path, first_collision_index, stop_reserve_distance) ==
  LET collision_s == path[first_collision_index].s
      stop_distance == IF collision_s < stop_reserve_distance THEN 0
                       ELSE collision_s - stop_reserve_distance
      index == CHOOSE n \in LowerBound(path, stop_distance) : TRUE
  IN IF index = 1 THEN SubSeq(path, 1, 1)
     ELSE Append(SubSeq(path, 1, index - 1), Evaluate(path, stop_distance))

-----------------------------------------------------------------------------
(* Trajectories of the speed optimizer: a point has a place on the path, a *)
(* signed speed and a time.  A speed curve is a sequence of knots          *)
(* [t, s2, v], as Discrete delivers it.                                    *)

\* SpeedData::EvaluateByTime, for a time in the range of the knots
EvaluateByTime(knots, t) ==
  LET i == CHOOSE n \in DOMAIN knots : knots[n].t >= t /\ \A j \in 1 .. n - 1 : knots[j].t < t
  IN IF i = 1 THEN knots[1]
     ELSE LET p0 == knots[i-1]
              p1 == knots[i]
          IN [t |-> t, s2 |-> lerp(p0.s2, p0.t, p1.s2, p1.t, t), v |-> lerp(p0.v, p0.t, p1.v, p1.t, t)]

\* CombinePathAndSpeed: the knots at equal times and, one step after them, the
\* end; up to the end of the path.  <<>> if it fails.
CombinePathAndSpeed(is_forward, path, knots, unit) ==
  LET size == (knots[Len(knots)].t - knots[1].t) \div unit + 1
      at(i) == IF i <= size THEN EvaluateByTime(knots, (i - 1) * unit)
               ELSE [knots[Len(knots)] EXCEPT !.t = size * unit]
      within == {i \in 1 .. size + 1 : \A j \in 1 .. i : at(j).s2 <= PathLength(path)}
  IN IF Len(knots) < 2 THEN <<>>
     ELSE [i \in 1 .. Cardinality(within) |->
             [point |-> Evaluate(path, at(i).s2), t |-> at(i).t,
              v |-> IF is_forward THEN at(i).v ELSE -at(i).v]]

\* How hard GenerateBackUpTrajectory brakes: so that the path is enough, or as
\* hard as the vehicle can.
BackUpDeceleration(v, length, max_deceleration) ==
  IF v * v > max_deceleration * length THEN max_deceleration ELSE (v * v) \div length

\* Its knots up to the standstill, or up to the first one beyond the path; the one
\* at the standstill is the end of the path.
BackUpKnots(v, dec, length, unit) ==
  LET dec_t == v \div dec
      knot(t) == IF t = dec_t THEN [t |-> t, s2 |-> length, v |-> 0]
                 ELSE [t |-> t, s2 |-> (2 * v - dec * t) * t, v |-> v - dec * t]
      before(i) == \A j \in 1 .. i - 1 : knot((j - 1) * unit).s2 <= length
  IN [i \in 1 .. Cardinality({n \in 1 .. dec_t \div unit + 1 : before(n)}) |-> knot((i - 1) * unit)]

\* GenerateStopTrajectory
StopTrajectory(pose, unit, points) ==
  [i \in 1 .. points |-> [point |-> pose, t |-> (i - 1) * unit, v |-> 0]]

-----------------------------------------------------------------------------
(* Messages.  A published point has the way to it, a speed and a time.     *)

kNominalSpeed == 1

\* AppendFlattenedPathPair: a point equal to the last one kept is left out.
AppendFlattened(points, segment, gear) ==
  FoldLeft(LAMBDA kept, p :
             IF kept # <<>> /\ kept[Len(kept)].x = p.x /\ kept[Len(kept)].y = p.y
                /\ NormalizeAngle(kept[Len(kept)].theta - p.theta) = 0
             THEN kept
             ELSE Append(kept, [x |-> p.x, y |-> p.y, theta |-> p.theta, gear |-> gear]),
           points, segment)

FlattenPath(segments) ==
  FoldLeft(LAMBDA kept, segment : AppendFlattened(kept, segment.path, segment.gear), <<>>, segments)

Estop(pose) ==
  [points |-> [i \in 1 .. 1 |-> [x |-> pose.x, y |-> pose.y, theta |-> pose.theta, s |-> 0, v |-> 0, t |-> 0]],
   gear |-> "GEAR_INVALID", estop |-> TRUE]

\* BuildTrajectoryFromPathProvider, and FromPathPartition with the one segment
\* that was chosen: all at nominal speed, in the gear of the first point.
FromPath(segments, fake_pose) ==
  LET points == FlattenPath(segments)
      path == NormalizeDiscretizedPath(points)
  IN IF Len(points) < 2 THEN Estop(fake_pose)
     ELSE [points |-> [i \in DOMAIN path |->
             [x |-> path[i].x, y |-> path[i].y, theta |-> path[i].theta, s |-> path[i].s,
              v |-> kNominalSpeed, t |-> path[i].s]],
           gear |-> points[1].gear, estop |-> FALSE]

\* BuildTrajectoryFromSpeedOptimizer
FromSpeedOptimizer(trajectory, gear, fake_pose) ==
  LET path == NormalizeDiscretizedPath([i \in DOMAIN trajectory |-> trajectory[i].point])
  IN IF Len(trajectory) < 2 THEN Estop(fake_pose)
     ELSE [points |-> [i \in DOMAIN path |->
             [x |-> path[i].x, y |-> path[i].y, theta |-> path[i].theta, s |-> path[i].s,
              v |-> trajectory[i].v, t |-> trajectory[i].t]],
           gear |-> gear, estop |-> FALSE]

-----------------------------------------------------------------------------
(* Properties *)

\* A trajectory begins at the begin of a path and keeps to it: at equal times, never
\* back, and in one direction of the gear.
KeepsToPath(path, trajectory, forward, unit) ==
  /\ trajectory # <<>> /\ trajectory[1].point = path[1]
  /\ \A i \in DOMAIN trajectory :
       /\ trajectory[i].t = unit * (i - 1)
       /\ IF forward THEN trajectory[i].v >= 0 ELSE trajectory[i].v <= 0
       /\ trajectory[i].point.s <= PathLength(path)
  /\ \A i \in 2 .. Len(trajectory) : trajectory[i-1].point.s <= trajectory[i].point.s

\* What is left of a path leads along it up to the reserve before the collision
\* (CutOffPathByCollisionInfo).
CutsBefore(path, first_collision_index, stop_reserve_distance) ==
  LET cut == CutOffPath(path, first_collision_index, stop_reserve_distance)
      way == path[first_collision_index].s - stop_reserve_distance
  IN /\ cut # <<>> /\ cut[1] = path[1]
     /\ \A i \in 1 .. Len(cut) - 1 : cut[i] = path[i]
     /\ PathLength(cut) = IF way < 0 THEN 0 ELSE way

StopsAt(s, trajectory) ==
  trajectory[Len(trajectory)].point.s = s /\ trajectory[Len(trajectory)].v = 0

(* The trajectory of a curve is at each time where the curve is then, and  *)
(* as fast, and comes to rest at its end (CombinePathAndSpeed).            *)
DrivesCurve(curve, path, forward, unit) ==
  LET trajectory == CombinePathAndSpeed(forward, path, Discrete(curve, unit), unit)
  IN /\ KeepsToPath(path, trajectory, forward, unit)
     /\ \A i \in DOMAIN trajectory :
          trajectory[i].t <= curve.total_t =>
            LET now == At(curve, trajectory[i].t)
            IN /\ trajectory[i].point.s = now.s2
               /\ trajectory[i].v = IF forward THEN now.v ELSE -now.v
     /\ StopsAt(curve.end_s2, trajectory)

(* Braking never gains speed; it ends in a standstill at the end of the    *)
(* path if the standstill falls on a step and the vehicle can brake as     *)
(* hard as that (GenerateBackUpTrajectory).                                *)
BrakesOnPath(v, dec, path, forward, unit) ==
  LET length == PathLength(path)
      trajectory == CombinePathAndSpeed(forward, path, BackUpKnots(v, dec, length, unit), unit)
  IN trajectory # <<>> =>
       /\ KeepsToPath(path, trajectory, forward, unit)
       /\ \A i \in DOMAIN trajectory : trajectory[i].v \in -v .. v
       /\ \A i \in 2 .. Len(trajectory) :
            trajectory[i].v * trajectory[i].v <= trajectory[i-1].v * trajectory[i-1].v
       /\ dec * length = v * v /\ (v \div dec) % unit = 0 => StopsAt(length, trajectory)
=============================================================================
