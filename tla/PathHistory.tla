---------------------------- MODULE PathHistory ----------------------------
(***************************************************************************)
(* The path that the stage-parking adapter remembers from frame to frame,  *)
(* and what a frame makes of it: RunPathProvider goes on with it, or asks  *)
(* for a path, spliced to the rest of it if only the vehicle has left it.  *)
(* PathProviderFrame has what happens between the question and the answer; *)
(* here paths are points, and lots, obstacles and warnings come and go     *)
(* between the frames.                                                     *)
(***************************************************************************)
EXTENDS AdapterDecisions

CONSTANTS
  ParkingFrames,  \* the frames that come
  ObstacleInputs, \* the lists of obstacles that UpdateObstacles is called with
  PathAnswers     \* the segments of the paths that the provider answers

PathPoints == [x : Int, y : Int, theta : Int, s : Int]

PathSegments == [path : Seq(PathPoints), gear : {"GEAR_DRIVE", "GEAR_REVERSE"}]

\* The goal of a frame is that of the region of its lot; the warnings are those of
\* the last speed plan.
ASSUME HistoryAssumption ==
  /\ \A f \in ParkingFrames : /\ f.start \in PathPoints
                               /\ f.speed_replan \in BOOLEAN /\ f.collision_risk \in BOOLEAN
  /\ PathAnswers \subseteq Seq(PathSegments)

VARIABLES
  runtime_obstacles, \* the obstacles of the adapter
  path_provider,     \* PathProviderRuntimeState: the path of an earlier frame
  attempt,           \* the last frame, and what it does about a path
  planned_with       \* history: the obstacles when that path was planned

history_vars == <<runtime_obstacles, path_provider, attempt, planned_with>>

\* PathProviderRuntimeState::Reset
NoPath == [has_history |-> FALSE, path_id |-> -1, end_pose |-> Roi!Pose(Vec(0, 0), 0),
           signature |-> <<>>, segments |-> <<>>]

NoAttempt == [kind |-> "none"]

\* BuildPathProviderDecision
Reasons(frame) ==
  ReplanReasons(path_provider, frame.parking_seq, frame.end_pose, frame.start,
                runtime_obstacles, frame.speed_replan, frame.collision_risk)

\* The component calls these between two frames.
SeeObstacles(input) ==
  /\ attempt.kind # "plan"
  /\ runtime_obstacles' = UpdateObstacles(runtime_obstacles, input)
  /\ attempt' = NoAttempt
  /\ UNCHANGED <<path_provider, planned_with>>

ClearObstacles ==
  /\ attempt.kind # "plan"
  /\ runtime_obstacles' = <<>>
  /\ attempt' = NoAttempt
  /\ UNCHANGED <<path_provider, planned_with>>

\* RunPathProvider, if no reason speaks against the history
ReuseHistory(frame) ==
  /\ attempt.kind # "plan"
  /\ Reasons(frame) = {}
  /\ attempt' = [kind |-> "reuse", frame |-> frame, segments |-> path_provider.segments]
  /\ UNCHANGED <<runtime_obstacles, path_provider, planned_with>>

\* RunPathProvider, up to Plan
AskForPath(frame) ==
  /\ attempt.kind # "plan"
  /\ Reasons(frame) # {}
  /\ attempt' = [kind |-> "plan", frame |-> frame,
                 input |-> PlanInput(path_provider, frame.start, Reasons(frame))]
  /\ UNCHANGED <<runtime_obstacles, path_provider, planned_with>>

\* RunPathProvider from a path on
RememberPath(segments) ==
  /\ attempt.kind = "plan"
  /\ HasUsablePath(segments)
  /\ path_provider' = [has_history |-> TRUE, path_id |-> attempt.frame.parking_seq,
                       end_pose |-> attempt.frame.end_pose,
                       signature |-> ObstacleSignature(runtime_obstacles),
                       segments |-> segments]
  /\ planned_with' = runtime_obstacles
  /\ attempt' = NoAttempt
  /\ UNCHANGED runtime_obstacles

\* ResetPlanningState: a frame got no path or fails later, a command asks for it, or
\* a sample cannot be planned for.
ForgetPath ==
  /\ path_provider' = NoPath
  /\ planned_with' = <<>>
  /\ attempt' = NoAttempt
  /\ UNCHANGED runtime_obstacles

HistoryInit ==
  /\ runtime_obstacles = <<>>
  /\ path_provider = NoPath
  /\ attempt = NoAttempt
  /\ planned_with = <<>>

HistoryNext ==
  \/ \E input \in ObstacleInputs : SeeObstacles(input)
  \/ ClearObstacles
  \/ \E frame \in ParkingFrames : ReuseHistory(frame) \/ AskForPath(frame)
  \/ \E segments \in PathAnswers : RememberPath(segments)
  \/ ForgetPath

HistorySpec == HistoryInit /\ [][HistoryNext]_history_vars

-----------------------------------------------------------------------------
(* Properties *)

\* A path begins at the start and goes on behind vertex n of another one.
GoesOnBehind(rest, start, path, n) ==
  /\ rest[1].x = start.x /\ rest[1].y = start.y
  /\ Len(rest) = Len(path) - n + 1
  /\ \A i \in 2 .. Len(rest) :
       rest[i].x = path[n + i - 1].x /\ rest[i].y = path[n + i - 1].y

\* Vertex n of a path ends the piece of it that is nearest to a point.
JustBeyond(path, n, p) ==
  \A i \in 1 .. Len(path) - 1 :
    LessEq(SegmentDistance(p, PathPiece(path, n - 1)), SegmentDistance(p, PathPiece(path, i)))

\* From point to point the way grows, unless they are one and the same.
WaysGrow(path) ==
  \A i \in 2 .. Len(path) :
    \/ path[i].s > path[i-1].s
    \/ path[i].x = path[i-1].x /\ path[i].y = path[i-1].y

\* Nothing but the place of the vehicle can speak against a path: it leads to the goal
\* in the lot of the frame, there is no warning, and the obstacles are, to the
\* search, those it was planned with.
StillWanted(path, frame, obstacles, seen) ==
  /\ path.has_history
  /\ path.path_id = frame.parking_seq /\ path.end_pose = frame.end_pose
  /\ ~frame.speed_replan /\ ~frame.collision_risk
  /\ ObstacleBoxes(obstacles) = ObstacleBoxes(seen)

\* A path begins at the start, goes on behind the vertex that follows on the nearest
\* part of one of the segments, in its gear, and is long enough.
SplicedTo(segments, start, rest, gear) ==
  /\ \E k \in DOMAIN segments :
       /\ gear = segments[k].gear
       /\ \E n \in 2 .. Len(segments[k].path) :
            GoesOnBehind(rest, start, segments[k].path, n) /\ JustBeyond(segments[k].path, n, start)
  /\ WaysGrow(rest)
  /\ rest[Len(rest)].s >= kMinWarmStartLength

(* A remembered path is gone on with, or spliced to, only while nothing    *)
(* but the place of the vehicle speaks against it, whatever frames,        *)
(* obstacles and resets there were since it was planned; and the splice    *)
(* leads from the vehicle along the rest of it (BuildPathProviderDecision, *)
(* BuildWarmStartPathFromHistory, ApplyPathProviderStrategy).              *)
SpliceFollowsHistory ==
  /\ attempt.kind = "reuse" =>
       /\ StillWanted(path_provider, attempt.frame, runtime_obstacles, planned_with)
       /\ attempt.segments = path_provider.segments
  /\ attempt.kind = "plan" =>
       LET rest == attempt.input.warm_start.path
       IN /\ rest # <<>> =>
               /\ StillWanted(path_provider, attempt.frame, runtime_obstacles, planned_with)
               /\ SplicedTo(path_provider.segments, attempt.frame.start, rest,
                            attempt.input.warm_start.gear)
          /\ attempt.input.strategy.is_trace_adjust <=> rest # <<>>
          /\ attempt.input.strategy.init_moving_direction # 0 <=> rest # <<>>
=============================================================================
