------------------------------- MODULE Topics -------------------------------
(***************************************************************************)
(* The messages of the component: the classes generated from               *)
(* idl/valet_parking_topics.idl (valet_parking_topics.h and .cpp), each    *)
(* with its members, those the constructor zeroes, and the order in which  *)
(* serialize and deserialize go through them; and what becomes of the      *)
(* obstacles of a message on their way to the planning           *)
(* (valet_parking_component.cpp, valet_parking_stage_parking_adapter.cpp). *)
(*                                                                         *)
(* The accessors are the fields of a record.  A value is a whole number,   *)
(* also where the class has a text or an enumeration, and Unset stands for *)
(* the memory of a member that nothing has been assigned to.               *)
(***************************************************************************)
EXTENDS Integers, SequencesExt

CONSTANT Vehicle \* as in AdapterDecisions

Adapter == INSTANCE AdapterDecisions

Unset == -1
Garbled == -2

-----------------------------------------------------------------------------
(* Kinds of members *)

U64 == [is |-> "plain", width |-> "8"]
Double == [is |-> "plain", width |-> "8"]
U32 == [is |-> "plain", width |-> "4"]
Enum == [is |-> "plain", width |-> "4"]
Bool == [is |-> "plain", width |-> "1"]
Text == [is |-> "plain", width |-> "text"]
Nested(class) == [is |-> "nested", class |-> class]
ListOf(class) == [is |-> "list", class |-> class]

-----------------------------------------------------------------------------
(* Classes *)

HeaderMembers == [seq |-> U64, frame_id |-> Text, publish_stamp_ms |-> U64, data_stamp_ms |-> U64]
Header ==
  [written |-> <<"seq", "frame_id", "publish_stamp_ms", "data_stamp_ms">>,
   read |-> <<"seq", "frame_id", "publish_stamp_ms", "data_stamp_ms">>,
   zeroed |-> {"seq", "publish_stamp_ms", "data_stamp_ms"},
   members |-> HeaderMembers]

Point3DMembers == [x |-> Double, y |-> Double, z |-> Double]
Point3D ==
  [written |-> <<"x", "y", "z">>,
   read |-> <<"x", "y", "z">>,
   zeroed |-> {"x", "y", "z"},
   members |-> Point3DMembers]

PsPointMembers == [point |-> Nested(Point3D), position |-> Enum, quality |-> Enum]
PsPoint ==
  [written |-> <<"point", "position", "quality">>,
   read |-> <<"point", "position", "quality">>,
   zeroed |-> {},
   members |-> PsPointMembers]

ParkingPathPointMembers == [x |-> Double, y |-> Double, z |-> Double, yaw |-> Double,
  accumulate_s |-> Double, gear |-> U32]
ParkingPathPoint ==
  [written |-> <<"x", "y", "z", "yaw", "accumulate_s", "gear">>,
   read |-> <<"x", "y", "z", "yaw", "accumulate_s", "gear">>,
   zeroed |-> {"x", "y", "z", "yaw", "accumulate_s", "gear"},
   members |-> ParkingPathPointMembers]

LocalizationEstimateMembers == [header |-> Nested(Header), is_valid |-> Bool, x |-> Double, y |-> Double,
  z |-> Double, heading |-> Double]
LocalizationEstimate ==
  [written |-> <<"header", "is_valid", "x", "y", "z", "heading">>,
   read |-> <<"header", "is_valid", "x", "y", "z", "heading">>,
   zeroed |-> {"is_valid", "x", "y", "z", "heading"},
   members |-> LocalizationEstimateMembers]

ChassisStateMembers == [header |-> Nested(Header), is_valid |-> Bool, speed_mps |-> Double,
  acceleration_mps2 |-> Double, gear |-> Enum]
ChassisState ==
  [written |-> <<"header", "is_valid", "speed_mps", "acceleration_mps2", "gear">>,
   read |-> <<"header", "is_valid", "speed_mps", "acceleration_mps2", "gear">>,
   zeroed |-> {"is_valid", "speed_mps", "acceleration_mps2"},
   members |-> ChassisStateMembers]

ObstacleMembers == [id |-> U32, type |-> Enum, is_dynamic |-> Bool, center_x |-> Double,
  center_y |-> Double, heading |-> Double, length |-> Double, width |-> Double, velocity_x |-> Double,
  velocity_y |-> Double]

\* A reader that has two members of a kind in the wrong order.
ObstacleReadsWidthFirst ==
  [written |-> <<"id", "type", "is_dynamic", "center_x", "center_y", "heading", "length", "width",
      "velocity_x", "velocity_y">>,
   read |-> <<"id", "type", "is_dynamic", "center_x", "center_y", "heading", "width", "length",
      "velocity_x", "velocity_y">>,
   zeroed |-> {"id", "is_dynamic", "center_x", "center_y", "heading", "length", "width", "velocity_x",
      "velocity_y"},
   members |-> ObstacleMembers]

Obstacle ==
  [written |-> <<"id", "type", "is_dynamic", "center_x", "center_y", "heading", "length", "width",
      "velocity_x", "velocity_y">>,
   read |-> <<"id", "type", "is_dynamic", "center_x", "center_y", "heading", "length", "width",
      "velocity_x", "velocity_y">>,
   zeroed |-> {"id", "is_dynamic", "center_x", "center_y", "heading", "length", "width", "velocity_x",
      "velocity_y"},
   members |-> ObstacleMembers]

ObstacleArrayMembers == [header |-> Nested(Header), is_valid |-> Bool, obstacles |-> ListOf(Obstacle)]
ObstacleArray ==
  [written |-> <<"header", "is_valid", "obstacles">>,
   read |-> <<"header", "is_valid", "obstacles">>,
   zeroed |-> {"is_valid"},
   members |-> ObstacleArrayMembers]

ParkingCommandMembers == [header |-> Nested(Header), is_valid |-> Bool, mode |-> Enum, parking_seq |-> U32,
  direct_distance_m |-> Double, direct_speed_mps |-> Double, reset_history |-> Bool, reason |-> Text]
ParkingCommand ==
  [written |-> <<"header", "is_valid", "mode", "parking_seq", "direct_distance_m", "direct_speed_mps",
      "reset_history", "reason">>,
   read |-> <<"header", "is_valid", "mode", "parking_seq", "direct_distance_m", "direct_speed_mps",
      "reset_history", "reason">>,
   zeroed |-> {"is_valid", "parking_seq", "direct_distance_m", "direct_speed_mps", "reset_history"},
   members |-> ParkingCommandMembers]

ParkingLotMembers == [parking_seq |-> U32, type |-> Enum, status |-> Enum, sensor_type |-> Enum,
  is_private_ps |-> Bool, pts_vrf |-> ListOf(PsPoint), time_creation |-> Double,
  pts_enu |-> ListOf(PsPoint), hmi_angle |-> Double, hmi_depth |-> Double, hmi_width |-> Double,
  hmi_direction |-> Double, hmi_type |-> Double, hmi_status |-> Double, park_size |-> Enum]
ParkingLot ==
  [written |-> <<"parking_seq", "type", "status", "sensor_type", "is_private_ps", "pts_vrf",
      "time_creation", "pts_enu", "hmi_angle", "hmi_depth", "hmi_width", "hmi_direction", "hmi_type",
      "hmi_status", "park_size">>,
   read |-> <<"parking_seq", "type", "status", "sensor_type", "is_private_ps", "pts_vrf", "time_creation",
      "pts_enu", "hmi_angle", "hmi_depth", "hmi_width", "hmi_direction", "hmi_type", "hmi_status",
      "park_size">>,
   zeroed |-> {"parking_seq", "is_private_ps", "time_creation", "hmi_angle", "hmi_depth", "hmi_width",
      "hmi_direction", "hmi_type", "hmi_status"},
   members |-> ParkingLotMembers]

SelectedSlotMembers == [header |-> Nested(Header), count |-> U32, loc_seq |-> U32, opt_parking_seq |-> U32,
  parking_lots |-> ListOf(ParkingLot), is_valid |-> Bool, path_point_size |-> U32,
  traced_path |-> ListOf(ParkingPathPoint), hpp_cruising_to_parking |-> Bool, enable_trigger |-> Bool]
SelectedSlot ==
  [written |-> <<"header", "count", "loc_seq", "opt_parking_seq", "parking_lots", "is_valid",
      "path_point_size", "traced_path", "hpp_cruising_to_parking", "enable_trigger">>,
   read |-> <<"header", "count", "loc_seq", "opt_parking_seq", "parking_lots", "is_valid",
      "path_point_size", "traced_path", "hpp_cruising_to_parking", "enable_trigger">>,
   zeroed |-> {"count", "loc_seq", "opt_parking_seq", "is_valid", "path_point_size",
      "hpp_cruising_to_parking", "enable_trigger"},
   members |-> SelectedSlotMembers]

PathPointMembers == [x |-> Double, y |-> Double, z |-> Double, theta |-> Double, kappa |-> Double,
  s |-> Double, l |-> Double, dkappa |-> Double, ddkappa |-> Double, lane_id |-> Text,
  x_derivative |-> Double, y_derivative |-> Double]
PathPoint ==
  [written |-> <<"x", "y", "z", "theta", "kappa", "s", "l", "dkappa", "ddkappa", "lane_id", "x_derivative",
      "y_derivative">>,
   read |-> <<"x", "y", "z", "theta", "kappa", "s", "l", "dkappa", "ddkappa", "lane_id", "x_derivative",
      "y_derivative">>,
   zeroed |-> {"x", "y", "z", "theta", "kappa", "s", "l", "dkappa", "ddkappa", "x_derivative",
      "y_derivative"},
   members |-> PathPointMembers]

GaussianInfoMembers == [sigma_x |-> Double, sigma_y |-> Double, correlation |-> Double,
  area_probability |-> Double, ellipse_a |-> Double, ellipse_b |-> Double, theta_a |-> Double]
GaussianInfo ==
  [written |-> <<"sigma_x", "sigma_y", "correlation", "area_probability", "ellipse_a", "ellipse_b",
      "theta_a">>,
   read |-> <<"sigma_x", "sigma_y", "correlation", "area_probability", "ellipse_a", "ellipse_b",
      "theta_a">>,
   zeroed |-> {"sigma_x", "sigma_y", "correlation", "area_probability", "ellipse_a", "ellipse_b",
      "theta_a"},
   members |-> GaussianInfoMembers]

TrajectoryPointMembers == [path_point |-> Nested(PathPoint), v |-> Double, a |-> Double,
  relative_time |-> Double, da |-> Double, steer |-> Double, gaussian_info |-> Nested(GaussianInfo)]
TrajectoryPoint ==
  [written |-> <<"path_point", "v", "a", "relative_time", "da", "steer", "gaussian_info">>,
   read |-> <<"path_point", "v", "a", "relative_time", "da", "steer", "gaussian_info">>,
   zeroed |-> {"v", "a", "relative_time", "da", "steer"},
   members |-> TrajectoryPointMembers]

EStopMembers == [is_estop |-> Bool, reason |-> Text]
EStop ==
  [written |-> <<"is_estop", "reason">>,
   read |-> <<"is_estop", "reason">>,
   zeroed |-> {"is_estop"},
   members |-> EStopMembers]

PlanningTrajectoryMembers == [header |-> Nested(Header), total_path_length |-> Double,
  total_path_time |-> Double, trajectory_point |-> ListOf(TrajectoryPoint), is_replan |-> Bool,
  replan_type |-> U32, replan_reason |-> Text, longitudinal_diff |-> Double, lateral_diff |-> Double,
  gear |-> Enum, estop |-> Nested(EStop), trajectory_type |-> Enum]
PlanningTrajectory ==
  [written |-> <<"header", "total_path_length", "total_path_time", "trajectory_point", "is_replan",
      "replan_type", "replan_reason", "longitudinal_diff", "lateral_diff", "gear", "estop",
      "trajectory_type">>,
   read |-> <<"header", "total_path_length", "total_path_time", "trajectory_point", "is_replan",
      "replan_type", "replan_reason", "longitudinal_diff", "lateral_diff", "gear", "estop",
      "trajectory_type">>,
   zeroed |-> {"total_path_length", "total_path_time", "is_replan", "replan_type", "longitudinal_diff",
      "lateral_diff"},
   members |-> PlanningTrajectoryMembers]

Classes == <<Header, Point3D, PsPoint, ParkingPathPoint, LocalizationEstimate, ChassisState, Obstacle,
             ObstacleArray, ParkingCommand, ParkingLot, SelectedSlot, PathPoint, GaussianInfo,
             TrajectoryPoint, EStop, PlanningTrajectory>>

-----------------------------------------------------------------------------
(* Samples *)

\* A sample as the constructor leaves it; a text and a list are empty then.
RECURSIVE Created(_)
Created(class) ==
  [m \in DOMAIN class.members |->
     LET kind == class.members[m]
     IN CASE kind.is = "nested" -> Created(kind.class)
          [] kind.is = "list" -> <<>>
          [] OTHER -> IF m \in class.zeroed \/ kind.width = "text" THEN 0 ELSE Unset]

\* What the stream takes for a member, for a list its length first.
RECURSIVE Write(_, _)
Put(kind, value) ==
  CASE kind.is = "plain" -> <<[width |-> kind.width, value |-> value]>>
    [] kind.is = "nested" -> Write(kind.class, value)
    [] kind.is = "list" -> <<[width |-> "4", value |-> Len(value)]>>
                           \o FlattenSeq([i \in DOMAIN value |-> Write(kind.class, value[i])])

\* serialize
Write(class, sample) ==
  FlattenSeq([i \in DOMAIN class.written |->
                Put(class.members[class.written[i]], sample[class.written[i]])])

\* What the stream gives for a member, and what is left of it; nothing sensible if
\* it is read as what it was not written as.
RECURSIVE Read(_, _)
Taken(width, items) ==
  IF items # <<>> /\ Head(items).width = width
  THEN [value |-> Head(items).value, rest |-> Tail(items)]
  ELSE [value |-> Garbled, rest |-> <<>>]
Take(kind, items) ==
  CASE kind.is = "plain" -> Taken(kind.width, items)
    [] kind.is = "nested" -> Read(kind.class, items)
    [] kind.is = "list" ->
         LET more(got, i) == LET next == Read(kind.class, got.rest)
                             IN [value |-> Append(got.value, next.value), rest |-> next.rest]
             count == Taken("4", items)
         IN FoldLeft(more, [value |-> <<>>, rest |-> count.rest], [i \in 1 .. count.value |-> i])

\* deserialize, into a sample that was created before.
Read(class, items) ==
  LET assign(got, m) == LET next == Take(class.members[m], got.rest)
                        IN [value |-> [got.value EXCEPT ![m] = next.value], rest |-> next.rest]
  IN FoldLeft(assign, [value |-> Created(class), rest |-> items], class.read)

\* HeaderTopicDataType and its like: what a reader has of what a writer sent.
Delivered(class, sample) == Read(class, Write(class, sample)).value

-----------------------------------------------------------------------------
(* Obstacles *)

ObstacleType == <<"UNKNOWN", "UNKNOWN_MOVABLE", "UNKNOWN_UNMOVABLE", "PEDESTRIAN", "BICYCLE", "VEHICLE">>

\* MapDdsObstacleType, MapApiObstacleType: the enumerations of the topics, the C API
\* and the algorithm number alike; a code that came over the wire may be none of them.
TypeName(code) == IF code \in 0 .. Len(ObstacleType) - 1 THEN ObstacleType[code + 1] ELSE "UNKNOWN"

\* Doubles are whole numbers; these are not finite.
Infinite == 99
IsFinite(o) == \A m \in {"center_x", "center_y", "heading", "length", "width", "velocity_x", "velocity_y"} :
                 o[m] # Infinite

IsValidObstacleSample(o) == IsFinite(o) /\ o.length > 0 /\ o.width > 0

\* The obstacle as the planning has it.
ForPlanning(o) ==
  [id |-> o.id, type |-> TypeName(o.type), is_dynamic |-> o.is_dynamic # 0,
   center |-> [x |-> o.center_x, y |-> o.center_y], heading |-> o.heading, length |-> o.length,
   width |-> o.width, velocity |-> [x |-> o.velocity_x, y |-> o.velocity_y], finite |-> IsFinite(o)]

\* HandleObstacleSample: the obstacles after a sample; those there were are gone
\* in any case.
HandleObstacleSample(scene, sample) ==
  LET obstacles == [i \in DOMAIN sample.obstacles |-> ForPlanning(sample.obstacles[i])]
      updated == Adapter!UpdateObstacles(scene, obstacles)
  IN IF /\ sample.is_valid # 0
        /\ \A i \in DOMAIN sample.obstacles : IsValidObstacleSample(sample.obstacles[i])
        /\ updated = obstacles
     THEN updated ELSE <<>>
=============================================================================
