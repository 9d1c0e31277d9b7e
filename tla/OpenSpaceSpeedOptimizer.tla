---------------------- MODULE OpenSpaceSpeedOptimizer ----------------------
(***************************************************************************)
(* The speed optimizer of open_space_speed_optimizer.cc with the path      *)
(* handle of path_handle.cc: frame by frame it cuts the path off in front  *)
(* of the nearest obstacle, decides whether the vehicle goes or waits, and *)
(* answers with a sampled trajectory, a braking one or a stop.             *)
(*                                                                         *)
(* A frame brings where along its path the vehicle box first meets a       *)
(* static and a moving obstacle, and what the sampling of speed curves     *)
(* comes to.  Distances are in units of the margin of 0.3 m, times in      *)
(* units of the caller; a clock is known by its age, up to AgeCap.  No     *)
(* adapter input has a wheel mask, and the segments of the free space are  *)
(* empty in this build.                                                    *)
(***************************************************************************)
EXTENDS Integers, FiniteSets

CONSTANTS
  Lengths,          \* lengths of a path
  Elapsed,          \* time between two frames
  ReplanSettings,   \* values of enable_wait_for_replan
  MinWait,          \* min_wait_replan_state_time, min_wait_obstacle_state_time
  MaxReplanWait,    \* max_wait_time_for_replan
  MaxReplanWaitRpa, \* max_wait_time_for_replan_rpa_direct
  AgeCap,           \* the age at which every clock has passed its threshold
  WaitCount,        \* wait_obstacle_min_count
  SafeCount         \* bigger_buffer_safe_min_count

None == -1

SpeedAssumption ==
  /\ Lengths \subseteq Nat /\ Lengths # {} /\ IsFiniteSet(Lengths)
  /\ Elapsed \subseteq Nat
  /\ ReplanSettings \subseteq BOOLEAN
  /\ MinWait \in Nat /\ MaxReplanWait \in Nat /\ MaxReplanWaitRpa \in Nat
  /\ WaitCount \in Nat /\ SafeCount \in Nat /\ AgeCap \in Nat
  /\ AgeCap > MinWait /\ AgeCap > MaxReplanWait /\ AgeCap > MaxReplanWaitRpa

ASSUME SpeedAssumption

VARIABLES
  wait_for_replan, \* enable_wait_for_replan
  stage,          \* interactive_stage_
  replan_start,   \* age of wait_replan_start_time_
  replan_to_init, \* age of wait_replan_to_init_time_
  obstacle_start, \* age of wait_obstacle_start_time_
  wait_count,     \* wait_obstacle_count_
  safe_count,     \* bigger_buffer_safe_count_
  middle,         \* is_use_middle_buffer_
  last_forward,   \* last_is_forward_: "none", "forward", "backward"
  last_curve,     \* the length last_curve_ drives, or None
  out,            \* SpeedOptimizerOutput of the last frame
  blocked,        \* history: age of the last frame that saw the way blocked
  fresh           \* history: the wait began in INIT, and nothing was in the way since

clocks == <<replan_start, replan_to_init, obstacle_start>>
buffer == <<wait_count, safe_count, middle, last_forward>>
history == <<blocked, fresh>>
vars == <<wait_for_replan, stage, clocks, buffer, last_curve, out, history>>

Stages == {"INIT", "WAITREPLAN", "WAITOBSTACLE", "RUNNING"}

\* CollisionInfoDecision: what a path of this length meets first, at the points
\* where a static and a moving obstacle are in the way (or None).
CollisionType(static, moving) ==
  CASE static # None /\ moving # None -> "FUSION"
    [] static # None -> "STATIC"
    [] moving # None -> "MOVING"
    [] OTHER -> "NO"

FirstCollision(len, static, moving) ==
  CHOOSE n \in {len, static, moving} \ {None} :
    \A m \in {len, static, moving} \ {None} : n <= m

\* A frame with a path to drive: the distance is that to the first collision, or
\* to the end of the path.
Frame(gear, still, extension, len, static, moving) ==
  [gear |-> gear, still |-> still, extension |-> extension,
   collision |-> CollisionType(static, moving),
   distance |-> FirstCollision(len, static, moving)]

Points(len) == {n \in Lengths : n <= len} \cup {None}

Frames ==
  UNION { { Frame(gear, still, extension, len, static, moving) :
              gear \in {"D", "R"}, still \in BOOLEAN, extension \in BOOLEAN,
              static \in Points(len), moving \in Points(len) } : len \in Lengths }

AtMost(n, cap) == IF n < cap THEN n ELSE cap

Older(age, dt) == AtMost(age + dt, AgeCap)

-----------------------------------------------------------------------------
(* PathHandle::Process. *)

Collides(f) == f.collision # "NO"

\* CutOffPathByCollisionInfo, whose stop_reserve_distance is zero without free
\* space: the length of the candidate path.
CandidateLength(f) == f.distance

\* is_restore_running
RestoreRunning(f) == Collides(f) => f.distance > 1

TooClose(f) == Collides(f) /\ f.distance < 1

ReplanPatience(rpa) == IF rpa THEN MaxReplanWaitRpa ELSE MaxReplanWait

\* UpdateInteractiveStage, from INIT.  The wait for an obstacle begins without
\* its clock.
FromInit(f, dt) ==
  IF ~(f.still /\ TooClose(f))
  THEN [stage |-> "INIT", start |-> Older(replan_start, dt),
        init |-> Older(replan_to_init, dt), obstacle |-> Older(obstacle_start, dt)]
  ELSE IF ~wait_for_replan \/ f.collision = "MOVING"
  THEN [stage |-> "WAITOBSTACLE", start |-> Older(replan_start, dt),
        init |-> Older(replan_to_init, dt), obstacle |-> Older(obstacle_start, dt)]
  ELSE [stage |-> "WAITREPLAN", start |-> 0, init |-> 0,
        obstacle |-> Older(obstacle_start, dt)]

\* Mutants: the clock is not started again while the way is blocked, or in
\* every frame; no patience for a new path.
ObstacleClockRuns(f, dt) ==
  [stage |-> IF Older(obstacle_start, dt) > MinWait THEN "RUNNING" ELSE "WAITOBSTACLE",
   start |-> Older(replan_start, dt), init |-> Older(replan_to_init, dt),
   obstacle |-> Older(obstacle_start, dt)]

ObstacleClockStops(f, dt) ==
  [stage |-> "WAITOBSTACLE", start |-> Older(replan_start, dt),
   init |-> Older(replan_to_init, dt), obstacle |-> 0]

WaitReplanForever(f, rpa, dt) ==
  LET init == IF RestoreRunning(f) THEN Older(replan_to_init, dt) ELSE 0
  IN [stage |-> IF init > MinWait THEN "INIT" ELSE "WAITREPLAN",
      start |-> Older(replan_start, dt), init |-> init,
      obstacle |-> Older(obstacle_start, dt)]

\* From WAITREPLAN: on when the way stays clear, else to wait for an obstacle
\* that moves or when the patience for a new path is over.
FromWaitReplan(f, rpa, dt) ==
  LET init == IF RestoreRunning(f) THEN Older(replan_to_init, dt) ELSE 0
      start == Older(replan_start, dt)
  IN IF init > MinWait
     THEN [stage |-> "INIT", start |-> start, init |-> init,
           obstacle |-> Older(obstacle_start, dt)]
     ELSE IF f.collision = "MOVING" \/ start > ReplanPatience(rpa)
     THEN [stage |-> "WAITOBSTACLE", start |-> start, init |-> init, obstacle |-> 0]
     ELSE [stage |-> "WAITREPLAN", start |-> start, init |-> init,
           obstacle |-> Older(obstacle_start, dt)]

\* From WAITOBSTACLE: the clock starts again in every frame that is blocked.
FromWaitObstacle(f, dt) ==
  LET obstacle == IF RestoreRunning(f) THEN Older(obstacle_start, dt) ELSE 0
  IN [stage |-> IF obstacle > MinWait THEN "RUNNING" ELSE "WAITOBSTACLE",
      start |-> Older(replan_start, dt), init |-> Older(replan_to_init, dt),
      obstacle |-> obstacle]

\* InitInteractiveStage has left RUNNING behind.
UpdateInteractiveStage(s, f, rpa, dt) ==
  CASE s = "INIT" -> FromInit(f, dt)
    [] s = "WAITREPLAN" -> FromWaitReplan(f, rpa, dt)
    [] s = "WAITOBSTACLE" -> FromWaitObstacle(f, dt)

Direction(f) == IF f.gear = "D" THEN "forward" ELSE "backward"

\* What UpdateCollisionInfo and UpdateIsUseMiddleBuffer leave of the middle
\* buffer.  Without free space the bigger buffer is always safe.
UpdateMiddleBuffer(f, new_stage) ==
  LET safe == IF middle THEN AtMost(safe_count + 1, SafeCount + 1) ELSE 0
      waits == IF new_stage = "WAITOBSTACLE"
               THEN AtMost(wait_count + 1, WaitCount + 1) ELSE 0
  IN /\ safe_count' = safe
     /\ wait_count' = waits
     /\ middle' = \/ middle /\ safe <= SafeCount
                  \/ f.extension /\ last_forward # Direction(f)
                  \/ waits > WaitCount
     /\ last_forward' = Direction(f)

-----------------------------------------------------------------------------
(* OpenSpaceSpeedOptimizer::Execute. *)

NoOutput == [kind |-> "none", reach |-> 0, replan |-> FALSE,
             seen |-> FALSE, clear |-> FALSE]

Stop == [NoOutput EXCEPT !.kind = "stop"]

\* InitInteractiveStage
FrameStage(gear) == IF gear = "P" \/ stage = "RUNNING" THEN "INIT" ELSE stage

\* SpeedPlanPreCheck fails, for a stop path, a gear that does not drive or an
\* empty path: a stop, and the path handle does not see the frame.
PreCheckStop(gear, dt) ==
  /\ stage' = FrameStage(gear)
  /\ replan_start' = Older(replan_start, dt)
  /\ replan_to_init' = Older(replan_to_init, dt)
  /\ obstacle_start' = Older(obstacle_start, dt)
  /\ blocked' = Older(blocked, dt)
  /\ fresh' = (fresh /\ stage' = stage)
  /\ last_curve' = None
  /\ out' = Stop
  /\ UNCHANGED <<wait_for_replan, buffer>>

\* The part of a frame that the path handle sees.
Process(f, dt, new) ==
  /\ stage' = new.stage
  /\ replan_start' = new.start
  /\ replan_to_init' = new.init
  /\ obstacle_start' = new.obstacle
  /\ UpdateMiddleBuffer(f, new.stage)
  /\ blocked' = IF RestoreRunning(f) THEN Older(blocked, dt) ELSE 0
  /\ fresh' = /\ new.stage = "WAITOBSTACLE"
              /\ FrameStage(f.gear) = "INIT" \/ (fresh /\ RestoreRunning(f))
  /\ UNCHANGED wait_for_replan

\* What the output of such a frame says of the path.
Seen(f, new) ==
  [NoOutput EXCEPT !.replan = new.stage = "WAITREPLAN" /\ Collides(f),
                   !.seen = TRUE, !.clear = RestoreRunning(f)]

\* The vehicle waits, or is about to go on.
WaitingStop(f, rpa, dt) ==
  LET new == UpdateInteractiveStage(FrameStage(f.gear), f, rpa, dt)
  IN /\ new.stage # "INIT"
     /\ Process(f, dt, new)
     /\ last_curve' = None
     /\ out' = [Seen(f, new) EXCEPT !.kind = "stop"]

\* SampleTrajectory: the best curve is kept and delivered.
SampledDrive(f, dt) ==
  LET new == UpdateInteractiveStage(FrameStage(f.gear), f, FALSE, dt)
  IN /\ new.stage = "INIT"
     /\ CandidateLength(f) > 0
     /\ Process(f, dt, new)
     /\ last_curve' = CandidateLength(f)
     /\ out' = [Seen(f, new) EXCEPT !.kind = "sample", !.reach = CandidateLength(f)]

\* Mutant: the braking does not forget the curve.
BackUpKeepsCurve(f, dt) ==
  LET new == UpdateInteractiveStage(FrameStage(f.gear), f, FALSE, dt)
  IN /\ new.stage = "INIT"
     /\ CandidateLength(f) > 0 /\ ~f.still
     /\ Process(f, dt, new)
     /\ last_curve' = CandidateLength(f)
     /\ out' = [Seen(f, new) EXCEPT !.kind = "backup", !.reach = CandidateLength(f)]

\* GenerateBackUpTrajectory, after no curve was found or the best one could not
\* be delivered: a vehicle that drives brakes within the candidate path, and
\* the curve that SampleTrajectory may have kept is forgotten.
BackUpDrive(f, dt) ==
  LET new == UpdateInteractiveStage(FrameStage(f.gear), f, FALSE, dt)
  IN /\ new.stage = "INIT"
     /\ CandidateLength(f) > 0 /\ ~f.still
     /\ Process(f, dt, new)
     /\ last_curve' = None
     /\ out' = [Seen(f, new) EXCEPT !.kind = "backup", !.reach = CandidateLength(f)]

\* Neither a curve nor a speed to brake from: the vehicle may be too slow, count
\* as standing because the gear has changed, or have no way left.
NoDrive(f, dt) ==
  LET new == UpdateInteractiveStage(FrameStage(f.gear), f, FALSE, dt)
  IN /\ new.stage = "INIT"
     /\ Process(f, dt, new)
     /\ last_curve' = None
     /\ out' = [Seen(f, new) EXCEPT !.kind = "stop"]

Execute ==
  \E dt \in Elapsed :
    \/ \E gear \in {"D", "R", "P"} : PreCheckStop(gear, dt)
    \/ \E f \in Frames :
         \/ \E rpa \in BOOLEAN : WaitingStop(f, rpa, dt)
         \/ SampledDrive(f, dt)
         \/ BackUpDrive(f, dt)
         \/ NoDrive(f, dt)

\* The path handle keeps its clocks and its buffer.
Reset ==
  /\ stage' = "INIT"
  /\ last_curve' = None
  /\ out' = NoOutput
  /\ fresh' = FALSE
  /\ UNCHANGED <<wait_for_replan, clocks, buffer, blocked>>

Init ==
  /\ wait_for_replan \in ReplanSettings
  /\ stage = "INIT"
  /\ replan_start = 0 /\ replan_to_init = 0 /\ obstacle_start = 0
  /\ wait_count = 0 /\ safe_count = 0 /\ middle = FALSE
  /\ last_forward = "none"
  /\ last_curve = None
  /\ out = NoOutput
  /\ blocked = AgeCap
  /\ fresh = FALSE

Next == Execute \/ Reset

Spec == Init /\ [][Next]_vars

\* Frames keep coming.
FairSpec == Spec /\ WF_vars(Execute)

-----------------------------------------------------------------------------
TypeOK ==
  /\ wait_for_replan \in BOOLEAN
  /\ stage \in Stages
  /\ replan_start \in 0 .. AgeCap /\ replan_to_init \in 0 .. AgeCap
  /\ obstacle_start \in 0 .. AgeCap /\ blocked \in 0 .. AgeCap
  /\ wait_count \in 0 .. WaitCount + 1
  /\ safe_count \in 0 .. SafeCount + 1
  /\ middle \in BOOLEAN
  /\ last_forward \in {"none", "forward", "backward"}
  /\ last_curve \in Lengths \cup {None}
  /\ out \in [kind : {"none", "stop", "sample", "backup"},
              reach : Lengths \cup {0}, replan : BOOLEAN,
              seen : BOOLEAN, clear : BOOLEAN]
  /\ fresh \in BOOLEAN

(* A vehicle that waits is sent on only by a frame that finds the way      *)
(* clear, and it was clear for the minimal time, unless only the first     *)
(* frame of the wait saw something in the way: UpdateInteractiveStage does *)
(* not start the clock of a wait for an obstacle that begins in INIT.  A   *)
(* new session (gear P, Reset) does not look at the path.                  *)
WaitsUntilClear ==
  [][ /\ stage \in {"WAITREPLAN", "WAITOBSTACLE"}
      /\ stage' \in {"RUNNING", "INIT"}
      /\ out'.seen
      => out'.clear /\ (blocked' > MinWait \/ fresh) ]_vars

(* The curve that the next sampling is compared with is the one that was   *)
(* delivered: it is not left over from a frame that stopped, braked or     *)
(* changed gear.                                                           *)
RemembersDelivered ==
  last_curve # None => out.kind = "sample" /\ out.reach = last_curve

(* Speed planning asks for a new path only with a stop, only if that is    *)
(* configured (enable_wait_for_replan), and not for longer than the        *)
(* patience for it.                                                        *)
ReplanIsBounded ==
  out.replan => /\ wait_for_replan /\ out.kind = "stop"
                /\ \/ replan_start <= MaxReplanWait
                   \/ replan_start <= MaxReplanWaitRpa

(* Once the way stays clear, the vehicle goes on and keeps going.          *)
ClearWayReleases == <>[](out.clear) => <>[](stage = "INIT")

=============================================================================
