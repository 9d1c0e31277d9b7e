-------------------------- MODULE StageParkingAdapter --------------------------
(***************************************************************************)
(* ValetParkingStageParkingAdapter::Process: one call per SelectedSlot     *)
(* sample, with the parking command that is latched then, if any.  It      *)
(* dispatches the command, or runs ROI, path provider, partition and speed *)
(* optimizer one after the other, and keeps from frame to frame what       *)
(* `runtime' holds.  The calls, and the updates of the vehicle state that  *)
(* arrive between them, are serialised by runtime_mutex_, so each is one   *)
(* action; the tasks are known by what they answer (PathProviderFrame has  *)
(* the inside of the path provider).                                       *)
(***************************************************************************)
EXTENDS Integers

CONSTANT RequiredFrames    \* kStageFinishRequiredConsecutiveFrames

ASSUME StageAssumption == RequiredFrames \in Nat \ {0}

DirectModes == {"forward", "backward"}
HoldModes   == {"pause", "brake", "finish"}
OutModes    == {"left", "right", "front", "back"}
Modes       == DirectModes \cup HoldModes \cup OutModes \cup {"in"}

\* The component passes no command where the latched one is invalid or NONE.
NoCommand == [mode |-> "null", reset_history |-> FALSE]
Commands  == [mode : Modes, reset_history : BOOLEAN] \cup {NoCommand}

VARIABLES
  runtime,   \* RuntimeContext, the part that outlives a frame
  vehicle,   \* vehicle_input: "unknown", or its speed against the threshold
  output,    \* the trajectory of the last frame
  since,     \* history: what happened since the planning state was last reset
  over       \* history: finish_ready was published, and neither reset_history nor
             \* a direct command has begun something new

vars == <<runtime, vehicle, output, since, over>>

\* A speed frame is known by the planner it came from.
Runtime ==
  [has_history : BOOLEAN,
   last_speed_frame : {"none", "ordinary", "direct"},
   replan : BOOLEAN,              \* the last speed plan asks for another path
   consecutive_ready_frames : 0 .. RequiredFrames,
   direct_command : DirectModes \cup {"none"},
   stage_exit_requested : BOOLEAN]

\* Mutant of ResetPlanningState: the frame of the speed optimizer survives it.
ResetKeepsSpeedFrame ==
  [has_history |-> FALSE, last_speed_frame |-> runtime.last_speed_frame,
   replan |-> runtime.replan, consecutive_ready_frames |-> 0,
   direct_command |-> "none", stage_exit_requested |-> FALSE]

NewRuntime ==
  [has_history |-> FALSE, last_speed_frame |-> "none", replan |-> FALSE,
   consecutive_ready_frames |-> 0, direct_command |-> "none",
   stage_exit_requested |-> FALSE]

ResetPlanningState == NewRuntime

(* since.ready: planning frames in a row that saw the vehicle stand at the *)
(* destination; takenOver: a command of another kind ended a direct one;   *)
(* finishCommand: FINISH was received.                                     *)
Nothing == [ready |-> 0, takenOver |-> FALSE, finishCommand |-> FALSE]

PlannedKinds == {"trajectory", "partition_path", "provider_path", "roi_seed"}
Kinds == PlannedKinds \cup {"none", "direct", "stop", "estop"}

\* What is published, and the speed frame the speed optimizer started from.
Publish(kind, seed) == output' = [kind |-> kind, seed |-> seed]

TypeOK ==
  /\ runtime \in Runtime
  /\ vehicle \in {"unknown", "moving", "standing"}
  /\ output \in [kind : Kinds, seed : {"none", "ordinary", "direct"}]
  /\ since \in [ready : 0 .. RequiredFrames, takenOver : BOOLEAN,
                finishCommand : BOOLEAN]
  /\ over \in BOOLEAN

Init ==
  /\ runtime = NewRuntime
  /\ vehicle = "unknown"
  /\ output = [kind |-> "none", seed |-> "none"]
  /\ since = Nothing
  /\ over = FALSE

-----------------------------------------------------------------------------
(* Between two frames. *)

UpdateVehicleState ==
  /\ vehicle' \in {"moving", "standing"}
  /\ UNCHANGED <<runtime, output, since, over>>

ClearVehicleState ==
  /\ vehicle' = "unknown"
  /\ UNCHANGED <<runtime, output, since, over>>

\* Without a vehicle state the speed counts as 0.
Standing == vehicle # "moving"

-----------------------------------------------------------------------------
(* What a command does before the frame is dispatched. *)

Begun(command) ==
  IF command.reset_history THEN ResetPlanningState ELSE runtime

\* A command that is not a direct one ends the direct one before it.
Released(command) ==
  IF command = NoCommand
  THEN runtime
  ELSE [Begun(command) EXCEPT !.direct_command = "none"]

\* The histories that go with the two.
Kept(command) == IF command.reset_history THEN Nothing ELSE since

Left(command) ==
  [Kept(command) EXCEPT
     !.takenOver = @ \/ (/\ command # NoCommand
                         /\ Begun(command).direct_command # "none")]

OverAfter(command) == over /\ ~command.reset_history

Reset == runtime' = ResetPlanningState /\ since' = Nothing

\* A speed plan, or the lack of one, at the end of a frame.
UpdateAfterSpeedOptimizer(state, planner, replan) ==
  [state EXCEPT !.last_speed_frame = planner, !.replan = replan]

UpdateAfterPartitionFallback(state) ==
  [state EXCEPT !.last_speed_frame = "none", !.replan = FALSE]

-----------------------------------------------------------------------------
(* The branches of Process that a command selects. *)

\* The straight path is planned; its speed plan may fail.
DirectControl(command) ==
  /\ command.mode \in DirectModes
  /\ LET state == [Begun(command) EXCEPT !.direct_command = command.mode]
     IN  \/ /\ \E replan \in BOOLEAN :
                 runtime' = UpdateAfterSpeedOptimizer(state, "direct", replan)
            /\ Publish("direct", state.last_speed_frame)
         \/ /\ runtime' = UpdateAfterPartitionFallback(state)
            /\ \E kind \in {"direct", "stop"} : Publish(kind, "none")
  /\ since' = Kept(command)
  /\ over' = FALSE
  /\ UNCHANGED vehicle

DirectPathFails(command) ==
  /\ command.mode \in DirectModes
  /\ Reset
  /\ Publish("stop", "none")
  /\ over' = FALSE
  /\ UNCHANGED vehicle

StageControlStop(command) ==
  /\ command.mode \in HoldModes
  /\ runtime' = [Released(command) EXCEPT
                   !.stage_exit_requested = @ \/ command.mode = "finish"]
  /\ since' = [Left(command) EXCEPT
                 !.finishCommand = @ \/ command.mode = "finish"]
  /\ over' = OverAfter(command)
  /\ Publish("stop", "none")
  /\ UNCHANGED vehicle

UnsupportedParkingOut(command) ==
  /\ command.mode \in OutModes
  /\ runtime' = Released(command)
  /\ since' = Left(command)
  /\ over' = OverAfter(command)
  /\ Publish("stop", "none")
  /\ UNCHANGED vehicle

-----------------------------------------------------------------------------
(* The branches of a planning frame: no command, or PARKING_IN. *)

Planning(command) == command.mode \in {"in", "null"}

\* The frame ends with a reset and publishes what it has got so far.
GiveUp(command, kind) ==
  /\ Reset
  /\ Publish(kind, "none")
  /\ over' = OverAfter(command)
  /\ UNCHANGED vehicle

\* The sample is not valid, has no lots, or counts more than it has.
InvalidSample(command) ==
  /\ Planning(command)
  /\ GiveUp(command, "estop")

\* Mutant of DirectRelease: only the direct command is reset.
ReleaseKeepsState(command) ==
  /\ Planning(command)
  /\ Released(command).direct_command # "none"
  /\ runtime' = IF Standing THEN [runtime EXCEPT !.direct_command = "none"]
                            ELSE runtime
  /\ Publish("stop", "none")
  /\ UNCHANGED <<vehicle, since, over>>

\* A direct command that was withdrawn holds the vehicle until it stands.
DirectRelease(command) ==
  /\ Planning(command)
  /\ Released(command).direct_command # "none"
  /\ \/ Standing /\ Reset
     \/ ~Standing /\ UNCHANGED <<runtime, since>>
  /\ Publish("stop", "none")
  /\ UNCHANGED <<vehicle, over>>

\* Neither of the two branches before is taken.
NotDirect(command) ==
  Planning(command) /\ Released(command).direct_command = "none"

FinishHold(command) ==
  /\ NotDirect(command)
  /\ Released(command).stage_exit_requested
  /\ runtime' = Released(command)
  /\ since' = Left(command)
  /\ Publish("stop", "none")
  /\ UNCHANGED <<vehicle, over>>

\* From here on the tasks are run.
Plans(command) == NotDirect(command) /\ ~Released(command).stage_exit_requested

\* The lot is missing, malformed or far away, ROI or the pre-check fails.
UnfitLot(command) == Plans(command) /\ GiveUp(command, "estop")

ProviderFails(command) == Plans(command) /\ GiveUp(command, "roi_seed")

PartitionFails(command) == Plans(command) /\ GiveUp(command, "provider_path")

AddFrame(count) == IF count < RequiredFrames THEN count + 1 ELSE count

\* Mutant of ReadyFrames: a frame that is not ready does not start over.
ReadyFramesInTotal(before, ready) == IF ready THEN AddFrame(before) ELSE before

\* UpdateStageFinishEvaluation; above RequiredFrames the code counts on, and
\* only compares.
ReadyFrames(before, ready) == IF ready THEN AddFrame(before) ELSE 0

\* Provider and partition succeed; the speed optimizer may fail.
Planned(command) ==
  /\ Plans(command)
  /\ \E reached \in BOOLEAN :
       LET ready  == reached /\ Standing
           begun  == Released(command)
           count  == ReadyFrames(begun.consecutive_ready_frames, ready)
           finish == count >= RequiredFrames
           state  == [begun EXCEPT !.has_history = TRUE,
                                   !.consecutive_ready_frames = count,
                                   !.stage_exit_requested = finish]
       IN  /\ \/ /\ \E replan \in BOOLEAN :
                      runtime' = UpdateAfterSpeedOptimizer(state, "ordinary", replan)
                 /\ Publish("trajectory", begun.last_speed_frame)
              \/ /\ runtime' = UpdateAfterPartitionFallback(state)
                 /\ Publish("partition_path", "none")
           /\ since' = [Left(command) EXCEPT !.ready =
                          IF ready THEN AddFrame(@) ELSE 0]
           /\ over' = (OverAfter(command) \/ finish)
  /\ UNCHANGED vehicle

Process(command) ==
  \/ DirectControl(command) \/ DirectPathFails(command)
  \/ StageControlStop(command) \/ UnsupportedParkingOut(command)
  \/ InvalidSample(command) \/ DirectRelease(command) \/ FinishHold(command)
  \/ UnfitLot(command) \/ ProviderFails(command) \/ PartitionFails(command)
  \/ Planned(command)

Next ==
  \/ \E command \in Commands : Process(command)
  \/ UpdateVehicleState \/ ClearVehicleState

Spec == Init /\ [][Next]_vars

-----------------------------------------------------------------------------
(* Safety. *)

(* What the frames remember fits together: a speed plan of the ordinary    *)
(* planner and frames counted towards the finish are never kept without    *)
(* the path they belong to, and no replan is asked for without the speed   *)
(* plan that asks (ResetPlanningState, UpdateAfterPartitionFallback).      *)
MemoryIsConsistent ==
  /\ runtime.last_speed_frame = "ordinary" => runtime.has_history
  /\ runtime.consecutive_ready_frames > 0 => runtime.has_history
  /\ runtime.replan => runtime.last_speed_frame # "none"

(* When a direct command is simply withdrawn, the ordinary planner never   *)
(* goes on from the speed plan of the straight path: it starts from        *)
(* nothing, once the vehicle stands.                                       *)
DirectLeavesNoTrace ==
  output.kind \in PlannedKinds /\ output.seed = "direct" => since.takenOver

(* The stage is finished by a FINISH command, or by RequiredFrames         *)
(* planning frames in a row that saw the vehicle stand at the destination, *)
(* with no reset between them (UpdateStageFinishEvaluation).               *)
FinishIsEarned ==
  runtime.stage_exit_requested =>
    since.finishCommand \/ since.ready = RequiredFrames

(* Once finish_ready was published the stage is held: until reset_history  *)
(* or a direct command starts something new, no frame plans again.         *)
FinishedMissionIsHeld ==
  over => runtime.stage_exit_requested \/ output.kind \notin PlannedKinds

=============================================================================
