------------------------------ MODULE StageReport ------------------------------
(***************************************************************************)
(* What the frames of the stage report in status_reason, which goes out    *)
(* with every trajectory: the state of the mission and the next stage, the *)
(* state of the function manager, and what becomes of the history, the     *)
(* speed frame and the direct command.  The report is composed in the      *)
(* branches of Process, from the runtime as it is at that moment, and      *)
(* partly from a context that was taken when the frame began; a frame that *)
(* resets the state does so before, between or after.  Two branches and    *)
(* the partition fallback publish two contracts, one after the other, and  *)
(* the report has both.  Of the texts only what they say is kept.          *)
(***************************************************************************)
EXTENDS StageParkingAdapter, Sequences

VARIABLE report   \* status_reason of the last frame

report_vars == <<runtime, vehicle, output, since, over, report>>

Stages == {"PARKING", "FINISH"}

\* What parking_status adds to a running mission (waiting, preparing to finish,
\* stopped by the partition) is left out.
Missions == {"MISSION_RUNNING", "MISSION_FINISHED", "MISSION_FALLBACK", "MISSION_ESTOP",
             "MISSION_PAUSED", "MISSION_BRAKING", "UNSUPPORTED_PARKING_OUT",
             "DIRECT_CONTROL_ACTIVE", "DIRECT_CONTROL_FALLBACK",
             "DIRECT_FINISH_WAITING", "DIRECT_FINISH_READY"}

RunStates == {"PARKSTART", "PARKING", "PAUSE", "STRAIGHTBRAKE", "QUIT", "PARKOUT"}

\* runtime_lifecycle: what is there, and what is done with it.
Lifecycles ==
  [stage_exit : {"latch", "hold", "control", "stay", "continue", "wait", "reset"},
   path_history : {"keep", "reset"}, path_history_available : BOOLEAN,
   speed_frame : {"keep", "update", "clear"}, speed_frame_available : BOOLEAN,
   direct_state : {"keep", "clear"}, direct_command_active : BOOLEAN]

NoReport == [sys_run_state |-> "none"]

\* A contract is one of a fallback, which names its event, or not.
Contracts ==
  [fallback : BOOLEAN, mission_state : Missions, next_stage : Stages, lifecycle : Lifecycles]

Reports ==
  [contracts : Seq(Contracts),      \* in the order of the text
   skeleton_next_stage : Stages,    \* of the context the frame began with
   sys_run_state : RunStates]

ReportTypeOK == report \in Reports \cup {NoReport}

-----------------------------------------------------------------------------
(* The context of a frame. *)

FacadeBranch(command, exit_requested) ==
  IF command = NoCommand
  THEN IF exit_requested THEN "stage_finish_hold" ELSE "normal_open_space"
  ELSE IF command.mode \in DirectModes THEN "direct_open_space"
  ELSE IF command.mode = "in" THEN "normal_open_space"
  ELSE "stage_control_override"

\* BuildStageProcessContextLite: the next stage, unless a Mark... changes it.
SkeletonNextStage(command) ==
  LET branch == FacadeBranch(command, Begun(command).stage_exit_requested)
  IN IF \/ branch = "stage_finish_hold"
        \/ branch = "stage_control_override" /\ command.mode = "finish"
     THEN "FINISH" ELSE "PARKING"

ProjectSysRunState(command) ==
  CASE command.mode \in OutModes    -> "PARKOUT"
    [] command.mode \in DirectModes -> "PARKING"
    [] command.mode = "pause"       -> "PAUSE"
    [] command.mode = "brake"       -> "STRAIGHTBRAKE"
    [] command.mode = "finish"      -> "QUIT"
    [] OTHER -> IF ~Begun(command).has_history \/ command.reset_history
                THEN "PARKSTART" ELSE "PARKING"

\* Mutant of Lifecycle: it is built before the frame changes the state.
LifecycleBefore(state, exit, history, speed, direct) ==
  [stage_exit |-> exit,
   path_history |-> history, path_history_available |-> runtime.has_history,
   speed_frame |-> speed, speed_frame_available |-> runtime.last_speed_frame # "none",
   direct_state |-> direct, direct_command_active |-> runtime.direct_command # "none"]

Lifecycle(state, exit, history, speed, direct) ==
  [stage_exit |-> exit,
   path_history |-> history, path_history_available |-> state.has_history,
   speed_frame |-> speed, speed_frame_available |-> state.last_speed_frame # "none",
   direct_state |-> direct, direct_command_active |-> state.direct_command # "none"]

Contract(mission, next, lifecycle) ==
  [fallback |-> FALSE, mission_state |-> mission, next_stage |-> next, lifecycle |-> lifecycle]

Fallback(mission, next, lifecycle) ==
  [fallback |-> TRUE, mission_state |-> mission, next_stage |-> next, lifecycle |-> lifecycle]

Report(command, contracts) ==
  report' = [contracts |-> contracts, skeleton_next_stage |-> SkeletonNextStage(command),
             sys_run_state |-> ProjectSysRunState(command)]

\* A branch that marks the context, and projects a function manager of its own.
ReportMarked(next, run_state, contracts) ==
  report' = [contracts |-> contracts, skeleton_next_stage |-> next,
             sys_run_state |-> run_state]

-----------------------------------------------------------------------------
(* The branches. *)

\* The contract of a direct command is written before its path and its speed are
\* planned, and published whatever becomes of them.
DirectContract(command) ==
  Contract("DIRECT_CONTROL_ACTIVE", "PARKING",
           Lifecycle([Begun(command) EXCEPT !.direct_command = command.mode],
                     "continue", "keep", "update", "keep"))

ReportDirectControl(command) ==
  /\ DirectControl(command)
  /\ \/ /\ runtime'.last_speed_frame = "direct"
        /\ Report(command, <<DirectContract(command)>>)
     \/ /\ runtime'.last_speed_frame = "none"
        /\ Report(command, <<Fallback("DIRECT_CONTROL_FALLBACK", "PARKING",
                                      Lifecycle(runtime', "continue", "keep", "clear", "keep")),
                             DirectContract(command)>>)

\* direct_active_before_reset is what the fallback calls active.
ReportDirectPathFails(command) ==
  /\ DirectPathFails(command)
  /\ Report(command, <<DirectContract(command),
                       Fallback("DIRECT_CONTROL_FALLBACK", "PARKING",
                                Lifecycle([runtime' EXCEPT !.direct_command = command.mode],
                                          "stay", "reset", "clear", "clear"))>>)

HoldMission(command) ==
  CASE command.mode = "finish" -> "MISSION_FINISHED"
    [] command.mode = "brake"  -> "MISSION_BRAKING"
    [] OTHER                   -> "MISSION_PAUSED"

ReportStageControlStop(command) ==
  /\ StageControlStop(command)
  /\ LET finish == command.mode = "finish"
     IN Report(command, <<Contract(HoldMission(command), IF finish THEN "FINISH" ELSE "PARKING",
                                   Lifecycle(runtime', IF finish THEN "latch" ELSE "control",
                                             "keep", "keep", "clear"))>>)

ReportParkingOut(command) ==
  /\ UnsupportedParkingOut(command)
  /\ Report(command, <<Contract("UNSUPPORTED_PARKING_OUT", "PARKING",
                                Lifecycle(runtime', "stay", "keep", "keep", "clear"))>>)

\* BuildEarlyEstopFallbackContract, and the fallback of the pre-check.
ReportEarlyEstop(command) ==
  /\ InvalidSample(command) \/ UnfitLot(command)
  /\ Report(command, <<Fallback("MISSION_ESTOP", "PARKING",
                                Lifecycle(runtime', "stay", "reset", "clear", "clear"))>>)

\* The report is written first, and the state is reset then.
ReportDirectRelease(command) ==
  /\ DirectRelease(command)
  /\ \/ /\ Standing
        /\ ReportMarked("FINISH", "QUIT",
                        <<Contract("DIRECT_FINISH_READY", "FINISH",
                                   Lifecycle(runtime, "reset", "reset", "clear", "clear"))>>)
     \/ /\ ~Standing
        /\ ReportMarked("PARKING", "QUIT",
                        <<Contract("DIRECT_FINISH_WAITING", "PARKING",
                                   Lifecycle(runtime, "wait", "keep", "keep", "keep"))>>)

ReportFinishHold(command) ==
  /\ FinishHold(command)
  /\ ReportMarked("FINISH", "QUIT",
                  <<Contract("MISSION_FINISHED", "FINISH",
                             Lifecycle(runtime', "hold", "keep", "keep", "clear"))>>)

ReportTaskFails(command) ==
  /\ ProviderFails(command) \/ PartitionFails(command)
  /\ Report(command, <<Fallback("MISSION_FALLBACK", "PARKING",
                                Lifecycle(runtime', "continue", "reset", "clear", "clear"))>>)

\* A finish is marked in the context too.  Where the speed plan fails, the contract
\* of the fallback comes before the one of the frame.
ReportPlanned(command) ==
  /\ Planned(command)
  /\ LET finish == runtime'.stage_exit_requested
         next   == IF finish THEN "FINISH" ELSE "PARKING"
         exit   == IF finish THEN "latch" ELSE "continue"
         frame  == Contract(IF finish THEN "MISSION_FINISHED" ELSE "MISSION_RUNNING", next,
                            Lifecycle(runtime', exit, "keep", "keep", "clear"))
         failed == Fallback(IF finish THEN "MISSION_FINISHED" ELSE "MISSION_FALLBACK", next,
                            Lifecycle(runtime', exit, "keep", IF finish THEN "keep" ELSE "clear",
                                      "clear"))
     IN ReportMarked(next, ProjectSysRunState(command),
                     IF output'.kind = "trajectory" THEN <<frame>> ELSE <<failed, frame>>)

ReportProcess(command) ==
  \/ ReportDirectControl(command) \/ ReportDirectPathFails(command)
  \/ ReportStageControlStop(command) \/ ReportParkingOut(command)
  \/ ReportEarlyEstop(command) \/ ReportDirectRelease(command)
  \/ ReportFinishHold(command) \/ ReportTaskFails(command)
  \/ ReportPlanned(command)

ReportInit == Init /\ report = NoReport

ReportNext ==
  \/ \E command \in Commands : ReportProcess(command)
  \/ (UpdateVehicleState \/ ClearVehicleState) /\ UNCHANGED report

ReportSpec == ReportInit /\ [][ReportNext]_report_vars

-----------------------------------------------------------------------------
(* Safety. *)

\* What a contract says that becomes of the state is what the frame left.
LifecycleIsTrue(told) ==
  /\ IF told.path_history = "keep"
     THEN runtime.has_history = told.path_history_available
     ELSE ~runtime.has_history
  /\ told.speed_frame = "keep" =>
       told.speed_frame_available = (runtime.last_speed_frame # "none")
  /\ told.speed_frame = "update" => runtime.last_speed_frame = "direct"
  /\ told.speed_frame = "clear" => runtime.last_speed_frame = "none"
  /\ (told.direct_state = "keep") = (runtime.direct_command # "none")
  /\ told.stage_exit \in {"latch", "hold"} => runtime.stage_exit_requested
  /\ told.stage_exit = "reset" => runtime = NewRuntime

\* A next stage FINISH is announced if the stage is held from then on, or begins
\* anew; a stage that is held says so, but for the frames of a command that holds or
\* drives the vehicle otherwise.
FinishIsAnnounced(contract) ==
  /\ contract.next_stage = "FINISH" =>
       runtime.stage_exit_requested \/ contract.mission_state = "DIRECT_FINISH_READY"
  /\ runtime.stage_exit_requested =>
       \/ contract.next_stage = "FINISH"
       \/ contract.mission_state \in
            {"MISSION_PAUSED", "MISSION_BRAKING", "UNSUPPORTED_PARKING_OUT",
             "DIRECT_CONTROL_ACTIVE", "DIRECT_CONTROL_FALLBACK", "DIRECT_FINISH_WAITING"}

\* The context agrees, where the frame did not fail on its input: the context of
\* a sample that ends a held stage still says FINISH.
ContextAgrees(contract) ==
  contract.mission_state # "MISSION_ESTOP" =>
    report.skeleton_next_stage = contract.next_stage

ContractIsTrue(contract) ==
  /\ LifecycleIsTrue(contract.lifecycle)
  /\ FinishIsAnnounced(contract)
  /\ ContextAgrees(contract)

\* The contract of a direct command that failed: it was written before, and a
\* fallback is reported beside it.
Overtaken(contract) ==
  /\ contract.mission_state = "DIRECT_CONTROL_ACTIVE"
  /\ \E i \in 1 .. Len(report.contracts) : report.contracts[i].fallback

\* A frame that is reported to start parking starts from no speed plan of its kind.
StartIsFresh == report.sys_run_state = "PARKSTART" => output.seed # "ordinary"

(* Who reads the report of a frame and nothing else knows what the stage   *)
(* remembers: what is said to be kept, cleared or updated is so when the   *)
(* frame has ended, whatever the order of the text and the reset in its    *)
(* branch; a finish is announced when the stage is finished and not        *)
(* otherwise (MarkStageFinishEvaluation, MarkStageFinishHold); and parking *)
(* that is said to start goes on from nothing.  One contract may say what  *)
(* is not so: where the path or the speed of a direct command fails, the   *)
(* code publishes both the contract written before ("update from direct    *)
(* speed optimizer", "preserve ordinary history") and that of the          *)
(* fallback, and only the fallback's is true of the state.                 *)
ReportIsTrue ==
  report # NoReport =>
    /\ \A i \in 1 .. Len(report.contracts) :
         ContractIsTrue(report.contracts[i]) \/ Overtaken(report.contracts[i])
    /\ StartIsFresh
=============================================================================
