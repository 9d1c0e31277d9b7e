--------------------------- MODULE PathProviderFrame ---------------------------
(***************************************************************************)
(* How the planning frames of the stage-parking adapter use the thread     *)
(* manager: RunPathProvider decides whether the path of an earlier frame   *)
(* can be reused, and otherwise asks OpenSpacePathProvider, which offers   *)
(* the other lots to the pool (PrePlan), submits the selected lot          *)
(* (TargetPlan) and polls until an answer or the timeout.  A frame that    *)
(* fails resets the planning state, and that destroys the manager.         *)
(*                                                                         *)
(* The module composes that caller with OpenSpaceThreadManager: a frame is *)
(* a sequence of calls under runtime_mutex_, and the worker threads take   *)
(* their steps in between.                                                 *)
(***************************************************************************)
EXTENDS OpenSpaceThreadManager

CONSTANT MaxPolls   \* bound: polls that fit before target_plan_timeout_s is over

ASSUME FrameAssumption == MaxPolls \in Nat

VARIABLES
  fpc,       \* where the frame is
  frame,     \* what the frame plans for: the selected lot, and the scene
  toSearch,  \* the other lots PrePlan has still to look at
  ticket,    \* target_plan_id, what TargetPlan returned
  polls,     \* polls left before the deadline
  history,   \* path_provider: the path of an earlier frame
  result     \* what the history or the provider gave the frame

frameVars  == <<fpc, frame, toSearch, ticket, polls, history, result>>
systemVars == <<vars, frameVars>>

NoHistory == [has_history |-> FALSE, path_id |-> NoPathId, scene |-> NoScene,
              last_output |-> EmptyOutput]
NoResult  == [kind |-> "none", output |-> EmptyOutput, target_cancel |-> FALSE]

FramePc == {"idle", "start", "preplan", "offer", "disable", "submit", "wait",
            "deliver", "reset", "teardown"}

FrameTypeOK ==
  /\ TypeOK
  /\ fpc \in FramePc
  /\ frame \in AnyInput
  /\ toSearch \subseteq PathIds
  /\ ticket \in PlanIds
  /\ polls \in 0 .. MaxPolls
  /\ history \in [has_history : BOOLEAN, path_id : PathIds \cup {NoPathId},
                  scene : Scenes \cup {NoScene}, last_output : Outputs]
  /\ result \in [kind : {"none", "reused", "ready", "timeout"},
                 output : Outputs, target_cancel : BOOLEAN]

\* The first frame finds no provider: its manager is made on first use.
FrameInit ==
  /\ NewManager("exited", "stopped")
  /\ fpc = "idle"
  /\ frame = NoInput
  /\ toSearch = {}
  /\ ticket = 0
  /\ polls = 0
  /\ history = NoHistory
  /\ result = NoResult

-----------------------------------------------------------------------------
(* BuildPathProviderDecision. *)

\* Mutant of Replan: the path of another lot is reused.
ReplanUnlessSameScene(input, other) ==
  ~history.has_history \/ history.scene # input.scene \/ other

\* Some replan bit is set.  `other' stands for the bits the model does not
\* derive: the target moved, the vehicle left the path, the speed plan asks
\* for a replan, the path has a collision risk.
Replan(input, other) ==
  \/ ~history.has_history
  \/ history.path_id # input.path_id
  \/ history.scene # input.scene
  \/ other

ReuseFrame(input) ==
  /\ fpc = "idle"
  /\ ~Replan(input, FALSE)
  /\ frame' = input
  /\ result' = [NoResult EXCEPT !.kind = "reused", !.output = history.last_output]
  /\ fpc' = "deliver"
  /\ UNCHANGED <<vars, toSearch, ticket, polls, history>>

\* The lots of the same sample that pass the conversion, ROI and pre-checks
\* are offered to the pool.
PlanFrame(input) ==
  /\ fpc = "idle"
  /\ api = "stopped" \/ target.plan_id < MaxPlanId
  /\ \E other \in BOOLEAN : Replan(input, other)
  /\ frame' = input
  /\ result' = NoResult
  /\ \E lots \in SUBSET (PathIds \ {input.path_id}) : toSearch' = lots
  /\ fpc' = IF api = "stopped" THEN "start" ELSE "preplan"
  /\ UNCHANGED <<vars, ticket, polls, history>>

-----------------------------------------------------------------------------
(* RunPathProvider and OpenSpacePathProvider::Plan. *)

EnsureProvider ==
  /\ fpc = "start"
  /\ StartThreads
  /\ fpc' = "preplan"
  /\ UNCHANGED <<frame, toSearch, ticket, polls, history, result>>

\* PrePlan looks at search_plan_disabled once, before all its candidates.
EnterPrePlan ==
  /\ fpc = "preplan"
  /\ fpc' = IF search_plan_disabled THEN "disable" ELSE "offer"
  /\ toSearch' = IF search_plan_disabled THEN {} ELSE toSearch
  /\ UNCHANGED <<vars, frame, ticket, polls, history, result>>

Offer(lot) ==
  /\ fpc = "offer"
  /\ PrePlan([path_id |-> lot, scene |-> frame.scene])
  /\ toSearch' = toSearch \ {lot}
  /\ UNCHANGED <<fpc, frame, ticket, polls, history, result>>

\* A lot the pool knows already, or has no worker for, is passed over.
OfferRefused(lot) ==
  /\ fpc = "offer"
  /\ Duplicate(lot) \/ Selectable = {}
  /\ toSearch' = toSearch \ {lot}
  /\ UNCHANGED <<vars, fpc, frame, ticket, polls, history, result>>

OffersDone ==
  /\ fpc = "offer"
  /\ toSearch = {}
  /\ fpc' = "disable"
  /\ UNCHANGED <<vars, frame, toSearch, ticket, polls, history, result>>

BeginTargetPlan ==
  /\ fpc = "disable"
  /\ DisableSearch
  /\ fpc' = "submit"
  /\ UNCHANGED <<frame, toSearch, ticket, polls, history, result>>

FinishTargetPlan ==
  /\ fpc = "submit"
  /\ SubmitTarget(frame)
  /\ ticket' = target'.plan_id
  /\ polls' = MaxPolls
  /\ fpc' = "wait"
  /\ UNCHANGED <<frame, toSearch, history, result>>

PollReady ==
  /\ fpc = "wait"
  /\ polls > 0
  /\ Ready(ticket)
  /\ result' = [NoResult EXCEPT !.kind = "ready", !.output = target.output]
  /\ fpc' = "deliver"
  /\ UNCHANGED <<vars, frame, toSearch, ticket, polls, history>>

PollAgain ==
  /\ fpc = "wait"
  /\ polls > 0
  /\ ~Ready(ticket)
  /\ polls' = polls - 1
  /\ UNCHANGED <<vars, fpc, frame, toSearch, ticket, history, result>>

\* Mutant of Timeout: the timed-out frame keeps its provider.
TimeoutKeepsProvider ==
  /\ fpc = "wait"
  /\ \/ CancelTargetPlan
     \/ target.finished /\ UNCHANGED vars
  /\ result' = [NoResult EXCEPT !.kind = "timeout",
                                !.target_cancel = ~target.finished]
  /\ fpc' = "idle"
  /\ UNCHANGED <<frame, toSearch, ticket, polls, history>>

\* The deadline may pass before any poll, and between a poll and the
\* cancellation the plan may finish.
Timeout ==
  /\ fpc = "wait"
  /\ \/ CancelTargetPlan
     \/ target.finished /\ UNCHANGED vars
  /\ result' = [NoResult EXCEPT !.kind = "timeout",
                                !.target_cancel = ~target.finished]
  /\ fpc' = "reset"
  /\ UNCHANGED <<frame, toSearch, ticket, polls, history>>

-----------------------------------------------------------------------------
(* The end of the frame. *)

\* Mutant of Remember: an error is remembered like a path.
RememberAnything ==
  IF result.kind = "ready"
  THEN [has_history |-> TRUE, path_id |-> frame.path_id, scene |-> frame.scene,
        last_output |-> result.output]
  ELSE history

Remember ==
  IF result.kind = "ready" /\ result.output.status = "path"
  THEN [has_history |-> TRUE, path_id |-> frame.path_id, scene |-> frame.scene,
        last_output |-> result.output]
  ELSE history

\* The frame ends well, or a later task fails (too few points, the partition)
\* and the planning state is reset; an error always resets it.
Deliver ==
  /\ fpc = "deliver"
  /\ history' = Remember
  /\ \/ result.output.status = "path" /\ fpc' = "idle"
     \/ fpc' = "reset"
  /\ UNCHANGED <<vars, frame, toSearch, ticket, polls, result>>

\* Between two frames: reset_history, an invalid sample, a failed pre-check.
ResetRequested ==
  /\ fpc = "idle"
  /\ fpc' = "reset"
  /\ UNCHANGED <<vars, frame, toSearch, ticket, polls, history, result>>

\* PathProviderRuntimeState::Reset; without a provider nothing is stopped.
ResetPlanningState ==
  /\ fpc = "reset"
  /\ history' = NoHistory
  /\ \/ api = "stopped" /\ fpc' = "idle" /\ UNCHANGED vars
     \/ StopBegin /\ fpc' = "teardown"
  /\ UNCHANGED <<frame, toSearch, ticket, polls, result>>

TearDown ==
  /\ fpc = "teardown"
  /\ \/ (StopSearchWorker \/ StopTargetWorker) /\ fpc' = "teardown"
     \/ Join /\ fpc' = "idle"
  /\ UNCHANGED <<frame, toSearch, ticket, polls, history, result>>

-----------------------------------------------------------------------------

FrameStep ==
  \/ EnsureProvider \/ EnterPrePlan
  \/ \E lot \in toSearch : Offer(lot) \/ OfferRefused(lot)
  \/ OffersDone \/ BeginTargetPlan \/ FinishTargetPlan
  \/ PollReady \/ PollAgain \/ Timeout
  \/ Deliver \/ ResetPlanningState \/ TearDown

NewFrame ==
  \/ \E input \in Inputs : ReuseFrame(input) \/ PlanFrame(input)
  \/ ResetRequested

ThreadStep ==
  /\ (\E w \in Workers : SearchThread(w)) \/ TargetThread \/ SpuriousWakeup
  /\ UNCHANGED frameVars

FrameNext == NewFrame \/ FrameStep \/ ThreadStep

FrameSpec == FrameInit /\ [][FrameNext]_systemVars

(* The thread that runs the frame and the workers are scheduled, and Plan  *)
(* returns.  Nobody has to begin a frame.                                  *)
FairFrameSpec ==
  /\ FrameSpec
  /\ WF_systemVars(FrameStep)
  /\ WF_systemVars(TargetThread /\ UNCHANGED frameVars)
  /\ \A w \in Workers : WF_systemVars(SearchThread(w) /\ UNCHANGED frameVars)

-----------------------------------------------------------------------------
(* Safety. *)

(* A path the frame goes on with, reused or planned, leads to the selected *)
(* lot; it never comes from a lot selected in an earlier frame             *)
(* (BuildPathProviderDecision, TryGetCandidateOutputLocked).               *)
DeliveredForSelectedLot ==
  fpc = "deliver" /\ result.output.status = "path" =>
    result.output.input.path_id = frame.path_id

(* The history holds a usable path to the lot it names, also after frames  *)
(* that timed out or failed (RunPathProvider records it last).             *)
HistoryIsUsable ==
  history.has_history =>
    /\ history.last_output.status = "path"
    /\ history.last_output.input.path_id = history.path_id

(* No plan is ever replaced while it runs, and none is left running between *)
(* frames: a frame ends with the answer of its plan or with the manager    *)
(* joined.                                                                 *)
NoRunOutlivesItsFrame ==
  /\ fpc = "submit" => target.finished
  /\ fpc = "idle" => tpc \notin {"lookup", "planning"}

(* When a frame begins, speculative search can only still be disabled by   *)
(* the target thread that has just published and not yet enabled it.       *)
SearchDisabledOnlyByTail ==
  search_plan_disabled /\ fpc \in {"idle", "preplan"} => tpc = "enable"

(* When the obstacles differ from those of the path in the history, the    *)
(* path that is delivered instead was computed with the new ones.          *)
ObstacleChangeRegenerates ==
  /\ fpc = "deliver" /\ result.kind = "ready" /\ result.output.status = "path"
  /\ history.has_history /\ history.scene # frame.scene
  => result.output.input.scene = frame.scene

-----------------------------------------------------------------------------
(* Liveness. *)

(* Every frame ends, whatever the generator answers and whenever it does:  *)
(* with an answer, at the latest with the timeout, and through the joins   *)
(* of the reset that may follow.                                           *)
FrameEnds == fpc # "idle" ~> fpc = "idle"

=============================================================================
