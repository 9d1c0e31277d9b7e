------------------------ MODULE OpenSpaceThreadManager ------------------------
(***************************************************************************)
(* OpenSpaceThreadManager (planning/open_space/open_space_thread): a pool  *)
(* of search threads that plan paths for the parking lots that are NOT     *)
(* selected, and one target thread that answers the plan for the selected  *)
(* lot, from a finished candidate of the pool when there is one.           *)
(*                                                                         *)
(* Every lock region of the code is one action.  The methods are called by *)
(* one caller at a time (the adapter holds runtime_mutex_ around every     *)
(* call); `api' is that caller's place inside a method that takes more     *)
(* than one lock region.  The worker threads run freely beside it.         *)
(***************************************************************************)
EXTENDS Integers, FiniteSets

CONSTANTS
  SearchThreadNum,  \* config_.search_thread_num
  PathIds,          \* ids of the parking lots the callers plan for
  Scenes,           \* everything else an input holds: pose, target, obstacles
  NoScene,          \* the scene of a default-constructed input
  MaxPlanId         \* bound: target plans submitted to one manager

ASSUME ManagerAssumption ==
  /\ SearchThreadNum \in Nat
  /\ PathIds \subseteq Int
  /\ NoScene \notin Scenes
  /\ MaxPlanId \in Nat

\* At least one search thread is started, whatever the configuration says.
Workers == 1 .. (IF SearchThreadNum = 0 THEN 1 ELSE SearchThreadNum)

NoPathId  == -1                                  \* SearchWorker::path_id{-1}
Inputs    == [path_id : PathIds, scene : Scenes]
NoInput   == [path_id |-> NoPathId, scene |-> NoScene]
AnyInput  == Inputs \cup {NoInput}

(* An output is what the callers tell apart: nothing yet, a path, a planning *)
(* error or the "target plan cancelled" error; and the input it was computed *)
(* from.                                                                     *)
Generated   == {"path", "error"}
Outputs     == [status : Generated \cup {"empty", "cancelled"}, input : AnyInput]
EmptyOutput == [status |-> "empty", input |-> NoInput]
CancelledOutput == [status |-> "cancelled", input |-> NoInput]

\* OpenSpacePathGenerator::Plan: a path for this input, or an error.
PlanResults(input) == {[status |-> s, input |-> input] : s \in Generated}

PlanIds == 0 .. MaxPlanId      \* 0: no plan was submitted; 0 as a token: nullptr

SearchPc == {"idle", "asleep", "planning", "exited"}
TargetPc == {"idle", "asleep", "lookup", "planning", "enable", "exited"}

VARIABLES
  search,     \* search_workers_[w]: the fields its mutex guards
  target,     \* target_worker_: the fields its mutex guards
  raised,     \* plan ids whose early-stop flag was set to true
  search_plan_disabled,
  spc, tpc,   \* where each worker thread is in its loop
  srun,       \* the search threads' local variable: the input being planned
  run,        \* the target thread's local variables
  api,        \* where the caller is: "free", "submit", "stop", "join", "stopped"
  stopping,   \* search workers StopThreads has still to tell
  cancelled,  \* history: CancelTargetPlan accepted the current plan
  publisher   \* history: plan id of the run that wrote target.output

vars == <<search, target, raised, search_plan_disabled, spc, tpc, srun, run, api,
          stopping, cancelled, publisher>>

ghosts == <<cancelled, publisher>>
searchVars == <<search, spc, srun>>
targetVars == <<target, raised, tpc, run, ghosts>>

NewSearchWorker ==
  [has_task |-> FALSE, running |-> FALSE, finished |-> TRUE, stop |-> FALSE,
   path_id |-> NoPathId, early_stop |-> "null",
   input |-> NoInput, output |-> EmptyOutput]

NewTargetWorker ==
  [has_task |-> FALSE, running |-> FALSE, finished |-> TRUE, stop |-> FALSE,
   plan_id |-> 0, early_stop |-> 0, input |-> NoInput, output |-> EmptyOutput,
   used_candidate_result |-> FALSE, cancel_requested |-> FALSE]

NoRun == [plan_id |-> 0, early_stop |-> 0, input |-> NoInput,
          used_candidate |-> FALSE, output |-> EmptyOutput]

SearchWorker ==
  [has_task : BOOLEAN, running : BOOLEAN, finished : BOOLEAN, stop : BOOLEAN,
   path_id : PathIds \cup {NoPathId}, early_stop : {"null", "clear", "raised"},
   input : AnyInput, output : Outputs]

TargetWorker ==
  [has_task : BOOLEAN, running : BOOLEAN, finished : BOOLEAN, stop : BOOLEAN,
   plan_id : PlanIds, early_stop : PlanIds, input : AnyInput, output : Outputs,
   used_candidate_result : BOOLEAN, cancel_requested : BOOLEAN]

TargetRun ==
  [plan_id : PlanIds, early_stop : PlanIds, input : AnyInput,
   used_candidate : BOOLEAN, output : Outputs]

TypeOK ==
  /\ search \in [Workers -> SearchWorker]
  /\ target \in TargetWorker
  /\ raised \subseteq PlanIds \ {0}
  /\ search_plan_disabled \in BOOLEAN
  /\ spc \in [Workers -> SearchPc]
  /\ tpc \in TargetPc
  /\ srun \in [Workers -> AnyInput]
  /\ run \in TargetRun
  /\ api \in {"free", "submit", "stop", "join", "stopped"}
  /\ stopping \subseteq Workers
  /\ cancelled \in BOOLEAN
  /\ publisher \in PlanIds

(* Default-constructed workers, their threads at pc. *)
NewManager(pc, caller) ==
  /\ search = [w \in Workers |-> NewSearchWorker]
  /\ target = NewTargetWorker
  /\ raised = {}
  /\ search_plan_disabled = FALSE
  /\ spc = [w \in Workers |-> pc]
  /\ tpc = pc
  /\ srun = [w \in Workers |-> NoInput]
  /\ run = NoRun
  /\ api = caller
  /\ stopping = {}
  /\ cancelled = FALSE
  /\ publisher = 0

\* The constructor has started the threads.
Init == NewManager("idle", "free")

-----------------------------------------------------------------------------
(* PrePlan.  A vector of candidates is a sequence of calls with one each:  *)
(* only TargetPlan sets search_plan_disabled and the caller is not in it.  *)

\* Mutant of Duplicate: a candidate that is being searched is not recognised.
DuplicateUnlessRunning(path_id) ==
  \E w \in Workers :
    search[w].path_id = path_id /\ (search[w].has_task \/ search[w].finished)

\* The candidate is queued, being searched or already answered by a worker.
Duplicate(path_id) ==
  \E w \in Workers :
    /\ search[w].path_id = path_id
    /\ search[w].has_task \/ search[w].running \/ search[w].finished

\* Mutants of Idle: a queued task, or a running search, does not count.
IdleWithTask(w)    == ~search[w].running
IdleWhileRunning(w) == ~search[w].has_task

Idle(w)       == ~search[w].has_task /\ ~search[w].running
Unassigned(w) == Idle(w) /\ search[w].path_id < 0

(* The first pass takes the first worker without a path.  The second takes *)
(* an idle one; it locks the workers one by one, so it may miss those that *)
(* finish behind it and then takes a later one or none.                    *)
Selectable ==
  LET free == {w \in Workers : Unassigned(w)}
  IN  IF free # {} THEN {w \in free : \A v \in free : w <= v}
                   ELSE {w \in Workers : Idle(w)}

\* Mutant of Wake: PrePlan and StopThreads change the flags without notifying.
WakeNoWorker(w) == spc' = spc

\* cv.notify_all(): a thread asleep in cv.wait looks at its predicate again.
Wake(w) == spc' = [spc EXCEPT ![w] = IF @ = "asleep" THEN "idle" ELSE @]

PrePlan(input) ==
  /\ api = "free"
  /\ ~search_plan_disabled
  /\ ~Duplicate(input.path_id)
  /\ \E w \in Selectable :
       /\ search' = [search EXCEPT ![w] =
                       [@ EXCEPT !.input = input,
                                 !.path_id = input.path_id,
                                 !.early_stop = "clear",
                                 !.output = EmptyOutput,
                                 !.has_task = TRUE,
                                 !.finished = FALSE]]
       /\ Wake(w)
  /\ UNCHANGED <<srun, targetVars, search_plan_disabled, api, stopping>>

-----------------------------------------------------------------------------
(* TargetPlan, CancelTargetPlan and PollTargetOutput. *)

\* The first lock region of TargetPlan, under manager_mutex_.
DisableSearch ==
  /\ api = "free"
  /\ target.plan_id < MaxPlanId
  /\ search_plan_disabled' = TRUE
  /\ api' = "submit"
  /\ UNCHANGED <<searchVars, targetVars, stopping>>

\* Mutant of WakeTarget: the flags are changed and nobody is notified.
WakeNobody == tpc' = tpc

WakeTarget == tpc' = IF tpc = "asleep" THEN "idle" ELSE tpc

\* Mutant of RaiseHeld: the old run is not told.
RaiseNothing == raised' = raised

\* Raising the early-stop flag a worker holds; 0 is a null pointer.
RaiseHeld == raised' = raised \cup ({target.early_stop} \ {0})

\* Mutant of SubmitTarget: the new plan looks finished until it is taken.
SubmitLooksFinished(input) ==
  /\ api = "submit"
  /\ RaiseHeld
  /\ target' = [target EXCEPT !.plan_id = @ + 1,
                              !.input = input,
                              !.early_stop = target.plan_id + 1,
                              !.output = EmptyOutput,
                              !.has_task = TRUE]
  /\ WakeTarget
  /\ cancelled' = FALSE
  /\ api' = "free"
  /\ UNCHANGED <<searchVars, run, publisher, search_plan_disabled, stopping>>

\* The second one, under the target worker's mutex: the new plan replaces
\* whatever plan was there and tells a run of the old one to stop early.
SubmitTarget(input) ==
  /\ api = "submit"
  /\ RaiseHeld
  /\ target' = [target EXCEPT !.plan_id = @ + 1,
                              !.input = input,
                              !.early_stop = target.plan_id + 1,
                              !.output = EmptyOutput,
                              !.used_candidate_result = FALSE,
                              !.cancel_requested = FALSE,
                              !.has_task = TRUE,
                              !.finished = FALSE]
  /\ WakeTarget
  /\ cancelled' = FALSE
  /\ api' = "free"
  /\ UNCHANGED <<searchVars, run, publisher, search_plan_disabled, stopping>>

\* Mutant of CancelTargetPlan: a plan that is finished is cancelled too.
CancelFinishedPlan ==
  /\ api = "free"
  /\ target' = [target EXCEPT !.cancel_requested = TRUE, !.has_task = FALSE]
  /\ RaiseHeld
  /\ search_plan_disabled' = FALSE
  /\ WakeTarget
  /\ cancelled' = TRUE
  /\ UNCHANGED <<searchVars, run, publisher, api, stopping>>

\* With the id of the current plan; any other id, or a finished plan, is
\* refused without a change of state.
CancelTargetPlan ==
  /\ api = "free"
  /\ ~target.finished
  /\ target' = [target EXCEPT !.cancel_requested = TRUE, !.has_task = FALSE]
  /\ RaiseHeld
  /\ search_plan_disabled' = FALSE
  /\ WakeTarget
  /\ cancelled' = TRUE
  /\ UNCHANGED <<searchVars, run, publisher, api, stopping>>

\* PollTargetOutput(id) answers, with target.output, exactly when this holds.
Ready(id) == target.plan_id = id /\ target.finished

-----------------------------------------------------------------------------
(* SearchLoop. *)

SearchSleep(w) ==
  /\ spc[w] = "idle"
  /\ ~search[w].stop /\ ~search[w].has_task
  /\ spc' = [spc EXCEPT ![w] = "asleep"]
  /\ UNCHANGED <<search, srun, targetVars, search_plan_disabled, api, stopping>>

SearchExit(w) ==
  /\ spc[w] = "idle"
  /\ search[w].stop
  /\ spc' = [spc EXCEPT ![w] = "exited"]
  /\ UNCHANGED <<search, srun, targetVars, search_plan_disabled, api, stopping>>

\* A worker without an early-stop flag gets one; a stop raises the flag held.
FlagTaken(flag)   == IF flag = "null" THEN "clear" ELSE flag
FlagStopped(flag) == IF flag = "null" THEN "null" ELSE "raised"

SearchTake(w) ==
  /\ spc[w] = "idle"
  /\ ~search[w].stop /\ search[w].has_task
  /\ search' = [search EXCEPT ![w] =
                  [@ EXCEPT !.has_task = FALSE,
                            !.running = TRUE,
                            !.finished = FALSE,
                            !.early_stop = FlagTaken(search[w].early_stop)]]
  /\ srun' = [srun EXCEPT ![w] = search[w].input]
  /\ spc' = [spc EXCEPT ![w] = "planning"]
  /\ UNCHANGED <<targetVars, search_plan_disabled, api, stopping>>

SearchPublish(w) ==
  /\ spc[w] = "planning"
  /\ \E output \in PlanResults(srun[w]) :
       search' = [search EXCEPT ![w] =
                    [@ EXCEPT !.output = output,
                              !.running = FALSE,
                              !.finished = TRUE,
                              !.early_stop = "null"]]
  /\ spc' = [spc EXCEPT ![w] = "idle"]
  /\ UNCHANGED <<srun, targetVars, search_plan_disabled, api, stopping>>

-----------------------------------------------------------------------------
(* TargetLoop. *)

TargetSleep ==
  /\ tpc = "idle"
  /\ ~target.stop /\ ~target.has_task
  /\ tpc' = "asleep"
  /\ UNCHANGED <<searchVars, target, raised, run, ghosts,
                 search_plan_disabled, api, stopping>>

TargetExit ==
  /\ tpc = "idle"
  /\ target.stop
  /\ tpc' = "exited"
  /\ UNCHANGED <<searchVars, target, raised, run, ghosts,
                 search_plan_disabled, api, stopping>>

\* A null early-stop flag is replaced by a fresh one for the same plan.
TargetTake ==
  /\ tpc = "idle"
  /\ ~target.stop /\ target.has_task
  /\ run' = [NoRun EXCEPT !.plan_id = target.plan_id,
                          !.early_stop = IF target.early_stop = 0
                                         THEN target.plan_id
                                         ELSE target.early_stop,
                          !.input = target.input]
  /\ target' = [target EXCEPT !.has_task = FALSE,
                              !.running = TRUE,
                              !.finished = FALSE,
                              !.early_stop = run'.early_stop]
  /\ tpc' = "lookup"
  /\ UNCHANGED <<searchVars, raised, ghosts,
                 search_plan_disabled, api, stopping>>

\* Mutant of Candidates: any finished search will do.
CandidatesOfAnyPath(path_id) ==
  {w \in Workers : search[w].finished /\ ~search[w].running}

\* TryGetCandidateOutputLocked finds the answer of one of these workers.
Candidates(path_id) ==
  {w \in Workers : /\ path_id >= 0
                   /\ search[w].path_id = path_id
                   /\ search[w].finished /\ ~search[w].running}

\* A usable candidate becomes the answer and nothing is planned.
TargetUseCandidate ==
  /\ tpc = "lookup"
  /\ \E w \in Candidates(run.input.path_id) :
       /\ search[w].output.status = "path"
       /\ run' = [run EXCEPT !.used_candidate = TRUE,
                             !.output = search[w].output]
  /\ tpc' = "planning"
  /\ UNCHANGED <<searchVars, target, raised, ghosts,
                 search_plan_disabled, api, stopping>>

\* No candidate, or the first one is an error: the target thread plans.
TargetGenerate ==
  /\ tpc = "lookup"
  /\ \A w \in Candidates(run.input.path_id) : search[w].output.status # "path"
  /\ tpc' = "planning"
  /\ UNCHANGED <<searchVars, target, raised, run, ghosts,
                 search_plan_disabled, api, stopping>>

\* The common part of the two branches that finish the current plan.
FinishWith(output, cancel) ==
  target' = [target EXCEPT
               !.output = output,
               !.used_candidate_result = run.used_candidate,
               !.running = FALSE,
               !.finished = TRUE,
               !.cancel_requested = cancel,
               !.early_stop = IF @ = run.early_stop THEN 0 ELSE @]

RunResults == IF run.used_candidate THEN {run.output} ELSE PlanResults(run.input)

\* Mutant of TargetPublish: the early-stop flag is looked at, the plan id is not.
PublishWhateverPlan ==
  /\ tpc = "planning"
  /\ IF run.early_stop \notin raised
     THEN \E output \in RunResults : FinishWith(output, FALSE)
     ELSE FinishWith(CancelledOutput, TRUE)
  /\ publisher' = run.plan_id
  /\ tpc' = "enable"
  /\ UNCHANGED <<searchVars, raised, run, cancelled,
                 search_plan_disabled, api, stopping>>

(* The run of a plan that was replaced leaves no trace. *)
TargetPublish ==
  /\ tpc = "planning"
  /\ \/ /\ target.plan_id = run.plan_id
        /\ run.early_stop \notin raised
        /\ \E output \in RunResults : FinishWith(output, FALSE)
        /\ publisher' = run.plan_id
     \/ /\ target.plan_id = run.plan_id
        /\ run.early_stop \in raised
        /\ FinishWith(CancelledOutput, TRUE)
        /\ publisher' = run.plan_id
     \/ /\ target.plan_id # run.plan_id
        /\ UNCHANGED <<target, publisher>>
  /\ tpc' = "enable"
  /\ UNCHANGED <<searchVars, raised, run, cancelled,
                 search_plan_disabled, api, stopping>>

\* The tail of the loop body, after the lock was released.
TargetEnableSearch ==
  /\ tpc = "enable"
  /\ search_plan_disabled' = FALSE
  /\ tpc' = "idle"
  /\ UNCHANGED <<searchVars, target, raised, run, ghosts, api, stopping>>

-----------------------------------------------------------------------------
(* StopThreads, from the destructor or Reset, and the threads that a new   *)
(* manager, or Reset, starts.                                              *)

StopBegin ==
  /\ api = "free"
  /\ api' = "stop"
  /\ stopping' = Workers
  /\ UNCHANGED <<searchVars, targetVars, search_plan_disabled>>

\* One search worker is told, under its mutex; then it is notified.
StopSearchWorker ==
  /\ api = "stop"
  /\ \E w \in stopping :
       /\ \A v \in stopping : w <= v
       /\ search' = [search EXCEPT ![w] =
                       [@ EXCEPT !.stop = TRUE,
                                 !.has_task = FALSE,
                                 !.early_stop = FlagStopped(search[w].early_stop)]]
       /\ Wake(w)
       /\ stopping' = stopping \ {w}
  /\ UNCHANGED <<srun, targetVars, search_plan_disabled, api>>

\* Mutants of StopTargetWorker: the running plan is not told to stop; the thread
\* that waits for a task is not notified.
StopTargetQuietly ==
  /\ api = "stop" /\ stopping = {}
  /\ target' = [target EXCEPT !.stop = TRUE, !.has_task = FALSE]
  /\ WakeTarget
  /\ api' = "join"
  /\ UNCHANGED <<searchVars, raised, run, ghosts, search_plan_disabled, stopping>>

StopTargetAsleep ==
  /\ api = "stop" /\ stopping = {}
  /\ target' = [target EXCEPT !.stop = TRUE, !.has_task = FALSE]
  /\ RaiseHeld
  /\ api' = "join"
  /\ UNCHANGED <<searchVars, tpc, run, ghosts, search_plan_disabled, stopping>>

StopTargetWorker ==
  /\ api = "stop" /\ stopping = {}
  /\ target' = [target EXCEPT !.stop = TRUE,
                              !.has_task = FALSE,
                              !.cancel_requested = TRUE]
  /\ RaiseHeld
  /\ WakeTarget
  /\ api' = "join"
  /\ UNCHANGED <<searchVars, run, ghosts, search_plan_disabled, stopping>>

\* Every join() returns when its thread has left its loop.
Join ==
  /\ api = "join"
  /\ \A w \in Workers : spc[w] = "exited"
  /\ tpc = "exited"
  /\ search_plan_disabled' = FALSE
  /\ api' = "stopped"
  /\ UNCHANGED <<searchVars, targetVars, stopping>>

\* Reset, or the construction of the next manager: the state is that of Init.
StartThreads ==
  /\ api = "stopped"
  /\ search' = [w \in Workers |-> NewSearchWorker]
  /\ target' = NewTargetWorker
  /\ raised' = {}
  /\ search_plan_disabled' = FALSE
  /\ spc' = [w \in Workers |-> "idle"]
  /\ tpc' = "idle"
  /\ srun' = [w \in Workers |-> NoInput]
  /\ run' = NoRun
  /\ api' = "free"
  /\ stopping' = {}
  /\ cancelled' = FALSE
  /\ publisher' = 0

-----------------------------------------------------------------------------

\* A condition variable may wake a thread that nobody notified.
SpuriousWakeup ==
  \/ /\ \E w \in Workers : spc[w] = "asleep" /\ Wake(w)
     /\ UNCHANGED <<search, srun, targetVars, search_plan_disabled, api, stopping>>
  \/ /\ tpc = "asleep" /\ WakeTarget
     /\ UNCHANGED <<searchVars, target, raised, run, ghosts,
                    search_plan_disabled, api, stopping>>

SearchThread(w) ==
  SearchSleep(w) \/ SearchExit(w) \/ SearchTake(w) \/ SearchPublish(w)

TargetThread ==
  \/ TargetSleep \/ TargetExit \/ TargetTake \/ TargetUseCandidate
  \/ TargetGenerate \/ TargetPublish \/ TargetEnableSearch

\* A method that was entered runs to its end.
Continue ==
  \/ \E input \in Inputs : SubmitTarget(input)
  \/ StopSearchWorker \/ StopTargetWorker \/ Join

Call ==
  \/ \E input \in Inputs : PrePlan(input)
  \/ DisableSearch \/ CancelTargetPlan \/ StopBegin \/ StartThreads

Next ==
  \/ Call
  \/ Continue
  \/ \E w \in Workers : SearchThread(w)
  \/ TargetThread
  \/ SpuriousWakeup

(* Threads are scheduled and Plan returns; nobody has to call a method.    *)
Fairness ==
  /\ WF_vars(Continue)
  /\ WF_vars(TargetThread)
  /\ \A w \in Workers : WF_vars(SearchThread(w))

Spec == Init /\ [][Next]_vars
FairSpec == Spec /\ Fairness

-----------------------------------------------------------------------------
(* Safety. *)

(* A finished plan was finished by its own run: the run of a plan that a   *)
(* later TargetPlan replaced never writes under the newer plan's id        *)
(* (open_space_thread_manager.cc, TargetLoop).                             *)
AnswerFromOwnRun ==
  target.finished => publisher = target.plan_id

(* Whether it was planned or taken from the pool, a path that answers a    *)
(* plan was computed for the parking lot the plan asks for.                *)
AnswerForRequestedLot ==
  target.finished /\ target.output.status = "path" =>
    target.output.input.path_id = target.input.path_id

(* Once CancelTargetPlan has returned true, the plan can only end with the *)
(* "target plan cancelled" error, however far its run had got.             *)
CancelledNeverDelivers ==
  cancelled /\ target.finished => target.output.status = "cancelled"

(* The result a search worker shows under a path id was computed from the  *)
(* input that PrePlan stored with that id, never from the one before.      *)
CandidateIsForItsPath ==
  \A w \in Workers :
    search[w].finished /\ search[w].output.status # "empty" =>
      /\ search[w].output.input = search[w].input
      /\ search[w].input.path_id = search[w].path_id

(* No two workers ever hold the same lot: PrePlan recognises a candidate   *)
(* that is queued, being searched or finished, whatever the workers do     *)
(* while it looks at them one by one.                                      *)
OneWorkerPerPath ==
  \A v, w \in Workers :
    v # w /\ search[v].path_id = search[w].path_id =>
      search[v].path_id = NoPathId

(* A run that nobody waits for any more was told so: it was replaced,      *)
(* cancelled, or its manager is being stopped, and its early-stop flag is  *)
(* up (the guarantee that a stop or a new plan does not wait for the old   *)
(* search to end by itself).                                               *)
StaleRunIsToldToStop ==
  /\ tpc \in {"lookup", "planning"} /\
       (run.plan_id # target.plan_id \/ cancelled \/ target.stop) =>
         run.early_stop \in raised
  /\ \A w \in Workers :
       spc[w] = "planning" /\ search[w].stop => search[w].early_stop = "raised"

(* A candidate that waits in a worker is not overwritten by a later one.   *)
QueuedCandidateKept ==
  [][\A w \in Workers :
       search[w].has_task /\ search'[w].has_task =>
         search'[w].input = search[w].input]_vars

(* What a caller can poll for a plan does not change once it can be polled *)
(* at all, until the next plan or the end of the manager.                  *)
AnswerIsStable ==
  [][target.finished /\ target'.plan_id = target.plan_id /\ api # "stopped" =>
       target'.finished /\ target'.output = target.output]_vars

-----------------------------------------------------------------------------
(* Refinement. *)

PlanPhase ==
  IF target.plan_id = 0 THEN "none"
  ELSE IF target.finished THEN "answered"
  ELSE IF cancelled \/ target.stop THEN "withdrawn" ELSE "pending"

Service == INSTANCE TargetPlanService WITH
  Requests <- Inputs, Answers <- Outputs,
  NoRequest <- NoInput, NoAnswer <- EmptyOutput, Cancelled <- CancelledOutput,
  plan <- target.plan_id, request <- target.input,
  phase <- PlanPhase, answer <- target.output

(* The threads and the candidate pool implement the one-request service:   *)
(* TargetPlan, Cancel, Stop and the publication by the target thread are   *)
(* its only steps, and all else is invisible to the caller.                *)
RefinesService == Service!Spec

-----------------------------------------------------------------------------
(* Liveness. *)

(* A submitted plan becomes ready unless it is replaced or cancelled, or   *)
(* the manager stopped.                                                    *)
PlanSettles ==
  \A id \in 1 .. MaxPlanId :
    target.plan_id = id ~>
      \/ Ready(id) \/ target.plan_id # id \/ cancelled
      \/ api \in {"stop", "join", "stopped"}

(* Speculative search is never left disabled: whatever plans are           *)
(* submitted, replaced or cancelled, PrePlan works again some time later.  *)
SearchEnabledAgain == search_plan_disabled ~> ~search_plan_disabled

(* A queued candidate is searched, or the manager is stopped.              *)
CandidateIsSearched ==
  \A w \in Workers :
    search[w].has_task ~> search[w].finished \/ search[w].stop

(* Speculation serves the frames that follow, whatever they interleave with.*)
SpeculationGoesOn == SearchEnabledAgain /\ CandidateIsSearched

(* StopThreads returns: no worker sleeps through the stop request.         *)
StopReturns == api = "stop" ~> api = "stopped"

=============================================================================
