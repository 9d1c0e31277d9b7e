------------------------ MODULE PathProviderFrameProofs ------------------------
(***************************************************************************)
(* First the thread manager alone: for every number of search threads,     *)
(* every set of lots and scenes and every bound on the plans, its safety   *)
(* properties hold and it implements TargetPlanService.  Then the planning *)
(* frames: every step of a frame is a step of the manager or leaves it     *)
(* alone, so the manager's inductive invariant holds in the composition;   *)
(* with the frame's own invariant it gives the safety of the frames, for   *)
(* every number of threads, lots, scenes, plans and polls.                 *)
(***************************************************************************)
EXTENDS PathProviderFrame, TLAPS

-----------------------------------------------------------------------------
(* The inductive invariant. *)

\* Where the caller is decides what may be told to stop, and whether there is
\* room for the plan it is about to submit.
CallerInv ==
  /\ api = "submit" => target.plan_id < MaxPlanId
  /\ target.stop => api \in {"join", "stopped"}
  /\ \A w \in Workers : search[w].stop => api \in {"stop", "join", "stopped"}

\* The target worker holds the early-stop flag of its plan until it is
\* finished, and a plan that nobody waits for has that flag up.
PlanInv ==
  /\ target.early_stop = IF target.finished THEN 0 ELSE target.plan_id
  /\ target.plan_id = 0 => target.finished
  /\ target.has_task => ~target.finished /\ ~cancelled
  /\ (cancelled \/ target.stop) /\ ~target.finished => target.plan_id \in raised
  /\ \A id \in raised : id <= target.plan_id
  /\ target.plan_id \in raised => cancelled \/ target.stop
  /\ target.finished => publisher = target.plan_id
  /\ cancelled /\ target.finished => target.output.status = "cancelled"
  /\ target.output.status = "path" =>
       target.output.input.path_id = target.input.path_id

\* The run of the target thread is the current plan's, unfinished and with the
\* input the caller gave; or an older plan's and its flag is up.
RunInv ==
  tpc \in {"lookup", "planning"} =>
    /\ run.plan_id > 0
    /\ run.early_stop = run.plan_id
    /\ \/ /\ run.plan_id = target.plan_id
          /\ ~target.finished /\ ~target.has_task
          /\ run.input = target.input
       \/ run.plan_id < target.plan_id /\ run.plan_id \in raised
    /\ run.used_candidate =>
         /\ run.output.status = "path"
         /\ run.output.input.path_id = run.input.path_id
    /\ tpc = "lookup" => ~run.used_candidate

\* A search worker is planning exactly its stored input while it runs, and its
\* output, if any, was computed from that input.
WorkerInv ==
  \A w \in Workers :
    /\ search[w].input.path_id = search[w].path_id
    /\ search[w].running <=> spc[w] = "planning"
    /\ search[w].running => /\ ~search[w].has_task /\ ~search[w].finished
                            /\ srun[w] = search[w].input
                            /\ search[w].early_stop # "null"
                            /\ search[w].stop => search[w].early_stop = "raised"
    /\ search[w].has_task => ~search[w].finished /\ ~search[w].stop
    /\ search[w].output.status # "empty" => search[w].output.input = search[w].input
    /\ search[w].stop \/ search[w].has_task \/ search[w].running \/ search[w].finished

IInv == TypeOK /\ CallerInv /\ PlanInv /\ RunInv /\ WorkerInv /\ OneWorkerPerPath

-----------------------------------------------------------------------------
(* Type correctness. *)

LEMMA PlanResultsType ==
  ASSUME NEW i \in AnyInput
  PROVE  PlanResults(i) \subseteq Outputs
BY DEF PlanResults, Outputs, Generated

LEMMA ConstantTypes ==
  /\ NoInput \in AnyInput
  /\ EmptyOutput \in Outputs
  /\ CancelledOutput \in Outputs
  /\ Inputs \subseteq AnyInput
  /\ 0 \in PlanIds
BY ManagerAssumption
DEF NoInput, AnyInput, EmptyOutput, CancelledOutput, Outputs, PlanIds

LEMMA InitType == Init => TypeOK
<1> SUFFICES ASSUME Init PROVE TypeOK
  OBVIOUS
<1> USE ConstantTypes DEF Init, NewManager
<1>1. NewSearchWorker \in SearchWorker
  BY DEF NewSearchWorker, SearchWorker
<1>2. NewTargetWorker \in TargetWorker
  BY DEF NewTargetWorker, TargetWorker
<1>3. NoRun \in TargetRun
  BY DEF NoRun, TargetRun
<1>4. QED BY <1>1, <1>2, <1>3 DEF TypeOK, SearchPc, TargetPc

\* What a step does to the search workers when it updates one of them.
LEMMA SearchUpdate ==
  ASSUME TypeOK, NEW w \in Workers, NEW r,
         search' = [search EXCEPT ![w] = r]
  PROVE  /\ r \in SearchWorker => search' \in [Workers -> SearchWorker]
         /\ search'[w] = r
         /\ \A v \in Workers : v # w => search'[v] = search[v]
BY DEF TypeOK

LEMMA NextType == TypeOK /\ CallerInv /\ [Next]_vars => TypeOK'
<1> SUFFICES ASSUME TypeOK, CallerInv, [Next]_vars PROVE TypeOK'
  OBVIOUS
<1> USE ConstantTypes DEF searchVars, targetVars, ghosts
<1>1. ASSUME NEW input \in Inputs, PrePlan(input) PROVE TypeOK'
  <2> DEFINE r(w) == [search[w] EXCEPT !.input = input,
                                       !.path_id = input.path_id,
                                       !.early_stop = "clear",
                                       !.output = EmptyOutput,
                                       !.has_task = TRUE,
                                       !.finished = FALSE]
  <2>1. input \in AnyInput /\ input.path_id \in PathIds
    BY DEF Inputs
  <2>2. PICK w \in Workers : search' = [search EXCEPT ![w] = r(w)] /\ Wake(w)
    BY <1>1 DEF PrePlan, Selectable
  <2>3. r(w) \in SearchWorker
    BY <2>1 DEF TypeOK, SearchWorker
  <2>4. search' \in [Workers -> SearchWorker]
    BY <2>2, <2>3, SearchUpdate
  <2>5. spc' \in [Workers -> SearchPc]
    BY <2>2 DEF Wake, TypeOK, SearchPc
  <2>6. QED BY <1>1, <2>4, <2>5 DEF PrePlan, TypeOK
<1>2. CASE DisableSearch
  BY <1>2 DEF DisableSearch, TypeOK
<1>3. ASSUME NEW input \in Inputs, SubmitTarget(input) PROVE TypeOK'
  <2>1. target.plan_id + 1 \in PlanIds
    BY <1>3, ManagerAssumption
    DEF SubmitTarget, CallerInv, PlanIds, TypeOK, TargetWorker
  <2>2. target' \in TargetWorker
    BY <1>3, <2>1 DEF SubmitTarget, TypeOK, TargetWorker
  <2>3. raised' \subseteq PlanIds \ {0}
    BY <1>3 DEF SubmitTarget, RaiseHeld, TypeOK, TargetWorker
  <2>4. tpc' \in TargetPc
    BY <1>3 DEF SubmitTarget, WakeTarget, TypeOK, TargetPc
  <2>5. QED BY <1>3, <2>2, <2>3, <2>4 DEF SubmitTarget, TypeOK
<1>4. CASE CancelTargetPlan
  <2>1. target' \in TargetWorker
    BY <1>4 DEF CancelTargetPlan, TypeOK, TargetWorker
  <2>2. raised' \subseteq PlanIds \ {0}
    BY <1>4 DEF CancelTargetPlan, RaiseHeld, TypeOK, TargetWorker
  <2>3. tpc' \in TargetPc
    BY <1>4 DEF CancelTargetPlan, WakeTarget, TypeOK, TargetPc
  <2>4. QED BY <1>4, <2>1, <2>2, <2>3 DEF CancelTargetPlan, TypeOK
<1>5. CASE StopBegin
  BY <1>5 DEF StopBegin, TypeOK
<1>6. CASE StartThreads
  <2>1. NewSearchWorker \in SearchWorker
    BY DEF NewSearchWorker, SearchWorker
  <2>2. NewTargetWorker \in TargetWorker
    BY DEF NewTargetWorker, TargetWorker
  <2>3. NoRun \in TargetRun
    BY DEF NoRun, TargetRun
  <2>4. QED
    BY <1>6, <2>1, <2>2, <2>3 DEF StartThreads, TypeOK, SearchPc, TargetPc
<1>7. CASE StopSearchWorker
  <2> DEFINE r(w) ==
        [search[w] EXCEPT !.stop = TRUE,
                          !.has_task = FALSE,
                          !.early_stop = FlagStopped(search[w].early_stop)]
  <2>1. PICK w \in stopping : /\ search' = [search EXCEPT ![w] = r(w)]
                              /\ Wake(w)
                              /\ stopping' = stopping \ {w}
    BY <1>7 DEF StopSearchWorker
  <2>2. w \in Workers
    BY DEF TypeOK
  <2>3. r(w) \in SearchWorker
    BY <2>2 DEF TypeOK, SearchWorker, FlagStopped
  <2>4. search' \in [Workers -> SearchWorker]
    BY <2>1, <2>2, <2>3, SearchUpdate
  <2>5. spc' \in [Workers -> SearchPc]
    BY <2>1 DEF Wake, TypeOK, SearchPc
  <2>6. QED BY <1>7, <2>1, <2>4, <2>5 DEF StopSearchWorker, TypeOK
<1>8. CASE StopTargetWorker
  <2>1. target' \in TargetWorker
    BY <1>8 DEF StopTargetWorker, TypeOK, TargetWorker
  <2>2. raised' \subseteq PlanIds \ {0}
    BY <1>8 DEF StopTargetWorker, RaiseHeld, TypeOK, TargetWorker
  <2>3. tpc' \in TargetPc
    BY <1>8 DEF StopTargetWorker, WakeTarget, TypeOK, TargetPc
  <2>4. QED BY <1>8, <2>1, <2>2, <2>3 DEF StopTargetWorker, TypeOK
<1>9. CASE Join
  BY <1>9 DEF Join, TypeOK
<1>10. ASSUME NEW w \in Workers, SearchThread(w) PROVE TypeOK'
  <2>1. CASE SearchSleep(w)
    BY <2>1 DEF SearchSleep, TypeOK, SearchPc
  <2>2. CASE SearchExit(w)
    BY <2>2 DEF SearchExit, TypeOK, SearchPc
  <2>3. CASE SearchTake(w)
    <3> DEFINE r == [search[w] EXCEPT
                       !.has_task = FALSE, !.running = TRUE, !.finished = FALSE,
                       !.early_stop = FlagTaken(search[w].early_stop)]
    <3>1. search' = [search EXCEPT ![w] = r]
      BY <2>3 DEF SearchTake
    <3>2. r \in SearchWorker /\ search[w].input \in AnyInput
      BY DEF TypeOK, SearchWorker, FlagTaken
    <3>3. search' \in [Workers -> SearchWorker]
      BY <3>1, <3>2, SearchUpdate
    <3>4. QED BY <2>3, <3>2, <3>3 DEF SearchTake, TypeOK, SearchPc
  <2>4. CASE SearchPublish(w)
    <3> DEFINE r(output) == [search[w] EXCEPT
                               !.output = output, !.running = FALSE,
                               !.finished = TRUE, !.early_stop = "null"]
    <3>1. PICK output \in PlanResults(srun[w]) :
            search' = [search EXCEPT ![w] = r(output)]
      BY <2>4 DEF SearchPublish
    <3>2. output \in Outputs
      BY <3>1, PlanResultsType DEF TypeOK
    <3>3. r(output) \in SearchWorker
      BY <3>2 DEF TypeOK, SearchWorker
    <3>4. search' \in [Workers -> SearchWorker]
      BY <3>1, <3>3, SearchUpdate
    <3>5. QED BY <2>4, <3>4 DEF SearchPublish, TypeOK, SearchPc
  <2>5. QED BY <1>10, <2>1, <2>2, <2>3, <2>4 DEF SearchThread
<1>11. CASE TargetThread
  <2>1. CASE TargetSleep
    BY <2>1 DEF TargetSleep, TypeOK, TargetPc
  <2>2. CASE TargetExit
    BY <2>2 DEF TargetExit, TypeOK, TargetPc
  <2>3. CASE TargetTake
    <3>1. run' \in TargetRun
      BY <2>3 DEF TargetTake, NoRun, TypeOK, TargetRun, TargetWorker
    <3>2. target' \in TargetWorker
      BY <2>3, <3>1 DEF TargetTake, TypeOK, TargetRun, TargetWorker
    <3>3. QED BY <2>3, <3>1, <3>2 DEF TargetTake, TypeOK, TargetPc
  <2>4. CASE TargetUseCandidate
    <3>1. PICK w \in Workers :
            run' = [run EXCEPT !.used_candidate = TRUE,
                               !.output = search[w].output]
      BY <2>4 DEF TargetUseCandidate, Candidates
    <3>2. run' \in TargetRun
      BY <3>1 DEF TypeOK, TargetRun, SearchWorker
    <3>3. QED BY <2>4, <3>2 DEF TargetUseCandidate, TypeOK, TargetPc
  <2>5. CASE TargetGenerate
    BY <2>5 DEF TargetGenerate, TypeOK, TargetPc
  <2>6. CASE TargetPublish
    <3>1. RunResults \subseteq Outputs
      BY PlanResultsType DEF RunResults, TypeOK, TargetRun
    <3>2. ASSUME NEW output \in Outputs, NEW cancel \in BOOLEAN,
                 FinishWith(output, cancel)
          PROVE  target' \in TargetWorker
      BY <3>2 DEF FinishWith, TypeOK, TargetWorker, TargetRun
    <3>3. target' \in TargetWorker /\ publisher' \in PlanIds
      BY <2>6, <3>1, <3>2 DEF TargetPublish, TypeOK, TargetRun
    <3>4. QED BY <2>6, <3>3 DEF TargetPublish, TypeOK, TargetPc
  <2>7. CASE TargetEnableSearch
    BY <2>7 DEF TargetEnableSearch, TypeOK, TargetPc
  <2>8. QED
    BY <1>11, <2>1, <2>2, <2>3, <2>4, <2>5, <2>6, <2>7 DEF TargetThread
<1>12. CASE SpuriousWakeup
  BY <1>12 DEF SpuriousWakeup, Wake, WakeTarget, TypeOK, SearchPc, TargetPc
<1>13. CASE UNCHANGED vars
  BY <1>13 DEF vars, TypeOK
<1>14. QED
  BY <1>1, <1>2, <1>3, <1>4, <1>5, <1>6, <1>7, <1>8, <1>9, <1>10, <1>11,
     <1>12, <1>13 DEF Next, Call, Continue

-----------------------------------------------------------------------------
(* Preservation of the inductive invariant. *)

LEMMA InitInv == Init => IInv
<1> SUFFICES ASSUME Init PROVE IInv
  OBVIOUS
<1>1. TypeOK
  BY InitType
<1>2. CallerInv
  BY DEF Init, NewManager, NewTargetWorker, NewSearchWorker, CallerInv
<1>3. PlanInv
  BY DEF Init, NewManager, NewTargetWorker, PlanInv, EmptyOutput
<1>4. RunInv
  BY DEF Init, NewManager, RunInv
<1>5. WorkerInv
  BY DEF Init, NewManager, NewSearchWorker, WorkerInv, NoInput, EmptyOutput
<1>6. OneWorkerPerPath
  BY DEF Init, NewManager, NewSearchWorker, OneWorkerPerPath
<1>7. QED BY <1>1, <1>2, <1>3, <1>4, <1>5, <1>6 DEF IInv

(* What a step does to the fields of the one search worker it updates. *)

LEMMA PrePlanEffect ==
  ASSUME TypeOK, NEW input \in Inputs, PrePlan(input)
  PROVE  \E w \in Workers :
           /\ w \in Selectable
           /\ \A v \in Workers : v # w => search'[v] = search[v]
           /\ search'[w].input = input /\ search'[w].path_id = input.path_id
           /\ search'[w].output = EmptyOutput
           /\ search'[w].has_task /\ ~search'[w].finished
           /\ search'[w].running = search[w].running
           /\ search'[w].stop = search[w].stop
           /\ Wake(w)
<1> DEFINE r(w) == [search[w] EXCEPT !.input = input,
                                     !.path_id = input.path_id,
                                     !.early_stop = "clear",
                                     !.output = EmptyOutput,
                                     !.has_task = TRUE,
                                     !.finished = FALSE]
<1>1. PICK w \in Workers : /\ w \in Selectable /\ Wake(w)
                           /\ search' = [search EXCEPT ![w] = r(w)]
  BY DEF PrePlan, Selectable
<1>2. search'[w] = r(w) /\ \A v \in Workers : v # w => search'[v] = search[v]
  BY <1>1, SearchUpdate
<1>3. search[w] \in SearchWorker
  BY DEF TypeOK
<1>4. /\ search'[w].input = input /\ search'[w].path_id = input.path_id
      /\ search'[w].output = EmptyOutput
      /\ search'[w].has_task /\ ~search'[w].finished
      /\ search'[w].running = search[w].running
      /\ search'[w].stop = search[w].stop
  BY <1>2, <1>3 DEF SearchWorker
<1>5. QED BY <1>1, <1>2, <1>4

LEMMA TakeEffect ==
  ASSUME TypeOK, NEW w \in Workers, SearchTake(w)
  PROVE  /\ \A v \in Workers : v # w => search'[v] = search[v]
         /\ search'[w].input = search[w].input
         /\ search'[w].path_id = search[w].path_id
         /\ search'[w].output = search[w].output
         /\ search'[w].stop = search[w].stop
         /\ ~search'[w].has_task /\ search'[w].running /\ ~search'[w].finished
         /\ search'[w].early_stop # "null"
<1> DEFINE r == [search[w] EXCEPT
                   !.has_task = FALSE, !.running = TRUE, !.finished = FALSE,
                   !.early_stop = FlagTaken(search[w].early_stop)]
<1>1. search' = [search EXCEPT ![w] = r]
  BY DEF SearchTake
<1>2. search'[w] = r /\ \A v \in Workers : v # w => search'[v] = search[v]
  BY <1>1, SearchUpdate
<1>3. search[w] \in SearchWorker
  BY DEF TypeOK
<1>4. QED BY <1>2, <1>3 DEF SearchWorker, FlagTaken

LEMMA PublishEffect ==
  ASSUME TypeOK, NEW w \in Workers, SearchPublish(w)
  PROVE  /\ \A v \in Workers : v # w => search'[v] = search[v]
         /\ search'[w].input = search[w].input
         /\ search'[w].path_id = search[w].path_id
         /\ search'[w].output \in PlanResults(srun[w])
         /\ search'[w].stop = search[w].stop
         /\ search'[w].has_task = search[w].has_task
         /\ ~search'[w].running /\ search'[w].finished
<1> DEFINE r(output) == [search[w] EXCEPT
                           !.output = output, !.running = FALSE,
                           !.finished = TRUE, !.early_stop = "null"]
<1>1. PICK output \in PlanResults(srun[w]) :
        search' = [search EXCEPT ![w] = r(output)]
  BY DEF SearchPublish
<1>2. /\ search'[w] = r(output)
      /\ \A v \in Workers : v # w => search'[v] = search[v]
  BY <1>1, SearchUpdate
<1>3. search[w] \in SearchWorker
  BY DEF TypeOK
<1>4. QED BY <1>2, <1>3 DEF SearchWorker

LEMMA StopEffect ==
  ASSUME TypeOK, StopSearchWorker
  PROVE  \E w \in stopping :
           /\ w \in Workers
           /\ \A v \in Workers : v # w => search'[v] = search[v]
           /\ search'[w].input = search[w].input
           /\ search'[w].path_id = search[w].path_id
           /\ search'[w].output = search[w].output
           /\ search'[w].running = search[w].running
           /\ search'[w].finished = search[w].finished
           /\ search'[w].stop /\ ~search'[w].has_task
           /\ search'[w].early_stop = FlagStopped(search[w].early_stop)
           /\ Wake(w)
<1> DEFINE r(w) == [search[w] EXCEPT
                      !.stop = TRUE, !.has_task = FALSE,
                      !.early_stop = FlagStopped(search[w].early_stop)]
<1>1. PICK w \in stopping : search' = [search EXCEPT ![w] = r(w)] /\ Wake(w)
  BY DEF StopSearchWorker
<1>2. w \in Workers
  BY DEF TypeOK
<1>3. search'[w] = r(w) /\ \A v \in Workers : v # w => search'[v] = search[v]
  BY <1>1, <1>2, SearchUpdate
<1>4. search[w] \in SearchWorker
  BY <1>2 DEF TypeOK
<1>5. /\ search'[w].input = search[w].input
      /\ search'[w].path_id = search[w].path_id
      /\ search'[w].output = search[w].output
      /\ search'[w].running = search[w].running
      /\ search'[w].finished = search[w].finished
      /\ search'[w].stop /\ ~search'[w].has_task
      /\ search'[w].early_stop = FlagStopped(search[w].early_stop)
  BY <1>3, <1>4 DEF SearchWorker
<1>6. QED BY <1>1, <1>2, <1>3, <1>5

\* A stop flag is set by the two stop actions only, and api never leaves the
\* stop sequence before the threads are new.
LEMMA CallerStep == IInv /\ [Next]_vars => CallerInv'
<1> SUFFICES ASSUME TypeOK, CallerInv, [Next]_vars PROVE CallerInv'
  BY DEF IInv
<1> USE DEF searchVars, targetVars, ghosts, CallerInv
<1>1. ASSUME NEW input \in Inputs, PrePlan(input) PROVE CallerInv'
  BY <1>1 DEF PrePlan, Selectable, TypeOK, SearchWorker
<1>2. CASE DisableSearch
  BY <1>2 DEF DisableSearch
<1>3. ASSUME NEW input \in Inputs, SubmitTarget(input) PROVE CallerInv'
  BY <1>3 DEF SubmitTarget, TypeOK, TargetWorker
<1>4. CASE CancelTargetPlan
  BY <1>4 DEF CancelTargetPlan, TypeOK, TargetWorker
<1>5. CASE StopBegin
  BY <1>5 DEF StopBegin
<1>6. CASE StartThreads
  BY <1>6 DEF StartThreads, NewSearchWorker, NewTargetWorker
<1>7. CASE StopSearchWorker
  BY <1>7 DEF StopSearchWorker
<1>8. CASE StopTargetWorker
  BY <1>8 DEF StopTargetWorker, TypeOK, TargetWorker
<1>9. CASE Join
  BY <1>9 DEF Join
<1>10. ASSUME NEW w \in Workers, SearchThread(w) PROVE CallerInv'
  <2>1. UNCHANGED <<api, target>>
    BY <1>10 DEF SearchThread, SearchSleep, SearchExit, SearchTake, SearchPublish
  <2>2. \A v \in Workers : search'[v].stop = search[v].stop
    <3>1. CASE SearchSleep(w) \/ SearchExit(w)
      BY <3>1 DEF SearchSleep, SearchExit
    <3>2. CASE SearchTake(w)
      BY <3>2, TakeEffect
    <3>3. CASE SearchPublish(w)
      BY <3>3, PublishEffect
    <3>4. QED BY <1>10, <3>1, <3>2, <3>3 DEF SearchThread
  <2>3. QED BY <2>1, <2>2
<1>11. CASE TargetThread
  <2>1. UNCHANGED <<api, search>>
    BY <1>11 DEF TargetThread, TargetSleep, TargetExit, TargetTake, TargetPublish,
                 TargetUseCandidate, TargetGenerate, TargetEnableSearch
  <2>2. target'.stop = target.stop /\ target'.plan_id = target.plan_id
    BY <1>11 DEF TargetThread, TargetSleep, TargetExit, TargetTake, TargetPublish,
                 TargetUseCandidate, TargetGenerate, TargetEnableSearch,
                 FinishWith, TypeOK, TargetWorker
  <2>3. QED BY <2>1, <2>2
<1>12. CASE SpuriousWakeup
  BY <1>12 DEF SpuriousWakeup
<1>13. CASE UNCHANGED vars
  BY <1>13 DEF vars
<1>14. QED
  BY <1>1, <1>2, <1>3, <1>4, <1>5, <1>6, <1>7, <1>8, <1>9, <1>10, <1>11,
     <1>12, <1>13 DEF Next, Call, Continue

\* The target worker's plan and the run of the target thread change together.
LEMMA TargetStep == IInv /\ [Next]_vars => PlanInv' /\ RunInv'
<1> SUFFICES ASSUME IInv, [Next]_vars PROVE PlanInv' /\ RunInv'
  OBVIOUS
<1> USE DEF searchVars, targetVars, ghosts
<1>1. /\ target \in TargetWorker /\ run \in TargetRun
      /\ target.plan_id \in Nat /\ run.plan_id \in Nat
      /\ raised \subseteq Nat
  BY ManagerAssumption DEF IInv, TypeOK, TargetWorker, TargetRun, PlanIds
<1>2. PlanInv /\ RunInv
  BY DEF IInv
<1>3. ASSUME UNCHANGED <<target, raised, run, ghosts>>,
             tpc' \in {"lookup", "planning"} => tpc' = tpc
      PROVE  PlanInv' /\ RunInv'
  BY <1>2, <1>3 DEF PlanInv, RunInv
<1>4. ASSUME NEW input \in Inputs, SubmitTarget(input)
      PROVE  PlanInv' /\ RunInv'
  <2>1. target' = [target EXCEPT !.plan_id = target.plan_id + 1,
                                 !.input = input,
                                 !.early_stop = target.plan_id + 1,
                                 !.output = EmptyOutput,
                                 !.used_candidate_result = FALSE,
                                 !.cancel_requested = FALSE,
                                 !.has_task = TRUE,
                                 !.finished = FALSE]
    BY <1>4 DEF SubmitTarget
  <2>2. ~target.stop
    BY <1>4 DEF IInv, CallerInv, SubmitTarget
  <2>3. PlanInv'
    BY <1>1, <1>2, <1>4, <2>1, <2>2
    DEF PlanInv, SubmitTarget, RaiseHeld, TargetWorker, EmptyOutput
  <2>4. RunInv'
    BY <1>1, <1>2, <1>4, <2>1
    DEF PlanInv, RunInv, SubmitTarget, RaiseHeld, WakeTarget, TargetWorker
  <2>5. QED BY <2>3, <2>4
<1>5. CASE CancelTargetPlan
  BY <1>1, <1>2, <1>5
  DEF PlanInv, RunInv, CancelTargetPlan, RaiseHeld, WakeTarget, TargetWorker
<1>6. CASE StopTargetWorker
  BY <1>1, <1>2, <1>6
  DEF PlanInv, RunInv, StopTargetWorker, RaiseHeld, WakeTarget, TargetWorker
<1>7. CASE StartThreads
  BY <1>7 DEF PlanInv, RunInv, StartThreads, NewTargetWorker, EmptyOutput
<1>8. CASE TargetTake
  <2>1. target.early_stop = target.plan_id /\ target.plan_id # 0
    BY <1>1, <1>2, <1>8 DEF TargetTake, PlanInv
  <2>2. /\ run'.plan_id = target.plan_id
        /\ run'.early_stop = target.plan_id
        /\ run'.input = target.input
        /\ ~run'.used_candidate
    BY <1>8, <2>1 DEF TargetTake, NoRun
  <2>3. target' = [target EXCEPT !.has_task = FALSE, !.running = TRUE,
                                 !.finished = FALSE,
                                 !.early_stop = target.plan_id]
    BY <1>8, <2>2 DEF TargetTake
  <2>4. PlanInv'
    BY <1>1, <1>2, <1>8, <2>1, <2>3 DEF TargetTake, PlanInv, TargetWorker
  <2>5. RunInv'
    BY <1>1, <1>8, <2>1, <2>2, <2>3 DEF TargetTake, RunInv, TargetWorker
  <2>6. QED BY <2>4, <2>5
<1>9. CASE TargetUseCandidate
  <2>1. PICK w \in Candidates(run.input.path_id) :
          /\ search[w].output.status = "path"
          /\ run' = [run EXCEPT !.used_candidate = TRUE,
                                !.output = search[w].output]
    BY <1>9 DEF TargetUseCandidate
  <2>2. search[w].output.input.path_id = run.input.path_id
    BY <2>1 DEF Candidates, IInv, WorkerInv
  <2>3. PlanInv'
    BY <1>2, <1>9 DEF PlanInv, TargetUseCandidate
  <2>4. RunInv'
    BY <1>1, <1>2, <1>9, <2>1, <2>2 DEF RunInv, TargetUseCandidate, TargetRun
  <2>5. QED BY <2>3, <2>4
<1>10. CASE TargetGenerate
  BY <1>2, <1>10 DEF PlanInv, RunInv, TargetGenerate
<1>11. CASE TargetPublish
  <2>1. RunInv'
    BY <1>11 DEF TargetPublish, RunInv
  <2>2. CASE target.plan_id # run.plan_id
    BY <1>2, <1>11, <2>1, <2>2 DEF TargetPublish, PlanInv
  <2>3. CASE target.plan_id = run.plan_id
    <3>1. /\ run.early_stop = target.early_stop
          /\ target.plan_id > 0
          /\ ~target.finished /\ ~target.has_task
          /\ run.input = target.input
      BY <1>1, <1>2, <1>11, <2>3 DEF TargetPublish, PlanInv, RunInv
    <3>2. \A output \in RunResults :
            output.status = "path" => output.input.path_id = target.input.path_id
      BY <1>2, <1>11, <3>1 DEF TargetPublish, RunInv, RunResults, PlanResults
    <3>3. PICK output, cancel :
            /\ FinishWith(output, cancel)
            /\ output \in RunResults \/ output = CancelledOutput
            /\ run.early_stop \in raised => output = CancelledOutput
      BY <1>11, <2>3 DEF TargetPublish
    <3>4. /\ target'.output = output /\ target'.finished
          /\ target'.early_stop = 0 /\ ~target'.has_task
          /\ target'.plan_id = target.plan_id
          /\ target'.input = target.input
          /\ target'.stop = target.stop
      BY <1>1, <3>1, <3>3 DEF FinishWith, TargetWorker
    <3>5. /\ publisher' = target'.plan_id
          /\ cancelled' = cancelled /\ raised' = raised
      BY <1>11, <2>3, <3>4 DEF TargetPublish
    <3>6. cancelled => output = CancelledOutput
      BY <1>2, <1>11, <2>3, <3>1, <3>3 DEF TargetPublish, PlanInv, RunInv
    <3>7. QED
      BY <1>2, <2>1, <3>1, <3>2, <3>3, <3>4, <3>5, <3>6 DEF PlanInv, CancelledOutput
  <2>4. QED BY <2>2, <2>3
<1>12. CASE DisableSearch \/ StopBegin \/ StopSearchWorker \/ Join
  BY <1>3, <1>12 DEF DisableSearch, StopBegin, StopSearchWorker, Join
<1>13. ASSUME NEW input \in Inputs, PrePlan(input) PROVE PlanInv' /\ RunInv'
  BY <1>3, <1>13 DEF PrePlan
<1>14. ASSUME NEW w \in Workers, SearchThread(w) PROVE PlanInv' /\ RunInv'
  BY <1>3, <1>14
  DEF SearchThread, SearchSleep, SearchExit, SearchTake, SearchPublish
<1>15. CASE TargetSleep \/ TargetExit \/ TargetEnableSearch
  BY <1>3, <1>15 DEF TargetSleep, TargetExit, TargetEnableSearch
<1>16. CASE SpuriousWakeup
  BY <1>3, <1>16 DEF SpuriousWakeup, WakeTarget
<1>17. CASE UNCHANGED vars
  BY <1>3, <1>17 DEF vars
<1>18. QED
  BY <1>4, <1>5, <1>6, <1>7, <1>8, <1>9, <1>10, <1>11, <1>12, <1>13, <1>14,
     <1>15, <1>16, <1>17 DEF Next, Call, Continue, TargetThread

\* A lot is given to a worker only when no other worker holds it: a worker
\* with a path that is not stopped is queued, running or finished.
LEMMA WorkerStep == IInv /\ [Next]_vars => WorkerInv' /\ OneWorkerPerPath'
<1> SUFFICES ASSUME IInv, [Next]_vars PROVE WorkerInv' /\ OneWorkerPerPath'
  OBVIOUS
<1> USE DEF searchVars, targetVars, ghosts
<1>1. TypeOK /\ WorkerInv /\ OneWorkerPerPath
  BY DEF IInv
<1>2. ASSUME search' = search, srun' = srun,
             \A w \in Workers : spc'[w] = "planning" <=> spc[w] = "planning"
      PROVE  WorkerInv' /\ OneWorkerPerPath'
  BY <1>1, <1>2 DEF WorkerInv, OneWorkerPerPath
<1>3. ASSUME NEW input \in Inputs, PrePlan(input)
      PROVE  WorkerInv' /\ OneWorkerPerPath'
  <2>1. PICK w \in Workers :
          /\ w \in Selectable
          /\ \A v \in Workers : v # w => search'[v] = search[v]
          /\ search'[w].input = input /\ search'[w].path_id = input.path_id
          /\ search'[w].output = EmptyOutput
          /\ search'[w].has_task /\ ~search'[w].finished
          /\ search'[w].running = search[w].running
          /\ search'[w].stop = search[w].stop
          /\ Wake(w)
    BY <1>1, <1>3, PrePlanEffect
  <2>2. \A v \in Workers : ~search[v].stop
    BY <1>3 DEF IInv, CallerInv, PrePlan
  <2>3. ~search[w].running
    BY <2>1 DEF Selectable, Unassigned, Idle
  <2>4. srun' = srun /\ \A v \in Workers : spc'[v] = "planning" <=> spc[v] = "planning"
    BY <1>1, <1>3, <2>1 DEF PrePlan, Wake, TypeOK
  <2>5. WorkerInv'
    BY <1>1, <2>1, <2>2, <2>3, <2>4 DEF WorkerInv, EmptyOutput
  <2>6. \A v \in Workers : search[v].path_id # input.path_id
    BY <1>1, <1>3, <2>2 DEF PrePlan, Duplicate, WorkerInv
  <2>7. OneWorkerPerPath'
    BY <1>1, <2>1, <2>6 DEF OneWorkerPerPath
  <2>8. QED BY <2>5, <2>7
<1>4. ASSUME NEW w \in Workers, SearchThread(w)
      PROVE  WorkerInv' /\ OneWorkerPerPath'
  <2>1. CASE SearchSleep(w) \/ SearchExit(w)
    BY <1>1, <1>2, <2>1 DEF SearchSleep, SearchExit, TypeOK
  <2>2. CASE SearchTake(w)
    <3>1. /\ spc'[w] = "planning" /\ srun'[w] = search[w].input
          /\ ~search[w].stop
          /\ \A v \in Workers : v # w => /\ spc'[v] = spc[v]
                                         /\ srun'[v] = srun[v]
                                         /\ search'[v] = search[v]
      BY <1>1, <2>2, TakeEffect DEF SearchTake, TypeOK
    <3>2. WorkerInv'
      BY <1>1, <2>2, <3>1, TakeEffect DEF WorkerInv
    <3>3. OneWorkerPerPath'
      BY <1>1, <2>2, <3>1, TakeEffect DEF OneWorkerPerPath
    <3>4. QED BY <3>2, <3>3
  <2>3. CASE SearchPublish(w)
    <3>1. /\ spc'[w] = "idle"
          /\ \A v \in Workers : v # w => /\ spc'[v] = spc[v]
                                         /\ srun'[v] = srun[v]
                                         /\ search'[v] = search[v]
      BY <1>1, <2>3, PublishEffect DEF SearchPublish, TypeOK
    <3>a. ~search[w].has_task /\ srun[w] = search[w].input
      BY <1>1, <2>3 DEF SearchPublish, WorkerInv
    <3>b. search'[w].output.input = srun[w]
      BY <1>1, <2>3, PublishEffect DEF PlanResults
    <3>2. ~search'[w].has_task /\ search'[w].output.input = search[w].input
      BY <1>1, <2>3, <3>a, <3>b, PublishEffect
    <3>3. WorkerInv'
      BY <1>1, <2>3, <3>1, <3>2, PublishEffect DEF WorkerInv
    <3>4. OneWorkerPerPath'
      BY <1>1, <2>3, <3>1, PublishEffect DEF OneWorkerPerPath
    <3>5. QED BY <3>3, <3>4
  <2>4. QED BY <1>4, <2>1, <2>2, <2>3 DEF SearchThread
<1>5. CASE StopSearchWorker
  <2>1. PICK w \in stopping :
           /\ w \in Workers
           /\ \A v \in Workers : v # w => search'[v] = search[v]
           /\ search'[w].input = search[w].input
           /\ search'[w].path_id = search[w].path_id
           /\ search'[w].output = search[w].output
           /\ search'[w].running = search[w].running
           /\ search'[w].finished = search[w].finished
           /\ search'[w].stop /\ ~search'[w].has_task
           /\ search'[w].early_stop = FlagStopped(search[w].early_stop)
           /\ Wake(w)
    BY <1>1, <1>5, StopEffect
  <2>2. srun' = srun /\ \A v \in Workers : spc'[v] = "planning" <=> spc[v] = "planning"
    BY <1>1, <1>5, <2>1 DEF StopSearchWorker, Wake, TypeOK
  <2>3. WorkerInv'
    BY <1>1, <2>1, <2>2 DEF WorkerInv, FlagStopped
  <2>4. OneWorkerPerPath'
    BY <1>1, <2>1 DEF OneWorkerPerPath
  <2>5. QED BY <2>3, <2>4
<1>6. CASE StartThreads
  BY <1>6 DEF StartThreads, NewSearchWorker, WorkerInv, OneWorkerPerPath,
              NoInput, EmptyOutput
<1>7. CASE SpuriousWakeup
  BY <1>1, <1>2, <1>7 DEF SpuriousWakeup, Wake, TypeOK
<1>8. CASE TargetThread
  BY <1>2, <1>8
  DEF TargetThread, TargetSleep, TargetExit, TargetTake, TargetPublish,
      TargetUseCandidate, TargetGenerate, TargetEnableSearch
<1>9. CASE DisableSearch \/ CancelTargetPlan \/ StopBegin \/ StopTargetWorker \/ Join
  BY <1>2, <1>9
  DEF DisableSearch, CancelTargetPlan, StopBegin, StopTargetWorker, Join
<1>10. ASSUME NEW input \in Inputs, SubmitTarget(input)
       PROVE  WorkerInv' /\ OneWorkerPerPath'
  BY <1>2, <1>10 DEF SubmitTarget
<1>11. CASE UNCHANGED vars
  BY <1>2, <1>11 DEF vars
<1>12. QED
  BY <1>3, <1>4, <1>5, <1>6, <1>7, <1>8, <1>9, <1>10, <1>11
  DEF Next, Call, Continue

LEMMA NextInv == IInv /\ [Next]_vars => IInv'
BY NextType, CallerStep, TargetStep, WorkerStep DEF IInv

LEMMA Invariance == Spec => []IInv
<1>1. Init => IInv
  BY InitInv
<1>2. IInv /\ [Next]_vars => IInv'
  BY NextInv
<1>3. QED BY <1>1, <1>2, PTL DEF Spec

-----------------------------------------------------------------------------
(* The theorems. *)

(* Every variable of the manager keeps its type in every reachable state.  *)
THEOREM TypeCorrect == Spec => []TypeOK
BY Invariance, PTL DEF IInv

(* A finished plan was finished by its own run (TargetLoop's plan_id test  *)
(* under the target worker's mutex).                                       *)
THEOREM AnswersComeFromOwnRun == Spec => []AnswerFromOwnRun
<1>1. IInv => AnswerFromOwnRun
  BY DEF IInv, PlanInv, AnswerFromOwnRun
<1>2. QED BY <1>1, Invariance, PTL

(* A path that answers a plan is a path to the lot the plan asked for, also *)
(* when a search thread computed it before the plan was submitted.         *)
THEOREM AnswersSuitTheRequest == Spec => []AnswerForRequestedLot
<1>1. IInv => AnswerForRequestedLot
  BY DEF IInv, PlanInv, AnswerForRequestedLot
<1>2. QED BY <1>1, Invariance, PTL

(* A plan whose cancellation was accepted never delivers a path.           *)
THEOREM CancelledPlansDeliverNothing == Spec => []CancelledNeverDelivers
<1>1. IInv => CancelledNeverDelivers
  BY DEF IInv, PlanInv, CancelledNeverDelivers
<1>2. QED BY <1>1, Invariance, PTL

(* What a search worker shows under a path id was computed for that id.    *)
THEOREM CandidatesMatchTheirPath == Spec => []CandidateIsForItsPath
<1>1. IInv => CandidateIsForItsPath
  BY DEF IInv, WorkerInv, CandidateIsForItsPath
<1>2. QED BY <1>1, Invariance, PTL

(* The pool never holds the same lot twice.                                *)
THEOREM LotsAreHeldOnce == Spec => []OneWorkerPerPath
<1>1. IInv => OneWorkerPerPath
  BY DEF IInv
<1>2. QED BY <1>1, Invariance, PTL

(* A run that was replaced, cancelled or stopped has its early-stop flag up. *)
THEOREM StaleRunsAreToldToStop == Spec => []StaleRunIsToldToStop
<1>1. IInv => StaleRunIsToldToStop
  <2> SUFFICES ASSUME IInv PROVE StaleRunIsToldToStop
    OBVIOUS
  <2>1. \A w \in Workers :
          spc[w] = "planning" /\ search[w].stop => search[w].early_stop = "raised"
    BY DEF IInv, WorkerInv
  <2>2. tpc \in {"lookup", "planning"} /\
          (run.plan_id # target.plan_id \/ cancelled \/ target.stop) =>
            run.early_stop \in raised
    BY DEF IInv, PlanInv, RunInv
  <2>3. QED BY <2>1, <2>2 DEF StaleRunIsToldToStop
<1>2. QED BY <1>1, Invariance, PTL

(* A candidate waiting in a worker is not overwritten: PrePlan only selects *)
(* workers without a task.                                                 *)
THEOREM QueuedCandidatesAreKept == Spec => QueuedCandidateKept
<1> DEFINE A == \A w \in Workers :
                  search[w].has_task /\ search'[w].has_task =>
                    search'[w].input = search[w].input
<1>1. IInv /\ [Next]_vars => [A]_vars
  <2> SUFFICES ASSUME IInv, [Next]_vars PROVE A
    OBVIOUS
  <2> USE DEF searchVars
  <2>1. TypeOK
    BY DEF IInv
  <2>2. CASE search' = search
    BY <2>2
  <2>3. ASSUME NEW input \in Inputs, PrePlan(input) PROVE A
    BY <2>1, <2>3, PrePlanEffect DEF Selectable, Unassigned, Idle
  <2>4. ASSUME NEW w \in Workers, SearchThread(w) PROVE A
    <3>1. CASE SearchSleep(w) \/ SearchExit(w)
      BY <3>1 DEF SearchSleep, SearchExit
    <3>2. CASE SearchTake(w)
      BY <2>1, <3>2, TakeEffect
    <3>3. CASE SearchPublish(w)
      BY <2>1, <3>3, PublishEffect
    <3>4. QED BY <2>4, <3>1, <3>2, <3>3 DEF SearchThread
  <2>5. CASE StopSearchWorker
    BY <2>1, <2>5, StopEffect
  <2>6. CASE StartThreads
    BY <2>6 DEF StartThreads, NewSearchWorker
  <2>7. CASE DisableSearch \/ CancelTargetPlan \/ StopBegin \/ StopTargetWorker
             \/ Join \/ TargetThread \/ SpuriousWakeup \/ UNCHANGED vars
    BY <2>2, <2>7
    DEF DisableSearch, CancelTargetPlan, StopBegin, StopTargetWorker, Join,
        TargetThread, TargetSleep, TargetExit, TargetTake, TargetPublish,
        TargetUseCandidate, TargetGenerate, TargetEnableSearch, SpuriousWakeup,
        vars
  <2>8. ASSUME NEW input \in Inputs, SubmitTarget(input) PROVE A
    BY <2>2, <2>8 DEF SubmitTarget
  <2>9. QED
    BY <2>3, <2>4, <2>5, <2>6, <2>7, <2>8 DEF Next, Call, Continue
<1>2. QED BY <1>1, Invariance, PTL DEF Spec, QueuedCandidateKept

(* Once a plan can be polled its answer does not change before the next plan. *)
THEOREM AnswersAreStable == Spec => AnswerIsStable
<1> DEFINE A == target.finished /\ target'.plan_id = target.plan_id
                  /\ api # "stopped" =>
                    target'.finished /\ target'.output = target.output
<1>1. IInv /\ [Next]_vars => [A]_vars
  <2> SUFFICES ASSUME IInv, [Next]_vars PROVE A
    OBVIOUS
  <2> USE DEF searchVars, targetVars
  <2>1. /\ target \in TargetWorker
        /\ target.plan_id \in Nat /\ run.plan_id \in Nat
    BY ManagerAssumption DEF IInv, TypeOK, TargetWorker, TargetRun, PlanIds
  <2>2. CASE target' = target
    BY <2>2
  <2>3. ASSUME NEW input \in Inputs, SubmitTarget(input) PROVE A
    BY <2>1, <2>3 DEF SubmitTarget, TargetWorker
  <2>4. CASE CancelTargetPlan
    BY <2>4 DEF CancelTargetPlan
  <2>5. CASE StopTargetWorker
    BY <2>1, <2>5 DEF StopTargetWorker, TargetWorker
  <2>6. CASE StartThreads
    BY <2>6 DEF StartThreads
  <2>7. CASE TargetTake
    BY <2>7 DEF TargetTake, IInv, PlanInv
  <2>8. CASE TargetPublish
    <3>1. CASE target.plan_id = run.plan_id
      BY <2>1, <2>8, <3>1 DEF TargetPublish, IInv, RunInv
    <3>2. CASE target.plan_id # run.plan_id
      BY <2>2, <2>8, <3>2 DEF TargetPublish
    <3>3. QED BY <3>1, <3>2
  <2>9. CASE DisableSearch \/ StopBegin \/ StopSearchWorker \/ Join
             \/ TargetSleep \/ TargetExit \/ TargetUseCandidate \/ TargetGenerate
             \/ TargetEnableSearch \/ SpuriousWakeup \/ UNCHANGED vars
    BY <2>2, <2>9
    DEF DisableSearch, StopBegin, StopSearchWorker, Join, TargetSleep, TargetExit,
        TargetUseCandidate, TargetGenerate, TargetEnableSearch, SpuriousWakeup, vars
  <2>10. ASSUME NEW input \in Inputs, PrePlan(input) PROVE A
    BY <2>2, <2>10 DEF PrePlan
  <2>11. ASSUME NEW w \in Workers, SearchThread(w) PROVE A
    BY <2>2, <2>11
    DEF SearchThread, SearchSleep, SearchExit, SearchTake, SearchPublish
  <2>12. QED
    BY <2>3, <2>4, <2>5, <2>6, <2>7, <2>8, <2>9, <2>10, <2>11
    DEF Next, Call, Continue, TargetThread
<1>2. QED BY <1>1, Invariance, PTL DEF Spec, AnswerIsStable

-----------------------------------------------------------------------------
(* The manager implements TargetPlanService. *)

LEMMA PublishAnswers ==
  ASSUME IInv, TargetPublish
  PROVE  [Service!Next]_(Service!vars)
<1> USE DEF Service!Next, Service!vars
<1>1. /\ target \in TargetWorker /\ run \in TargetRun
      /\ target.plan_id \in Nat /\ run.plan_id \in Nat
  BY ManagerAssumption DEF IInv, TypeOK, TargetWorker, TargetRun, PlanIds
<1>2. cancelled' = cancelled
  BY DEF TargetPublish
<1>3. CASE target.plan_id # run.plan_id
  <2>1. target' = target
    BY <1>3 DEF TargetPublish
  <2>2. PlanPhase' = PlanPhase
    BY <1>2, <2>1 DEF PlanPhase
  <2>3. QED BY <2>1, <2>2
<1>4. CASE target.plan_id = run.plan_id
  <2>1. /\ run.early_stop = target.plan_id
        /\ target.plan_id > 0 /\ ~target.finished
        /\ run.input = target.input
        /\ run.used_candidate =>
             /\ run.output.status = "path"
             /\ run.output.input.path_id = run.input.path_id
    BY <1>1, <1>4 DEF TargetPublish, IInv, RunInv
  <2>2. ASSUME NEW output, NEW cancel, FinishWith(output, cancel)
        PROVE  /\ target'.plan_id = target.plan_id
               /\ target'.input = target.input
               /\ target'.output = output
               /\ PlanPhase' = "answered"
    BY <1>1, <2>1, <2>2 DEF FinishWith, PlanPhase, TargetWorker
  <2>3. CASE run.early_stop \notin raised
    <3>1. PlanPhase = "pending"
      BY <2>1, <2>3 DEF PlanPhase, IInv, PlanInv
    <3>2. PICK output \in RunResults : FinishWith(output, FALSE)
      BY <1>4, <2>3 DEF TargetPublish
    <3>3. output \in Outputs
      BY <1>1, <3>2, PlanResultsType DEF RunResults, IInv, TypeOK, TargetRun
    <3>4. Service!Suits(output, target.input)
      BY <2>1, <3>2 DEF RunResults, PlanResults, Generated, Service!Suits
    <3>5. QED BY <2>2, <3>1, <3>2, <3>3, <3>4 DEF Service!Answer
  <2>4. CASE run.early_stop \in raised
    <3>1. PlanPhase = "withdrawn"
      BY <2>1, <2>4 DEF PlanPhase, IInv, PlanInv
    <3>2. FinishWith(CancelledOutput, TRUE)
      BY <1>4, <2>4 DEF TargetPublish
    <3>3. QED BY <2>2, <3>1, <3>2 DEF Service!AnswerWithdrawn
  <2>5. QED BY <2>3, <2>4
<1>5. QED BY <1>3, <1>4

LEMMA StepSimulation ==
  ASSUME IInv, [Next]_vars
  PROVE  [Service!Next]_(Service!vars)
<1> USE DEF searchVars, targetVars, ghosts, Service!Next, Service!vars
<1>1. target \in TargetWorker /\ target.plan_id \in Nat
  BY ManagerAssumption DEF IInv, TypeOK, TargetWorker, PlanIds
<1>2. ASSUME target'.plan_id = target.plan_id, target'.input = target.input,
             target'.output = target.output, PlanPhase' = PlanPhase
      PROVE  [Service!Next]_(Service!vars)
  BY <1>2
<1>3. ASSUME target' = target, cancelled' = cancelled
      PROVE  [Service!Next]_(Service!vars)
  BY <1>3 DEF PlanPhase
<1>4. ASSUME NEW input \in Inputs, SubmitTarget(input)
      PROVE  [Service!Next]_(Service!vars)
  <2>1. ~target.stop
    BY <1>4 DEF SubmitTarget, IInv, CallerInv
  <2>2. /\ target'.plan_id = target.plan_id + 1 /\ target'.input = input
        /\ target'.output = EmptyOutput
        /\ ~target'.finished /\ target'.stop = target.stop
    BY <1>1, <1>4 DEF SubmitTarget, TargetWorker
  <2>3. PlanPhase' = "pending"
    BY <1>1, <1>4, <2>1, <2>2 DEF SubmitTarget, PlanPhase
  <2>4. Service!Submit(input)
    BY <2>2, <2>3 DEF Service!Submit
  <2>5. QED BY <2>4
<1>5. ASSUME CancelTargetPlan \/ StopTargetWorker
      PROVE  [Service!Next]_(Service!vars)
  <2>1. /\ target'.plan_id = target.plan_id /\ target'.input = target.input
        /\ target'.output = target.output /\ target'.finished = target.finished
        /\ target'.stop \/ cancelled'
    BY <1>1, <1>5 DEF CancelTargetPlan, StopTargetWorker, TargetWorker
  <2>2. PlanPhase' = IF PlanPhase = "pending" THEN "withdrawn" ELSE PlanPhase
    BY <2>1 DEF PlanPhase
  <2>3. CASE PlanPhase = "pending"
    BY <2>1, <2>2, <2>3 DEF Service!Withdraw
  <2>4. CASE PlanPhase # "pending"
    BY <1>2, <2>1, <2>2, <2>4
  <2>5. QED BY <2>3, <2>4
<1>6. CASE StartThreads
  <2>1. Service!Restart
    BY <1>6 DEF StartThreads, NewTargetWorker, PlanPhase, Service!Restart
  <2>2. QED BY <2>1
<1>7. CASE TargetTake
  <2>1. ~target.finished
    BY <1>7 DEF TargetTake, IInv, PlanInv
  <2>2. /\ target'.plan_id = target.plan_id /\ target'.input = target.input
        /\ target'.output = target.output /\ ~target'.finished
        /\ target'.stop = target.stop /\ cancelled' = cancelled
    BY <1>1, <1>7 DEF TargetTake, TargetWorker
  <2>3. QED BY <1>2, <2>1, <2>2 DEF PlanPhase
<1>8. CASE TargetPublish
  BY <1>8, PublishAnswers
<1>9. CASE DisableSearch \/ StopBegin \/ StopSearchWorker \/ Join
           \/ TargetSleep \/ TargetExit \/ TargetUseCandidate \/ TargetGenerate
           \/ TargetEnableSearch \/ SpuriousWakeup \/ UNCHANGED vars
  BY <1>3, <1>9
  DEF DisableSearch, StopBegin, StopSearchWorker, Join, TargetSleep, TargetExit,
      TargetUseCandidate, TargetGenerate, TargetEnableSearch, SpuriousWakeup, vars
<1>10. ASSUME NEW input \in Inputs, PrePlan(input)
       PROVE  [Service!Next]_(Service!vars)
  BY <1>3, <1>10 DEF PrePlan
<1>11. ASSUME NEW w \in Workers, SearchThread(w)
       PROVE  [Service!Next]_(Service!vars)
  BY <1>3, <1>11
  DEF SearchThread, SearchSleep, SearchExit, SearchTake, SearchPublish
<1>12. QED
  BY <1>4, <1>5, <1>6, <1>7, <1>8, <1>9, <1>10, <1>11
  DEF Next, Call, Continue, TargetThread

(* Seen through plan id, request, phase and answer, the thread pool behaves *)
(* like the one-request service: every initial state is a fresh service and *)
(* every step of a thread or the caller is a step of it or leaves it alone. *)
THEOREM ImplementsService == Spec => RefinesService
<1>1. Init => Service!Fresh
  BY DEF Init, NewManager, NewTargetWorker, PlanPhase, Service!Fresh
<1>2. IInv /\ [Next]_vars => [Service!Next]_(Service!vars)
  BY StepSimulation
<1>3. QED BY <1>1, <1>2, Invariance, PTL DEF Spec, RefinesService, Service!Spec

-----------------------------------------------------------------------------
(* What the composition needs to know of the manager. *)

\* Search stays disabled from the submission of a plan to the end of its run,
\* and a manager that was joined has no target thread.
TailInv ==
  /\ search_plan_disabled =>
       api = "submit" \/ ~target.finished \/ tpc = "enable"
  /\ api = "stopped" => ~search_plan_disabled /\ tpc = "exited"

LEMMA TailStep == IInv /\ TailInv /\ [Next]_vars => TailInv'
<1> SUFFICES ASSUME IInv, TailInv, [Next]_vars PROVE TailInv'
  OBVIOUS
<1> USE DEF searchVars, targetVars, ghosts, TailInv
<1>1. target \in TargetWorker
  BY DEF IInv, TypeOK
<1>2. ASSUME NEW input \in Inputs, PrePlan(input) PROVE TailInv'
  BY <1>2 DEF PrePlan
<1>3. CASE DisableSearch
  BY <1>3 DEF DisableSearch
<1>4. ASSUME NEW input \in Inputs, SubmitTarget(input) PROVE TailInv'
  BY <1>1, <1>4 DEF SubmitTarget, TargetWorker
<1>5. CASE CancelTargetPlan
  BY <1>5 DEF CancelTargetPlan
<1>6. CASE StopBegin \/ StopSearchWorker
  <2>1. /\ target' = target /\ tpc' = tpc /\ api \in {"free", "stop"}
        /\ api' = "stop" /\ search_plan_disabled' = search_plan_disabled
    BY <1>6 DEF StopBegin, StopSearchWorker
  <2>2. QED BY <2>1
<1>16. CASE Join
  BY <1>16 DEF Join
<1>7. CASE StopTargetWorker
  BY <1>1, <1>7 DEF StopTargetWorker, WakeTarget, TargetWorker
<1>8. CASE StartThreads
  BY <1>8 DEF StartThreads
<1>9. ASSUME NEW w \in Workers, SearchThread(w) PROVE TailInv'
  <2>1. UNCHANGED <<target, tpc, api, search_plan_disabled>>
    BY <1>9 DEF SearchThread, SearchSleep, SearchExit, SearchTake, SearchPublish
  <2>2. QED BY <2>1
<1>10. CASE TargetTake
  BY <1>1, <1>10 DEF TargetTake, TargetWorker
<1>11. CASE TargetSleep \/ TargetExit \/ TargetUseCandidate \/ TargetGenerate
            \/ TargetEnableSearch
  <2>1. CASE TargetEnableSearch
    BY <2>1 DEF TargetEnableSearch
  <2>2. CASE ~TargetEnableSearch
    <3>1. /\ target' = target /\ api' = api
          /\ search_plan_disabled' = search_plan_disabled
          /\ tpc \in {"idle", "lookup"}
      BY <1>11, <2>2
      DEF TargetSleep, TargetExit, TargetUseCandidate, TargetGenerate
    <3>2. QED BY <3>1
  <2>3. QED BY <2>1, <2>2
<1>12. CASE TargetPublish
  BY <1>12 DEF TargetPublish
<1>13. CASE SpuriousWakeup
  BY <1>13 DEF SpuriousWakeup, WakeTarget
<1>14. CASE UNCHANGED vars
  BY <1>14 DEF vars
<1>15. QED
  BY <1>2, <1>3, <1>4, <1>5, <1>6, <1>7, <1>8, <1>9, <1>10, <1>11, <1>12,
     <1>13, <1>14, <1>16 DEF Next, Call, Continue, TargetThread

-----------------------------------------------------------------------------
(* The inductive invariant of the composition. *)

\* The frame's place and the caller's place in the manager agree.
PlaceInv ==
  /\ fpc \in {"idle", "deliver", "reset"} => api \in {"free", "stopped"}
  /\ fpc \in {"preplan", "offer", "disable", "wait"} => api = "free"
  /\ fpc = "start" => api = "stopped"
  /\ fpc = "submit" => api = "submit"
  /\ fpc = "teardown" => api \in {"stop", "join"}
  /\ fpc \in {"start", "preplan", "offer", "disable", "submit", "wait", "deliver"}
       => frame \in Inputs

\* Outside the wait for an answer, and unless the manager is being reset, the
\* last plan is finished; so the only run there ever is belongs to the last plan.
QuietInv ==
  /\ fpc \in {"idle", "preplan", "offer", "disable", "submit", "deliver"}
       /\ api # "stopped" => target.finished
  /\ tpc \in {"lookup", "planning"} => run.plan_id = target.plan_id

\* What is waited for is the plan for this frame.
AnswerInv ==
  /\ fpc = "wait" => ticket = target.plan_id /\ target.input = frame
  /\ DeliveredForSelectedLot
  /\ HistoryIsUsable

FrameInv ==
  FrameTypeOK /\ IInv /\ TailInv /\ PlaceInv /\ QuietInv /\ AnswerInv

LEMMA InitFrame == FrameInit => FrameInv
<1> SUFFICES ASSUME FrameInit PROVE FrameInv
  OBVIOUS
<1> USE ConstantTypes DEF FrameInit, NewManager
<1>1. NewSearchWorker \in SearchWorker
  BY DEF NewSearchWorker, SearchWorker
<1>2. NewTargetWorker \in TargetWorker
  BY DEF NewTargetWorker, TargetWorker
<1>3. NoRun \in TargetRun
  BY DEF NoRun, TargetRun
<1>4. TypeOK
  BY <1>1, <1>2, <1>3 DEF TypeOK, SearchPc, TargetPc
<1>5. FrameTypeOK
  BY <1>4, FrameAssumption DEF FrameTypeOK, FramePc, NoHistory, NoResult
<1>6. CallerInv
  BY DEF NewTargetWorker, NewSearchWorker, CallerInv
<1>7. PlanInv /\ RunInv
  BY DEF NewTargetWorker, PlanInv, RunInv, EmptyOutput
<1>8. WorkerInv /\ OneWorkerPerPath
  BY DEF NewSearchWorker, WorkerInv, OneWorkerPerPath, NoInput, EmptyOutput
<1>9. IInv
  BY <1>4, <1>6, <1>7, <1>8 DEF IInv
<1>10. TailInv /\ PlaceInv /\ QuietInv
  BY DEF TailInv, PlaceInv, QuietInv
<1>11. AnswerInv
  BY DEF AnswerInv, DeliveredForSelectedLot, HistoryIsUsable, NoHistory
<1>12. QED BY <1>5, <1>9, <1>10, <1>11 DEF FrameInv

\* A frame uses the manager only as its specification lets a caller.
LEMMA ManagerStep == FrameInv /\ [FrameNext]_systemVars => [Next]_vars
<1> SUFFICES ASSUME FrameInv, [FrameNext]_systemVars PROVE [Next]_vars
  OBVIOUS
<1> USE DEF Next, Call, Continue
<1>1. CASE NewFrame
  BY <1>1 DEF NewFrame, ReuseFrame, PlanFrame, ResetRequested
<1>2. CASE ThreadStep
  BY <1>2 DEF ThreadStep
<1>3. CASE FrameStep
  <2>1. CASE EnsureProvider
    BY <2>1 DEF EnsureProvider
  <2>2. ASSUME NEW lot \in toSearch, Offer(lot) PROVE [Next]_vars
    <3>1. [path_id |-> lot, scene |-> frame.scene] \in Inputs
      BY <2>2 DEF Offer, FrameInv, FrameTypeOK, PlaceInv, Inputs
    <3>2. QED BY <2>2, <3>1 DEF Offer
  <2>3. CASE BeginTargetPlan
    BY <2>3 DEF BeginTargetPlan
  <2>4. CASE FinishTargetPlan
    BY <2>4 DEF FinishTargetPlan, FrameInv, PlaceInv
  <2>5. CASE Timeout
    BY <2>5 DEF Timeout
  <2>6. CASE ResetPlanningState
    BY <2>6 DEF ResetPlanningState
  <2>7. CASE TearDown
    BY <2>7 DEF TearDown
  <2>8. CASE EnterPrePlan \/ OffersDone \/ PollReady \/ PollAgain \/ Deliver
    BY <2>8 DEF EnterPrePlan, OffersDone, PollReady, PollAgain, Deliver
  <2>9. ASSUME NEW lot \in toSearch, OfferRefused(lot) PROVE [Next]_vars
    BY <2>9 DEF OfferRefused
  <2>10. QED
    BY <1>3, <2>1, <2>2, <2>3, <2>4, <2>5, <2>6, <2>7, <2>8, <2>9 DEF FrameStep
<1>4. CASE UNCHANGED systemVars
  BY <1>4 DEF systemVars
<1>5. QED BY <1>1, <1>2, <1>3, <1>4 DEF FrameNext

\* A step of a worker thread leaves the caller where it is, and the last plan
\* keeps its id and input and stays finished once it is.
LEMMA ThreadEffect ==
  ASSUME IInv, ThreadStep
  PROVE  /\ UNCHANGED frameVars /\ api' = api
         /\ target'.plan_id = target.plan_id /\ target'.input = target.input
         /\ target.finished => target'.finished
         /\ tpc' \in {"lookup", "planning"} =>
              \/ tpc \in {"lookup", "planning"} /\ run'.plan_id = run.plan_id
              \/ run'.plan_id = target.plan_id
<1> USE DEF searchVars, targetVars, ghosts
<1>1. target \in TargetWorker /\ run \in TargetRun
  BY DEF IInv, TypeOK
<1>2. CASE \E w \in Workers : SearchThread(w)
  BY <1>2 DEF ThreadStep, SearchThread, SearchSleep, SearchExit, SearchTake,
              SearchPublish
<1>3. CASE SpuriousWakeup
  BY <1>3 DEF ThreadStep, SpuriousWakeup, WakeTarget
<1>4. CASE TargetTake
  <2>1. ~target.finished
    BY <1>4 DEF TargetTake, IInv, PlanInv
  <2>2. run'.plan_id = target.plan_id
    BY <1>4 DEF TargetTake, NoRun
  <2>3. QED BY <1>1, <1>4, <2>1, <2>2 DEF ThreadStep, TargetTake, TargetWorker
<1>5. CASE TargetUseCandidate
  <2>1. run'.plan_id = run.plan_id
    BY <1>1, <1>5 DEF TargetUseCandidate, TargetRun
  <2>2. QED BY <1>5, <2>1 DEF ThreadStep, TargetUseCandidate
<1>6. CASE TargetPublish
  BY <1>1, <1>6 DEF ThreadStep, TargetPublish, FinishWith, TargetWorker
<1>7. CASE TargetSleep \/ TargetExit \/ TargetGenerate \/ TargetEnableSearch
  BY <1>7 DEF ThreadStep, TargetSleep, TargetExit, TargetGenerate,
              TargetEnableSearch
<1>8. QED
  BY <1>2, <1>3, <1>4, <1>5, <1>6, <1>7 DEF ThreadStep, TargetThread

LEMMA FrameStepType == FrameInv /\ [FrameNext]_systemVars => FrameTypeOK'
<1> SUFFICES ASSUME FrameInv, [FrameNext]_systemVars PROVE FrameTypeOK'
  OBVIOUS
<1>1. TypeOK'
  BY ManagerStep, NextType DEF FrameInv, IInv
<1>2. FrameTypeOK /\ TypeOK
  BY DEF FrameInv, FrameTypeOK
<1> USE FrameAssumption, ConstantTypes DEF FrameTypeOK, FramePc
<1>3. CASE UNCHANGED frameVars
  BY <1>1, <1>2, <1>3 DEF frameVars
<1>4. ASSUME NEW input \in Inputs, ReuseFrame(input) PROVE FrameTypeOK'
  BY <1>1, <1>2, <1>4 DEF ReuseFrame, NoResult
<1>5. ASSUME NEW input \in Inputs, PlanFrame(input) PROVE FrameTypeOK'
  BY <1>1, <1>2, <1>5 DEF PlanFrame, NoResult
<1>6. CASE ResetRequested \/ EnsureProvider \/ OffersDone \/ BeginTargetPlan
           \/ TearDown
  BY <1>1, <1>2, <1>6
  DEF ResetRequested, EnsureProvider, OffersDone, BeginTargetPlan, TearDown
<1>7. CASE EnterPrePlan
  BY <1>1, <1>2, <1>7 DEF EnterPrePlan
<1>8. ASSUME NEW lot \in toSearch, Offer(lot) \/ OfferRefused(lot)
      PROVE  FrameTypeOK'
  BY <1>1, <1>2, <1>8 DEF Offer, OfferRefused
<1>9. CASE FinishTargetPlan
  <2>1. ticket' \in PlanIds
    BY <1>1, <1>9 DEF FinishTargetPlan, TypeOK, TargetWorker
  <2>2. QED BY <1>1, <1>2, <1>9, <2>1 DEF FinishTargetPlan
<1>10. CASE PollReady
  <2>1. target.output \in Outputs
    BY <1>2 DEF TypeOK, TargetWorker
  <2>2. result' \in [kind : {"none", "reused", "ready", "timeout"},
                     output : Outputs, target_cancel : BOOLEAN]
    BY <1>10, <2>1 DEF PollReady, NoResult
  <2>3. QED BY <1>1, <1>2, <1>10, <2>2 DEF PollReady
<1>11. CASE PollAgain
  BY <1>1, <1>2, <1>11 DEF PollAgain
<1>12. CASE Timeout
  <2>1. target.finished \in BOOLEAN
    BY <1>2 DEF TypeOK, TargetWorker
  <2>2. result' \in [kind : {"none", "reused", "ready", "timeout"},
                     output : Outputs, target_cancel : BOOLEAN]
    BY <1>12, <2>1 DEF Timeout, NoResult
  <2>3. QED BY <1>1, <1>2, <1>12, <2>2 DEF Timeout
<1>13. CASE Deliver
  <2>1. history' \in [has_history : BOOLEAN, path_id : PathIds \cup {NoPathId},
                      scene : Scenes \cup {NoScene}, last_output : Outputs]
    BY <1>2, <1>13 DEF Deliver, Remember, FrameInv, PlaceInv, Inputs
  <2>2. QED BY <1>1, <1>2, <1>13, <2>1 DEF Deliver
<1>14. CASE ResetPlanningState
  BY <1>1, <1>2, <1>14 DEF ResetPlanningState, NoHistory
<1>15. QED
  BY <1>3, <1>4, <1>5, <1>6, <1>7, <1>8, <1>9, <1>10, <1>11, <1>12, <1>13, <1>14
  DEF FrameNext, NewFrame, FrameStep, ThreadStep, systemVars

LEMMA PlaceStep == FrameInv /\ [FrameNext]_systemVars => PlaceInv'
<1> SUFFICES ASSUME FrameInv, [FrameNext]_systemVars PROVE PlaceInv'
  OBVIOUS
<1>1. PlaceInv /\ TypeOK
  BY DEF FrameInv, FrameTypeOK
<1> USE DEF PlaceInv
<1>2. CASE NewFrame
  BY <1>1, <1>2 DEF NewFrame, ReuseFrame, PlanFrame, ResetRequested, vars
<1>3. CASE ThreadStep
  <2>1. UNCHANGED frameVars /\ api' = api
    BY <1>3, ThreadEffect DEF FrameInv
  <2>2. QED BY <1>1, <2>1 DEF frameVars
<1>4. CASE FrameStep
  <2>1. CASE EnsureProvider
    BY <1>1, <2>1 DEF EnsureProvider, StartThreads
  <2>2. ASSUME NEW lot \in toSearch, Offer(lot) \/ OfferRefused(lot) PROVE PlaceInv'
    BY <1>1, <2>2 DEF Offer, OfferRefused, PrePlan, vars
  <2>3. CASE EnterPrePlan \/ OffersDone \/ PollReady \/ PollAgain
    BY <1>1, <2>3 DEF EnterPrePlan, OffersDone, PollReady, PollAgain, vars
  <2>4. CASE BeginTargetPlan
    BY <1>1, <2>4 DEF BeginTargetPlan, DisableSearch
  <2>5. CASE FinishTargetPlan
    BY <1>1, <2>5 DEF FinishTargetPlan, SubmitTarget
  <2>6. CASE Timeout
    BY <1>1, <2>6 DEF Timeout, CancelTargetPlan, vars
  <2>7. CASE Deliver
    BY <1>1, <2>7 DEF Deliver, vars
  <2>8. CASE ResetPlanningState
    BY <1>1, <2>8 DEF ResetPlanningState, StopBegin, vars
  <2>9. CASE TearDown
    <3>1. CASE Join /\ fpc' = "idle"
      BY <3>1 DEF Join
    <3>2. CASE StopSearchWorker \/ StopTargetWorker
      <4>1. fpc' = "teardown" /\ api' \in {"stop", "join"}
        BY <2>9, <3>2 DEF TearDown, StopSearchWorker, StopTargetWorker, Join
      <4>2. QED BY <4>1
    <3>3. QED BY <2>9, <3>1, <3>2 DEF TearDown
  <2>10. QED
    BY <1>4, <2>1, <2>2, <2>3, <2>4, <2>5, <2>6, <2>7, <2>8, <2>9 DEF FrameStep
<1>5. CASE UNCHANGED systemVars
  BY <1>1, <1>5 DEF systemVars, frameVars, vars
<1>6. QED BY <1>2, <1>3, <1>4, <1>5 DEF FrameNext

LEMMA NoRunWhenFinished ==
  ASSUME FrameInv, target.finished
  PROVE  tpc \notin {"lookup", "planning"}
<1>1. target.plan_id \in Nat /\ run.plan_id \in Nat
  BY ManagerAssumption
  DEF FrameInv, IInv, TypeOK, TargetWorker, TargetRun, PlanIds
<1>2. QED BY <1>1 DEF FrameInv, IInv, RunInv, QuietInv

\* A plan is only submitted when the one before is finished, and a frame that
\* gives up on its plan has the manager joined before the next one.
LEMMA QuietStep == FrameInv /\ [FrameNext]_systemVars => QuietInv'
<1> SUFFICES ASSUME FrameInv, [FrameNext]_systemVars PROVE QuietInv'
  OBVIOUS
<1>1. /\ QuietInv /\ PlaceInv /\ TailInv /\ AnswerInv /\ IInv
      /\ target \in TargetWorker
  BY DEF FrameInv, IInv, TypeOK
<1>a. target.finished => tpc \notin {"lookup", "planning"}
  BY NoRunWhenFinished
<1> USE DEF QuietInv, searchVars, targetVars, ghosts
<1>2. CASE NewFrame
  BY <1>1, <1>2 DEF NewFrame, ReuseFrame, PlanFrame, ResetRequested, vars
<1>3. CASE ThreadStep
  <2>1. /\ UNCHANGED frameVars /\ api' = api
        /\ target'.plan_id = target.plan_id
        /\ target.finished => target'.finished
        /\ tpc' \in {"lookup", "planning"} =>
              \/ tpc \in {"lookup", "planning"} /\ run'.plan_id = run.plan_id
              \/ run'.plan_id = target.plan_id
    BY <1>1, <1>3, ThreadEffect
  <2>2. QED BY <1>1, <2>1 DEF frameVars
<1>4. CASE FrameStep
  <2>1. CASE EnsureProvider
    BY <2>1 DEF EnsureProvider, StartThreads, NewTargetWorker
  <2>2. ASSUME NEW lot \in toSearch, Offer(lot) \/ OfferRefused(lot) PROVE QuietInv'
    BY <1>1, <2>2 DEF Offer, OfferRefused, PrePlan, vars
  <2>3. CASE EnterPrePlan \/ OffersDone \/ PollAgain
    BY <1>1, <2>3 DEF EnterPrePlan, OffersDone, PollAgain, PlaceInv, vars
  <2>4. CASE PollReady
    BY <1>1, <2>4 DEF PollReady, Ready, vars
  <2>5. CASE BeginTargetPlan
    BY <1>1, <2>5 DEF BeginTargetPlan, DisableSearch
  <2>6. CASE FinishTargetPlan
    <3>1. target.finished
      BY <1>1, <2>6 DEF FinishTargetPlan, PlaceInv
    <3>2. tpc \notin {"lookup", "planning"}
      BY <1>a, <3>1
    <3>3. QED
      BY <2>6, <3>2 DEF FinishTargetPlan, SubmitTarget, WakeTarget
  <2>7. CASE Timeout
    BY <1>1, <2>7 DEF Timeout, CancelTargetPlan, WakeTarget, TargetWorker, vars
  <2>8. CASE Deliver
    BY <1>1, <2>8 DEF Deliver, vars
  <2>9. CASE ResetPlanningState
    BY <1>1, <2>9 DEF ResetPlanningState, StopBegin, vars
  <2>10. CASE TearDown
    <3>1. CASE Join /\ fpc' = "idle"
      BY <1>1, <3>1 DEF Join
    <3>2. CASE StopSearchWorker \/ StopTargetWorker
      <4>1. /\ fpc' = "teardown" /\ target'.plan_id = target.plan_id /\ run' = run
            /\ tpc' \in {"lookup", "planning"} => tpc' = tpc
        BY <1>1, <2>10, <3>2
        DEF TearDown, StopSearchWorker, StopTargetWorker, Join, WakeTarget,
            TargetWorker
      <4>2. QED BY <1>1, <4>1
    <3>3. QED BY <2>10, <3>1, <3>2 DEF TearDown
  <2>11. QED
    BY <1>4, <2>1, <2>2, <2>3, <2>4, <2>5, <2>6, <2>7, <2>8, <2>9, <2>10
    DEF FrameStep
<1>5. CASE UNCHANGED systemVars
  BY <1>1, <1>5 DEF systemVars, frameVars, vars
<1>6. QED BY <1>2, <1>3, <1>4, <1>5 DEF FrameNext

LEMMA AnswerStep == FrameInv /\ [FrameNext]_systemVars => AnswerInv'
<1> SUFFICES ASSUME FrameInv, [FrameNext]_systemVars PROVE AnswerInv'
  OBVIOUS
<1>1. AnswerInv /\ PlaceInv /\ IInv /\ FrameTypeOK /\ target \in TargetWorker
  BY DEF FrameInv, IInv, TypeOK
<1> USE DEF AnswerInv, DeliveredForSelectedLot, HistoryIsUsable
<1>2. ASSUME NEW input \in Inputs, ReuseFrame(input) PROVE AnswerInv'
  BY <1>1, <1>2 DEF ReuseFrame, Replan, NoResult
<1>3. CASE (\E input \in Inputs : PlanFrame(input)) \/ ResetRequested
  BY <1>1, <1>3 DEF PlanFrame, ResetRequested
<1>4. CASE ThreadStep
  <2>1. /\ UNCHANGED frameVars
        /\ target'.plan_id = target.plan_id /\ target'.input = target.input
    BY <1>1, <1>4, ThreadEffect
  <2>2. QED BY <1>1, <2>1 DEF frameVars
<1>5. CASE FrameStep
  <2>1. CASE EnsureProvider \/ EnterPrePlan \/ OffersDone \/ BeginTargetPlan
    BY <1>1, <2>1 DEF EnsureProvider, EnterPrePlan, OffersDone, BeginTargetPlan
  <2>2. ASSUME NEW lot \in toSearch, Offer(lot) \/ OfferRefused(lot)
        PROVE  AnswerInv'
    BY <1>1, <2>2 DEF Offer, OfferRefused
  <2>3. CASE FinishTargetPlan
    <3>1. target'.input = frame
      BY <1>1, <2>3 DEF FinishTargetPlan, SubmitTarget, TargetWorker
    <3>2. QED BY <1>1, <2>3, <3>1 DEF FinishTargetPlan
  <2>4. CASE PollReady
    <3>1. target.output.status = "path" =>
            target.output.input.path_id = frame.path_id
      BY <1>1, <2>4 DEF PollReady, IInv, PlanInv
    <3>2. QED BY <1>1, <2>4, <3>1 DEF PollReady, NoResult
  <2>5. CASE PollAgain
    BY <1>1, <2>5 DEF PollAgain, vars
  <2>6. CASE Timeout
    BY <1>1, <2>6 DEF Timeout
  <2>7. CASE Deliver
    <3>1. fpc' \in {"idle", "reset"} /\ history' = Remember
      BY <2>7 DEF Deliver
    <3>2. HistoryIsUsable'
      BY <1>1, <2>7, <3>1 DEF Deliver, Remember
    <3>3. QED BY <3>1, <3>2
  <2>8. CASE ResetPlanningState
    BY <2>8 DEF ResetPlanningState, NoHistory
  <2>9. CASE TearDown
    BY <1>1, <2>9 DEF TearDown
  <2>10. QED
    BY <1>5, <2>1, <2>2, <2>3, <2>4, <2>5, <2>6, <2>7, <2>8, <2>9 DEF FrameStep
<1>6. CASE UNCHANGED systemVars
  BY <1>1, <1>6 DEF systemVars, frameVars, vars
<1>7. QED BY <1>2, <1>3, <1>4, <1>5, <1>6 DEF FrameNext, NewFrame

LEMMA FrameInvariance == FrameSpec => []FrameInv
<1>1. FrameInit => FrameInv
  BY InitFrame
<1>2. FrameInv /\ [FrameNext]_systemVars => FrameInv'
  <2> SUFFICES ASSUME FrameInv, [FrameNext]_systemVars PROVE FrameInv'
    OBVIOUS
  <2>1. IInv' /\ TailInv'
    BY ManagerStep, NextInv, TailStep DEF FrameInv
  <2>2. QED
    BY <2>1, FrameStepType, PlaceStep, QuietStep, AnswerStep DEF FrameInv
<1>3. QED BY <1>1, <1>2, PTL DEF FrameSpec

-----------------------------------------------------------------------------
(* The theorems. *)

(* Every variable of the composition keeps its type. *)
THEOREM FramesAreWellTyped == FrameSpec => []FrameTypeOK
BY FrameInvariance, PTL DEF FrameInv

(* A frame goes on with a path to the lot it selected, or with none.       *)
THEOREM FramesDeliverTheSelectedLot == FrameSpec => []DeliveredForSelectedLot
<1>1. FrameInv => DeliveredForSelectedLot
  BY DEF FrameInv, AnswerInv
<1>2. QED BY <1>1, FrameInvariance, PTL

(* What the history offers for reuse is a path to the lot it names.        *)
THEOREM HistoriesAreUsable == FrameSpec => []HistoryIsUsable
<1>1. FrameInv => HistoryIsUsable
  BY DEF FrameInv, AnswerInv
<1>2. QED BY <1>1, FrameInvariance, PTL

(* No plan is replaced while it runs and none runs on between two frames.  *)
THEOREM RunsEndWithTheirFrame == FrameSpec => []NoRunOutlivesItsFrame
<1>1. FrameInv => NoRunOutlivesItsFrame
  <2> SUFFICES ASSUME FrameInv PROVE NoRunOutlivesItsFrame
    OBVIOUS
  <2>1. fpc = "submit" => target.finished
    BY DEF FrameInv, PlaceInv, QuietInv
  <2>2. fpc = "idle" /\ api = "stopped" => tpc = "exited"
    BY DEF FrameInv, TailInv
  <2>3. fpc = "idle" /\ api # "stopped" => tpc \notin {"lookup", "planning"}
    BY NoRunWhenFinished DEF FrameInv, QuietInv
  <2>4. QED BY <2>1, <2>2, <2>3 DEF NoRunOutlivesItsFrame
<1>2. QED BY <1>1, FrameInvariance, PTL

(* Only the tail of a finished run can hold search disabled at a new frame. *)
THEOREM SearchIsDisabledByTailsOnly == FrameSpec => []SearchDisabledOnlyByTail
<1>1. FrameInv => SearchDisabledOnlyByTail
  BY DEF FrameInv, TailInv, PlaceInv, QuietInv, SearchDisabledOnlyByTail
<1>2. QED BY <1>1, FrameInvariance, PTL
=============================================================================
