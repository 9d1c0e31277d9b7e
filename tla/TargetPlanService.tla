--------------------------- MODULE TargetPlanService ---------------------------
(***************************************************************************)
(* What OpenSpaceThreadManager promises the caller of TargetPlan,          *)
(* CancelTargetPlan and PollTargetOutput, with the threads, the locks, the *)
(* candidate pool and the early-stop flags left out.  A plan is one        *)
(* request at a time: submitting replaces the plan before it; a plan gets  *)
(* at most one answer; a withdrawn plan can only be answered "cancelled".  *)
(***************************************************************************)
EXTENDS Integers

CONSTANTS
  Requests,   \* the inputs of a plan, records with a path_id
  Answers,    \* the outputs, records with a status and an input
  NoRequest, NoAnswer, Cancelled

VARIABLES plan, request, phase, answer

vars == <<plan, request, phase, answer>>

\* An answer is an error, or a path for the lot that was asked for.
Suits(a, r) ==
  \/ a.status = "error"
  \/ a.status = "path" /\ a.input.path_id = r.path_id

Fresh ==
  plan = 0 /\ request = NoRequest /\ phase = "none" /\ answer = NoAnswer

Submit(r) ==
  /\ plan' = plan + 1
  /\ request' = r
  /\ phase' = "pending"
  /\ answer' = NoAnswer

Withdraw ==
  /\ phase = "pending"
  /\ phase' = "withdrawn"
  /\ UNCHANGED <<plan, request, answer>>

Answer ==
  /\ phase = "pending"
  /\ \E a \in Answers : Suits(a, request) /\ answer' = a
  /\ phase' = "answered"
  /\ UNCHANGED <<plan, request>>

AnswerWithdrawn ==
  /\ phase = "withdrawn"
  /\ answer' = Cancelled
  /\ phase' = "answered"
  /\ UNCHANGED <<plan, request>>

\* The service is reset: the numbering of the plans starts again.
Restart ==
  plan' = 0 /\ request' = NoRequest /\ phase' = "none" /\ answer' = NoAnswer

Next ==
  \/ \E r \in Requests : Submit(r)
  \/ Withdraw \/ Answer \/ AnswerWithdrawn \/ Restart

Spec == Fresh /\ [][Next]_vars

=============================================================================
