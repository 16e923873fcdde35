--------------------------- MODULE OperationSteps ---------------------------
(***************************************************************************)
(* The persisted step graph of an operation and the transitions the store  *)
(* admits on it (internal/biz/inference/operation.go).                     *)
(***************************************************************************)
EXTENDS Naturals, Sequences

ApplyPath == <<"reserve_quota", "resolve_gpu", "apply_cr", "materialize_model",
               "apply_runtime", "observe_runtime", "publish", "complete">>

RemovePath == <<"withdraw_publication", "delete_runtime", "observe_absence">>

OperationPaths ==
    [create  |-> <<"admission">> \o ApplyPath,
     start   |-> ApplyPath,
     update  |-> RemovePath \o <<"release_previous_quota">> \o ApplyPath,
     restart |-> RemovePath \o <<"release_previous_quota">> \o ApplyPath,
     stop    |-> RemovePath \o <<"release_quota", "complete">>,
     delete  |-> RemovePath \o <<"delete_cr", "release_quota", "complete">>]

Kinds == {"create", "start", "update", "restart", "stop", "delete"}
Steps == {"admission", "reserve_quota", "resolve_gpu", "release_previous_quota",
          "apply_cr", "materialize_model", "apply_runtime", "observe_runtime",
          "withdraw_publication", "delete_runtime", "observe_absence",
          "delete_cr", "publish", "release_quota", "complete"}
ActivePhases == {"pending", "running"}
Phases == ActivePhases \cup {"succeeded", "failed"}

OnPath(kind, step) ==
    \E i \in 1 .. Len(OperationPaths[kind]) : OperationPaths[kind][i] = step

\* operationStepIndex, counting from 1; asked only of steps on the path.
StepIndex(kind, step) ==
    CHOOSE i \in 1 .. Len(OperationPaths[kind]) : OperationPaths[kind][i] = step

ActiveStep(kind, step) ==
    /\ OnPath(kind, step)
    /\ StepIndex(kind, step) < Len(OperationPaths[kind])

\* The edge kept for workers that predate resolve_gpu.
CompatEdge(kind, from, to) ==
    /\ from = "reserve_quota"
    /\ to = "apply_cr"
    /\ OperationPaths[kind][StepIndex(kind, from) + 1] = "resolve_gpu"

\* Mutant: steps may be jumped over.
ValidTransitionForward(kind, fromPhase, fromStep, toPhase, toStep) ==
    /\ fromPhase \in ActivePhases
    /\ ActiveStep(kind, fromStep)
    /\ OnPath(kind, toStep)
    /\ StepIndex(kind, fromStep) <= StepIndex(kind, toStep)
    /\ (toPhase = "succeeded") <=> (toStep = "complete")

\* ValidateOperationStepTransition
ValidTransition(kind, fromPhase, fromStep, toPhase, toStep) ==
    /\ fromPhase \in ActivePhases
    /\ ActiveStep(kind, fromStep)
    /\ \/ toPhase = "failed" /\ toStep = "complete"
       \/ /\ toPhase = "succeeded" /\ toStep = "complete"
          /\ fromPhase = "running"
          /\ StepIndex(kind, fromStep) = Len(OperationPaths[kind]) - 1
       \/ /\ toPhase = "running"
          /\ ActiveStep(kind, toStep)
          /\ \/ fromPhase = "pending" /\ toStep = fromStep
             \/ /\ fromPhase = "running"
                /\ \/ CompatEdge(kind, fromStep, toStep)
                   \/ StepIndex(kind, toStep) = StepIndex(kind, fromStep) + 1

\* The step an accepted operation starts at.
EntryStep(kind) ==
    CASE kind = "create" -> "admission"
      [] kind = "start" -> "reserve_quota"
      [] OTHER -> "withdraw_publication"

=============================================================================
