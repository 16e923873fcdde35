--------------------------- MODULE ManagedCompute ---------------------------
(***************************************************************************)
(* A service whose compute Governance pays for: the intake of its CREATE   *)
(* and DELETE commands, the pods recorded while it runs, the seal written  *)
(* when its runtime is seen to be gone, and the release report that makes  *)
(* Governance refund it (managed_gpu.go, managed_close.go,                 *)
(* managed_gpu_release.go and the managed branches of runner.go).          *)
(*                                                                         *)
(* The work loop of one process runs the operations and the closes of      *)
(* DELETEs that came before their CREATE.  Of an operation only the steps  *)
(* that concern managed compute are kept; Lifecycle has them all.          *)
(***************************************************************************)
EXTENDS OperationSteps

CONSTANTS
    Create,     \* operation id of the CREATE
    Deletes,    \* operation ids of DELETEs
    Payloads,   \* what a CREATE may carry; its digest is itself
    Null,       \* NULL
    MaxOps,     \* bound: operations
    MaxPods,    \* bound: pods started
    MaxFaults   \* bound: failed calls, crashes, leases outlived

ASSUME ManagedBounds ==
    /\ MaxOps \in Nat /\ MaxPods \in Nat /\ MaxFaults \in Nat
    /\ Create \notin Deletes
    /\ Null \notin Deletes \cup Payloads

VARIABLES
    class,     \* ResourceClass of the commands
    row,       \* inference_managed_gpu_resources
    created,   \* inference_managed_gpu_commands: the CREATE
    closed,    \* the same: the DELETEs, with close_state, lease and report
    prepared,  \* CREATE calls between PrepareCreate and CreateService
    service,   \* inference_services.desired_state, "direct" if not managed
    op,        \* the current operation
    leased,    \* the process holds a live lease of the resource_work row
    scope,     \* inference_managed_gpu_release_scopes, by operation id
    proc,      \* the process: where it is and the operation context it loaded
    cr,        \* the custom resource, and whether its control binding names it
    runtime,   \* the KServe object, with the workload it owns
    bound,     \* the newest runtime binding names the object that is there
    pods,      \* UIDs of the pods that hold a GPU
    uids,      \* UIDs given out
    told,      \* release events Governance has applied
    faults

commands == <<class, row, created, closed, prepared>>
work == <<service, op, leased>>
cluster == <<cr, runtime, bound, pods, uids>>
managedVars == <<commands, work, scope, proc, cluster, told, faults>>

NoRow == [digest |-> Null, saved |-> Null, by |-> Null]
NoCreate == [payload |-> Null, intent |-> "none"]
NoClose == [state |-> "none", lease |-> FALSE, due |-> TRUE, report |-> Null]
NoOp == [num |-> 0, kind |-> "none", by |-> Null, step |-> "complete"]
NoScope == [sealed |-> FALSE, pods |-> {}]
Idle == [at |-> "idle", job |-> "none", op |-> NoOp, sealed |-> FALSE, pods |-> {}]

ManagedInit ==
    /\ class \in {"cpu", "gpu"}
    /\ row = NoRow /\ created = NoCreate /\ prepared = {}
    /\ closed = [d \in Deletes |-> NoClose]
    /\ service \in {"absent", "direct"}
    /\ op = NoOp /\ leased = FALSE
    /\ scope = [o \in {Create} \cup Deletes |-> NoScope]
    /\ proc = Idle
    /\ cr = "absent" /\ runtime = "absent" /\ bound = FALSE /\ pods = {} /\ uids = 0
    /\ told = {} /\ faults = 0

\* The steps of an operation that touch managed compute
ManagedSteps == {"apply_cr", "apply_runtime", "observe_runtime", "delete_runtime",
                 "observe_absence", "delete_cr", "release_quota", "complete"}
ManagedPaths ==
    [create  |-> <<"apply_cr", "apply_runtime", "observe_runtime", "complete">>,
     start   |-> <<"apply_cr", "apply_runtime", "observe_runtime", "complete">>,
     update  |-> <<"delete_runtime", "observe_absence", "apply_cr", "apply_runtime",
                   "observe_runtime", "complete">>,
     restart |-> <<"delete_runtime", "observe_absence", "apply_cr", "apply_runtime",
                   "observe_runtime", "complete">>,
     stop    |-> <<"delete_runtime", "observe_absence", "release_quota", "complete">>,
     delete  |-> <<"delete_runtime", "observe_absence", "delete_cr", "release_quota",
                   "complete">>]

\* They are what OperationPaths has of them, in that order.
ASSUME ManagedPathsKept ==
    \A kind \in Kinds :
        ManagedPaths[kind] =
            SelectSeq(OperationPaths[kind], LAMBDA step : step \in ManagedSteps)

NextStep(kind, step) ==
    ManagedPaths[kind][1 + CHOOSE i \in 1 .. Len(ManagedPaths[kind]) : ManagedPaths[kind][i] = step]
Operation(kind, by) ==
    [num |-> op.num + 1, kind |-> kind, by |-> by, step |-> ManagedPaths[kind][1]]

-----------------------------------------------------------------------------
(* Commands of Governance and of the tenant *)

(* The statements: what they find, and what they make of a row. *)

GetManagedGPUCommand == created

GetManagedGPUResourceForUpdate == row

ManagedGPUServiceExists == service # "absent"

InsertManagedGPUResource(r, p) == IF r = NoRow THEN [NoRow EXCEPT !.digest = p] ELSE r

SaveManagedGPUCreate(r, p) == [r EXCEPT !.saved = IF @ = Null THEN p ELSE @]

SetManagedGPUClosing(r, d) == [r EXCEPT !.by = IF @ = Null THEN d ELSE @]

InsertManagedGPUCommand(p, intent) == [payload |-> p, intent |-> intent]

SetManagedCloseState(d, state) == closed' = [closed EXCEPT ![d].state = state]

GetManagedGPUReleaseScope(o) == scope[o]

UpsertManagedGPUReleaseScope(o, value) == scope' = [scope EXCEPT ![o] = value]

\* prepareManagedCommand for a CREATE, under the locks of command and resource
CreateIntake(p) ==
    LET command == GetManagedGPUCommand
        resource == GetManagedGPUResourceForUpdate IN
    IF command # NoCreate THEN IF command.payload = p THEN "replay" ELSE "conflict"
    ELSE IF resource = NoRow THEN IF ManagedGPUServiceExists THEN "direct" ELSE "new"
    ELSE IF resource.digest # p THEN "conflict"
    ELSE IF resource.by # Null THEN "closing" ELSE "new"

\* persistManagedCommand with the intent blocked_by_delete
Block(p) == created' = InsertManagedGPUCommand(p, "blocked_by_delete")

\* A CREATE that is not blocked or known goes on to the model service.
PrepareCreate(p) ==
    /\ \/ CreateIntake(p) = "new" /\ prepared' = prepared \cup {p} /\ UNCHANGED created
       \/ CreateIntake(p) = "closing" /\ Block(p) /\ UNCHANGED prepared
    /\ UNCHANGED <<class, row, closed, work, scope, proc, cluster, told, faults>>

\* Mutant: what PrepareCreate found is not looked at again.
CreateServiceUnchecked(p) ==
    /\ p \in prepared
    /\ prepared' = prepared \ {p}
    /\ row' = [row EXCEPT !.digest = p, !.saved = p]
    /\ created' = InsertManagedGPUCommand(p, "create_pending")
    /\ service' = "running" /\ op' = Operation("create", Null)
    /\ UNCHANGED <<class, closed, leased, scope, proc, cluster, told, faults>>

CreateService(p) ==
    /\ p \in prepared
    /\ prepared' = prepared \ {p}
    /\ \/ /\ CreateIntake(p) = "new"
          /\ row' = SaveManagedGPUCreate(InsertManagedGPUResource(row, p), p)
          /\ created' = InsertManagedGPUCommand(p, "create_pending")
          /\ service' = "running" /\ op' = Operation("create", Null)
       \/ CreateIntake(p) = "closing" /\ Block(p) /\ UNCHANGED <<row, service, op>>
       \/ /\ CreateIntake(p) \in {"replay", "conflict"}
          /\ UNCHANGED <<row, created, service, op>>
    /\ UNCHANGED <<class, closed, leased, scope, proc, cluster, told, faults>>

\* Mutant: a resource may be closed by several DELETEs.
DeleteIntakeAny(d, p) ==
    /\ closed[d] = NoClose
    /\ IF row = NoRow THEN ~ManagedGPUServiceExists ELSE row.digest = p

\* prepareManagedCommand for a DELETE that names the digest of its CREATE
DeleteIntake(d, p) ==
    /\ closed[d] = NoClose
    /\ LET resource == GetManagedGPUResourceForUpdate IN
       IF resource = NoRow THEN ~ManagedGPUServiceExists
       ELSE resource.digest = p /\ resource.by \in {Null, d}

\* ManagedExecutionFacts: the CREATE left its payload.
ExecutionUnknown == row.saved # Null

CloseState ==
    IF ExecutionUnknown THEN "unknown_execution"
    ELSE IF class = "cpu" THEN "complete" ELSE "pending"

\* A GPU that was never given out is sealed with no pods.
SealFirst(d) ==
    IF ~ExecutionUnknown /\ class = "gpu"
    THEN UpsertManagedGPUReleaseScope(d, [sealed |-> TRUE, pods |-> {}])
    ELSE UNCHANGED scope

\* acceptManagedDelete of a service that does not exist (yet)
DeleteFirst(d, p) ==
    /\ service = "absent"
    /\ DeleteIntake(d, p)
    /\ row' = SetManagedGPUClosing(InsertManagedGPUResource(row, p), d)
    /\ SetManagedCloseState(d, CloseState)
    /\ SealFirst(d)
    /\ UNCHANGED <<class, created, prepared, work, proc, cluster, told, faults>>

\* acceptManagedDelete: the active operation is cancelled and loses its lease.
DeleteService(d, p) ==
    /\ service \in {"running", "stopped"}
    /\ DeleteIntake(d, p)
    /\ row' = SetManagedGPUClosing(row, d)
    /\ closed' = [closed EXCEPT ![d].state = "normal"]
    /\ service' = "deleted"
    /\ op' = Operation("delete", d)
    /\ leased' = (leased /\ op.step = "complete")
    /\ UNCHANGED <<class, created, prepared, scope, proc, cluster, told, faults>>

\* Command and Update of a managed service
Command(kind) ==
    /\ op.step = "complete" /\ op.num < MaxOps - 1
    /\ kind # "stop" => row.by = Null
    /\ CASE kind = "start" -> service = "stopped"
         [] kind = "restart" -> service \in {"running", "stopped"}
         [] OTHER -> service = "running"
    /\ service' = IF kind = "stop" THEN "stopped" ELSE "running"
    /\ op' = Operation(kind, Null)
    /\ UNCHANGED <<commands, leased, scope, proc, cluster, told, faults>>

-----------------------------------------------------------------------------
(* The process *)

At(label) == proc.at = label
Goto(label) == proc' = [proc EXCEPT !.at = label]

\* ClaimResourceWork and CurrentOperation: the context carries the scope that
\* is kept under the CREATE.
Claim ==
    /\ At("idle") /\ op.step # "complete" /\ ~leased
    /\ leased' = TRUE
    /\ proc' = [at |-> IF op.step = "release_quota" THEN "release_quota" ELSE "source",
                job |-> "work", op |-> op,
                sealed |-> GetManagedGPUReleaseScope(Create).sealed,
                pods |-> GetManagedGPUReleaseScope(Create).pods]
    /\ UNCHANGED <<commands, service, op, scope, cluster, told, faults>>

\* The WHERE clauses of the tables a step writes
Fence == leased /\ op = proc.op

\* A step failed: the lease is given back, if it is still held.
GiveBack ==
    /\ proc' = Idle
    /\ IF proc.job = "work"
       THEN leased' = FALSE /\ UNCHANGED closed
       ELSE /\ UNCHANGED leased
            /\ closed' = [closed EXCEPT ![proc.op.by].due = ~closed[proc.op.by].lease,
                                        ![proc.op.by].lease = FALSE]

Retry ==
    /\ At("retry")
    /\ GiveBack
    /\ UNCHANGED <<class, row, created, prepared, service, op, scope, cluster, told, faults>>

\* Every call on the cluster begins by reading the desired generation.
CurrentRuntime ==
    /\ At("source")
    /\ Goto(IF op.num = proc.op.num THEN proc.op.step ELSE "retry")
    /\ UNCHANGED <<commands, work, scope, cluster, told, faults>>

\* applyCR: an object that is there must be the one the control binding names.
ApplyCR ==
    /\ At("apply_cr")
    /\ IF cr = "unbound"
       THEN Goto("retry") /\ UNCHANGED cr
       ELSE Goto("bind_cr") /\ cr' = IF cr = "absent" THEN "unbound" ELSE cr
    /\ UNCHANGED <<commands, work, scope, runtime, bound, pods, uids, told, faults>>

\* UpsertRuntimeBinding of the role control, which no lease fences
BindCR ==
    /\ At("bind_cr")
    /\ cr' = "bound"
    /\ Goto("advance")
    /\ UNCHANGED <<commands, work, scope, runtime, bound, pods, uids, told, faults>>

\* The KServe object is there, and no binding names its UID.
Unbound == runtime # "absent" /\ ~bound

\* applyKServe up to Patch: an object that is there must be the one the newest
\* binding names, and not be deleted.
ApplyRuntime ==
    /\ At("apply_runtime")
    /\ IF Unbound \/ runtime = "deleting"
       THEN Goto("retry") /\ UNCHANGED runtime
       ELSE Goto("bind_runtime") /\ runtime' = "present"
    /\ UNCHANGED <<commands, work, scope, cr, bound, pods, uids, told, faults>>

\* applyKServe after Patch: UpsertRuntimeBinding, which no lease fences
BindRuntime ==
    /\ At("bind_runtime")
    /\ bound' = TRUE
    /\ Goto("advance")
    /\ UNCHANGED <<commands, work, scope, cr, runtime, pods, uids, told, faults>>

\* ObserveRuntime and SaveRuntimeObservation.  What was read of the pods goes
\* into the context until it is saved.
ObserveRuntime ==
    /\ At("observe_runtime")
    /\ IF Fence /\ runtime = "present" /\ bound
       THEN proc' = [proc EXCEPT !.at = "save_pods", !.pods = pods]
       ELSE Goto("retry")
    /\ UNCHANGED <<commands, work, scope, cluster, told, faults>>

\* SaveManagedGPUReleasePods under the CREATE, whoever holds the lease; the
\* runtime is ready or not.
SavePods ==
    /\ At("save_pods")
    /\ IF class = "gpu"
       THEN LET existing == GetManagedGPUReleaseScope(Create) IN
            UpsertManagedGPUReleaseScope(Create, [existing EXCEPT !.pods = @ \cup proc.pods])
       ELSE UNCHANGED scope
    /\ Goto("advance") \/ Goto("retry")
    /\ UNCHANGED <<commands, work, cluster, told, faults>>

\* KServeRuntimeExecutor.DeleteRuntime: an object that no binding names is
\* neither adopted nor deleted, and the step is tried again.
DeleteRuntime ==
    /\ At("delete_runtime")
    /\ runtime' = IF runtime = "present" /\ bound THEN "deleting" ELSE runtime
    /\ Goto(IF Unbound THEN "retry" ELSE "advance")
    /\ UNCHANGED <<commands, work, scope, cr, bound, pods, uids, told, faults>>

\* requireManagedGPUPodsGone
PodsGone == class = "gpu" => pods = {}

\* ObserveAbsence and SaveRuntimeObservation
ObserveAbsence ==
    /\ At("observe_absence")
    /\ Goto(IF runtime = "absent" /\ PodsGone /\ Fence THEN "seal" ELSE "retry")
    /\ UNCHANGED <<commands, work, scope, cluster, told, faults>>

\* The absence is sealed under the CREATE, unless it was sealed before.
Seal ==
    /\ At("seal")
    /\ IF class = "gpu"
       THEN LET existing == GetManagedGPUReleaseScope(Create) IN
            UpsertManagedGPUReleaseScope(Create, [existing EXCEPT !.sealed = TRUE])
       ELSE UNCHANGED scope
    /\ Goto("advance")
    /\ UNCHANGED <<commands, work, cluster, told, faults>>

\* DeleteCR: the object must be the one its control binding names.
DeleteCR ==
    /\ At("delete_cr")
    /\ cr' = IF cr = "bound" THEN "absent" ELSE cr
    /\ Goto(IF cr = "unbound" THEN "retry" ELSE "advance")
    /\ UNCHANGED <<commands, work, scope, runtime, bound, pods, uids, told, faults>>

\* runStep for release_quota, of a GPU that is deleted and of all others
ReleaseQuota ==
    /\ At("release_quota")
    /\ Goto(IF class = "gpu" /\ proc.op.kind = "delete" THEN "load_report" ELSE "advance")
    /\ UNCHANGED <<commands, work, scope, cluster, told, faults>>

\* stepWithAudit; a delete that succeeds sets deleted_at
Advance ==
    /\ At("advance") /\ proc.job = "work"
    /\ op' = IF Fence THEN [op EXCEPT !.step = NextStep(op.kind, op.step)] ELSE op
    /\ leased' = FALSE
    /\ proc' = Idle
    /\ UNCHANGED <<commands, service, scope, cluster, told, faults>>

-----------------------------------------------------------------------------
(* RunManagedCloses *)

\* ClaimManagedClose and LoadRefundContext
ClaimClose(d) ==
    /\ At("idle")
    /\ closed[d].state = "pending" /\ closed[d].due /\ ~closed[d].lease
    /\ closed' = [closed EXCEPT ![d].lease = TRUE]
    /\ proc' = [Idle EXCEPT !.at = "close_scope", !.job = "close", !.op.by = d, !.op.kind = "delete"]
    /\ UNCHANGED <<class, row, created, prepared, work, scope, cluster, told, faults>>

\* The close needs the seal written with its DELETE.
CloseScope ==
    /\ At("close_scope")
    /\ LET found == GetManagedGPUReleaseScope(proc.op.by) IN
       proc' = [proc EXCEPT !.at = IF found.sealed THEN "load_report" ELSE "retry",
                            !.sealed = found.sealed, !.pods = found.pods]
    /\ UNCHANGED <<commands, work, scope, cluster, told, faults>>

CompleteManagedClose ==
    /\ At("advance") /\ proc.job = "close"
    /\ closed' = [closed EXCEPT ![proc.op.by] =
                     IF @.lease THEN [@ EXCEPT !.state = "complete", !.lease = FALSE] ELSE @]
    /\ proc' = Idle
    /\ UNCHANGED <<class, row, created, prepared, work, scope, cluster, told, faults>>

-----------------------------------------------------------------------------
(* ReleaseManagedGPU, for an operation or a close *)

\* LoadRefundContext: the DELETE that closes the resource
ClosedBy == row.by

\* NewReleaseProof: the evidence names the recorded pods.
Evidence == proc.pods

\* A saved report is sent again as it is; a new one needs the seal.
LoadReport ==
    /\ At("load_report")
    /\ Goto(IF ClosedBy # proc.op.by THEN "retry"
            ELSE IF closed[proc.op.by].report # Null THEN "send"
            ELSE IF proc.sealed THEN "save_report" ELSE "retry")
    /\ UNCHANGED <<commands, work, scope, cluster, told, faults>>

\* SaveManagedReleaseReport: both kinds of leases are checked by the write.
ReportFence ==
    /\ ClosedBy = proc.op.by /\ closed[proc.op.by].report \in {Null, Evidence}
    /\ \/ proc.job = "close" /\ closed[proc.op.by].state = "pending" /\ closed[proc.op.by].lease
       \/ /\ proc.job = "work" /\ closed[proc.op.by].state = "normal"
          /\ leased /\ op.by = proc.op.by /\ service = "deleted"

\* Mutant: the report is sent before it is saved.
SaveReportLater ==
    /\ At("save_report")
    /\ Goto(IF ReportFence THEN "send" ELSE "retry")
    /\ UNCHANGED <<commands, work, scope, cluster, told, faults>>

SaveReport ==
    /\ At("save_report")
    /\ IF ReportFence
       THEN closed' = [closed EXCEPT ![proc.op.by].report = Evidence] /\ Goto("send")
       ELSE UNCHANGED closed /\ Goto("retry")
    /\ UNCHANGED <<class, row, created, prepared, work, scope, cluster, told, faults>>

\* ReportResourceReleased; the event id is derived from the DELETE.
Send ==
    /\ At("send")
    /\ told' = told \cup {proc.op.by}
    /\ Goto("advance")
    /\ UNCHANGED <<commands, work, scope, cluster, faults>>

-----------------------------------------------------------------------------
(* The cluster, time and failures *)

\* The workload controllers start a pod, also while they are being deleted.
PodStarts ==
    /\ runtime # "absent" /\ class = "gpu" /\ uids < MaxPods
    /\ uids' = uids + 1
    /\ pods' = pods \cup {uids'}
    /\ UNCHANGED <<commands, work, scope, proc, cr, runtime, bound, told, faults>>

PodEnds ==
    /\ \E uid \in pods : pods' = pods \ {uid}
    /\ UNCHANGED <<commands, work, scope, proc, cr, runtime, bound, uids, told, faults>>

\* The workload objects are gone, their pods perhaps not.
Vanish ==
    /\ runtime = "deleting"
    /\ runtime' = "absent" /\ bound' = FALSE
    /\ UNCHANGED <<commands, work, scope, proc, cr, pods, uids, told, faults>>

\* A lease runs out that no running process holds.
LeaseLapses ==
    /\ At("idle")
    /\ leased \/ \E d \in Deletes : closed[d].lease
    /\ leased' = FALSE
    /\ closed' = [d \in Deletes |-> [closed[d] EXCEPT !.lease = FALSE]]
    /\ UNCHANGED <<class, row, created, prepared, service, op, scope, proc, cluster, told, faults>>

\* retry_at of a close passes.
RetryDue ==
    /\ \E d \in Deletes : ~closed[d].due /\ closed' = [closed EXCEPT ![d].due = TRUE]
    /\ UNCHANGED <<class, row, created, prepared, work, scope, proc, cluster, told, faults>>

Fault == faults < MaxFaults /\ faults' = faults + 1

\* The call or write under way fails; Governance may have heard.
CallFails ==
    /\ Fault
    /\ ~At("idle") /\ ~At("retry")
    /\ told' \in IF At("send") THEN {told, told \cup {proc.op.by}} ELSE {told}
    /\ Goto("retry")
    /\ UNCHANGED <<commands, work, scope, cluster>>

Crash ==
    /\ Fault
    /\ ~At("idle")
    /\ told' \in IF At("send") THEN {told, told \cup {proc.op.by}} ELSE {told}
    /\ proc' = Idle
    /\ UNCHANGED <<commands, work, scope, cluster>>

\* The process is slower than its lease.
LeaseOutlived ==
    /\ Fault
    /\ ~At("idle")
    /\ leased' = FALSE
    /\ closed' = [d \in Deletes |-> [closed[d] EXCEPT !.lease = FALSE]]
    /\ UNCHANGED <<class, row, created, prepared, service, op, scope, proc, cluster, told>>

ProcessStep ==
    \/ Claim \/ CurrentRuntime \/ ApplyCR \/ BindCR \/ ApplyRuntime \/ BindRuntime
    \/ ObserveRuntime \/ SavePods \/ DeleteRuntime \/ ObserveAbsence \/ Seal \/ DeleteCR
    \/ ReleaseQuota \/ Advance \/ Retry
    \/ \E d \in Deletes : ClaimClose(d)
    \/ CloseScope \/ CompleteManagedClose
    \/ LoadReport \/ SaveReport \/ Send

ManagedNext ==
    \/ ProcessStep
    \/ \E p \in Payloads : PrepareCreate(p) \/ CreateService(p)
    \/ \E d \in Deletes, p \in Payloads : DeleteFirst(d, p) \/ DeleteService(d, p)
    \/ \E kind \in {"start", "stop", "restart", "update"} : Command(kind)
    \/ PodStarts \/ PodEnds \/ Vanish
    \/ LeaseLapses \/ RetryDue
    \/ CallFails \/ Crash \/ LeaseOutlived

ManagedSpec == ManagedInit /\ [][ManagedNext]_managedVars

\* The loop runs on every tick; time passes; deleted objects and their pods end.
ManagedFairSpec ==
    /\ ManagedSpec
    /\ WF_managedVars(ProcessStep)
    /\ WF_managedVars(LeaseLapses) /\ WF_managedVars(RetryDue)
    /\ WF_managedVars(Vanish) /\ WF_managedVars(PodEnds)

-----------------------------------------------------------------------------
(* Properties *)

\* When Governance was told of a release, or a DELETE that came first was closed,
\* the workload objects and every pod that may hold the GPU are gone, and
\* nothing brings them back: not a CREATE call that was under way, nor an
\* operation that lost its lease.
ReleasedHoldsNothing ==
    (\E d \in Deletes : d \in told \/ closed[d].state = "complete") =>
        runtime = "absent" /\ pods = {}

\* What Governance was told had been saved as the report of the one DELETE of
\* the resource, and the evidence saved with it names every pod ever recorded.
RefundIsProven ==
    \A d \in told : row.by = d /\ closed[d].report = scope[Create].pods

\* A process failed between applying an object and recording its binding.  No
\* step adopts or deletes that object.
Orphaned ==
    \/ cr = "unbound" /\ ~At("bind_cr")
    \/ Unbound /\ ~At("bind_runtime")

\* Every accepted DELETE is carried through: its operation or its close
\* completes, and for a GPU Governance is told, despite failures, crashes and
\* outlived leases.  The one exception is an object left without a binding: the
\* code refuses to delete it, so the DELETE is retried and the resource is held
\* until someone removes the object.
EveryDeleteSettles ==
    \A d \in Deletes :
        (closed[d].state # "none") ~>
            \/ /\ closed[d].state = "complete" \/ (op.by = d /\ op.step = "complete")
               /\ class = "gpu" => d \in told
            \/ Orphaned

=============================================================================
