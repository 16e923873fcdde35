----------------------------- MODULE Lifecycle -----------------------------
(***************************************************************************)
(* One inference service end to end: the commands, the durable work row,   *)
(* the operation journal, the process that runs the steps of an operation  *)
(* (Runner.runStep), and the systems the steps act on: the quota service,  *)
(* the service's custom resource, its model files, the KServe runtime      *)
(* object and the HTTPRoute that sends it traffic.                         *)
(*                                                                         *)
(* A single process executes operations, as the design document promises;  *)
(* it stops between any two external calls or database writes, so that     *)
(* commands, notifications, the clock and Kubernetes come in between, and  *)
(* it may fail or die at any of those points.                              *)
(***************************************************************************)
EXTENDS OperationJournal

CONSTANTS
    QuotaConfigured,  \* Runner.Quota is set
    ApplyMayBreak,    \* a failure may fall between applying a Kubernetes object
                      \* and writing its binding
    MaxFaults,        \* bound: failed calls, crashes, early lease losses
    MaxNotifications  \* bound: notifications of the controller

ASSUME LifecycleBounds ==
    /\ QuotaConfigured \in BOOLEAN /\ ApplyMayBreak \in BOOLEAN
    /\ MaxFaults \in Nat /\ MaxNotifications \in Nat
ASSUME OneProcess == \E w \in Workers : Workers = {w}

VARIABLES
    pc,        \* what the process does next
    item,      \* the generation of the claimed work item
    seen,      \* the runtime state read and not yet saved
    nextRun,   \* inference_resource_work.next_run_at: "due" or "later"
    notified,  \* dirty_version has passed the claimed version
    pub,       \* inference_publications by generation, or NoPublication
    obs,       \* inference_runtime_observations
    res,       \* state of the quota reservation of each generation
    remote,    \* what the quota service holds for each generation
    cr,        \* the custom resource
    model,     \* model files of each generation
    rt,        \* the KServe runtime object
    route,     \* the HTTPRoute of each generation
    faults, notifications

process == <<pc, item, seen>>
workRow == <<nextRun, notified>>
tables == <<pub, obs, res>>
cluster == <<cr, model, rt, route>>
bounds == <<faults, notifications>>
vars == <<journal, process, workRow, tables, remote, cluster, bounds>>

proc == CHOOSE w \in Workers : TRUE
Generations == 1 .. MaxOps
target == view[proc].id
kind == ops[target].kind

NoPublication == [desired |-> "none", observed |-> "withdrawn"]
NoRuntime == [st |-> "absent", gen |-> 0, bound |-> FALSE, ready |-> FALSE]

\* CreateService has just returned.
Init ==
    /\ JournalInit
    /\ pc = "idle" /\ item = 0 /\ seen = "none"
    /\ nextRun = "due" /\ notified = FALSE
    /\ pub = [g \in Generations |-> NoPublication]
    /\ obs = [gen |-> 0, phase |-> "pending", modelReady |-> FALSE]
    /\ res = [g \in Generations |-> IF g = 1 THEN "pending" ELSE "none"]
    /\ remote = [g \in Generations |-> "none"]
    /\ cr = [st |-> "absent", bound |-> FALSE]
    /\ model = [g \in Generations |-> "absent"]
    /\ rt = NoRuntime
    /\ route = [g \in Generations |-> "absent"]
    /\ faults = 0 /\ notifications = 0

At(label) == pc = label
Goto(label) == pc' = label

-----------------------------------------------------------------------------
(* Commands and the work row *)

\* UpsertResourceWork
MarkDirty ==
    /\ nextRun' = "due"
    /\ notified' = (pc # "idle")

\* Command and Update.  Those that lead to a running service write a pending
\* reservation for the new generation.
AcceptCommand(k) ==
    /\ Accept(k)
    /\ MarkDirty
    /\ res' = IF k = "stop" THEN res ELSE [res EXCEPT ![gen'] = "pending"]
    /\ UNCHANGED <<process, pub, obs, remote, cluster, bounds>>

Delete ==
    /\ AcceptDelete
    /\ MarkDirty
    /\ UNCHANGED <<process, tables, remote, cluster, bounds>>

\* The controller saw an event of one of the service's objects.
Notify ==
    /\ ~deleted
    /\ notifications < MaxNotifications
    /\ notifications' = notifications + 1
    /\ MarkDirty
    /\ UNCHANGED <<journal, process, tables, remote, cluster, faults>>

\* The row comes due.  A retried row carries the delay of the operation and
\* was written after it, so retry_at has passed by then.
RowElapses ==
    /\ nextRun = "later" /\ ~deleted
    /\ ~ops[current].waiting
    /\ nextRun' = "due"
    /\ UNCHANGED <<journal, process, notified, tables, remote, cluster, bounds>>

StepElapses ==
    /\ RetryElapsed
    /\ UNCHANGED <<process, workRow, tables, remote, cluster, bounds>>

\* ClaimResourceWork
Claim ==
    /\ At("idle")
    /\ nextRun = "due"
    /\ Lease(proc)
    /\ item' = gen
    /\ notified' = FALSE
    /\ Goto("load")
    /\ UNCHANGED <<seen, nextRun, tables, remote, cluster, bounds>>

\* Worker.RunOnce after Execute returned nil: CommitResourceWork
CommitFence == holder = proc /\ gen = item

Commit ==
    /\ At("commit")
    /\ IF CommitFence
       THEN /\ LeaseLost
            /\ nextRun' = IF deleted THEN "null" ELSE IF notified THEN "due" ELSE "later"
       ELSE UNCHANGED <<journal, nextRun>>
    /\ Goto("idle")
    /\ UNCHANGED <<item, seen, notified, tables, remote, cluster, bounds>>

\* Worker.RunOnce after Execute returned an error: RetryResourceWork
RetryWork ==
    /\ At("retry_work")
    /\ IF CommitFence /\ ~deleted
       THEN LeaseLost /\ nextRun' = "later"
       ELSE UNCHANGED <<journal, nextRun>>
    /\ Goto("idle")
    /\ UNCHANGED <<item, seen, notified, tables, remote, cluster, bounds>>

-----------------------------------------------------------------------------
(* What the steps read *)

Newest(g, S) == g \in S /\ \A h \in S : h <= g
Highest(S) == IF \E g \in S : Newest(g, S) THEN CHOOSE g \in S : Newest(g, S) ELSE 0

\* GetLatestPublication: the newest row up to the target, else the target's.
LatestRow == Highest({g \in 1 .. target : pub[g] # NoPublication})
PublicationGen ==
    IF view[proc].step = "publish" \/ LatestRow = 0 THEN target ELSE LatestRow

\* operationRuntime: the newest row is withdrawn, wanted and seen to be, or the
\* row the operation was loaded with was seen withdrawn.
PublicationWithdrawn == pub[PublicationGen].observed = "withdrawn"

Outstanding == {"pending", "reserved", "confirmed", "release_pending"}
ActiveReservation == Highest({g \in 1 .. target : res[g] \in Outstanding})
\* Mutant: the previous reservation is not looked up.
PreviousReservationIgnored == 0

PreviousReservation ==
    Highest({g \in 1 .. target - 1 : res[g] \in Outstanding \ {"pending"}})

\* RuntimeSpec.QuotaReserved, tested when RequireQuota is set
QuotaReserved == QuotaConfigured => res[ActiveReservation] = "confirmed"

\* The first thing a step does.
QuotaEntry ==
    IF ~QuotaConfigured \/ res[target] = "confirmed" THEN "advance"
    ELSE IF res[target] = "reserved" THEN "quota_confirm" ELSE "quota_get"

ReleaseEntry ==
    IF ActiveReservation = 0 THEN "advance"
    ELSE IF kind = "delete" /\ res[ActiveReservation] = "pending" THEN "release_save"
    ELSE IF QuotaConfigured THEN "quota_release" ELSE "advance"

StepEntry(step) ==
    CASE step \in {"admission", "resolve_gpu"} -> "ask"
      [] step = "reserve_quota" -> QuotaEntry
      [] step = "release_previous_quota" ->
            IF QuotaConfigured /\ PreviousReservation # 0 THEN "quota_release" ELSE "advance"
      [] step = "release_quota" -> ReleaseEntry
      [] step = "materialize_model" -> "model_mark"
      [] step = "withdraw_publication" -> "pub_withdrawing"
      [] step = "publish" -> "pub_publishing"
      [] OTHER -> "source"

-----------------------------------------------------------------------------
(* Runner.Execute *)

\* durableExecutor and Execute: what the lease holder finds decides.
LoadOperation ==
    /\ At("load")
    /\ IF holder = proc /\ gen = item
       THEN \/ /\ Load(proc)
               /\ IF ops[current].phase = "pending"
                  THEN Goto("claim") ELSE Goto("enter")
            \/ ~Active(current) /\ Goto("ensure") /\ UNCHANGED journal
       ELSE Goto("retry_work") /\ UNCHANGED journal
    /\ UNCHANGED <<item, seen, workRow, tables, remote, cluster, bounds>>

\* Execute: a pending operation is moved to running first.
ClaimStep ==
    /\ At("claim")
    /\ \/ Advance(proc, "running", view[proc].step) /\ view' # view /\ Goto("enter")
       \/ ~(CAS(proc) /\ ~ops[target].waiting) /\ Goto("retry_step") /\ UNCHANGED journal
    /\ UNCHANGED <<item, seen, workRow, tables, remote, cluster, bounds>>

EnterStep ==
    /\ At("enter")
    /\ Goto(StepEntry(view[proc].step))
    /\ UNCHANGED <<journal, item, seen, workRow, tables, remote, cluster, bounds>>

\* Every step that succeeds asks for the next one on the operation's path.
NextStep == OperationPaths[kind][StepIndex(kind, view[proc].step) + 1]
NextPhase == IF NextStep = "complete" THEN "succeeded" ELSE "running"

\* Mutant: the transition is written without its fence.
AdvanceStepUnfenced ==
    /\ At("advance")
    /\ ops' = [ops EXCEPT ![target] = [@ EXCEPT !.phase = NextPhase, !.step = NextStep]]
    /\ view' = [view EXCEPT ![proc] = NoView]
    /\ Goto("commit")
    /\ UNCHANGED <<current, gen, desired, deleted, holder>>
    /\ UNCHANGED <<item, seen, workRow, tables, remote, cluster, bounds>>

AdvanceStep ==
    /\ At("advance")
    /\ \/ Advance(proc, NextPhase, NextStep) /\ view' # view /\ Goto("commit")
       \/ ~CAS(proc) /\ Goto("retry_step") /\ UNCHANGED journal
    /\ UNCHANGED <<item, seen, workRow, tables, remote, cluster, bounds>>

\* Runner.retry
RetryOperation ==
    /\ At("retry_step")
    /\ IF CAS(proc) THEN RetryStep(proc) ELSE Forget(proc)
    /\ Goto("retry_work")
    /\ UNCHANGED <<item, seen, workRow, tables, remote, cluster, bounds>>

\* Admission.Admit and the accelerator service's plan
Ask ==
    /\ At("ask")
    /\ Goto("advance")
    /\ UNCHANGED <<journal, item, seen, workRow, tables, remote, cluster, bounds>>

\* CurrentRuntime: every call on the cluster begins by reading the desired
\* generation.
ClusterCall(step) ==
    CASE step = "apply_cr" -> "cr_patch"
      [] step = "materialize_model" -> "model_ensure"
      [] step = "apply_runtime" -> "rt_patch"
      [] step = "observe_runtime" -> "rt_observe"
      [] step = "delete_runtime" -> "rt_delete"
      [] step = "observe_absence" -> "rt_absence"
      [] step = "delete_cr" -> "cr_delete"
      [] step = "publish" -> "route_patch"

CurrentRuntime ==
    /\ At("source")
    /\ Goto(IF gen = target THEN ClusterCall(view[proc].step) ELSE "retry_step")
    /\ UNCHANGED <<journal, item, seen, workRow, tables, remote, cluster, bounds>>

\* The fences of the tables a step writes.
OperationFence == holder = proc /\ current = target
ObservationFence == holder = proc /\ gen = target

-----------------------------------------------------------------------------
(* reserve_quota, release_previous_quota, release_quota *)

QuotaGet ==
    /\ At("quota_get")
    /\ Goto(CASE remote[target] = "confirmed" -> "quota_save"
              [] remote[target] = "reserved" -> "quota_confirm"
              [] OTHER -> "quota_reserve")
    /\ UNCHANGED <<journal, item, seen, workRow, tables, remote, cluster, bounds>>

QuotaReserve ==
    /\ At("quota_reserve")
    /\ remote' = [remote EXCEPT ![target] = "reserved"]
    /\ Goto("quota_confirm")
    /\ UNCHANGED <<journal, item, seen, workRow, tables, cluster, bounds>>

QuotaConfirm ==
    /\ At("quota_confirm")
    /\ remote' = [remote EXCEPT ![target] = "confirmed"]
    /\ Goto("quota_save")
    /\ UNCHANGED <<journal, item, seen, workRow, tables, cluster, bounds>>

\* The reservation a release step is about
Releasing ==
    IF view[proc].step = "release_previous_quota" THEN PreviousReservation ELSE ActiveReservation

QuotaRelease ==
    /\ At("quota_release")
    /\ remote' = [remote EXCEPT ![Releasing] = "released"]
    /\ Goto("release_save")
    /\ UNCHANGED <<journal, item, seen, workRow, tables, cluster, bounds>>

\* Confirm or Release reports an error; the service may have done it or not.
QuotaCallFails ==
    /\ At("quota_confirm") \/ At("quota_release")
    /\ faults < MaxFaults /\ faults' = faults + 1
    /\ IF At("quota_confirm")
       THEN remote' \in {remote, [remote EXCEPT ![target] = "confirmed"]} /\ Goto("reserved_save")
       ELSE remote' \in {remote, [remote EXCEPT ![Releasing] = "released"]} /\ Goto("pending_save")
    /\ UNCHANGED <<journal, item, seen, workRow, tables, cluster, notifications>>

\* SaveQuotaReservation, of g in the given state, on the way to next
SaveReservation(label, g, state, next) ==
    /\ At(label)
    /\ IF OperationFence
       THEN res' = [res EXCEPT ![g] = state] /\ Goto(next)
       ELSE UNCHANGED res /\ Goto("retry_step")
    /\ UNCHANGED <<journal, item, seen, workRow, pub, obs, remote, cluster, bounds>>

QuotaStep ==
    \/ QuotaGet \/ QuotaReserve \/ QuotaConfirm \/ QuotaRelease
    \/ SaveReservation("quota_save", target, "confirmed", "advance")
    \/ SaveReservation("reserved_save", target, "reserved", "retry_step")
    \/ SaveReservation("release_save", Releasing, "released", "advance")
    \/ SaveReservation("pending_save", Releasing, "release_pending", "retry_step")

-----------------------------------------------------------------------------
(* apply_cr, materialize_model, delete_cr *)

\* applyCR: an existing object must carry the UID of the binding.
CRPatch ==
    /\ At("cr_patch")
    /\ IF cr.st = "up" /\ ~cr.bound
       THEN Goto("retry_step") /\ UNCHANGED cr
       ELSE cr' = [cr EXCEPT !.st = "up"] /\ Goto("cr_bind")
    /\ UNCHANGED <<journal, item, seen, workRow, tables, remote, model, rt, route, bounds>>

\* UpsertRuntimeBinding is not tied to the lease.
CRBind ==
    /\ At("cr_bind")
    /\ cr' = [cr EXCEPT !.bound = TRUE]
    /\ Goto("advance")
    /\ UNCHANGED <<journal, item, seen, workRow, tables, remote, model, rt, route, bounds>>

CRDelete ==
    /\ At("cr_delete")
    /\ IF cr.st = "up" /\ ~cr.bound
       THEN Goto("retry_step") /\ UNCHANGED cr
       ELSE cr' = [cr EXCEPT !.st = "absent"] /\ Goto("model_cleanup")
    /\ UNCHANGED <<journal, item, seen, workRow, tables, remote, model, rt, route, bounds>>

\* MarkModelMaterializing and SaveModelObservation
SaveModel(label, ready, next) ==
    /\ At(label)
    /\ IF ObservationFence
       THEN obs' = [obs EXCEPT !.modelReady = ready] /\ Goto(next)
       ELSE UNCHANGED obs /\ Goto("retry_step")
    /\ UNCHANGED <<journal, item, seen, workRow, pub, res, remote, cluster, bounds>>

\* Mutant: a failed download is not reset.
ModelEnsureKeepsFailed ==
    /\ At("model_ensure")
    /\ model' = [model EXCEPT ![target] = IF @ = "absent" THEN "fetching" ELSE @]
    /\ Goto(IF model[target] = "ready" THEN "model_save" ELSE "retry_step")
    /\ UNCHANGED <<journal, item, seen, workRow, tables, remote, cr, rt, route, bounds>>

\* EnsureModel starts the download, restarts a failed one, or finds it done.
ModelEnsure ==
    /\ At("model_ensure")
    /\ model' = [model EXCEPT ![target] =
                    CASE @ = "absent" -> "fetching" [] @ = "failed" -> "absent" [] OTHER -> @]
    /\ Goto(IF model[target] = "ready" THEN "model_save" ELSE "retry_step")
    /\ UNCHANGED <<journal, item, seen, workRow, tables, remote, cr, rt, route, bounds>>

\* CleanupModel deletes the files of every generation, then looks again.
ModelCleanup ==
    /\ At("model_cleanup")
    /\ IF gen = target
       THEN /\ model' = [g \in Generations |->
                            IF model[g] = "absent" THEN "absent" ELSE "ending"]
            /\ Goto("model_absent")
       ELSE UNCHANGED model /\ Goto("retry_step")
    /\ UNCHANGED <<journal, item, seen, workRow, tables, remote, cr, rt, route, bounds>>

ModelAbsent ==
    /\ At("model_absent")
    /\ Goto(IF \A g \in Generations : model[g] = "absent" THEN "advance" ELSE "retry_step")
    /\ UNCHANGED <<journal, item, seen, workRow, tables, remote, cluster, bounds>>

ObjectStep ==
    \/ CRPatch \/ CRBind \/ CRDelete
    \/ SaveModel("model_mark", FALSE, "source")
    \/ ModelEnsure
    \/ SaveModel("model_save", TRUE, "advance")
    \/ ModelCleanup \/ ModelAbsent

-----------------------------------------------------------------------------
(* apply_runtime, observe_runtime, delete_runtime, observe_absence *)

\* applyKServe up to its Patch: an object that exists must carry the UID of
\* the binding and must not be terminating.
RuntimePatch ==
    /\ At("rt_patch")
    /\ IF QuotaReserved /\ (rt.st = "up" => rt.bound) /\ rt.st # "ending"
       THEN /\ rt' = [st |-> "up", gen |-> target, ready |-> FALSE,
                      bound |-> rt.st = "up" /\ rt.bound]
            /\ Goto("rt_bind")
       ELSE UNCHANGED rt /\ Goto("retry_step")
    /\ UNCHANGED <<journal, item, seen, workRow, tables, remote, cr, model, route, bounds>>

RuntimeBind ==
    /\ At("rt_bind")
    /\ rt' = [rt EXCEPT !.bound = TRUE]
    /\ Goto("advance")
    /\ UNCHANGED <<journal, item, seen, workRow, tables, remote, cr, model, route, bounds>>

\* observeKServe: an object of another generation or without our UID is an
\* error, a missing or terminating one is degraded.
RuntimeObserve ==
    /\ At("rt_observe")
    /\ IF rt.st = "up" /\ (~rt.bound \/ rt.gen # target)
       THEN Goto("retry_step") /\ UNCHANGED seen
       ELSE /\ seen' = IF rt.st = "up" /\ rt.ready THEN "ready" ELSE "degraded"
            /\ Goto("obs_save")
    /\ UNCHANGED <<journal, item, workRow, tables, remote, cluster, bounds>>

RuntimeDelete ==
    /\ At("rt_delete")
    /\ IF ~PublicationWithdrawn \/ (rt.st = "up" /\ ~rt.bound)
       THEN Goto("retry_step") /\ UNCHANGED rt
       ELSE /\ rt' = IF rt.st = "up" THEN [rt EXCEPT !.st = "ending"] ELSE rt
            /\ Goto("advance")
    /\ UNCHANGED <<journal, item, seen, workRow, tables, remote, cr, model, route, bounds>>

\* Mutant: a terminating runtime counts as absent.
RuntimeAbsenceEarly ==
    /\ At("rt_absence")
    /\ IF ~PublicationWithdrawn
       THEN Goto("retry_step") /\ UNCHANGED seen
       ELSE /\ seen' = IF rt.st = "up" THEN "degraded" ELSE "stopped"
            /\ Goto("obs_save")
    /\ UNCHANGED <<journal, item, workRow, tables, remote, cluster, bounds>>

RuntimeAbsence ==
    /\ At("rt_absence")
    /\ IF ~PublicationWithdrawn
       THEN Goto("retry_step") /\ UNCHANGED seen
       ELSE /\ seen' = IF rt.st = "absent" THEN "stopped" ELSE "degraded"
            /\ Goto("obs_save")
    /\ UNCHANGED <<journal, item, workRow, tables, remote, cluster, bounds>>

\* Mutant: the step goes on whatever was observed.
SaveObservationGoesOn ==
    /\ At("obs_save")
    /\ IF ObservationFence
       THEN obs' = [obs EXCEPT !.gen = target, !.phase = seen] /\ Goto("advance")
       ELSE UNCHANGED obs /\ Goto("retry_step")
    /\ seen' = "none"
    /\ UNCHANGED <<journal, item, workRow, pub, res, remote, cluster, bounds>>

\* SaveRuntimeObservation; the step goes on only with what it waits for.
SaveObservation ==
    /\ At("obs_save")
    /\ IF ObservationFence
       THEN /\ obs' = [obs EXCEPT !.gen = target, !.phase = seen]
            /\ Goto(IF seen = "stopped" \/ (seen = "ready" /\ obs.modelReady)
                    THEN "advance" ELSE "retry_step")
       ELSE UNCHANGED obs /\ Goto("retry_step")
    /\ seen' = "none"
    /\ UNCHANGED <<journal, item, workRow, pub, res, remote, cluster, bounds>>

RuntimeStep ==
    \/ RuntimePatch \/ RuntimeBind \/ RuntimeObserve
    \/ RuntimeDelete \/ RuntimeAbsence \/ SaveObservation

-----------------------------------------------------------------------------
(* withdraw_publication and publish *)

\* SavePublication: while a change is under way the observed phase stays.
SavePublication(label, state, next) ==
    /\ At(label)
    /\ IF OperationFence
       THEN /\ pub' = [pub EXCEPT ![PublicationGen] =
                         [desired |-> state,
                          observed |-> IF state \in {"publishing", "withdrawing"}
                                       THEN @.observed ELSE state]]
            /\ Goto(next)
       ELSE UNCHANGED pub /\ Goto("retry_step")
    /\ UNCHANGED <<journal, item, seen, workRow, obs, res, remote, cluster, bounds>>

\* Withdraw
RouteDelete ==
    /\ At("route_delete")
    /\ route' = [route EXCEPT ![PublicationGen] = IF @ = "absent" THEN @ ELSE "ending"]
    /\ Goto("route_gone")
    /\ UNCHANGED <<journal, item, seen, workRow, tables, remote, cr, model, rt, bounds>>

\* Mutant: the withdrawal is not confirmed.
RouteGoneUnconfirmed ==
    /\ At("route_gone")
    /\ Goto("pub_withdrawn")
    /\ UNCHANGED <<journal, item, seen, workRow, tables, remote, cluster, bounds>>

\* ConfirmWithdrawn
RouteGone ==
    /\ At("route_gone")
    /\ Goto(IF route[PublicationGen] = "absent" THEN "pub_withdrawn" ELSE "retry_step")
    /\ UNCHANGED <<journal, item, seen, workRow, tables, remote, cluster, bounds>>

\* Publish, after its CurrentRuntime
RoutePatch ==
    /\ At("route_patch")
    /\ IF route[target] = "ending"
       THEN UNCHANGED route /\ Goto("retry_step")
       ELSE route' = [route EXCEPT ![target] = "live"] /\ Goto("route_confirm")
    /\ UNCHANGED <<journal, item, seen, workRow, tables, remote, cr, model, rt, bounds>>

\* ConfirmPublished; a gateway that has not accepted the route is a StepFails.
RouteConfirm ==
    /\ At("route_confirm")
    /\ Goto("pub_published")
    /\ UNCHANGED <<journal, item, seen, workRow, tables, remote, cluster, bounds>>

PublicationStep ==
    \/ SavePublication("pub_withdrawing", "withdrawing", "route_delete")
    \/ RouteDelete \/ RouteGone
    \/ SavePublication("pub_withdrawn", "withdrawn", "advance")
    \/ SavePublication("pub_publishing", "publishing", "source")
    \/ RoutePatch \/ RouteConfirm
    \/ SavePublication("pub_published", "published", "advance")

-----------------------------------------------------------------------------
(* Between operations: Reconciler.Execute *)

\* Ensure applies the custom resource and the runtime it finds bound and
\* unchanged, or deletes the runtime that is gone already (Settled), and reports
\* what it sees.
Ensure ==
    /\ At("ensure")
    /\ IF gen = item
       THEN /\ seen' = IF desired = "stopped" THEN "stopped"
                       ELSE IF rt.ready THEN "ready" ELSE "degraded"
            /\ Goto("ensure_save")
       ELSE UNCHANGED seen /\ Goto("retry_work")
    /\ UNCHANGED <<journal, item, workRow, tables, remote, cluster, bounds>>

EnsureSave ==
    /\ At("ensure_save")
    /\ IF CommitFence
       THEN obs' = [obs EXCEPT !.gen = item, !.phase = seen] /\ Goto("commit")
       ELSE UNCHANGED obs /\ Goto("retry_work")
    /\ seen' = "none"
    /\ UNCHANGED <<journal, item, workRow, pub, res, remote, cluster, bounds>>

-----------------------------------------------------------------------------
(* Failures *)

\* Points between the apply of an object and the write of its binding
Unbound == {"cr_bind", "rt_bind"}

Breakable == pc \in Unbound => ApplyMayBreak

\* The call the process is about to make reports an error and has no effect.
\* (An error after the effect is the error of the call that follows.)
StepFails ==
    /\ pc \notin {"idle", "enter", "commit", "retry_step", "retry_work",
                  "quota_confirm", "quota_release"}
    /\ Breakable
    /\ faults < MaxFaults /\ faults' = faults + 1
    /\ seen' = "none"
    /\ Goto(IF pc \in {"load", "ensure", "ensure_save"} THEN "retry_work" ELSE "retry_step")
    /\ UNCHANGED <<journal, item, workRow, tables, remote, cluster, notifications>>

\* A transition of the operation commits but its answer is lost.
AnswerLost ==
    /\ UNCHANGED view
    /\ \/ At("claim") /\ Advance(proc, "running", view[proc].step)
       \/ At("advance") /\ Advance(proc, NextPhase, NextStep)
    /\ faults < MaxFaults /\ faults' = faults + 1
    /\ Goto("retry_step")
    /\ UNCHANGED <<item, seen, workRow, tables, remote, cluster, notifications>>

\* The process dies and starts again; what it held in memory is gone.
Crash ==
    /\ pc # "idle" /\ Breakable
    /\ faults < MaxFaults /\ faults' = faults + 1
    /\ Goto("idle") /\ seen' = "none"
    /\ view' = [view EXCEPT ![proc] = NoView]
    /\ UNCHANGED <<ops, current, gen, desired, deleted, holder>>
    /\ UNCHANGED <<item, workRow, tables, remote, cluster, notifications>>

\* lease_until passes: the lease of an attempt that is over, or of one that
\* takes too long.
OldLeaseExpires ==
    /\ At("idle")
    /\ LeaseLost
    /\ UNCHANGED <<process, workRow, tables, remote, cluster, bounds>>

LeaseExpires ==
    /\ pc # "idle"
    /\ LeaseLost
    /\ faults < MaxFaults /\ faults' = faults + 1
    /\ UNCHANGED <<process, workRow, tables, remote, cluster, notifications>>

-----------------------------------------------------------------------------
(* The cluster *)

\* The download Job ends.
ModelFetched ==
    /\ \E g \in Generations :
        model[g] = "fetching" /\ model' = [model EXCEPT ![g] = "ready"]
    /\ UNCHANGED <<journal, process, workRow, tables, remote, cr, rt, route, bounds>>

ModelFails ==
    /\ faults < MaxFaults /\ faults' = faults + 1
    /\ \E g \in Generations :
        model[g] = "fetching" /\ model' = [model EXCEPT ![g] = "failed"]
    /\ UNCHANGED <<journal, process, workRow, tables, remote, cr, rt, route, notifications>>

ModelVanishes ==
    /\ \E g \in Generations : model[g] = "ending"
    /\ model' = [g \in Generations |-> IF model[g] = "ending" THEN "absent" ELSE model[g]]
    /\ UNCHANGED <<journal, process, workRow, tables, remote, cr, rt, route, bounds>>

RuntimeReady ==
    /\ rt.st = "up" /\ ~rt.ready
    /\ rt' = [rt EXCEPT !.ready = TRUE]
    /\ UNCHANGED <<journal, process, workRow, tables, remote, cr, model, route, bounds>>

RuntimeVanishes ==
    /\ rt.st = "ending"
    /\ rt' = NoRuntime
    /\ UNCHANGED <<journal, process, workRow, tables, remote, cr, model, route, bounds>>

RouteVanishes ==
    /\ \E g \in Generations :
        route[g] = "ending" /\ route' = [route EXCEPT ![g] = "absent"]
    /\ UNCHANGED <<journal, process, workRow, tables, remote, cr, model, rt, bounds>>

-----------------------------------------------------------------------------
(* The specification *)

ProcessStep ==
    \/ LoadOperation \/ ClaimStep \/ EnterStep \/ AdvanceStep \/ RetryOperation
    \/ Ask \/ CurrentRuntime
    \/ QuotaStep \/ ObjectStep \/ RuntimeStep \/ PublicationStep
    \/ Ensure \/ EnsureSave
    \/ Commit \/ RetryWork

Failure == StepFails \/ QuotaCallFails \/ AnswerLost \/ Crash \/ LeaseExpires \/ ModelFails

Clock == RowElapses \/ StepElapses \/ OldLeaseExpires

Cluster == ModelFetched \/ ModelVanishes \/ RuntimeReady \/ RuntimeVanishes \/ RouteVanishes

Next ==
    \/ \E k \in Kinds : AcceptCommand(k)
    \/ Delete
    \/ Notify
    \/ Claim
    \/ ProcessStep
    \/ Failure
    \/ Clock
    \/ Cluster

Spec == Init /\ [][Next]_vars

\* The loop runs while the process does, the clock moves, and Kubernetes
\* finishes what it was asked to do.
Fairness ==
    /\ WF_vars(Claim) /\ WF_vars(ProcessStep)
    /\ WF_vars(RowElapses) /\ WF_vars(StepElapses) /\ WF_vars(OldLeaseExpires)
    /\ WF_vars(ModelFetched) /\ WF_vars(ModelVanishes)
    /\ WF_vars(RuntimeReady) /\ WF_vars(RuntimeVanishes) /\ WF_vars(RouteVanishes)

FairSpec == Spec /\ Fairness

-----------------------------------------------------------------------------
(* Properties *)

QuotaStates == Outstanding \cup {"none", "released"}

TypeOK ==
    /\ JournalTypeOK
    /\ item \in 0 .. MaxOps
    /\ seen \in {"none", "ready", "degraded", "stopped"}
    /\ nextRun \in {"due", "later", "null"} /\ notified \in BOOLEAN
    /\ \A g \in Generations :
        /\ pub[g].desired \in {"none", "publishing", "published", "withdrawing", "withdrawn"}
        /\ pub[g].observed \in {"published", "withdrawn"}
        /\ res[g] \in QuotaStates
        /\ remote[g] \in {"none", "reserved", "confirmed", "released"}
        /\ model[g] \in {"absent", "fetching", "ready", "failed", "ending"}
        /\ route[g] \in {"absent", "live", "ending"}
    /\ obs \in [gen : 0 .. MaxOps, phase : {"pending", "ready", "degraded", "stopped"},
                modelReady : BOOLEAN]
    /\ cr \in [st : {"absent", "up"}, bound : BOOLEAN]
    /\ rt \in [st : {"absent", "up", "ending"}, gen : 0 .. MaxOps,
               bound : BOOLEAN, ready : BOOLEAN]
    /\ faults \in 0 .. MaxFaults /\ notifications \in 0 .. MaxNotifications

\* The route of a generation exists only while the runtime of that generation
\* is up: a runtime is taken down only after its route is confirmed gone, and
\* a route is put up only for the runtime that was observed ready, whatever
\* fails, is retried or is overtaken by a delete in between
\* (withdraw_publication, delete_runtime, publish in runStep).
RouteHasRuntime ==
    \A g \in Generations : route[g] # "absent" => rt.st = "up" /\ rt.gen = g

\* Between operations the service has what its desired state asks for: running
\* means the bound custom resource, the runtime and the live route of the
\* desired generation and no other route; stopped means neither runtime nor
\* route.  Reconciler.Execute relies on it.  A service that is marked deleted
\* has no route, runtime, custom resource or model files left.
Settled ==
    /\ deleted =>
        /\ rt.st = "absent" /\ cr.st = "absent"
        /\ \A g \in Generations : route[g] = "absent" /\ model[g] = "absent"
    /\ ops[current].phase = "succeeded" /\ ~deleted =>
        /\ cr.st = "up" /\ cr.bound
        /\ desired = "running" =>
            /\ rt.st = "up" /\ rt.gen = gen /\ rt.bound
            /\ \A g \in Generations : (route[g] = "live") <=> g = gen
            /\ pub[gen] = [desired |-> "published", observed |-> "published"]
        /\ desired = "stopped" =>
            rt.st = "absent" /\ \A g \in Generations : route[g] = "absent"

\* A generation is published only on the observation, saved for that very
\* generation, of a ready runtime and a ready model: readiness left over from
\* an earlier generation never authorizes it (MarkModelMaterializingForWork).
PublishedWhenReady ==
    [][\A g \in Generations :
        pub'[g].observed = "published" /\ pub[g].observed # "published"
            => obs.gen = g /\ obs.phase = "ready" /\ obs.modelReady
               /\ model[g] = "ready"]_vars

\* A runtime is up only on confirmed quota of its own generation, and the quota
\* of an earlier generation is given back before that of the next is taken:
\* never are two held at once.
QuotaExclusive ==
    /\ QuotaConfigured /\ rt.st # "absent" => remote[rt.gen] = "confirmed"
    /\ \A g, h \in Generations :
        remote[g] \in {"reserved", "confirmed"} /\ remote[h] \in {"reserved", "confirmed"}
            => g = h

\* An object was made and never recorded: the binding was not written in the
\* pass that applied it (Apply).
Orphaned ==
    \/ cr.st = "up" /\ ~cr.bound /\ ~At("cr_bind")
    \/ rt.st = "up" /\ ~rt.bound /\ ~At("rt_bind")

\* Every accepted operation ends, by success or because a delete overtakes it,
\* unless one of its objects was applied and its binding lost.
OperationsEnd ==
    \A i \in Generations :
        (i <= Len(ops) /\ Active(i)) ~> (i <= Len(ops) /\ (~Active(i) \/ Orphaned))

\* Every accepted operation ends: it succeeds, or a delete overtakes it.
EveryOperationEnds ==
    \A i \in Generations :
        (i <= Len(ops) /\ Active(i)) ~> (i <= Len(ops) /\ ~Active(i))

\* "A create accepted a local placeholder before the quota provider was called.
\* Delete can overtake that create; there is no remote reservation to release
\* in this state." (release_quota in runStep)
CancelledPlaceholderIsLocal ==
    At("release_save") /\ kind = "delete" /\ res[Releasing] = "pending"
        => remote[Releasing] = "none"

\* A delete completes only when the associations with external systems are
\* released: no reservation of a deleted service is still on record as held.
DeletedHoldsNoQuota ==
    deleted => \A g \in Generations : res[g] \notin {"reserved", "confirmed", "release_pending"}

=============================================================================
