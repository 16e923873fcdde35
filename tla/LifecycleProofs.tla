-------------------------- MODULE LifecycleProofs --------------------------
(***************************************************************************)
(* The life of a service for any number of commands, faults and            *)
(* notifications: it implements the journal, and its routes, runtimes and  *)
(* quota stay in step.                                                     *)
(***************************************************************************)
EXTENDS Lifecycle, OperationJournalProofs

\* The leaves are given to Zenon; those that need arithmetic name SMT.
USE ZenonT(30)

-----------------------------------------------------------------------------
(* The inductive invariant: control *)

\* Outside Runner.Execute, or before and after it holds an operation.
RestLabels == {"idle", "load", "ensure", "ensure_save", "commit", "retry_work"}

\* Inside runStep, between two calls.
WorkLabels ==
    {"claim", "enter", "advance", "ask", "source",
     "quota_get", "quota_reserve", "quota_confirm", "quota_save", "reserved_save",
     "quota_release", "release_save", "pending_save",
     "cr_patch", "cr_bind", "cr_delete", "model_mark", "model_ensure", "model_save",
     "model_cleanup", "model_absent",
     "rt_patch", "rt_bind", "rt_observe", "rt_delete", "rt_absence", "obs_save",
     "pub_withdrawing", "route_delete", "route_gone", "pub_withdrawn",
     "pub_publishing", "route_patch", "route_confirm", "pub_published"}

Working == pc \in WorkLabels

\* Every label belongs to the step that is being run.
LabelOfStep(s) ==
    /\ pc = "ask" => s \in {"admission", "resolve_gpu"}
    /\ pc \in {"quota_get", "quota_reserve", "quota_confirm", "quota_save",
               "reserved_save"} => s = "reserve_quota" /\ QuotaConfigured
    /\ pc \in {"quota_release", "pending_save"} =>
        s \in {"release_previous_quota", "release_quota"} /\ QuotaConfigured
    /\ pc = "release_save" => s \in {"release_previous_quota", "release_quota"}
    /\ pc \in {"cr_patch", "cr_bind"} => s = "apply_cr"
    /\ pc \in {"cr_delete", "model_cleanup", "model_absent"} => s = "delete_cr"
    /\ pc \in {"model_mark", "model_ensure", "model_save"} => s = "materialize_model"
    /\ pc \in {"rt_patch", "rt_bind"} => s = "apply_runtime"
    /\ pc = "rt_observe" => s = "observe_runtime"
    /\ pc = "rt_delete" => s = "delete_runtime"
    /\ pc = "rt_absence" => s = "observe_absence"
    /\ pc = "obs_save" => s \in {"observe_runtime", "observe_absence"}
    /\ pc \in {"pub_withdrawing", "route_delete", "route_gone", "pub_withdrawn"} =>
        s = "withdraw_publication"
    /\ pc \in {"pub_publishing", "route_patch", "route_confirm", "pub_published"} =>
        s = "publish"
    /\ pc = "source" => s \in {"apply_cr", "materialize_model", "apply_runtime",
                               "observe_runtime", "delete_runtime", "observe_absence",
                               "delete_cr", "publish"}

\* The operation the process works on is the current one, as it was loaded, or
\* one that a delete has overtaken and that no one has worked on since.
Control ==
    /\ pc \in RestLabels \cup WorkLabels \cup {"retry_step"}
    /\ pc \in RestLabels <=> view[proc] = NoView
    /\ pc \notin RestLabels => target \in 1 .. Len(ops)
    /\ item <= gen
    /\ pc \in {"ensure", "ensure_save"} /\ gen = item => ~Active(current)
    /\ Working =>
        /\ ops[target].step = view[proc].step
        /\ ActiveStep(kind, view[proc].step)
        /\ view[proc].phase = (IF pc = "claim" THEN "pending" ELSE "running")
        /\ LabelOfStep(view[proc].step)
        /\ \/ current = target /\ Active(current) /\ ops[current].phase = view[proc].phase
           \/ /\ current = target + 1 /\ Active(current)
              /\ ops[current].kind = "delete"
              /\ ops[current].step = "withdraw_publication"

\* Only a delete ends an operation early, and its successor is then current.
CurrentGoesOn ==
    /\ ops[current].phase # "failed"
    /\ Active(current) => ActiveStep(ops[current].kind, ops[current].step)
    /\ Len(ops) <= MaxOps

-----------------------------------------------------------------------------
(* The inductive invariant: what a step finds and what it leaves behind *)

PublicationRows == [desired : {"none", "publishing", "published", "withdrawing", "withdrawn"},
                    observed : {"published", "withdrawn"}]
ModelStates == {"absent", "fetching", "ready", "failed", "ending"}
RouteStates == {"absent", "live", "ending"}
RemoteStates == {"none", "reserved", "confirmed", "released"}

LifecycleType ==
    /\ item \in 0 .. MaxOps
    /\ seen \in {"none", "ready", "degraded", "stopped"}
    /\ pub \in [Generations -> PublicationRows]
    /\ obs \in [gen : 0 .. MaxOps, phase : {"none", "pending", "ready", "degraded", "stopped"},
                modelReady : BOOLEAN]
    /\ res \in [Generations -> QuotaStates]
    /\ remote \in [Generations -> RemoteStates]
    /\ cr \in [st : {"absent", "up"}, bound : BOOLEAN]
    /\ model \in [Generations -> ModelStates]
    /\ rt \in [st : {"absent", "up", "ending"}, gen : 0 .. MaxOps,
               bound : BOOLEAN, ready : BOOLEAN]
    /\ route \in [Generations -> RouteStates]

Held(g) == remote[g] \in {"reserved", "confirmed"}
NoRoute == \A g \in Generations : route[g] = "absent"
RuntimeOf(t) == rt.st = "up" /\ rt.gen = t /\ rt.bound
ResourceBound == cr.st = "up" /\ cr.bound
NoModel == \A g \in Generations : model[g] = "absent"
Released == \A g \in Generations : ~Held(g)
OnlyHeld(t) == \A g \in Generations : Held(g) => g = t
Paid(t) == QuotaConfigured => res[t] = "confirmed" /\ remote[t] = "confirmed"

\* A route has the newest publication row, so that a withdrawal finds it.
RouteIsNewest ==
    \A g \in Generations : route[g] # "absent" =>
        /\ pub[g] # NoPublication
        /\ \A h \in Generations : h > g => pub[h] = NoPublication

\* Generations not yet reached have no rows.
RowsReached ==
    \A g \in Generations :
        /\ g > Len(ops) => pub[g] = NoPublication /\ res[g] = "none"
        /\ Working /\ g > target => pub[g] = NoPublication

QuotaUnused == ~QuotaConfigured => \A g \in Generations : remote[g] = "none"

Common ==
    /\ RouteHasRuntime
    /\ RouteIsNewest
    /\ RowsReached
    /\ QuotaExclusive
    /\ QuotaUnused

\* What holds from the moment operation t is at step s until it leaves it,
\* whatever part of the step has been done, perhaps more than once.
RuntimeBefore(t, s) ==
    /\ s \notin {"withdraw_publication", "publish"} => NoRoute
    /\ s \in {"admission", "release_previous_quota", "reserve_quota", "resolve_gpu",
              "apply_cr", "materialize_model", "delete_cr", "release_quota"} => rt.st = "absent"
    /\ s = "observe_absence" => rt.st # "up"
    /\ s = "apply_runtime" => rt.st = "absent" \/ (rt.st = "up" /\ rt.gen = t)
    /\ s \in {"observe_runtime", "publish"} => RuntimeOf(t)

ResourceBefore(k, s) ==
    /\ \/ k \in {"start", "update", "restart", "stop"}
       \/ k = "create" /\ s \in {"materialize_model", "apply_runtime", "observe_runtime",
                                 "publish"}
       => ResourceBound
    /\ k = "delete" /\ s = "release_quota" => cr.st = "absent" /\ NoModel

ReadyBefore(t, s) ==
    /\ s \in {"apply_runtime", "observe_runtime", "publish"} =>
        obs.modelReady /\ model[t] = "ready"
    /\ s = "publish" => obs.gen = t /\ obs.phase = "ready"

QuotaBefore(t, k, s) ==
    /\ k \in {"update", "restart", "stop"} /\
       s \in {"withdraw_publication", "delete_runtime", "observe_absence",
              "release_previous_quota", "release_quota"} =>
        \A g \in Generations : Held(g) =>
            g = t - 1 /\ res[g] \in {"reserved", "confirmed", "release_pending"}
    /\ k = "stop" => res[t] = "none"
    /\ k # "delete" /\ QuotaConfigured /\ res[t] = "confirmed" => remote[t] = "confirmed"
    /\ s \in {"admission", "reserve_quota", "resolve_gpu", "apply_cr", "materialize_model",
              "apply_runtime", "observe_runtime", "publish"} => OnlyHeld(t)
    /\ s \in {"resolve_gpu", "apply_cr", "materialize_model", "apply_runtime",
              "observe_runtime", "publish"} => Paid(t)

\* The step the process is running, and the step the current operation is at.
WorkBefore ==
    /\ RuntimeBefore(target, view[proc].step)
    /\ ResourceBefore(kind, view[proc].step)
    /\ ReadyBefore(target, view[proc].step)
    /\ QuotaBefore(target, kind, view[proc].step)

CurrentBefore ==
    /\ RuntimeBefore(current, ops[current].step)
    /\ ResourceBefore(ops[current].kind, ops[current].step)
    /\ ReadyBefore(current, ops[current].step)
    /\ QuotaBefore(current, ops[current].kind, ops[current].step)

\* What the process has done of the step when it is at pc.
Doing(t, k, s) ==
    /\ pc = "pub_withdrawn" => NoRoute
    /\ s = "publish" /\ pc \in {"source", "route_patch", "route_confirm", "pub_published"} =>
        pub[t] # NoPublication
    /\ pc \in {"route_confirm", "pub_published"} => route[t] = "live"
    /\ pc = "model_save" => model[t] = "ready"
    /\ pc = "rt_bind" => rt.st = "up" /\ rt.gen = t
    /\ pc = "cr_bind" => cr.st = "up"
    /\ pc \in {"model_cleanup", "model_absent"} => cr.st = "absent"
    /\ pc = "obs_save" /\ s = "observe_runtime" => seen \in {"ready", "degraded"}
    /\ pc = "obs_save" /\ s = "observe_absence" =>
        seen \in {"stopped", "degraded"} /\ (seen = "stopped" => rt.st = "absent")
    /\ pc \in {"quota_get", "quota_reserve"} => res[t] # "confirmed"
    /\ pc = "quota_save" => remote[t] = "confirmed"
    /\ pc = "release_save" /\ k # "delete" => Released

\* What a step has established when it asks for the next one.
Done(t, k, s) ==
    /\ s = "withdraw_publication" => NoRoute
    /\ s = "delete_runtime" => rt.st # "up"
    /\ s = "observe_absence" => rt.st = "absent"
    /\ s = "release_previous_quota" => Released
    /\ s = "reserve_quota" => Paid(t)
    /\ s = "apply_cr" => ResourceBound
    /\ s = "materialize_model" => obs.modelReady /\ model[t] = "ready"
    /\ s = "apply_runtime" => RuntimeOf(t)
    /\ s = "observe_runtime" => obs.gen = t /\ obs.phase = "ready"
    /\ s = "publish" => /\ route[t] = "live"
                        /\ pub[t] = [desired |-> "published", observed |-> "published"]
    /\ s = "delete_cr" => cr.st = "absent" /\ NoModel
    /\ s = "release_quota" /\ k = "stop" => Released

WorkDoing == Doing(target, kind, view[proc].step)
WorkDone == pc = "advance" => Done(target, kind, view[proc].step)

OnHand ==
    /\ Working => WorkBefore /\ WorkDoing /\ WorkDone
    /\ ~Working /\ Active(current) => CurrentBefore

\* What a finished operation leaves to the next command.
Rest ==
    ops[current].phase = "succeeded" =>
        /\ Settled
        /\ desired = "running" => Paid(gen) /\ OnlyHeld(gen)
        /\ desired = "stopped" => Released

LInv ==
    /\ JInv
    /\ CurrentGoesOn
    /\ Control
    /\ LifecycleType
    /\ Common
    /\ OnHand
    /\ Rest

-----------------------------------------------------------------------------
(* The journal *)

\* There is one process.
LEMMA TheProcess == proc \in Workers /\ Workers = {proc}
BY OneProcess DEF proc

\* A claim, a step or the end of an operation, as the process asks for it.
LEMMA ProcessAdvance ==
    ASSUME JInv, \/ Advance(proc, "running", view[proc].step)
                 \/ Advance(proc, NextPhase, NextStep)
    PROVE  Progress(proc)
<1>1. proc \in Workers /\ view \in [Workers -> [id : Nat, phase : Phases, step : Steps]]
  BY TheProcess DEF JInv, JournalTypeOK
<1>2. CASE Advance(proc, "running", view[proc].step)
  BY <1>1, <1>2 DEF Progress
<1>3. CASE Advance(proc, NextPhase, NextStep)
  <2>1. CAS(proc) /\ ActiveStep(kind, view[proc].step)
    BY <1>3 DEF Advance, ValidTransition, kind, target
  <2>2. kind \in Kinds
    BY <1>1, <2>1, CASCurrent DEF Operation, kind, target
  <2>3. NextStep \in Steps
    BY <2>1, <2>2, Successor DEF NextStep
  <2> QED
    BY <1>3, <2>3 DEF Progress, NextPhase
<1> QED
  BY <1>2, <1>3

\* Every step of the service is a step of its journal, or leaves it alone.
LEMMA NextJournal == JInv /\ [Next]_vars => [JournalNext]_journal
<1> SUFFICES ASSUME JInv, Next PROVE [JournalNext]_journal
  BY DEF vars
<1> USE TheProcess
<1>1. CASE \E k \in Kinds : AcceptCommand(k)
  BY <1>1 DEF AcceptCommand, JournalNext
<1>2. CASE Delete
  BY <1>2 DEF Delete, JournalNext
<1>3. CASE Notify \/ Cluster
  BY <1>3 DEF Notify, Cluster, ModelFetched, ModelVanishes, RuntimeReady, RuntimeVanishes,
     RouteVanishes
<1>4. CASE Claim
  BY <1>4 DEF Claim, JournalNext
<1>5. CASE LoadOperation
  BY <1>5 DEF LoadOperation, JournalNext
<1>6. CASE ClaimStep \/ AdvanceStep
  BY <1>6, ProcessAdvance DEF ClaimStep, AdvanceStep, JournalNext
<1>7. CASE RetryOperation
  BY <1>7 DEF RetryOperation, JournalNext
<1>8. CASE EnterStep \/ Ask \/ CurrentRuntime \/ Ensure \/ EnsureSave
  BY <1>8 DEF EnterStep, Ask, CurrentRuntime, Ensure, EnsureSave
<1>9. CASE QuotaStep \/ ObjectStep
  BY <1>9 DEF QuotaStep, QuotaGet, QuotaReserve, QuotaConfirm, QuotaRelease,
     SaveReservation,
     ObjectStep, CRPatch, CRBind, CRDelete, SaveModel, ModelEnsure, ModelCleanup, ModelAbsent
<1>10. CASE RuntimeStep \/ PublicationStep
  BY <1>10 DEF RuntimeStep, RuntimePatch, RuntimeBind, RuntimeObserve, RuntimeDelete,
     RuntimeAbsence, SaveObservation, PublicationStep, SavePublication, RouteDelete, RouteGone,
     RoutePatch, RouteConfirm
<1>11. CASE Commit \/ RetryWork
  BY <1>11 DEF Commit, RetryWork, JournalNext
<1>12. CASE Failure
  <2>1. CASE Crash
    <3>1. CASE view[proc] = NoView
      <4>1. view' = view
        BY <2>1, <3>1 DEF Crash, JInv, JournalTypeOK
      <4> QED
        BY <2>1, <4>1 DEF Crash, journal
    <3>2. CASE view[proc] # NoView
      BY <2>1, <3>2 DEF Crash, Forget, JournalNext
    <3> QED
      BY <3>1, <3>2
  <2>2. CASE AnswerLost
    BY <2>2, ProcessAdvance DEF AnswerLost, JournalNext
  <2>3. CASE StepFails \/ QuotaCallFails \/ ModelFails
    BY <2>3 DEF StepFails, QuotaCallFails, ModelFails
  <2>4. CASE LeaseExpires
    BY <2>4 DEF LeaseExpires, JournalNext
  <2> QED
    BY <1>12, <2>1, <2>2, <2>3, <2>4 DEF Failure
<1>13. CASE Clock
  BY <1>13 DEF Clock, RowElapses, StepElapses, OldLeaseExpires, JournalNext
<1> QED
  BY <1>1, <1>2, <1>3, <1>4, <1>5, <1>6, <1>7, <1>8, <1>9, <1>10, <1>11, <1>12, <1>13
     DEF Next, ProcessStep

\* The service implements its journal: whatever the runner, the reconciler,
\* crashes, lost answers and expired leases do, the rows of
\* inference_operations change as OperationJournal says (operation_store.go).
THEOREM ImplementsJournal == Spec => JournalSpec
<1>1. Init => JournalInit
  BY DEF Init
<1>2. Init => JInv
  BY <1>1, InitJInv
<1>3. JInv /\ [Next]_vars => JInv' /\ [JournalNext]_journal
  BY NextJournal, NextJInv
<1> QED
  BY <1>1, <1>2, <1>3, PTL DEF Spec, JournalSpec

-----------------------------------------------------------------------------
(* What is known while a step runs *)

\* The newest of some generations, when it is known.
LEMMA HighestIs ==
    ASSUME NEW S \in SUBSET Nat, NEW g \in S, \A h \in S : h <= g
    PROVE  Highest(S) = g
<1>1. Newest(g, S) /\ \A f \in S : Newest(f, S) => f = g
  BY SMTT(15) DEF Newest
<1> QED
  BY <1>1 DEF Highest

\* Otherwise it is one of them, or none.
LEMMA HighestRange ==
    ASSUME NEW n \in Nat, NEW S \in SUBSET (1 .. n)
    PROVE  Highest(S) \in S \cup {0} /\ Highest(S) \in 0 .. n
<1> DEFINE h == Highest(S)
<1>1. h \in S \/ h = 0
  BY DEF Highest
<1> HIDE DEF h
<1>2. h \in S \cup {0}
  BY <1>1
<1>3. h \in S => h \in 1 .. n
  OBVIOUS
<1>4. h \in 0 .. n
  BY <1>1, <1>3, SMTT(15)
<1> QED
  BY <1>2, <1>4 DEF h

\* The operation on hand.
LEMMA Situation ==
    ASSUME LInv, Working
    PROVE  /\ target \in 1 .. Len(ops) /\ target \in Generations
           /\ current \in 1 .. Len(ops) /\ current \in Generations /\ Active(current)
           /\ Len(ops) \in Nat /\ Len(ops) <= MaxOps /\ MaxOps \in Nat
           /\ ops[target] \in Operation /\ kind \in Kinds
           /\ view[proc].step \in Steps \ {"complete"}
           /\ \E n : ComesAfter(kind, view[proc].step, n)
           /\ view[proc] # NoView
<1>1. ops \in Seq(Operation) /\ current = Len(ops) /\ Len(ops) >= 1
  BY DEF LInv, JInv, JournalTypeOK, ActiveIsCurrent
<1>2. Len(ops) <= MaxOps /\ MaxOps \in Nat
  BY JournalBounds DEF LInv, CurrentGoesOn
<1>3. pc \notin RestLabels /\ pc \in WorkLabels
  BY DEF Working, WorkLabels, RestLabels
<1>4. /\ target \in 1 .. Len(ops) /\ Active(current) /\ ActiveStep(kind, view[proc].step)
      /\ view[proc] # NoView
  BY <1>3 DEF LInv, Control, Working
<1>5. ops[target] \in Operation /\ kind \in Kinds
  <2>1. ops[target] \in Operation
    BY <1>1, <1>4, SMTT(15)
  <2> QED
    BY <2>1 DEF Operation, kind
<1>6. view[proc].step \in Steps \ {"complete"}
  BY <1>4, <1>5, ActiveStepPlace
<1>7. \E n : ComesAfter(kind, view[proc].step, n)
  BY <1>4, <1>5, Successor
<1> QED
  BY <1>1, <1>2, <1>4, <1>5, <1>6, <1>7, SMTT(15) DEF Generations

\* Whatever the process is doing, the current operation finds what its step
\* needs: it is the one on hand, or a delete that has not begun.
LEMMA CurrentReady ==
    ASSUME LInv, Active(current)
    PROVE  CurrentBefore
<1>1. CASE ~Working
  BY <1>1 DEF LInv, OnHand
<1>2. CASE Working /\ current = target
  <2>1. ops[current].step = view[proc].step /\ kind = ops[current].kind
    BY <1>2 DEF LInv, Control, kind
  <2>2. WorkBefore
    BY <1>2 DEF LInv, OnHand
  <2> QED
    BY <1>2, <2>1, <2>2 DEF WorkBefore, CurrentBefore
<1>3. CASE Working /\ current # target
  <2>1. ops[current].kind = "delete" /\ ops[current].step = "withdraw_publication"
    BY <1>3 DEF LInv, Control
  <2> QED
    BY <2>1 DEF CurrentBefore, RuntimeBefore, ResourceBefore, ReadyBefore, QuotaBefore
<1> QED
  BY <1>1, <1>2, <1>3

\* The journal's invariant does not depend on the rest.
LEMMA JournalKept == JInv /\ UNCHANGED journal => JInv'
BY NextJInv

\* What a step found of the runtime and the routes holds while they stay.
LEMMA RuntimeFrame ==
    ASSUME UNCHANGED journal, UNCHANGED <<rt, route>>
    PROVE  /\ RuntimeBefore(target, view[proc].step) => RuntimeBefore(target, view[proc].step)'
           /\ RuntimeBefore(current, ops[current].step) => RuntimeBefore(current, ops[current].step)'
BY DEF journal, RuntimeBefore, NoRoute, RuntimeOf, target

\* The same for the custom resource and the model files,
LEMMA ResourceFrame ==
    ASSUME UNCHANGED journal, UNCHANGED <<cr, model>>
    PROVE  /\ ResourceBefore(kind, view[proc].step) => ResourceBefore(kind, view[proc].step)'
           /\ ResourceBefore(ops[current].kind, ops[current].step) =>
                ResourceBefore(ops[current].kind, ops[current].step)'
BY DEF journal, ResourceBefore, ResourceBound, NoModel, target, kind

\* for the recorded readiness,
LEMMA ReadyFrame ==
    ASSUME UNCHANGED journal, UNCHANGED <<obs, model>>
    PROVE  /\ ReadyBefore(target, view[proc].step) => ReadyBefore(target, view[proc].step)'
           /\ ReadyBefore(current, ops[current].step) => ReadyBefore(current, ops[current].step)'
BY DEF journal, ReadyBefore, target

\* and for the reservations.
LEMMA QuotaFrame ==
    ASSUME UNCHANGED journal, UNCHANGED <<res, remote>>
    PROVE  /\ QuotaBefore(target, kind, view[proc].step) =>
                QuotaBefore(target, kind, view[proc].step)'
           /\ QuotaBefore(current, ops[current].kind, ops[current].step) =>
                QuotaBefore(current, ops[current].kind, ops[current].step)'
BY DEF journal, QuotaBefore, OnlyHeld, Held, Paid, target, kind

\* The shared facts hold while the rows, the runtime and the routes stay.
LEMMA CommonFrame ==
    ASSUME Common, UNCHANGED journal, UNCHANGED <<pub, res, remote, rt, route>>,
           Working' => Working
    PROVE  Common'
BY DEF journal, Common, RouteHasRuntime, RouteIsNewest, RowsReached, QuotaExclusive,
   QuotaUnused, target

\* A step of runStep keeps the invariant when it keeps what its step found,
\* has done what its label says, and the shared facts still hold.
LEMMA StepLInv ==
    ASSUME LInv, Working, UNCHANGED journal, item' = item,
           pc' \in WorkLabels \cup {"retry_step"}, pc' # "claim",
           pc = "claim" => pc' = "retry_step",
           LifecycleType', Common', WorkBefore',
           pc' \in WorkLabels => LabelOfStep(view[proc].step)' /\ WorkDoing' /\ WorkDone'
    PROVE  LInv'
<1>1. JInv'
  BY JournalKept DEF LInv
<1>2. CurrentGoesOn'
  BY DEF journal, LInv, CurrentGoesOn, Active
<1>3. /\ target' = target /\ kind' = kind /\ Active(current)' = Active(current)
      /\ UNCHANGED <<ops, current, gen, desired, deleted, view>>
  BY DEF journal, target, kind, Active
<1>4. pc \notin RestLabels /\ pc' \notin RestLabels /\ pc' \notin {"ensure", "ensure_save"}
  BY DEF Working, WorkLabels, RestLabels
<1>5. Control'
  <2>1. pc' \in RestLabels \cup WorkLabels \cup {"retry_step"}
    OBVIOUS
  <2>2. (pc \in RestLabels <=> view[proc] = NoView)'
    BY <1>3, <1>4 DEF LInv, Control
  <2>3. (pc \notin RestLabels => target \in 1 .. Len(ops))' /\ (item <= gen)'
    BY <1>3, <1>4 DEF LInv, Control
  <2>4. ASSUME Working'
        PROVE  /\ (ops[target].step = view[proc].step)'
               /\ (ActiveStep(kind, view[proc].step))'
               /\ (view[proc].phase = (IF pc = "claim" THEN "pending" ELSE "running"))'
               /\ \/ /\ (current = target)' /\ Active(current)'
                     /\ (ops[current].phase = view[proc].phase)'
                  \/ /\ (current = target + 1)' /\ Active(current)'
                     /\ (ops[current].kind = "delete")'
                     /\ (ops[current].step = "withdraw_publication")'
    <3>1. pc # "claim" /\ pc' # "claim"
      BY <2>4 DEF Working, WorkLabels
    <3>2. /\ ops[target].step = view[proc].step
          /\ ActiveStep(kind, view[proc].step)
          /\ view[proc].phase = "running"
          /\ \/ current = target /\ Active(current) /\ ops[current].phase = view[proc].phase
             \/ /\ current = target + 1 /\ Active(current)
                /\ ops[current].kind = "delete"
                /\ ops[current].step = "withdraw_publication"
      BY <3>1 DEF LInv, Control
    <3> QED
      BY <1>3, <3>1, <3>2
  <2>5. Working' => LabelOfStep(view[proc].step)'
    BY DEF Working
  <2> QED
    BY <1>4, <2>1, <2>2, <2>3, <2>4, <2>5 DEF Control
<1>6. OnHand'
  <2>1. CASE Working'
    BY <2>1 DEF OnHand, Working
  <2>2. CASE ~Working'
    <3>1. CASE current = target
      <4>1. view[proc].step = ops[current].step /\ kind = ops[current].kind
        BY <3>1 DEF LInv, Control, kind
      <4> QED
        BY <1>3, <2>2, <3>1, <4>1 DEF OnHand, WorkBefore, CurrentBefore
    <3>2. CASE current # target
      <4>1. (ops[current].kind = "delete")' /\ (ops[current].step = "withdraw_publication")'
        BY <1>3, <3>2 DEF LInv, Control
      <4> QED
        BY <2>2, <4>1 DEF OnHand, CurrentBefore, RuntimeBefore, ResourceBefore,
           ReadyBefore,
           QuotaBefore
    <3> QED
      BY <3>1, <3>2
  <2> QED
    BY <2>1, <2>2
<1>7. Rest'
  <2>1. ops'[current'].phase # "succeeded"
    BY <1>3, Situation DEF Active, ActivePhases
  <2> QED
    BY <2>1 DEF Rest
<1> QED
  BY <1>1, <1>2, <1>5, <1>6, <1>7 DEF LInv

-----------------------------------------------------------------------------
(* Steps that only read *)

\* What the invariant says of a running step.
LEMMA Known ==
    ASSUME LInv, Working
    PROVE  /\ LabelOfStep(view[proc].step) /\ WorkBefore /\ WorkDoing /\ WorkDone
           /\ Common /\ LifecycleType
BY DEF LInv, Control, OnHand

\* A step that writes nothing but where it stands.
LEMMA ReadLInv ==
    ASSUME LInv, Working, UNCHANGED journal, item' = item,
           UNCHANGED <<pub, obs, res, remote, cr, model, rt, route>>,
           seen' \in {"none", "ready", "degraded", "stopped"},
           pc' \in WorkLabels \cup {"retry_step"}, pc' # "claim",
           pc = "claim" => pc' = "retry_step",
           pc' \in WorkLabels => LabelOfStep(view[proc].step)' /\ WorkDoing' /\ WorkDone'
    PROVE  LInv'
<1>1. LifecycleType'
  BY Known DEF LifecycleType
<1>2. Common'
  BY Known, CommonFrame
<1>3. WorkBefore'
  BY Known, RuntimeFrame, ResourceFrame, ReadyFrame, QuotaFrame DEF WorkBefore
<1> QED
  BY <1>1, <1>2, <1>3, StepLInv

\* A withdrawal is about the newest row, the only one that can have a route.
LEMMA NewestRowFound ==
    ASSUME LInv, Working, view[proc].step # "publish",
           NEW g \in Generations, route[g] # "absent"
    PROVE  PublicationGen = g
<1> DEFINE S == {h \in 1 .. target : pub[h] # NoPublication}
<1>1. target \in 1 .. Len(ops) /\ Len(ops) \in Nat /\ Len(ops) <= MaxOps /\ MaxOps \in Nat
  BY Situation
<1>2. /\ pub[g] # NoPublication
      /\ \A h \in Generations : h > g => pub[h] = NoPublication
      /\ \A h \in Generations : h > target => pub[h] = NoPublication
  BY Known DEF Common, RouteIsNewest, RowsReached
<1>3. g \in S /\ S \in SUBSET (1 .. target) /\ target \in Nat /\ \A h \in S : h <= g
  BY <1>1, <1>2, SMTT(15) DEF Generations
<1>5. Highest(S) = g
  <2> HIDE DEF S
  <2> QED
    BY <1>3, HighestIs, SMTT(15)
<1> QED
  BY <1>5, SMTT(15) DEF PublicationGen, LatestRow, Generations

\* The reservation an update finds is the one that is held.
LEMMA PreviousFound ==
    ASSUME LInv, Working, view[proc].step = "release_previous_quota",
           NEW g \in Generations, Held(g)
    PROVE  PreviousReservation = g /\ g # 0
<1> DEFINE S == {h \in 1 .. target - 1 : res[h] \in Outstanding \ {"pending"}}
<1>1. kind \in {"update", "restart"} /\ target \in 1 .. Len(ops) /\ Len(ops) \in Nat
  BY Situation DEF ComesAfter
<1>2. g = target - 1 /\ res[g] \in {"reserved", "confirmed", "release_pending"}
  BY <1>1, Known DEF WorkBefore, QuotaBefore
<1>3. g \in S /\ S \in SUBSET Nat /\ \A h \in S : h <= g
  BY <1>1, <1>2, SMTT(15) DEF Outstanding, Generations
<1>5. Highest(S) = g
  <2> HIDE DEF S
  <2> QED
    BY <1>3, HighestIs
<1> QED
  BY <1>5, SMTT(15) DEF PreviousReservation, Generations

\* So is the one a stop finds.
LEMMA ActiveFound ==
    ASSUME LInv, Working, view[proc].step = "release_quota", kind = "stop",
           NEW g \in Generations, Held(g)
    PROVE  ActiveReservation = g /\ g # 0
<1> DEFINE S == {h \in 1 .. target : res[h] \in Outstanding}
<1>1. target \in 1 .. Len(ops) /\ Len(ops) \in Nat
  BY Situation
<1>2. /\ g = target - 1 /\ res[g] \in {"reserved", "confirmed", "release_pending"}
      /\ res[target] = "none"
  BY Known DEF WorkBefore, QuotaBefore
<1>3. g \in S /\ S \in SUBSET Nat /\ \A h \in S : h <= g
  BY <1>1, <1>2, SMTT(15) DEF Outstanding, Generations
<1>5. Highest(S) = g
  <2> HIDE DEF S
  <2> QED
    BY <1>3, HighestIs
<1> QED
  BY <1>5, SMTT(15) DEF ActiveReservation, Generations

\* The first thing a step does fits the step, and a step that has nothing to
\* do may be left at once.
LEMMA EnterLInv ==
    ASSUME LInv, EnterStep
    PROVE  LInv'
<1> DEFINE s == view[proc].step
<1>1. Working /\ pc = "enter" /\ pc' = StepEntry(s)
  BY DEF EnterStep, At, Goto, Working, WorkLabels
<1>2. /\ UNCHANGED journal /\ item' = item /\ seen' = seen
      /\ UNCHANGED <<pub, obs, res, remote, cr, model, rt, route>>
  BY DEF EnterStep, tables, cluster
<1>3. /\ s \in Steps \ {"complete"} /\ kind \in Kinds
      /\ \E n : ComesAfter(kind, s, n)
      /\ target \in Generations
  BY <1>1, Situation
<1>4. /\ WorkBefore /\ QuotaUnused /\ LifecycleType
  BY <1>1, Known DEF Common
<1>5. view' = view /\ target' = target /\ kind' = kind
  BY <1>2 DEF journal, target, kind
<1>6. /\ s \in {"admission", "resolve_gpu"} => pc' = "ask"
      /\ s = "reserve_quota" => pc' = QuotaEntry
      /\ s = "release_previous_quota" =>
            pc' = IF QuotaConfigured /\ PreviousReservation # 0 THEN "quota_release" ELSE "advance"
      /\ s = "release_quota" => pc' = ReleaseEntry
      /\ s = "materialize_model" => pc' = "model_mark"
      /\ s = "withdraw_publication" => pc' = "pub_withdrawing"
      /\ s = "publish" => pc' = "pub_publishing"
      /\ s \in {"apply_cr", "apply_runtime", "observe_runtime", "delete_runtime",
                "observe_absence", "delete_cr"} => pc' = "source"
  <2> HIDE DEF s
  <2> QED
    BY <1>1 DEF StepEntry
<1>7. /\ pc' \in WorkLabels /\ pc' # "claim" /\ LabelOfStep(s)' /\ WorkDoing'
      /\ pc' = "advance" =>
            s \in {"reserve_quota", "release_previous_quota", "release_quota"}
  <2> HIDE DEF s
  <2>1. /\ s = "reserve_quota" =>
            \/ pc' = "advance"
            \/ pc' = "quota_confirm" /\ QuotaConfigured
            \/ pc' = "quota_get" /\ QuotaConfigured /\ res[target] # "confirmed"
        /\ s = "release_quota" =>
            \/ pc' = "advance"
            \/ pc' = "release_save" /\ kind = "delete"
            \/ pc' = "quota_release" /\ QuotaConfigured
    <3>1. QuotaConfigured \in BOOLEAN
      BY LifecycleBounds
    <3>2. s = "reserve_quota" =>
            \/ pc' = "advance"
            \/ pc' = "quota_confirm" /\ QuotaConfigured
            \/ pc' = "quota_get" /\ QuotaConfigured /\ res[target] # "confirmed"
      BY <1>6, <3>1 DEF QuotaEntry
    <3> QED
      BY <1>6, <3>1, <3>2 DEF ReleaseEntry
  <2>2. s' = s
    BY <1>5 DEF s
  <2>3. pc' \in WorkLabels /\ pc' # "claim"
    BY <1>3, <1>6, <2>1 DEF Steps, WorkLabels
  <2>4. LabelOfStep(s)'
    BY <1>3, <1>6, <2>1, <2>2 DEF LabelOfStep, Steps
  <2>5. WorkDoing'
    BY <1>2, <1>3, <1>5, <1>6, <2>1, <2>2 DEF WorkDoing, Doing, Steps, s
  <2> QED
    BY <1>3, <1>6, <2>1, <2>3, <2>4, <2>5 DEF Steps
<1>8. WorkDone'
  <2>1. CASE pc' = "advance" /\ s = "reserve_quota"
    <3>1. ~QuotaConfigured \/ res[target] = "confirmed"
      BY <1>6, <2>1 DEF QuotaEntry
    <3>2. QuotaConfigured /\ res[target] = "confirmed" => remote[target] = "confirmed"
      BY <1>3, <1>4, <2>1 DEF WorkBefore, QuotaBefore, ComesAfter
    <3> QED
      BY <1>2, <1>5, <2>1, <3>1, <3>2 DEF WorkDone, Done, Paid
  <2>2. CASE pc' = "advance" /\ s = "release_previous_quota"
    <3>1. ~QuotaConfigured \/ PreviousReservation = 0
      BY <1>6, <2>2
    <3>2. Released
      BY <1>1, <1>4, <2>2, <3>1, PreviousFound DEF Released, QuotaUnused, Held
    <3> QED
      BY <1>2, <1>5, <2>2, <3>2 DEF WorkDone, Done, Released, Held
  <2>3. CASE pc' = "advance" /\ s = "release_quota"
    <3>1. ~QuotaConfigured \/ ActiveReservation = 0
      BY <1>6, <2>3 DEF ReleaseEntry
    <3>2. kind = "stop" => Released
      BY <1>1, <1>4, <2>3, <3>1, ActiveFound DEF Released, QuotaUnused, Held
    <3> QED
      BY <1>2, <1>5, <2>3, <3>2 DEF WorkDone, Done, Released, Held
  <2> QED
    BY <1>7, <2>1, <2>2, <2>3 DEF WorkDone
<1> QED
  BY <1>1, <1>2, <1>4, <1>7, <1>8, ReadLInv DEF LifecycleType

\* Asking the admission or the accelerator service.
LEMMA AskLInv ==
    ASSUME LInv, Ask
    PROVE  LInv'
<1>1. Working /\ pc = "ask" /\ pc' = "advance"
  BY DEF Ask, At, Goto, Working, WorkLabels
<1>2. /\ UNCHANGED journal /\ item' = item /\ seen' = seen
      /\ UNCHANGED <<pub, obs, res, remote, cr, model, rt, route>>
  BY DEF Ask, tables, cluster
<1>3. view[proc].step \in {"admission", "resolve_gpu"} /\ view' = view /\ LifecycleType
  BY <1>1, <1>2, Known DEF LabelOfStep, journal
<1>4. pc' \in WorkLabels /\ LabelOfStep(view[proc].step)' /\ WorkDoing' /\ WorkDone'
  BY <1>1, <1>3 DEF WorkLabels, LabelOfStep, WorkDoing, Doing, WorkDone, Done
<1> QED
  BY <1>1, <1>2, <1>3, <1>4, ReadLInv DEF LifecycleType

\* Reading the desired generation before a call on the cluster.
LEMMA SourceLInv ==
    ASSUME LInv, CurrentRuntime
    PROVE  LInv'
<1> DEFINE s == view[proc].step
<1>1. Working /\ pc = "source"
  BY DEF CurrentRuntime, At, Working, WorkLabels
<1>2. /\ UNCHANGED journal /\ item' = item /\ seen' = seen
      /\ UNCHANGED <<pub, obs, res, remote, cr, model, rt, route>>
  BY DEF CurrentRuntime, tables, cluster
<1>3. /\ s \in {"apply_cr", "materialize_model", "apply_runtime", "observe_runtime",
                "delete_runtime", "observe_absence", "delete_cr", "publish"}
      /\ LifecycleType /\ WorkDoing
  BY <1>1, Known DEF LabelOfStep
<1>4. view' = view /\ target' = target /\ kind' = kind /\ s' = s
  BY <1>2 DEF journal, target, kind
<1>5. pc' = ClusterCall(s) \/ pc' = "retry_step"
  BY DEF CurrentRuntime, Goto
<1>6. ClusterCall(s) \in WorkLabels \ {"claim", "advance"}
  <2> HIDE DEF s
  <2> QED
    BY <1>3 DEF ClusterCall, WorkLabels
<1>7. pc' = ClusterCall(s) => LabelOfStep(s)' /\ WorkDoing'
  <2>1. pc' = ClusterCall(s) => LabelOfStep(s)'
    <3> HIDE DEF s
    <3> QED
      BY <1>3, <1>4 DEF ClusterCall, LabelOfStep
  <2>2. s = "publish" => pub[target] # NoPublication
    BY <1>1, <1>3 DEF WorkDoing, Doing
  <2>3. pc' = ClusterCall(s) => WorkDoing'
    <3> HIDE DEF s
    <3> QED
      BY <1>2, <1>3, <1>4, <2>2 DEF ClusterCall, WorkDoing, Doing, s
  <2> QED
    BY <2>1, <2>3
<1> QED
  BY <1>1, <1>2, <1>3, <1>5, <1>6, <1>7, ReadLInv, SMTT(15) DEF LifecycleType, WorkDone,
     WorkLabels

\* Asking the quota service what it holds.
LEMMA QuotaGetLInv ==
    ASSUME LInv, QuotaGet
    PROVE  LInv'
<1>1. Working /\ pc = "quota_get"
  BY DEF QuotaGet, At, Working, WorkLabels
<1>2. /\ UNCHANGED journal /\ item' = item /\ seen' = seen
      /\ UNCHANGED <<pub, obs, res, remote, cr, model, rt, route>>
  BY DEF QuotaGet, tables, cluster
<1>3. /\ view[proc].step = "reserve_quota" /\ QuotaConfigured /\ LifecycleType
      /\ res[target] # "confirmed"
  BY <1>1, Known DEF LabelOfStep, WorkDoing, Doing
<1>4. view' = view /\ target' = target /\ kind' = kind
  BY <1>2 DEF journal, target, kind
<1>5. /\ pc' \in {"quota_save", "quota_confirm", "quota_reserve"}
      /\ pc' = "quota_save" => remote[target] = "confirmed"
  BY DEF QuotaGet, Goto
<1>6. pc' \in WorkLabels /\ LabelOfStep(view[proc].step)' /\ WorkDoing' /\ WorkDone'
  BY <1>2, <1>3, <1>4, <1>5 DEF WorkLabels, LabelOfStep, WorkDoing, Doing, WorkDone
<1> QED
  BY <1>1, <1>2, <1>3, <1>5, <1>6, ReadLInv DEF LifecycleType

\* Looking whether the model files are gone.
LEMMA ModelAbsentLInv ==
    ASSUME LInv, ModelAbsent
    PROVE  LInv'
<1>1. Working /\ pc = "model_absent"
  BY DEF ModelAbsent, At, Working, WorkLabels
<1>2. /\ UNCHANGED journal /\ item' = item /\ seen' = seen
      /\ UNCHANGED <<pub, obs, res, remote, cr, model, rt, route>>
  BY DEF ModelAbsent, tables, cluster
<1>3. view[proc].step = "delete_cr" /\ LifecycleType /\ cr.st = "absent"
  BY <1>1, Known DEF LabelOfStep, WorkDoing, Doing
<1>4. view' = view /\ target' = target /\ kind' = kind
  BY <1>2 DEF journal, target, kind
<1>5. pc' \in {"advance", "retry_step"} /\ (pc' = "advance" => NoModel)
  BY DEF ModelAbsent, Goto, NoModel
<1>6. pc' = "advance" => LabelOfStep(view[proc].step)' /\ WorkDoing' /\ WorkDone'
  BY <1>2, <1>3, <1>4, <1>5 DEF LabelOfStep, WorkDoing, Doing, WorkDone, Done, NoModel
<1> QED
  BY <1>1, <1>2, <1>3, <1>5, <1>6, ReadLInv DEF LifecycleType, WorkLabels

\* Reading the state of the runtime.
LEMMA ObserveLInv ==
    ASSUME LInv, RuntimeObserve \/ RuntimeAbsence
    PROVE  LInv'
<1>1. Working /\ pc \in {"rt_observe", "rt_absence"}
  BY DEF RuntimeObserve, RuntimeAbsence, At, Working, WorkLabels
<1>2. /\ UNCHANGED journal /\ item' = item
      /\ UNCHANGED <<pub, obs, res, remote, cr, model, rt, route>>
  BY DEF RuntimeObserve, RuntimeAbsence, tables, cluster
<1>3. /\ RuntimeObserve => view[proc].step = "observe_runtime"
      /\ RuntimeAbsence => view[proc].step = "observe_absence"
      /\ LifecycleType
  BY <1>1, Known DEF LabelOfStep, RuntimeObserve, RuntimeAbsence, At
<1>4. view' = view /\ target' = target /\ kind' = kind
  BY <1>2 DEF journal, target, kind
<1>5. /\ pc' \in {"obs_save", "retry_step"} /\ seen' \in {"none", "ready", "degraded", "stopped"}
      /\ pc' = "obs_save" /\ RuntimeObserve => seen' \in {"ready", "degraded"}
      /\ pc' = "obs_save" /\ RuntimeAbsence =>
            seen' \in {"stopped", "degraded"} /\ (seen' = "stopped" => rt.st = "absent")
  BY <1>1, <1>3 DEF RuntimeObserve, RuntimeAbsence, Goto, At, LifecycleType
<1>6. pc' = "obs_save" => LabelOfStep(view[proc].step)' /\ WorkDoing' /\ WorkDone'
  BY <1>2, <1>3, <1>4, <1>5 DEF LabelOfStep, WorkDoing, Doing, WorkDone
<1> QED
  BY <1>1, <1>2, <1>5, <1>6, ReadLInv DEF WorkLabels

\* A route that is gone was the only one: no other generation has one.
LEMMA RouteGoneLInv ==
    ASSUME LInv, RouteGone
    PROVE  LInv'
<1>1. Working /\ pc = "route_gone"
  BY DEF RouteGone, At, Working, WorkLabels
<1>2. /\ UNCHANGED journal /\ item' = item /\ seen' = seen
      /\ UNCHANGED <<pub, obs, res, remote, cr, model, rt, route>>
  BY DEF RouteGone, tables, cluster
<1>3. /\ view[proc].step = "withdraw_publication" /\ LifecycleType
      /\ RouteIsNewest /\ RowsReached
  BY <1>1, Known DEF LabelOfStep, Common
<1>4. view' = view /\ target' = target /\ kind' = kind
  BY <1>2 DEF journal, target, kind
<1>5. ASSUME NEW g \in Generations, route[g] # "absent" PROVE PublicationGen = g
  BY <1>1, <1>3, <1>5, NewestRowFound
<1>6. pc' \in {"pub_withdrawn", "retry_step"} /\ (pc' = "pub_withdrawn" => NoRoute)
  BY <1>5 DEF RouteGone, Goto, NoRoute
<1>7. pc' = "pub_withdrawn" => LabelOfStep(view[proc].step)' /\ WorkDoing' /\ WorkDone'
  BY <1>2, <1>3, <1>4, <1>6 DEF LabelOfStep, WorkDoing, Doing, WorkDone, NoRoute
<1> QED
  BY <1>1, <1>2, <1>3, <1>6, <1>7, ReadLInv DEF LifecycleType, WorkLabels

\* The gateway has accepted the route.
LEMMA RouteConfirmLInv ==
    ASSUME LInv, RouteConfirm
    PROVE  LInv'
<1>1. Working /\ pc = "route_confirm" /\ pc' = "pub_published"
  BY DEF RouteConfirm, At, Goto, Working, WorkLabels
<1>2. /\ UNCHANGED journal /\ item' = item /\ seen' = seen
      /\ UNCHANGED <<pub, obs, res, remote, cr, model, rt, route>>
  BY DEF RouteConfirm, tables, cluster
<1>3. /\ view[proc].step = "publish" /\ LifecycleType
      /\ route[target] = "live" /\ pub[target] # NoPublication
  BY <1>1, Known DEF LabelOfStep, WorkDoing, Doing
<1>4. view' = view /\ target' = target /\ kind' = kind
  BY <1>2 DEF journal, target, kind
<1>5. pc' \in WorkLabels /\ LabelOfStep(view[proc].step)' /\ WorkDoing' /\ WorkDone'
  BY <1>1, <1>2, <1>3, <1>4 DEF WorkLabels, LabelOfStep, WorkDoing, Doing, WorkDone
<1> QED
  BY <1>1, <1>2, <1>3, <1>5, ReadLInv DEF LifecycleType

-----------------------------------------------------------------------------
(* Quota *)

\* The reservation a release is about is one up to the target's.
LEMMA ReleasingRange ==
    ASSUME LInv, Working, view[proc].step \in {"release_previous_quota", "release_quota"}
    PROVE  /\ Releasing \in 0 .. target
           /\ kind # "delete" => Releasing # target
<1> DEFINE S == {h \in 1 .. target - 1 : res[h] \in Outstanding \ {"pending"}}
           T == {h \in 1 .. target : res[h] \in Outstanding}
<1>1. target \in 1 .. Len(ops) /\ Len(ops) \in Nat /\ target \in Nat /\ target - 1 \in Nat
  BY Situation, SMTT(15)
<1>2. Highest(S) \in 0 .. target - 1
  <2>1. S \in SUBSET (1 .. target - 1)
    OBVIOUS
  <2> HIDE DEF S
  <2> QED
    BY <1>1, <2>1, HighestRange
<1>3. Highest(T) \in 0 .. target
  <2>1. T \in SUBSET (1 .. target)
    OBVIOUS
  <2> HIDE DEF T
  <2> QED
    BY <1>1, <2>1, HighestRange
<1>4. kind = "stop" => Highest(T) # target
  <2>1. kind = "stop" => target \notin T
    BY Known DEF WorkBefore, QuotaBefore, Outstanding
  <2>2. T \in SUBSET (1 .. target)
    OBVIOUS
  <2> HIDE DEF T
  <2>3. Highest(T) \in T \cup {0}
    BY <1>1, <2>2, HighestRange
  <2> QED
    BY <1>1, <2>1, <2>3, SMTT(15)
<1>5. view[proc].step = "release_quota" => kind \in {"stop", "delete"}
  BY Situation DEF ComesAfter
<1> HIDE DEF S, T
<1> QED
  BY <1>1, <1>2, <1>3, <1>4, <1>5, SMTT(15) DEF Releasing, PreviousReservation,
     ActiveReservation, S, T

\* A step that writes reservations or calls the quota service.
LEMMA QuotaLInv ==
    ASSUME LInv, Working, UNCHANGED journal, item' = item, seen' = seen,
           UNCHANGED <<pub, obs, cr, model, rt, route>>,
           res' \in [Generations -> QuotaStates], remote' \in [Generations -> RemoteStates],
           \A g \in Generations : g > Len(ops) => res'[g] = res[g],
           QuotaExclusive', QuotaUnused', QuotaBefore(target, kind, view[proc].step)',
           pc' \in WorkLabels \cup {"retry_step"}, pc' # "claim", pc # "claim",
           pc' \in WorkLabels => LabelOfStep(view[proc].step)' /\ WorkDoing' /\ WorkDone'
    PROVE  LInv'
<1>1. LifecycleType'
  BY Known DEF LifecycleType
<1>2. Common'
  <2>1. RouteHasRuntime' /\ RouteIsNewest'
    BY Known DEF Common, RouteHasRuntime, RouteIsNewest
  <2>2. RowsReached'
    BY Known DEF Common, RowsReached, journal, target
  <2> QED
    BY <2>1, <2>2 DEF Common
<1>3. WorkBefore'
  BY Known, RuntimeFrame, ResourceFrame, ReadyFrame DEF WorkBefore
<1> QED
  BY <1>1, <1>2, <1>3, StepLInv

\* Reserving or confirming the quota of the target, when no other is held.
LEMMA GrantLInv ==
    ASSUME LInv, NEW v \in {"reserved", "confirmed"}, Working,
           pc \in {"quota_reserve", "quota_confirm"},
           v = "reserved" => pc = "quota_reserve",
           remote' = [remote EXCEPT ![target] = v], UNCHANGED journal, item' = item,
           seen' = seen, UNCHANGED <<pub, obs, res, cr, model, rt, route>>,
           \/ pc' = "quota_confirm"
           \/ pc' \in {"quota_save", "reserved_save"} /\ v = "confirmed"
    PROVE  LInv'
<1>1. /\ view[proc].step = "reserve_quota" /\ QuotaConfigured /\ LifecycleType /\ Common
      /\ WorkBefore
      /\ pc = "quota_reserve" => res[target] # "confirmed"
  BY Known DEF LabelOfStep, WorkDoing, Doing
<1>2. target \in Generations /\ kind \in {"create", "start", "update", "restart"}
  BY <1>1, Situation DEF ComesAfter
<1>3. view' = view /\ target' = target /\ kind' = kind
  BY DEF journal, target, kind
<1>4. /\ remote' \in [Generations -> RemoteStates] /\ res' \in [Generations -> QuotaStates]
      /\ remote'[target] = v
      /\ \A g \in Generations : g # target => remote'[g] = remote[g]
  BY <1>1, <1>2 DEF LifecycleType, RemoteStates
<1>5. rt.st = "absent" /\ OnlyHeld(target)
  BY <1>1 DEF WorkBefore, RuntimeBefore, QuotaBefore
<1>6. \A g \in Generations : Held(g)' => g = target
  BY <1>4, <1>5 DEF OnlyHeld, Held
<1>7. QuotaExclusive' /\ QuotaUnused'
  BY <1>1, <1>5, <1>6 DEF QuotaExclusive, QuotaUnused, Held
<1>8. QuotaBefore(target, kind, view[proc].step)'
  <2>1. res[target] = "confirmed" => v = "confirmed"
    BY <1>1
  <2> QED
    BY <1>1, <1>2, <1>3, <1>4, <1>6, <2>1 DEF QuotaBefore, OnlyHeld
<1>9. pc' \in WorkLabels /\ LabelOfStep(view[proc].step)' /\ WorkDoing' /\ WorkDone'
  BY <1>1, <1>3, <1>4 DEF WorkLabels, LabelOfStep, WorkDoing, Doing, WorkDone
<1> QED
  BY <1>4, <1>7, <1>8, <1>9, QuotaLInv

\* Giving a reservation back: what was held is held no more.
LEMMA ReleaseLInv ==
    ASSUME LInv, Working, pc = "quota_release",
           \/ remote' = remote /\ pc' = "pending_save"
           \/ /\ remote' = [remote EXCEPT ![Releasing] = "released"]
              /\ pc' \in {"release_save", "pending_save"},
           UNCHANGED journal, item' = item, seen' = seen,
           UNCHANGED <<pub, obs, res, cr, model, rt, route>>
    PROVE  LInv'
<1>1. /\ view[proc].step \in {"release_previous_quota", "release_quota"}
      /\ QuotaConfigured /\ LifecycleType /\ Common /\ WorkBefore
  BY Known DEF LabelOfStep
<1>2. /\ target \in Generations /\ kind \in {"update", "restart", "stop", "delete"}
      /\ view[proc].step = "release_quota" => kind \in {"stop", "delete"}
  BY <1>1, Situation DEF ComesAfter
<1>3. view' = view /\ target' = target /\ kind' = kind
  BY DEF journal, target, kind
<1>4. /\ remote' \in [Generations -> RemoteStates] /\ res' \in [Generations -> QuotaStates]
      /\ \A g \in Generations : remote'[g] = remote[g] \/ (remote'[g] = "released" /\ g = Releasing)
      /\ pc' = "release_save" => \A g \in Generations : g = Releasing => remote'[g] = "released"
  BY <1>1 DEF LifecycleType, RemoteStates
<1>5. rt.st = "absent"
  BY <1>1 DEF WorkBefore, RuntimeBefore
<1>6. \A g \in Generations : Held(g)' => Held(g) /\ remote'[g] = remote[g]
  BY <1>4 DEF Held
<1>7. QuotaExclusive' /\ QuotaUnused'
  BY <1>1, <1>5, <1>6 DEF Common, QuotaExclusive, QuotaUnused, Held
<1>8. QuotaBefore(target, kind, view[proc].step)'
  <2>1. kind # "delete" => remote'[target] = remote[target]
    BY <1>1, <1>2, <1>4, ReleasingRange
  <2> QED
    BY <1>1, <1>2, <1>3, <1>6, <2>1 DEF WorkBefore, QuotaBefore
<1>9. pc' = "release_save" /\ kind # "delete" => Released'
  <2> SUFFICES ASSUME pc' = "release_save", kind # "delete", NEW g \in Generations, Held(g)'
               PROVE  FALSE
    BY DEF Released
  <2>1. Held(g)
    BY <1>6
  <2>2. Releasing = g
    BY <1>1, <1>2, <2>1, PreviousFound, ActiveFound DEF Releasing
  <2> QED
    BY <1>4, <2>2 DEF Held
<1>10. pc' \in WorkLabels /\ LabelOfStep(view[proc].step)' /\ WorkDoing' /\ WorkDone'
  BY <1>1, <1>3, <1>9 DEF WorkLabels, LabelOfStep, WorkDoing, Doing, WorkDone
<1> QED
  BY <1>4, <1>7, <1>8, <1>10, QuotaLInv

\* A step that gives up leaves everything as it is.
LEMMA GiveUpLInv ==
    ASSUME LInv, Working, pc' = "retry_step", UNCHANGED journal, item' = item,
           seen' \in {seen, "none"},
           UNCHANGED <<pub, obs, res, remote, cr, model, rt, route>>
    PROVE  LInv'
BY Known, ReadLInv DEF LifecycleType, WorkLabels

\* Writing a reservation row, with the outcome of the call or to try again.
LEMMA SaveReservationLInv ==
    ASSUME LInv,
           NEW label, NEW g, NEW state, NEW next, SaveReservation(label, g, state, next),
           \/ /\ label = "quota_save" /\ g = target /\ state = "confirmed" /\ next = "advance"
           \/ /\ label = "reserved_save" /\ g = target /\ state = "reserved"
              /\ next = "retry_step"
           \/ /\ label = "release_save" /\ g = Releasing /\ state = "released"
              /\ next = "advance"
           \/ /\ label = "pending_save" /\ g = Releasing /\ state = "release_pending"
              /\ next = "retry_step"
    PROVE  LInv'
<1>1. Working /\ pc = label
  BY DEF SaveReservation, At, Working, WorkLabels
<1>2. /\ UNCHANGED journal /\ item' = item /\ seen' = seen
      /\ UNCHANGED <<pub, obs, remote, cr, model, rt, route>>
  BY DEF SaveReservation, cluster
<1>3. CASE ~OperationFence
  BY <1>1, <1>2, <1>3, GiveUpLInv DEF SaveReservation, Goto
<1>4. CASE OperationFence
  <2>1. res' = [res EXCEPT ![g] = state] /\ pc' = next
    BY <1>4 DEF SaveReservation, Goto
  <2>2. /\ LabelOfStep(view[proc].step) /\ LifecycleType /\ Common /\ WorkBefore
        /\ label = "quota_save" => remote[target] = "confirmed"
        /\ label = "release_save" /\ kind # "delete" => Released
    BY <1>1, Known DEF WorkDoing, Doing
  <2>3. view' = view /\ target' = target /\ kind' = kind
    BY <1>2 DEF journal, target, kind
  <2>4. /\ target \in 1 .. Len(ops) /\ target \in Generations /\ Len(ops) \in Nat
        /\ label \in {"quota_save", "reserved_save"} =>
            kind \in {"create", "start", "update", "restart"}
        /\ view[proc].step = "release_quota" => kind \in {"stop", "delete"}
    BY <1>1, <2>2, Situation DEF LabelOfStep, ComesAfter
  <2>5. /\ g \in 0 .. target
        /\ label \in {"release_save", "pending_save"} /\ kind # "delete" => g # target
    BY <1>1, <2>2, <2>4, ReleasingRange, SMTT(15) DEF LabelOfStep
  <2>6. /\ res' \in [Generations -> QuotaStates]
        /\ \A h \in Generations : h # g => res'[h] = res[h]
        /\ g \in Generations => res'[g] = state
    BY <2>1, <2>2 DEF LifecycleType, QuotaStates, Outstanding
  <2>7. \A h \in Generations : h > Len(ops) => res'[h] = res[h]
    BY <2>4, <2>5, <2>6, SMTT(15) DEF Generations
  <2>8. QuotaExclusive' /\ QuotaUnused'
    BY <1>2, <2>2 DEF Common, QuotaExclusive, QuotaUnused
  <2>9. QuotaBefore(target, kind, view[proc].step)'
    <3>1. CASE label \in {"quota_save", "reserved_save"}
      <4>1. view[proc].step = "reserve_quota" /\ OnlyHeld(target)
        BY <1>1, <2>2, <3>1 DEF LabelOfStep, WorkBefore, QuotaBefore
      <4>2. res'[target] = "confirmed" => remote[target] = "confirmed"
        BY <2>2, <2>4, <2>6, <3>1
      <4> QED
        BY <1>2, <2>3, <2>4, <3>1, <4>1, <4>2 DEF QuotaBefore, OnlyHeld, Held
    <3>2. CASE label \in {"release_save", "pending_save"} /\ kind = "delete"
      <4>1. view[proc].step \in {"release_previous_quota", "release_quota"}
        BY <1>1, <2>2, <3>2 DEF LabelOfStep
      <4> QED
        BY <2>3, <3>2, <4>1 DEF QuotaBefore
    <3>3. CASE label \in {"release_save", "pending_save"} /\ kind # "delete"
      <4>1. view[proc].step \in {"release_previous_quota", "release_quota"}
        BY <1>1, <2>2, <3>3 DEF LabelOfStep
      <4>2. res'[target] = res[target]
        BY <2>4, <2>5, <2>6, <3>3
      <4>3. \A h \in Generations : Held(h)' => Held(h) /\ label = "pending_save"
        BY <1>2, <2>2, <3>3 DEF Released, Held
      <4>4. label = "pending_save" =>
              \A h \in Generations : res'[h] = res[h] \/ res'[h] = "release_pending"
        BY <2>6
      <4> QED
        BY <1>2, <2>2, <2>3, <3>3, <4>1, <4>2, <4>3, <4>4 DEF WorkBefore, QuotaBefore
    <3> QED
      BY <3>1, <3>2, <3>3
  <2>10. pc' = "advance" => LabelOfStep(view[proc].step)' /\ WorkDoing' /\ WorkDone'
    <3>1. pc' = "advance" => LabelOfStep(view[proc].step)' /\ WorkDoing'
      BY <2>1, <2>3 DEF LabelOfStep, WorkDoing, Doing
    <3>2. CASE label = "quota_save"
      BY <1>1, <1>2, <2>2, <2>3, <2>4, <2>6, <3>1, <3>2 DEF LabelOfStep, WorkDone, Done,
         Paid
    <3>3. CASE label = "release_save"
      <4>1. \/ view[proc].step = "release_quota"
            \/ view[proc].step = "release_previous_quota" /\ kind # "delete"
        BY <1>1, <2>2, <3>3, Situation DEF LabelOfStep, ComesAfter
      <4>2. kind # "delete" => Released'
        BY <1>2, <2>2, <3>3 DEF Released, Held
      <4> QED
        BY <2>1, <2>3, <3>1, <3>3, <4>1, <4>2 DEF WorkDone, Done
    <3> QED
      BY <2>1, <3>2, <3>3
  <2>11. pc' \in {"advance", "retry_step"}
    BY <2>1
  <2> QED
    BY <1>1, <1>2, <2>2, <2>6, <2>7, <2>8, <2>9, <2>10, <2>11, QuotaLInv
       DEF WorkLabels, LifecycleType
<1> QED
  BY <1>3, <1>4

\* The quota steps.
LEMMA QuotaStepLInv ==
    ASSUME LInv, QuotaStep \/ QuotaCallFails
    PROVE  LInv'
<1>1. CASE QuotaGet
  BY <1>1, QuotaGetLInv
<1>2. CASE QuotaReserve
  BY <1>2, GrantLInv DEF QuotaReserve, At, Goto, Working, WorkLabels, tables, cluster
<1>3. CASE QuotaConfirm
  BY <1>3, GrantLInv DEF QuotaConfirm, At, Goto, Working, WorkLabels, tables, cluster
<1>4. CASE QuotaRelease
  BY <1>4, ReleaseLInv DEF QuotaRelease, At, Goto, Working, WorkLabels, tables, cluster
<1>5. CASE \/ SaveReservation("quota_save", target, "confirmed", "advance")
           \/ SaveReservation("reserved_save", target, "reserved", "retry_step")
           \/ SaveReservation("release_save", Releasing, "released", "advance")
           \/ SaveReservation("pending_save", Releasing, "release_pending", "retry_step")
  BY <1>5, SaveReservationLInv
<1>6. CASE QuotaCallFails
  <2>1. /\ UNCHANGED journal /\ item' = item /\ seen' = seen
        /\ UNCHANGED <<pub, obs, res, cr, model, rt, route>>
    BY <1>6 DEF QuotaCallFails, tables, cluster
  <2>2. CASE pc = "quota_confirm"
    <3>1. Working /\ pc' = "reserved_save"
      BY <1>6, <2>2 DEF QuotaCallFails, At, Goto, Working, WorkLabels
    <3>2. CASE remote' = [remote EXCEPT ![target] = "confirmed"]
      BY <2>1, <2>2, <3>1, <3>2, GrantLInv
    <3>3. CASE remote' = remote
      <4>1. view[proc].step = "reserve_quota" /\ QuotaConfigured /\ LifecycleType
        BY <2>2, <3>1, Known DEF LabelOfStep
      <4>2. view' = view /\ target' = target /\ kind' = kind
        BY <2>1 DEF journal, target, kind
      <4>3. pc' \in WorkLabels /\ LabelOfStep(view[proc].step)' /\ WorkDoing' /\ WorkDone'
        BY <3>1, <4>1, <4>2 DEF WorkLabels, LabelOfStep, WorkDoing, Doing, WorkDone
      <4> QED
        BY <2>1, <2>2, <3>1, <3>3, <4>1, <4>3, ReadLInv DEF LifecycleType
    <3> QED
      BY <1>6, <2>2, <3>2, <3>3 DEF QuotaCallFails, At
  <2>3. CASE pc = "quota_release"
    BY <1>6, <2>1, <2>3, ReleaseLInv DEF QuotaCallFails, At, Goto, Working, WorkLabels
  <2> QED
    BY <1>6, <2>2, <2>3 DEF QuotaCallFails, At
<1> QED
  BY <1>1, <1>2, <1>3, <1>4, <1>5, <1>6 DEF QuotaStep

-----------------------------------------------------------------------------
(* The custom resource, the model and the runtime *)

\* A step that writes the custom resource, the model files or what was
\* observed of them.
LEMMA ObjectLInv ==
    ASSUME LInv, Working, UNCHANGED journal, item' = item, pc # "claim",
           UNCHANGED <<pub, res, remote, rt, route>>, LifecycleType',
           ResourceBefore(kind, view[proc].step)', ReadyBefore(target, view[proc].step)',
           pc' \in WorkLabels \cup {"retry_step"}, pc' # "claim",
           pc' \in WorkLabels => LabelOfStep(view[proc].step)' /\ WorkDoing' /\ WorkDone'
    PROVE  LInv'
<1>1. Common'
  BY Known, CommonFrame
<1>2. WorkBefore'
  BY Known, RuntimeFrame, QuotaFrame DEF WorkBefore
<1> QED
  BY <1>1, <1>2, StepLInv

\* Applying, binding and deleting the custom resource.
LEMMA ResourceLInv ==
    ASSUME LInv, CRPatch \/ CRBind \/ CRDelete
    PROVE  LInv'
<1>1. Working /\ pc \in {"cr_patch", "cr_bind", "cr_delete"}
  BY DEF CRPatch, CRBind, CRDelete, At, Working, WorkLabels
<1>2. /\ UNCHANGED journal /\ item' = item /\ seen' = seen
      /\ UNCHANGED <<pub, obs, res, remote, model, rt, route>>
  BY DEF CRPatch, CRBind, CRDelete, tables
<1>3. /\ LifecycleType /\ WorkBefore
      /\ CRPatch \/ CRBind => view[proc].step = "apply_cr"
      /\ CRDelete => view[proc].step = "delete_cr"
      /\ CRBind => cr.st = "up"
  BY <1>1, Known DEF LabelOfStep, WorkDoing, Doing, CRPatch, CRBind, CRDelete, At
<1>4. view' = view /\ target' = target /\ kind' = kind
  BY <1>2 DEF journal, target, kind
<1>5. view[proc].step = "delete_cr" => kind = "delete"
  BY <1>1, Situation DEF ComesAfter
<1>6. /\ cr' \in [st : {"absent", "up"}, bound : BOOLEAN]
      /\ cr.bound => cr'.bound
      /\ CRPatch => (pc' = "retry_step" /\ cr' = cr) \/ (pc' = "cr_bind" /\ cr'.st = "up")
      /\ CRBind => pc' = "advance" /\ cr'.st = "up" /\ cr'.bound
      /\ CRDelete => pc' = "retry_step" \/ (pc' = "model_cleanup" /\ cr'.st = "absent")
  <2>1. cr \in [st : {"absent", "up"}, bound : BOOLEAN]
    BY <1>3 DEF LifecycleType
  <2>2. CRBind \/ CRPatch \/ CRDelete
    OBVIOUS
  <2>3. ASSUME CRPatch
        PROVE  /\ cr' \in [st : {"absent", "up"}, bound : BOOLEAN] /\ cr'.bound = cr.bound
               /\ (pc' = "retry_step" /\ cr' = cr) \/ (pc' = "cr_bind" /\ cr'.st = "up")
    BY <2>1, <2>3 DEF CRPatch, Goto
  <2>4. ASSUME CRBind
        PROVE  /\ cr' \in [st : {"absent", "up"}, bound : BOOLEAN] /\ cr'.bound
               /\ pc' = "advance" /\ cr'.st = cr.st
    BY <2>1, <2>4 DEF CRBind, Goto
  <2>5. ASSUME CRDelete
        PROVE  /\ cr' \in [st : {"absent", "up"}, bound : BOOLEAN] /\ cr'.bound = cr.bound
               /\ pc' = "retry_step" \/ (pc' = "model_cleanup" /\ cr'.st = "absent")
    BY <2>1, <2>5 DEF CRDelete, Goto
  <2>6. cr' \in [st : {"absent", "up"}, bound : BOOLEAN]
    BY <2>2, <2>3, <2>4, <2>5
  <2>7. cr.bound => cr'.bound
    BY <2>2, <2>3, <2>4, <2>5
  <2>8. CRBind => pc' = "advance" /\ cr'.st = "up" /\ cr'.bound
    BY <1>3, <2>4
  <2> QED
    BY <2>3, <2>5, <2>6, <2>7, <2>8
<1>7. LifecycleType'
  BY <1>2, <1>3, <1>6 DEF LifecycleType
<1>8. ResourceBefore(kind, view[proc].step)'
  BY <1>3, <1>4, <1>5, <1>6 DEF WorkBefore, ResourceBefore, ResourceBound
<1>9. ReadyBefore(target, view[proc].step)'
  BY <1>2, <1>3, ReadyFrame DEF WorkBefore
<1>10. pc' \in WorkLabels => LabelOfStep(view[proc].step)' /\ WorkDoing' /\ WorkDone'
  BY <1>3, <1>4, <1>6
     DEF WorkLabels, LabelOfStep, WorkDoing, Doing, WorkDone, Done, ResourceBound
<1>11. pc' \in {"retry_step", "cr_bind", "advance", "model_cleanup"}
  BY <1>6
<1> QED
  BY <1>1, <1>2, <1>7, <1>8, <1>9, <1>10, <1>11, ObjectLInv DEF WorkLabels

\* Recording that the model is on its way, or there.
LEMMA SaveModelLInv ==
    ASSUME LInv,
           \/ SaveModel("model_mark", FALSE, "source")
           \/ SaveModel("model_save", TRUE, "advance")
    PROVE  LInv'
<1>1. Working /\ pc \in {"model_mark", "model_save"}
  BY DEF SaveModel, At, Working, WorkLabels
<1>2. /\ UNCHANGED journal /\ item' = item /\ seen' = seen
      /\ UNCHANGED <<pub, res, remote, cr, model, rt, route>>
  BY DEF SaveModel, cluster
<1>3. CASE ~ObservationFence
  BY <1>1, <1>2, <1>3, GiveUpLInv DEF SaveModel, Goto
<1>4. CASE ObservationFence
  <2>1. /\ LifecycleType /\ WorkBefore /\ view[proc].step = "materialize_model"
        /\ pc = "model_save" => model[target] = "ready"
    BY <1>1, Known DEF LabelOfStep, WorkDoing, Doing
  <2>2. /\ obs' \in [gen : 0 .. MaxOps,
                     phase : {"none", "pending", "ready", "degraded", "stopped"},
                     modelReady : BOOLEAN]
        /\ \/ pc = "model_mark" /\ pc' = "source"
           \/ pc = "model_save" /\ pc' = "advance" /\ obs'.modelReady
    BY <1>4, <2>1 DEF SaveModel, Goto, At, LifecycleType
  <2>3. view' = view /\ target' = target /\ kind' = kind
    BY <1>2 DEF journal, target, kind
  <2>4. LifecycleType'
    BY <1>2, <2>1, <2>2 DEF LifecycleType
  <2>5. ResourceBefore(kind, view[proc].step)'
    BY <1>2, <2>1, ResourceFrame DEF WorkBefore
  <2>6. ReadyBefore(target, view[proc].step)'
    BY <2>1, <2>3 DEF ReadyBefore
  <2>7. pc' \in WorkLabels /\ LabelOfStep(view[proc].step)' /\ WorkDoing' /\ WorkDone'
    BY <1>2, <2>1, <2>2, <2>3 DEF WorkLabels, LabelOfStep, WorkDoing, Doing, WorkDone,
       Done
  <2> QED
    BY <1>1, <1>2, <2>2, <2>4, <2>5, <2>6, <2>7, ObjectLInv
<1> QED
  BY <1>3, <1>4

\* Starting a download, and deleting the files of every generation.
LEMMA ModelFilesLInv ==
    ASSUME LInv, ModelEnsure \/ ModelCleanup
    PROVE  LInv'
<1>1. Working /\ pc \in {"model_ensure", "model_cleanup"}
  BY DEF ModelEnsure, ModelCleanup, At, Working, WorkLabels
<1>2. /\ UNCHANGED journal /\ item' = item /\ seen' = seen
      /\ UNCHANGED <<pub, obs, res, remote, cr, rt, route>>
  BY DEF ModelEnsure, ModelCleanup, tables
<1>3. /\ LifecycleType /\ WorkBefore
      /\ ModelEnsure => view[proc].step = "materialize_model"
      /\ ModelCleanup => view[proc].step = "delete_cr" /\ cr.st = "absent"
  BY <1>1, Known DEF LabelOfStep, WorkDoing, Doing, ModelEnsure, ModelCleanup, At
<1>4. view' = view /\ target' = target /\ kind' = kind
  BY <1>2 DEF journal, target, kind
<1>5. target \in Generations
  BY <1>1, Situation
<1>6. /\ model' \in [Generations -> ModelStates]
      /\ ModelEnsure => pc' \in {"model_save", "retry_step"}
      /\ ModelEnsure /\ pc' = "model_save" => model'[target] = "ready"
      /\ ModelCleanup => pc' \in {"model_absent", "retry_step"}
  BY <1>3, <1>5 DEF LifecycleType, ModelEnsure, ModelCleanup, Goto, ModelStates
<1>7. LifecycleType'
  BY <1>2, <1>3, <1>6, SMTT(15) DEF LifecycleType
<1>8. ResourceBefore(kind, view[proc].step)'
  BY <1>2, <1>3, <1>4 DEF WorkBefore, ResourceBefore, ResourceBound
<1>9. ReadyBefore(target, view[proc].step)'
  BY <1>3, <1>4 DEF ReadyBefore
<1>10. pc' \in WorkLabels => LabelOfStep(view[proc].step)' /\ WorkDoing' /\ WorkDone'
  BY <1>2, <1>3, <1>4, <1>6 DEF WorkLabels, LabelOfStep, WorkDoing, Doing, WorkDone
<1>11. pc' \in {"retry_step", "model_save", "model_absent"}
  BY <1>6
<1> QED
  BY <1>1, <1>2, <1>7, <1>8, <1>9, <1>10, <1>11, ObjectLInv DEF WorkLabels

\* The steps on the custom resource and the model.
LEMMA ObjectStepLInv ==
    ASSUME LInv, ObjectStep
    PROVE  LInv'
BY ResourceLInv, SaveModelLInv, ModelFilesLInv, ModelAbsentLInv DEF ObjectStep

\* Applying the runtime, on confirmed quota and with no route up.
LEMMA RuntimePatchLInv ==
    ASSUME LInv, RuntimePatch
    PROVE  LInv'
<1>1. Working /\ pc = "rt_patch"
  BY DEF RuntimePatch, At, Working, WorkLabels
<1>2. /\ UNCHANGED journal /\ item' = item /\ seen' = seen
      /\ UNCHANGED <<pub, obs, res, remote, cr, model, route>>
  BY DEF RuntimePatch, tables
<1>3. /\ LifecycleType /\ WorkBefore /\ Common /\ view[proc].step = "apply_runtime"
  BY <1>1, Known DEF LabelOfStep
<1>4. view' = view /\ target' = target /\ kind' = kind
  BY <1>2 DEF journal, target, kind
<1>5. target \in Generations /\ MaxOps \in Nat
  BY <1>1, Situation
<1>6. CASE rt' = rt /\ pc' = "retry_step"
  BY <1>1, <1>2, <1>6, GiveUpLInv
<1>7. CASE /\ rt' = [st |-> "up", gen |-> target, ready |-> FALSE,
                     bound |-> rt.st = "up" /\ rt.bound]
           /\ pc' = "rt_bind"
  <2>1. LifecycleType'
    <3>1. (rt.st = "up" /\ rt.bound) \in BOOLEAN
      OBVIOUS
    <3>2. rt' \in [st : {"absent", "up", "ending"}, gen : 0 .. MaxOps,
                   bound : BOOLEAN, ready : BOOLEAN]
      BY <1>5, <1>7, <3>1, SMTT(15) DEF Generations
    <3> QED
      BY <1>2, <1>3, <3>2 DEF LifecycleType
  <2>2. rt'.st = "up" /\ rt'.gen = target
    BY <1>7
  <2>3. NoRoute /\ Paid(target)
    BY <1>3 DEF WorkBefore, RuntimeBefore, QuotaBefore
  <2>4. Common'
    <3>1. RouteHasRuntime'
      BY <1>2, <2>3 DEF NoRoute, RouteHasRuntime
    <3>2. RouteIsNewest' /\ QuotaUnused'
      BY <1>2, <1>3 DEF Common, RouteIsNewest, QuotaUnused
    <3>3. QuotaExclusive'
      BY <1>2, <1>3, <2>2, <2>3 DEF Common, QuotaExclusive, Paid
    <3>4. RowsReached'
      BY <1>1, <1>2, <1>3, <1>4 DEF Common, RowsReached, journal
    <3> QED
      BY <3>1, <3>2, <3>3, <3>4 DEF Common
  <2>5. WorkBefore'
    <3>1. RuntimeBefore(target, view[proc].step)'
      BY <1>2, <1>3, <1>4, <2>2, <2>3 DEF RuntimeBefore, NoRoute
    <3> QED
      BY <1>2, <1>3, <3>1, ResourceFrame, ReadyFrame, QuotaFrame DEF WorkBefore
  <2>6. pc' \in WorkLabels /\ LabelOfStep(view[proc].step)' /\ WorkDoing' /\ WorkDone'
    BY <1>3, <1>4, <1>7, <2>2 DEF WorkLabels, LabelOfStep, WorkDoing, Doing, WorkDone
  <2> QED
    BY <1>1, <1>2, <1>7, <2>1, <2>4, <2>5, <2>6, StepLInv
<1> QED
  BY <1>6, <1>7 DEF RuntimePatch, Goto

\* Binding the runtime that was applied, or asking for its deletion once no
\* route is left.
LEMMA RuntimeWriteLInv ==
    ASSUME LInv, RuntimeBind \/ RuntimeDelete
    PROVE  LInv'
<1>1. Working /\ pc \in {"rt_bind", "rt_delete"}
  BY DEF RuntimeBind, RuntimeDelete, At, Working, WorkLabels
<1>2. /\ UNCHANGED journal /\ item' = item /\ seen' = seen
      /\ UNCHANGED <<pub, obs, res, remote, cr, model, route>>
  BY DEF RuntimeBind, RuntimeDelete, tables
<1>3. /\ LifecycleType /\ WorkBefore /\ Common
      /\ RuntimeBind => /\ view[proc].step = "apply_runtime"
                        /\ rt.st = "up" /\ rt.gen = target
      /\ RuntimeDelete => view[proc].step = "delete_runtime"
  BY <1>1, Known DEF LabelOfStep, WorkDoing, Doing, RuntimeBind, RuntimeDelete, At
<1>4. view' = view /\ target' = target /\ kind' = kind
  BY <1>2 DEF journal, target, kind
<1>5. /\ rt' \in [st : {"absent", "up", "ending"}, gen : 0 .. MaxOps,
                  bound : BOOLEAN, ready : BOOLEAN]
      /\ rt'.gen = rt.gen /\ (rt.st = "absent" <=> rt'.st = "absent")
  <2>1. rt \in [st : {"absent", "up", "ending"}, gen : 0 .. MaxOps,
                bound : BOOLEAN, ready : BOOLEAN]
    BY <1>3 DEF LifecycleType
  <2>2. CASE RuntimeBind
    BY <2>1, <2>2 DEF RuntimeBind
  <2>3. CASE RuntimeDelete
    BY <2>1, <2>3 DEF RuntimeDelete
  <2> QED
    BY <2>2, <2>3
<1>6. RuntimeBind => pc' = "advance" /\ rt'.bound /\ rt'.st = "up"
  BY <1>3 DEF RuntimeBind, Goto, LifecycleType
<1>7. RuntimeDelete => pc' = "retry_step" \/ (pc' = "advance" /\ rt'.st # "up")
  BY <1>3 DEF RuntimeDelete, Goto, LifecycleType
<1>8. NoRoute
  BY <1>3 DEF WorkBefore, RuntimeBefore
<1>9. LifecycleType'
  BY <1>2, <1>3, <1>5 DEF LifecycleType
<1>10. pc' \in {"retry_step", "advance"}
  BY <1>6, <1>7
<1>11. Common'
  <2>1. RouteHasRuntime'
    BY <1>2, <1>8 DEF NoRoute, RouteHasRuntime
  <2>2. RouteIsNewest' /\ QuotaUnused'
    BY <1>2, <1>3 DEF Common, RouteIsNewest, QuotaUnused
  <2>3. QuotaExclusive'
    BY <1>2, <1>3, <1>5 DEF Common, QuotaExclusive
  <2>4. RowsReached'
    BY <1>1, <1>2, <1>3, <1>4 DEF Common, RowsReached, journal
  <2> QED
    BY <2>1, <2>2, <2>3, <2>4 DEF Common
<1>12. WorkBefore'
  <2>1. RuntimeBefore(target, view[proc].step)'
    <3>1. NoRoute'
      BY <1>2, <1>8 DEF NoRoute
    <3>2. RuntimeBind => rt'.st = "up" /\ rt'.gen = target'
      BY <1>3, <1>4, <1>5, <1>6
    <3> QED
      BY <1>3, <1>4, <3>1, <3>2 DEF RuntimeBefore
  <2> QED
    BY <1>2, <1>3, <2>1, ResourceFrame, ReadyFrame, QuotaFrame DEF WorkBefore
<1>13. pc' \in WorkLabels => LabelOfStep(view[proc].step)' /\ WorkDoing' /\ WorkDone'
  BY <1>3, <1>4, <1>5, <1>6, <1>7
     DEF WorkLabels, LabelOfStep, WorkDoing, Doing, WorkDone, Done, RuntimeOf
<1> QED
  BY <1>1, <1>2, <1>9, <1>10, <1>11, <1>12, <1>13, StepLInv DEF WorkLabels

\* Recording what was seen of the runtime; the step goes on only with what it
\* waits for.
LEMMA SaveObservationLInv ==
    ASSUME LInv, SaveObservation
    PROVE  LInv'
<1>1. Working /\ pc = "obs_save" /\ seen' = "none"
  BY DEF SaveObservation, At, Working, WorkLabels
<1>2. /\ UNCHANGED journal /\ item' = item
      /\ UNCHANGED <<pub, res, remote, cr, model, rt, route>>
  BY DEF SaveObservation, cluster
<1>3. CASE ~ObservationFence
  BY <1>1, <1>2, <1>3, GiveUpLInv DEF SaveObservation, Goto
<1>4. CASE ObservationFence
  <2>1. /\ LifecycleType /\ WorkBefore
        /\ \/ view[proc].step = "observe_runtime" /\ seen \in {"ready", "degraded"}
           \/ /\ view[proc].step = "observe_absence" /\ seen \in {"stopped", "degraded"}
              /\ seen = "stopped" => rt.st = "absent"
    BY <1>1, Known DEF LabelOfStep, WorkDoing, Doing
  <2>2. target \in Generations /\ MaxOps \in Nat
    BY <1>1, Situation
  <2>3. /\ obs' \in [gen : 0 .. MaxOps,
                     phase : {"none", "pending", "ready", "degraded", "stopped"},
                     modelReady : BOOLEAN]
        /\ obs'.gen = target /\ obs'.phase = seen /\ obs'.modelReady = obs.modelReady
        /\ pc' \in {"advance", "retry_step"}
        /\ pc' = "advance" => seen \in {"stopped", "ready"}
    <3>1. obs \in [gen : 0 .. MaxOps,
                   phase : {"none", "pending", "ready", "degraded", "stopped"},
                   modelReady : BOOLEAN]
      BY <2>1 DEF LifecycleType
    <3>2. obs' = [obs EXCEPT !.gen = target, !.phase = seen]
      BY <1>4 DEF SaveObservation
    <3>3. target \in 0 .. MaxOps
      BY <2>2, SMTT(15) DEF Generations
    <3>4. /\ pc' \in {"advance", "retry_step"}
          /\ pc' = "advance" => seen \in {"stopped", "ready"}
      BY <1>4 DEF SaveObservation, Goto
    <3> QED
      BY <2>1, <3>1, <3>2, <3>3, <3>4
  <2>4. view' = view /\ target' = target /\ kind' = kind
    BY <1>2 DEF journal, target, kind
  <2>5. LifecycleType'
    BY <1>1, <1>2, <2>1, <2>3 DEF LifecycleType
  <2>6. ResourceBefore(kind, view[proc].step)'
    BY <1>2, <2>1, ResourceFrame DEF WorkBefore
  <2>7. ReadyBefore(target, view[proc].step)'
    BY <1>2, <2>1, <2>3, <2>4 DEF WorkBefore, ReadyBefore
  <2>8. pc' \in WorkLabels => LabelOfStep(view[proc].step)' /\ WorkDoing' /\ WorkDone'
    BY <1>2, <2>1, <2>3, <2>4 DEF WorkLabels, LabelOfStep, WorkDoing, Doing, WorkDone,
       Done
  <2> QED
    BY <1>1, <1>2, <2>3, <2>5, <2>6, <2>7, <2>8, ObjectLInv DEF WorkLabels
<1> QED
  BY <1>3, <1>4

\* The steps on the runtime.
LEMMA RuntimeStepLInv ==
    ASSUME LInv, RuntimeStep
    PROVE  LInv'
BY RuntimePatchLInv, RuntimeWriteLInv, ObserveLInv, SaveObservationLInv DEF RuntimeStep

-----------------------------------------------------------------------------
(* Publications and routes *)

\* The publication row a step works on is one up to the target's.
LEMMA PublicationRange ==
    ASSUME LInv, Working
    PROVE  PublicationGen \in 1 .. target
<1> DEFINE S == {g \in 1 .. target : pub[g] # NoPublication}
<1>1. target \in 1 .. Len(ops) /\ Len(ops) \in Nat /\ target \in Nat
  BY Situation, SMTT(15)
<1>2. Highest(S) \in 0 .. target
  <2>1. S \in SUBSET (1 .. target)
    OBVIOUS
  <2> HIDE DEF S
  <2> QED
    BY <1>1, <2>1, HighestRange
<1> HIDE DEF S
<1> QED
  BY <1>1, <1>2, SMTT(15) DEF PublicationGen, LatestRow, S

\* A step that writes a publication row or a route: neither the runtime nor
\* anything else changes, and a row is only ever written up to the target's.
LEMMA PublicationLInv ==
    ASSUME LInv, Working, UNCHANGED journal, item' = item, seen' = seen, pc # "claim",
           view[proc].step \in {"withdraw_publication", "publish"},
           UNCHANGED <<obs, res, remote, cr, model, rt>>,
           pub' \in [Generations -> PublicationRows], route' \in [Generations -> RouteStates],
           \A g \in Generations : g > target => pub'[g] = pub[g],
           RouteHasRuntime', RouteIsNewest',
           pc' \in WorkLabels \cup {"retry_step"}, pc' # "claim",
           pc' \in WorkLabels => LabelOfStep(view[proc].step)' /\ WorkDoing' /\ WorkDone'
    PROVE  LInv'
<1>1. view' = view /\ target' = target /\ kind' = kind /\ ops' = ops
  BY DEF journal, target, kind
<1>2. target \in 1 .. Len(ops) /\ Len(ops) \in Nat /\ MaxOps \in Nat
  BY Situation
<1>3. LifecycleType'
  BY Known DEF LifecycleType
<1>4. Common'
  <2>1. QuotaExclusive' /\ QuotaUnused'
    BY Known DEF Common, QuotaExclusive, QuotaUnused
  <2>2. RowsReached'
    BY <1>1, <1>2, Known, SMTT(15) DEF Common, RowsReached, Generations
  <2> QED
    BY <2>1, <2>2 DEF Common
<1>5. WorkBefore'
  <2>1. RuntimeBefore(target, view[proc].step)'
    BY <1>1, Known DEF WorkBefore, RuntimeBefore, RuntimeOf
  <2> QED
    BY <2>1, Known, ResourceFrame, ReadyFrame, QuotaFrame DEF WorkBefore
<1> QED
  BY <1>3, <1>4, <1>5, StepLInv

\* While a publish is under way no other generation has a route.
LEMMA OnlyRoute ==
    ASSUME LInv, Working, view[proc].step = "publish",
           NEW g \in Generations, route[g] # "absent"
    PROVE  g = target
BY Known DEF WorkBefore, RuntimeBefore, RuntimeOf, Common, RouteHasRuntime

\* Writing the publication row, before and after the route is changed.
LEMMA SavePublicationLInv ==
    ASSUME LInv,
           NEW label, NEW state, NEW next, SavePublication(label, state, next),
           \/ label = "pub_withdrawing" /\ state = "withdrawing" /\ next = "route_delete"
           \/ label = "pub_withdrawn" /\ state = "withdrawn" /\ next = "advance"
           \/ label = "pub_publishing" /\ state = "publishing" /\ next = "source"
           \/ label = "pub_published" /\ state = "published" /\ next = "advance"
    PROVE  LInv'
<1> DEFINE q == PublicationGen
           s == view[proc].step
<1>1. Working /\ pc = label
  BY DEF SavePublication, At, Working, WorkLabels
<1>2. /\ UNCHANGED journal /\ item' = item /\ seen' = seen
      /\ UNCHANGED <<obs, res, remote, cr, model, rt, route>>
  BY DEF SavePublication, cluster
<1>3. CASE ~OperationFence
  BY <1>1, <1>2, <1>3, GiveUpLInv DEF SavePublication, Goto
<1>4. CASE OperationFence
  <2>1. /\ LifecycleType /\ Common
        /\ label \in {"pub_withdrawing", "pub_withdrawn"} => s = "withdraw_publication"
        /\ label \in {"pub_publishing", "pub_published"} => s = "publish"
        /\ label = "pub_withdrawn" => NoRoute
        /\ label = "pub_published" => route[target] = "live"
    BY <1>1, Known DEF LabelOfStep, WorkDoing, Doing
  <2>2. /\ q \in 1 .. target /\ target \in 1 .. Len(ops) /\ Len(ops) \in Nat
        /\ Len(ops) <= MaxOps /\ MaxOps \in Nat /\ target \in Generations
    BY <1>1, PublicationRange, Situation
  <2>3. q \in Generations
    BY <2>2, SMTT(15) DEF Generations
  <2>4. s = "publish" => q = target
    BY DEF PublicationGen
  <2>5. view' = view /\ target' = target /\ kind' = kind
    BY <1>2 DEF journal, target, kind
  <2> HIDE DEF s, q
  <2>6. pub' = [pub EXCEPT ![q] = [desired |-> state,
                                   observed |-> IF state \in {"publishing", "withdrawing"}
                                                THEN @.observed ELSE state]]
        /\ pc' = next
    BY <1>4 DEF SavePublication, Goto, q
  <2>7. /\ pub' \in [Generations -> PublicationRows]
        /\ \A g \in Generations : g # q => pub'[g] = pub[g]
        /\ pub'[q].desired = state /\ pub'[q] # NoPublication
        /\ state = "published" => pub'[q] = [desired |-> "published", observed |-> "published"]
    BY <2>1, <2>3, <2>6 DEF LifecycleType, PublicationRows, NoPublication
  <2>8. \A g \in Generations : g > target => pub'[g] = pub[g]
    BY <2>2, <2>7, SMTT(15) DEF Generations
  <2>9. RouteHasRuntime'
    BY <1>2, <2>1 DEF Common, RouteHasRuntime
  <2>10. RouteIsNewest'
    <3> SUFFICES ASSUME NEW g \in Generations, route[g] # "absent"
                 PROVE  /\ pub'[g] # NoPublication
                        /\ \A h \in Generations : h > g => pub'[h] = NoPublication
      BY <1>2 DEF RouteIsNewest
    <3>1. g = q
      BY <1>1, <2>1, <2>4, NewestRowFound, OnlyRoute DEF s, q
    <3>2. \A h \in Generations : h > g => pub[h] = NoPublication
      BY <2>1 DEF Common, RouteIsNewest
    <3> QED
      BY <2>3, <2>7, <3>1, <3>2, SMTT(15) DEF Generations
  <2>11. pc' \in WorkLabels /\ LabelOfStep(view[proc].step)' /\ WorkDoing' /\ WorkDone'
    BY <1>2, <2>1, <2>4, <2>5, <2>6, <2>7
       DEF WorkLabels, LabelOfStep, WorkDoing, Doing, WorkDone, Done, NoRoute, s
  <2>12. pc' # "claim" /\ pc # "claim" /\ s \in {"withdraw_publication", "publish"}
    BY <1>1, <2>1, <2>6
  <2>13. route' \in [Generations -> RouteStates]
    BY <1>2, <2>1 DEF LifecycleType
  <2> QED
    BY <1>1, <1>2, <2>7, <2>8, <2>9, <2>10, <2>11, <2>12, <2>13, PublicationLInv DEF s
<1> QED
  BY <1>3, <1>4

\* Asking for the deletion of the route of the row, and putting up that of the
\* target.
LEMMA RouteWriteLInv ==
    ASSUME LInv, RouteDelete \/ RoutePatch
    PROVE  LInv'
<1>1. Working /\ pc \in {"route_delete", "route_patch"}
  BY DEF RouteDelete, RoutePatch, At, Working, WorkLabels
<1>2. /\ UNCHANGED journal /\ item' = item /\ seen' = seen
      /\ UNCHANGED <<pub, obs, res, remote, cr, model, rt>>
  BY DEF RouteDelete, RoutePatch, tables
<1>3. /\ LifecycleType /\ Common /\ WorkBefore
      /\ RouteDelete => view[proc].step = "withdraw_publication"
      /\ RoutePatch => view[proc].step = "publish" /\ pub[target] # NoPublication
  BY <1>1, Known DEF LabelOfStep, WorkDoing, Doing, RouteDelete, RoutePatch, At
<1>4. view' = view /\ target' = target /\ kind' = kind
  BY <1>2 DEF journal, target, kind
<1>5. target \in Generations /\ target \in 1 .. Len(ops)
  BY <1>1, Situation
<1>6. CASE RouteDelete
  <2>1. /\ route' \in [Generations -> RouteStates] /\ pc' = "route_gone"
        /\ \A g \in Generations : route'[g] # "absent" => route[g] # "absent"
    BY <1>3, <1>6 DEF LifecycleType, RouteStates, RouteDelete, Goto
  <2>2. RouteHasRuntime' /\ RouteIsNewest'
    BY <1>2, <1>3, <2>1 DEF Common, RouteHasRuntime, RouteIsNewest
  <2>3. LabelOfStep(view[proc].step)' /\ WorkDoing' /\ WorkDone'
    BY <1>3, <1>4, <1>6, <2>1 DEF LabelOfStep, WorkDoing, Doing, WorkDone
  <2> QED
    BY <1>1, <1>2, <1>3, <1>6, <2>1, <2>2, <2>3, PublicationLInv DEF LifecycleType,
       WorkLabels
<1>7. CASE RoutePatch
  <2>1. CASE route' = route /\ pc' = "retry_step"
    BY <1>1, <1>2, <2>1, GiveUpLInv
  <2>2. CASE route' = [route EXCEPT ![target] = "live"] /\ pc' = "route_confirm"
    <3>1. /\ route' \in [Generations -> RouteStates] /\ route'[target] = "live"
          /\ \A g \in Generations : g # target => route'[g] = route[g]
      BY <1>3, <1>5, <2>2 DEF LifecycleType, RouteStates
    <3>2. \A g \in Generations : route'[g] # "absent" => g = target
      BY <1>1, <1>3, <1>7, <3>1, OnlyRoute
    <3>3. RuntimeOf(target)
      BY <1>3, <1>7 DEF WorkBefore, RuntimeBefore
    <3>4. RouteHasRuntime'
      BY <1>2, <3>2, <3>3 DEF RouteHasRuntime, RuntimeOf
    <3>5. RouteIsNewest'
      BY <1>1, <1>2, <1>3, <1>7, <3>2 DEF Common, RowsReached, RouteIsNewest
    <3>6. LabelOfStep(view[proc].step)' /\ WorkDoing' /\ WorkDone'
      BY <1>2, <1>3, <1>4, <1>7, <2>2, <3>1 DEF LabelOfStep, WorkDoing, Doing, WorkDone
    <3> QED
      BY <1>1, <1>2, <1>3, <1>7, <2>2, <3>1, <3>4, <3>5, <3>6, PublicationLInv
         DEF LifecycleType, WorkLabels
  <2> QED
    BY <1>7, <2>1, <2>2 DEF RoutePatch, Goto
<1> QED
  BY <1>6, <1>7

\* The steps on publications and routes.
LEMMA PublicationStepLInv ==
    ASSUME LInv, PublicationStep
    PROVE  LInv'
<1>1. CASE \/ SavePublication("pub_withdrawing", "withdrawing", "route_delete")
           \/ SavePublication("pub_withdrawn", "withdrawn", "advance")
           \/ SavePublication("pub_publishing", "publishing", "source")
           \/ SavePublication("pub_published", "published", "advance")
  BY <1>1, SavePublicationLInv
<1>2. CASE RouteDelete \/ RouteGone \/ RoutePatch \/ RouteConfirm
  BY <1>2, RouteWriteLInv, RouteGoneLInv, RouteConfirmLInv
<1> QED
  BY <1>1, <1>2 DEF PublicationStep

-----------------------------------------------------------------------------
(* The cluster, the lease and the loop *)

\* What the cluster does by itself: downloads end, and what was told to go
\* goes.
ClusterMoves ==
    /\ UNCHANGED <<pub, obs, res, remote, cr>>
    /\ \A g \in Generations :
        /\ model[g] = "ready" => model'[g] = "ready"
        /\ model[g] = "absent" => model'[g] = "absent"
        /\ (route'[g] = "live") <=> (route[g] = "live")
        /\ route[g] = "absent" => route'[g] = "absent"
    /\ \/ rt'.st = rt.st /\ rt'.gen = rt.gen /\ rt'.bound = rt.bound
       \/ rt.st = "ending" /\ rt'.st = "absent"

\* No move of the cluster takes away what a step found or has done.
LEMMA ClusterKeeps ==
    ASSUME LInv, ClusterMoves, pc' = pc, seen' = seen,
           UNCHANGED <<ops, current, gen, desired, deleted, view>>
    PROVE  Common' /\ OnHand' /\ Rest'
<1>1. target' = target /\ kind' = kind /\ Working' = Working
  BY DEF target, kind, Working
<1>2. Common'
  <2>1. RouteHasRuntime' /\ RouteIsNewest'
    BY DEF LInv, Common, RouteHasRuntime, RouteIsNewest, ClusterMoves
  <2>2. QuotaExclusive' /\ QuotaUnused'
    BY DEF LInv, Common, QuotaExclusive, QuotaUnused, ClusterMoves
  <2>3. RowsReached'
    BY <1>1 DEF LInv, Common, RowsReached, ClusterMoves
  <2> QED
    BY <2>1, <2>2, <2>3 DEF Common
<1>3. NoRoute => NoRoute'
  BY DEF NoRoute, ClusterMoves
<1>4. /\ rt.st = "absent" => rt'.st = "absent"
      /\ rt.st = "up" => rt'.st = "up" /\ rt'.gen = rt.gen /\ rt'.bound = rt.bound
      /\ rt.st # "up" => rt'.st # "up"
  BY DEF ClusterMoves
<1>5. /\ RuntimeBefore(target, view[proc].step) => RuntimeBefore(target, view[proc].step)'
      /\ RuntimeBefore(current, ops[current].step) => RuntimeBefore(current, ops[current].step)'
  BY <1>1, <1>3, <1>4 DEF RuntimeBefore, RuntimeOf
<1>6. (ResourceBound => ResourceBound') /\ (NoModel => NoModel') /\ cr' = cr
  BY DEF ResourceBound, NoModel, ClusterMoves
<1>7. /\ ResourceBefore(kind, view[proc].step) => ResourceBefore(kind, view[proc].step)'
      /\ ResourceBefore(ops[current].kind, ops[current].step) =>
            ResourceBefore(ops[current].kind, ops[current].step)'
  BY <1>1, <1>6 DEF ResourceBefore
<1>8. \A g \in Generations : model[g] = "ready" => model'[g] = "ready"
  BY DEF ClusterMoves
<1>9. obs' = obs /\ res' = res /\ remote' = remote /\ pub' = pub
  BY DEF ClusterMoves
<1>10. Active(current) => current \in Generations
  BY JournalBounds, SMTT(15) DEF LInv, JInv, JournalTypeOK, ActiveIsCurrent, CurrentGoesOn,
     Generations
<1>11. Working => WorkBefore'
  <2>1. ReadyBefore(target, view[proc].step)' \/ ~Working
    BY <1>1, <1>8, <1>9, Known, Situation DEF WorkBefore, ReadyBefore
  <2>2. QuotaBefore(target, kind, view[proc].step)' \/ ~Working
    BY <1>1, <1>9, Known DEF WorkBefore, QuotaBefore, OnlyHeld, Held, Paid
  <2> QED
    BY <1>5, <1>7, <2>1, <2>2, Known DEF WorkBefore
<1>12. ~Working /\ Active(current) => CurrentBefore'
  <2> SUFFICES ASSUME ~Working, Active(current) PROVE CurrentBefore'
    OBVIOUS
  <2>1. CurrentBefore /\ current \in Generations
    BY <1>10, CurrentReady
  <2>2. ReadyBefore(current, ops[current].step)'
    BY <1>8, <1>9, <2>1 DEF CurrentBefore, ReadyBefore
  <2>3. QuotaBefore(current, ops[current].kind, ops[current].step)'
    BY <1>9, <2>1 DEF CurrentBefore, QuotaBefore, OnlyHeld, Held, Paid
  <2> QED
    BY <1>5, <1>7, <2>1, <2>2, <2>3 DEF CurrentBefore
<1>13. Working => WorkDoing' /\ WorkDone'
  <2> SUFFICES ASSUME Working PROVE WorkDoing' /\ WorkDone'
    OBVIOUS
  <2>1. WorkDoing /\ WorkDone /\ target \in Generations
    BY Known, Situation
  <2>2. model[target] = "ready" => model'[target] = "ready"
    BY <1>8, <2>1
  <2>3. (route'[target] = "live") <=> (route[target] = "live")
    BY <2>1 DEF ClusterMoves
  <2>4. Released => Released'
    BY <1>9 DEF Released, Held
  <2>5. WorkDoing'
    BY <1>1, <1>3, <1>4, <1>6, <1>9, <2>1, <2>2, <2>3, <2>4, SMTT(15) DEF WorkDoing, Doing
  <2>6. Paid(target) => Paid(target)'
    BY <1>1, <1>9 DEF Paid
  <2>7. RuntimeOf(target) => RuntimeOf(target)'
    BY <1>1, <1>4 DEF RuntimeOf
  <2>8. WorkDone'
    BY <1>1, <1>3, <1>4, <1>6, <1>9, <2>1, <2>2, <2>3, <2>4, <2>6, <2>7 DEF WorkDone, Done
  <2> QED
    BY <2>5, <2>8
<1>14. OnHand'
  BY <1>1, <1>11, <1>12, <1>13 DEF OnHand, Active
<1>15. Rest'
  <2> SUFFICES ASSUME ops[current].phase = "succeeded"
               PROVE  /\ Settled'
                      /\ (desired = "running" => Paid(gen) /\ OnlyHeld(gen))'
                      /\ (desired = "stopped" => Released)'
    BY DEF Rest
  <2>1. /\ Settled
        /\ desired = "running" => Paid(gen) /\ OnlyHeld(gen)
        /\ desired = "stopped" => Released
    BY DEF LInv, Rest
  <2>2. Settled'
    BY <1>4, <1>9, <2>1 DEF Settled, ClusterMoves
  <2> QED
    BY <1>9, <2>1, <2>2 DEF Paid, OnlyHeld, Held, Released
<1> QED
  BY <1>2, <1>14, <1>15

\* A move of the cluster, the lease, the row or the clock.
LEMMA QuietLInv ==
    ASSUME LInv, JInv', ClusterMoves, UNCHANGED process,
           UNCHANGED <<ops, current, gen, desired, deleted, view>>,
           model' \in [Generations -> ModelStates], route' \in [Generations -> RouteStates],
           rt' \in [st : {"absent", "up", "ending"}, gen : 0 .. MaxOps,
                    bound : BOOLEAN, ready : BOOLEAN]
    PROVE  LInv'
<1>1. pc' = pc /\ item' = item /\ seen' = seen
  BY DEF process
<1>2. LifecycleType'
  BY <1>1 DEF LInv, LifecycleType, ClusterMoves
<1>3. CurrentGoesOn'
  BY DEF LInv, CurrentGoesOn, Active
<1>4. Control'
  BY <1>1 DEF LInv, Control, LabelOfStep, Working, target, kind, Active
<1> QED
  BY <1>1, <1>2, <1>3, <1>4, ClusterKeeps DEF LInv

\* What Kubernetes finishes by itself, the clock, the end of a lease and an
\* event that marks the row.
LEMMA EnvironmentLInv ==
    ASSUME LInv, JInv',
           \/ ModelFetched \/ ModelFails \/ ModelVanishes \/ RuntimeReady \/ RuntimeVanishes
           \/ RouteVanishes \/ Notify \/ RowElapses \/ LeaseExpires \/ OldLeaseExpires
           \/ UNCHANGED vars
    PROVE  LInv'
<1>1. LifecycleType
  BY DEF LInv
<1>2. MaxOps \in Nat
  BY JournalBounds
<1>3. CASE ModelFetched \/ ModelFails \/ ModelVanishes
  <2>1. /\ model' \in [Generations -> ModelStates]
        /\ \A g \in Generations : /\ model[g] = "ready" => model'[g] = "ready"
                                  /\ model[g] = "absent" => model'[g] = "absent"
    BY <1>1, <1>3 DEF LifecycleType, ModelStates, ModelFetched, ModelFails, ModelVanishes
  <2>2. UNCHANGED journal /\ UNCHANGED process /\ UNCHANGED <<pub, obs, res, remote, cr, rt, route>>
    BY <1>3 DEF ModelFetched, ModelFails, ModelVanishes, tables
  <2> QED
    BY <1>1, <2>1, <2>2, QuietLInv DEF LifecycleType, ClusterMoves, journal
<1>4. CASE RuntimeReady \/ RuntimeVanishes
  <2>1. rt \in [st : {"absent", "up", "ending"}, gen : 0 .. MaxOps,
                bound : BOOLEAN, ready : BOOLEAN]
    BY <1>1 DEF LifecycleType
  <2>2. /\ rt' \in [st : {"absent", "up", "ending"}, gen : 0 .. MaxOps,
                    bound : BOOLEAN, ready : BOOLEAN]
        /\ \/ rt'.st = rt.st /\ rt'.gen = rt.gen /\ rt'.bound = rt.bound
           \/ rt.st = "ending" /\ rt'.st = "absent"
    <3>1. CASE RuntimeReady
      BY <2>1, <3>1 DEF RuntimeReady
    <3>2. CASE RuntimeVanishes
      <4>1. 0 \in 0 .. MaxOps
        BY <1>2, SMTT(15)
      <4> QED
        BY <3>2, <4>1 DEF RuntimeVanishes, NoRuntime
    <3> QED
      BY <1>4, <3>1, <3>2
  <2>3. UNCHANGED journal /\ UNCHANGED process
        /\ UNCHANGED <<pub, obs, res, remote, cr, model, route>>
    BY <1>4 DEF RuntimeReady, RuntimeVanishes, tables
  <2> QED
    BY <1>1, <2>2, <2>3, QuietLInv DEF LifecycleType, ClusterMoves, journal
<1>5. CASE RouteVanishes
  <2>1. /\ route' \in [Generations -> RouteStates]
        /\ \A g \in Generations : /\ (route'[g] = "live") <=> (route[g] = "live")
                                  /\ route[g] = "absent" => route'[g] = "absent"
    BY <1>1, <1>5 DEF LifecycleType, RouteStates, RouteVanishes
  <2>2. UNCHANGED journal /\ UNCHANGED process
        /\ UNCHANGED <<pub, obs, res, remote, cr, model, rt>>
    BY <1>5 DEF RouteVanishes, tables
  <2> QED
    BY <1>1, <2>1, <2>2, QuietLInv DEF LifecycleType, ClusterMoves, journal
<1>6. CASE \/ Notify \/ RowElapses \/ LeaseExpires \/ OldLeaseExpires \/ UNCHANGED vars
  <2>1. /\ UNCHANGED <<ops, current, gen, desired, deleted, view>> /\ UNCHANGED process
        /\ UNCHANGED <<pub, obs, res, remote, cr, model, rt, route>>
    BY <1>6 DEF Notify, RowElapses, LeaseExpires, OldLeaseExpires, LeaseLost, vars,
       journal,
       tables, cluster
  <2> QED
    BY <1>1, <2>1, QuietLInv DEF LifecycleType, ClusterMoves
<1> QED
  BY <1>3, <1>4, <1>5, <1>6

\* A move of the loop outside of an operation: it writes nothing but the
\* observation, and that only while no operation is active.
LEMMA RestLInv ==
    ASSUME LInv, JInv', pc \in RestLabels, pc' \in RestLabels,
           UNCHANGED <<ops, current, gen, desired, deleted, view>>,
           UNCHANGED <<pub, res, remote, cr, model, rt, route>>,
           seen' \in {"none", "ready", "degraded", "stopped"},
           item' \in {item, gen}, gen \in 0 .. MaxOps,
           pc' \in {"ensure", "ensure_save"} /\ gen = item' => ~Active(current),
           \/ obs' = obs
           \/ /\ ~Active(current)
              /\ obs' \in [gen : 0 .. MaxOps,
                           phase : {"none", "pending", "ready", "degraded", "stopped"},
                           modelReady : BOOLEAN]
    PROVE  LInv'
<1>1. ~Working /\ ~Working'
  BY DEF Working, WorkLabels, RestLabels
<1>2. view[proc] = NoView /\ item' <= gen
  BY SMTT(15) DEF LInv, Control
<1>3. LifecycleType'
  BY DEF LInv, LifecycleType
<1>4. CurrentGoesOn'
  BY DEF LInv, CurrentGoesOn, Active
<1>5. Control'
  BY <1>1, <1>2 DEF Control, Active
<1>6. Common'
  BY <1>1 DEF LInv, Common, RouteHasRuntime, RouteIsNewest, RowsReached, QuotaExclusive,
     QuotaUnused
<1>7. Active(current) => CurrentBefore'
  <2> SUFFICES ASSUME Active(current) PROVE CurrentBefore'
    OBVIOUS
  <2>1. CurrentBefore /\ obs' = obs
    BY CurrentReady
  <2> QED
    BY <2>1 DEF CurrentBefore, RuntimeBefore, ResourceBefore, ReadyBefore, QuotaBefore,
       NoRoute,
       RuntimeOf, ResourceBound, NoModel, OnlyHeld, Held, Paid
<1>8. OnHand'
  BY <1>1, <1>7 DEF OnHand, Active
<1>9. Rest'
  BY DEF LInv, Rest, Settled, Paid, OnlyHeld, Held, Released
<1> QED
  BY <1>3, <1>4, <1>5, <1>6, <1>8, <1>9 DEF LInv

\* The journal behind a state of the service.
LEMMA TheJournal ==
    ASSUME LInv
    PROVE  /\ ops \in Seq(Operation) /\ Len(ops) \in Nat /\ Len(ops) >= 1
           /\ current = Len(ops) /\ gen = Len(ops) /\ current \in 1 .. Len(ops)
           /\ current \in Generations /\ gen \in 0 .. MaxOps /\ MaxOps \in Nat
           /\ ops[current] \in Operation
           /\ proc \in Workers /\ view \in [Workers -> [id : Nat, phase : Phases, step : Steps]]
<1>1. /\ ops \in Seq(Operation) /\ Len(ops) >= 1 /\ current = Len(ops) /\ gen = Len(ops)
      /\ view \in [Workers -> [id : Nat, phase : Phases, step : Steps]]
  BY DEF LInv, JInv, JournalTypeOK, ActiveIsCurrent
<1>2. Len(ops) <= MaxOps /\ MaxOps \in Nat
  BY JournalBounds DEF LInv, CurrentGoesOn
<1>3. current \in 1 .. Len(ops) /\ Len(ops) \in Nat
  BY <1>1, SMTT(15)
<1>4. ops[current] \in Operation
  BY <1>1, <1>3, SMTT(15)
<1> QED
  BY <1>1, <1>2, <1>3, <1>4, TheProcess, SMTT(15) DEF Generations

\* The loop around the operations: taking the row, finding nothing to run,
\* reconciling, and writing the row back.
LEMMA LoopLInv ==
    ASSUME LInv, JInv', Claim \/ Commit \/ RetryWork \/ Ensure \/ EnsureSave
    PROVE  LInv'
<1>1. gen \in 0 .. MaxOps /\ LifecycleType
  BY TheJournal DEF LInv
<1>2. CASE Claim
  <2>1. /\ pc = "idle" /\ pc' = "load" /\ item' = gen /\ seen' = seen
        /\ UNCHANGED <<ops, current, gen, desired, deleted, view>>
        /\ UNCHANGED <<pub, obs, res, remote, cr, model, rt, route>>
    BY <1>2 DEF Claim, Lease, At, Goto, tables, cluster
  <2> QED
    BY <1>1, <2>1, RestLInv DEF RestLabels, LifecycleType
<1>3. CASE Commit \/ RetryWork
  <2>1. /\ pc \in {"commit", "retry_work"} /\ pc' = "idle" /\ item' = item /\ seen' = seen
        /\ UNCHANGED <<ops, current, gen, desired, deleted, view>>
        /\ UNCHANGED <<pub, obs, res, remote, cr, model, rt, route>>
    BY <1>3 DEF Commit, RetryWork, LeaseLost, journal, At, Goto, tables, cluster
  <2> QED
    BY <1>1, <2>1, RestLInv DEF RestLabels, LifecycleType
<1>4. CASE Ensure
  <2>1. /\ pc = "ensure" /\ pc' \in {"ensure_save", "retry_work"} /\ item' = item
        /\ seen' \in {seen, "stopped", "ready", "degraded"}
        /\ UNCHANGED <<ops, current, gen, desired, deleted, view>>
        /\ UNCHANGED <<pub, obs, res, remote, cr, model, rt, route>>
    BY <1>4 DEF Ensure, journal, At, Goto, tables, cluster
  <2>2. gen = item' => ~Active(current)
    BY <2>1 DEF LInv, Control
  <2> QED
    BY <1>1, <2>1, <2>2, RestLInv DEF RestLabels, LifecycleType
<1>5. CASE EnsureSave
  <2>1. /\ pc = "ensure_save" /\ pc' \in {"commit", "retry_work"} /\ item' = item
        /\ seen' = "none"
        /\ obs' = obs \/ (gen = item /\ obs' = [obs EXCEPT !.gen = item, !.phase = seen])
        /\ UNCHANGED <<ops, current, gen, desired, deleted, view>>
        /\ UNCHANGED <<pub, res, remote, cr, model, rt, route>>
    BY <1>5 DEF EnsureSave, CommitFence, journal, At, Goto, cluster
  <2>2. gen = item => ~Active(current)
    BY <2>1 DEF LInv, Control
  <2>3. obs' \in [gen : 0 .. MaxOps,
                  phase : {"none", "pending", "ready", "degraded", "stopped"},
                  modelReady : BOOLEAN]
    <3>1. obs \in [gen : 0 .. MaxOps,
                   phase : {"none", "pending", "ready", "degraded", "stopped"},
                   modelReady : BOOLEAN]
          /\ item \in 0 .. MaxOps /\ seen \in {"none", "ready", "degraded", "stopped"}
      BY <1>1 DEF LifecycleType
    <3> QED
      BY <2>1, <3>1
  <2> QED
    BY <1>1, <2>1, <2>2, <2>3, RestLInv DEF RestLabels
<1> QED
  BY <1>2, <1>3, <1>4, <1>5

\* A call that reports an error without effect.
LEMMA StepFailsLInv ==
    ASSUME LInv, StepFails
    PROVE  LInv'
<1>1. /\ UNCHANGED journal /\ item' = item /\ seen' = "none"
      /\ UNCHANGED <<pub, obs, res, remote, cr, model, rt, route>>
  BY DEF StepFails, tables, cluster
<1>2. CASE Working
  <2>1. pc' = "retry_step"
    BY <1>2 DEF StepFails, Goto, Working, WorkLabels
  <2> QED
    BY <1>1, <1>2, <2>1, GiveUpLInv
<1>3. CASE ~Working
  <2>1. pc \in {"load", "ensure", "ensure_save"}
    BY <1>3 DEF StepFails, LInv, Control, Working, RestLabels, WorkLabels
  <2>2. pc' = "retry_work" /\ JInv'
    BY <1>1, <2>1, JournalKept DEF StepFails, Goto, LInv
  <2>3. gen \in 0 .. MaxOps
    BY TheJournal
  <2> QED
    BY <1>1, <2>1, <2>2, <2>3, RestLInv DEF RestLabels, journal
<1> QED
  BY <1>2, <1>3

-----------------------------------------------------------------------------
(* The operation on hand *)

\* The tables and the cluster stay as they are.
Outside == <<pub, obs, res, remote, cr, model, rt, route>>

\* A worker that lets go of its operation, at rest or about to report: what
\* the current operation needs is there, and nothing else has changed.
LEMMA LetGoLInv ==
    ASSUME LInv, JInv', CurrentGoesOn', UNCHANGED Outside, item' = item,
           seen' \in {seen, "none"}, UNCHANGED <<current, gen, desired>>,
           \/ pc' = "retry_step" /\ view' = view /\ view[proc] # NoView
           \/ pc' \in {"idle", "commit", "retry_work"} /\ view'[proc] = NoView,
           target \in 1 .. Len(ops) \/ pc' # "retry_step",
           Len(ops') = Len(ops),
           Active(current)' => CurrentBefore', Rest'
    PROVE  LInv'
<1>1. ~Working'
  BY DEF Working, WorkLabels
<1>2. LifecycleType'
  BY SMTT(15) DEF LInv, LifecycleType, Outside
<1>3. Control'
  BY <1>1, SMTT(15) DEF LInv, Control, RestLabels, target
<1>4. Common'
  BY <1>1 DEF LInv, Common, RouteHasRuntime, RouteIsNewest, RowsReached, QuotaExclusive,
     QuotaUnused, Outside
<1>5. OnHand'
  BY <1>1 DEF OnHand
<1> QED
  BY <1>2, <1>3, <1>4, <1>5 DEF LInv

\* What a step has done and found is what the next one needs.
LEMMA NextStepBefore ==
    ASSUME LInv, Working, pc = "advance", current = target,
           UNCHANGED Outside, current' = current,
           ops'[current].kind = kind, ops'[current].step = NextStep, NextStep # "complete"
    PROVE  CurrentBefore'
<1> DEFINE s == view[proc].step
           n == NextStep
<1>1. /\ WorkBefore /\ Done(target, kind, s) /\ Common
      /\ kind \in Kinds /\ s \in Steps \ {"complete"}
  BY Known, Situation DEF WorkDone
<1>2. ComesAfter(kind, s, n)
  <2>1. ActiveStep(kind, s)
    BY DEF LInv, Control
  <2> QED
    BY <1>1, <2>1, Successor DEF NextStep
<1> HIDE DEF s, n
<1>3. current' = target /\ ops'[current'].kind = kind /\ ops'[current'].step = n
  BY DEF n
<1>4. UNCHANGED <<pub, obs, res, remote, cr, model, rt, route>>
  BY DEF Outside
<1>5. /\ RuntimeBefore(target, s) /\ ResourceBefore(kind, s)
      /\ ReadyBefore(target, s) /\ QuotaBefore(target, kind, s)
  BY <1>1 DEF WorkBefore, s
<1>6. RuntimeBefore(target, n)
  BY <1>1, <1>2, <1>5 DEF RuntimeBefore, Done, ComesAfter, Steps, n
<1>7. ResourceBefore(kind, n)
  BY <1>1, <1>2, <1>5 DEF ResourceBefore, Done, ComesAfter, Steps, n
<1>8. ReadyBefore(target, n)
  BY <1>1, <1>2, <1>5 DEF ReadyBefore, Done, ComesAfter, Steps, n
<1>9. QuotaBefore(target, kind, n)
  BY <1>1, <1>2, <1>5 DEF QuotaBefore, Done, ComesAfter, Steps, n, Released, OnlyHeld
<1>10. RuntimeBefore(current, ops[current].step)'
  BY <1>3, <1>4, <1>6 DEF RuntimeBefore, NoRoute, RuntimeOf
<1>11. ResourceBefore(ops[current].kind, ops[current].step)'
  BY <1>3, <1>4, <1>7 DEF ResourceBefore, ResourceBound, NoModel
<1>12. ReadyBefore(current, ops[current].step)'
  BY <1>3, <1>4, <1>8 DEF ReadyBefore
<1>13. QuotaBefore(current, ops[current].kind, ops[current].step)'
  BY <1>3, <1>4, <1>9 DEF QuotaBefore, OnlyHeld, Held, Paid
<1> QED
  BY <1>10, <1>11, <1>12, <1>13 DEF CurrentBefore

\* What the last step leaves is what rest means for the operation.
LEMMA LastStepRests ==
    ASSUME LInv, Working, pc = "advance", current = target,
           UNCHANGED Outside, UNCHANGED <<current, gen, desired>>,
           deleted' = (deleted \/ kind = "delete"), NextStep = "complete"
    PROVE  Rest'
<1> DEFINE s == view[proc].step
<1>1. /\ WorkBefore /\ Done(target, kind, s) /\ Common
      /\ kind \in Kinds /\ s \in Steps \ {"complete"} /\ target \in Generations
      /\ Active(current)
  BY Known, Situation DEF WorkDone
<1>2. ComesAfter(kind, s, "complete")
  <2>1. ActiveStep(kind, s)
    BY DEF LInv, Control
  <2> QED
    BY <1>1, <2>1, Successor DEF NextStep
<1>3. ~deleted /\ desired = DesiredAfter(kind) /\ gen = target
  <2>1. gen = current
    BY TheJournal
  <2> QED
    BY <1>1, <2>1 DEF LInv, JInv, DeletedByDelete, DesiredFollowsOperation, kind,
       Active, ActivePhases
<1>4. /\ RuntimeBefore(target, s) /\ ResourceBefore(kind, s) /\ QuotaBefore(target, kind, s)
  BY <1>1 DEF WorkBefore
<1>5. UNCHANGED <<pub, obs, res, remote, cr, model, rt, route>> /\ gen' = gen /\ desired' = desired
  BY DEF Outside
<1>6. CASE s = "publish"
  <2>1. desired = "running" /\ ~deleted'
    BY <1>2, <1>3, <1>6 DEF ComesAfter, DesiredAfter
  <2>2. /\ ResourceBound /\ RuntimeOf(gen) /\ Paid(gen) /\ OnlyHeld(gen) /\ route[gen] = "live"
        /\ pub[gen] = [desired |-> "published", observed |-> "published"]
    BY <1>1, <1>2, <1>3, <1>4, <1>6 DEF RuntimeBefore, ResourceBefore, QuotaBefore,
       Done, ComesAfter
  <2>3. \A g \in Generations : (route[g] = "live") <=> g = gen
    BY <1>3, <1>6, <2>2, OnlyRoute
  <2>4. Settled'
    BY <1>5, <2>1, <2>2, <2>3 DEF Settled, ResourceBound, RuntimeOf
  <2>5. Paid(gen)' /\ OnlyHeld(gen)'
    BY <1>5, <2>2 DEF Paid, OnlyHeld, Held
  <2> QED
    BY <1>5, <2>1, <2>4, <2>5 DEF Rest
<1>7. CASE s = "release_quota"
  <2>1. kind \in {"stop", "delete"}
    BY <1>2, <1>7 DEF ComesAfter
  <2>2. rt.st = "absent" /\ NoRoute
    BY <1>4, <1>7 DEF RuntimeBefore
  <2>3. CASE kind = "stop"
    <3>1. desired = "stopped" /\ ~deleted' /\ ResourceBound /\ Released
      BY <1>1, <1>3, <1>4, <1>7, <2>3 DEF DesiredAfter, ResourceBefore, Done
    <3>2. Settled'
      BY <1>5, <2>2, <3>1 DEF Settled, ResourceBound, NoRoute
    <3> QED
      BY <1>5, <3>1, <3>2 DEF Rest, Released, Held
  <2>4. CASE kind = "delete"
    <3>1. desired = "deleted" /\ deleted' /\ cr.st = "absent" /\ NoModel
      BY <1>3, <1>4, <1>7, <2>4 DEF DesiredAfter, ResourceBefore
    <3>2. Settled'
      BY <1>5, <2>2, <3>1 DEF Settled, NoModel, NoRoute
    <3> QED
      BY <1>5, <3>1, <3>2 DEF Rest
  <2> QED
    BY <2>1, <2>3, <2>4
<1> QED
  BY <1>1, <1>2, <1>6, <1>7 DEF ComesAfter, Steps

\* A committed transition touches one operation, the current one, and only its
\* phase and step.
LEMMA AdvanceFacts ==
    ASSUME LInv, NEW phase, NEW step, Advance(proc, phase, step)
    PROVE  /\ current = target /\ target \in 1 .. Len(ops) /\ view[proc] # NoView
           /\ Len(ops') = Len(ops)
           /\ ops'[target].kind = kind /\ ops'[target].phase = phase /\ ops'[target].step = step
           /\ UNCHANGED <<current, gen, desired>>
           /\ deleted' = (deleted \/ (kind = "delete" /\ phase = "succeeded"))
<1>1. ops \in Seq(Operation) /\ current \in 1 .. Len(ops) /\ ops[current] \in Operation
  BY TheJournal
<1>2. current = target /\ view[proc] # NoView
  BY DEF Advance, CAS, target
<1> DEFINE o == [ops[target] EXCEPT !.phase = phase, !.step = step]
<1>3. ops' = [ops EXCEPT ![target] = o]
  BY DEF Advance, target
<1>4. /\ UNCHANGED <<current, gen, desired>>
      /\ deleted' = (deleted \/ (kind = "delete" /\ phase = "succeeded"))
  BY DEF Advance, target, kind
<1>5. ops[target] \in Operation
  BY <1>1, <1>2
<1>6. o.kind = kind /\ o.phase = phase /\ o.step = step
  BY <1>5 DEF Operation, kind
<1> HIDE DEF o
<1>7. ops'[target] = o /\ Len(ops') = Len(ops)
  BY <1>1, <1>2, <1>3, SMTT(15)
<1> QED
  BY <1>1, <1>2, <1>4, <1>6, <1>7

\* The transition to the next step, with or without its answer.
LEMMA AdvanceLInv ==
    ASSUME LInv, JInv', pc = "advance", Advance(proc, NextPhase, NextStep),
           UNCHANGED Outside, item' = item, seen' = seen,
           (pc' = "commit" /\ view' # view) \/ (pc' = "retry_step" /\ view' = view)
    PROVE  LInv'
<1>1. /\ current = target /\ target \in 1 .. Len(ops) /\ view[proc] # NoView
      /\ Len(ops') = Len(ops)
      /\ ops'[target].kind = kind /\ ops'[target].phase = NextPhase /\ ops'[target].step = NextStep
      /\ UNCHANGED <<current, gen, desired>>
      /\ deleted' = (deleted \/ (kind = "delete" /\ NextPhase = "succeeded"))
  BY AdvanceFacts
<1>2. Working /\ view[proc].phase = "running" /\ ActiveStep(kind, view[proc].step) /\ kind \in Kinds
  BY Situation DEF LInv, Control, Working, WorkLabels
<1>3. view' # view => view'[proc] = NoView
  BY <1>2, TheJournal DEF Advance, AfterAdvance
<1>4. NextStep \in Steps /\ (NextStep # "complete" => ActiveStep(kind, NextStep))
  BY <1>2, Successor DEF NextStep
<1>5. CurrentGoesOn'
  BY <1>1, <1>4 DEF LInv, CurrentGoesOn, Active, ActivePhases, NextPhase
<1>6. Active(current)' => CurrentBefore'
  BY <1>1, <1>2, NextStepBefore DEF Active, ActivePhases, NextPhase
<1>7. Rest'
  <2>1. CASE NextStep = "complete"
    BY <1>1, <1>2, <2>1, LastStepRests DEF NextPhase
  <2>2. CASE NextStep # "complete"
    BY <1>1, <2>2 DEF Rest, NextPhase
  <2> QED
    BY <2>1, <2>2
<1> QED
  BY <1>1, <1>3, <1>5, <1>6, <1>7, LetGoLInv

\* Moving the operation from pending to running.
LEMMA ClaimLInv ==
    ASSUME LInv, JInv', pc = "claim", Advance(proc, "running", view[proc].step),
           UNCHANGED Outside, item' = item, seen' = seen,
           (pc' = "enter" /\ view' # view) \/ (pc' = "retry_step" /\ view' = view)
    PROVE  LInv'
<1>1. /\ current = target /\ target \in 1 .. Len(ops) /\ view[proc] # NoView
      /\ Len(ops') = Len(ops)
      /\ ops'[target].kind = kind /\ ops'[target].phase = "running"
      /\ ops'[target].step = view[proc].step
      /\ UNCHANGED <<current, gen, desired>>
      /\ deleted' = deleted
  BY AdvanceFacts, SMTT(15) DEF LInv, JInv, JournalTypeOK
<1>2. /\ Working /\ view[proc].phase = "pending" /\ ActiveStep(kind, view[proc].step)
      /\ ops[target].step = view[proc].step
  BY DEF LInv, Control, Working, WorkLabels
<1>3. CurrentGoesOn'
  BY <1>1, <1>2 DEF LInv, CurrentGoesOn, Active, ActivePhases
<1>4. CurrentBefore'
  <2>1. CurrentBefore /\ ops'[current'].kind = ops[current].kind
        /\ ops'[current'].step = ops[current].step
    BY <1>1, <1>2, CurrentReady, Situation DEF kind
  <2> QED
    BY <1>1, <2>1, SMTT(15) DEF CurrentBefore, RuntimeBefore, ResourceBefore, ReadyBefore,
       QuotaBefore,
       NoRoute, RuntimeOf, ResourceBound, NoModel, OnlyHeld, Held, Paid, Outside
<1>5. Rest'
  BY <1>1 DEF Rest
<1>6. CASE pc' = "retry_step" /\ view' = view
  BY <1>1, <1>3, <1>4, <1>5, <1>6, LetGoLInv
<1>7. CASE pc' = "enter" /\ view' # view
  <2>1. view' = [view EXCEPT ![proc] = [@ EXCEPT !.phase = "running"]]
    BY <1>2, <1>7 DEF Advance, AfterAdvance
  <2>2. /\ view'[proc].id = target /\ view'[proc].phase = "running"
        /\ view'[proc].step = view[proc].step
    BY <2>1, TheJournal DEF target
  <2>3. target' = target /\ kind' = kind /\ Working' /\ pc' \in WorkLabels
    BY <1>1, <1>7, <2>2 DEF target, kind, Working, WorkLabels
  <2>4. LifecycleType'
    BY DEF LInv, LifecycleType, Outside
  <2>5. Control'
    <3>1. pc' \notin RestLabels /\ view'[proc] # NoView /\ pc' # "claim"
      BY <1>1, <1>7, <2>2, TheJournal, SMTT(15) DEF RestLabels, NoView
    <3>2. LabelOfStep(view[proc].step)'
      BY <1>7 DEF LabelOfStep
    <3>3. Active(current)'
      BY <1>1 DEF Active, ActivePhases
    <3> QED
      BY <1>1, <1>2, <1>7, <2>2, <2>3, <3>1, <3>2, <3>3 DEF LInv, Control, RestLabels
  <2>6. Common'
    BY <1>1, <1>2, <2>3 DEF LInv, Common, RouteHasRuntime, RouteIsNewest, RowsReached,
       QuotaExclusive, QuotaUnused, Outside
  <2>7. WorkBefore'
    BY <1>1, <1>4, <2>2, <2>3 DEF WorkBefore, CurrentBefore
  <2>8. WorkDoing' /\ WorkDone'
    BY <1>7 DEF WorkDoing, Doing, WorkDone
  <2>9. OnHand'
    BY <2>3, <2>7, <2>8 DEF OnHand
  <2> QED
    BY <1>3, <1>5, <2>4, <2>5, <2>6, <2>9 DEF LInv
<1> QED
  BY <1>6, <1>7

\* Loading the current operation, or finding none to run.
LEMMA LoadLInv ==
    ASSUME LInv, JInv', LoadOperation
    PROVE  LInv'
<1>1. /\ pc = "load" /\ item' = item /\ seen' = seen /\ gen \in 0 .. MaxOps
      /\ UNCHANGED <<pub, obs, res, remote, cr, model, rt, route>>
  BY TheJournal DEF LoadOperation, At, tables, cluster
<1>2. CASE /\ UNCHANGED journal
           /\ pc' = "retry_work" \/ (pc' = "ensure" /\ ~Active(current))
  <2>1. pc \in RestLabels /\ pc' \in RestLabels
    BY <1>1, <1>2 DEF RestLabels
  <2>2. pc' \in {"ensure", "ensure_save"} /\ gen = item' => ~Active(current)
    BY <1>2
  <2> QED
    BY <1>1, <1>2, <2>1, <2>2, RestLInv DEF journal, LInv, LifecycleType
<1>3. CASE /\ Load(proc)
           /\ pc' = (IF ops[current].phase = "pending" THEN "claim" ELSE "enter")
  <2>1. /\ Active(current)
        /\ view' = [view EXCEPT ![proc] = [id |-> current, phase |-> ops[current].phase,
                                           step |-> ops[current].step]]
        /\ UNCHANGED <<ops, current, gen, desired, deleted, holder>>
    BY <1>3 DEF Load
  <2>2. /\ view'[proc].id = current /\ view'[proc].phase = ops[current].phase
        /\ view'[proc].step = ops[current].step
    BY <2>1, TheJournal
  <2>3. /\ target' = current /\ kind' = ops[current].kind /\ Working' /\ pc' \in {"claim", "enter"}
        /\ current \in 1 .. Len(ops) /\ Len(ops) \in Nat /\ current = Len(ops)
    BY <1>3, <2>1, <2>2, TheJournal DEF target, kind, Working, WorkLabels
  <2>4. LifecycleType'
    BY <1>1 DEF LInv, LifecycleType
  <2>5. CurrentGoesOn'
    BY <2>1 DEF LInv, CurrentGoesOn, Active
  <2>6. Control'
    <3>1. pc' \notin RestLabels /\ pc' \in WorkLabels /\ pc' \notin {"ensure", "ensure_save"}
          /\ view'[proc] # NoView
      BY <2>2, <2>3, SMTT(15) DEF RestLabels, WorkLabels, NoView
    <3>2. LabelOfStep(view[proc].step)'
      BY <2>3 DEF LabelOfStep
    <3>3. Active(current)' /\ ActiveStep(ops[current].kind, ops[current].step)
          /\ ops[current].phase \in {"pending", "running"}
      BY <2>1 DEF LInv, CurrentGoesOn, Active, ActivePhases
    <3>4. item' <= gen'
      BY <1>1, <2>1 DEF LInv, Control
    <3> QED
      BY <1>3, <2>1, <2>2, <2>3, <3>1, <3>2, <3>3, <3>4 DEF Control
  <2>7. Common'
    <3>1. RowsReached'
      BY <1>1, <2>1, <2>3 DEF LInv, Common, RowsReached
    <3> QED
      BY <1>1, <3>1 DEF LInv, Common, RouteHasRuntime, RouteIsNewest, QuotaExclusive,
         QuotaUnused
  <2>8. WorkBefore'
    <3>1. CurrentBefore
      BY <2>1, CurrentReady
    <3> QED
      BY <1>1, <2>2, <2>3, <3>1, SMTT(15) DEF CurrentBefore, WorkBefore, RuntimeBefore,
         ResourceBefore,
         ReadyBefore, QuotaBefore, NoRoute, RuntimeOf, ResourceBound, NoModel, OnlyHeld, Held, Paid
  <2>9. WorkDoing' /\ WorkDone'
    BY <2>3 DEF WorkDoing, Doing, WorkDone
  <2>10. OnHand'
    BY <2>3, <2>8, <2>9 DEF OnHand
  <2>11. Rest'
    BY <2>1 DEF Rest, Active, ActivePhases
  <2> QED
    BY <2>4, <2>5, <2>6, <2>7, <2>10, <2>11 DEF LInv
<1> QED
  <2>1. \/ /\ Load(proc)
           /\ pc' = (IF ops[current].phase = "pending" THEN "claim" ELSE "enter")
        \/ UNCHANGED journal /\ pc' = "retry_work"
        \/ UNCHANGED journal /\ pc' = "ensure" /\ ~Active(current)
    BY DEF LoadOperation, Goto
  <2> QED
    BY <1>2, <1>3, <2>1

\* The transitions the process asks for.
LEMMA TransitionLInv ==
    ASSUME LInv, JInv', ClaimStep \/ AdvanceStep \/ AnswerLost
    PROVE  LInv'
<1>1. /\ item' = item /\ seen' = seen /\ UNCHANGED Outside
      /\ UNCHANGED <<pub, obs, res, remote, cr, model, rt, route>>
  BY DEF ClaimStep, AdvanceStep, AnswerLost, tables, cluster, Outside
<1>2. CASE /\ pc \in {"claim", "advance"} /\ pc' = "retry_step" /\ UNCHANGED journal
  BY <1>1, <1>2, GiveUpLInv DEF Working, WorkLabels
<1>3. CASE /\ pc = "claim" /\ Advance(proc, "running", view[proc].step)
           /\ (pc' = "enter" /\ view' # view) \/ (pc' = "retry_step" /\ view' = view)
  BY <1>1, <1>3, ClaimLInv
<1>4. CASE /\ pc = "advance" /\ Advance(proc, NextPhase, NextStep)
           /\ (pc' = "commit" /\ view' # view) \/ (pc' = "retry_step" /\ view' = view)
  BY <1>1, <1>4, AdvanceLInv
<1> QED
  BY <1>2, <1>3, <1>4 DEF ClaimStep, AdvanceStep, AnswerLost, At, Goto

\* CurrentBefore, like Rest, depends on the current operation's kind, phase and
\* step and on nothing else of the journal.
LEMMA SameOperation ==
    ASSUME UNCHANGED Outside, UNCHANGED <<current, gen, desired, deleted>>,
           ops'[current].kind = ops[current].kind,
           ops'[current].step = ops[current].step
    PROVE  /\ CurrentBefore => CurrentBefore'
           /\ ops'[current].phase = ops[current].phase => (Rest => Rest')
<1>1. UNCHANGED <<pub, obs, res, remote, cr, model, rt, route>>
  BY DEF Outside
<1>2. CurrentBefore => CurrentBefore'
  BY <1>1, SMTT(15) DEF CurrentBefore, RuntimeBefore, ResourceBefore, ReadyBefore, QuotaBefore,
     NoRoute, RuntimeOf, ResourceBound, NoModel, OnlyHeld, Held, Paid
<1>3. ops'[current].phase = ops[current].phase => (Rest => Rest')
  BY <1>1 DEF Rest, Settled, Paid, OnlyHeld, Held, Released
<1> QED
  BY <1>2, <1>3

\* The runner reports a failed step and returns.
LEMMA RetryLInv ==
    ASSUME LInv, JInv', RetryOperation
    PROVE  LInv'
<1>1. /\ pc = "retry_step" /\ pc' = "retry_work" /\ item' = item /\ seen' = seen
      /\ UNCHANGED Outside
  BY DEF RetryOperation, At, Goto, tables, cluster, Outside
<1>2. /\ UNCHANGED <<current, gen, desired, deleted>>
      /\ view' = [view EXCEPT ![proc] = NoView]
  BY DEF RetryOperation, RetryStep, Forget
<1>3. view'[proc] = NoView
  BY <1>2, TheJournal
<1>4. CASE RetryStep(proc)
  <2> DEFINE o == [ops[current] EXCEPT !.phase = "pending", !.waiting = TRUE]
  <2>1. Active(current) /\ ops[current] \in Operation /\ view[proc].id = current
    BY <1>4, CASCurrent, TheProcess DEF RetryStep, LInv
  <2>2. ops' = [ops EXCEPT ![current] = o]
    BY <1>4, <2>1 DEF RetryStep
  <2>3. o.kind = ops[current].kind /\ o.phase = "pending" /\ o.step = ops[current].step
    BY <2>1 DEF Operation
  <2> HIDE DEF o
  <2>4. Len(ops') = Len(ops) /\ ops'[current] = o
    BY <2>2, TheJournal, SMTT(15)
  <2>5. CurrentGoesOn'
    BY <1>2, <2>1, <2>3, <2>4 DEF LInv, CurrentGoesOn, Active, ActivePhases
  <2>6. CurrentBefore'
    BY <1>1, <1>2, <2>1, <2>3, <2>4, CurrentReady, SameOperation
  <2>7. Rest'
    BY <1>2, <2>3, <2>4 DEF Rest
  <2> QED
    BY <1>1, <1>2, <1>3, <2>4, <2>5, <2>6, <2>7, LetGoLInv
<1>5. CASE Forget(proc)
  <2>1. ops' = ops
    BY <1>5 DEF Forget
  <2>2. CurrentGoesOn'
    BY <1>2, <2>1 DEF LInv, CurrentGoesOn, Active
  <2>3. Active(current)' => CurrentBefore'
    BY <1>1, <1>2, <2>1, CurrentReady, SameOperation DEF Active
  <2>4. Rest'
    BY <1>1, <1>2, <2>1, SameOperation DEF LInv
  <2> QED
    BY <1>1, <1>2, <1>3, <2>1, <2>2, <2>3, <2>4, LetGoLInv
<1> QED
  BY <1>4, <1>5 DEF RetryOperation

\* The process dies anywhere.
LEMMA CrashLInv ==
    ASSUME LInv, JInv', Crash
    PROVE  LInv'
<1>1. /\ pc' = "idle" /\ item' = item /\ seen' = "none" /\ UNCHANGED Outside
      /\ UNCHANGED <<ops, current, gen, desired, deleted>>
      /\ view' = [view EXCEPT ![proc] = NoView]
  BY DEF Crash, Goto, tables, cluster, Outside
<1>2. view'[proc] = NoView
  BY <1>1, TheJournal
<1>3. CurrentGoesOn'
  BY <1>1 DEF LInv, CurrentGoesOn, Active
<1>4. Active(current)' => CurrentBefore'
  BY <1>1, CurrentReady, SameOperation DEF Active
<1>5. Rest'
  BY <1>1, SameOperation DEF LInv
<1> QED
  BY <1>1, <1>2, <1>3, <1>4, <1>5, LetGoLInv

\* The clock passes retry_at.
LEMMA StepElapsesLInv ==
    ASSUME LInv, JInv', StepElapses
    PROVE  LInv'
<1> DEFINE o == [ops[current] EXCEPT !.waiting = FALSE]
<1>1. /\ UNCHANGED <<pc, item, seen>> /\ UNCHANGED Outside
      /\ UNCHANGED <<current, gen, desired, deleted, view>>
      /\ ops' = [ops EXCEPT ![current] = o]
  BY DEF StepElapses, RetryElapsed, process, tables, cluster, Outside
<1>2. o \in Operation /\ o.kind = ops[current].kind /\ o.phase = ops[current].phase
      /\ o.step = ops[current].step
  <2>1. ops[current] \in Operation
    BY TheJournal
  <2> QED
    BY <2>1, ElapsedOperation
<1> HIDE DEF o
<1>3. /\ Len(ops') = Len(ops)
      /\ \A i \in 1 .. Len(ops) : /\ ops'[i].kind = ops[i].kind
                                  /\ ops'[i].phase = ops[i].phase
                                  /\ ops'[i].step = ops[i].step
  <2>1. /\ Len(ops') = Len(ops) /\ ops'[current] = o
        /\ \A i \in 1 .. Len(ops) : i # current => ops'[i] = ops[i]
    BY <1>1, <1>2, TheJournal, ReplaceOperation, SMTT(15)
  <2> QED
    BY <1>2, <2>1
<1>4. /\ ops'[current].kind = ops[current].kind /\ ops'[current].phase = ops[current].phase
      /\ ops'[current].step = ops[current].step /\ current \in 1 .. Len(ops)
      /\ Active(current)' = Active(current)
  BY <1>1, <1>3, TheJournal DEF Active
<1>5. target' = target /\ Working' = Working
  BY <1>1 DEF target, Working
<1>6. LifecycleType'
  BY <1>1 DEF LInv, LifecycleType, Outside
<1>7. CurrentGoesOn'
  BY <1>1, <1>3, <1>4 DEF LInv, CurrentGoesOn
<1>8. pc \notin RestLabels => /\ target \in 1 .. Len(ops) /\ kind' = kind
                              /\ ops'[target].step = ops[target].step
  BY <1>3, <1>5 DEF LInv, Control, kind
<1>9. Control'
  <2>1. Working => pc \notin RestLabels
    BY DEF Working, WorkLabels, RestLabels
  <2> QED
    BY <1>1, <1>3, <1>4, <1>5, <1>8, <2>1 DEF LInv, Control, LabelOfStep
<1>10. Common'
  BY <1>1, <1>3, <1>5 DEF LInv, Common, RouteHasRuntime, RouteIsNewest, RowsReached,
     QuotaExclusive, QuotaUnused, Outside
<1>11. Active(current) => CurrentBefore'
  BY <1>1, <1>4, CurrentReady, SameOperation
<1>12. Working => WorkBefore' /\ WorkDoing' /\ WorkDone'
  <2> SUFFICES ASSUME Working PROVE WorkBefore' /\ WorkDoing' /\ WorkDone'
    OBVIOUS
  <2>1. WorkBefore /\ WorkDoing /\ WorkDone /\ pc \notin RestLabels
    BY Known DEF Working, WorkLabels, RestLabels
  <2>2. WorkBefore'
    BY <1>1, <1>5, <1>8, <2>1, SMTT(15) DEF WorkBefore, RuntimeBefore, ResourceBefore,
       ReadyBefore,
       QuotaBefore, NoRoute, RuntimeOf, ResourceBound, NoModel, OnlyHeld, Held, Paid, Outside
  <2>3. WorkDoing' /\ WorkDone'
    BY <1>1, <1>5, <1>8, <2>1, SMTT(15) DEF WorkDoing, Doing, WorkDone, Done, NoRoute,
       RuntimeOf,
       ResourceBound, NoModel, Released, Held, Paid, Outside
  <2> QED
    BY <2>2, <2>3
<1>13. OnHand'
  BY <1>4, <1>1, <1>5, <1>11, <1>12 DEF OnHand
<1>14. Rest'
  BY <1>1, <1>4, SameOperation DEF LInv
<1> QED
  BY <1>6, <1>7, <1>9, <1>10, <1>13, <1>14 DEF LInv

-----------------------------------------------------------------------------
(* Commands *)

\* A command is accepted when the service is at rest, and finds what the first
\* step of its operation needs.
LEMMA AcceptLInv ==
    ASSUME LInv, JInv', NEW k \in Kinds, AcceptCommand(k)
    PROVE  LInv'
<1>1. /\ k \in {"start", "stop", "restart", "update"} /\ Len(ops) < MaxOps /\ ~deleted
      /\ ValidCommandState(k) /\ \A i \in 1 .. Len(ops) : ~Active(i)
      /\ ops' = Append(ops, NewOperation(k)) /\ gen' = gen + 1 /\ current' = gen + 1
      /\ view' = view /\ deleted' = deleted
  BY DEF AcceptCommand, Accept, Install
<1>2. /\ UNCHANGED <<pc, item, seen>>
      /\ UNCHANGED <<pub, obs, remote, cr, model, rt, route>>
      /\ res' = (IF k = "stop" THEN res ELSE [res EXCEPT ![gen'] = "pending"])
  BY DEF AcceptCommand, process, cluster
<1>3. /\ ops \in Seq(Operation) /\ Len(ops) \in Nat /\ current = Len(ops) /\ gen = Len(ops)
      /\ current \in 1 .. Len(ops) /\ ops[current] \in Operation /\ MaxOps \in Nat
      /\ gen \in Generations /\ gen' \in Generations /\ gen' = gen + 1
  BY <1>1, TheJournal, SMTT(15) DEF Generations
<1>4. NewOperation(k) \in Operation /\ NewOperation(k).kind = k
      /\ NewOperation(k).phase = "pending" /\ NewOperation(k).step = EntryStep(k)
  BY NewOperationType DEF NewOperation
<1>5. /\ Len(ops') = Len(ops) + 1 /\ ops'[current'] = NewOperation(k)
      /\ \A j \in 1 .. Len(ops) : ops'[j] = ops[j]
  BY <1>1, <1>3, <1>4, AppendOperation
<1>6. ~Working /\ ~Working'
  BY <1>1, <1>2, <1>3, Situation DEF Working
<1>7. /\ Settled /\ (desired = "running" => Paid(gen) /\ OnlyHeld(gen))
      /\ (desired = "stopped" => Released)
      /\ ops[current].phase = "succeeded"
  <2>1. ops[current].phase = "succeeded"
    BY <1>1, <1>3 DEF LInv, CurrentGoesOn, Active, ActivePhases, Operation, Phases
  <2> QED
    BY <2>1 DEF LInv, Rest
<1>8. CurrentGoesOn'
  BY <1>1, <1>3, <1>4, <1>5, EntryIsActive, SMTT(15) DEF CurrentGoesOn
<1>9. Control'
  <2>1. pc \notin RestLabels => target' \in 1 .. Len(ops')
    BY <1>1, <1>3, <1>5, SMTT(15) DEF LInv, Control, target
  <2>2. item' <= gen' /\ item' # gen'
    BY <1>2, <1>3, SMTT(15) DEF LInv, Control, LifecycleType
  <2> QED
    BY <1>1, <1>2, <1>6, <2>1, <2>2 DEF LInv, Control
<1>10. /\ res' \in [Generations -> QuotaStates]
       /\ \A g \in Generations : g # gen' => res'[g] = res[g]
       /\ res'[gen'] = (IF k = "stop" THEN "none" ELSE "pending")
  BY <1>2, <1>3, SMTT(15) DEF LInv, LifecycleType, QuotaStates, Outstanding, Common,
     RowsReached
<1>11. LifecycleType'
  BY <1>2, <1>10, SMTT(15) DEF LInv, LifecycleType
<1>12. Common'
  <2>1. RowsReached'
    BY <1>2, <1>3, <1>5, <1>6, <1>10, SMTT(15) DEF LInv, Common, RowsReached, Generations
  <2> QED
    BY <1>2, <2>1 DEF LInv, Common, RouteHasRuntime, RouteIsNewest, QuotaExclusive,
       QuotaUnused
<1>13. ResourceBound /\ desired \in {"running", "stopped"}
  BY <1>1, <1>7 DEF Settled, ResourceBound, ValidCommandState
<1>14. CurrentBefore'
  <2>1. current' = gen + 1 /\ ops'[current'].kind = k /\ ops'[current'].step = EntryStep(k)
    BY <1>1, <1>4, <1>5
  <2>2. ResourceBefore(ops[current].kind, ops[current].step)'
    BY <1>1, <1>2, <1>13, <2>1 DEF ResourceBefore, ResourceBound
  <2>3. ReadyBefore(current, ops[current].step)'
    BY <1>1, <2>1 DEF ReadyBefore, EntryStep
  <2>4. k = "start" => desired = "stopped" /\ NoRoute /\ rt.st = "absent" /\ Released
    BY <1>1, <1>7 DEF ValidCommandState, Settled, NoRoute
  <2>5. RuntimeBefore(current, ops[current].step)'
    BY <1>1, <1>2, <2>1, <2>4 DEF RuntimeBefore, EntryStep, NoRoute
  <2>6. \A g \in Generations : Held(g) => g = gen /\ res[g] = "confirmed"
    <3> SUFFICES ASSUME NEW g \in Generations, Held(g)
                 PROVE  g = gen /\ res[g] = "confirmed"
      OBVIOUS
    <3>1. QuotaConfigured
      BY LifecycleBounds DEF LInv, Common, QuotaUnused, Held
    <3>2. desired = "running"
      BY <1>7, <1>13 DEF Released
    <3> QED
      BY <1>7, <3>1, <3>2 DEF Paid, OnlyHeld
  <2>7. \A g \in Generations : Held(g)' <=> Held(g)
    BY <1>2 DEF Held
  <2>8. k = "start" => \A g \in Generations : ~Held(g)
    BY <2>4 DEF Released
  <2>9. QuotaBefore(current, ops[current].kind, ops[current].step)'
    <3>1. \A g \in Generations : Held(g)' => g = current' - 1 /\ res'[g] = "confirmed"
      BY <1>3, <1>10, <2>1, <2>6, <2>7, SMTT(15)
    <3>2. k = "start" => OnlyHeld(current)'
      BY <2>7, <2>8 DEF OnlyHeld
    <3>3. res'[current'] = (IF k = "stop" THEN "none" ELSE "pending")
      BY <1>3, <1>10, <2>1
    <3> QED
      BY <1>1, <2>1, <3>1, <3>2, <3>3 DEF QuotaBefore, EntryStep
  <2> QED
    BY <2>2, <2>3, <2>5, <2>9 DEF CurrentBefore
<1>15. OnHand'
  BY <1>6, <1>14 DEF OnHand
<1>16. Rest'
  BY <1>4, <1>5 DEF Rest
<1> QED
  BY <1>8, <1>9, <1>11, <1>12, <1>15, <1>16 DEF LInv

\* A delete overtakes the operation on hand; the process goes on with what it
\* was doing until one of its fences stops it.
LEMMA DeleteLInv ==
    ASSUME LInv, JInv', Delete
    PROVE  LInv'
<1>1. /\ Len(ops) < MaxOps /\ ~deleted /\ desired # "deleted"
      /\ ops' = Append(Cancelled, NewOperation("delete"))
      /\ gen' = gen + 1 /\ current' = gen + 1
      /\ view' = view /\ deleted' = deleted
  BY DEF Delete, AcceptDelete, Install
<1>2. /\ UNCHANGED <<pc, item, seen>> /\ UNCHANGED <<pub, obs, res, remote, cr, model, rt, route>>
  BY DEF Delete, process, tables, cluster
<1>3. /\ ops \in Seq(Operation) /\ Len(ops) \in Nat /\ current = Len(ops) /\ gen = Len(ops)
      /\ current \in 1 .. Len(ops) /\ MaxOps \in Nat
  BY TheJournal
<1>4. /\ NewOperation("delete") \in Operation /\ NewOperation("delete").kind = "delete"
      /\ NewOperation("delete").phase = "pending"
      /\ NewOperation("delete").step = "withdraw_publication"
  BY NewOperationType DEF NewOperation, EntryStep, Kinds
<1>5. /\ Cancelled \in Seq(Operation) /\ Len(Cancelled) = Len(ops)
      /\ \A i \in 1 .. Len(ops) : /\ Cancelled[i].kind = ops[i].kind
                                  /\ Cancelled[i].step = ops[i].step
  BY CancelledTable DEF LInv
<1>6. /\ Len(ops') = Len(ops) + 1 /\ ops'[current'] = NewOperation("delete")
      /\ \A i \in 1 .. Len(ops) : /\ ops'[i].kind = ops[i].kind
                                  /\ ops'[i].step = ops[i].step
  BY <1>1, <1>3, <1>4, <1>5, AppendOperation, SMTT(15)
<1>7. /\ Working' = Working /\ target' = target
      /\ Working => target \in 1 .. Len(ops) /\ kind' = kind /\ current = target
  <2>1. Working => target \in 1 .. Len(ops)
    BY Situation
  <2>2. ops[current].kind # "delete"
    BY <1>1 DEF LInv, JInv, DesiredFollowsOperation, DesiredAfter
  <2>3. Working => current = target
    BY <2>2 DEF LInv, Control
  <2> QED
    BY <1>1, <1>2, <1>6, <2>1, <2>3 DEF target, kind, Working
<1>8. CurrentGoesOn'
  BY <1>1, <1>3, <1>4, <1>6, EntryIsActive, SMTT(15) DEF CurrentGoesOn, Kinds, NewOperation
<1>9. Control'
  <2>1. pc \notin RestLabels => target' \in 1 .. Len(ops')
    BY <1>3, <1>6, <1>7, SMTT(15) DEF LInv, Control
  <2>2. item' <= gen' /\ item' # gen'
    BY <1>1, <1>2, <1>3, SMTT(15) DEF LInv, Control, LifecycleType
  <2>3. Working => LabelOfStep(view[proc].step)'
    BY <1>1, <1>2, Known DEF LabelOfStep
  <2>4. Active(current)' /\ (ops[current].kind = "delete")'
        /\ (ops[current].step = "withdraw_publication")'
    BY <1>4, <1>6 DEF Active, ActivePhases
  <2>5. Working => /\ ops'[target].step = view[proc].step /\ ActiveStep(kind, view[proc].step)
                   /\ view[proc].phase = (IF pc = "claim" THEN "pending" ELSE "running")
    BY <1>6, <1>7 DEF LInv, Control
  <2>6. Working => current' = target + 1
    BY <1>1, <1>3, <1>7
  <2>7. /\ pc' \in RestLabels \cup WorkLabels \cup {"retry_step"}
        /\ pc' \in RestLabels <=> view'[proc] = NoView
    BY <1>1, <1>2 DEF LInv, Control
  <2>8. Working' => /\ (ops[target].step = view[proc].step)'
                    /\ (ActiveStep(kind, view[proc].step))'
                    /\ (view[proc].phase = (IF pc = "claim" THEN "pending" ELSE "running"))'
                    /\ (current = target + 1)'
    <3> SUFFICES ASSUME Working
                 PROVE  /\ (ops[target].step = view[proc].step)'
                        /\ (ActiveStep(kind, view[proc].step))'
                        /\ (view[proc].phase = (IF pc = "claim" THEN "pending" ELSE "running"))'
                        /\ (current = target + 1)'
      BY <1>7
    <3>1. target' = target /\ kind' = kind /\ view' = view /\ pc' = pc
      BY <1>1, <1>2, <1>7
    <3> QED
      BY <2>5, <2>6, <3>1
  <2> QED
    BY <1>2, <1>7, <2>1, <2>2, <2>3, <2>4, <2>7, <2>8 DEF Control
<1>10. LifecycleType'
  BY <1>2 DEF LInv, LifecycleType
<1>11. Common'
  <2>1. RowsReached'
    BY <1>2, <1>3, <1>6, <1>7, SMTT(15) DEF LInv, Common, RowsReached, Generations
  <2> QED
    BY <1>2, <2>1 DEF LInv, Common, RouteHasRuntime, RouteIsNewest, QuotaExclusive,
       QuotaUnused
<1>12. CurrentBefore'
  BY <1>4, <1>6 DEF CurrentBefore, RuntimeBefore, ResourceBefore, ReadyBefore, QuotaBefore
<1>13. Working => WorkBefore' /\ WorkDoing' /\ WorkDone'
  <2> SUFFICES ASSUME Working PROVE WorkBefore' /\ WorkDoing' /\ WorkDone'
    OBVIOUS
  <2>1. WorkBefore /\ WorkDoing /\ WorkDone
    BY Known
  <2>2. WorkBefore'
    BY <1>1, <1>2, <1>7, <2>1, SMTT(15) DEF WorkBefore, RuntimeBefore, ResourceBefore,
       ReadyBefore,
       QuotaBefore, NoRoute, RuntimeOf, ResourceBound, NoModel, OnlyHeld, Held, Paid
  <2>3. WorkDoing' /\ WorkDone'
    BY <1>1, <1>2, <1>7, <2>1, SMTT(15) DEF WorkDoing, Doing, WorkDone, Done, NoRoute,
       RuntimeOf,
       ResourceBound, NoModel, Released, Held, Paid
  <2> QED
    BY <2>2, <2>3
<1>14. OnHand'
  BY <1>7, <1>12, <1>13 DEF OnHand
<1>15. Rest'
  BY <1>4, <1>6 DEF Rest
<1> QED
  BY <1>8, <1>9, <1>10, <1>11, <1>14, <1>15 DEF LInv

-----------------------------------------------------------------------------
(* The invariant *)

\* A service that has just been created.
LEMMA InitLInv == Init => LInv
<1> SUFFICES ASSUME Init PROVE LInv
  OBVIOUS
<1>1. JInv
  BY InitJInv DEF Init
<1>2. /\ ops = <<NewOperation("create")>> /\ current = 1 /\ gen = 1 /\ desired = "running"
      /\ deleted = FALSE /\ view = [w \in Workers |-> NoView]
  BY DEF Init, JournalInit
<1>3. /\ Len(ops) = 1 /\ ops[current] = NewOperation("create")
      /\ NewOperation("create").kind = "create" /\ NewOperation("create").phase = "pending"
      /\ NewOperation("create").step = "admission" /\ EntryStep("create") = "admission"
  BY <1>2 DEF NewOperation, EntryStep
<1>4. MaxOps \in Nat /\ MaxOps >= 1
  BY JournalBounds, SMTT(15)
<1>5. CurrentGoesOn
  BY <1>3, <1>4, EntryIsActive DEF CurrentGoesOn, Kinds
<1>6. view[proc] = NoView /\ pc = "idle" /\ item = 0
  BY <1>2, TheProcess DEF Init
<1>7. Control
  BY <1>2, <1>6, SMTT(15) DEF Control, RestLabels, Working, WorkLabels
<1>8. LifecycleType
  BY <1>4, <1>6, SMTT(15) DEF Init, LifecycleType, NoPublication, NoRuntime, PublicationRows,
     ModelStates,
     RouteStates, RemoteStates, QuotaStates, Outstanding
<1>9. ~Working
  BY <1>6 DEF Working, WorkLabels
<1>10. Common
  BY <1>3, <1>9, SMTT(15) DEF Init, Common, RouteHasRuntime, RouteIsNewest, RowsReached,
     QuotaExclusive,
     QuotaUnused, Generations, NoRuntime
<1>11. CurrentBefore
  <2>1. rt.st = "absent" /\ NoRoute /\ Released /\ res[1] = "pending"
    BY <1>4, SMTT(15) DEF Init, NoRuntime, NoRoute, Released, Held, Generations
  <2> QED
    BY <1>2, <1>3, <2>1 DEF CurrentBefore, RuntimeBefore, ResourceBefore, ReadyBefore,
       QuotaBefore, OnlyHeld, Released
<1>12. OnHand
  BY <1>9, <1>11 DEF OnHand
<1>13. Rest
  BY <1>3 DEF Rest
<1> QED
  BY <1>1, <1>5, <1>7, <1>8, <1>10, <1>12, <1>13 DEF LInv

\* Every step of the service keeps the invariant.
LEMMA NextLInv == LInv /\ [Next]_vars => LInv'
<1> SUFFICES ASSUME LInv, [Next]_vars PROVE LInv'
  OBVIOUS
<1>1. JInv'
  BY NextJournal, NextJInv DEF LInv
<1>2. CASE \E k \in Kinds : AcceptCommand(k)
  BY <1>1, <1>2, AcceptLInv
<1>3. CASE Delete
  BY <1>1, <1>3, DeleteLInv
<1>4. CASE Notify \/ Clock \/ Cluster \/ UNCHANGED vars
  BY <1>1, <1>4, EnvironmentLInv, StepElapsesLInv DEF Clock, Cluster
<1>5. CASE Claim
  BY <1>1, <1>5, LoopLInv
<1>6. CASE ProcessStep
  <2>1. CASE LoadOperation
    BY <1>1, <2>1, LoadLInv
  <2>2. CASE ClaimStep \/ AdvanceStep
    BY <1>1, <2>2, TransitionLInv
  <2>3. CASE EnterStep \/ Ask \/ CurrentRuntime
    BY <2>3, EnterLInv, AskLInv, SourceLInv
  <2>4. CASE RetryOperation
    BY <1>1, <2>4, RetryLInv
  <2>5. CASE QuotaStep \/ ObjectStep \/ RuntimeStep \/ PublicationStep
    BY <2>5, QuotaStepLInv, ObjectStepLInv, RuntimeStepLInv, PublicationStepLInv
  <2>6. CASE Ensure \/ EnsureSave \/ Commit \/ RetryWork
    BY <1>1, <2>6, LoopLInv
  <2> QED
    BY <1>6, <2>1, <2>2, <2>3, <2>4, <2>5, <2>6 DEF ProcessStep
<1>7. CASE Failure
  BY <1>1, <1>7, StepFailsLInv, QuotaStepLInv, TransitionLInv, CrashLInv, EnvironmentLInv
     DEF Failure
<1> QED
  BY <1>2, <1>3, <1>4, <1>5, <1>6, <1>7 DEF Next

\* The inductive invariant: the process works on the current operation or on
\* one a delete has just overtaken, and from the moment an operation is at a
\* step until it leaves it, what that step relies on holds, however often it
\* is broken off and begun again.
THEOREM LifecycleInvariance == Spec => []LInv
BY InitLInv, NextLInv, PTL DEF Spec

\* The route of a generation exists only while the runtime of that generation
\* is up, for any number of commands, faults and retries (runStep).
THEOREM RoutesHaveRuntimes == Spec => []RouteHasRuntime
<1>1. LInv => RouteHasRuntime
  BY DEF LInv, Common
<1> QED
  BY <1>1, LifecycleInvariance, PTL

\* Between operations the service has what its desired state asks for, and a
\* deleted one has nothing left.
THEOREM ServiceSettles == Spec => []Settled
<1>1. LInv => Settled
  BY DEF LInv, Rest, Settled, JInv, DeletedByDelete
<1> QED
  BY <1>1, LifecycleInvariance, PTL

\* A runtime is up only on confirmed quota of its own generation, and no two
\* generations hold quota at once.
THEOREM QuotaIsExclusive == Spec => []QuotaExclusive
<1>1. LInv => QuotaExclusive
  BY DEF LInv, Common
<1> QED
  BY <1>1, LifecycleInvariance, PTL

\* Publication rows are written by the steps on publications only.
LEMMA PublicationsByStep == Next => PublicationStep \/ pub' = pub
<1> SUFFICES ASSUME Next PROVE PublicationStep \/ pub' = pub
  OBVIOUS
<1>1. CASE \/ \E k \in Kinds : AcceptCommand(k)
           \/ Delete \/ Notify \/ Claim
  BY <1>1 DEF AcceptCommand, Delete, Notify, Claim, tables
<1>2. CASE \/ LoadOperation \/ ClaimStep \/ EnterStep \/ AdvanceStep \/ RetryOperation
           \/ Ask \/ CurrentRuntime \/ Ensure \/ EnsureSave \/ Commit \/ RetryWork
  BY <1>2 DEF LoadOperation, ClaimStep, EnterStep, AdvanceStep, RetryOperation, Ask,
     CurrentRuntime, Ensure, EnsureSave, Commit, RetryWork, tables
<1>3. CASE QuotaStep \/ ObjectStep \/ RuntimeStep
  BY <1>3 DEF QuotaStep, QuotaGet, QuotaReserve, QuotaConfirm, QuotaRelease,
     SaveReservation,
     ObjectStep, CRPatch, CRBind, CRDelete, SaveModel, ModelEnsure, ModelCleanup, ModelAbsent,
     RuntimeStep, RuntimePatch, RuntimeBind, RuntimeObserve, RuntimeDelete, RuntimeAbsence,
     SaveObservation, tables
<1>4. CASE Failure \/ Clock \/ Cluster
  BY <1>4 DEF Failure, StepFails, QuotaCallFails, AnswerLost, Crash, LeaseExpires,
     ModelFails,
     Clock, RowElapses, StepElapses, OldLeaseExpires,
     Cluster, ModelFetched, ModelVanishes, RuntimeReady, RuntimeVanishes, RouteVanishes, tables
<1> QED
  BY <1>1, <1>2, <1>3, <1>4 DEF Next, ProcessStep

\* A step that marks a generation published has that generation's own
\* readiness on record.
LEMMA PublishesReady ==
    ASSUME LInv, Next, NEW g \in Generations,
           pub'[g].observed = "published", pub[g].observed # "published"
    PROVE  obs.gen = g /\ obs.phase = "ready" /\ obs.modelReady /\ model[g] = "ready"
<1>1. pub' # pub
  OBVIOUS
<1>2. PublicationStep
  BY <1>1, PublicationsByStep
<1>3. pub \in [Generations -> PublicationRows]
  BY DEF LInv, LifecycleType
<1>4. SavePublication("pub_published", "published", "advance")
  BY <1>1, <1>2, <1>3, SMTT(15) DEF PublicationStep, SavePublication, RouteDelete, RouteGone,
     RoutePatch,
     RouteConfirm, tables, PublicationRows
<1>5. pc = "pub_published" /\ Working
  BY <1>4 DEF SavePublication, At, Working, WorkLabels
<1>6. view[proc].step = "publish" /\ WorkBefore
  BY <1>5, Known DEF LabelOfStep
<1>7. g = target
  BY <1>3, <1>4, <1>6 DEF SavePublication, PublicationGen
<1> QED
  BY <1>6, <1>7 DEF WorkBefore, ReadyBefore

\* A generation is published only on the observation, saved for that very
\* generation, of a ready runtime and a ready model.
THEOREM PublishesOnlyWhenReady == Spec => PublishedWhenReady
<1>1. LInv /\ [Next]_vars =>
        [\A g \in Generations :
            pub'[g].observed = "published" /\ pub[g].observed # "published"
                => obs.gen = g /\ obs.phase = "ready" /\ obs.modelReady
                   /\ model[g] = "ready"]_vars
  <2> SUFFICES ASSUME LInv, Next
               PROVE  \A g \in Generations :
                        pub'[g].observed = "published" /\ pub[g].observed # "published"
                            => obs.gen = g /\ obs.phase = "ready" /\ obs.modelReady
                               /\ model[g] = "ready"
    BY DEF vars
  <2> QED
    BY PublishesReady
<1> QED
  BY <1>1, LifecycleInvariance, PTL DEF Spec, PublishedWhenReady

=============================================================================
