--------------------------- MODULE RuntimeObjects ---------------------------
(***************************************************************************)
(* The Kubernetes objects of one runtime and the bindings that fence them  *)
(* (internal/data/kubernetes/kserve.go, executor.go, runtime_router.go;    *)
(* internal/data/postgres/runtime_binding.go, reconcile_store.go).         *)
(*                                                                         *)
(* Every call of a provider is the sequence of its requests: it reads the  *)
(* bindings, reads an object, writes it under its resourceVersion, reads   *)
(* it back and records UID and resourceVersion.  Between two requests the  *)
(* call may end, Kubernetes may write status, someone else may delete or   *)
(* replace the object, and a command may be accepted.                      *)
(*                                                                         *)
(* A service keeps its kind: one KServe object, or the workload and the    *)
(* endpoint Service of the Deployment adapter, which no new service uses.  *)
(***************************************************************************)
EXTENDS Naturals, Sequences

CONSTANTS
    Kinds,          \* the kinds of runtimes a service may have
    MaxGen,         \* bound: generations
    MaxUID,         \* bound: objects ever created
    MaxFaults,      \* bound: calls cut short, and readiness lost
    MaxIntrusions,  \* bound: objects deleted or created by someone else
    ApplyMayBreak   \* may a call end between an apply and its binding?

ASSUME RuntimeBounds ==
    /\ Kinds \subseteq {"InferenceService", "LLMInferenceService", "Deployment"}
    /\ MaxGen \in Nat \ {0}
    /\ MaxUID \in Nat /\ MaxFaults \in Nat /\ MaxIntrusions \in Nat
    /\ ApplyMayBreak \in BOOLEAN

Generations == 1 .. MaxGen

NoObject == [st |-> "absent", uid |-> 0, rv |-> 0, gen |-> 0, marked |-> FALSE]
NoRow == [uid |-> 0, rv |-> 0]
NoBinding == [gen |-> 0, uid |-> 0, rv |-> 0]
NoFact == [gen |-> 0, uid |-> 0, rv |-> 0, missing |-> FALSE]

VARIABLES
    kind,           \* the kind of the service's runtime, for good
    gen, goal,      \* desired_generation, desired_state
    step,           \* the step of the current operation, "done" between two
    phase,          \* inference_runtime: generation and runtime_phase
    bind,           \* inference_runtime_bindings
    obj,            \* the objects; a "foreign" one was made by someone else
    healthy,        \* the pods behind the workload are ready
    pc, at,         \* the request the call makes next, and the role it is for
    how, for,       \* the step and the generation the call is for
    known,          \* the bindings the call read
    cur,            \* the object the call read last
    facts, seen,    \* the objects and the phase the call observed
    uids, faults, intrusions

service == <<gen, goal, step, phase>>
cluster == <<obj, healthy>>
call == <<pc, at, how, for, known, cur, facts, seen>>
env == <<uids, faults, intrusions>>
vars == <<kind, service, bind, cluster, call, env>>

Legacy == kind = "Deployment"

\* The roles of the objects, in the order in which the bindings are read.
Roles == IF Legacy THEN <<"runtime", "endpoint">> ELSE <<"runtime">>
RoleSet == {Roles[i] : i \in 1 .. Len(Roles)}

\* The deploymentMode annotation, which only an InferenceService carries.
Marked == kind = "InferenceService"
Object(uid, g) == [st |-> "live", uid |-> uid, rv |-> 1, gen |-> g, marked |-> Marked]

NoCall ==
    /\ pc = "idle" /\ at = 0 /\ how = "none" /\ for = 0
    /\ known = [r \in RoleSet |-> NoBinding]
    /\ cur = NoObject /\ facts = [r \in RoleSet |-> NoFact] /\ seen = "none"

\* A new service starts with nothing; a legacy one has its objects, bound as
\* they were last observed.
Init ==
    /\ kind \in Kinds
    /\ gen = 1 /\ goal = "running" /\ NoCall
    /\ faults = 0 /\ intrusions = 0
    /\ healthy = Legacy
    /\ IF Legacy
       THEN /\ step = "done" /\ phase = [gen |-> 1, is |-> "ready"] /\ uids = 2
            /\ obj = [r \in RoleSet |-> Object(IF r = "runtime" THEN 1 ELSE 2, 1)]
            /\ bind = [g \in Generations |-> [r \in RoleSet |->
                         IF g = 1 THEN [uid |-> obj[r].uid, rv |-> 1] ELSE NoRow]]
       ELSE /\ step = "apply" /\ phase = [gen |-> 0, is |-> "none"] /\ uids = 0
            /\ obj = [r \in RoleSet |-> NoObject]
            /\ bind = [g \in Generations |-> [r \in RoleSet |-> NoRow]]

-----------------------------------------------------------------------------
(* Commands *)

Accept(goalNext, stepNext) ==
    /\ gen < MaxGen
    /\ gen' = gen + 1 /\ goal' = goalNext /\ step' = stepNext
    /\ UNCHANGED <<kind, phase, bind, cluster, call, env>>

\* update and restart
Replace == step = "done" /\ goal = "running" /\ Accept("running", "delete")
Stop == step = "done" /\ goal = "running" /\ Accept("stopped", "delete")
Start == step = "done" /\ goal = "stopped" /\ Accept("running", "apply")
Delete == goal # "deleted" /\ Accept("deleted", "delete")

-----------------------------------------------------------------------------
(* A call of the runtime provider *)

\* ListCurrentRuntimeBindings: the newest binding of the role.
Newest(r) ==
    LET rows == {g \in 1 .. gen : bind[g][r] # NoRow}
        last == CHOOSE g \in rows : \A h \in rows : h <= g
    IN  IF rows = {} THEN NoBinding
        ELSE [gen |-> last, uid |-> bind[last][r].uid, rv |-> bind[last][r].rv]

role == Roles[at]
Unbound == \A r \in RoleSet : known[r] = NoBinding

\* The call ends.
Return ==
    /\ pc' = "idle" /\ at' = 0 /\ how' = "none" /\ for' = 0
    /\ known' = [r \in RoleSet |-> NoBinding]
    /\ cur' = NoObject /\ facts' = [r \in RoleSet |-> NoFact] /\ seen' = "none"

\* The call goes on at another request.
Goto(label, i) == pc' = label /\ at' = i /\ UNCHANGED <<how, for>>
Continue(label, i) == Goto(label, i) /\ UNCHANGED <<known, cur, facts, seen>>

\* The worker takes up the step of the operation, or Ensure when there is none.
Begin ==
    /\ pc = "idle" /\ ~(goal = "deleted" /\ step = "done")
    /\ how' = (IF step = "done" THEN "ensure" ELSE step)
    /\ for' = gen /\ at' = 1
    /\ known' = [r \in RoleSet |-> Newest(r)]
    /\ pc' = CASE step = "apply" \/ (step = "done" /\ goal = "running") -> "get"
               [] step = "observe" -> "look"
               [] step = "absence" -> "gone"
               [] OTHER -> "remove"
    /\ UNCHANGED <<kind, service, bind, cluster, cur, facts, seen, env>>

-----------------------------------------------------------------------------
(* applyKServe; applyFenced and applyEndpointFenced *)

\* Mutant: the resourceVersion must be that of the binding, status or not.
MayApplyVersion(o) ==
    o.gen <= for /\ known[role] = [gen |-> for, uid |-> o.uid, rv |-> o.rv] /\ o.st # "ending"

\* An existing object is applied to when it is the bound one; the Deployment
\* adapter also wants the resourceVersion of the binding.
MayApply(o) ==
    /\ o.gen <= for
    /\ known[role].uid = o.uid
    /\ Legacy => known[role].rv = o.rv
    /\ o.st # "ending"

GetForApply ==
    /\ pc = "get"
    /\ IF obj[role].st = "absent" \/ MayApply(obj[role])
       THEN cur' = obj[role] /\ Goto("patch", at) /\ UNCHANGED <<known, facts, seen>>
       ELSE Return
    /\ UNCHANGED <<kind, service, bind, cluster, env>>

\* Server-side apply: it creates the object, or writes the version it read and
\* changes nothing when nothing differs.  An object of another field owner, or
\* another version, is a conflict.
Patch ==
    /\ pc = "patch"
    /\ \/ /\ cur.st = "absent" /\ obj[role].st = "absent" /\ uids < MaxUID
          /\ obj' = [obj EXCEPT ![role] = Object(uids + 1, for)]
          /\ uids' = uids + 1
          /\ healthy' = (healthy /\ role # "runtime")
          /\ Continue("readback", at)
       \/ /\ cur.st = "live" /\ obj[role] = cur
          /\ LET applied == [Object(cur.uid, for) EXCEPT !.rv = cur.rv] IN
             obj' = [obj EXCEPT ![role] =
                       IF applied = cur THEN cur ELSE [applied EXCEPT !.rv = cur.rv + 1]]
          /\ Continue("readback", at)
          /\ UNCHANGED <<uids, healthy>>
       \/ /\ obj[role] # cur \/ cur.st = "foreign"
          /\ Return /\ UNCHANGED <<cluster, uids>>
    /\ UNCHANGED <<kind, service, bind, faults, intrusions>>

ReadBack ==
    /\ pc = "readback"
    /\ IF obj[role].st = "absent" THEN Return
       ELSE cur' = obj[role] /\ Goto("bind", at) /\ UNCHANGED <<known, facts, seen>>
    /\ UNCHANGED <<kind, service, bind, cluster, env>>

\* UpsertRuntimeBindingCAS: a new row, the row the caller read, or a replay of
\* the insertion.
UpsertAllowed(row, new, expected) ==
    \/ row = NoRow
    \/ row.uid = new.uid /\ row = [uid |-> expected.uid, rv |-> expected.rv]
    \/ row = new /\ expected = NoBinding

\* The binding is recorded.  KServe then observes with the new binding, the
\* Deployment adapter with the ones read at the beginning.
Bind ==
    LET new == [uid |-> cur.uid, rv |-> cur.rv] IN
    /\ pc = "bind"
    /\ IF ~UpsertAllowed(bind[for][role], new, known[role])
       THEN Return /\ UNCHANGED bind
       ELSE /\ bind' = [bind EXCEPT ![for][role] = new]
            /\ known' = IF Legacy THEN known
                        ELSE [known EXCEPT ![role] = [gen |-> for, uid |-> cur.uid, rv |-> cur.rv]]
            /\ CASE at < Len(Roles) -> Goto("get", at + 1)
                 [] at = Len(Roles) -> Goto(IF Legacy /\ how = "apply" THEN "advance" ELSE "look", 1)
            /\ UNCHANGED <<cur, facts, seen>>
    /\ UNCHANGED <<kind, service, cluster, env>>

-----------------------------------------------------------------------------
(* observeKServe, observe and observeHealth; observeKServeAbsence and        *)
(* observeDeletion.  An object is read together with the readiness behind it. *)

Fact(o, g) == [gen |-> g, uid |-> o.uid, rv |-> o.rv, missing |-> FALSE]
MissingFact(b) == [gen |-> b.gen, uid |-> b.uid, rv |-> b.rv, missing |-> TRUE]

\* validateKServeObject, validateObservedObject
Valid(o, g) == o.gen = g /\ known[role].uid \in {0, o.uid}

\* The verdict on one role; the worst one is reported after the last.
Note(fact, verdict) ==
    /\ facts' = [facts EXCEPT ![role] = fact]
    /\ seen' = IF seen = "degraded" THEN seen ELSE verdict
    /\ CASE at < Len(Roles) -> Goto(pc, at + 1)
         [] at = Len(Roles) -> Goto(IF how = "apply" THEN "advance" ELSE "save", 1)
    /\ UNCHANGED <<kind, known, cur>>

\* The Deployment adapter reports a bound object that is gone as missing.
NoteMissing(verdict) ==
    Note(IF Legacy /\ known[role] # NoBinding THEN MissingFact(known[role]) ELSE NoFact, verdict)

\* Mutant: the readiness of the pods is not asked for.
LookWithoutReadiness ==
    /\ pc = "look"
    /\ IF obj[role].st = "absent" THEN NoteMissing("degraded")
       ELSE IF Valid(obj[role], for) THEN Note(Fact(obj[role], for), "ready") ELSE Return
    /\ UNCHANGED <<kind, service, bind, cluster, env>>

\* The object is not being deleted, and its controllers and pods report ready
\* for the templates that were applied.
Ready(o) == o.st # "ending" /\ (role = "runtime" => healthy)

Look ==
    LET o == obj[role]
        g == IF role = "runtime" THEN for ELSE known[role].gen IN
    /\ pc = "look"
    /\ IF o.st = "absent" \/ (role = "endpoint" /\ known[role] = NoBinding)
       THEN NoteMissing("degraded")
       ELSE IF ~Valid(o, g) THEN Return
       ELSE Note(Fact(o, g), IF Ready(o) THEN "ready" ELSE "degraded")
    /\ UNCHANGED <<kind, service, bind, cluster, env>>

\* Mutant: a requested deletion counts as absence.
GoneWhenRequested ==
    /\ pc = "gone"
    /\ NoteMissing(IF obj[role].st = "live" THEN "degraded" ELSE "stopped")
    /\ UNCHANGED <<kind, service, bind, cluster, env>>

\* With nothing bound, KServe confirms that nothing is there under the name.
Gone ==
    LET o == obj[role] IN
    /\ pc = "gone"
    /\ CASE Unbound -> IF ~Legacy /\ o.st = "absent" THEN Note(NoFact, "stopped") ELSE Return
         [] ~Unbound /\ (o.st = "absent" \/ known[role] = NoBinding) -> NoteMissing("stopped")
         [] ~Unbound /\ o.st # "absent" /\ known[role] # NoBinding ->
                IF ~Legacy THEN Note(NoFact, "degraded")
                ELSE IF Valid(o, known[role].gen) THEN Note(Fact(o, known[role].gen), "degraded")
                ELSE Return
    /\ UNCHANGED <<kind, service, bind, cluster, env>>

-----------------------------------------------------------------------------
(* deleteKServe and Delete *)

AfterRemove ==
    IF at < Len(Roles) THEN Goto("remove", at + 1)
    ELSE Goto(IF how = "delete" THEN "advance" ELSE "gone", 1)

Removed == AfterRemove /\ UNCHANGED <<known, cur, facts, seen>>

\* Nothing is bound: DeleteRuntime of KServe confirms that nothing is there;
\* Ensure accepts a runtime that is recorded as stopped.
RemoveUnbound ==
    /\ pc = "remove" /\ Unbound
    /\ CASE how = "delete" /\ ~Legacy /\ obj[role].st = "absent" -> Removed
         [] how = "ensure" /\ ~Legacy /\ phase.is = "stopped" -> Note(NoFact, "stopped")
         [] OTHER -> Return
    /\ UNCHANGED <<kind, service, bind, cluster, env>>

\* KServe reads the object and compares its UID with the binding.
ReadForRemove ==
    LET o == obj[role] IN
    /\ pc = "remove" /\ ~Unbound /\ ~Legacy
    /\ CASE o.st = "absent" -> Removed
         [] o.st # "absent" /\ o.uid # known[role].uid -> Return
         [] o.uid = known[role].uid /\ o.st = "ending" -> Removed
         [] o.uid = known[role].uid /\ o.st \notin {"absent", "ending"} ->
                /\ cur' = o /\ Goto(IF o.marked THEN "unmark" ELSE "kill", at)
                /\ UNCHANGED <<known, facts, seen>>
    /\ UNCHANGED <<kind, service, bind, cluster, env>>

\* The merge patch that removes the annotation names the object only.
Unmark ==
    /\ pc = "unmark"
    /\ IF obj[role].st = "absent" THEN Return /\ UNCHANGED obj
       ELSE /\ obj' = [obj EXCEPT ![role].marked = FALSE,
                                 ![role].rv = IF obj[role].marked THEN @ + 1 ELSE @]
            /\ Continue("reread", at)
    /\ UNCHANGED <<kind, service, bind, healthy, env>>

Reread ==
    /\ pc = "reread"
    /\ IF obj[role].st = "absent" THEN Removed
       ELSE cur' = obj[role] /\ Goto("kill", at) /\ UNCHANGED <<known, facts, seen>>
    /\ UNCHANGED <<kind, service, bind, cluster, env>>

Ending(r) == [obj EXCEPT ![r].st = "ending", ![r].rv = @ + 1]

\* The foreground deletion, under the UID and resourceVersion just read; of an
\* object already being deleted it changes nothing.
Kill ==
    LET o == obj[role] IN
    /\ pc = "kill"
    /\ IF o.st = "absent" THEN Removed /\ UNCHANGED obj
       ELSE IF o.uid # cur.uid \/ o.rv # cur.rv THEN Return /\ UNCHANGED obj
       ELSE /\ obj' = IF o.st = "ending" THEN obj ELSE Ending(role)
            /\ Removed
    /\ UNCHANGED <<kind, service, bind, healthy, env>>

\* Mutant: no preconditions.
KillByName ==
    /\ pc = "remove" /\ ~Unbound /\ Legacy
    /\ obj' = IF obj[role].st \in {"absent", "ending"} THEN obj ELSE Ending(role)
    /\ Removed
    /\ UNCHANGED <<kind, service, bind, healthy, env>>

\* The Deployment adapter deletes under the UID and resourceVersion of the
\* binding; a conflict is looked into.
KillBound ==
    LET o == obj[role] IN
    /\ pc = "remove" /\ ~Unbound /\ Legacy
    /\ IF known[role] = NoBinding \/ o.st = "absent" THEN Removed /\ UNCHANGED obj
       ELSE IF o.uid = known[role].uid /\ o.rv = known[role].rv
       THEN obj' = Ending(role) /\ Removed
       ELSE Continue("conflict", at) /\ UNCHANGED obj
    /\ UNCHANGED <<kind, service, bind, healthy, env>>

Conflict ==
    LET o == obj[role] IN
    /\ pc = "conflict"
    /\ IF o.st = "absent" \/ (o.st = "ending" /\ o.uid = known[role].uid)
       THEN Removed ELSE Return
    /\ UNCHANGED <<kind, service, bind, cluster, env>>

-----------------------------------------------------------------------------
(* SaveObservationForWork, and the operation's transition *)

Reported == {r \in RoleSet : facts[r] # NoFact}

\* All of it or nothing: the generation is current, every binding belongs to
\* it, and every row is still the one that was read.
SaveAllowed ==
    /\ gen = for
    /\ \A r \in Reported :
        /\ facts[r].gen = for
        /\ IF facts[r].missing
           THEN bind[for][r] = [uid |-> facts[r].uid, rv |-> facts[r].rv]
           ELSE UpsertAllowed(bind[for][r], [uid |-> facts[r].uid, rv |-> facts[r].rv], known[r])

\* Mutant: the observation is saved for whatever generation is desired now.
SaveUnfenced ==
    /\ pc = "save"
    /\ phase' = [gen |-> gen, is |-> seen]
    /\ IF <<how, seen>> \in {<<"observe", "ready">>, <<"absence", "stopped">>}
       THEN Continue("advance", 1) ELSE Return
    /\ UNCHANGED <<kind, gen, goal, step, bind, cluster, env>>

Save ==
    /\ pc = "save"
    /\ IF SaveAllowed
       THEN /\ phase' = [gen |-> for, is |-> seen]
            /\ bind' = [bind EXCEPT ![for] = [r \in RoleSet |->
                  IF r \notin Reported THEN bind[for][r]
                  ELSE IF facts[r].missing THEN NoRow
                  ELSE [uid |-> facts[r].uid, rv |-> facts[r].rv]]]
            /\ IF <<how, seen>> \in {<<"observe", "ready">>, <<"absence", "stopped">>}
               THEN Continue("advance", 1) ELSE Return
       ELSE Return /\ UNCHANGED <<phase, bind>>
    /\ UNCHANGED <<kind, gen, goal, step, cluster, env>>

StepAfter ==
    CASE step = "apply" -> "observe"
      [] step = "observe" -> "done"
      [] step = "delete" -> "absence"
      [] step = "absence" -> IF goal = "running" THEN "apply" ELSE "done"

\* AdvanceOperationStepCAS: the operation is still the current one.
Advance ==
    /\ pc = "advance"
    /\ step' = IF gen = for /\ step = how THEN StepAfter ELSE step
    /\ Return
    /\ UNCHANGED <<kind, gen, goal, phase, bind, cluster, env>>

-----------------------------------------------------------------------------
(* Kubernetes, the process's end, and other writers *)

\* The call is cut short: an error, or the process ends.
Cut ==
    /\ pc # "idle" /\ faults < MaxFaults
    /\ ApplyMayBreak \/ pc \notin {"readback", "bind"}
    /\ faults' = faults + 1 /\ Return
    /\ UNCHANGED <<kind, service, bind, cluster, uids, intrusions>>

\* Status writes change the resourceVersion.
Recover ==
    /\ ~healthy /\ obj["runtime"].st = "live"
    /\ healthy' = TRUE
    /\ obj' = [obj EXCEPT !["runtime"].rv = @ + 1]
    /\ UNCHANGED <<kind, service, bind, call, env>>

Degrade ==
    /\ healthy /\ obj["runtime"].st = "live" /\ faults < MaxFaults
    /\ healthy' = FALSE /\ faults' = faults + 1
    /\ obj' = [obj EXCEPT !["runtime"].rv = @ + 1]
    /\ UNCHANGED <<kind, service, bind, call, uids, intrusions>>

\* The foreground deletion is over.
Vanish(r) ==
    /\ obj[r].st = "ending"
    /\ obj' = [obj EXCEPT ![r] = NoObject]
    /\ healthy' = (healthy /\ r # "runtime")
    /\ UNCHANGED <<kind, service, bind, call, env>>

\* Someone else deletes an object, or makes one of the same name and labels.
Intrude(r) ==
    /\ intrusions < MaxIntrusions
    /\ \/ /\ obj[r].st = "live"
          /\ obj' = [obj EXCEPT ![r] = NoObject]
          /\ healthy' = (healthy /\ r # "runtime")
          /\ UNCHANGED uids
       \/ /\ obj[r].st = "absent" /\ uids < MaxUID
          /\ obj' = [obj EXCEPT ![r] = [Object(uids + 1, gen) EXCEPT !.st = "foreign"]]
          /\ uids' = uids + 1 /\ UNCHANGED healthy
    /\ intrusions' = intrusions + 1
    /\ UNCHANGED <<kind, service, bind, call, faults>>

Command == Replace \/ Stop \/ Start \/ Delete

Provider ==
    \/ Begin \/ GetForApply \/ Patch \/ ReadBack \/ Bind \/ Look \/ Gone
    \/ RemoveUnbound \/ ReadForRemove \/ Unmark \/ Reread \/ Kill
    \/ KillBound \/ Conflict \/ Save \/ Advance

Next ==
    \/ Command
    \/ Provider
    \/ Cut \/ Recover \/ Degrade
    \/ \E r \in RoleSet : Vanish(r) \/ Intrude(r)

Spec == Init /\ [][Next]_vars

\* The work loop calls the provider again and again, and Kubernetes ends a
\* deletion.
FairSpec ==
    /\ Spec
    /\ WF_vars(Provider)
    /\ WF_vars(\E r \in RoleSet : Vanish(r))

-----------------------------------------------------------------------------
(* Properties *)

Labels == {"idle", "get", "patch", "readback", "bind", "look", "gone", "remove",
           "unmark", "reread", "kill", "conflict", "save", "advance"}
Steps == {"apply", "observe", "delete", "absence", "done"}

TypeOK ==
    /\ gen \in Generations /\ goal \in {"running", "stopped", "deleted"} /\ step \in Steps
    /\ phase \in [gen : 0 .. MaxGen, is : {"none", "ready", "degraded", "stopped"}]
    /\ bind \in [Generations -> [RoleSet -> [uid : 0 .. MaxUID, rv : Nat]]]
    /\ \A r \in RoleSet :
        /\ obj[r].st \in {"absent", "live", "ending", "foreign"}
        /\ obj[r].uid \in 0 .. uids /\ obj[r].rv \in Nat /\ obj[r].gen \in 0 .. MaxGen
        /\ obj[r].st = "absent" <=> obj[r] = NoObject
    /\ healthy \in BOOLEAN
    /\ pc \in Labels /\ at \in 0 .. Len(Roles) /\ (pc = "idle" <=> NoCall)
    /\ for \in 0 .. gen
    /\ uids \in 0 .. MaxUID /\ faults \in 0 .. MaxFaults /\ intrusions \in 0 .. MaxIntrusions

\* A service that is stopped or deleted and has no step left to run has no
\* runtime object of its own, whatever was cut short on the way: DeleteRuntime
\* and ObserveAbsence never take an object for gone that this service made.
\* After an update or a restart has removed the runtime, the object that runs
\* is another one: no UID that an older generation recorded is running when
\* the operation observes or has ended.
ObjectsFollowGoal ==
    \A r \in RoleSet :
        /\ goal # "running" /\ step = "done" => obj[r].st \in {"absent", "foreign"}
        /\ goal = "running" /\ step \in {"observe", "done"} /\ obj[r].st # "absent" =>
            \A g \in 1 .. gen - 1 : bind[g][r].uid # obj[r].uid

\* A generation that is recorded as ready was applied and identified: it wants
\* the runtime to run and is past its apply step, it has a binding, and the
\* object with that UID carries that generation.  A late observation of an
\* earlier generation is never recorded for a later one.
ReadyIsCurrent ==
    phase.is = "ready" =>
        /\ phase.gen = gen => goal = "running" /\ step \in {"observe", "done"}
        /\ bind[phase.gen]["runtime"] # NoRow
        /\ obj["runtime"].uid = bind[phase.gen]["runtime"].uid => obj["runtime"].gen = phase.gen

Recorded(r, uid) == \E g \in Generations : bind[g][r].uid = uid

\* The service deletes an object only when it recorded the object's UID: not a
\* namesake that took its place while the deletion was under way.
DeletesOnlyBound ==
    [][\A r \in RoleSet :
        obj'[r].st = "ending" /\ obj[r].st # "ending" => Recorded(r, obj[r].uid)]_vars

\* The same of the kinds whose deletion names the recorded UID to the end: an
\* LLMInferenceService, and the Deployment and Service of a legacy runtime.
\* deleteKServe reads an InferenceService a second time.
FencedDeletes ==
    [][kind # "InferenceService" => \A r \in RoleSet :
        obj'[r].st = "ending" /\ obj[r].st # "ending" => Recorded(r, obj[r].uid)]_vars

\* The object was applied and its UID never recorded, a namesake took a name of
\* the service, or the runtime is of the legacy kind: the cases in which a step
\* may fail for ever.
Orphaned ==
    \/ intrusions > 0 \/ kind \notin {"InferenceService", "LLMInferenceService"}
    \/ \E r \in RoleSet :
        obj[r].st # "absent" /\ ~Recorded(r, obj[r].uid) /\ pc \notin {"readback", "bind"}

\* Every operation on the runtime ends, when the pods become ready again and
\* again: apart from an orphaned object no state of objects and bindings makes
\* a step fail for ever.
OperationsEnd ==
    []<>(healthy \/ step # "observe") => (step # "done" ~> (step = "done" \/ Orphaned))

\* Readiness that is lost after the operation ended, and stays lost, is
\* recorded (Ensure keeps observing).
DegradationSeen ==
    (step = "done" /\ goal = "running" /\ obj["runtime"].st = "live" /\ ~healthy)
        ~> (phase.is # "ready" \/ healthy \/ step # "done" \/ Orphaned)

\* Every operation of a legacy runtime ends: the router still sends its removal
\* to the Deployment adapter.
LegacyOperationsEnd ==
    []<>(healthy \/ step # "observe") => (step # "done" ~> step = "done")

\* Readiness that a legacy runtime loses is recorded.
LegacyDegradationSeen ==
    (step = "done" /\ goal = "running" /\ obj["runtime"].st = "live" /\ ~healthy)
        ~> (phase.is # "ready" \/ healthy \/ step # "done")

=============================================================================
