-------------------------- MODULE StatusProjection --------------------------
(***************************************************************************)
(* The controller of the InferenceService objects and the status it copies *)
(* into them (controller.go, status_projector.go, status_projection.go).   *)
(* Every replica runs a controller: no leader is elected.  A reconcile     *)
(* wakes the worker (Notify of WorkQueue) and then projects: it reads the  *)
(* object from the API server, reads the durable state in one statement,   *)
(* and patches the status under optimistic concurrency, up to Attempts     *)
(* times.  Meanwhile workers write new observations, apply the spec of the *)
(* object, replace the object and record its new binding.                  *)
(***************************************************************************)
EXTENDS Integers

CONSTANTS
    Controllers,
    Observations,   \* what the worker may write: runtime, publication and health
    Attempts,       \* tries of one projection (retry.DefaultBackoff)
    MaxWrites,      \* bound: durable observations written
    MaxObjects,     \* bound: InferenceService objects created for the service
    MaxApplies      \* bound: spec changes other writers make to the object

VARIABLES
    db,       \* the durable state of the service, and how often it was written
    cr,       \* the object: uid 0 is no object
    objects,  \* objects created so far; their uids count up
    applies,
    proj      \* the projection each controller is in: the object it read, and
              \* the status it read or, from Fetch on, the one to write

vars == <<db, cr, objects, applies, proj>>

NoStatus == [ver |-> 0]
NoObject == [uid |-> 0, rv |-> 0, status |-> NoStatus]
Idle == [pc |-> "idle", uid |-> 0, rv |-> 0, tries |-> 0, status |-> NoStatus]

Init ==
    /\ db = [ver |-> 1, runtime |-> "", publication |-> "unknown", health |-> "", at |-> 0,
             bound |-> 0, deleted |-> FALSE]
    /\ cr = NoObject
    /\ objects = 0
    /\ applies = 0
    /\ proj = [c \in Controllers |-> Idle]

-----------------------------------------------------------------------------
(* The workers and other writers of the object *)

\* The worker observes the service: the runtime or the publication row.
Observe ==
    /\ db.ver <= MaxWrites /\ ~db.deleted
    /\ \E o \in Observations :
           db' = [db EXCEPT !.ver = @ + 1, !.runtime = o[1], !.publication = o[2],
                            !.health = o[3], !.at = db.ver]
    /\ UNCHANGED <<cr, objects, applies, proj>>

\* The executor creates the object.  Resource versions never repeat.
CreateObject ==
    /\ cr.uid = 0 /\ objects < MaxObjects
    /\ objects' = objects + 1
    /\ cr' = [uid |-> objects + 1, rv |-> cr.rv + 1, status |-> NoStatus]
    /\ UNCHANGED <<db, applies, proj>>

\* UpsertRuntimeBinding of the control object.
BindObject ==
    /\ cr.uid # 0 /\ db.bound # cr.uid /\ ~db.deleted
    /\ db' = [db EXCEPT !.bound = cr.uid]
    /\ UNCHANGED <<cr, objects, applies, proj>>

\* DeleteRuntimeBinding, once the object is gone.
UnbindObject ==
    /\ db.bound \notin {0, cr.uid} /\ ~db.deleted
    /\ db' = [db EXCEPT !.bound = 0]
    /\ UNCHANGED <<cr, objects, applies, proj>>

\* The executor applies a spec, which moves the resource version.
ApplySpec ==
    /\ cr.uid # 0 /\ applies < MaxApplies
    /\ applies' = applies + 1
    /\ cr' = [cr EXCEPT !.rv = @ + 1]
    /\ UNCHANGED <<db, objects, proj>>

DeleteObject ==
    /\ cr.uid # 0
    /\ cr' = [NoObject EXCEPT !.rv = cr.rv + 1]
    /\ UNCHANGED <<db, objects, applies, proj>>

\* MarkServiceDeleted
DeleteService ==
    /\ ~db.deleted
    /\ db' = [db EXCEPT !.deleted = TRUE]
    /\ UNCHANGED <<cr, objects, applies, proj>>

-----------------------------------------------------------------------------
(* What the status shows *)

NormalizeRuntimePhase(phase) == IF phase \in {"", "unknown"} THEN "pending" ELSE phase

NormalizePublicationPhase(phase) == IF phase \in {"", "unknown"} THEN "withdrawn" ELSE phase

NormalizeInvocationHealth(runtime, publication, health) ==
    LET h == IF health = "" THEN "unhealthy" ELSE health IN
    IF h = "unknown" /\ (runtime # "ready" \/ publication # "published") THEN "unhealthy" ELSE h

\* The statement of GetStatusProjection: the service, its runtime, publication
\* and control binding in one snapshot, and no row for a deleted service.
NoProjection == [bound |-> 0]
ProjectionRow == IF db.deleted THEN NoProjection ELSE db

\* Repository.GetStatusProjection.  ver tells the snapshots apart; it is not
\* part of the status.
GetStatusProjection(row) ==
    LET r == NormalizeRuntimePhase(row.runtime)
        p == NormalizePublicationPhase(row.publication) IN
    [ver |-> row.ver, runtime |-> r, publication |-> p,
     health |-> NormalizeInvocationHealth(r, p, row.health), at |-> row.at, bound |-> row.bound]

\* statusFromProjection: the binding decides about the status, it is not in it.
StatusFromProjection(p) ==
    [ver |-> p.ver, runtime |-> p.runtime, publication |-> p.publication,
     health |-> p.health, at |-> p.at]

\* A time of the database, counted in half seconds, as the object keeps it:
\* metav1.Time has whole seconds.
WholeSeconds(t) == t - (t % 2)

Wire(status) == [status EXCEPT !.at = WholeSeconds(@)]

Content(status) ==
    IF status = NoStatus THEN <<>>
    ELSE <<status.runtime, status.publication, status.health, status.at>>

\* Mutant: statuses are equal if they show the same runtime phase.
EqualPhase(a, b) == a # NoStatus /\ a.runtime = b.runtime

\* equalStatus, on what was read and what was computed
EqualStatus(a, b) == Content(a) = Content(b)

-----------------------------------------------------------------------------
(* The controllers *)

\* Controller.Reconcile: the cache, which may lag, shows an object; a watch
\* event, the error of an earlier pass or RequeueAfter brought it here.
Reconcile(c) ==
    /\ proj[c] = Idle
    /\ objects > 0
    /\ proj' = [proj EXCEPT ![c].pc = "get"]
    /\ UNCHANGED <<db, cr, objects, applies>>

Done(c) == proj' = [proj EXCEPT ![c] = Idle]

\* Project, an attempt: APIReader.Get.  The object must still be the one the
\* first attempt saw.
Get(c) ==
    /\ proj[c].pc = "get"
    /\ \/ /\ cr.uid # 0 /\ proj[c].uid \in {0, cr.uid}
          /\ proj' = [proj EXCEPT ![c].pc = "fetch", ![c].uid = cr.uid, ![c].rv = cr.rv,
                                  ![c].status = cr.status]
       \/ /\ cr.uid = 0 \/ proj[c].uid \notin {0, cr.uid}
          /\ Done(c)
    /\ UNCHANGED <<db, cr, objects, applies>>

\* GetStatusProjection and the comparison with the control binding.
Fetch(c) ==
    LET row == ProjectionRow
        p == GetStatusProjection(row)
        stale == /\ row # NoProjection /\ p.bound = proj[c].uid
                 /\ ~EqualStatus(proj[c].status, StatusFromProjection(p)) IN
    /\ proj[c].pc = "fetch"
    /\ \/ /\ stale
          /\ proj' = [proj EXCEPT ![c].pc = "patch", ![c].status = StatusFromProjection(p)]
       \/ ~stale /\ Done(c)
    /\ UNCHANGED <<db, cr, objects, applies>>

Conflict(c) == cr.uid # 0 /\ cr.rv # proj[c].rv

\* The object after a patch: one that changes nothing keeps its version.
Patched(c) ==
    IF Content(Wire(proj[c].status)) = Content(cr.status) THEN cr
    ELSE [cr EXCEPT !.rv = @ + 1, !.status = Wire(proj[c].status)]

\* Status().Patch with MergeFromWithOptimisticLock; a conflict is retried.
Patch(c) ==
    /\ proj[c].pc = "patch"
    /\ \/ /\ cr.uid = 0 \/ (Conflict(c) /\ proj[c].tries + 1 = Attempts)
          /\ Done(c) /\ UNCHANGED cr
       \/ /\ Conflict(c) /\ proj[c].tries + 1 < Attempts
          /\ proj' = [proj EXCEPT ![c].pc = "get", ![c].rv = 0, ![c].tries = @ + 1,
                                  ![c].status = NoStatus]
          /\ UNCHANGED cr
       \/ /\ cr.uid # 0 /\ ~Conflict(c)
          /\ cr' = Patched(c) /\ Done(c)
    /\ UNCHANGED <<db, objects, applies>>

\* The process dies or a call fails.
Abort(c) ==
    /\ proj[c] # Idle
    /\ Done(c)
    /\ UNCHANGED <<db, cr, objects, applies>>

\* Mutant: the durable state is read first, the object after it.
FetchFirst(c) ==
    /\ proj[c].pc = "get"
    /\ IF db.deleted THEN Done(c)
       ELSE proj' = [proj EXCEPT ![c].pc = "fetch",
                                 ![c].status = StatusFromProjection(GetStatusProjection(db))]
    /\ UNCHANGED <<db, cr, objects, applies>>

GetSecond(c) ==
    /\ proj[c].pc = "fetch"
    /\ IF cr.uid # 0 /\ db.bound = cr.uid
       THEN proj' = [proj EXCEPT ![c].pc = "patch", ![c].uid = cr.uid, ![c].rv = cr.rv]
       ELSE Done(c)
    /\ UNCHANGED <<db, cr, objects, applies>>

ProjectStale(c) == FetchFirst(c) \/ GetSecond(c) \/ Patch(c)

\* StatusProjector.Project
Project(c) == Get(c) \/ Fetch(c) \/ Patch(c)

Next ==
    \/ Observe \/ CreateObject \/ BindObject \/ UnbindObject \/ ApplySpec \/ DeleteObject \/ DeleteService
    \/ \E c \in Controllers : Reconcile(c) \/ Project(c) \/ Abort(c)

Spec == Init /\ [][Next]_vars

\* A step that a controller reaches again and again is not cut off each time,
\* and RequeueAfter, or the error of the pass before, brings the next pass.
Fairness ==
    \A c \in Controllers :
        WF_vars(Reconcile(c)) /\ SF_vars(Get(c)) /\ SF_vars(Fetch(c)) /\ SF_vars(Patch(c))

-----------------------------------------------------------------------------
(* Properties *)

\* The status of an object never goes back to an older durable state, however
\* the replicas overlap: each reads the object before the database, so a patch
\* that passes the optimistic lock is at least as new as the status it replaces
\* ("reusing the old merge base could otherwise overwrite a newer status
\* snapshot").  And an object that replaced another one never shows what was read
\* for its predecessor: it is written only once it is bound itself.
StatusMovesForward ==
    [][/\ cr'.uid = cr.uid => cr'.status.ver >= cr.status.ver
       /\ cr'.status \notin {cr.status, NoStatus} => db.bound = cr'.uid]_vars

\* Once writers rest, the object shows the durable state, to the second: lost
\* conflicts, lost events and cut off passes are made up for by the next pass.
StatusCatchesUp ==
    <>[](cr.uid # 0 /\ cr.uid = db.bound /\ ~db.deleted
         => Content(cr.status) = Content(Wire(StatusFromProjection(GetStatusProjection(db)))))

=============================================================================
