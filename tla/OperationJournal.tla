-------------------------- MODULE OperationJournal --------------------------
(***************************************************************************)
(* What PostgreSQL promises about the operations of one service: commands  *)
(* are accepted one at a time, each with the next generation; only the     *)
(* lease holder moves the current operation, by compare-and-set on the     *)
(* phase and step it loaded (command_usecase.go, update_usecase.go,        *)
(* operation_store.go and queries/inference.sql).                          *)
(*                                                                         *)
(* Every accepted command raises desired_generation by one, so operation i *)
(* is the one that targets generation i.                                   *)
(***************************************************************************)
EXTENDS OperationSteps

CONSTANTS
    Workers,      \* processes that may hold the work lease
    NoWorker,
    MaxOps        \* bound: accepted commands, the create included

ASSUME JournalBounds == MaxOps \in Nat \ {0}
ASSUME NoWorkerAssumption == NoWorker \notin Workers

VARIABLES
    ops,       \* inference_operations, in the order of acceptance
    current,   \* inference_services.current_operation_id
    gen,       \* inference_services.desired_generation
    desired,   \* inference_services.desired_state
    deleted,   \* inference_services.deleted_at is set
    holder,    \* the worker whose lease token is on the work row and live
    view       \* the OperationContext a worker has loaded

journal == <<ops, current, gen, desired, deleted, holder, view>>

NewOperation(kind) ==
    [kind |-> kind, phase |-> "pending", step |-> EntryStep(kind), waiting |-> FALSE]

NoView == [id |-> 0, phase |-> "pending", step |-> "complete"]

Active(i) == ops[i].phase \in ActivePhases

\* CreateService
JournalInit ==
    /\ ops = <<NewOperation("create")>>
    /\ current = 1
    /\ gen = 1
    /\ desired = "running"
    /\ deleted = FALSE
    /\ holder = NoWorker
    /\ view = [w \in Workers |-> NoView]

-----------------------------------------------------------------------------
(* Commands *)

\* validCommandState, and the desired_state test of Update
ValidCommandState(kind) ==
    CASE kind = "start"   -> desired = "stopped"
      [] kind = "stop"    -> desired = "running"
      [] kind = "restart" -> desired \in {"running", "stopped"}
      [] kind = "update"  -> desired = "running"
      [] OTHER            -> FALSE

DesiredAfter(kind) ==
    CASE kind = "stop" -> "stopped" [] kind = "delete" -> "deleted" [] OTHER -> "running"

\* TransitionService and InsertOperation on the given operations.
Install(kind, before) ==
    /\ ops' = Append(before, NewOperation(kind))
    /\ gen' = gen + 1
    /\ current' = gen + 1
    /\ desired' = DesiredAfter(kind)

\* Command for start, stop and restart, and Update.  The unique index on
\* active operations turns the command down (ErrOperationActive) while an
\* operation is active.
Accept(kind) ==
    /\ kind \in {"start", "stop", "restart", "update"}
    /\ Len(ops) < MaxOps
    /\ ~deleted
    /\ ValidCommandState(kind)
    /\ \A i \in 1 .. Len(ops) : ~Active(i)
    /\ Install(kind, ops)
    /\ UNCHANGED <<deleted, holder, view>>

\* CancelActiveOperation marks only the current operation; the step stays.
Cancelled ==
    IF Active(current)
    THEN [ops EXCEPT ![current] = [@ EXCEPT !.phase = "failed", !.waiting = FALSE]]
    ELSE ops

\* Command for delete: it overtakes an active operation and takes the lease
\* away from the worker that runs it.
AcceptDelete ==
    /\ Len(ops) < MaxOps
    /\ ~deleted
    /\ desired # "deleted"
    /\ \A i \in 1 .. Len(ops) : Cancelled[i].phase \notin ActivePhases
    /\ Install("delete", Cancelled)
    /\ holder' = IF Active(current) THEN NoWorker ELSE holder
    /\ UNCHANGED <<deleted, view>>

-----------------------------------------------------------------------------
(* Workers *)

\* ClaimResourceWork
Lease(w) ==
    /\ holder = NoWorker
    /\ ~deleted
    /\ view[w] = NoView
    /\ holder' = w
    /\ UNCHANGED <<ops, current, gen, desired, deleted, view>>

\* The lease runs out, or the work row is committed or retried.
LeaseLost ==
    /\ holder # NoWorker
    /\ holder' = NoWorker
    /\ UNCHANGED <<ops, current, gen, desired, deleted, view>>

\* CurrentOperation: read under the lease, kept in memory.
Load(w) ==
    /\ holder = w
    /\ view[w] = NoView
    /\ Active(current)
    /\ view' = [view EXCEPT ![w] =
                  [id |-> current, phase |-> ops[current].phase,
                   step |-> ops[current].step]]
    /\ UNCHANGED <<ops, current, gen, desired, deleted, holder>>

\* The worker returns from Execute, or its process dies.
Forget(w) ==
    /\ view[w] # NoView
    /\ view' = [view EXCEPT ![w] = NoView]
    /\ UNCHANGED <<ops, current, gen, desired, deleted, holder>>

\* The WHERE clause AdvanceOperationStepCAS and RetryOperationStepCAS share.
CAS(w) ==
    LET v == view[w] IN
    /\ v # NoView
    /\ holder = w
    /\ current = v.id
    /\ gen = v.id
    /\ ops[v.id].phase = v.phase
    /\ ops[v.id].step = v.step

\* What the worker goes on with after its transaction committed: a claim is
\* continued, any other step ends Execute; when the answer to the commit is
\* lost it still believes what it loaded.
AfterAdvance(w, phase) ==
    \/ view' = [view EXCEPT ![w] =
                  IF @.phase = "pending" THEN [@ EXCEPT !.phase = phase] ELSE NoView]
    \/ UNCHANGED view

\* stepWithAudit for AdvanceOperationStepCAS.  Finishing a delete marks the
\* service deleted in the same transaction.
Advance(w, phase, step) ==
    LET v == view[w] IN
    /\ CAS(w)
    /\ ~ops[v.id].waiting
    /\ ValidTransition(ops[v.id].kind, v.phase, v.step, phase, step)
    /\ ops' = [ops EXCEPT ![v.id] = [@ EXCEPT !.phase = phase, !.step = step]]
    /\ deleted' = (deleted \/ (ops[v.id].kind = "delete" /\ phase = "succeeded"))
    /\ AfterAdvance(w, phase)
    /\ UNCHANGED <<current, gen, desired, holder>>

\* stepWithAudit for RetryOperationStepCAS.  retry_at is not tested, and the
\* worker leaves Execute with the error.
RetryStep(w) ==
    LET v == view[w] IN
    /\ CAS(w)
    /\ ops' = [ops EXCEPT ![v.id] = [@ EXCEPT !.phase = "pending", !.waiting = TRUE]]
    /\ view' = [view EXCEPT ![w] = NoView]
    /\ UNCHANGED <<current, gen, desired, deleted, holder>>

\* The clock passes retry_at.
RetryElapsed ==
    /\ ops[current].waiting
    /\ ops' = [ops EXCEPT ![current] = [@ EXCEPT !.waiting = FALSE]]
    /\ UNCHANGED <<current, gen, desired, deleted, holder, view>>

\* The transitions the runner asks for: claim, next step, success.
Progress(w) ==
    \/ \E step \in Steps : Advance(w, "running", step)
    \/ Advance(w, "succeeded", "complete")

JournalNext ==
    \/ \E kind \in Kinds : Accept(kind)
    \/ AcceptDelete
    \/ LeaseLost
    \/ RetryElapsed
    \/ \E w \in Workers : Lease(w) \/ Load(w) \/ Forget(w) \/ Progress(w) \/ RetryStep(w)

JournalSpec == JournalInit /\ [][JournalNext]_journal

-----------------------------------------------------------------------------
(* Properties *)

Operation == [kind : Kinds, phase : Phases, step : Steps, waiting : BOOLEAN]

JournalTypeOK ==
    /\ ops \in Seq(Operation)
    /\ current \in Nat
    /\ gen \in Nat
    /\ desired \in {"running", "stopped", "deleted"}
    /\ deleted \in BOOLEAN
    /\ holder \in Workers \cup {NoWorker}
    /\ view \in [Workers -> [id : Nat, phase : Phases, step : Steps]]

\* Only the operation the service points at can be active, and it is the
\* newest: CancelActiveOperation, which reaches only that one, always clears
\* the way, so a delete is never refused with ErrOperationActive.
ActiveIsCurrent ==
    /\ current = Len(ops) /\ gen = Len(ops)
    /\ \A i \in 1 .. Len(ops) : Active(i) => i = current

\* A terminal operation is never touched again, whatever a worker that loaded
\* it earlier still tries: "the worker's later CAS then fails safely"
\* (CancelActiveOperation).
TerminalStable ==
    [][\A i \in 1 .. Len(ops) : ~Active(i) => ops'[i] = ops[i]]_journal

\* A service is deleted exactly when its newest operation is a delete that
\* succeeded; a delete is never overtaken or cancelled once accepted.
DeletedByDelete ==
    /\ deleted <=> (ops[current].kind = "delete" /\ ops[current].phase = "succeeded")
    /\ \A i \in 1 .. Len(ops) :
        ops[i].kind = "delete" => i = current /\ ops[i].phase # "failed"

\* desired_state is what the newest operation is for: no interleaving of
\* commands and workers leaves the service pulled one way and worked on in
\* another.
DesiredFollowsOperation == desired = DesiredAfter(ops[current].kind)

=============================================================================
