--------------------------- MODULE OperationAudit ---------------------------
(***************************************************************************)
(* OperationJournal with what makes an audit event: the attempt counter of *)
(* an operation and the event ids derived from it (operationEventID in     *)
(* internal/biz/inference/runner.go, stepWithAudit in operation_store.go). *)
(* AppendAuditEvent silently drops an event whose id exists already.       *)
(***************************************************************************)
EXTENDS OperationJournal

CONSTANT MaxAttempts   \* bound: retries of one operation

ASSUME AuditBounds == MaxAttempts \in Nat

VARIABLES
    attempt,   \* inference_operations.attempt
    loaded,    \* OperationContext.Attempt of each worker
    audit      \* event ids in inference_audit_events

vars == <<journal, attempt, loaded, audit>>

Init ==
    /\ JournalInit
    /\ attempt = <<0>>
    /\ loaded = [w \in Workers |-> 0]
    /\ audit = {}

\* Mutant: the attempt is always the first.
EventIDOfStep(w, phase, step) == <<view[w].id, phase, step, 0>>

\* operationEventID: a digest of operation, phase, step and attempt.
EventID(w, phase, step) == <<view[w].id, phase, step, loaded[w]>>

\* A new operation starts at attempt 0.
Command ==
    /\ AcceptDelete \/ \E kind \in Kinds : Accept(kind)
    /\ attempt' = Append(attempt, 0)
    /\ UNCHANGED <<loaded, audit>>

LoadAttempt(w) ==
    /\ Load(w)
    /\ loaded' = [loaded EXCEPT ![w] = attempt[current]]
    /\ UNCHANGED <<attempt, audit>>

AdvanceWithAudit(w, phase, step) ==
    /\ Advance(w, phase, step)
    /\ audit' = audit \cup {EventID(w, phase, step)}
    /\ UNCHANGED <<attempt, loaded>>

RetryWithAudit(w) ==
    /\ RetryStep(w)
    /\ attempt[view[w].id] < MaxAttempts
    /\ attempt' = [attempt EXCEPT ![view[w].id] = @ + 1]
    /\ audit' = audit \cup {EventID(w, "pending", view[w].step)}
    /\ UNCHANGED loaded

Other ==
    /\ LeaseLost \/ RetryElapsed \/ \E w \in Workers : Lease(w) \/ Forget(w)
    /\ UNCHANGED <<attempt, loaded, audit>>

Next ==
    \/ Command
    \/ Other
    \/ \E w \in Workers :
        \/ LoadAttempt(w)
        \/ \E step \in Steps : AdvanceWithAudit(w, "running", step)
        \/ AdvanceWithAudit(w, "succeeded", "complete")
        \/ RetryWithAudit(w)

Spec == Init /\ [][Next]_vars

-----------------------------------------------------------------------------
(* Properties *)

TypeOK ==
    /\ JournalTypeOK
    /\ attempt \in Seq(Nat)
    /\ loaded \in [Workers -> Nat]
    /\ audit \subseteq (Nat \X Phases \X Steps \X Nat)

Moved(i) ==
    \/ ops'[i].step # ops[i].step
    \/ attempt'[i] # attempt[i]
    \/ ops'[i].phase # ops[i].phase /\ ops'[i].phase # "failed"

\* Every change a worker makes to an operation's phase, step or attempt adds
\* an audit event: no event id is ever used twice, so the ON CONFLICT DO
\* NOTHING of AppendAuditEvent never swallows the record of a move.
EveryMoveAudited ==
    [][\A i \in 1 .. Len(ops) : Moved(i) => \E e \in audit' \ audit : e[1] = i]_vars

\* An operation that succeeded ran every step of its path: the journal holds
\* the event that entered each of them.  Only resolve_gpu may have been
\* jumped over.
SucceededRanEveryStep ==
    \A i \in 1 .. Len(ops) : ops[i].phase = "succeeded" =>
        \A step \in Steps \ {"complete", "resolve_gpu"} :
            OnPath(ops[i].kind, step) =>
                \E e \in audit : e[1] = i /\ e[2] = "running" /\ e[3] = step

=============================================================================
