------------------------------ MODULE WorkQueue ------------------------------
(***************************************************************************)
(* The durable work queue of one tenant: the rows of                       *)
(* inference_resource_work, the desired generation of the services they    *)
(* belong to, and the workers that claim, execute and acknowledge them     *)
(* (internal/biz/work, internal/data/postgres/work_store.go,               *)
(* queries/work.sql).  Every action is one SQL statement or transaction.   *)
(*                                                                         *)
(* Time is abstract.  next_run_at is "null", "due" (not after now) or      *)
(* "later"; a lease is live until LeaseTimeout.  earlier orders the due    *)
(* rows by next_run_at: a row's next_run_at equals the moment it became    *)
(* due, so becoming due puts a row behind all rows that are due already.   *)
(***************************************************************************)
EXTENDS Naturals

CONSTANTS
    Services,   \* the tenant's services
    Workers,    \* concurrent callers of Worker.RunOnce
    Tokens,     \* lease tokens (uuid.New: never one that is still referenced)
    NoToken,    \* a NULL lease_token
    MaxDirty,   \* bound: notifications and commands per service
    MaxFaults   \* bound: crashes, failed executions, leases outlived by a run

ASSUME BoundsAssumption == MaxDirty \in Nat /\ MaxFaults \in Nat
ASSUME TokenAssumption == NoToken \notin Tokens

VARIABLES
    hasRow,     \* the service has a resource_work row
    dirty,      \* dirty_version
    ack,        \* acknowledged_version
    nextRun,    \* next_run_at
    earlier,    \* <<s, t>>: both due, next_run_at of s before that of t
    token,      \* lease_token
    live,       \* lease_until > clock_timestamp()
    gen,        \* inference_services.desired_generation
    closing,    \* the current operation is a delete
    deleted,    \* deleted_at is set
    observed,   \* inference_runtime.generation: last saved observation
    pc,         \* where a worker is in RunOnce
    item,       \* the work.Item a worker holds
    faults,     \* faults that have happened
    covered     \* history: highest dirty_version an execution finished for

row == <<hasRow, dirty, ack, nextRun, earlier, token, live>>
service == <<gen, closing, deleted, observed>>
vars == <<hasRow, dirty, ack, nextRun, earlier, token, live, gen, closing,
          deleted, observed, pc, item, faults, covered>>

Larger(a, b) == IF a > b THEN a ELSE b

NoItem == [service |-> NoToken, token |-> NoToken, dirty |-> 0, gen |-> 0]

(***************************************************************************)
(* A service is created together with its row; a row may be missing only   *)
(* in a database an operator repaired, which is what Repair is for.        *)
(***************************************************************************)
Init ==
    /\ hasRow \in [Services -> BOOLEAN]
    /\ gen = [s \in Services |-> 1]
    /\ dirty = [s \in Services |-> IF hasRow[s] THEN 1 ELSE 0]
    /\ ack = [s \in Services |-> 0]
    /\ nextRun = [s \in Services |-> IF hasRow[s] THEN "due" ELSE "null"]
    /\ earlier = {}
    /\ token = [s \in Services |-> NoToken]
    /\ live = [s \in Services |-> FALSE]
    /\ closing = [s \in Services |-> FALSE]
    /\ deleted = [s \in Services |-> FALSE]
    /\ observed = [s \in Services |-> 0]
    /\ pc = [w \in Workers |-> "idle"]
    /\ item = [w \in Workers |-> NoItem]
    /\ faults = 0
    /\ covered = [s \in Services |-> 0]

-----------------------------------------------------------------------------
(* Ordering of the due rows *)

Without(s) == {p \in earlier : p[1] # s /\ p[2] # s}

\* next_run_at of s becomes now: behind every other due row.
BecomeDue(s) ==
    /\ nextRun' = [nextRun EXCEPT ![s] = "due"]
    /\ earlier' = Without(s) \cup
                  {<<t, s>> : t \in {u \in Services \ {s} : nextRun[u] = "due"}}

LeaveDue(s, when) ==
    /\ nextRun' = [nextRun EXCEPT ![s] = when]
    /\ earlier' = Without(s)

-----------------------------------------------------------------------------
(* Producers: notifications, recovery, repair and accepted commands *)

\* UpsertResourceWork(service, version)
UpsertResourceWork(s, version) ==
    /\ dirty' = [dirty EXCEPT ![s] =
                    IF hasRow[s] THEN Larger(dirty[s] + 1, version) ELSE version]
    /\ hasRow' = [hasRow EXCEPT ![s] = TRUE]
    /\ BecomeDue(s)
    /\ UNCHANGED ack

ReleaseLease(s) ==
    /\ token' = [token EXCEPT ![s] = NoToken]
    /\ live' = [live EXCEPT ![s] = FALSE]

\* WorkStore.Notify: a controller event, or Recover for an undeleted service.
\* The generation an event carries may be any the service has had.
Notify(s) ==
    /\ dirty[s] < MaxDirty
    /\ \E version \in 1 .. gen[s] : UpsertResourceWork(s, version)
    /\ UNCHANGED <<token, live, service, pc, item, faults, covered>>

\* WorkStore.Repair: EnsureResourceWork inserts a missing row and leaves any
\* other alone.
Repair(s) ==
    /\ ~deleted[s]
    /\ ~hasRow[s]
    /\ gen[s] <= MaxDirty
    /\ hasRow' = [hasRow EXCEPT ![s] = TRUE]
    /\ dirty' = [dirty EXCEPT ![s] = gen[s]]
    /\ BecomeDue(s)
    /\ UNCHANGED <<ack, token, live, service, pc, item, faults, covered>>

\* Start, stop, restart, update: a new generation and a wake-up in one
\* transaction.  The lease of a running worker is left in place.
AcceptCommand(s) ==
    /\ ~deleted[s]
    /\ ~closing[s]
    /\ dirty[s] < MaxDirty /\ gen[s] < MaxDirty
    /\ gen' = [gen EXCEPT ![s] = gen[s] + 1]
    /\ UpsertResourceWork(s, gen[s] + 1)
    /\ UNCHANGED <<token, live, closing, deleted, observed, pc, item, faults, covered>>

\* Delete also takes the lease away when it cancelled an active operation
\* (ReleaseResourceWorkLease).
AcceptDelete(s) ==
    /\ ~deleted[s]
    /\ ~closing[s]
    /\ dirty[s] < MaxDirty /\ gen[s] < MaxDirty
    /\ gen' = [gen EXCEPT ![s] = gen[s] + 1]
    /\ closing' = [closing EXCEPT ![s] = TRUE]
    /\ UpsertResourceWork(s, gen[s] + 1)
    /\ ReleaseLease(s) \/ UNCHANGED <<token, live>>
    /\ UNCHANGED <<deleted, observed, pc, item, faults, covered>>

-----------------------------------------------------------------------------
(* The worker *)

\* Mutant: only a row without a token can be claimed, not one whose lease ran out.
ClaimableUnleased(s) ==
    /\ hasRow[s] /\ ~deleted[s]
    /\ token[s] = NoToken
    /\ nextRun[s] = "due" \/ (nextRun[s] = "null" /\ ack[s] < dirty[s])

Claimable(s) ==
    /\ hasRow[s]
    /\ ~deleted[s]
    /\ ~live[s]
    /\ nextRun[s] = "due" \/ (nextRun[s] = "null" /\ ack[s] < dirty[s])

\* ORDER BY next_run_at NULLS FIRST
FirstClaimable(s) ==
    /\ Claimable(s)
    /\ \A t \in Services \ {s} : Claimable(t) =>
        \/ nextRun[s] = "null"
        \/ nextRun[t] = "due" /\ <<t, s>> \notin earlier

\* Mutant: a token is used again.
UnreferencedAny(k) == k \in Tokens

Unreferenced(k) ==
    /\ \A s \in Services : token[s] # k
    /\ \A w \in Workers : item[w].token # k

\* ClaimResourceWork.  next_run_at is not touched: a row whose worker dies
\* is due again as soon as the lease has run out.
Claim(w) ==
    /\ pc[w] = "idle"
    /\ \E s \in Services, k \in Tokens :
        /\ FirstClaimable(s)
        /\ Unreferenced(k)
        /\ token' = [token EXCEPT ![s] = k]
        /\ live' = [live EXCEPT ![s] = TRUE]
        /\ item' = [item EXCEPT ![w] = [service |-> s, token |-> k,
                                        dirty |-> dirty[s], gen |-> gen[s]]]
    /\ pc' = [pc EXCEPT ![w] = "claimed"]
    /\ UNCHANGED <<hasRow, dirty, ack, nextRun, earlier, service, faults, covered>>

\* The lease fence every durable write of a worker repeats.
Fenced(w) ==
    /\ token[item[w].service] = item[w].token
    /\ live[item[w].service]

CurrentGeneration(w) == gen[item[w].service] = item[w].gen

\* Reconciler.Execute, first half: CurrentForWork re-reads the desired
\* generation under the lease.
CurrentForWork(w) ==
    /\ pc[w] = "claimed"
    /\ pc' = [pc EXCEPT ![w] = IF Fenced(w) /\ CurrentGeneration(w)
                               THEN "executing" ELSE "failed"]
    /\ UNCHANGED <<row, service, item, faults, covered>>

\* The runtime call fails.
ExecuteFails(w) ==
    /\ pc[w] = "executing"
    /\ faults < MaxFaults
    /\ faults' = faults + 1
    /\ pc' = [pc EXCEPT ![w] = "failed"]
    /\ UNCHANGED <<row, service, item, covered>>

ObservationFence(w) ==
    LET s == item[w].service IN
    /\ Fenced(w)
    /\ CurrentGeneration(w)
    /\ observed[s] <= item[w].gen
    /\ ~deleted[s]

\* Reconciler.Execute, second half: SaveObservationForWork, one transaction
\* with the fences of UpdateObservationForWork and
\* MarkServiceAppliedGeneration.
SaveObservation(w) ==
    LET s == item[w].service IN
    /\ pc[w] = "executing"
    /\ \/ /\ ObservationFence(w)
          /\ observed' = [observed EXCEPT ![s] = item[w].gen]
          /\ covered' = [covered EXCEPT ![s] = Larger(covered[s], item[w].dirty)]
          /\ pc' = [pc EXCEPT ![w] = "done"]
       \/ /\ ~ObservationFence(w)
          /\ pc' = [pc EXCEPT ![w] = "failed"]
          /\ UNCHANGED <<observed, covered>>
    /\ UNCHANGED <<row, gen, closing, deleted, item, faults>>

\* The last step of a delete operation: AdvanceOperationStepCAS and
\* MarkServiceDeleted in one transaction.
FinishDelete(w) ==
    LET s == item[w].service IN
    /\ pc[w] = "executing"
    /\ closing[s] /\ ~deleted[s]
    /\ Fenced(w) /\ CurrentGeneration(w)
    /\ deleted' = [deleted EXCEPT ![s] = TRUE]
    /\ covered' = [covered EXCEPT ![s] = Larger(covered[s], item[w].dirty)]
    /\ pc' = [pc EXCEPT ![w] = "done"]
    /\ UNCHANGED <<row, gen, closing, observed, item, faults>>

CommitFence(w) ==
    /\ Fenced(w)
    /\ CurrentGeneration(w)
    /\ item[w].dirty <= dirty[item[w].service]

\* Mutant: the version the row has now is acknowledged.
CommitAcksCurrent(w) ==
    LET s == item[w].service IN
    /\ pc[w] = "done"
    /\ \/ /\ CommitFence(w)
          /\ ack' = [ack EXCEPT ![s] = dirty[s]]
          /\ LeaveDue(s, IF deleted[s] THEN "null" ELSE "later")
          /\ ReleaseLease(s)
       \/ /\ ~CommitFence(w)
          /\ UNCHANGED <<ack, nextRun, earlier, token, live>>
    /\ pc' = [pc EXCEPT ![w] = "idle"]
    /\ item' = [item EXCEPT ![w] = NoItem]
    /\ UNCHANGED <<hasRow, dirty, service, faults, covered>>

\* CommitResourceWork: acknowledge the version that was claimed, not the
\* version the row has now.  A refused commit is only an error.
Commit(w) ==
    LET s == item[w].service IN
    /\ pc[w] = "done"
    /\ \/ /\ CommitFence(w)
          /\ ack' = [ack EXCEPT ![s] = Larger(ack[s], item[w].dirty)]
          /\ IF deleted[s] THEN LeaveDue(s, "null")
             ELSE IF dirty[s] > item[w].dirty THEN BecomeDue(s)
             ELSE LeaveDue(s, "later")
          /\ ReleaseLease(s)
       \/ /\ ~CommitFence(w)
          /\ UNCHANGED <<ack, nextRun, earlier, token, live>>
    /\ pc' = [pc EXCEPT ![w] = "idle"]
    /\ item' = [item EXCEPT ![w] = NoItem]
    /\ UNCHANGED <<hasRow, dirty, service, faults, covered>>

RetryFence(w) ==
    /\ Fenced(w)
    /\ CurrentGeneration(w)
    /\ ~deleted[item[w].service]

\* RetryResourceWork: the claim is given back and the row runs again later.
Retry(w) ==
    LET s == item[w].service IN
    /\ pc[w] = "failed"
    /\ \/ /\ RetryFence(w)
          /\ LeaveDue(s, "later")
          /\ ReleaseLease(s)
       \/ /\ ~RetryFence(w)
          /\ UNCHANGED <<nextRun, earlier, token, live>>
    /\ pc' = [pc EXCEPT ![w] = "idle"]
    /\ item' = [item EXCEPT ![w] = NoItem]
    /\ UNCHANGED <<hasRow, dirty, ack, service, faults, covered>>

-----------------------------------------------------------------------------
(* Time and faults *)

\* The clock reaches next_run_at.
Elapse(s) ==
    /\ nextRun[s] = "later"
    /\ BecomeDue(s)
    /\ UNCHANGED <<hasRow, dirty, ack, token, live, service, pc, item, faults, covered>>

Holder(w, s) == pc[w] # "idle" /\ item[w].service = s /\ item[w].token = token[s]

\* The clock reaches lease_until of a lease nobody works under any more.
OrphanTimeout(s) ==
    /\ live[s]
    /\ \A w \in Workers : ~Holder(w, s)
    /\ live' = [live EXCEPT ![s] = FALSE]
    /\ UNCHANGED <<hasRow, dirty, ack, nextRun, earlier, token, service, pc, item,
                   faults, covered>>

\* An execution takes longer than the lease: the worker goes on, unaware.
Outlived(s) ==
    /\ live[s]
    /\ \E w \in Workers : Holder(w, s)
    /\ faults < MaxFaults
    /\ faults' = faults + 1
    /\ live' = [live EXCEPT ![s] = FALSE]
    /\ UNCHANGED <<hasRow, dirty, ack, nextRun, earlier, token, service, pc, item,
                   covered>>

\* The process dies; everything it held in memory is gone.
Crash(w) ==
    /\ pc[w] # "idle"
    /\ faults < MaxFaults
    /\ faults' = faults + 1
    /\ pc' = [pc EXCEPT ![w] = "idle"]
    /\ item' = [item EXCEPT ![w] = NoItem]
    /\ UNCHANGED <<row, service, covered>>

-----------------------------------------------------------------------------
WorkerStep(w) ==
    \/ Claim(w)
    \/ CurrentForWork(w)
    \/ ExecuteFails(w)
    \/ SaveObservation(w)
    \/ FinishDelete(w)
    \/ Commit(w)
    \/ Retry(w)
    \/ Crash(w)

ServiceStep(s) ==
    \/ Notify(s)
    \/ Repair(s)
    \/ AcceptCommand(s)
    \/ AcceptDelete(s)
    \/ Elapse(s)
    \/ OrphanTimeout(s)
    \/ Outlived(s)

Next ==
    \/ \E w \in Workers : WorkerStep(w)
    \/ \E s \in Services : ServiceStep(s)

Spec == Init /\ [][Next]_vars

(***************************************************************************)
(* Loop.Run polls every few seconds and RunOnce carries a claim to its end *)
(* (weak fairness of each worker step), Repair runs every minute, and the  *)
(* clock advances.                                                         *)
(***************************************************************************)
Fairness ==
    /\ \A w \in Workers :
        /\ WF_vars(Claim(w))
        /\ WF_vars(CurrentForWork(w))
        /\ WF_vars(SaveObservation(w))
        /\ WF_vars(Commit(w))
        /\ WF_vars(Retry(w))
    /\ \A s \in Services :
        /\ WF_vars(Elapse(s))
        /\ WF_vars(OrphanTimeout(s))
        /\ WF_vars(Repair(s))

FairSpec == Spec /\ Fairness

-----------------------------------------------------------------------------
(* Properties *)

TypeOK ==
    /\ hasRow \in [Services -> BOOLEAN]
    /\ dirty \in [Services -> Nat]
    /\ ack \in [Services -> Nat]
    /\ nextRun \in [Services -> {"null", "due", "later"}]
    /\ earlier \subseteq Services \X Services
    /\ token \in [Services -> Tokens \cup {NoToken}]
    /\ live \in [Services -> BOOLEAN]
    /\ gen \in [Services -> Nat]
    /\ closing \in [Services -> BOOLEAN]
    /\ deleted \in [Services -> BOOLEAN]
    /\ observed \in [Services -> Nat]
    /\ pc \in [Workers -> {"idle", "claimed", "executing", "failed", "done"}]
    /\ item \in [Workers -> [service : Services \cup {NoToken},
                             token : Tokens \cup {NoToken},
                             dirty : Nat, gen : Nat]]
    /\ faults \in Nat
    /\ covered \in [Services -> Nat]

\* A lease excludes: two workers that both still pass the fence of
\* CommitResourceWork for a service are the same worker, however leases were
\* outlived, taken away by a delete or claimed again.
LeaseExclusive ==
    \A v, w \in Workers :
        /\ pc[v] # "idle" /\ pc[w] # "idle"
        /\ item[v].service = item[w].service
        /\ Fenced(v) /\ Fenced(w)
        => v = w

\* No lost wake-up: what CommitResourceWork acknowledges was covered by an
\* execution that claimed the row at that version or later, so a notification
\* that arrives while a worker runs is never hidden by that worker's
\* acknowledgement (the comment on UpsertResourceWork).
AckCovered == \A s \in Services : ack[s] <= covered[s] /\ covered[s] <= dirty[s]

\* Every service that is not deleted and has a row keeps a next_run_at: no
\* order of commits, retries, crashes and deletes parks it for good.
AlwaysScheduled ==
    \A s \in Services : hasRow[s] /\ ~deleted[s] => nextRun[s] # "null"

\* Whoever records an observation recorded it for the generation that is
\* desired at that moment, and observations never go back: a worker that was
\* overtaken by a command cannot write.
ObservationCurrent ==
    [][\A s \in Services : observed'[s] # observed[s] =>
            observed'[s] = gen[s] /\ observed[s] < observed'[s]]_vars

\* Every notification is eventually served: some execution that began after
\* it is acknowledged, unless the service is deleted first.
EveryNotificationServed ==
    \A s \in Services : \A d \in 1 .. MaxDirty :
        (dirty[s] >= d) ~> (ack[s] >= d \/ deleted[s])

=============================================================================
