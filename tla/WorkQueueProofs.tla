--------------------------- MODULE WorkQueueProofs ---------------------------
(***************************************************************************)
(* The safety of the work queue for every set of services, workers and     *)
(* tokens and every bound.                                                 *)
(***************************************************************************)
EXTENDS WorkQueue, TLAPS

\* Some leaves take longer than the default timeouts on a slow machine.
USE SMTT(15), ZenonT(30)

\* What a worker in the middle of RunOnce holds: a claim on an existing row,
\* made at a version the row has passed, under a token of its own; once the
\* execution is done the version it claimed is covered.
ItemSound ==
    /\ \A w \in Workers : pc[w] # "idle" =>
        /\ item[w].service \in Services
        /\ item[w].token \in Tokens
        /\ hasRow[item[w].service]
        /\ item[w].dirty <= dirty[item[w].service]
        /\ pc[w] = "done" => item[w].dirty <= covered[item[w].service]
    /\ \A v, w \in Workers :
        pc[v] # "idle" /\ pc[w] # "idle" /\ item[v].token = item[w].token => v = w

\* A service without a row has nothing acknowledged.
NothingWithoutRow == \A s \in Services : ~hasRow[s] => ack[s] = 0 /\ covered[s] = 0

IInv == TypeOK /\ ItemSound /\ NothingWithoutRow /\ AckCovered /\ AlwaysScheduled

-----------------------------------------------------------------------------
\* The initial database satisfies the invariant.
LEMMA InitIInv == Init => IInv
<1> SUFFICES ASSUME Init PROVE IInv
  OBVIOUS
<1>1. TypeOK
  BY DEF Init, TypeOK, NoItem
<1>2. ItemSound
  BY DEF Init, ItemSound
<1>3. NothingWithoutRow /\ AckCovered /\ AlwaysScheduled
  BY DEF Init, NothingWithoutRow, AckCovered, AlwaysScheduled
<1> QED
  BY <1>1, <1>2, <1>3 DEF IInv

\* Becoming due and leaving the due rows keep the type of the schedule.
LEMMA ScheduleType ==
    ASSUME TypeOK, NEW s \in Services
    PROVE  /\ BecomeDue(s) => nextRun' \in [Services -> {"null", "due", "later"}]
                              /\ earlier' \subseteq Services \X Services
                              /\ nextRun'[s] = "due"
                              /\ \A t \in Services \ {s} : nextRun'[t] = nextRun[t]
           /\ \A when \in {"null", "due", "later"} : LeaveDue(s, when) =>
                 /\ nextRun' \in [Services -> {"null", "due", "later"}]
                 /\ earlier' \subseteq Services \X Services
                 /\ nextRun'[s] = when
                 /\ \A t \in Services \ {s} : nextRun'[t] = nextRun[t]
BY DEF TypeOK, BecomeDue, LeaveDue, Without

\* UpsertResourceWork raises dirty_version and schedules the row.
LEMMA UpsertEffect ==
    ASSUME TypeOK, NEW s \in Services, NEW version \in Nat, UpsertResourceWork(s, version)
    PROVE  /\ hasRow' = [hasRow EXCEPT ![s] = TRUE]
           /\ dirty' \in [Services -> Nat]
           /\ \A t \in Services : hasRow[t] => dirty[t] <= dirty'[t]
           /\ \A t \in Services \ {s} : dirty'[t] = dirty[t]
           /\ ack' = ack
           /\ nextRun' \in [Services -> {"null", "due", "later"}]
           /\ earlier' \subseteq Services \X Services
           /\ nextRun'[s] = "due"
           /\ \A t \in Services \ {s} : nextRun'[t] = nextRun[t]
<1>1. BecomeDue(s)
  BY DEF UpsertResourceWork
<1>2. /\ nextRun' \in [Services -> {"null", "due", "later"}]
      /\ earlier' \subseteq Services \X Services
      /\ nextRun'[s] = "due"
      /\ \A t \in Services \ {s} : nextRun'[t] = nextRun[t]
  BY <1>1, ScheduleType
<1>3. /\ hasRow' = [hasRow EXCEPT ![s] = TRUE]
      /\ ack' = ack
      /\ dirty' \in [Services -> Nat]
      /\ \A t \in Services : hasRow[t] => dirty[t] <= dirty'[t]
      /\ \A t \in Services \ {s} : dirty'[t] = dirty[t]
  BY DEF UpsertResourceWork, TypeOK, Larger
<1> QED
  BY <1>2, <1>3

\* A wake-up that leaves the workers and the history alone keeps the invariant.
LEMMA UpsertIInv ==
    ASSUME IInv, NEW s \in Services, NEW version \in Nat, UpsertResourceWork(s, version),
           token' \in [Services -> Tokens \cup {NoToken}], live' \in [Services -> BOOLEAN],
           gen' \in [Services -> Nat], closing' \in [Services -> BOOLEAN],
           UNCHANGED <<deleted, observed, pc, item, faults, covered>>
    PROVE  IInv'
<1>1. TypeOK'
  BY UpsertEffect DEF IInv, TypeOK
<1>2. ItemSound'
  BY UpsertEffect DEF IInv, TypeOK, ItemSound
<1>3. NothingWithoutRow'
  <2>1. hasRow' = [hasRow EXCEPT ![s] = TRUE] /\ ack' = ack /\ covered' = covered
    BY UpsertEffect DEF IInv
  <2> QED
    BY <2>1 DEF IInv, TypeOK, NothingWithoutRow
<1>4. AckCovered'
  <2> SUFFICES ASSUME NEW t \in Services PROVE ack'[t] <= covered'[t] /\ covered'[t] <= dirty'[t]
    BY DEF AckCovered
  <2>1. CASE hasRow[t]
    BY <2>1, UpsertEffect DEF IInv, TypeOK, AckCovered
  <2>2. CASE ~hasRow[t]
    BY <2>2, UpsertEffect DEF IInv, TypeOK, AckCovered, NothingWithoutRow
  <2> QED
    BY <2>1, <2>2
<1>5. AlwaysScheduled'
  BY UpsertEffect DEF IInv, TypeOK, AlwaysScheduled
<1> QED
  BY <1>1, <1>2, <1>3, <1>4, <1>5 DEF IInv

-----------------------------------------------------------------------------
\* Claiming: the token is one nobody refers to.
LEMMA ClaimIInv == ASSUME IInv, NEW w \in Workers, Claim(w) PROVE IInv'
<1> PICK s \in Services, k \in Tokens :
        /\ FirstClaimable(s)
        /\ Unreferenced(k)
        /\ token' = [token EXCEPT ![s] = k]
        /\ live' = [live EXCEPT ![s] = TRUE]
        /\ item' = [item EXCEPT ![w] = [service |-> s, token |-> k,
                                        dirty |-> dirty[s], gen |-> gen[s]]]
  BY DEF Claim
<1> USE DEF IInv
<1>1. /\ pc' = [pc EXCEPT ![w] = "claimed"]
      /\ UNCHANGED <<hasRow, dirty, ack, nextRun, earlier, service, faults, covered>>
  BY DEF Claim
<1>2. hasRow[s]
  BY DEF FirstClaimable, Claimable
<1>3. TypeOK'
  BY <1>1 DEF TypeOK, service
<1>4. ItemSound'
  BY <1>1, <1>2 DEF TypeOK, ItemSound, Unreferenced, service
<1>5. NothingWithoutRow' /\ AckCovered' /\ AlwaysScheduled'
  BY <1>1 DEF NothingWithoutRow, AckCovered, AlwaysScheduled, service
<1> QED
  BY <1>3, <1>4, <1>5

\* The end of a successful run: only what was claimed is acknowledged.
LEMMA CommitIInv == ASSUME IInv, NEW w \in Workers, Commit(w) PROVE IInv'
<1> USE DEF IInv
<1> DEFINE s == item[w].service
<1>1. /\ pc[w] = "done"
      /\ pc' = [pc EXCEPT ![w] = "idle"]
      /\ item' = [item EXCEPT ![w] = NoItem]
      /\ UNCHANGED <<hasRow, dirty, gen, closing, deleted, observed, faults, covered>>
  BY DEF Commit, service
<1>2. s \in Services /\ item[w].dirty <= covered[s] /\ item[w].dirty \in Nat
  BY <1>1 DEF ItemSound, TypeOK
<1>3. ItemSound'
  BY <1>1 DEF ItemSound, TypeOK
<1>4. CASE CommitFence(w)
  <2>1. /\ ack' = [ack EXCEPT ![s] = Larger(ack[s], item[w].dirty)]
        /\ IF deleted[s] THEN LeaveDue(s, "null")
           ELSE IF dirty[s] > item[w].dirty THEN BecomeDue(s)
           ELSE LeaveDue(s, "later")
        /\ ReleaseLease(s)
    BY <1>4 DEF Commit
  <2>2. /\ nextRun' \in [Services -> {"null", "due", "later"}]
        /\ earlier' \subseteq Services \X Services
        /\ ~deleted[s] => nextRun'[s] # "null"
        /\ \A t \in Services \ {s} : nextRun'[t] = nextRun[t]
    BY <1>2, <2>1, ScheduleType
  <2>3. TypeOK'
    BY <1>1, <1>2, <2>1, <2>2 DEF TypeOK, ReleaseLease, Larger, NoItem
  <2>4. NothingWithoutRow' /\ AckCovered'
    BY <1>1, <1>2, <2>1 DEF TypeOK, NothingWithoutRow, AckCovered, ItemSound, Larger
  <2>5. AlwaysScheduled'
    BY <1>1, <1>2, <2>2 DEF AlwaysScheduled
  <2> QED
    BY <1>3, <2>3, <2>4, <2>5
<1>5. CASE ~CommitFence(w)
  <2>1. UNCHANGED <<ack, nextRun, earlier, token, live>>
    BY <1>5 DEF Commit
  <2> QED
    BY <1>1, <1>3, <2>1 DEF TypeOK, NoItem, NothingWithoutRow, AckCovered, AlwaysScheduled
<1> QED
  BY <1>4, <1>5

LEMMA RetryIInv == ASSUME IInv, NEW w \in Workers, Retry(w) PROVE IInv'
<1> USE DEF IInv
<1> DEFINE s == item[w].service
<1>1. /\ pc[w] = "failed"
      /\ pc' = [pc EXCEPT ![w] = "idle"]
      /\ item' = [item EXCEPT ![w] = NoItem]
      /\ UNCHANGED <<hasRow, dirty, ack, gen, closing, deleted, observed, faults, covered>>
  BY DEF Retry, service
<1>2. s \in Services
  BY <1>1 DEF ItemSound, TypeOK
<1>3. ItemSound' /\ NothingWithoutRow' /\ AckCovered'
  BY <1>1 DEF ItemSound, TypeOK, NothingWithoutRow, AckCovered
<1>4. CASE RetryFence(w)
  <2>1. LeaveDue(s, "later") /\ ReleaseLease(s)
    BY <1>4 DEF Retry
  <2>2. /\ nextRun' \in [Services -> {"null", "due", "later"}]
        /\ earlier' \subseteq Services \X Services
        /\ nextRun'[s] = "later"
        /\ \A t \in Services \ {s} : nextRun'[t] = nextRun[t]
    BY <1>2, <2>1, ScheduleType
  <2> QED
    BY <1>1, <1>2, <1>3, <2>1, <2>2 DEF TypeOK, ReleaseLease, NoItem, AlwaysScheduled
<1>5. CASE ~RetryFence(w)
  <2>1. UNCHANGED <<nextRun, earlier, token, live>>
    BY <1>5 DEF Retry
  <2> QED
    BY <1>1, <1>3, <2>1 DEF TypeOK, NoItem, AlwaysScheduled
<1> QED
  BY <1>4, <1>5

\* Recording a finished execution covers the version it claimed.
LEMMA SaveIInv ==
    ASSUME IInv, NEW w \in Workers, SaveObservation(w) \/ FinishDelete(w) PROVE IInv'
<1> USE DEF IInv
<1> DEFINE s == item[w].service
<1>1. pc[w] = "executing" /\ s \in Services
  BY DEF SaveObservation, FinishDelete, ItemSound
<1>2. CASE SaveObservation(w) /\ ~ObservationFence(w)
  BY <1>1, <1>2 DEF SaveObservation, row, TypeOK, ItemSound, NothingWithoutRow,
     AckCovered, AlwaysScheduled
<1>3. CASE FinishDelete(w) \/ (SaveObservation(w) /\ ObservationFence(w))
  <2>1. /\ covered' = [covered EXCEPT ![s] = Larger(covered[s], item[w].dirty)]
        /\ pc' = [pc EXCEPT ![w] = "done"]
        /\ UNCHANGED <<hasRow, dirty, ack, nextRun, earlier, token, live, gen, closing,
                       item, faults>>
        /\ observed' \in [Services -> Nat]
        /\ deleted' \in [Services -> BOOLEAN]
        /\ \A t \in Services : deleted[t] => deleted'[t]
    BY <1>1, <1>3 DEF SaveObservation, FinishDelete, row, TypeOK
  <2>2. TypeOK'
    BY <1>1, <2>1 DEF TypeOK, Larger
  <2>3. ItemSound'
    BY <1>1, <2>1 DEF ItemSound, TypeOK, Larger
  <2>4. NothingWithoutRow' /\ AckCovered'
    BY <1>1, <2>1 DEF NothingWithoutRow, AckCovered, ItemSound, TypeOK, Larger
  <2>5. AlwaysScheduled'
    BY <2>1 DEF AlwaysScheduled, TypeOK
  <2> QED
    BY <2>2, <2>3, <2>4, <2>5
<1> QED
  BY <1>2, <1>3

\* The other steps of a worker.
LEMMA WorkerIInv ==
    ASSUME IInv, NEW w \in Workers, CurrentForWork(w) \/ ExecuteFails(w) \/ Crash(w)
    PROVE  IInv'
<1> USE DEF IInv
<1>1. TypeOK'
  BY DEF CurrentForWork, ExecuteFails, Crash, row, service, TypeOK, NoItem
<1>2. ItemSound'
  <2>1. CASE CurrentForWork(w)
    BY <2>1 DEF CurrentForWork, row, TypeOK, ItemSound
  <2>2. CASE ExecuteFails(w)
    BY <2>2 DEF ExecuteFails, row, TypeOK, ItemSound
  <2>3. CASE Crash(w)
    BY <2>3 DEF Crash, row, TypeOK, ItemSound
  <2> QED
    BY <2>1, <2>2, <2>3
<1>3. NothingWithoutRow' /\ AckCovered' /\ AlwaysScheduled'
  BY DEF CurrentForWork, ExecuteFails, Crash, row, service, NothingWithoutRow,
     AckCovered, AlwaysScheduled
<1> QED
  BY <1>1, <1>2, <1>3

\* The producers and the clock.
LEMMA ServiceIInv == ASSUME IInv, NEW s \in Services, ServiceStep(s) PROVE IInv'
<1>1. CASE Notify(s)
  <2> PICK version \in 1 .. gen[s] : UpsertResourceWork(s, version)
    BY <1>1 DEF Notify
  <2>1. version \in Nat
    BY DEF IInv, TypeOK
  <2> QED
    BY <1>1, <2>1, UpsertIInv DEF Notify, service, IInv, TypeOK
<1>2. CASE AcceptCommand(s)
  <2>1. gen[s] + 1 \in Nat /\ gen' \in [Services -> Nat]
    BY <1>2 DEF IInv, TypeOK, AcceptCommand
  <2> QED
    BY <1>2, <2>1, UpsertIInv DEF AcceptCommand, IInv, TypeOK
<1>3. CASE AcceptDelete(s)
  <2>1. gen[s] + 1 \in Nat /\ gen' \in [Services -> Nat] /\ closing' \in [Services -> BOOLEAN]
    BY <1>3 DEF IInv, TypeOK, AcceptDelete
  <2>2. token' \in [Services -> Tokens \cup {NoToken}] /\ live' \in [Services -> BOOLEAN]
    BY <1>3 DEF IInv, TypeOK, AcceptDelete, ReleaseLease
  <2> QED
    BY <1>3, <2>1, <2>2, UpsertIInv DEF AcceptDelete
<1>4. CASE Repair(s)
  <2>1. /\ nextRun' \in [Services -> {"null", "due", "later"}]
        /\ earlier' \subseteq Services \X Services
        /\ nextRun'[s] = "due"
        /\ \A t \in Services \ {s} : nextRun'[t] = nextRun[t]
    BY <1>4, ScheduleType DEF Repair, IInv
  <2>2. /\ ~hasRow[s]
        /\ hasRow' = [hasRow EXCEPT ![s] = TRUE]
        /\ dirty' = [dirty EXCEPT ![s] = gen[s]]
        /\ UNCHANGED <<ack, token, live, gen, closing, deleted, observed, pc, item,
                       faults, covered>>
    BY <1>4 DEF Repair, service
  <2>3. TypeOK'
    BY <2>1, <2>2 DEF IInv, TypeOK
  <2>4. ItemSound'
    BY <2>2 DEF IInv, TypeOK, ItemSound
  <2>5. NothingWithoutRow' /\ AckCovered'
    BY <2>2 DEF IInv, TypeOK, NothingWithoutRow, AckCovered
  <2>6. AlwaysScheduled'
    BY <2>1, <2>2 DEF IInv, TypeOK, AlwaysScheduled
  <2> QED
    BY <2>3, <2>4, <2>5, <2>6 DEF IInv
<1>5. CASE Elapse(s)
  <2>1. /\ nextRun' \in [Services -> {"null", "due", "later"}]
        /\ earlier' \subseteq Services \X Services
        /\ nextRun'[s] = "due"
        /\ \A t \in Services \ {s} : nextRun'[t] = nextRun[t]
    BY <1>5, ScheduleType DEF Elapse, IInv
  <2> QED
    BY <1>5, <2>1 DEF Elapse, service, IInv, TypeOK, ItemSound, NothingWithoutRow,
       AckCovered, AlwaysScheduled
<1>6. CASE OrphanTimeout(s) \/ Outlived(s)
  <2>1. /\ live' = [live EXCEPT ![s] = FALSE]
        /\ faults' \in Nat
        /\ UNCHANGED <<hasRow, dirty, ack, nextRun, earlier, token, gen, closing, deleted,
                       observed, pc, item, covered>>
    BY <1>6 DEF OrphanTimeout, Outlived, service, IInv, TypeOK
  <2>2. TypeOK'
    BY <2>1 DEF IInv, TypeOK
  <2>3. ItemSound'
    BY <2>1 DEF IInv, ItemSound
  <2>4. NothingWithoutRow' /\ AckCovered' /\ AlwaysScheduled'
    BY <2>1 DEF IInv, NothingWithoutRow, AckCovered, AlwaysScheduled
  <2> QED
    BY <2>2, <2>3, <2>4 DEF IInv
<1> QED
  BY <1>1, <1>2, <1>3, <1>4, <1>5, <1>6 DEF ServiceStep

-----------------------------------------------------------------------------
\* Every step of the queue keeps the invariant.
LEMMA NextIInv == IInv /\ [Next]_vars => IInv'
<1> SUFFICES ASSUME IInv, [Next]_vars PROVE IInv'
  OBVIOUS
<1>1. CASE UNCHANGED vars
  BY <1>1 DEF vars, IInv, TypeOK, ItemSound, NothingWithoutRow, AckCovered, AlwaysScheduled
<1>2. ASSUME NEW w \in Workers, WorkerStep(w) PROVE IInv'
  BY <1>2, ClaimIInv, CommitIInv, RetryIInv, SaveIInv, WorkerIInv DEF WorkerStep
<1> QED
  BY <1>1, <1>2, ServiceIInv DEF Next

\* Whatever the workers, crashes and lease timeouts do, the rows keep their
\* types and the inductive invariant holds.
THEOREM Invariance == Spec => []IInv
BY InitIInv, NextIInv, PTL DEF Spec

\* The rows and the workers keep their types.
THEOREM TypeCorrect == Spec => []TypeOK
BY Invariance, PTL DEF IInv

\* A lease excludes: two workers that both pass the fence of CommitResourceWork
\* for one service are the same worker.
THEOREM LeaseExclusion == Spec => []LeaseExclusive
<1>1. IInv => LeaseExclusive
  BY DEF IInv, ItemSound, LeaseExclusive, Fenced
<1> QED
  BY <1>1, Invariance, PTL

\* No wake-up is lost: CommitResourceWork acknowledges only versions that an
\* execution covered.
THEOREM NoLostWakeup == Spec => []AckCovered
BY Invariance, PTL DEF IInv

\* A row of a service that is not deleted always has a next_run_at.
THEOREM NeverParked == Spec => []AlwaysScheduled
BY Invariance, PTL DEF IInv

\* An observation is recorded only for the generation desired at that moment,
\* and never goes back.
THEOREM ObservationsCurrent == Spec => ObservationCurrent
<1>1. IInv /\ [Next]_vars =>
        [\A s \in Services : observed'[s] # observed[s] =>
            observed'[s] = gen[s] /\ observed[s] < observed'[s]]_vars
  <2> SUFFICES ASSUME IInv, Next, NEW s \in Services, observed'[s] # observed[s]
               PROVE  observed'[s] = gen[s] /\ observed[s] < observed'[s]
    BY DEF vars
  <2>1. PICK w \in Workers : SaveObservation(w)
    BY DEF Next, WorkerStep, ServiceStep, Claim, CurrentForWork, ExecuteFails,
       FinishDelete, Commit, Retry, Crash, Notify, Repair, AcceptCommand, AcceptDelete,
       Elapse, OrphanTimeout, Outlived, service
  <2>2. ObservationFence(w) /\ observed' = [observed EXCEPT ![item[w].service] = item[w].gen]
    BY <2>1 DEF SaveObservation
  <2>3. item[w].service \in Services /\ item[w].gen \in Nat /\ observed \in [Services -> Nat]
    BY <2>1 DEF SaveObservation, IInv, ItemSound, TypeOK
  <2> QED
    BY <2>2, <2>3 DEF ObservationFence, CurrentGeneration
<1> QED
  BY <1>1, Invariance, PTL DEF Spec, ObservationCurrent

==============================================================================
