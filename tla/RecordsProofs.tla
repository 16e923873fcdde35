---------------------------- MODULE RecordsProofs ----------------------------
(***************************************************************************)
(* What is recorded about a service and shown of it, for any number of     *)
(* workers, commands and retries, of calls and scopes, and of controllers  *)
(* and objects: the audit of the journal, the bounds of the probe cache,   *)
(* and that a status never goes back.                                      *)
(***************************************************************************)
EXTENDS Records, OperationJournalProofs, FiniteSetTheorems

\* The leaves are given to Zenon; those that need arithmetic name SMT.
USE ZenonT(30)

-----------------------------------------------------------------------------
(* The audit: the inductive invariant *)

Place(i) == StepIndex(ops[i].kind, ops[i].step)

\* The operations and their attempts, side by side.
AuditType ==
    /\ attempt \in Seq(Nat) /\ Len(attempt) = Len(ops)
    /\ loaded \in [Workers -> Nat]
    /\ \A e \in audit : e[1] \in 1 .. Len(ops) /\ e[4] \in 0 .. attempt[e[1]]
    /\ \A w \in Workers : view[w] # NoView => view[w].id \in 1 .. Len(ops)
    /\ Active(current) => ActiveStep(ops[current].kind, ops[current].step)

\* A worker that may still write under its lease loaded the attempt that the
\* operation is at: only it could have raised it.
LoadedIsCurrent ==
    \A w \in Workers :
        holder = w /\ view[w] # NoView /\ view[w].id = current => loaded[w] = attempt[current]

\* Of its present attempt, the operation on hand has only the events of the
\* steps up to the one it is at, and of that one only once it runs.
EventsBehind ==
    Active(current) =>
        \A e \in audit :
            e[1] = current /\ e[4] = attempt[current] =>
                /\ e[2] = "running"
                /\ ActiveStep(ops[current].kind, e[3])
                /\ StepIndex(ops[current].kind, e[3]) <= Place(current)
                /\ e[3] = ops[current].step => ops[current].phase = "running"

Entered(i, step) == \E e \in audit : e[1] = i /\ e[2] = "running" /\ e[3] = step

\* The steps an operation must have entered to be where it is.
Behind(i, step) ==
    \/ ops[i].phase = "succeeded"
    \/ Active(i) /\ StepIndex(ops[i].kind, step) < Place(i)
    \/ ops[i].phase = "running" /\ step = ops[i].step

StepsEntered ==
    \A i \in 1 .. Len(ops) : \A step \in Steps \ {"resolve_gpu"} :
        ActiveStep(ops[i].kind, step) /\ Behind(i, step) => Entered(i, step)

AInv == JInv /\ AuditType /\ LoadedIsCurrent /\ EventsBehind /\ StepsEntered

\* The step of EveryMoveAudited.
MovesAudited == \A i \in 1 .. Len(ops) : Moved(i) => \E e \in audit' \ audit : e[1] = i

\* A step has one place on a path, and a place one step.
LEMMA OnePlace ==
    ASSUME NEW k \in Kinds, NEW s, NEW t, ActiveStep(k, s), ActiveStep(k, t),
           StepIndex(k, s) = StepIndex(k, t)
    PROVE  s = t
BY ActiveStepPlace, SMTT(15)

\* Going on to the next step leaves out at most resolve_gpu.
LEMMA RunningTransition ==
    ASSUME NEW k \in Kinds, NEW s, NEW from, NEW n \in Steps,
           ValidTransition(k, from, s, "running", n)
    PROVE  /\ ActiveStep(k, s) /\ ActiveStep(k, n)
           /\ \/ from = "pending" /\ n = s
              \/ /\ from = "running" /\ StepIndex(k, s) < StepIndex(k, n)
                 /\ \A t \in Steps \ {"resolve_gpu"} :
                        ActiveStep(k, t) /\ StepIndex(k, t) < StepIndex(k, n) =>
                            StepIndex(k, t) <= StepIndex(k, s)
<1>1. /\ ActiveStep(k, s) /\ ActiveStep(k, n)
      /\ \/ from = "pending" /\ n = s
         \/ from = "running" /\ CompatEdge(k, s, n)
         \/ from = "running" /\ StepIndex(k, n) = StepIndex(k, s) + 1
  BY DEF ValidTransition
<1>2. StepIndex(k, s) \in Nat /\ StepIndex(k, n) \in Nat
  BY <1>1, ActiveStepPlace, SMTT(15)
<1>3. \A t : ActiveStep(k, t) => StepIndex(k, t) \in Nat
  BY ActiveStepPlace, SMTT(15)
<1>4. CASE StepIndex(k, n) = StepIndex(k, s) + 1 /\ from = "running"
  BY <1>1, <1>2, <1>3, <1>4, SMTT(15)
<1>5. CASE CompatEdge(k, s, n) /\ from = "running"
  <2> DEFINE g == OperationPaths[k][StepIndex(k, s) + 1]
  <2>1. s = "reserve_quota" /\ n = "apply_cr" /\ g = "resolve_gpu"
    BY <1>5 DEF CompatEdge
  <2>2. ActiveStep(k, g) /\ StepIndex(k, g) = StepIndex(k, s) + 1
    BY <1>1, <2>1, Successor
  <2> HIDE DEF g
  <2> DEFINE a == OperationPaths[k][StepIndex(k, g) + 1]
  <2>3. a = "apply_cr" /\ StepIndex(k, a) = StepIndex(k, g) + 1
    BY <2>1, <2>2, Successor, SMTT(15) DEF ComesAfter
  <2>4. StepIndex(k, n) = StepIndex(k, s) + 2
    BY <1>2, <2>1, <2>2, <2>3, SMTT(15)
  <2>5. \A t : ActiveStep(k, t) /\ StepIndex(k, t) = StepIndex(k, s) + 1 => t = "resolve_gpu"
    BY <2>1, <2>2, OnePlace
  <2> QED
    BY <1>1, <1>2, <1>3, <1>5, <2>4, <2>5, SMTT(15)
<1> QED
  BY <1>1, <1>4, <1>5

\* An operation succeeds from the last of its steps.
LEMMA LastTransition ==
    ASSUME NEW k \in Kinds, NEW s, NEW from,
           ValidTransition(k, from, s, "succeeded", "complete")
    PROVE  /\ from = "running" /\ ActiveStep(k, s)
           /\ \A t : ActiveStep(k, t) => StepIndex(k, t) <= StepIndex(k, s)
<1>1. from = "running" /\ ActiveStep(k, s) /\ StepIndex(k, s) = Len(OperationPaths[k]) - 1
  BY DEF ValidTransition
<1> QED
  BY <1>1, ActiveStepPlace, SMTT(15)

-----------------------------------------------------------------------------
(* The audit: the steps *)

\* What the invariant says about the operation the service points at.
LEMMA OnHand ==
    ASSUME AInv
    PROVE  /\ ops \in Seq(Operation) /\ Len(ops) \in Nat
           /\ current = Len(ops) /\ current \in 1 .. Len(ops)
           /\ ops[current] \in Operation /\ ops[current].kind \in Kinds
           /\ attempt \in Seq(Nat) /\ Len(attempt) = Len(ops) /\ attempt[current] \in Nat
           /\ \A i \in 1 .. Len(ops) : Active(i) => i = current
<1>1. /\ ops \in Seq(Operation) /\ current = Len(ops) /\ Len(ops) >= 1
      /\ \A i \in 1 .. Len(ops) : Active(i) => i = current
  BY DEF AInv, JInv, JournalTypeOK, ActiveIsCurrent
<1>2. attempt \in Seq(Nat) /\ Len(attempt) = Len(ops)
  BY DEF AInv, AuditType
<1>3. Len(ops) \in Nat /\ current \in 1 .. Len(ops)
  BY <1>1, SMTT(15)
<1>4. ops[current] \in Operation /\ attempt[current] \in Nat
  BY <1>1, <1>2, <1>3, SMTT(15)
<1> QED
  BY <1>1, <1>2, <1>3, <1>4 DEF Operation

\* A worker's write finds the attempt it loaded.
LEMMA WriterLoaded ==
    ASSUME AInv, NEW w \in Workers, CAS(w)
    PROVE  /\ view[w].id = current /\ Active(current) /\ loaded[w] = attempt[current]
           /\ ops[current].phase = view[w].phase /\ ops[current].step = view[w].step
           /\ ActiveStep(ops[current].kind, ops[current].step)
<1>1. /\ view[w].id = current /\ Active(current) /\ ops[current].phase = view[w].phase
  BY CASCurrent DEF AInv
<1> QED
  BY <1>1 DEF CAS, AInv, LoadedIsCurrent, AuditType

\* A command appends an operation without events and ends the one before.
LEMMA InstallAudit ==
    ASSUME AInv, JInv', NEW k \in Kinds, NEW before \in Seq(Operation), Install(k, before),
           Len(before) = Len(ops),
           \A i \in 1 .. Len(ops) :
               /\ before[i].kind = ops[i].kind /\ before[i].step = ops[i].step
               /\ before[i].phase \in {ops[i].phase, "failed"} \ ActivePhases,
           attempt' = Append(attempt, 0), holder' \in {holder, NoWorker},
           UNCHANGED <<loaded, audit, view>>
    PROVE  AInv' /\ MovesAudited
<1> DEFINE n == Len(ops)
<1>1. /\ NewOperation(k) \in Operation /\ NewOperation(k).kind = k
      /\ NewOperation(k).step = EntryStep(k) /\ NewOperation(k).phase = "pending"
  BY NewOperationType DEF NewOperation
<1>2. /\ Len(ops') = n + 1 /\ ops'[n + 1] = NewOperation(k)
      /\ \A i \in 1 .. n : ops'[i] = before[i]
  BY <1>1, AppendOperation, ZenonT(30) DEF Install
<1>3. n \in Nat /\ n >= 1 /\ current = n /\ current' = n + 1
  BY OnHand DEF Install, AInv, JInv, ActiveIsCurrent
<1>4. /\ attempt' \in Seq(Nat) /\ Len(attempt') = n + 1
      /\ attempt'[n + 1] = 0 /\ \A i \in 1 .. n : attempt'[i] = attempt[i]
  BY OnHand, SMTT(15)
<1>5. ActiveStep(k, EntryStep(k)) /\ StepIndex(k, EntryStep(k)) = 1
  BY EntryIsActive
<1>6. AuditType'
  <2>1. \A e \in audit : e[1] \in 1 .. n + 1 /\ e[4] \in 0 .. attempt'[e[1]]
    BY <1>3, <1>4, SMTT(15) DEF AInv, AuditType
  <2>2. \A w \in Workers : view[w] # NoView => view[w].id \in 1 .. n + 1
    BY <1>3, SMTT(15) DEF AInv, AuditType
  <2>3. ActiveStep(ops'[current'].kind, ops'[current'].step)
    BY <1>1, <1>2, <1>3, <1>5
  <2> QED
    BY <1>2, <1>4, <2>1, <2>2, <2>3 DEF AInv, AuditType
<1>7. LoadedIsCurrent'
  BY <1>3, SMTT(15) DEF AInv, AuditType, LoadedIsCurrent
<1>8. EventsBehind'
  BY <1>3, SMTT(15) DEF AInv, AuditType, EventsBehind
<1>9. StepsEntered'
  <2> SUFFICES ASSUME NEW i \in 1 .. n + 1, NEW step \in Steps \ {"resolve_gpu"},
                      ActiveStep(ops'[i].kind, step), Behind(i, step)'
               PROVE  Entered(i, step)'
    BY <1>2 DEF StepsEntered
  <2>1. CASE i = n + 1
    <3>1. ops'[i].kind = k /\ ops'[i].step = EntryStep(k) /\ ops'[i].phase = "pending"
      BY <1>1, <1>2, <2>1
    <3>2. StepIndex(k, step) < 1
      BY <1>5, <3>1 DEF Behind, Place
    <3> QED
      BY <3>1, <3>2, ActiveStepPlace, SMTT(15)
  <2>2. CASE i \in 1 .. n
    <3>1. ops'[i].kind = ops[i].kind /\ ops'[i].step = ops[i].step
          /\ ops'[i].phase \in {ops[i].phase, "failed"} \ ActivePhases
      BY <1>2, <2>2
    <3>2. Behind(i, step)
      BY <3>1 DEF Behind, Active, ActivePhases
    <3>3. Entered(i, step)
      BY <2>2, <3>1, <3>2 DEF AInv, StepsEntered
    <3> QED
      BY <3>3 DEF Entered
  <2> QED
    BY <1>3, <2>1, <2>2, SMTT(15)
<1>10. MovesAudited
  BY <1>2, <1>4 DEF MovesAudited, Moved
<1> QED
  BY <1>6, <1>7, <1>8, <1>9, <1>10 DEF AInv

\* The commands.
LEMMA CommandAudit ==
    ASSUME AInv, JInv', Command
    PROVE  AInv' /\ MovesAudited
<1>1. ops \in Seq(Operation) /\ "delete" \in Kinds
  BY OnHand DEF Kinds
<1>2. ASSUME NEW k \in Kinds, Accept(k) PROVE AInv' /\ MovesAudited
  <2>1. \A i \in 1 .. Len(ops) : ops[i].phase \notin ActivePhases
    BY <1>2 DEF Accept, Active
  <2>2. Install(k, ops) /\ UNCHANGED <<holder, view>>
    BY <1>2 DEF Accept
  <2>3. attempt' = Append(attempt, 0) /\ UNCHANGED <<loaded, audit>>
    BY DEF Command
  <2> QED
    BY <1>1, <2>1, <2>2, <2>3, InstallAudit
<1>3. ASSUME AcceptDelete PROVE AInv' /\ MovesAudited
  <2>1. Install("delete", Cancelled) /\ holder' \in {holder, NoWorker} /\ UNCHANGED view
    BY <1>3 DEF AcceptDelete
  <2>2. attempt' = Append(attempt, 0) /\ UNCHANGED <<loaded, audit>>
    BY DEF Command
  <2>3. /\ Cancelled \in Seq(Operation) /\ Len(Cancelled) = Len(ops)
        /\ \A i \in 1 .. Len(ops) :
               /\ Cancelled[i].kind = ops[i].kind /\ Cancelled[i].step = ops[i].step
               /\ Cancelled[i].phase \in {ops[i].phase, "failed"} \ ActivePhases
    BY CancelledTable DEF AInv
  <2>4. ASSUME NEW before, before = Cancelled PROVE AInv' /\ MovesAudited
    BY <1>1, <2>1, <2>2, <2>3, <2>4, InstallAudit
  <2> QED
    BY <2>4
<1> QED
  BY <1>2, <1>3 DEF Command

\* Leases come and go, a worker forgets, and a retry comes due: nothing that
\* is recorded changes.
LEMMA OtherAudit ==
    ASSUME AInv, JInv', Other
    PROVE  AInv' /\ MovesAudited
<1>1. UNCHANGED <<attempt, loaded, audit, current>>
  BY DEF Other, LeaseLost, RetryElapsed, Lease, Forget
<1>2. /\ Len(ops') = Len(ops)
      /\ \A i \in 1 .. Len(ops) : /\ ops'[i].kind = ops[i].kind
                                  /\ ops'[i].step = ops[i].step
                                  /\ ops'[i].phase = ops[i].phase
  <2>1. CASE UNCHANGED ops
    BY <2>1
  <2>2. CASE RetryElapsed
    <3> DEFINE o == [ops[current] EXCEPT !.waiting = FALSE]
    <3>1. /\ o \in Operation /\ o.kind = ops[current].kind
          /\ o.phase = ops[current].phase /\ o.step = ops[current].step
      BY OnHand, ElapsedOperation
    <3>2. ops' = [ops EXCEPT ![current] = o]
      BY <2>2 DEF RetryElapsed
    <3> HIDE DEF o
    <3>3. /\ Len(ops') = Len(ops) /\ ops'[current] = o
          /\ \A j \in 1 .. Len(ops) : j # current => ops'[j] = ops[j]
      BY <3>1, <3>2, OnHand, ReplaceOperation, SMTT(15)
    <3> QED
      BY <3>1, <3>3
  <2> QED
    BY <2>1, <2>2 DEF Other, LeaseLost, Lease, Forget
<1>3. /\ \A w \in Workers : view'[w] # NoView => view'[w] = view[w]
      /\ \A w \in Workers : holder' = w /\ view'[w] # NoView => holder = w
  <2>1. view \in [Workers -> [id : Nat, phase : Phases, step : Steps]]
    BY DEF AInv, JInv, JournalTypeOK
  <2>2. CASE LeaseLost
    BY <2>1, <2>2, NoWorkerAssumption DEF LeaseLost
  <2>3. CASE RetryElapsed
    BY <2>3 DEF RetryElapsed
  <2>4. ASSUME NEW u \in Workers, Lease(u) PROVE <1>3
    BY <2>4 DEF Lease
  <2>5. ASSUME NEW u \in Workers, Forget(u) PROVE <1>3
    BY <2>1, <2>5 DEF Forget
  <2> QED
    BY <2>2, <2>3, <2>4, <2>5 DEF Other
<1>4. current \in 1 .. Len(ops)
  BY OnHand
<1>5. \A i \in 1 .. Len(ops) : Active(i)' <=> Active(i)
  BY <1>2 DEF Active
<1>6. AuditType'
  <2>1. (Active(current) => ActiveStep(ops[current].kind, ops[current].step))'
    BY <1>1, <1>2, <1>4, <1>5 DEF AInv, AuditType
  <2>2. \A w \in Workers : view'[w] # NoView => view'[w].id \in 1 .. Len(ops)
    BY <1>3 DEF AInv, AuditType
  <2> QED
    BY <1>1, <1>2, <2>1, <2>2 DEF AInv, AuditType
<1>7. LoadedIsCurrent'
  BY <1>1, <1>3 DEF AInv, LoadedIsCurrent
<1>8. EventsBehind'
  BY <1>1, <1>2, <1>4, <1>5 DEF AInv, EventsBehind, Place
<1>9. StepsEntered'
  BY <1>1, <1>2, <1>5, SMTT(15) DEF AInv, StepsEntered, Entered, Behind, Place
<1>10. MovesAudited
  BY <1>1, <1>2 DEF MovesAudited, Moved
<1> QED
  BY <1>6, <1>7, <1>8, <1>9, <1>10 DEF AInv

\* CurrentOperation reads the operation with its attempt.
LEMMA LoadAudit ==
    ASSUME AInv, JInv', NEW w \in Workers, LoadAttempt(w)
    PROVE  AInv' /\ MovesAudited
<1>1. UNCHANGED <<ops, current, holder, attempt, audit>>
  BY DEF LoadAttempt, Load
<1>2. /\ holder = w /\ loaded' = [loaded EXCEPT ![w] = attempt[current]]
      /\ view' = [view EXCEPT ![w] = [id |-> current, phase |-> ops[current].phase,
                                      step |-> ops[current].step]]
  BY DEF LoadAttempt, Load
<1>3. view \in [Workers -> [id : Nat, phase : Phases, step : Steps]] /\ loaded \in [Workers -> Nat]
  BY DEF AInv, JInv, JournalTypeOK, AuditType
<1>4. current \in 1 .. Len(ops) /\ attempt[current] \in Nat
  BY OnHand
<1>5. view'[w].id = current /\ \A u \in Workers : u # w => view'[u] = view[u]
  BY <1>2, <1>3
<1>6. loaded' \in [Workers -> Nat] /\ loaded'[w] = attempt[current]
  BY <1>2, <1>3, <1>4
<1>7. AuditType'
  BY <1>1, <1>4, <1>5, <1>6 DEF AInv, AuditType, Active
<1>8. LoadedIsCurrent'
  BY <1>1, <1>2, <1>6 DEF LoadedIsCurrent
<1>9. EventsBehind'
  BY <1>1 DEF AInv, EventsBehind, Place, Active
<1>10. StepsEntered'
  BY <1>1, SMTT(15) DEF AInv, StepsEntered, Entered, Behind, Place, Active
<1>11. MovesAudited
  BY <1>1 DEF MovesAudited, Moved
<1> QED
  BY <1>7, <1>8, <1>9, <1>10, <1>11 DEF AInv

\* A claim or the next step: its event is new, because what was recorded of
\* this attempt lies behind.
LEMMA RunAudit ==
    ASSUME AInv, JInv', NEW w \in Workers, NEW step \in Steps,
           AdvanceWithAudit(w, "running", step)
    PROVE  AInv' /\ MovesAudited
<1> DEFINE k == ops[current].kind
           s == ops[current].step
           e == <<current, "running", step, attempt[current]>>
<1>1. /\ view[w].id = current /\ Active(current) /\ loaded[w] = attempt[current]
      /\ ops[current].phase = view[w].phase /\ s = view[w].step /\ ActiveStep(k, s)
  BY WriterLoaded DEF AdvanceWithAudit, Advance
<1>2. /\ ActiveStep(k, step)
      /\ \/ ops[current].phase = "pending" /\ step = s
         \/ /\ ops[current].phase = "running" /\ StepIndex(k, s) < StepIndex(k, step)
            /\ \A t \in Steps \ {"resolve_gpu"} :
                   ActiveStep(k, t) /\ StepIndex(k, t) < StepIndex(k, step) =>
                       StepIndex(k, t) <= StepIndex(k, s)
  <2>1. ValidTransition(k, ops[current].phase, s, "running", step)
    BY <1>1 DEF AdvanceWithAudit, Advance
  <2> QED
    BY <2>1, OnHand, RunningTransition
<1>3. /\ UNCHANGED <<attempt, loaded, current, holder>> /\ audit' = audit \cup {e}
  BY <1>1 DEF AdvanceWithAudit, Advance, EventID
<1>4. /\ Len(ops') = Len(ops) /\ \A i \in 1 .. Len(ops) : i # current => ops'[i] = ops[i]
      /\ ops'[current].kind = k /\ ops'[current].step = step
      /\ ops'[current].phase = "running"
  <2>3. PICK o : o = [ops[current] EXCEPT !.phase = "running", !.step = step]
    OBVIOUS
  <2>0. ops[current] \in Operation /\ "running" \in Phases
    BY OnHand DEF Phases, ActivePhases
  <2>1. o \in Operation /\ o.kind = k /\ o.step = step /\ o.phase = "running"
    BY <2>0, <2>3 DEF Operation
  <2>2. ops' = [ops EXCEPT ![current] = o]
    BY <1>1, <2>3 DEF AdvanceWithAudit, Advance
  <2> QED
    BY <2>1, <2>2, OnHand, ReplaceOperation, SMTT(15)
<1>5. \A u \in Workers : view'[u] # NoView => view[u] # NoView /\ view'[u].id = view[u].id
  <2>1. view \in [Workers -> [id : Nat, phase : Phases, step : Steps]] /\ view[w] # NoView
    BY DEF AInv, JInv, JournalTypeOK, AdvanceWithAudit, Advance, CAS
  <2> QED
    BY <2>1, SMTT(15) DEF AdvanceWithAudit, Advance, AfterAdvance
<1>6. e \notin audit
  <2>1. ASSUME e \in audit PROVE FALSE
    <3>1. e[1] = current /\ e[3] = step /\ e[4] = attempt[current]
      OBVIOUS
    <3> HIDE DEF e
    <3>2. StepIndex(k, step) <= StepIndex(k, s) /\ (step = s => ops[current].phase = "running")
      BY <1>1, <2>1, <3>1 DEF AInv, EventsBehind, Place
    <3> QED
      BY <1>1, <1>2, <3>2, OnHand, ActiveStepPlace, SMTT(15)
  <2> QED
    BY <2>1
<1>7. /\ e[1] = current /\ e[2] = "running" /\ e[3] = step /\ e[4] = attempt[current]
      /\ current \in 1 .. Len(ops) /\ attempt[current] \in Nat /\ k \in Kinds
  BY OnHand
<1> HIDE DEF e
<1>8. AuditType'
  <2>1. \A u \in Workers : view'[u] # NoView => view'[u].id \in 1 .. Len(ops)
    BY <1>5 DEF AInv, AuditType
  <2>2. \A f \in audit' : f[1] \in 1 .. Len(ops) /\ f[4] \in 0 .. attempt[f[1]]
    BY <1>3, <1>7, SMTT(15) DEF AInv, AuditType
  <2> QED
    BY <1>2, <1>3, <1>4, <2>1, <2>2 DEF AInv, AuditType
<1>9. LoadedIsCurrent'
  BY <1>3, <1>5 DEF AInv, LoadedIsCurrent
<1>10. StepIndex(k, s) \in Nat /\ StepIndex(k, step) \in Nat
       /\ \A t : ActiveStep(k, t) => StepIndex(k, t) \in Nat
  BY <1>1, <1>2, <1>7, ActiveStepPlace, SMTT(15)
<1>11. StepIndex(k, s) <= StepIndex(k, step)
  BY <1>2, <1>10, SMTT(15)
<1>12. EventsBehind'
  <2> SUFFICES ASSUME NEW f \in audit', f[1] = current, f[4] = attempt[current]
               PROVE  /\ f[2] = "running" /\ ActiveStep(k, f[3])
                      /\ StepIndex(k, f[3]) <= StepIndex(k, step)
    BY <1>3, <1>4 DEF EventsBehind, Place
  <2>1. CASE f = e
    BY <1>2, <1>7, <1>10, <2>1, SMTT(15)
  <2>2. CASE f \in audit
    <3>1. f[2] = "running" /\ ActiveStep(k, f[3]) /\ StepIndex(k, f[3]) <= StepIndex(k, s)
      BY <1>1, <2>2 DEF AInv, EventsBehind, Place
    <3> QED
      BY <1>10, <1>11, <3>1, SMTT(15)
  <2> QED
    BY <1>3, <2>1, <2>2
<1>13. StepsEntered'
  <2> SUFFICES ASSUME NEW i \in 1 .. Len(ops), NEW t \in Steps \ {"resolve_gpu"},
                      ActiveStep(ops'[i].kind, t), Behind(i, t)'
               PROVE  Entered(i, t)'
    BY <1>4 DEF StepsEntered
  <2>1. Entered(i, t) => Entered(i, t)'
    BY <1>3 DEF Entered
  <2>2. CASE i # current
    <3>1. Behind(i, t) /\ ActiveStep(ops[i].kind, t)
      BY <1>4, <2>2 DEF Behind, Active, Place
    <3> QED
      BY <2>1, <3>1 DEF AInv, StepsEntered
  <2>3. CASE i = current /\ t = step
    BY <1>3, <1>7, <2>3 DEF Entered
  <2>4. CASE i = current /\ t # step
    <3>1. ActiveStep(k, t) /\ StepIndex(k, t) < StepIndex(k, step)
      BY <1>4, <2>4 DEF Behind, Place
    <3>2. Behind(i, t)
      <4>1. CASE ops[current].phase = "pending" /\ step = s
        BY <1>1, <2>4, <3>1, <4>1 DEF Behind, Place
      <4>2. CASE ops[current].phase = "running" /\ StepIndex(k, t) <= StepIndex(k, s)
        <5>1. StepIndex(k, t) < StepIndex(k, s) \/ StepIndex(k, t) = StepIndex(k, s)
          BY <1>10, <3>1, <4>2, SMTT(15)
        <5>2. StepIndex(k, t) = StepIndex(k, s) => t = s
          BY <1>1, <1>7, <3>1, OnePlace
        <5> QED
          BY <1>1, <2>4, <4>2, <5>1, <5>2 DEF Behind, Place
      <4> QED
        BY <1>2, <3>1, <4>1, <4>2
    <3>3. Entered(i, t)
      BY <2>4, <3>1, <3>2 DEF AInv, StepsEntered
    <3> QED
      BY <2>1, <3>3
  <2> QED
    BY <2>2, <2>3, <2>4
<1>14. MovesAudited
  BY <1>3, <1>4, <1>6, <1>7 DEF MovesAudited, Moved
<1> QED
  BY <1>8, <1>9, <1>12, <1>13, <1>14 DEF AInv

\* An operation succeeds from its last step, so that it entered them all.
LEMMA SuccessAudit ==
    ASSUME AInv, JInv', NEW w \in Workers, AdvanceWithAudit(w, "succeeded", "complete")
    PROVE  AInv' /\ MovesAudited
<1> DEFINE k == ops[current].kind
           s == ops[current].step
           e == <<current, "succeeded", "complete", attempt[current]>>
<1>1. /\ view[w].id = current /\ Active(current) /\ loaded[w] = attempt[current]
      /\ ops[current].phase = view[w].phase /\ s = view[w].step /\ ActiveStep(k, s)
  BY WriterLoaded DEF AdvanceWithAudit, Advance
<1>2. /\ ops[current].phase = "running"
      /\ \A t : ActiveStep(k, t) => StepIndex(k, t) <= StepIndex(k, s)
  <2>1. ValidTransition(k, ops[current].phase, s, "succeeded", "complete")
    BY <1>1 DEF AdvanceWithAudit, Advance
  <2> QED
    BY <2>1, OnHand, LastTransition, SMTT(15)
<1>3. /\ UNCHANGED <<attempt, loaded, current, holder>> /\ audit' = audit \cup {e}
  BY <1>1 DEF AdvanceWithAudit, Advance, EventID
<1>4. /\ Len(ops') = Len(ops) /\ \A i \in 1 .. Len(ops) : i # current => ops'[i] = ops[i]
      /\ ops'[current].kind = k /\ ops'[current].step = "complete"
      /\ ops'[current].phase = "succeeded"
  <2>4. PICK o : o = [ops[current] EXCEPT !.phase = "succeeded", !.step = "complete"]
    OBVIOUS
  <2>1. ops[current] \in Operation /\ "succeeded" \in Phases /\ "complete" \in Steps
    BY OnHand DEF Phases, Steps
  <2>2. o \in Operation /\ o.kind = k /\ o.step = "complete" /\ o.phase = "succeeded"
    BY <2>1, <2>4 DEF Operation
  <2>3. ops' = [ops EXCEPT ![current] = o]
    BY <1>1, <2>4 DEF AdvanceWithAudit, Advance
  <2> QED
    BY <2>2, <2>3, OnHand, ReplaceOperation, SMTT(15)
<1>5. \A u \in Workers : view'[u] # NoView => view[u] # NoView /\ view'[u].id = view[u].id
  <2>1. view \in [Workers -> [id : Nat, phase : Phases, step : Steps]] /\ view[w] # NoView
    BY DEF AInv, JInv, JournalTypeOK, AdvanceWithAudit, Advance, CAS
  <2> QED
    BY <2>1, SMTT(15) DEF AdvanceWithAudit, Advance, AfterAdvance
<1>6. /\ e[1] = current /\ e[2] = "succeeded" /\ e[4] = attempt[current]
      /\ current \in 1 .. Len(ops) /\ attempt[current] \in Nat /\ k \in Kinds
  BY OnHand
<1> HIDE DEF e
<1>7. e \notin audit
  BY <1>1, <1>6 DEF AInv, EventsBehind
<1>8. ~Active(current)'
  BY <1>3, <1>4 DEF Active, ActivePhases
<1>9. AuditType'
  <2>1. \A u \in Workers : view'[u] # NoView => view'[u].id \in 1 .. Len(ops)
    BY <1>5 DEF AInv, AuditType
  <2>2. \A f \in audit' : f[1] \in 1 .. Len(ops) /\ f[4] \in 0 .. attempt[f[1]]
    BY <1>3, <1>6, SMTT(15) DEF AInv, AuditType
  <2> QED
    BY <1>3, <1>4, <1>8, <2>1, <2>2 DEF AInv, AuditType
<1>10. LoadedIsCurrent'
  BY <1>3, <1>5 DEF AInv, LoadedIsCurrent
<1>11. EventsBehind'
  BY <1>8 DEF EventsBehind
<1>12. StepsEntered'
  <2> SUFFICES ASSUME NEW i \in 1 .. Len(ops), NEW t \in Steps \ {"resolve_gpu"},
                      ActiveStep(ops'[i].kind, t), Behind(i, t)'
               PROVE  Entered(i, t)'
    BY <1>4 DEF StepsEntered
  <2>1. Entered(i, t) => Entered(i, t)'
    BY <1>3 DEF Entered
  <2>2. CASE i # current
    <3>1. Behind(i, t) /\ ActiveStep(ops[i].kind, t)
      BY <1>4, <2>2 DEF Behind, Active, Place
    <3> QED
      BY <2>1, <3>1 DEF AInv, StepsEntered
  <2>3. CASE i = current
    <3>1. ActiveStep(k, t) /\ StepIndex(k, t) <= StepIndex(k, s)
      BY <1>2, <1>4, <2>3
    <3>2. StepIndex(k, t) < StepIndex(k, s) \/ StepIndex(k, t) = StepIndex(k, s)
      BY <1>1, <1>6, <3>1, ActiveStepPlace, SMTT(15)
    <3>3. StepIndex(k, t) = StepIndex(k, s) => t = s
      BY <1>1, <1>6, <3>1, OnePlace
    <3>4. Behind(i, t)
      BY <1>1, <1>2, <2>3, <3>2, <3>3 DEF Behind, Place
    <3>5. Entered(i, t)
      BY <2>3, <3>1, <3>4 DEF AInv, StepsEntered
    <3> QED
      BY <2>1, <3>5
  <2> QED
    BY <2>2, <2>3
<1>13. MovesAudited
  BY <1>3, <1>4, <1>6, <1>7 DEF MovesAudited, Moved
<1> QED
  BY <1>9, <1>10, <1>11, <1>12, <1>13 DEF AInv

\* A retry is the last event of its attempt.
LEMMA RetryAudit ==
    ASSUME AInv, JInv', NEW w \in Workers, RetryWithAudit(w)
    PROVE  AInv' /\ MovesAudited
<1> DEFINE k == ops[current].kind
           s == ops[current].step
           e == <<current, "pending", s, attempt[current]>>
           a == attempt[current] + 1
<1>1. /\ view[w].id = current /\ Active(current) /\ loaded[w] = attempt[current]
      /\ s = view[w].step /\ ActiveStep(k, s)
  BY WriterLoaded DEF RetryWithAudit, RetryStep
<1>2. /\ e[1] = current /\ e[2] = "pending" /\ e[4] = attempt[current]
      /\ current \in 1 .. Len(ops) /\ attempt[current] \in Nat /\ k \in Kinds /\ a \in Nat
  BY OnHand, SMTT(15)
<1>3. /\ UNCHANGED <<loaded, current, holder>> /\ audit' = audit \cup {e}
      /\ attempt' = [attempt EXCEPT ![current] = a]
  BY <1>1 DEF RetryWithAudit, RetryStep, EventID
<1>4. /\ Len(ops') = Len(ops) /\ \A i \in 1 .. Len(ops) : i # current => ops'[i] = ops[i]
      /\ ops'[current].kind = k /\ ops'[current].step = s
      /\ ops'[current].phase = "pending"
  <2> DEFINE o == [ops[current] EXCEPT !.phase = "pending", !.waiting = TRUE]
  <2>1. ops[current] \in Operation
    BY OnHand
  <2>2. o \in Operation /\ o.kind = k /\ o.step = s /\ o.phase = "pending"
    BY <2>1, WaitingOperation
  <2>3. ops' = [ops EXCEPT ![current] = o]
    BY <1>1 DEF RetryWithAudit, RetryStep
  <2> HIDE DEF o
  <2> QED
    BY <2>2, <2>3, OnHand, ReplaceOperation, SMTT(15)
<1>5. /\ attempt' \in Seq(Nat) /\ Len(attempt') = Len(attempt) /\ attempt'[current] = a
      /\ \A i \in 1 .. Len(ops) : i # current => attempt'[i] = attempt[i]
  <2> HIDE DEF a
  <2> QED
    BY <1>2, <1>3, OnHand, SMTT(15)
<1>6. \A u \in Workers : view'[u] # NoView => view'[u] = view[u] /\ u # w
  <2>1. view \in [Workers -> [id : Nat, phase : Phases, step : Steps]]
    BY DEF AInv, JInv, JournalTypeOK
  <2> QED
    BY <2>1 DEF RetryWithAudit, RetryStep
<1>7. holder = w
  BY DEF RetryWithAudit, RetryStep, CAS
<1> HIDE DEF e
<1>8. e \notin audit
  BY <1>1, <1>2 DEF AInv, EventsBehind
<1>9. AuditType'
  <2>1. \A u \in Workers : view'[u] # NoView => view'[u].id \in 1 .. Len(ops)
    BY <1>6 DEF AInv, AuditType
  <2>2. \A f \in audit' : f[1] \in 1 .. Len(ops) /\ f[4] \in 0 .. attempt'[f[1]]
    <3>1. \A f \in audit : f[1] \in 1 .. Len(ops) /\ f[4] \in 0 .. attempt[f[1]]
      BY DEF AInv, AuditType
    <3>2. \A i \in 1 .. Len(ops) : attempt[i] \in Nat /\ attempt'[i] \in Nat
                                   /\ attempt[i] <= attempt'[i]
      <4>1. \A i \in 1 .. Len(ops) : attempt[i] \in Nat
        BY OnHand, SMTT(15)
      <4>2. attempt[current] <= a
        BY <1>2, SMTT(15)
      <4> HIDE DEF a
      <4> QED
        BY <1>2, <1>5, <4>1, <4>2, SMTT(15)
    <3>3. e[1] \in 1 .. Len(ops) /\ e[4] \in 0 .. attempt'[e[1]]
      BY <1>2, <1>5, SMTT(15)
    <3> QED
      BY <1>3, <3>1, <3>2, <3>3, SMTT(15)
  <2> QED
    BY <1>1, <1>3, <1>4, <1>5, <2>1, <2>2 DEF AInv, AuditType
<1>10. LoadedIsCurrent'
  BY <1>3, <1>6, <1>7 DEF LoadedIsCurrent
<1>11. EventsBehind'
  <2>1. \A f \in audit' : f[1] = current => f[4] <= attempt[current] /\ f[4] \in Nat
    BY <1>2, <1>3, SMTT(15) DEF AInv, AuditType
  <2>2. \A f \in audit' : f[1] = current => f[4] # attempt'[current]
    BY <1>2, <1>5, <2>1, SMTT(15)
  <2> QED
    BY <1>3, <2>2 DEF EventsBehind
<1>12. StepsEntered'
  <2> SUFFICES ASSUME NEW i \in 1 .. Len(ops), NEW t \in Steps \ {"resolve_gpu"},
                      ActiveStep(ops'[i].kind, t), Behind(i, t)'
               PROVE  Entered(i, t)'
    BY <1>4 DEF StepsEntered
  <2>1. Behind(i, t) /\ ActiveStep(ops[i].kind, t)
    BY <1>1, <1>4 DEF Behind, Active, Place
  <2> QED
    BY <1>3, <2>1, SMTT(15) DEF AInv, StepsEntered, Entered
<1>13. MovesAudited
  BY <1>2, <1>3, <1>4, <1>5, <1>8 DEF MovesAudited, Moved
<1> QED
  BY <1>9, <1>10, <1>11, <1>12, <1>13 DEF AInv

\* Creation: one operation, without events.
LEMMA InitAudit == Init => AInv
<1> SUFFICES ASSUME Init PROVE AInv
  OBVIOUS
<1>1. JInv
  BY InitJInv DEF Init
<1>2. /\ NewOperation("create") \in Operation /\ NewOperation("create").kind = "create"
      /\ NewOperation("create").step = EntryStep("create")
      /\ NewOperation("create").phase = "pending"
  BY NewOperationType DEF NewOperation, Kinds
<1>3. /\ Len(ops) = 1 /\ ops[1] = NewOperation("create") /\ current = 1 /\ audit = {}
      /\ attempt = <<0>> /\ loaded = [w \in Workers |-> 0]
      /\ \A w \in Workers : view[w] = NoView
  BY DEF Init, JournalInit
<1>4. /\ ActiveStep("create", EntryStep("create"))
      /\ StepIndex("create", EntryStep("create")) = 1
  BY EntryIsActive DEF Kinds
<1>5. AuditType /\ LoadedIsCurrent /\ EventsBehind
  BY <1>2, <1>3, <1>4, SMTT(15) DEF AuditType, LoadedIsCurrent, EventsBehind
<1>6. StepsEntered
  <2> SUFFICES ASSUME NEW step \in Steps, ActiveStep("create", step), Behind(1, step)
               PROVE  FALSE
    BY <1>2, <1>3, SMTT(15) DEF StepsEntered
  <2>1. StepIndex("create", step) < 1
    BY <1>2, <1>3, <1>4 DEF Behind, Place
  <2> QED
    BY <2>1, ActiveStepPlace, SMTT(15) DEF Kinds
<1> QED
  BY <1>1, <1>5, <1>6 DEF AInv

\* Every step of the journal, and of the parts beside it.
LEMMA NextAudit ==
    ASSUME AInv, [Next]_vars
    PROVE  AInv' /\ [MovesAudited]_vars
<1>1. JInv'
  <2>1. Next => JournalNext
    <3>1. Command => JournalNext
      BY DEF Command, JournalNext
    <3>2. Other => JournalNext
      BY DEF Other, JournalNext
    <3>3. ASSUME NEW w \in Workers,
                 \/ LoadAttempt(w) \/ RetryWithAudit(w)
                 \/ \E step \in Steps : AdvanceWithAudit(w, "running", step)
                 \/ AdvanceWithAudit(w, "succeeded", "complete")
          PROVE  JournalNext
      BY <3>3 DEF LoadAttempt, RetryWithAudit, AdvanceWithAudit, Progress, JournalNext
    <3> QED
      BY <3>1, <3>2, <3>3 DEF Next
  <2>2. UNCHANGED vars => UNCHANGED journal
    BY DEF vars
  <2> QED
    BY <2>1, <2>2, NextJInv DEF AInv
<1>2. CASE UNCHANGED vars
  <2>1. UNCHANGED <<ops, current, holder, view, attempt, loaded, audit>>
    BY <1>2 DEF vars, journal
  <2>2. AuditType' /\ LoadedIsCurrent' /\ EventsBehind'
    BY <2>1 DEF AInv, AuditType, LoadedIsCurrent, EventsBehind, Place, Active
  <2>3. StepsEntered'
    BY <2>1, SMTT(15) DEF AInv, StepsEntered, Entered, Behind, Place, Active
  <2> QED
    BY <1>1, <1>2, <2>2, <2>3 DEF AInv
<1>3. CASE Command
  BY <1>1, <1>3, CommandAudit
<1>4. CASE Other
  BY <1>1, <1>4, OtherAudit
<1>5. ASSUME NEW w \in Workers, LoadAttempt(w) PROVE AInv' /\ MovesAudited
  BY <1>1, <1>5, LoadAudit
<1>6. ASSUME NEW w \in Workers, NEW step \in Steps, AdvanceWithAudit(w, "running", step)
      PROVE  AInv' /\ MovesAudited
  BY <1>1, <1>6, RunAudit
<1>7. ASSUME NEW w \in Workers, AdvanceWithAudit(w, "succeeded", "complete")
      PROVE  AInv' /\ MovesAudited
  BY <1>1, <1>7, SuccessAudit
<1>8. ASSUME NEW w \in Workers, RetryWithAudit(w) PROVE AInv' /\ MovesAudited
  BY <1>1, <1>8, RetryAudit
<1> QED
  BY <1>2, <1>3, <1>4, <1>5, <1>6, <1>7, <1>8 DEF Next

\* The audit's invariant holds in every reachable state.
THEOREM AuditInvariance == RecordsSpec => []AInv
<1>1. RecordsInit => AInv
  BY InitAudit DEF RecordsInit
<1>2. [RecordsNext]_recordsVars => [Next]_vars
  BY DEF RecordsNext, recordsVars
<1>3. AInv /\ [RecordsNext]_recordsVars => AInv'
  BY <1>2, NextAudit
<1> QED
  BY <1>1, <1>3, PTL DEF RecordsSpec

\* An operation succeeds only with the event of every step of its path in the
\* journal, whatever retries, lost leases and deletes came between
\* (stepWithAudit, ValidateOperationStepTransition).
THEOREM SuccessIsWhole == RecordsSpec => []SucceededRanEveryStep
<1>1. AInv => SucceededRanEveryStep
  <2> SUFFICES ASSUME AInv, NEW i \in 1 .. Len(ops), ops[i].phase = "succeeded",
                      NEW step \in Steps \ {"complete", "resolve_gpu"},
                      OnPath(ops[i].kind, step)
               PROVE  Entered(i, step)
    BY DEF SucceededRanEveryStep, Entered
  <2>1. ops[i].kind \in Kinds
    <3>1. ops[i] \in Operation
      BY OnHand, SMTT(15)
    <3> QED
      BY <3>1 DEF Operation
  <2>2. ActiveStep(ops[i].kind, step)
    <3>1. PICK j \in 1 .. Len(OperationPaths[ops[i].kind]) : OperationPaths[ops[i].kind][j] = step
      BY DEF OnPath
    <3> QED
      BY <2>1, <3>1, PlaceIsActive
  <2> QED
    BY <2>2 DEF AInv, StepsEntered, Behind
<1> QED
  BY <1>1, AuditInvariance, PTL

\* No move of an operation goes unrecorded: the event a worker derives from
\* what it loaded is never one that is there already (operationEventID, and the
\* ON CONFLICT DO NOTHING of AppendAuditEvent).
THEOREM MovesAreAudited == RecordsSpec => EveryMoveAudited
<1>1. [RecordsNext]_recordsVars => [Next]_vars
  BY DEF RecordsNext, recordsVars
<1>2. AInv /\ [RecordsNext]_recordsVars =>
        [\A i \in 1 .. Len(ops) : Moved(i) => \E e \in audit' \ audit : e[1] = i]_vars
  BY <1>1, NextAudit DEF MovesAudited
<1> QED
  BY <1>2, AuditInvariance, PTL DEF RecordsSpec, EveryMoveAudited

-----------------------------------------------------------------------------
(* The probe cache *)

CallShape(k) ==
    k = [pc |-> k.pc, scope |-> k.scope, now |-> k.now, health |-> k.health, at |-> k.at]

\* A call read the clock before now, and its answer was fresh then.
CallSound(k) ==
    /\ CallShape(k)
    /\ k.now \in Nat /\ k.now <= clock
    /\ k.pc = "answered" => k.at \in Nat /\ k.now < k.at + TTL

CallsSound ==
    /\ clock \in Nat
    /\ DOMAIN call = Calls /\ call = [c \in Calls |-> call[c]]
    /\ \A c \in Calls : CallSound(call[c])

Probing(c) == call[c].pc = "probe"

\* The slots are the running probes, one per scope.
SlotsSound ==
    /\ \A c \in Calls : Probing(c) => call[c].scope \in active
    /\ \A s \in active : \E c \in Calls : Probing(c) /\ call[c].scope = s
    /\ \A c, d \in Calls : c # d /\ Probing(c) /\ Probing(d) => call[c].scope # call[d].scope

EntriesSound ==
    \A s \in DOMAIN entries :
        entries[s].at \in Nat /\ entries[s].expires = entries[s].at + TTL

\* What is cached and what is being probed together stay within the bound: a
\* probe that was let in has its place.
RoomSound ==
    /\ IsFiniteSet(active) /\ Cardinality(active) <= MaxActive
    /\ IsFiniteSet(DOMAIN entries)
    /\ Cardinality(DOMAIN entries \cup active) <= Capacity + MaxActive - 1

CacheInv == CallsSound /\ SlotsSound /\ EntriesSound /\ RoomSound

\* The cardinality the cache counts with is the one of FiniteSets.
LEMMA SameCardinality == ASSUME NEW S PROVE Probes!Cardinality(S) = Cardinality(S)
  BY DEF Probes!Cardinality, Cardinality

\* Initially nothing is cached and nobody calls.
LEMMA CacheInit == ASSUME Limits, Probes!Init PROVE CacheInv
<1>1. DOMAIN entries = {} /\ active = {}
  BY SMTT(15) DEF Probes!Init
<1>2. RoomSound
  <2>1. DOMAIN entries \cup active = {}
    BY <1>1
  <2> QED
    BY <1>1, <2>1, FS_EmptySet, SMTT(15) DEF Limits, RoomSound
<1>3. CallsSound
  <2>1. clock = 0 /\ DOMAIN call = Calls /\ call = [c \in Calls |-> call[c]]
    BY DEF Probes!Init
  <2>2. \A c \in Calls : CallShape(call[c]) /\ call[c].now = 0 /\ call[c].pc = "out"
    BY DEF Probes!Init, CallShape, Probes!Out
  <2> QED
    BY <2>1, <2>2, SMTT(15) DEF CallsSound, CallSound
<1>4. SlotsSound
  BY <1>1 DEF Probes!Init, SlotsSound, Probing, Probes!Out
<1>5. EntriesSound
  BY <1>1 DEF EntriesSound
<1> QED
  BY <1>2, <1>3, <1>4, <1>5 DEF CacheInv

\* The room two sets take when both are finite.
LEMMA UnionBound ==
    ASSUME NEW S, NEW T, IsFiniteSet(S), IsFiniteSet(T)
    PROVE  /\ IsFiniteSet(S \cup T)
           /\ Cardinality(S \cup T) <= Cardinality(S) + Cardinality(T)
<1>1. /\ IsFiniteSet(S \cup T)
      /\ Cardinality(S \cup T) = Cardinality(S) + Cardinality(T) - Cardinality(S \cap T)
  BY FS_Union
<1>2. IsFiniteSet(S \cap T)
  BY FS_Subset, S \cap T \in SUBSET S
<1>3. Cardinality(S) \in Nat /\ Cardinality(T) \in Nat /\ Cardinality(S \cap T) \in Nat
  BY <1>2, FS_CardinalityType
<1> QED
  BY <1>1, <1>3, SMTT(15)

\* What a call becomes when it has its answer.
LEMMA AnswerSound ==
    ASSUME CacheInv, Limits, NEW c \in Calls, NEW health, NEW at \in Nat,
           Probes!Return(c, health, at),
           UNCHANGED clock, call[c].now < at + TTL
    PROVE  /\ CallsSound'
           /\ ~Probing(c)' /\ call'[c].scope = call[c].scope
           /\ \A d \in Calls \ {c} : call'[d] = call[d]
<1>1. CallShape(call[c])
  BY DEF CacheInv, CallsSound, CallSound
<1>2. /\ call'[c] = [pc |-> "answered", scope |-> call[c].scope, now |-> call[c].now,
                     health |-> health, at |-> at]
      /\ \A d \in Calls \ {c} : call'[d] = call[d]
      /\ DOMAIN call' = Calls /\ call' = [d \in Calls |-> call'[d]]
  BY <1>1 DEF CacheInv, CallsSound, CallShape, Probes!Return
<1>3. CallSound(call[c])'
  BY <1>2, SMTT(15) DEF CacheInv, CallsSound, CallSound, CallShape
<1>4. \A d \in Calls \ {c} : CallSound(call[d])'
  BY <1>2 DEF CacheInv, CallsSound, CallSound, CallShape
<1> QED
  BY <1>2, <1>3, <1>4, SMTT(15) DEF CacheInv, CallsSound, Probing

\* The first critical section of Observe keeps the invariant.
LEMMA LookSound ==
    ASSUME CacheInv, Limits, NEW c \in Calls, Probes!Look(c)
    PROVE  CacheInv'
<1>1. /\ call[c].pc = "lock" /\ UNCHANGED clock
      /\ CallSound(call[c]) /\ call[c].now \in Nat
  BY DEF Probes!Look, CacheInv, CallsSound, CallSound
<1>2. CASE Probes!Serve(c)
  <2> DEFINE e == entries[call[c].scope]
  <2>1. e.at \in Nat /\ call[c].now < e.at + TTL /\ UNCHANGED <<entries, active>>
    BY <1>2 DEF Probes!Serve, Probes!Fresh, CacheInv, EntriesSound
  <2>2. Probes!Return(c, e.health, e.at)
    BY <1>2 DEF Probes!Serve
  <2>3. CallsSound' /\ ~Probing(c)' /\ \A d \in Calls \ {c} : call'[d] = call[d]
    BY <1>1, <2>1, <2>2, AnswerSound
  <2>4. SlotsSound'
    BY <1>1, <2>1, <2>3, SMTT(15) DEF CacheInv, SlotsSound, Probing
  <2> QED
    BY <2>1, <2>3, <2>4 DEF CacheInv, EntriesSound, RoomSound
<1>3. CASE Probes!Busy(c)
  <2>1. Probes!Return(c, "unknown", call[c].now) /\ UNCHANGED <<entries, active>>
    BY <1>3 DEF Probes!Busy
  <2>2. CallsSound' /\ ~Probing(c)' /\ \A d \in Calls \ {c} : call'[d] = call[d]
    BY <1>1, <2>1, AnswerSound, SMTT(15) DEF Limits
  <2>3. SlotsSound'
    BY <1>1, <2>1, <2>2, SMTT(15) DEF CacheInv, SlotsSound, Probing
  <2> QED
    BY <2>1, <2>2, <2>3 DEF CacheInv, EntriesSound, RoomSound
<1>4. CASE Probes!Admit(c)
  <2> DEFINE kept == Probes!Unexpired(call[c].now)
  <2>1. kept \subseteq DOMAIN entries /\ DOMAIN entries' = kept
        /\ \A s \in kept : entries'[s] = entries[s]
    BY <1>4 DEF Probes!Admit, Probes!Unexpired, Probes!Restrict
  <2>2. EntriesSound'
    BY <2>1 DEF CacheInv, EntriesSound
  <2>3. IsFiniteSet(kept) /\ Cardinality(kept) \in Nat
    BY <2>1, FS_Subset, FS_CardinalityType DEF CacheInv, RoomSound
  <2>4. CASE Cardinality(kept) >= Capacity
    <3>1. Probes!Return(c, "unknown", call[c].now) /\ UNCHANGED active
      BY <1>4, <2>4, SameCardinality DEF Probes!Admit
    <3>2. CallsSound' /\ ~Probing(c)' /\ \A d \in Calls \ {c} : call'[d] = call[d]
      BY <1>1, <3>1, AnswerSound, SMTT(15) DEF Limits
    <3>3. SlotsSound'
      BY <1>1, <3>1, <3>2, SMTT(15) DEF CacheInv, SlotsSound, Probing
    <3>4. RoomSound'
      <4>1. IsFiniteSet(DOMAIN entries \cup active)
        BY UnionBound DEF CacheInv, RoomSound
      <4>2. kept \cup active \subseteq DOMAIN entries \cup active
        BY <2>1
      <4>3. Cardinality(kept \cup active) <= Cardinality(DOMAIN entries \cup active)
        BY <4>1, <4>2, FS_Subset
      <4>4. /\ Cardinality(kept \cup active) \in Nat
            /\ Cardinality(DOMAIN entries \cup active) \in Nat
        BY <4>1, <4>2, FS_Subset, FS_CardinalityType
      <4> QED
        BY <2>1, <2>3, <3>1, <4>3, <4>4, SMTT(15) DEF CacheInv, RoomSound, Limits
    <3> QED
      BY <2>2, <3>2, <3>3, <3>4 DEF CacheInv
  <2>5. CASE ~(Cardinality(kept) >= Capacity)
    <3>1. /\ call[c].scope \notin active /\ Cardinality(active) < MaxActive
          /\ active' = active \cup {call[c].scope}
          /\ call' = [call EXCEPT ![c].pc = "probe"]
      BY <1>4, <2>5, SameCardinality DEF Probes!Admit
    <3>2. /\ call'[c] = [pc |-> "probe", scope |-> call[c].scope, now |-> call[c].now,
                         health |-> call[c].health, at |-> call[c].at]
          /\ \A d \in Calls \ {c} : call'[d] = call[d]
          /\ DOMAIN call' = Calls /\ call' = [d \in Calls |-> call'[d]]
      BY <1>1, <3>1 DEF CacheInv, CallsSound, CallSound, CallShape
    <3>3. CallsSound'
      <4>1. CallSound(call[c])'
        BY <1>1, <3>2, SMTT(15) DEF CallSound, CallShape
      <4>2. \A d \in Calls \ {c} : CallSound(call[d])'
        BY <1>1, <3>2 DEF CacheInv, CallsSound, CallSound, CallShape
      <4> QED
        BY <1>1, <3>2, <4>1, <4>2 DEF CacheInv, CallsSound
    <3>4. SlotsSound'
      <4>1. \A d \in Calls : Probing(d)' <=> d = c \/ Probing(d)
        BY <3>2, SMTT(15) DEF Probing
      <4>2. \A d \in Calls : call'[d].scope = call[d].scope
        BY <3>2, SMTT(15)
      <4> QED
        BY <3>1, <4>1, <4>2, SMTT(15) DEF CacheInv, SlotsSound
    <3>5. RoomSound'
      <4>1. IsFiniteSet(active') /\ Cardinality(active') = Cardinality(active) + 1
        BY <3>1, FS_AddElement DEF CacheInv, RoomSound
      <4>2. Cardinality(active) \in Nat
        BY FS_CardinalityType DEF CacheInv, RoomSound
      <4>3. /\ IsFiniteSet(kept \cup active')
            /\ Cardinality(kept \cup active') <= Cardinality(kept) + Cardinality(active')
        BY <2>3, <4>1, UnionBound
      <4>4. Cardinality(kept \cup active') \in Nat
        BY <4>3, FS_CardinalityType
      <4> QED
        BY <2>1, <2>3, <2>5, <3>1, <4>1, <4>2, <4>3, <4>4, SMTT(15) DEF RoomSound, Limits
    <3> QED
      BY <2>2, <3>3, <3>4, <3>5 DEF CacheInv
  <2> QED
    BY <2>4, <2>5
<1> QED
  BY <1>2, <1>3, <1>4 DEF Probes!Look

\* The second critical section gives the slot back and takes its place.
LEMMA ProbedSound ==
    ASSUME CacheInv, Limits, NEW c \in Calls, NEW health, Probes!Probed(c, health)
    PROVE  CacheInv'
<1> DEFINE s == call[c].scope
<1>1. /\ call[c].pc = "probe" /\ UNCHANGED clock /\ active' = active \ {s}
      /\ Probes!Return(c, health, clock) /\ clock \in Nat /\ call[c].now \in Nat
      /\ call[c].now <= clock
  BY DEF Probes!Probed, CacheInv, CallsSound, CallSound
<1>2. /\ CallsSound' /\ ~Probing(c)' /\ call'[c].scope = s
      /\ \A d \in Calls \ {c} : call'[d] = call[d]
  BY <1>1, AnswerSound, SMTT(15) DEF Limits
<1>3. SlotsSound'
  <2>1. \A d \in Calls \ {c} : Probing(d) => call[d].scope # s
    BY <1>1 DEF CacheInv, SlotsSound, Probing
  <2>2. \A d \in Calls : Probing(d)' <=> d # c /\ Probing(d)
    BY <1>2 DEF Probing
  <2>3. \A d \in Calls : call'[d].scope = call[d].scope
    BY <1>2
  <2> QED
    BY <1>1, <2>1, <2>2, <2>3 DEF CacheInv, SlotsSound
<1>4. s \in active
  BY <1>1 DEF CacheInv, SlotsSound, Probing
<1>5. /\ DOMAIN entries' \subseteq DOMAIN entries \cup {s}
      /\ \A x \in DOMAIN entries' :
             \/ x \in DOMAIN entries /\ entries'[x] = entries[x]
             \/ entries'[x] = [health |-> health, at |-> clock, expires |-> clock + TTL]
  <2>1. CASE health = "unknown"
    BY <2>1 DEF Probes!Probed
  <2>2. CASE health # "unknown"
    <3>1. entries' = [x \in DOMAIN entries \cup {s} |->
                          IF x = s
                          THEN [health |-> health, at |-> clock, expires |-> clock + TTL]
                          ELSE entries[x]]
      BY <2>2 DEF Probes!Probed
    <3> QED
      BY <3>1
  <2> QED
    BY <2>1, <2>2
<1>6. EntriesSound'
  BY <1>1, <1>5, SMTT(15) DEF CacheInv, EntriesSound
<1>7. RoomSound'
  <2>1. IsFiniteSet(DOMAIN entries \cup active)
    BY UnionBound DEF CacheInv, RoomSound
  <2>2. DOMAIN entries' \cup active' \subseteq DOMAIN entries \cup active
    BY <1>1, <1>4, <1>5
  <2>3. /\ IsFiniteSet(DOMAIN entries') /\ IsFiniteSet(active')
    BY <2>1, <2>2, FS_Subset
  <2>4. Cardinality(DOMAIN entries' \cup active') <= Cardinality(DOMAIN entries \cup active)
    BY <2>1, <2>2, FS_Subset
  <2>5. Cardinality(active') <= Cardinality(active)
    BY <1>1, FS_Subset DEF CacheInv, RoomSound
  <2>6. /\ Cardinality(active') \in Nat /\ Cardinality(active) \in Nat
        /\ Cardinality(DOMAIN entries \cup active) \in Nat
    BY <2>1, <2>3, FS_CardinalityType DEF CacheInv, RoomSound
  <2>7. Cardinality(DOMAIN entries' \cup active') \in Nat
    BY <2>1, <2>2, FS_Subset, FS_CardinalityType
  <2> QED
    BY <2>3, <2>4, <2>5, <2>6, <2>7, SMTT(15) DEF CacheInv, RoomSound, Limits
<1> QED
  BY <1>2, <1>3, <1>6, <1>7 DEF CacheInv

\* A call that comes in or goes away holds no slot.
LEMMA IdleSound ==
    ASSUME CacheInv, NEW c \in Calls, UNCHANGED <<clock, entries, active>>,
           ~Probing(c), call'[c].pc \in {"out", "lock"}, CallShape(call'[c]),
           call'[c].now \in Nat, call'[c].now <= clock,
           \A d \in Calls \ {c} : call'[d] = call[d],
           DOMAIN call' = Calls, call' = [d \in Calls |-> call'[d]]
    PROVE  CacheInv'
<1>1. CallsSound'
  <2>1. CallSound(call[c])'
    BY DEF CallSound, CallShape
  <2>2. \A d \in Calls \ {c} : CallSound(call[d])'
    BY DEF CacheInv, CallsSound, CallSound, CallShape
  <2> QED
    BY <2>1, <2>2 DEF CacheInv, CallsSound
<1>2. SlotsSound'
  <2>1. \A d \in Calls : Probing(d)' <=> d # c /\ Probing(d)
    BY DEF Probing
  <2> QED
    BY <2>1, SMTT(15) DEF CacheInv, SlotsSound
<1> QED
  BY <1>1, <1>2 DEF CacheInv, EntriesSound, RoomSound

\* Coming, going and the clock do not disturb it.
LEMMA OutsideSound ==
    ASSUME CacheInv, Limits,
           Probes!Tick \/ \E c \in Calls : Probes!Leave(c) \/ \E s \in Scopes : Probes!Enter(c, s)
    PROVE  CacheInv'
<1>1. CASE Probes!Tick
  <2>1. clock' = clock + 1 /\ UNCHANGED <<entries, active, call>>
    BY <1>1 DEF Probes!Tick
  <2>2. CallsSound'
    BY <2>1, SMTT(15) DEF CacheInv, CallsSound, CallSound, CallShape
  <2>3. SlotsSound'
    BY <2>1 DEF CacheInv, SlotsSound, Probing
  <2> QED
    BY <2>1, <2>2, <2>3 DEF CacheInv, EntriesSound, RoomSound
<1>2. ASSUME NEW c \in Calls, Probes!Leave(c) PROVE CacheInv'
  <2>1. ~Probing(c) /\ UNCHANGED <<clock, entries, active>> /\ clock \in Nat
    BY <1>2 DEF Probes!Leave, Probing, CacheInv, CallsSound
  <2>2. call'[c] = Probes!Out
    BY <1>2 DEF Probes!Leave, CacheInv, CallsSound
  <2>3. /\ \A d \in Calls \ {c} : call'[d] = call[d]
        /\ DOMAIN call' = Calls /\ call' = [d \in Calls |-> call'[d]]
    BY <1>2 DEF Probes!Leave, CacheInv, CallsSound
  <2>4. CallShape(Probes!Out) /\ Probes!Out.pc = "out" /\ Probes!Out.now = 0
    BY DEF Probes!Out, CallShape
  <2>5. /\ CallShape(call'[c]) /\ call'[c].pc \in {"out", "lock"}
        /\ call'[c].now \in Nat /\ call'[c].now <= clock
    BY <2>1, <2>2, <2>4, SMTT(15)
  <2> QED
    BY <2>1, <2>3, <2>5, IdleSound
<1>3. ASSUME NEW c \in Calls, NEW s \in Scopes, Probes!Enter(c, s) PROVE CacheInv'
  <2>1. /\ ~Probing(c) /\ UNCHANGED <<clock, entries, active>> /\ clock \in Nat
        /\ call' = [call EXCEPT ![c].pc = "lock", ![c].scope = s, ![c].now = clock]
        /\ CallShape(call[c])
    BY <1>3 DEF Probes!Enter, Probing, CacheInv, CallsSound, CallSound
  <2>2. /\ call'[c] = [pc |-> "lock", scope |-> s, now |-> clock, health |-> call[c].health,
                       at |-> call[c].at]
        /\ \A d \in Calls \ {c} : call'[d] = call[d]
        /\ DOMAIN call' = Calls /\ call' = [d \in Calls |-> call'[d]]
    BY <2>1 DEF CallShape, CacheInv, CallsSound
  <2>3. /\ CallShape(call'[c]) /\ call'[c].pc \in {"out", "lock"}
        /\ call'[c].now \in Nat /\ call'[c].now <= clock
    BY <2>1, <2>2, SMTT(15) DEF CallShape
  <2> QED
    BY <2>1, <2>2, <2>3, IdleSound
<1> QED
  BY <1>1, <1>2, <1>3

\* The invariant is inductive.
LEMMA CacheStep == ASSUME CacheInv, Limits, [Probes!Next]_(Probes!vars) PROVE CacheInv'
<1>1. CASE UNCHANGED Probes!vars
  BY <1>1, SMTT(15) DEF Probes!vars, CacheInv, CallsSound, CallSound, CallShape, SlotsSound,
     Probing,
              EntriesSound, RoomSound
<1>2. CASE Probes!Next
  BY <1>2, LookSound, ProbedSound, OutsideSound DEF Probes!Next
<1> QED
  BY <1>1, <1>2

\* It says more than the property.
LEMMA CacheBounds == ASSUME CacheInv, Limits PROVE Probes!ProbesBounded
<1>1. active = {call[c].scope : c \in {d \in Calls : call[d].pc = "probe"}}
  BY SMTT(15) DEF CacheInv, SlotsSound, Probing
<1>2. Cardinality(DOMAIN entries) <= Capacity + MaxActive - 1
  <2>1. IsFiniteSet(DOMAIN entries \cup active)
    BY UnionBound DEF CacheInv, RoomSound
  <2>2. Cardinality(DOMAIN entries) <= Cardinality(DOMAIN entries \cup active)
    BY <2>1, FS_Subset
  <2>3. Cardinality(DOMAIN entries) \in Nat /\ Cardinality(DOMAIN entries \cup active) \in Nat
    BY <2>1, FS_CardinalityType DEF CacheInv, RoomSound
  <2> QED
    BY <2>2, <2>3, SMTT(15) DEF CacheInv, RoomSound, Limits
<1> QED
  BY <1>1, <1>2, SameCardinality
     DEF CacheInv, CallsSound, CallSound, SlotsSound, Probing, RoomSound, Probes!ProbesBounded

\* However many calls come in for however many scopes, the probes that run are
\* bounded and one per scope, the cache is bounded and answers are fresh
\* (ProbeCache.Observe).
THEOREM ProbesAreBounded == RecordsSpec => []ProbesBounded
<1>1. RecordsInit => CacheInv
  BY CacheInit, ProbeLimits DEF RecordsInit
<1>2. [RecordsNext]_recordsVars => [Probes!Next]_(Probes!vars)
  BY DEF RecordsNext, recordsVars, probeVars, Probes!vars
<1>3. CacheInv /\ [RecordsNext]_recordsVars => CacheInv'
  BY <1>2, CacheStep, ProbeLimits
<1>4. CacheInv => ProbesBounded
  BY CacheBounds, ProbeLimits DEF ProbesBounded
<1> QED
  BY <1>1, <1>3, <1>4, PTL DEF RecordsSpec

-----------------------------------------------------------------------------
(* The status of the object *)

\* The shapes of the records the steps update.
DbShape(d) ==
    d = [ver |-> d.ver, runtime |-> d.runtime, publication |-> d.publication,
         health |-> d.health, at |-> d.at, bound |-> d.bound, deleted |-> d.deleted]

CrShape(o) == o = [uid |-> o.uid, rv |-> o.rv, status |-> o.status]

StatusShape(s) ==
    s = [ver |-> s.ver, runtime |-> s.runtime, publication |-> s.publication,
         health |-> s.health, at |-> s.at]

ProjShape(p) ==
    p = [pc |-> p.pc, uid |-> p.uid, rv |-> p.rv, tries |-> p.tries, status |-> p.status]

\* The status shown is of a durable state that was.
StatusWas ==
    /\ DbShape(db) /\ db.ver \in Nat
    /\ CrShape(cr) /\ cr.rv \in Nat
    /\ cr.status.ver \in Nat /\ cr.status.ver <= db.ver
    /\ objects \in Nat

\* What a controller that read the object and may still pass the optimistic
\* lock knows: the object is the one it read; until it reads the durable state,
\* the object shows the status it read; after that, the status it is about to
\* write is no older than the one shown, and the object is bound.
LockHolds(p) ==
    /\ p.uid = cr.uid
    /\ p.pc = "fetch" => p.status = cr.status
    /\ p.pc = "patch" => p.status.ver >= cr.status.ver /\ db.bound = p.uid

ProjectionSound(p) ==
    /\ ProjShape(p)
    /\ p.pc \in {"idle", "get", "fetch", "patch"}
    /\ p.pc \in {"fetch", "patch"} => p.rv \in Nat /\ p.rv <= cr.rv /\ p.uid # 0
    /\ p.pc = "patch" => StatusShape(p.status) /\ p.status.ver \in Nat /\ p.status.ver <= db.ver
    /\ p.pc \in {"fetch", "patch"} /\ p.rv = cr.rv => LockHolds(p)

SInv ==
    /\ StatusWas
    /\ DOMAIN proj = Controllers /\ proj = [c \in Controllers |-> proj[c]]
    /\ \A c \in Controllers : ProjectionSound(proj[c])

\* Initially no object is shown and no projection is under way.
LEMMA StatusInit == Status!Init => SInv
<1> SUFFICES ASSUME Status!Init PROVE SInv
  OBVIOUS
<1>1. DbShape(db) /\ db.ver = 1
  BY DEF Status!Init, DbShape
<1>2. CrShape(cr) /\ cr.rv = 0 /\ cr.status.ver = 0 /\ objects = 0
  BY DEF Status!Init, CrShape, Status!NoObject, Status!NoStatus
<1>3. \A c \in Controllers : ProjectionSound(proj[c])
  BY DEF Status!Init, ProjectionSound, ProjShape, Status!Idle
<1>4. DOMAIN proj = Controllers /\ proj = [c \in Controllers |-> proj[c]]
  BY DEF Status!Init
<1> QED
  BY <1>1, <1>2, <1>3, <1>4, SMTT(15) DEF SInv, StatusWas

\* A step of a writer preserves the invariant and the direction of the status:
\* it moves the resource version whenever it changes the object.
LEMMA WriterStep ==
    ASSUME SInv,
           Status!Observe \/ Status!CreateObject \/ Status!BindObject \/ Status!UnbindObject
           \/ Status!ApplySpec \/ Status!DeleteObject \/ Status!DeleteService
    PROVE  /\ SInv'
           /\ cr'.uid = cr.uid => cr'.status.ver >= cr.status.ver
           /\ cr'.status \in {cr.status, Status!NoStatus}
<1> USE DEF SInv, StatusWas, DbShape, CrShape
<1>1. CASE Status!Observe
  <2>1. /\ db'.ver = db.ver + 1 /\ db'.bound = db.bound /\ DbShape(db')
        /\ UNCHANGED <<cr, objects, proj>>
    BY <1>1 DEF Status!Observe
  <2> QED
    BY <2>1, SMTT(15) DEF ProjectionSound, ProjShape, LockHolds, StatusShape
<1>2. CASE Status!CreateObject
  <2>1. /\ cr' = [uid |-> objects + 1, rv |-> cr.rv + 1, status |-> Status!NoStatus]
        /\ objects' = objects + 1 /\ cr.uid = 0 /\ UNCHANGED <<db, proj>>
    BY <1>2 DEF Status!CreateObject
  <2>2. cr'.uid # cr.uid /\ cr'.rv = cr.rv + 1 /\ cr'.status = Status!NoStatus /\ cr'.status.ver = 0
    BY <2>1, SMTT(15) DEF Status!NoStatus
  <2> QED
    BY <2>1, <2>2, SMTT(15) DEF ProjectionSound, ProjShape, LockHolds, StatusShape
<1>3. CASE Status!BindObject
  <2>1. /\ db'.ver = db.ver /\ db'.bound = cr.uid /\ DbShape(db')
        /\ UNCHANGED <<cr, objects, proj>>
    BY <1>3 DEF Status!BindObject
  <2> QED
    BY <2>1, SMTT(15) DEF ProjectionSound, ProjShape, LockHolds, StatusShape
<1>4. CASE Status!UnbindObject
  <2>1. /\ db'.ver = db.ver /\ db.bound # cr.uid /\ DbShape(db')
        /\ UNCHANGED <<cr, objects, proj>>
    BY <1>4 DEF Status!UnbindObject
  <2> QED
    BY <2>1, SMTT(15) DEF ProjectionSound, ProjShape, LockHolds, StatusShape
<1>5. CASE Status!ApplySpec
  <2>1. /\ cr'.uid = cr.uid /\ cr'.rv = cr.rv + 1 /\ cr'.status = cr.status /\ CrShape(cr')
        /\ UNCHANGED <<db, objects, proj>>
    BY <1>5 DEF Status!ApplySpec
  <2> QED
    BY <2>1, SMTT(15) DEF ProjectionSound, ProjShape, LockHolds, StatusShape
<1>6. CASE Status!DeleteObject
  <2>1. /\ cr' = [uid |-> 0, rv |-> cr.rv + 1, status |-> Status!NoStatus] /\ cr.uid # 0
        /\ UNCHANGED <<db, objects, proj>>
    BY <1>6 DEF Status!DeleteObject, Status!NoObject
  <2>2. cr'.uid # cr.uid /\ cr'.rv = cr.rv + 1 /\ cr'.status = Status!NoStatus /\ cr'.status.ver = 0
    BY <2>1 DEF Status!NoStatus
  <2> QED
    BY <2>1, <2>2, SMTT(15) DEF ProjectionSound, ProjShape, LockHolds, StatusShape
<1>7. CASE Status!DeleteService
  <2>1. /\ db'.ver = db.ver /\ db'.bound = db.bound /\ DbShape(db')
        /\ UNCHANGED <<cr, objects, proj>>
    BY <1>7 DEF Status!DeleteService
  <2> QED
    BY <2>1, SMTT(15) DEF ProjectionSound, ProjShape, LockHolds, StatusShape
<1> QED
  BY <1>1, <1>2, <1>3, <1>4, <1>5, <1>6, <1>7

\* A controller that starts over or leaves knows nothing.
LEMMA LeavingSound ==
    ASSUME SInv, NEW c \in Controllers, NEW p,
           UNCHANGED <<db, cr, objects>>, proj' = [proj EXCEPT ![c] = p],
           ProjShape(p), p.pc \in {"idle", "get"}
    PROVE  SInv'
  BY DEF SInv, StatusWas, DbShape, CrShape, ProjectionSound, ProjShape, LockHolds,
     StatusShape

\* A step of a controller, too: its patch passes only if the object is the one
\* it read before it read the durable state.
LEMMA ControllerStep ==
    ASSUME SInv, NEW c \in Controllers, Status!Reconcile(c) \/ Status!Project(c) \/ Status!Abort(c)
    PROVE  /\ SInv'
           /\ cr'.uid = cr.uid /\ cr'.status.ver >= cr.status.ver
           /\ cr'.status # cr.status => db.bound = cr'.uid
<1> DEFINE p == proj[c]
<1>1. ProjectionSound(p) /\ StatusWas
  BY DEF SInv
<1>2. ASSUME UNCHANGED cr
      PROVE  /\ cr'.uid = cr.uid /\ cr'.status.ver >= cr.status.ver
             /\ cr'.status # cr.status => db.bound = cr'.uid
  BY <1>1, <1>2, SMTT(15) DEF StatusWas
<1>3. ASSUME Status!Done(c), UNCHANGED <<db, cr, objects>>
      PROVE  SInv'
  BY <1>3, LeavingSound DEF Status!Done, Status!Idle, ProjShape
<1>4. CASE Status!Reconcile(c)
  <2>1. /\ proj' = [proj EXCEPT ![c] = [p EXCEPT !.pc = "get"]]
        /\ UNCHANGED <<db, cr, objects>>
    BY <1>4 DEF Status!Reconcile
  <2>2. ProjShape([p EXCEPT !.pc = "get"]) /\ [p EXCEPT !.pc = "get"].pc = "get"
    BY <1>1, SMTT(15) DEF ProjectionSound, ProjShape
  <2> QED
    BY <2>1, <2>2, <1>2, LeavingSound
<1>5. CASE Status!Abort(c)
  BY <1>5, <1>2, <1>3 DEF Status!Abort
<1>6. CASE Status!Get(c)
  <2>1. CASE Status!Done(c)
    BY <1>6, <2>1, <1>2, <1>3 DEF Status!Get
  <2>2. CASE ~Status!Done(c)
    <3>1. /\ p.pc = "get" /\ cr.uid # 0
          /\ proj' = [proj EXCEPT ![c].pc = "fetch", ![c].uid = cr.uid, ![c].rv = cr.rv,
                                  ![c].status = cr.status]
          /\ UNCHANGED <<db, cr, objects>>
      BY <1>6, <2>2 DEF Status!Get
    <3>2. /\ proj'[c] = [pc |-> "fetch", uid |-> cr.uid, rv |-> cr.rv, tries |-> p.tries,
                         status |-> cr.status]
          /\ \A d \in Controllers \ {c} : proj'[d] = proj[d]
          /\ DOMAIN proj' = Controllers /\ proj' = [d \in Controllers |-> proj'[d]]
      BY <3>1, <1>1 DEF SInv, ProjectionSound, ProjShape
    <3>3. ProjectionSound(proj[c])'
      BY <3>1, <3>2, <1>1, SMTT(15) DEF ProjectionSound, ProjShape, LockHolds, StatusWas
    <3>4. \A d \in Controllers \ {c} : ProjectionSound(proj[d])'
      BY <3>1, <3>2, SMTT(15) DEF SInv, ProjectionSound, ProjShape, LockHolds, StatusShape
    <3> QED
      BY <3>1, <3>2, <3>3, <3>4, <1>1, <1>2 DEF SInv, StatusWas, DbShape, CrShape
  <2> QED
    BY <2>1, <2>2
<1>7. CASE Status!Fetch(c)
  <2>1. CASE Status!Done(c)
    BY <1>7, <2>1, <1>2, <1>3 DEF Status!Fetch
  <2>2. CASE ~Status!Done(c)
    <3> DEFINE s == Status!StatusFromProjection(Status!GetStatusProjection(Status!ProjectionRow))
    <3>1. /\ p.pc = "fetch" /\ Status!ProjectionRow # Status!NoProjection
          /\ Status!GetStatusProjection(Status!ProjectionRow).bound = p.uid
          /\ proj' = [proj EXCEPT ![c].pc = "patch", ![c].status = s]
          /\ UNCHANGED <<db, cr, objects>>
      BY <1>7, <2>2 DEF Status!Fetch
    <3>2. Status!ProjectionRow = db
      BY <3>1 DEF Status!ProjectionRow
    <3>3. StatusShape(s) /\ s.ver = db.ver /\ db.bound = p.uid
      BY <3>1, <3>2 DEF StatusShape, Status!StatusFromProjection,
         Status!GetStatusProjection
    <3> HIDE DEF s
    <3>4. /\ proj'[c] = [pc |-> "patch", uid |-> p.uid, rv |-> p.rv, tries |-> p.tries,
                         status |-> s]
          /\ \A d \in Controllers \ {c} : proj'[d] = proj[d]
          /\ DOMAIN proj' = Controllers /\ proj' = [d \in Controllers |-> proj'[d]]
      BY <3>1, <1>1 DEF SInv, ProjectionSound, ProjShape
    <3>5. ProjectionSound(proj[c])'
      BY <3>1, <3>3, <3>4, <1>1, SMTT(15) DEF ProjectionSound, ProjShape, LockHolds,
         StatusWas, StatusShape
    <3>6. \A d \in Controllers \ {c} : ProjectionSound(proj[d])'
      BY <3>1, <3>4 DEF SInv, ProjectionSound, ProjShape, LockHolds, StatusShape
    <3> QED
      BY <3>1, <3>4, <3>5, <3>6, <1>1, <1>2 DEF SInv, StatusWas, DbShape, CrShape
  <2> QED
    BY <2>1, <2>2
<1>8. CASE Status!Patch(c)
  <2>1. CASE UNCHANGED cr /\ Status!Done(c)
    BY <1>8, <2>1, <1>2, <1>3 DEF Status!Patch
  <2>2. CASE UNCHANGED cr /\ ~Status!Done(c)
    <3>1. /\ proj' = [proj EXCEPT ![c].pc = "get", ![c].rv = 0, ![c].tries = @ + 1,
                                  ![c].status = Status!NoStatus]
          /\ UNCHANGED <<db, cr, objects>>
      BY <1>8, <2>2 DEF Status!Patch
    <3>2. /\ proj'[c].pc = "get" /\ ProjShape(proj'[c])
          /\ \A d \in Controllers \ {c} : proj'[d] = proj[d]
          /\ DOMAIN proj' = Controllers /\ proj' = [d \in Controllers |-> proj'[d]]
      BY <3>1, <1>1, ZenonT(30) DEF SInv, ProjectionSound, ProjShape
    <3>3. ProjectionSound(proj[c])'
      BY <3>1, <3>2 DEF ProjectionSound
    <3>4. \A d \in Controllers \ {c} : ProjectionSound(proj[d])'
      BY <3>1, <3>2, SMTT(30) DEF SInv, ProjectionSound, ProjShape, LockHolds, StatusShape
    <3> QED
      BY <3>1, <3>2, <3>3, <3>4, <1>1, <1>2 DEF SInv, StatusWas, DbShape, CrShape
  <2>3. CASE cr' # cr
    <3>1. /\ p.pc = "patch" /\ cr.rv = p.rv /\ Status!Done(c)
          /\ cr' = [cr EXCEPT !.rv = @ + 1, !.status = Status!Wire(p.status)]
          /\ UNCHANGED <<db, objects>>
      BY <1>8, <2>3 DEF Status!Patch, Status!Conflict, Status!Patched
    <3>2. LockHolds(p) /\ StatusShape(p.status) /\ p.status.ver \in Nat /\ p.status.ver <= db.ver
      BY <3>1, <1>1 DEF ProjectionSound
    <3>3. Status!Wire(p.status).ver = p.status.ver
      BY <3>2 DEF Status!Wire, StatusShape
    <3>4. /\ CrShape(cr') /\ cr'.uid = cr.uid /\ cr'.rv = cr.rv + 1
          /\ cr'.status.ver = p.status.ver
      BY <3>1, <3>3, <1>1 DEF StatusWas, CrShape
    <3>5. cr'.status.ver >= cr.status.ver /\ db.bound = cr'.uid
      BY <3>1, <3>2, <3>4 DEF LockHolds
    <3>6. /\ proj'[c] = Status!Idle
          /\ \A d \in Controllers \ {c} : proj'[d] = proj[d]
          /\ DOMAIN proj' = Controllers /\ proj' = [d \in Controllers |-> proj'[d]]
      BY <3>1 DEF Status!Done, SInv
    <3>7. \A d \in Controllers : ProjectionSound(proj[d])'
      <4>1. ProjectionSound(proj[c])'
        BY <3>6, SMTT(15) DEF ProjectionSound, ProjShape, Status!Idle
      <4>2. ASSUME NEW d \in Controllers \ {c}
            PROVE  ProjectionSound(proj[d])'
        <5>1. ProjectionSound(proj[d]) /\ cr.rv \in Nat
          BY <1>1 DEF SInv, StatusWas
        <5> QED
          BY <5>1, <3>1, <3>4, <3>6, SMTT(15) DEF ProjectionSound, ProjShape, StatusShape
      <4> QED
        BY <4>1, <4>2
    <3>8. StatusWas'
      BY <3>1, <3>2, <3>4, <1>1, SMTT(15) DEF StatusWas, DbShape
    <3> QED
      BY <3>4, <3>5, <3>6, <3>7, <3>8 DEF SInv
  <2> QED
    BY <2>1, <2>2, <2>3
<1> QED
  BY <1>4, <1>5, <1>6, <1>7, <1>8 DEF Status!Project

\* A step leaves the invariant, and moves the status forward.
LEMMA StatusStep ==
    ASSUME SInv, [Status!Next]_(Status!vars)
    PROVE  /\ SInv'
           /\ cr'.uid = cr.uid => cr'.status.ver >= cr.status.ver
           /\ cr'.status \notin {cr.status, Status!NoStatus} => db.bound = cr'.uid
<1>1. CASE UNCHANGED Status!vars
  BY <1>1, SMTT(15) DEF Status!vars, SInv, StatusWas, DbShape, CrShape, ProjectionSound,
     ProjShape, LockHolds,
              StatusShape
<1>2. CASE Status!Next
  <2>1. CASE \E c \in Controllers : Status!Reconcile(c) \/ Status!Project(c) \/ Status!Abort(c)
    BY <2>1, ControllerStep
  <2>2. CASE Status!Observe \/ Status!CreateObject \/ Status!BindObject \/ Status!UnbindObject
             \/ Status!ApplySpec \/ Status!DeleteObject \/ Status!DeleteService
    BY <2>2, WriterStep
  <2> QED
    BY <1>2, <2>1, <2>2 DEF Status!Next
<1> QED
  BY <1>1, <1>2

\* The status of an object never goes back to an older durable state, and an
\* object shows only what was read for it while it was bound, for any number of
\* replicas that overlap in any way (StatusProjector.Project).
THEOREM StatusForward == RecordsSpec => StatusMovesForward
<1>1. [RecordsNext]_recordsVars => [Status!Next]_(Status!vars)
  BY DEF RecordsNext, recordsVars, statusVars, Status!vars
<1>2. SInv /\ [RecordsNext]_recordsVars =>
          [/\ cr'.uid = cr.uid => cr'.status.ver >= cr.status.ver
           /\ cr'.status \notin {cr.status, Status!NoStatus} => db.bound = cr'.uid]_(Status!vars)
  BY <1>1, StatusStep
<1>3. SInv /\ [RecordsNext]_recordsVars => SInv'
  BY <1>1, StatusStep
<1>4. RecordsInit => SInv
  BY StatusInit DEF RecordsInit
<1> QED
  BY <1>2, <1>3, <1>4, PTL DEF RecordsSpec, StatusMovesForward, Status!StatusMovesForward

=============================================================================
