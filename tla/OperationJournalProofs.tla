----------------------- MODULE OperationJournalProofs -----------------------
(***************************************************************************)
(* The journal of a service for every set of workers and any number of     *)
(* commands.                                                               *)
(***************************************************************************)
EXTENDS OperationJournal, TLAPS

\* Some leaves take longer than the default timeouts on a slow machine.
USE SMTT(15), ZenonT(30)

\* A worker only ever works on an operation it loaded active.
ViewActive == \A w \in Workers : view[w] # NoView => view[w].phase \in ActivePhases

\* Only an active operation waits for a retry.
WaitingActive == \A i \in 1 .. Len(ops) : ops[i].waiting => Active(i)

JInv ==
    /\ JournalTypeOK
    /\ Len(ops) >= 1
    /\ ActiveIsCurrent
    /\ DeletedByDelete
    /\ DesiredFollowsOperation
    /\ ViewActive
    /\ WaitingActive

-----------------------------------------------------------------------------
(* The step graph *)

\* Two sequences of steps with the same entries.
SameSteps(p, q) ==
    /\ p \in Seq(Steps) /\ q \in Seq(Steps)
    /\ Len(p) = Len(q)
    /\ \A i \in 1 .. Len(p) : p[i] = q[i]

\* No step comes twice, and a path ends with complete.
SimplePath(p) ==
    /\ Len(p) \in Nat
    /\ \A i \in 1 .. Len(p) :
        /\ p[i] \in Steps
        /\ (p[i] = "complete") <=> (i = Len(p))
        /\ \A j \in 1 .. Len(p) : p[j] = p[i] => j = i

\* Step n comes after step s on the path of an operation of kind k.
ComesAfter(k, s, n) ==
    /\ s = "admission" => k = "create" /\ n = "reserve_quota"
    /\ s = "reserve_quota" => n = "resolve_gpu"
    /\ s = "resolve_gpu" => n = "apply_cr"
    /\ s = "apply_cr" => n = "materialize_model"
    /\ s = "materialize_model" => n = "apply_runtime"
    /\ s = "apply_runtime" => n = "observe_runtime"
    /\ s = "observe_runtime" => n = "publish"
    /\ s = "publish" => n = "complete"
    /\ s \in {"reserve_quota", "resolve_gpu", "apply_cr", "materialize_model",
              "apply_runtime", "observe_runtime", "publish"} =>
        k \in {"create", "start", "update", "restart"}
    /\ s = "withdraw_publication" =>
        k \in {"update", "restart", "stop", "delete"} /\ n = "delete_runtime"
    /\ s = "delete_runtime" =>
        k \in {"update", "restart", "stop", "delete"} /\ n = "observe_absence"
    /\ s = "observe_absence" =>
        \/ k \in {"update", "restart"} /\ n = "release_previous_quota"
        \/ k = "stop" /\ n = "release_quota"
        \/ k = "delete" /\ n = "delete_cr"
    /\ s = "release_previous_quota" =>
        k \in {"update", "restart"} /\ n = "reserve_quota"
    /\ s = "delete_cr" => k = "delete" /\ n = "release_quota"
    /\ s = "release_quota" => k \in {"stop", "delete"} /\ n = "complete"

Follows(k, p) == \A i \in 1 .. Len(p) - 1 : ComesAfter(k, p[i], p[i + 1])

\* Sequences with the same entries are equal.
LEMMA SameStepsEqual ==
    ASSUME NEW p, NEW q, SameSteps(p, q)
    PROVE  p = q
BY DEF SameSteps

\* The paths of operation.go, written out.
LEMMA PathsSpelledOut ==
    /\ OperationPaths["create"] =
        <<"admission", "reserve_quota", "resolve_gpu", "apply_cr", "materialize_model",
          "apply_runtime", "observe_runtime", "publish", "complete">>
    /\ OperationPaths["start"] =
        <<"reserve_quota", "resolve_gpu", "apply_cr", "materialize_model",
          "apply_runtime", "observe_runtime", "publish", "complete">>
    /\ OperationPaths["update"] =
        <<"withdraw_publication", "delete_runtime", "observe_absence",
          "release_previous_quota", "reserve_quota", "resolve_gpu", "apply_cr",
          "materialize_model", "apply_runtime", "observe_runtime", "publish", "complete">>
    /\ OperationPaths["restart"] = OperationPaths["update"]
    /\ OperationPaths["stop"] =
        <<"withdraw_publication", "delete_runtime", "observe_absence", "release_quota",
          "complete">>
    /\ OperationPaths["delete"] =
        <<"withdraw_publication", "delete_runtime", "observe_absence", "delete_cr",
          "release_quota", "complete">>
<1>1. /\ OperationPaths["create"] = <<"admission">> \o ApplyPath
      /\ OperationPaths["start"] = ApplyPath
      /\ OperationPaths["update"] = RemovePath \o <<"release_previous_quota">> \o ApplyPath
      /\ OperationPaths["restart"] = OperationPaths["update"]
      /\ OperationPaths["stop"] = RemovePath \o <<"release_quota", "complete">>
      /\ OperationPaths["delete"] = RemovePath \o <<"delete_cr", "release_quota", "complete">>
  BY DEF OperationPaths
<1>2. SameSteps(<<"admission">> \o ApplyPath,
        <<"admission", "reserve_quota", "resolve_gpu", "apply_cr", "materialize_model",
          "apply_runtime", "observe_runtime", "publish", "complete">>)
  BY DEF SameSteps, ApplyPath, Steps
<1>3. SameSteps(RemovePath \o <<"release_previous_quota">> \o ApplyPath,
        <<"withdraw_publication", "delete_runtime", "observe_absence",
          "release_previous_quota", "reserve_quota", "resolve_gpu", "apply_cr",
          "materialize_model", "apply_runtime", "observe_runtime", "publish", "complete">>)
  BY DEF SameSteps, RemovePath, ApplyPath, Steps
<1>4. SameSteps(RemovePath \o <<"release_quota", "complete">>,
        <<"withdraw_publication", "delete_runtime", "observe_absence", "release_quota",
          "complete">>)
  BY DEF SameSteps, RemovePath, Steps
<1>5. SameSteps(RemovePath \o <<"delete_cr", "release_quota", "complete">>,
        <<"withdraw_publication", "delete_runtime", "observe_absence", "delete_cr",
          "release_quota", "complete">>)
  BY DEF SameSteps, RemovePath, Steps
<1> QED
  BY <1>1, <1>2, <1>3, <1>4, <1>5, SameStepsEqual DEF ApplyPath

\* Every path visits a step once, in the order of the table.
LEMMA PathShapes ==
    ASSUME NEW k \in Kinds
    PROVE  SimplePath(OperationPaths[k]) /\ Follows(k, OperationPaths[k])
<1>1. ASSUME NEW j, j = "create", NEW p,
             p = <<"admission", "reserve_quota", "resolve_gpu", "apply_cr", "materialize_model",
          "apply_runtime", "observe_runtime", "publish", "complete">>
      PROVE  SimplePath(p) /\ Follows(j, p)
  BY <1>1 DEF SimplePath, Follows, ComesAfter, Steps
<1>2. ASSUME NEW j, j = "start", NEW p,
             p = <<"reserve_quota", "resolve_gpu", "apply_cr", "materialize_model",
          "apply_runtime", "observe_runtime", "publish", "complete">>
      PROVE  SimplePath(p) /\ Follows(j, p)
  BY <1>2 DEF SimplePath, Follows, ComesAfter, Steps
<1>3. ASSUME NEW j \in {"update", "restart"}, NEW p,
             p = <<"withdraw_publication", "delete_runtime", "observe_absence",
          "release_previous_quota", "reserve_quota", "resolve_gpu", "apply_cr",
          "materialize_model", "apply_runtime", "observe_runtime", "publish", "complete">>
      PROVE  SimplePath(p) /\ Follows(j, p)
  BY <1>3 DEF SimplePath, Follows, ComesAfter, Steps
<1>4. ASSUME NEW j, j = "stop", NEW p,
             p = <<"withdraw_publication", "delete_runtime", "observe_absence", "release_quota",
          "complete">>
      PROVE  SimplePath(p) /\ Follows(j, p)
  BY <1>4 DEF SimplePath, Follows, ComesAfter, Steps
<1>5. ASSUME NEW j, j = "delete", NEW p,
             p = <<"withdraw_publication", "delete_runtime", "observe_absence", "delete_cr",
          "release_quota", "complete">>
      PROVE  SimplePath(p) /\ Follows(j, p)
  BY <1>5 DEF SimplePath, Follows, ComesAfter, Steps
<1> QED
  BY <1>1, <1>2, <1>3, <1>4, <1>5, PathsSpelledOut DEF Kinds

\* An active step has a place on its path and a successor.
LEMMA ActiveStepPlace ==
    ASSUME NEW k \in Kinds, NEW s, ActiveStep(k, s)
    PROVE  /\ Len(OperationPaths[k]) \in Nat
           /\ StepIndex(k, s) \in 1 .. Len(OperationPaths[k]) - 1
           /\ OperationPaths[k][StepIndex(k, s)] = s
           /\ s \in Steps \ {"complete"}
<1> DEFINE p == OperationPaths[k]
<1>1. SimplePath(p)
  BY PathShapes
<1>2. StepIndex(k, s) \in 1 .. Len(p) /\ p[StepIndex(k, s)] = s
  BY DEF ActiveStep, OnPath, StepIndex
<1>3. StepIndex(k, s) < Len(p)
  BY DEF ActiveStep
<1> HIDE DEF p
<1> QED
  BY <1>1, <1>2, <1>3 DEF SimplePath, p

\* A step of the path that is not the last is active, where it stands.
LEMMA PlaceIsActive ==
    ASSUME NEW k \in Kinds, NEW i \in 1 .. Len(OperationPaths[k]),
           OperationPaths[k][i] # "complete"
    PROVE  ActiveStep(k, OperationPaths[k][i]) /\ StepIndex(k, OperationPaths[k][i]) = i
<1> DEFINE p == OperationPaths[k]
<1>1. SimplePath(p)
  BY PathShapes
<1>2. \A j \in 1 .. Len(p) : p[j] = p[i] => j = i
  BY <1>1 DEF SimplePath
<1>3. StepIndex(k, p[i]) = i
  BY <1>2 DEF StepIndex
<1>4. i < Len(p)
  BY <1>1 DEF SimplePath
<1> QED
  BY <1>3, <1>4 DEF ActiveStep, OnPath

\* The successor of an active step is the one of the table; unless it is the
\* end of the path it is active too.
LEMMA Successor ==
    ASSUME NEW k \in Kinds, NEW s, ActiveStep(k, s), NEW n,
           n = OperationPaths[k][StepIndex(k, s) + 1]
    PROVE  /\ ComesAfter(k, s, n)
           /\ n \in Steps
           /\ n # "complete" => ActiveStep(k, n) /\ StepIndex(k, n) = StepIndex(k, s) + 1
           /\ n = "complete" <=> StepIndex(k, s) + 1 = Len(OperationPaths[k])
<1> DEFINE p == OperationPaths[k]
           i == StepIndex(k, s)
<1>1. Len(p) \in Nat /\ i \in 1 .. Len(p) - 1 /\ p[i] = s /\ n = p[i + 1]
  BY ActiveStepPlace
<1> HIDE DEF i
<1>2. i + 1 \in 1 .. Len(p)
  BY <1>1
<1>3. ComesAfter(k, s, n)
  BY <1>1, PathShapes DEF Follows
<1>4. n \in Steps /\ (n = "complete" <=> i + 1 = Len(p))
  BY <1>1, <1>2, PathShapes DEF SimplePath
<1>5. n # "complete" => ActiveStep(k, n) /\ StepIndex(k, n) = i + 1
  BY <1>1, <1>2, PlaceIsActive
<1> QED
  BY <1>3, <1>4, <1>5 DEF i

\* A command starts its operation at an active step.
LEMMA EntryIsActive ==
    ASSUME NEW k \in Kinds
    PROVE  ActiveStep(k, EntryStep(k)) /\ StepIndex(k, EntryStep(k)) = 1
<1>1. /\ 1 \in 1 .. Len(OperationPaths[k])
      /\ OperationPaths[k][1] = EntryStep(k)
  <2>1. /\ OperationPaths["create"][1] = "admission" /\ Len(OperationPaths["create"]) = 9
        /\ OperationPaths["start"][1] = "reserve_quota" /\ Len(OperationPaths["start"]) = 8
        /\ OperationPaths["update"][1] = "withdraw_publication" /\ Len(OperationPaths["update"]) = 12
        /\ OperationPaths["stop"][1] = "withdraw_publication" /\ Len(OperationPaths["stop"]) = 5
        /\ OperationPaths["delete"][1] = "withdraw_publication" /\ Len(OperationPaths["delete"]) = 6
        /\ OperationPaths["restart"] = OperationPaths["update"]
    BY PathsSpelledOut
  <2> QED
    BY <2>1 DEF Kinds, EntryStep
<1>2. EntryStep(k) # "complete"
  BY DEF EntryStep
<1> QED
  BY <1>1, <1>2, PlaceIsActive

-----------------------------------------------------------------------------
\* What a command installs is a well-formed, pending operation.
LEMMA NewOperationType ==
    ASSUME NEW k \in Kinds
    PROVE  /\ NewOperation(k) \in Operation
           /\ NewOperation(k).kind = k
           /\ NewOperation(k).phase = "pending"
           /\ ~NewOperation(k).waiting
BY DEF NewOperation, Operation, Kinds, Phases, ActivePhases, Steps, EntryStep

\* Replacing one operation keeps the journal well formed.
LEMMA ReplaceOperation ==
    ASSUME NEW before \in Seq(Operation), NEW i \in 1 .. Len(before), NEW o \in Operation,
           NEW after, after = [before EXCEPT ![i] = o]
    PROVE  /\ after \in Seq(Operation)
           /\ Len(after) = Len(before)
           /\ after[i] = o
           /\ \A j \in 1 .. Len(before) : j # i => after[j] = before[j]
OBVIOUS

\* An operation whose retry_at has passed.
LEMMA ElapsedOperation ==
    ASSUME NEW o \in Operation
    PROVE  /\ [o EXCEPT !.waiting = FALSE] \in Operation
           /\ [o EXCEPT !.waiting = FALSE].kind = o.kind
           /\ [o EXCEPT !.waiting = FALSE].phase = o.phase
           /\ [o EXCEPT !.waiting = FALSE].step = o.step
BY DEF Operation

\* An operation that waits for its retry.
LEMMA WaitingOperation ==
    ASSUME NEW o \in Operation
    PROVE  /\ [o EXCEPT !.phase = "pending", !.waiting = TRUE] \in Operation
           /\ [o EXCEPT !.phase = "pending", !.waiting = TRUE].kind = o.kind
           /\ [o EXCEPT !.phase = "pending", !.waiting = TRUE].phase = "pending"
           /\ [o EXCEPT !.phase = "pending", !.waiting = TRUE].step = o.step
BY DEF Operation, Phases, ActivePhases

\* Appending one operation keeps the others.
LEMMA AppendOperation ==
    ASSUME NEW before \in Seq(Operation), NEW o \in Operation, ops' = Append(before, o)
    PROVE  /\ ops' \in Seq(Operation)
           /\ Len(ops') = Len(before) + 1
           /\ ops'[Len(before) + 1] = o
           /\ \A j \in 1 .. Len(before) : ops'[j] = before[j]
OBVIOUS

\* CreateService establishes the invariant.
LEMMA InitJInv == JournalInit => JInv
<1> SUFFICES ASSUME JournalInit PROVE JInv
  OBVIOUS
<1>1. /\ NewOperation("create") \in Operation
      /\ NewOperation("create").kind = "create"
      /\ NewOperation("create").phase = "pending"
      /\ ~NewOperation("create").waiting
  BY NewOperationType DEF Kinds
<1>2. /\ ops \in Seq(Operation) /\ Len(ops) = 1 /\ ops[1] = NewOperation("create")
  BY <1>1 DEF JournalInit
<1>3. JournalTypeOK
  BY <1>2 DEF JournalInit, JournalTypeOK, NoView, Phases, ActivePhases, Steps
<1>4. ActiveIsCurrent /\ DeletedByDelete /\ DesiredFollowsOperation
  BY <1>1, <1>2 DEF JournalInit, ActiveIsCurrent, DeletedByDelete,
     DesiredFollowsOperation, DesiredAfter
<1>5. ViewActive /\ WaitingActive
  BY <1>1, <1>2 DEF JournalInit, ViewActive, WaitingActive
<1> QED
  BY <1>2, <1>3, <1>4, <1>5 DEF JInv

\* The table a delete leaves behind: only the current operation can change,
\* and none is active.
LEMMA CancelledTable ==
    ASSUME JInv
    PROVE  /\ Cancelled \in Seq(Operation)
           /\ Len(Cancelled) = Len(ops)
           /\ \A j \in 1 .. Len(ops) :
                /\ Cancelled[j].kind = ops[j].kind
                /\ Cancelled[j].step = ops[j].step
                /\ Cancelled[j].phase \in {ops[j].phase, "failed"} \ ActivePhases
                /\ ops[j].phase \notin ActivePhases => Cancelled[j] = ops[j]
                /\ ~Cancelled[j].waiting
<1> DEFINE o == [ops[current] EXCEPT !.phase = "failed", !.waiting = FALSE]
<1>1. current \in 1 .. Len(ops) /\ ops \in Seq(Operation) /\ ops[current] \in Operation
  BY DEF JInv, JournalTypeOK, ActiveIsCurrent
<1>2. /\ o \in Operation /\ o.kind = ops[current].kind /\ ~o.waiting /\ o.phase = "failed"
      /\ o.step = ops[current].step
  BY <1>1 DEF Operation, Phases, ActivePhases
<1>3. \A j \in 1 .. Len(ops) : ops[j].phase \in ActivePhases \/ ops[j].waiting =>
        j = current /\ Active(current)
  BY DEF JInv, ActiveIsCurrent, WaitingActive, Active
<1>4. CASE Active(current)
  <2>1. Cancelled = [ops EXCEPT ![current] = o]
    BY <1>4 DEF Cancelled
  <2>2. /\ Cancelled \in Seq(Operation) /\ Len(Cancelled) = Len(ops)
        /\ Cancelled[current] = o
        /\ \A j \in 1 .. Len(ops) : j # current => Cancelled[j] = ops[j]
    <3> HIDE DEF o
    <3> QED
      BY <1>1, <1>2, <2>1, ReplaceOperation
  <2> QED
    BY <1>2, <1>3, <1>4, <2>2 DEF ActivePhases, Active
<1>5. CASE ~Active(current)
  BY <1>1, <1>3, <1>5 DEF Cancelled
<1> QED
  BY <1>4, <1>5

\* Installing a command on a table without active operations and without a
\* delete keeps the invariant.
LEMMA InstallJInv ==
    ASSUME JInv, NEW k \in Kinds, NEW before \in Seq(Operation),
           Len(before) = Len(ops), ~deleted,
           \A j \in 1 .. Len(ops) : /\ before[j].kind = ops[j].kind
                                    /\ before[j].phase \notin ActivePhases
                                    /\ ~before[j].waiting,
           desired # "deleted", Install(k, before),
           holder' \in Workers \cup {NoWorker}, UNCHANGED <<deleted, view>>
    PROVE  JInv'
<1> DEFINE n == Len(ops)
<1>1. /\ ops' \in Seq(Operation) /\ Len(ops') = n + 1
      /\ ops'[n + 1] = NewOperation(k)
      /\ \A j \in 1 .. n : ops'[j] = before[j]
  BY NewOperationType, AppendOperation DEF Install
<1>2. gen' = n + 1 /\ current' = n + 1 /\ desired' = DesiredAfter(k) /\ n \in Nat
  BY DEF Install, JInv, ActiveIsCurrent, JournalTypeOK
<1>3. \A j \in 1 .. n : ops[j].kind # "delete"
  BY DEF JInv, DeletedByDelete, DesiredFollowsOperation, DesiredAfter
<1>4. /\ NewOperation(k).kind = k
      /\ NewOperation(k).phase = "pending"
      /\ ~NewOperation(k).waiting
  BY NewOperationType
<1>5. JournalTypeOK'
  BY <1>1, <1>2 DEF JInv, JournalTypeOK, DesiredAfter
<1>6. ActiveIsCurrent'
  BY <1>1, <1>2 DEF ActiveIsCurrent, Active
<1>7. DeletedByDelete' /\ DesiredFollowsOperation'
  BY <1>1, <1>2, <1>3, <1>4 DEF DeletedByDelete, DesiredFollowsOperation
<1>8. WaitingActive' /\ ViewActive'
  BY <1>1, <1>2, <1>4 DEF JInv, WaitingActive, ViewActive
<1> QED
  BY <1>1, <1>2, <1>5, <1>6, <1>7, <1>8 DEF JInv

\* The commands.
LEMMA CommandJInv ==
    ASSUME JInv, AcceptDelete \/ \E k \in Kinds : Accept(k)
    PROVE  JInv'
<1>1. ASSUME NEW k \in Kinds, Accept(k) PROVE JInv'
  <2>1. \A j \in 1 .. Len(ops) : ops[j].phase \notin ActivePhases /\ ~ops[j].waiting
    BY <1>1 DEF Accept, JInv, WaitingActive, Active
  <2>2. desired # "deleted"
    BY <1>1 DEF Accept, ValidCommandState
  <2>3. ops \in Seq(Operation) /\ holder \in Workers \cup {NoWorker}
    BY DEF JInv, JournalTypeOK
  <2> QED
    BY <1>1, <2>1, <2>2, <2>3, InstallJInv DEF Accept
<1>2. ASSUME AcceptDelete PROVE JInv'
  <2>1. holder' \in Workers \cup {NoWorker}
    BY <1>2 DEF AcceptDelete, JInv, JournalTypeOK
  <2>2. "delete" \in Kinds
    BY DEF Kinds
  <2> QED
    BY <1>2, <2>1, <2>2, CancelledTable, InstallJInv DEF AcceptDelete
<1> QED
  BY <1>1, <1>2

\* A worker's transaction that replaces the operation it holds by one of the
\* same kind, still active or succeeded, keeps the invariant as long as a
\* succeeded delete marks the service deleted.
LEMMA ReplaceJInv ==
    ASSUME JInv, NEW o \in Operation, Active(current), o.kind = ops[current].kind,
           o.phase # "failed",
           o.waiting => o.phase \in ActivePhases,
           ops' = [ops EXCEPT ![current] = o],
           deleted' = (deleted \/ (o.kind = "delete" /\ o.phase = "succeeded")),
           view' \in [Workers -> [id : Nat, phase : Phases, step : Steps]],
           ViewActive', UNCHANGED <<current, gen, desired, holder>>
    PROVE  JInv'
<1>1. current \in 1 .. Len(ops) /\ ops \in Seq(Operation)
  BY DEF JInv, JournalTypeOK, ActiveIsCurrent
<1>2. /\ ops' \in Seq(Operation) /\ Len(ops') = Len(ops) /\ ops'[current] = o
      /\ \A j \in 1 .. Len(ops) : j # current => ops'[j] = ops[j]
  BY <1>1, ReplaceOperation
<1>3. JournalTypeOK'
  BY <1>2 DEF JInv, JournalTypeOK
<1>4. ActiveIsCurrent'
  BY <1>2 DEF JInv, ActiveIsCurrent, Active
<1>5. deleted = FALSE
  <2>1. ops[current].phase # "succeeded" /\ deleted \in BOOLEAN
    BY DEF Active, ActivePhases, JInv, JournalTypeOK
  <2> QED
    BY <2>1 DEF JInv, DeletedByDelete
<1>6. DeletedByDelete'
  BY <1>2, <1>5 DEF JInv, DeletedByDelete
<1>7. DesiredFollowsOperation'
  BY <1>2 DEF JInv, DesiredFollowsOperation
<1>8. WaitingActive'
  BY <1>1, <1>2 DEF JInv, WaitingActive, Active
<1> QED
  BY <1>2, <1>3, <1>4, <1>6, <1>7, <1>8 DEF JInv

\* What a worker's compare-and-set tells it: the operation it loaded is the
\* current one and is still active.
LEMMA CASCurrent ==
    ASSUME JInv, NEW w \in Workers, CAS(w)
    PROVE  /\ view[w].id = current
           /\ Active(current)
           /\ ops[current].phase = view[w].phase
           /\ ops[current] \in Operation
<1>1. current \in 1 .. Len(ops) /\ ops \in Seq(Operation)
  BY DEF JInv, JournalTypeOK, ActiveIsCurrent
<1>2. view[w] # NoView /\ view[w].id = current /\ ops[current].phase = view[w].phase
  BY DEF CAS
<1> QED
  BY <1>1, <1>2 DEF JInv, ViewActive, Active

\* A claim, a step or the end of an operation.
LEMMA AdvanceJInv ==
    ASSUME JInv, NEW w \in Workers, Progress(w)
    PROVE  JInv'
<1>1. PICK phase \in {"running", "succeeded"}, step \in Steps : Advance(w, phase, step)
  BY DEF Progress, Steps
<1> DEFINE o == [ops[current] EXCEPT !.phase = phase, !.step = step]
<1>2. CAS(w) /\ ~ops[view[w].id].waiting
  BY <1>1 DEF Advance
<1>3. /\ view[w].id = current /\ Active(current) /\ ops[current] \in Operation
      /\ ~ops[current].waiting
  BY <1>2, CASCurrent
<1>4. /\ o \in Operation /\ o.kind = ops[current].kind /\ ~o.waiting /\ o.phase = phase
      /\ phase # "failed"
  BY <1>3 DEF Operation, Phases, ActivePhases
<1>5. /\ ops' = [ops EXCEPT ![current] = o]
      /\ deleted' = (deleted \/ (o.kind = "delete" /\ o.phase = "succeeded"))
      /\ UNCHANGED <<current, gen, desired, holder>>
  BY <1>1, <1>3, <1>4 DEF Advance
<1>6. /\ view' \in [Workers -> [id : Nat, phase : Phases, step : Steps]]
      /\ ViewActive'
  <2>1. AfterAdvance(w, phase) /\ ValidTransition(ops[current].kind, view[w].phase, view[w].step, phase, step)
    BY <1>1, <1>3 DEF Advance
  <2>2. view[w].phase = "pending" => phase = "running"
    BY <2>1 DEF ValidTransition
  <2>3. view \in [Workers -> [id : Nat, phase : Phases, step : Steps]] /\ ViewActive
    BY DEF JInv, JournalTypeOK
  <2> QED
    BY <2>1, <2>2, <2>3 DEF AfterAdvance, ViewActive, NoView, Phases, ActivePhases, Steps
<1> HIDE DEF o
<1> QED
  BY <1>3, <1>4, <1>5, <1>6, ReplaceJInv

\* A failed step is put back to pending.
LEMMA RetryJInv ==
    ASSUME JInv, NEW w \in Workers, RetryStep(w)
    PROVE  JInv'
<1> DEFINE o == [ops[current] EXCEPT !.phase = "pending", !.waiting = TRUE]
<1>1. /\ view[w].id = current /\ Active(current) /\ ops[current] \in Operation
  BY CASCurrent DEF RetryStep
<1>2. /\ o \in Operation /\ o.kind = ops[current].kind /\ o.phase = "pending"
  BY <1>1 DEF Operation, Phases, ActivePhases
<1>3. /\ ops' = [ops EXCEPT ![current] = o]
      /\ UNCHANGED <<current, gen, desired, deleted, holder>>
  BY <1>1 DEF RetryStep
<1>4. /\ view' \in [Workers -> [id : Nat, phase : Phases, step : Steps]]
      /\ ViewActive'
  BY DEF RetryStep, JInv, JournalTypeOK, ViewActive, NoView, Phases, ActivePhases, Steps
<1>5. deleted' = (deleted \/ (o.kind = "delete" /\ o.phase = "succeeded"))
  <2> HIDE DEF o
  <2> QED
    BY <1>2, <1>3 DEF JInv, JournalTypeOK
<1> HIDE DEF o
<1> QED
  BY <1>1, <1>2, <1>3, <1>4, <1>5, ReplaceJInv DEF ActivePhases

\* The clock passes retry_at.
LEMMA ElapsedJInv ==
    ASSUME JInv, RetryElapsed
    PROVE  JInv'
<1> DEFINE o == [ops[current] EXCEPT !.waiting = FALSE]
<1>1. current \in 1 .. Len(ops) /\ ops[current] \in Operation
  BY DEF JInv, JournalTypeOK, ActiveIsCurrent
<1>2. Active(current)
  BY <1>1 DEF RetryElapsed, JInv, WaitingActive
<1>3. /\ o \in Operation /\ o.kind = ops[current].kind /\ ~o.waiting
      /\ o.phase = ops[current].phase /\ o.phase \in ActivePhases
  BY <1>1, <1>2 DEF Operation, Active
<1>4. /\ ops' = [ops EXCEPT ![current] = o]
      /\ UNCHANGED <<current, gen, desired, deleted, holder, view>>
  BY DEF RetryElapsed
<1>5. /\ view' \in [Workers -> [id : Nat, phase : Phases, step : Steps]]
      /\ ViewActive'
  BY <1>4 DEF JInv, JournalTypeOK, ViewActive
<1> HIDE DEF o
<1>6. o.phase # "failed" /\ o.phase # "succeeded"
  BY <1>3 DEF ActivePhases
<1>7. deleted' = (deleted \/ (o.kind = "delete" /\ o.phase = "succeeded"))
  BY <1>4, <1>6 DEF JInv, JournalTypeOK
<1> QED
  BY <1>2, <1>3, <1>4, <1>5, <1>6, <1>7, ReplaceJInv

\* Leases and what the workers hold in memory.
LEMMA WorkerJInv ==
    ASSUME JInv, NEW w \in Workers, Lease(w) \/ Load(w) \/ Forget(w) \/ LeaseLost
    PROVE  JInv'
<1>1. UNCHANGED <<ops, current, gen, desired, deleted>>
  BY DEF Lease, Load, Forget, LeaseLost
<1>2. /\ Len(ops) >= 1 /\ current \in 1 .. Len(ops) /\ ops[current] \in Operation
  BY DEF JInv, JournalTypeOK, ActiveIsCurrent
<1>3. holder' \in Workers \cup {NoWorker}
  BY DEF Lease, Load, Forget, LeaseLost, JInv, JournalTypeOK
<1>4. /\ view' \in [Workers -> [id : Nat, phase : Phases, step : Steps]]
      /\ ViewActive'
  <2>1. ASSUME Load(w) PROVE <1>4!1 /\ <1>4!2
    BY <1>2, <2>1 DEF Load, JInv, JournalTypeOK, ViewActive, Operation, Active
  <2>2. ASSUME Forget(w) PROVE <1>4!1 /\ <1>4!2
    BY <2>2 DEF Forget, JInv, JournalTypeOK, ViewActive, NoView, Phases, ActivePhases, Steps
  <2>3. ASSUME Lease(w) \/ LeaseLost PROVE <1>4!1 /\ <1>4!2
    BY <2>3 DEF Lease, LeaseLost, JInv, JournalTypeOK, ViewActive
  <2> QED
    BY <2>1, <2>2, <2>3
<1> QED
  BY <1>1, <1>3, <1>4 DEF JInv, JournalTypeOK, ActiveIsCurrent, DeletedByDelete,
     DesiredFollowsOperation, WaitingActive, Active

\* Every step keeps the invariant.
LEMMA NextJInv == JInv /\ [JournalNext]_journal => JInv'
<1> SUFFICES ASSUME JInv, [JournalNext]_journal PROVE JInv'
  OBVIOUS
<1>1. CASE UNCHANGED journal
  BY <1>1 DEF journal, JInv, JournalTypeOK, ActiveIsCurrent, DeletedByDelete,
     DesiredFollowsOperation, ViewActive, WaitingActive, Active
<1>2. CASE AcceptDelete \/ \E k \in Kinds : Accept(k)
  BY <1>2, CommandJInv
<1>3. CASE RetryElapsed
  BY <1>3, ElapsedJInv
<1>4. ASSUME NEW w \in Workers, Lease(w) \/ Load(w) \/ Forget(w) PROVE JInv'
  BY <1>4, WorkerJInv
<1>5. ASSUME NEW w \in Workers, Progress(w) PROVE JInv'
  BY <1>5, AdvanceJInv
<1>6. ASSUME NEW w \in Workers, RetryStep(w) PROVE JInv'
  BY <1>6, RetryJInv
<1>7. CASE LeaseLost
  <2>1. holder \in Workers
    BY <1>7 DEF LeaseLost, JInv, JournalTypeOK
  <2> QED
    BY <1>7, <2>1, WorkerJInv
<1> QED
  BY <1>1, <1>2, <1>3, <1>4, <1>5, <1>6, <1>7 DEF JournalNext

\* No step touches an operation that has ended: commands append, and the
\* writes of workers are compare-and-set on an active phase.
LEMMA NextTerminal ==
    ASSUME JInv, JournalNext, NEW i \in 1 .. Len(ops), ~Active(i)
    PROVE  ops'[i] = ops[i]
<1>1. current \in 1 .. Len(ops) /\ ops \in Seq(Operation) /\ current = Len(ops)
  BY DEF JInv, JournalTypeOK, ActiveIsCurrent
<1>2. ASSUME NEW o, ops' = [ops EXCEPT ![current] = o], Active(current)
      PROVE  ops'[i] = ops[i]
  BY <1>1, <1>2
<1>3. ASSUME NEW k \in Kinds, Accept(k) PROVE ops'[i] = ops[i]
  BY <1>1, <1>3, NewOperationType, AppendOperation DEF Accept, Install
<1>4. ASSUME AcceptDelete PROVE ops'[i] = ops[i]
  <2>1. Cancelled \in Seq(Operation) /\ Len(Cancelled) = Len(ops) /\ Cancelled[i] = ops[i]
    BY CancelledTable DEF Active
  <2>2. ops' = Append(Cancelled, NewOperation("delete")) /\ NewOperation("delete") \in Operation
    BY <1>4, NewOperationType DEF AcceptDelete, Install, Kinds
  <2> QED
    BY <2>1, <2>2, AppendOperation
<1>5. ASSUME NEW w \in Workers, Progress(w) \/ RetryStep(w) PROVE ops'[i] = ops[i]
  <2>1. CAS(w) /\ \E o : ops' = [ops EXCEPT ![view[w].id] = o]
    BY <1>5 DEF Progress, Advance, RetryStep
  <2> QED
    BY <1>2, <2>1, CASCurrent
<1>6. ASSUME RetryElapsed PROVE ops'[i] = ops[i]
  BY <1>1, <1>2, <1>6 DEF RetryElapsed, JInv, WaitingActive
<1>7. ASSUME NEW w \in Workers, Lease(w) \/ Load(w) \/ Forget(w) \/ LeaseLost
      PROVE  ops'[i] = ops[i]
  BY <1>7 DEF Lease, Load, Forget, LeaseLost
<1>8. ASSUME LeaseLost PROVE ops'[i] = ops[i]
  BY <1>8 DEF LeaseLost
<1> QED
  BY <1>3, <1>4, <1>5, <1>6, <1>7, <1>8 DEF JournalNext

-----------------------------------------------------------------------------
\* The inductive invariant holds in every reachable state.
THEOREM JournalInvariance == JournalSpec => []JInv
BY InitJInv, NextJInv, PTL DEF JournalSpec

\* Commands and worker transactions keep the tables well formed.
THEOREM JournalTypeCorrect == JournalSpec => []JournalTypeOK
<1>1. JInv => JournalTypeOK
  BY DEF JInv
<1> QED
  BY <1>1, JournalInvariance, PTL

\* One active operation at most, and it is the one the service points at, for
\* any number of workers and commands (CancelActiveOperation and the unique
\* index on active operations).
THEOREM OneActiveOperation == JournalSpec => []ActiveIsCurrent
<1>1. JInv => ActiveIsCurrent
  BY DEF JInv
<1> QED
  BY <1>1, JournalInvariance, PTL

\* A service is marked deleted exactly by its delete succeeding
\* (MarkServiceDeleted in stepWithAudit).
THEOREM DeletionIsByDelete == JournalSpec => []DeletedByDelete
<1>1. JInv => DeletedByDelete
  BY DEF JInv
<1> QED
  BY <1>1, JournalInvariance, PTL

\* desired_state and the newest operation agree (TransitionService).
THEOREM DesiredAgrees == JournalSpec => []DesiredFollowsOperation
<1>1. JInv => DesiredFollowsOperation
  BY DEF JInv
<1> QED
  BY <1>1, JournalInvariance, PTL

\* An operation that has ended stays as it is (AdvanceOperationStepCAS and
\* RetryOperationStepCAS against CancelActiveOperation).
THEOREM TerminalOperationsStable == JournalSpec => TerminalStable
<1>1. JInv /\ [JournalNext]_journal =>
        [\A i \in 1 .. Len(ops) : ~Active(i) => ops'[i] = ops[i]]_journal
  BY NextTerminal DEF journal
<1> QED
  BY <1>1, JournalInvariance, PTL DEF JournalSpec, TerminalStable

=============================================================================
