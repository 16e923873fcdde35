--------------------------- MODULE CommandIntake ---------------------------
(***************************************************************************)
(* How the API accepts commands (internal/service/inference.go and the use *)
(* cases of internal/data): concurrent calls of create, update, start,     *)
(* stop, restart and delete, each a chain of reads of other services, an   *)
(* unlocked preflight, and one READ COMMITTED transaction that takes the   *)
(* advisory lock of the request id, looks the id up, locks the row of the  *)
(* service, checks the command against it and writes.  A caller may repeat *)
(* a request at any time, while its first call is still running too, and a *)
(* call may be cut off at any step, after its commit too.                  *)
(*                                                                         *)
(* One tenant and one caller, services without a managed GPU (those are in *)
(* ManagedCompute).  A request that the handlers turn down as malformed    *)
(* changes nothing and is left out.                                        *)
(***************************************************************************)
EXTENDS Integers, Sequences, FiniteSets

CONSTANTS
    Clients,
    Requests,      \* the requests callers may send: see IsRequest
    Keys,          \* request ids
    Models, Engines, Names,
    Absent,        \* a request leaves a field out
    MaxServices,   \* bound: services created
    MaxCalls       \* bound: calls made

Kinds == {"create", "update", "start", "stop", "restart", "delete"}
Fields == {"model", "engine"}

(* A request as it arrives.  set holds the spec fields it carries, mask the
   fields its update_mask selects (a create selects all, and the other commands
   have none), provider the runtime provider, which may be left out, and gen the
   expected generation. *)
Request ==
    [kind : Kinds, key : Keys, svc : 0 .. MaxServices, gen : Nat,
     name : Names \union {Absent}, mask : SUBSET Fields, provider : {"kserve", Absent},
     set : [Fields -> Models \union Engines \union {Absent}]]

IsRequest(r) ==
    /\ r \in Request
    /\ \A f \in r.mask : r.set[f] # Absent
    /\ r.kind = "create" => r.mask = Fields /\ r.name # Absent /\ r.svc = 0 /\ r.gen = 0
    /\ r.kind = "update" => r.mask # {}
    /\ r.kind \notin {"create", "update"} => r.mask = {}
    /\ r.kind \notin {"create", "delete"} => r.gen >= 1
    /\ r.kind # "create" => r.svc >= 1

NoClient == "none"

ASSUME IntakeAssumption ==
    /\ \A r \in Requests : IsRequest(r)
    /\ MaxServices \in Nat /\ MaxCalls \in Nat
    /\ Absent \notin Models \union Engines \union Names
    /\ NoClient \notin Clients

Services == 1 .. MaxServices

\* LockIdempotency and GetIdempotency key a request by method and request id.
Identity(r) == <<r.kind, r.key>>
Ids == {Identity(r) : r \in Requests}

VARIABLES
    svc,      \* inference_services: id -> row; desired_generation 0 is no row
    spec,     \* inference_specs: id -> the spec of each generation
    ops,      \* inference_operations, in the order of acceptance
    idem,     \* idempotency_records: identity -> [hash, op]
    work,     \* resource_work: service -> dirty_version
    quota,    \* quota_reservations: the operations that have a placeholder
    audit,    \* audit_events: the operations recorded as accepted
    lock,     \* pg_advisory_xact_lock of an identity: who holds it
    rowlock,  \* SELECT ... FOR UPDATE of a service: who holds it
    call,     \* the call each client is making
    calls

store == <<svc, spec, ops, idem, work, quota, audit>>
vars == <<store, lock, rowlock, call, calls>>

NoRow == [hash |-> Absent, op |-> 0]
NoService == [gen |-> 0, desired |-> "none", deleted |-> FALSE, name |-> Absent]
Idle == [pc |-> "idle", req |-> Absent, seen |-> 0, op |-> 0, phase |-> "none"]

Active(o) == ops[o].phase \in {"pending", "running"}

Init ==
    /\ svc = [s \in Services |-> NoService]
    /\ spec = [s \in Services |-> <<>>]
    /\ ops = <<>>
    /\ idem = [i \in Ids |-> NoRow]
    /\ work = [s \in Services |-> 0]
    /\ quota = {}
    /\ audit = {}
    /\ lock = [i \in Ids |-> NoClient]
    /\ rowlock = [s \in Services |-> NoClient]
    /\ call = [c \in Clients |-> Idle]
    /\ calls = 0

-----------------------------------------------------------------------------
(* The handlers *)

\* runtimeProvider: no provider is the default one.
RuntimeProvider(p) == IF p \in {Absent, "kserve"} THEN "kserve" ELSE "unsupported"

\* CreateInferenceService: the default provider is written out before hashing.
CanonicalCreate(r) == [r EXCEPT !.provider = RuntimeProvider(@)]

\* UpdateInferenceService: fields the mask does not select do not count.
CanonicalUpdate(r) ==
    [r EXCEPT !.set = [f \in Fields |-> IF f \in r.mask THEN r.set[f] ELSE Absent]]

\* The request hash: acceptCommand hashes the whole message.
Hash(r) ==
    CASE r.kind = "create" -> CanonicalCreate(r)
      [] r.kind = "update" -> CanonicalUpdate(r)
      [] OTHER             -> r

Req(c) == call[c].req
Id(c) == Identity(Req(c))

Entry(kind) == IF kind \in {"create", "update"} THEN "prepare" ELSE "lock"

\* A caller knows the id of a service only once there is one.
Send(c, r) ==
    /\ call[c] = Idle
    /\ r.svc # 0 => svc[r.svc] # NoService
    /\ calls < MaxCalls
    /\ calls' = calls + 1
    /\ call' = [call EXCEPT ![c] = [Idle EXCEPT !.pc = Entry(r.kind), !.req = r]]
    /\ UNCHANGED <<store, lock, rowlock>>

Goto(c, pc) == call' = [call EXCEPT ![c].pc = pc]

\* The transaction ends, by commit or rollback.
Unlock(c) ==
    /\ lock' = [i \in Ids |-> IF lock[i] = c THEN NoClient ELSE lock[i]]
    /\ rowlock' = [s \in Services |-> IF rowlock[s] = c THEN NoClient ELSE rowlock[s]]

\* The call returns an error and its transaction, if any, is rolled back.
Fail(c) ==
    /\ call' = [call EXCEPT ![c] = Idle]
    /\ Unlock(c)

\* The record of the request id does not expire: expires_at is not tested.
GetIdempotency(c) == idem[Id(c)]

\* The operation found under the request id.
Found(c) == GetIdempotency(c).op

\* createResponse and the stored acceptance snapshot of an update answer
\* "pending"; commandResponseFromRow answers the phase of the row.
ReplayPhase(c) ==
    IF Req(c).kind \in {"create", "update"} THEN "pending" ELSE ops[Found(c)].phase

Replay(c) ==
    call' = [call EXCEPT ![c].pc = "reply", ![c].op = Found(c), ![c].phase = ReplayPhase(c)]

-----------------------------------------------------------------------------
(* Before the transaction *)

Refuse(c) == Goto(c, "refused")

\* PrepareUpdate reads the record without a lock: the update goes on, is
\* replayed, or conflicts.
PrepareUpdate(c, goOn) ==
    LET row == GetIdempotency(c) IN
    \/ row = NoRow /\ goOn
    \/ row # NoRow /\ row.hash = Hash(Req(c)) /\ Replay(c)
    \/ row # NoRow /\ row.hash # Hash(Req(c)) /\ call' = [call EXCEPT ![c] = Idle]

(* Each of these reads another service: the namespace of the tenant, the
   image catalogue, the model registry.  What is asked for may be ready or not
   at any time, and the service may not answer. *)

\* NamespaceCreate.Create: PrepareCreate finds nothing to do for a create
\* without a managed GPU, before and after the namespace is looked for.
NamespaceCreate(c) ==
    /\ call[c].pc = "prepare" /\ Req(c).kind = "create"
    /\ Goto(c, "image") \/ Refuse(c)
    /\ UNCHANGED <<store, lock, rowlock, calls>>

\* image.CreateUseCase.Create
ImageCreate(c) ==
    /\ call[c].pc = "image" /\ Req(c).kind = "create"
    /\ Goto(c, "model") \/ Refuse(c)
    /\ UNCHANGED <<store, lock, rowlock, calls>>

\* model.CreateUseCase.Create
ModelCreate(c) ==
    /\ call[c].pc = "model" /\ Req(c).kind = "create"
    /\ Goto(c, "lock") \/ Refuse(c)
    /\ UNCHANGED <<store, lock, rowlock, calls>>

\* image.UpdateUseCase.Update up to its first preflight.
ImagePrepare(c) ==
    /\ call[c].pc = "prepare" /\ Req(c).kind = "update"
    /\ PrepareUpdate(c, Goto(c, IF "engine" \in Req(c).mask THEN "image" ELSE "model"))
    /\ UNCHANGED <<store, lock, rowlock, calls>>

\* image.UpdateUseCase.Update: the image resolves; or the namespace of the
\* service does not verify; or the image does not resolve, and the preflight
\* looks once more.
ImageUpdate(c) ==
    /\ call[c].pc = "image" /\ Req(c).kind = "update"
    /\ Goto(c, "model") \/ Refuse(c) \/ PrepareUpdate(c, Refuse(c))
    /\ UNCHANGED <<store, lock, rowlock, calls>>

\* model.UpdateUseCase.Update: only a new model version is looked up.
ModelUpdate(c) ==
    /\ call[c].pc = "model" /\ Req(c).kind = "update"
    /\ PrepareUpdate(c, Goto(c, "lock") \/ ("model" \in Req(c).mask /\ Refuse(c)))
    /\ UNCHANGED <<store, lock, rowlock, calls>>

\* The refusal reaches the caller.
Refused(c) ==
    /\ call[c].pc = "refused"
    /\ call' = [call EXCEPT ![c] = Idle]
    /\ UNCHANGED <<store, lock, rowlock, calls>>

-----------------------------------------------------------------------------
(* The transaction *)

\* Mutant: the lookup without the advisory lock.
LockNothing(c) ==
    /\ call[c].pc = "lock"
    /\ Goto(c, "lookup")
    /\ UNCHANGED <<store, lock, rowlock, calls>>

\* LockIdempotency waits for the transaction that holds the key.
LockIdempotency(c) ==
    /\ call[c].pc = "lock"
    /\ lock[Id(c)] = NoClient
    /\ lock' = [lock EXCEPT ![Id(c)] = c]
    /\ Goto(c, "lookup")
    /\ UNCHANGED <<store, rowlock, calls>>

\* A delete accepted when its hash still held the generation before it.
LegacyDelete(r, row) ==
    /\ r.kind = "delete"
    /\ ops[row.op].gen >= 2
    /\ row.hash = [r EXCEPT !.gen = ops[row.op].gen - 1]

\* Mutant: the early return on a conflict does not end the transaction.
LookupKeepsLock(c) ==
    /\ call[c].pc = "lookup"
    /\ IF idem[Id(c)] = NoRow
         THEN Goto(c, IF Req(c).kind = "create" THEN "write" ELSE "row") /\ UNCHANGED <<lock, rowlock>>
         ELSE IF idem[Id(c)].hash = Hash(Req(c)) \/ LegacyDelete(Req(c), idem[Id(c)])
           THEN Replay(c) /\ Unlock(c)
           ELSE call' = [call EXCEPT ![c] = Idle] /\ UNCHANGED <<lock, rowlock>>
    /\ UNCHANGED <<store, calls>>

\* GetIdempotency: a replay commits the transaction, a key used for another
\* payload is ErrIdempotencyConflict.
Lookup(c) ==
    LET row == GetIdempotency(c)
        same == row.hash = Hash(Req(c)) \/ LegacyDelete(Req(c), row) IN
    /\ call[c].pc = "lookup"
    /\ \/ /\ row = NoRow
          /\ Goto(c, IF Req(c).kind = "create" THEN "write" ELSE "row")
          /\ UNCHANGED <<lock, rowlock>>
       \/ row # NoRow /\ same /\ Replay(c) /\ Unlock(c)
       \/ row # NoRow /\ ~same /\ Fail(c)
    /\ UNCHANGED <<store, calls>>

\* validCommandState, and the desired_state test of Update
ValidCommandState(kind, desired) ==
    CASE kind = "start"   -> desired = "stopped"
      [] kind = "stop"    -> desired = "running"
      [] kind = "restart" -> desired \in {"running", "stopped"}
      [] kind = "update"  -> desired = "running"
      [] kind = "delete"  -> desired # "deleted"

\* The checks of Command and Update on the locked row.
Permitted(r, row) ==
    /\ row # NoService
    /\ ~row.deleted
    /\ r.kind # "delete" => row.gen = r.gen
    /\ ValidCommandState(r.kind, row.desired)

\* GetServiceForUpdate waits for the row and reads its latest version.
GetServiceForUpdate(c) ==
    LET r == Req(c) IN
    /\ call[c].pc = "row"
    /\ rowlock[r.svc] = NoClient
    /\ \/ /\ Permitted(r, svc[r.svc])
          /\ rowlock' = [rowlock EXCEPT ![r.svc] = c]
          /\ call' = [call EXCEPT ![c].pc = "write", ![c].seen = svc[r.svc].gen]
          /\ UNCHANGED lock
       \/ ~Permitted(r, svc[r.svc]) /\ Fail(c)
    /\ UNCHANGED <<store, calls>>

(* The statements of the transaction: what a row, or a table, becomes. *)

\* InsertService, then SetCurrentOperation
InsertService(r) == [gen |-> 1, desired |-> "running", deleted |-> FALSE, name |-> r.name]

\* The unique index on the names of services that are not deleted.
NameTaken(r) == \E s \in Services : svc[s] # NoService /\ ~svc[s].deleted /\ svc[s].name = r.name

\* InsertSpec
InsertSpec(r) == <<r.set>>

\* CloneSpecGeneration
CloneSpecGeneration(specs, g) == Append(specs, specs[g])

\* Mutant: the update lays its fields over the spec the service began with.
CloneFirstSpec(specs, g, set) ==
    Append(specs, [f \in Fields |-> IF set[f] = Absent THEN specs[1][f] ELSE set[f]])

\* CloneSpecWithRuntimeUpdate lays the fields of the update over the spec.
CloneSpecWithRuntimeUpdate(specs, g, set) ==
    Append(specs, [f \in Fields |-> IF set[f] = Absent THEN specs[g][f] ELSE set[f]])

\* CancelActiveOperation: only the operation the service points at.
CancelActiveOperation(s) ==
    [o \in DOMAIN ops |->
        IF ops[o].svc = s /\ ops[o].gen = svc[s].gen /\ Active(o)
        THEN [ops[o] EXCEPT !.phase = "failed"] ELSE ops[o]]

\* The unique index on active operations: ErrOperationActive.
OperationActive(operations, s) ==
    \E o \in DOMAIN operations :
        operations[o].svc = s /\ operations[o].phase \in {"pending", "running"}

\* TransitionService: no row unless the generation is still the one read.
Transitions(s, seen) == svc[s].gen = seen /\ ~svc[s].deleted

DesiredAfter(kind) ==
    CASE kind = "stop" -> "stopped" [] kind = "delete" -> "deleted" [] OTHER -> "running"

TransitionService(row, kind) == [row EXCEPT !.gen = @ + 1, !.desired = DesiredAfter(kind)]

\* InsertOperation
InsertOperation(operations, s, kind, gen) ==
    Append(operations, [svc |-> s, kind |-> kind, gen |-> gen, phase |-> "pending"])

\* Mutant: a restart without its placeholder.
ReserveAtStart(kind, o) ==
    quota' = IF kind \in {"create", "update", "start"} THEN quota \union {o} ELSE quota

\* InsertQuotaReservation, "pending-" and the id of the operation
InsertQuotaReservation(kind, o) ==
    quota' = IF kind \in {"create", "update", "start", "restart"} THEN quota \union {o} ELSE quota

\* UpsertResourceWork
UpsertResourceWork(s, gen) ==
    work' = [work EXCEPT ![s] = IF gen > @ + 1 THEN gen ELSE @ + 1]

\* PutIdempotency
PutIdempotency(c, o) == idem' = [idem EXCEPT ![Id(c)] = [hash |-> Hash(Req(c)), op |-> o]]

\* AppendAuditEvent
AppendAuditEvent(o) == audit' = audit \union {o}

\* What every acceptance writes besides the service and its spec, and the
\* commit that makes all of it visible at once.
Accept(c, operations, s, kind, gen) ==
    LET o == Len(operations) + 1 IN
    /\ ops' = InsertOperation(operations, s, kind, gen)
    /\ InsertQuotaReservation(kind, o)
    /\ UpsertResourceWork(s, gen)
    /\ PutIdempotency(c, o)
    /\ AppendAuditEvent(o)
    /\ call' = [call EXCEPT ![c].pc = "reply", ![c].op = o, ![c].phase = "pending"]
    /\ Unlock(c)

Roll(c) == Fail(c) /\ UNCHANGED store

\* The id of a new service was never used; which one it is does not matter.
NextId(s) == svc[s] = NoService /\ \A n \in 1 .. s - 1 : svc[n] # NoService

\* Repository.CreateService
CreateService(c) ==
    LET r == Hash(Req(c)) IN
    /\ call[c].pc = "write" /\ r.kind = "create"
    /\ \/ NameTaken(r) /\ Roll(c)
       \/ /\ ~NameTaken(r)
          /\ \E s \in Services :
                 /\ NextId(s)
                 /\ svc' = [svc EXCEPT ![s] = InsertService(r)]
                 /\ spec' = [spec EXCEPT ![s] = InsertSpec(r)]
                 /\ Accept(c, ops, s, "create", 1)
    /\ UNCHANGED calls

\* CommandUseCase.Command after the row is locked.
WriteCommand(c) ==
    LET r == Req(c)
        s == r.svc
        seen == call[c].seen
        rest == IF r.kind = "delete" THEN CancelActiveOperation(s) ELSE ops IN
    /\ call[c].pc = "write" /\ r.kind \in {"start", "stop", "restart", "delete"}
    /\ \/ (OperationActive(rest, s) \/ ~Transitions(s, seen)) /\ Roll(c)
       \/ /\ ~OperationActive(rest, s) /\ Transitions(s, seen)
          /\ svc' = [svc EXCEPT ![s] = TransitionService(@, r.kind)]
          /\ spec' = IF r.kind = "delete" THEN spec
                     ELSE [spec EXCEPT ![s] = CloneSpecGeneration(@, seen)]
          /\ Accept(c, rest, s, r.kind, seen + 1)
    /\ UNCHANGED calls

\* UpdateUseCase.Update after the row is locked.
WriteUpdate(c) ==
    LET r == Hash(Req(c))
        s == r.svc
        seen == call[c].seen IN
    /\ call[c].pc = "write" /\ r.kind = "update"
    /\ \/ (OperationActive(ops, s) \/ ~Transitions(s, seen)) /\ Roll(c)
       \/ /\ ~OperationActive(ops, s) /\ Transitions(s, seen)
          /\ svc' = [svc EXCEPT ![s] = TransitionService(@, "update")]
          /\ spec' = [spec EXCEPT ![s] = CloneSpecWithRuntimeUpdate(@, seen, r.set)]
          /\ Accept(c, ops, s, "update", seen + 1)
    /\ UNCHANGED calls

\* The answer reaches the caller.
Reply(c) ==
    /\ call[c].pc = "reply"
    /\ call' = [call EXCEPT ![c] = Idle]
    /\ UNCHANGED <<store, lock, rowlock, calls>>

\* The call is cut off: its deadline passes, the process or the connection
\* dies.  PostgreSQL rolls back a transaction that did not commit.
CutOff(c) ==
    /\ call[c] # Idle
    /\ Fail(c)
    /\ UNCHANGED <<store, calls>>

-----------------------------------------------------------------------------
(* The worker *)

\* AdvanceOperationStepCAS, from the first claim to the last step; finishing
\* a delete marks the service deleted, which waits for whoever has locked its row.
Work(o) ==
    LET s == ops[o].svc IN
    /\ Active(o)
    /\ \/ /\ ops[o].phase = "pending"
          /\ ops' = [ops EXCEPT ![o].phase = "running"]
          /\ UNCHANGED svc
       \/ /\ ops[o].phase = "running"
          /\ ops' = [ops EXCEPT ![o].phase = "succeeded"]
          /\ IF ops[o].kind = "delete"
               THEN rowlock[s] = NoClient /\ svc' = [svc EXCEPT ![s].deleted = TRUE]
               ELSE UNCHANGED svc
    /\ UNCHANGED <<spec, idem, work, quota, audit, lock, rowlock, call, calls>>

Step(c) ==
    \/ NamespaceCreate(c) \/ ImagePrepare(c) \/ ImageCreate(c) \/ ImageUpdate(c)
    \/ ModelCreate(c) \/ ModelUpdate(c) \/ Refused(c)
    \/ LockIdempotency(c) \/ Lookup(c) \/ GetServiceForUpdate(c)
    \/ CreateService(c) \/ WriteCommand(c) \/ WriteUpdate(c) \/ Reply(c)

Next ==
    \/ \E c \in Clients : Step(c) \/ CutOff(c) \/ \E r \in Requests : Send(c, r)
    \/ \E o \in DOMAIN ops : Work(o)

Spec == Init /\ [][Next]_vars

\* A call goes on until it returns: its goroutine runs, and PostgreSQL grants
\* a lock that becomes free to whoever waits for it.
FairSpec == Spec /\ \A c \in Clients : SF_vars(Step(c))

-----------------------------------------------------------------------------
(* Properties *)

\* What a request asks for: the generation a delete names does not matter.
Command(r) == IF r.kind = "delete" THEN [Hash(r) EXCEPT !.gen = 0] ELSE Hash(r)

Accepted(o, r) == [cmd |-> Command(r), svc |-> ops[o].svc, gen |-> ops[o].gen]

\* The store and the answers, as a caller may understand them.
AcceptedCommands ==
    [i \in Ids |-> IF idem[i] = NoRow THEN [gen |-> 0] ELSE Accepted(idem[i].op, idem[i].hash)]

Answer(c) ==
    LET a == Accepted(call[c].op, Req(c)) IN
    [id |-> Id(c), cmd |-> a.cmd, svc |-> a.svc, gen |-> a.gen]

Answers == [c \in Clients |-> IF call[c].pc = "reply" THEN Answer(c) ELSE [gen |-> 0]]

KindOf(command) == command.kind
Target(command) == command.svc

API == INSTANCE Acceptance WITH
    Callers <- Clients,
    Commands <- {Command(r) : r \in Requests},
    accepted <- AcceptedCommands,
    answer <- Answers

\* The transactions, locks, preflights and replays implement Acceptance: over
\* all interleavings of repeated, conflicting and cut off calls a request id is
\* accepted once, generations follow one another without a gap or a twin, a
\* delete is the last command of its service, and every answer, fresh or
\* replayed, names the operation of exactly the command that was sent.
ImplementsAcceptance == API!Spec

\* The newest accepted request up to generation g of s that selected field f.
Writer(s, g, f) ==
    LET writers == {o \in DOMAIN ops : /\ ops[o].svc = s /\ ops[o].gen <= g
                                       /\ \E i \in Ids : idem[i].op = o /\ f \in idem[i].hash.mask}
    IN  CHOOSE o \in writers : \A p \in writers : p <= o

\* No update is lost and none leaks: each field of the spec of each generation
\* is the value the newest accepted create or update that selected it carried
\* (GetSpec of the generation that was locked, CloneSpecWithRuntimeUpdate).
SpecIsLastWritten ==
    \A s \in Services : \A g \in DOMAIN spec[s] : \A f \in Fields :
        \E i \in Ids : /\ idem[i].op = Writer(s, g, f)
                       /\ spec[s][g][f] = idem[i].hash.set[f]

\* Whatever is cut off or races, an operation never exists in part: it has the
\* reservation its quota steps look for if and only if it will run anything,
\* its audit event, the one request id it can be found under, and a work row
\* that is not older than the generation it made current.
AcceptedIsWhole ==
    \A o \in DOMAIN ops :
        /\ o \in audit
        /\ o \in quota <=> ops[o].kind \notin {"stop", "delete"}
        /\ \E i \in Ids : idem[i].op = o /\ \A j \in Ids \ {i} : idem[j].op # o
        /\ work[ops[o].svc] >= svc[ops[o].svc].gen

\* No call waits forever: the advisory lock of a request id and the row lock
\* of a service are taken in this order everywhere and end with the
\* transaction, whichever way it ends.
EveryCallReturns ==
    \A c \in Clients : call[c] # Idle ~> call[c] = Idle

\* A call that repeats an accepted request is answered with its operation:
\* "CreatePreflight checks durable replay and closing before external Model
\* reads" (biz/inference/create.go).
RetryFindsOperation ==
    [][\A c \in Clients :
        call[c].pc # "refused" /\ call'[c].pc = "refused" => idem[Id(c)].hash # Hash(Req(c))]_vars

\* A replay does not claim "that a previously succeeded, failed, or retried
\* operation is still pending" (commandResponseFromRow).
ReplayShowsPhase ==
    [][\A c \in Clients :
        call[c].pc \in {"prepare", "image", "model", "lookup"} /\ call'[c].pc = "reply"
        => call'[c].phase = ops[call'[c].op].phase]_vars

=============================================================================
