---------------------------- MODULE ServiceReads ----------------------------
(***************************************************************************)
(* The reads of the control plane (read_usecase.go and the handlers of     *)
(* service/inference.go): Get and the two ways to list services and        *)
(* operations, page by page.  A reader issues one statement at a time      *)
(* under read committed, while commands and the worker write.              *)
(***************************************************************************)
EXTENDS Integers, Sequences, FiniteSets, SequencesExt

CONSTANTS
    Services,       \* ids, ordered like the uuids they stand for
    Initial,        \* the services that are there at first
    Tenants,
    Tenant,         \* of the reader
    TenantOf,       \* the tenant of each service
    Operations,     \* ids; the creation of s is operation s
    Times,          \* start times of transactions
    Capabilities,   \* of the model a spec names
    PageSizes,
    MaxWrites       \* bound: writes while the reader reads

VARIABLES
    svc,     \* inference_services, with the observed phase of inference_runtime
    specs,   \* inference_specs: the capability by generation, for each service
    ops,     \* inference_operations
    writes,  \* writes since the reader began
    read,    \* the reader
    steady   \* history: the rows that were there ever since the reader began

vars == <<svc, specs, ops, writes, read, steady>>

Absent == [deleted |-> TRUE]

NoRead == [pc |-> "idle"]

Init ==
    /\ \E t \in [Initial -> Times], c \in [Initial -> Capabilities] :
           /\ svc = [s \in Services |->
                         IF s \in Initial
                         THEN [deleted |-> FALSE, created |-> t[s], state |-> "running",
                               gen |-> 1, phase |-> "pending"]
                         ELSE Absent]
           /\ specs = [s \in Services |-> IF s \in Initial THEN <<c[s]>> ELSE <<>>]
           /\ ops = {[id |-> s, service |-> s, created |-> t[s]] : s \in Initial}
    /\ writes = 0
    /\ read = NoRead
    /\ steady = {}

-----------------------------------------------------------------------------
(* The statements *)

\* inference_services of a tenant that are not deleted
Live(t) == {s \in Services : TenantOf[s] = t /\ ~svc[s].deleted}

\* The spec a list shows: the desired generation, or the newest older one of a
\* service that is being deleted; 0 is none.
ListedSpec(s) ==
    LET G == {g \in DOMAIN specs[s] :
                  g = svc[s].gen \/ (svc[s].state = "deleted" /\ g < svc[s].gen)} IN
    IF G = {} THEN 0 ELSE CHOOSE g \in G : \A h \in G : h <= g

\* The filters of CountServices and ListServicesPage.
Matches(s, status, capability) ==
    /\ status = "" \/ (svc[s].state = "running" /\ svc[s].phase = "ready")
    /\ capability = "" \/ (ListedSpec(s) # 0 /\ specs[s][ListedSpec(s)] = capability)

\* Rows are ordered by created_at and id, newest first.
Older(r, q) == r.created < q.created \/ (r.created = q.created /\ r.id < q.id)

NewestFirst(rows) == SetToSortSeq(rows, LAMBDA r, q : Older(q, r))

\* LIMIT and OFFSET
Slice(rows, offset, limit) ==
    SubSeq(rows, offset + 1, IF offset + limit < Len(rows) THEN offset + limit ELSE Len(rows))

Key(s) == [created |-> svc[s].created, id |-> s]
OpKey(o) == [created |-> o.created, id |-> o.id]

CountServices(t, status, capability) ==
    Cardinality({s \in Live(t) : Matches(s, status, capability)})

ListServicesPage(t, status, capability, offset, limit) ==
    LET all == NewestFirst({Key(s) : s \in {x \in Live(t) : Matches(x, status, capability)}}) IN
    Slice(all, offset, limit)

OperationsOf(t, s) ==
    {OpKey(o) : o \in {x \in ops : TenantOf[x.service] = t /\ s \in {0, x.service}}}

CountOperations(t, s) == Cardinality(OperationsOf(t, s))

ListOperationsPage(t, s, offset, limit) ==
    Slice(NewestFirst(OperationsOf(t, s)), offset, limit)

\* The empty token.
Start == [tenant |-> "", created |-> 0, id |-> 0]

\* Mutant: the cursor compares the time alone.
SeekByTime(rows, cursor, limit) ==
    Slice(NewestFirst({r \in rows : cursor = Start \/ r.created < cursor.created}), 0, limit)

\* ORDER BY ... LIMIT after the cursor, a row comparison
Seek(rows, cursor, limit) ==
    Slice(NewestFirst({r \in rows : cursor = Start \/ Older(r, cursor)}), 0, limit)

ListServices(t, cursor, limit) == Seek({Key(s) : s \in Live(t)}, cursor, limit)

ListOperations(t, s, cursor, limit) == Seek(OperationsOf(t, s), cursor, limit)

-----------------------------------------------------------------------------
(* The writers *)

\* Writes after the last answer change no answer and are left out.
Write ==
    /\ writes < MaxWrites /\ read.pc \notin {"done", "notfound", "refused"}
    /\ writes' = writes + 1

\* CreateService: created_at is when the transaction began.
Create(s, t, c) ==
    /\ Write
    /\ svc[s] = Absent
    /\ svc' = [svc EXCEPT ![s] = [deleted |-> FALSE, created |-> t, state |-> "running",
                                  gen |-> 1, phase |-> "pending"]]
    /\ specs' = [specs EXCEPT ![s] = <<c>>]
    /\ ops' = ops \cup {[id |-> s, service |-> s, created |-> t]}
    /\ UNCHANGED <<read, steady>>

\* A command on a service: every kind but delete writes the next spec.
Command(s, state, c, o, t) ==
    /\ Write
    /\ ~svc[s].deleted /\ svc[s].state # "deleted"
    /\ o \notin Services \cup {x.id : x \in ops}
    /\ svc' = [svc EXCEPT ![s].state = state, ![s].gen = @ + 1]
    /\ specs' = IF state = "deleted" THEN specs ELSE [specs EXCEPT ![s] = Append(@, c)]
    /\ ops' = ops \cup {[id |-> o, service |-> s, created |-> t]}
    /\ UNCHANGED <<read, steady>>

\* UpdateObservationForWork
Observe(s, phase) ==
    /\ Write
    /\ ~svc[s].deleted /\ svc[s].phase # phase
    /\ svc' = [svc EXCEPT ![s].phase = phase]
    /\ UNCHANGED <<specs, ops, read, steady>>

\* MarkServiceDeleted
MarkDeleted(s) ==
    /\ Write
    /\ ~svc[s].deleted /\ svc[s].state = "deleted"
    /\ svc' = [svc EXCEPT ![s].deleted = TRUE]
    /\ steady' = steady \ {<<"services", s>>}
    /\ UNCHANGED <<specs, ops, read>>

-----------------------------------------------------------------------------
(* The readers *)

Rest == UNCHANGED <<svc, specs, ops, writes>>

\* ListServices and ListOperations, keyset paging: the caller follows the token
\* of each answer.
BeginWalk(over, t, s, size) ==
    /\ read = NoRead
    /\ read' = [pc |-> "list", kind |-> "walk", over |-> over, tenant |-> t, service |-> s,
                size |-> size, token |-> Start, items |-> <<>>]
    /\ steady' = IF over = "services" THEN {<<"services", x>> : x \in Live(t)}
                 ELSE {<<"operations", k.id>> : k \in OperationsOf(t, s)}
    /\ Rest

EncodeListToken(t, row) == [tenant |-> t, created |-> row.created, id |-> row.id]

\* The token of another tenant fails its signature.
DecodeListToken(token, t) == token.tenant \in {"", t}

\* One row more than the page holds tells whether there is a next page.
Follow(rows) ==
    LET more == Len(rows) > read.size
        page == IF more THEN SubSeq(rows, 1, read.size) ELSE rows IN
    /\ DecodeListToken(read.token, read.tenant)
    /\ read' = [read EXCEPT !.items = @ \o page,
                            !.pc = IF more THEN "list" ELSE "done",
                            !.token = IF more THEN EncodeListToken(read.tenant, Last(page))
                                      ELSE Start]
    /\ UNCHANGED steady /\ Rest

\* ListServices of the read use case, one call
WalkServices ==
    /\ read.pc = "list" /\ read.over = "services"
    /\ Follow(ListServices(read.tenant, read.token, read.size + 1))

\* ListOperations of the read use case, one call
WalkOperations ==
    /\ read.pc = "list" /\ read.over = "operations"
    /\ Follow(ListOperations(read.tenant, read.service, read.token, read.size + 1))

\* ErrInvalidPageToken
RefuseToken(t) ==
    /\ read.pc = "list"
    /\ ~DecodeListToken(read.token, t)
    /\ read' = [read EXCEPT !.pc = "refused", !.tenant = t]
    /\ UNCHANGED steady /\ Rest

\* ListInferenceServices and ListOperations of the gRPC service: the caller asks
\* for page 1, 2, ... until the pages hold as many rows as the last total says.
BeginPages(over, t, s, status, capability, size) ==
    /\ read = NoRead
    /\ read' = [pc |-> "count", kind |-> "pages", over |-> over, tenant |-> t, service |-> s,
                status |-> status, capability |-> capability, size |-> size, page |-> 1,
                total |-> 0, items |-> <<>>, since |-> writes]
    /\ UNCHANGED steady /\ Rest

\* listPage
Offset(page, size) == (page - 1) * size

\* The handlers of the gRPC service.
ListInferenceServices(t, status, capability, size) ==
    BeginPages("services", t, 0, status, capability, size)

ListInferenceOperations(t, s, size) == BeginPages("operations", t, s, "", "", size)

\* readTx and the first statement in it.
Count ==
    /\ read.pc = "count"
    /\ read' = [read EXCEPT !.pc = "page",
                    !.total = IF read.over = "services"
                              THEN CountServices(read.tenant, read.status, read.capability)
                              ELSE CountOperations(read.tenant, read.service)]
    /\ UNCHANGED steady /\ Rest

\* The second: under read committed it sees what was committed since.
Turn(rows) ==
    /\ read' = [read EXCEPT !.items = @ \o rows, !.page = @ + 1,
                   !.pc = IF read.page * read.size < read.total THEN "count" ELSE "done"]
    /\ UNCHANGED steady /\ Rest

\* ListServicesPage of the read use case
PageServices ==
    /\ read.pc = "page" /\ read.over = "services"
    /\ Turn(ListServicesPage(read.tenant, read.status, read.capability,
                             Offset(read.page, read.size), read.size))

\* ListOperationsPage of the read use case
PageOperations ==
    /\ read.pc = "page" /\ read.over = "operations"
    /\ Turn(ListOperationsPage(read.tenant, read.service, Offset(read.page, read.size), read.size))

\* The first statement of GetService, NoRow if there is none
NoRow == [gen |-> 0]
GetService(t, s) == IF s \in Live(t) THEN svc[s] ELSE NoRow

\* GetInferenceService and the first statement of the read use case
BeginGet(t, s) ==
    /\ read = NoRead
    /\ read' = IF GetService(t, s) # NoRow
               THEN [pc |-> "spec", kind |-> "get", id |-> s, gen |-> svc[s].gen,
                     state |-> svc[s].state, spec |-> 0, phase |-> ""]
               ELSE [pc |-> "notfound", kind |-> "get"]
    /\ UNCHANGED steady /\ Rest

\* 0: pgx.ErrNoRows, which GetService tolerates
GetSpec(s, gen) == IF gen \in DOMAIN specs[s] THEN gen ELSE 0

ReadSpec ==
    /\ read.pc = "spec"
    /\ read' = [read EXCEPT !.pc = "runtime", !.spec = GetSpec(read.id, read.gen)]
    /\ UNCHANGED steady /\ Rest

\* GetRuntime
ReadRuntime ==
    /\ read.pc = "runtime"
    /\ read' = [read EXCEPT !.pc = "done", !.phase = svc[read.id].phase]
    /\ UNCHANGED steady /\ Rest

\* The statement of GetOperation
GetOperationProjection(t, o) == {x \in ops : x.id = o /\ TenantOf[x.service] = t}

\* GetOperation
GetOperation(t, o) ==
    /\ read = NoRead
    /\ read' = [pc |-> IF GetOperationProjection(t, o) # {} THEN "done" ELSE "notfound",
                kind |-> "operation", id |-> o]
    /\ UNCHANGED steady /\ Rest

Begin(t) ==
    \/ \E size \in PageSizes :
           \/ BeginWalk("services", t, 0, size)
           \/ \E s \in {0} \cup Services : BeginWalk("operations", t, s, size)
           \/ \E status \in {"", "running"}, capability \in {""} \cup Capabilities :
                  ListInferenceServices(t, status, capability, size)
           \/ \E s \in {0} \cup Services : ListInferenceOperations(t, s, size)
    \/ \E s \in Services : BeginGet(t, s)
    \/ \E o \in Operations : GetOperation(t, o)

Read == WalkServices \/ WalkOperations \/ Count \/ PageServices \/ PageOperations
        \/ ReadSpec \/ ReadRuntime

Next ==
    \/ \E s \in Services, t \in Times, c \in Capabilities : Create(s, t, c)
    \/ \E s \in Services, state \in {"running", "stopped", "deleted"},
         c \in Capabilities, o \in Operations, t \in Times : Command(s, state, c, o, t)
    \/ \E s \in Services : MarkDeleted(s)
    \/ \E s \in Services, phase \in {"pending", "ready"} : Observe(s, phase)
    \/ Begin(Tenant) \/ Read
    \/ \E t \in Tenants : RefuseToken(t)

Spec == Init /\ [][Next]_vars

-----------------------------------------------------------------------------
(* Properties *)

Ids(items) == {items[i].id : i \in DOMAIN items}

\* A walk with tokens misses nothing that was there from its first call to its
\* last, whatever is created or deleted meanwhile, and shows no row twice, even
\* where rows share a creation time and a page ends between them.  Numbered
\* pages that no write disturbed hold exactly the rows the filters select, each
\* once, newest first, and the total counts them: the count and the page filter
\* alike, also for a service that is being deleted.  Get reads the service, its
\* spec and its runtime in three statements: the spec it shows is the one of the
\* generation it shows, whatever is commanded in between, and it is missing only
\* from a service that is being deleted.
ReadsAreWhole ==
    /\ read.pc = "done" /\ read.kind = "walk" =>
           /\ IsInjective(read.items)
           /\ \A r \in steady : r[2] \in Ids(read.items)
           /\ read.over = "services" =>
                  \A i \in Ids(read.items) : TenantOf[i] = read.tenant
    /\ read.pc = "done" /\ read.kind = "pages" /\ read.since = writes =>
           /\ read.total = Len(read.items)
           /\ read.items = NewestFirst(
                  IF read.over = "operations" THEN OperationsOf(read.tenant, read.service)
                  ELSE {Key(s) : s \in {x \in Live(read.tenant) :
                                           Matches(x, read.status, read.capability)}})
    /\ read.pc \in {"runtime", "done"} /\ read.kind = "get" =>
           read.spec = IF read.state = "deleted" THEN 0 ELSE read.gen

\* "readTx opens the stable snapshot required for count and page data": the total
\* of an answer is never smaller than the rows of that answer.
TotalCoversPage ==
    read.pc = "done" /\ read.kind = "pages" /\ read.page = 2 =>
        Len(read.items) <= read.total

=============================================================================
