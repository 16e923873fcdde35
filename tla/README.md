# Verification of ani-inference-service

TLA+ models of the control plane that creates, runs, publishes and deletes
inference services, model-checked with TLC and, where noted, proved with TLAPS.
`PROJECT.json` holds the machine-readable index: which definition models which
lines, what each run checks, the hazards and the findings.

## The system

A Kratos process accepts gRPC commands and stores them in PostgreSQL; one
background loop in the same process carries them out against Kubernetes and a
few other services. PostgreSQL is the only authority. Nothing that was accepted
lives in memory only.

| Part | State | Operations | Talks to |
| --- | --- | --- | --- |
| Commands (`create_usecase.go`, `update_usecase.go`, `command_usecase.go`, `repository.go`) | service row: generation, desired state, current operation; idempotency records | create, update, start, stop, restart, delete: reads of other services, then one transaction | journal, work queue, quota placeholder; namespace, image catalogue, model registry |
| Work queue (`biz/work`, `work_store.go`, `work.sql`) | one row per service: dirty and acknowledged version, next run, lease | notify, claim, commit, retry, repair, scan | worker, controller |
| Operation journal (`operation_store.go`, `inference.sql`) | operations with phase, step, attempt; audit events | compare-and-set advance, retry, fail | runner |
| Runner (`biz/inference/runner.go`) | the operation it loaded | one step of an operation per claim | everything below |
| Reconciler (`biz/reconcile`, `reconcile_store.go`) | runtime row: observed generation, phase | Ensure and save the observation, between operations | executors |
| Executors and router (`kserve.go`, `executor.go`, `runtime_router.go`) | Kubernetes objects; binding rows with UID and resourceVersion | apply, observe, delete, observe absence | API server, bindings |
| Route publisher (`http_route_publisher.go`, `higress_rate_limit.go`) | HTTPRoute, ReferenceGrant, one WasmPlugin shared by all services | publish, withdraw, confirm | API server |
| Materializer (`data/model/materializer.go`, `download_bundle.py`) | per generation: volume claim, Secret, Job, pod | ensure, reset, clean up | API server, model service |
| Quota | reservation rows; reservations of the quota service | get, reserve, confirm, release | quota service |
| Access keys and policies (`biz/accesskey`, `biz/accesspolicy`) | keys, policies, bindings, rate buckets | create, rotate, revoke, save, delete, bind, check | gateway |
| Managed compute (`managed_gpu.go`, `managed_close.go`, `managed_gpu_release.go`) | managed resources and commands, close leases, release scopes and reports | intake of CREATE and DELETE, close, seal, report release | governance service |
| Controller and status projection (`controller.go`, `status_projector.go`), in every replica | the status of the custom resource | notify, copy the durable state into the status | work queue, API server |
| Loop and manager servers (`internal/server`) | readiness, contexts of the goroutines | start, gate, stop | the application, the loop |
| Reads (`read_usecase.go`) | none; signed page tokens with the caller | get, list by page or by token | PostgreSQL |
| Diagnostics (`diagnostics.go`, `probe.go`) | a cache of probe answers | instances, logs, events, probe | API server, the runtime |
| Renderers, validation, clients, wiring | none | pure construction, single calls | |

What makes it hard: a lease is never renewed and may be outlived by the step it
was taken for; a delete overtakes a running operation; a caller repeats a
request whose first call is still running, or whose answer was lost; the process
may stop between an effect in Kubernetes and the row that records it; answers of
the quota service get lost; status writes change the resourceVersion under every
call; many services update one WasmPlugin; a download fails half way; a key is
rotated while a check that read it is still going on; replicas project the same
status; names in Kubernetes are reused while a request follows them.

The documents promise a single active runtime process
(`src/docs/specs/inference-service.md:143`). The queue and the journal are
modelled with several workers, because their fences are meant to survive an
overlap; everything that a worker writes to Kubernetes is modelled with one. Controllers
run in every replica, without leader election, and are modelled so.

## Modules

| Module | Models | Read next to |
| --- | --- | --- |
| `WorkQueue` | rows, leases, workers; one action per SQL statement | `work.sql`, `work_store.go`, `worker.go`, `loop.go` |
| `OperationSteps` | the step graph of the six kinds of operations | `biz/inference/operation.go` |
| `OperationJournal` | what PostgreSQL promises about operations: the abstract specification | `operation_store.go`, `command_usecase.go`, `inference.sql` |
| `OperationAudit` | the journal with attempts and audit event ids | `operation_store.go:640`, `runner.go` |
| `Lifecycle` | one service end to end; `runStep` call by call; implements `OperationJournal` | `runner.go`, `reconcile.go` and the adapters it calls |
| `RuntimeObjects` | the executors request by request, with UIDs, resourceVersions and bindings | `kserve.go`, `executor.go`, `runtime_binding.go`, `reconcile_store.go` |
| `RoutePublisher` | publish, withdraw and confirm of several publications that share the plugin | `http_route_publisher.go`, `higress_rate_limit.go` |
| `Materializer` | model files of one service over its generations | `materializer.go`, `download_bundle.py` |
| `ManagedCompute` | CREATE and DELETE of a managed service in any order, objects and their bindings, recorded pods, seal, close and release report | `managed_gpu.go`, `managed_close.go`, `managed_gpu_release.go`, `runner.go`, `kserve.go`, `executor.go` |
| `AccessKeys` | keys, policies and concurrent checks with rate buckets | `access_key.go`, `access_policy.go`, `service_policy.go`, `access_key.sql` |
| `Acceptance` | what the command API promises its callers: the abstract specification | `docs/specs/inference-service.md` |
| `CommandIntake` | concurrent, repeated and cut off calls of every command; implements `Acceptance` | `service/inference.go`, `create_usecase.go`, `update_usecase.go`, `command_usecase.go`, `repository.go` |
| `StatusProjection` | controllers of several replicas and the status they write | `controller.go`, `status_projector.go`, `status_projection.go` |
| `ServerLifecycle` | start, readiness gate, recovery and stop of the process | `internal/server/worker.go`, `manager.go`, `readiness.go`, `loop.go` |
| `ServiceReads` | get and lists, statement by statement, while others write | `read_usecase.go`, `service/inference.go` |
| `Diagnostics` | instances, logs and events while pods and owners are replaced | `data/kubernetes/diagnostics.go` |
| `ProbeCache` | concurrent probes that share a bounded cache | `biz/diagnostics/probe.go` |

`MC*` modules add model values, symmetry sets and function-valued constants.
`Records`, `MCRecords` and `MCProcess` put components that share no state side by
side: a variable `part`, fixed in the initial state, says which one moves. The
parts in `Records` are those with proofs.
`*Proofs` modules hold the theorems.

**How they fit.** `Lifecycle` extends `OperationJournal` and declares the
journal's variables as its own; the property `JournalSpec` states that every
step of the end-to-end model is a step of the journal or leaves it alone, so
what is proved of the journal holds of the whole. `RuntimeObjects`,
`RoutePublisher` and `Materializer` refine, each on its own, what `Lifecycle`
treats as one effect per call: a runtime that appears, becomes ready and
vanishes; a route that is there or not; a download that arrives, fails or is
cleaned. `ManagedCompute` follows a managed service over the step graph of
`OperationSteps` and keeps the steps that touch compute or the control object,
with the binding recorded after its object is applied. `CommandIntake` is what
comes before the journal: its transactions write the operations that
`Lifecycle` begins with, and the property `ImplementsAcceptance` states that,
with the committed rows and the answers as a caller understands them, each of
its steps is a step of `Acceptance` or is not visible. `StatusProjection` reads what the worker
records and ends where `WorkQueue` begins, at the notification.

**Correspondence.** An action is one transaction, one request to the API
server, or one call of another service. A multi-call handler is a program
counter (`pc`) and what it has read so far; between two of its actions
commands, the clock, Kubernetes, other callers and failures interleave. Names follow the
source: `CurrentForWork`, `SaveObservation`, `UpsertAllowed` (the WHERE clause
of `UpsertRuntimeBindingCAS`), `Claimable` (that of `ListDueResourceWork`).
Time is reduced to "due" and "later" and to leases that are live or not; UIDs
and versions are numbers that only grow and are only compared for equality.

**Simplifications.**
- `Lifecycle`: the admission and GPU plan are calls that succeed or fail; a
  gateway that does not accept a route is a failing step; objects removed
  behind the service's back are left to `RuntimeObjects` and `Materializer`;
  the ReferenceGrant and the rate limit are part of the route; a row's retry
  comes due only after the step's `retry_at`. The run has `Runner.Quota`
  configured, `Lifecycle_unbound` does not, as the production wiring leaves it
  (`main.go:322`).
- `RuntimeObjects`: an object is read together with the readiness behind it; a
  foreign object belongs to another field owner, so that server-side apply
  conflicts; pull secrets, the read-only fallback and the pods of a managed GPU
  are left out. An update keeps the provider (`update_usecase.go`), so a
  service keeps its kind. A legacy service starts with its objects, bound as
  last observed, because the API creates no new ones.
- `Materializer`: deletions end (the garbage collector is external). A release
  with another image or script keeps the Job of the old one by design.
- `RoutePublisher`: limits are not told apart by value. `ConfirmPublished` only
  reads and is a step of `Lifecycle`.
- `ManagedCompute`: one process, as promised, so the read, merge and write of a
  release scope is one action; the runtime is an `InferenceService` of KServe, as
  all new services have, and a binding either names the object that is there or
  counts as none (`bound`); a pod in a terminal phase holds nothing and
  counts as ended; digests and snapshots are values that are compared. The
  close state `unknown_execution` is there but not reached, because no code
  removes a service row.
- `AccessKeys`: a secret is its identity; hashing and sealing are not modelled.
  A key may be left from before secrets were archived.
- `CommandIntake`: one tenant and user, with several connections, without
  managed GPUs. The advisory lock of the resource that an update takes right before
  the service row (`update_usecase.go:124`) is left out: whoever takes both takes it
  first, so that it adds no order of locks. A spec has
  two fields, a model and an engine; requests that are turned down as malformed
  change nothing and are left out. Each read of another service answers or fails.
- `StatusProjection`: a durable state is its version and the phases that are
  projected. The times in a status are not modelled: PostgreSQL keeps
  microseconds and the object seconds, so that `equalStatus` may find a
  difference on every pass, and the patch it then sends is empty.
- `ServerLifecycle`: the application (Kratos) and the manager
  (controller-runtime) are external, as far as the code here relies on them.
- `ServiceReads`: a row keeps what the filters, the order and the tenancy look
  at. Page tokens are genuine; their signature is not modelled.
- `Diagnostics`: a log line is its time and counts for one byte; what the API
  server streams, the last `TailLines` lines since a whole second and the later
  ones for a follower, is external. The 32 streams, the five minutes and the end
  of the window of a follower end a request as a failed read does. One request at
  a time, while objects are replaced and the binding is recorded anew.
- `ProbeCache`: the time of an answer is that of its store, from which the code
  counts its minute. The `ObservedAt` shown to the caller was stamped by the probe
  before it read the body, and may be older by the rest of the probe.

## Runs

Sizes are distinct states.

| Run | Size | Checks |
| --- | --- | --- |
| `WorkQueue` | 199,666 | no two workers pass the fence of one service; an acknowledged version was covered by an execution that claimed it; every notification is served |
| `Records` | 3,449,410 | an operation that succeeded entered every step of its path, and no move is swallowed by a repeated audit event id; a list followed to its end is complete and a service is shown with the spec of its generation; diagnostics show nothing that does not descend from the recorded object, and of a log the lines of the window among its last ones, cut short only when the answer says so; probes and cache entries are bounded and a cached answer is served for its minute only; a status never goes back to an older state nor shows that of another object |
| `Lifecycle` | 453,303 | traffic is routed only to a runtime that exists; a settled service is as desired and a deleted one leaves nothing; a runtime holds confirmed quota, and not more than one generation's; publishing follows readiness; the journal is implemented; operations end |
| `RuntimeObjects` | 1,736,136 | a stopped or deleted service leaves no object of its own and an update runs a new one; readiness is recorded of the generation it was observed of; deletions of LLMInferenceServices and legacy objects hit only the recorded UID; operations on the runtime end, lost readiness is recorded |
| `RoutePublisher` | 135,968 | a route has its rate limit and grant; a confirmed withdrawal leaves nothing; keys in use stay and the limits are never emptied; withdrawals end |
| `Materializer` | 796,860 | ready means the verified files are on the claim; a cleanup leaves nothing; the model arrives, cleanups end |
| `ManagedCompute` | 276,378 | Governance hears of a release only when runtime and pods are gone for good; what it hears was saved before, with the evidence of every recorded pod; every accepted DELETE settles, except of an object left without a binding |
| `AccessKeys` | 1,932,210 | the sealed secret is the current one; a bucket counts exactly the granted requests of its window, within the limit in force; a grant was right at one moment of the check, and a revocation is final |
| `CommandIntake` | 328,438 | a spec is the one before with the fields of its update; an accepted command has all its rows; a request id is accepted once, histories have no gaps and answers are true (`Acceptance`); every call returns |
| `Process` | 298,979 | a status catches up with the durable state; the loop works only on a synced cache and ends before `Stop` returns, and a process told to stop ends |

### Where code and documents disagree

Two runs end in a violation.

- `Lifecycle_unbound`. Accepted work should survive a restart
  (`src/docs/specs/inference-service.md:203`). A process that stops between the
  apply of the custom resource, or of the runtime object, and its binding leaves
  an object that every later attempt refuses, so the operation never ends.
- `CommandIntake_retry`. A command whose answer was lost is found again with the
  same key (`src/docs/specs/inference-service.md:113`), and a comment says that
  the replay is checked before external reads
  (`src/internal/biz/inference/create.go:58`). `PrepareCreate` does so only for
  managed services; an ordinary create reads namespace, image and model again
  first and is refused while one of them does not answer.

Further configurations state what a document or comment says, or what one
would expect, and end in a violation too. They are kept to be run by hand
(`tlc -config <name>.cfg <module>`):

| Configuration (module) | Property | What happens |
| --- | --- | --- |
| `Lifecycle_placeholder` (`MCLifecycle`) | `CancelledPlaceholderIsLocal` | A comment says that a pending placeholder has no remote reservation. A delete that takes the lease after `Reserve` answered and before the answer is stored cancels the placeholder only; the remote reservation stays. |
| `Lifecycle_previous` (`MCLifecycle`) | `DeletedHoldsNoQuota` | A delete that overtakes an update before `release_previous_quota` looks at the newest reservation only and completes with the earlier one confirmed. |
| `RuntimeObjects_namesake` (`RuntimeObjects`) | `DeletesOnlyBound` | `deleteKServe` reads the object a second time after it removed an annotation and deletes what it finds then. |
| `RuntimeObjects_legacyremoval` (`RuntimeObjects`) | `LegacyOperationsEnd` | The Deployment adapter is kept to remove legacy generations. Their absence is reported with the generation of the bindings, which the store refuses under the generation of the removal. |
| `RuntimeObjects_legacyhealth` (`RuntimeObjects`) | `LegacyDegradationSeen` | It is also kept to observe them. After the first status write Ensure refuses to apply, and so never observes. |
| `AccessKeys_rotate` (`MCAccessKeys`) | `RotatedOnce` | A key remembers its last idempotency key only; a late retry of an earlier rotation rotates again. |
| `Records_total` (`MCRecords`) | `TotalCoversPage` | A comment (`read_usecase.go:403`) says that `readTx` opens a stable snapshot. The transaction is read committed, so that a page may hold more rows than the total counted before it. |
| `CommandIntake_replay` (`MCCommandIntake`) | `ReplayShowsPhase` | A comment says that a replay does not claim a finished operation is pending. That of a create or an update answers "pending". |

`Lifecycle_faults` (`MCLifecycle`) passes: the properties of `Lifecycle` with two
faults and without notifications.

Met while reading, without a run: a release with another download image or
script refuses the Job of the one before for good (`Outdated` in
`Materializer`); a `Stop` that comes before its `Start` leaves that `Start`
without anyone to cancel it (`early` in `ServerLifecycle`).

### Bounds, and why they are enough

- Operations and generations: 4 in `Lifecycle`, `ManagedCompute` and
  `RuntimeObjects` (create, replace or stop, start or replace, and a delete that
  overtakes any of them), which has the reservations of the current and of the
  previous generation next to a placeholder; 2 in the journal of `Records`, an
  operation and one that replaces or overtakes it, as every statement concerns
  the newest operation and the one before.
- Faults: 2, so that a recovery can fail too; 1 in `Lifecycle`, with 2 in
  `Lifecycle_faults`. A fault is a failed call, a crash, or a lease lost early;
  it may fall between any two actions.
- Workers: 2 in the queue and the journal, enough for an old holder that
  outlives its lease and a new one; 3 tokens. Rows of different services share
  nothing but the order of claims (by `next_run_at`), so the queue has one
  service and says nothing about one service delaying another; its version goes
  to 3, which is a notification before, during and after an execution. The
  proofs cover any number of services, workers and tokens.
- Publications: 2 of one model, which share its limit key, next to a key that
  belongs to no publication; 2 retries, edits by others and calls cut short.
- Materializer: 2 generations, 2 claims in all, one of which may be lost, and
  one release with another image.
- Managed compute: one CREATE and two DELETE ids, two payloads (the right one
  and a conflicting one), two pods, CPU and GPU.
- Access: one key and policy with two concurrent checks, two windows and up to
  three secrets.
- Someone else's writes in `RuntimeObjects`: 2, a deletion and a namesake; all
  three kinds of runtimes.
- Commands: 2 callers at a time, 4 calls, 2 services and 12 requests, among
  them the same create written out in full, another create of the same name,
  the same update with a field it does not select, and one request id used for
  two commands. A call that races another needs 2 callers; a replay, a conflict and
  a delete after that race need the other calls.
- Reads: 3 services of the tenant, two there at first and one created while the
  reader walks, and one created by another tenant; pages of one row, so that every row is a page boundary;
  equal creation times; 2 writes during a walk.
- Diagnostics: two pods, a replica set and a deployment, with two replacements; a
  log of four lines, two of them at one time, and one more while it is followed;
  tails shorter and longer than the log, windows open and closed on either side,
  one that begins within a second, and a limit of three bytes, which a whole log
  exceeds and a tail does not.
  Probes: 3 calls and scopes against 2 probes at a time and a capacity of 1.
- Status: 2 replicas, 2 durable writes, 2 objects, one foreign edit and 2 tries
  of a patch.

Deadlock is not checked where a service may end up deleted, or a bound used up,
with nothing left to do; `AccessKeys` checks it. Of `CommandIntake`, whose calls
wait for locks, `EveryCallReturns` says more.

### Fairness

Weak fairness, unless noted, on what the code or Kubernetes repeats by itself:
the steps of a process that has claimed an item; `Claim` and `Repair`, which
`Loop.Run` calls on every tick and at start, and with them the managed closes;
the passing of a retry or lease time; the end of a deletion with its pods, of a
download that does not fail, of a pod's start; in `ServerLifecycle`, goroutines
that can run. Commands, notifications, failures and other writers have none.

Strong fairness on the steps of a call in `CommandIntake`, because PostgreSQL
grants a lock that becomes free to those who wait, and on the requests of a
projection, because its conflicts come from writers that rest and the queue of
the controller retries it.

A liveness property names what it does not promise. `OperationsEnd` excepts an
object that was applied and never bound (`Orphaned`, the window of
`Lifecycle_unbound`), and in `RuntimeObjects` it assumes that pods become ready
again and again while an operation waits for them. `EveryDeleteSettles` excepts
the same object of a managed service: its DELETE is retried, and Governance is not
told, until someone removes the object. `ModelArrives` excepts an
outdated Job and a claim deleted by hand. `Exhausted` in `Materializer` is the
bound on UIDs.

## Proofs

Eight modules, checked by TLAPS from the named assumptions on the constants
(bounds are natural numbers and limits positive where the code says so, the
null values are no members of the sets they stand beside, every publication has
a model, there is one process in `Lifecycle`, requests have the shape that the
handlers let pass); the sets and bounds are otherwise arbitrary. `TypeOK` of the
queue, the publisher and the materializer, `JournalTypeOK`, `ActiveIsCurrent`,
`AlwaysScheduled`, `ObservationCurrent`, `DeletedByDelete`,
`DesiredFollowsOperation`, `TerminalStable` and the three properties of
`Acceptance` are proved and not repeated in the runs.

| Module | Proves | Inductive invariant |
| --- | --- | --- |
| `WorkQueueProofs` | type correctness, lease exclusion, no lost wake-up, permanent scheduling, current observations | `IInv` |
| `OperationJournalProofs` | type correctness and the four journal properties | `JInv` |
| `LifecycleProofs` | `JournalSpec`, `RouteHasRuntime`, `Settled`, `QuotaExclusive`, `PublishedWhenReady` | `LInv` |
| `RecordsProofs` | `SucceededRanEveryStep`, `EveryMoveAudited`, `ProbesBounded`, `StatusMovesForward` | `AInv`, `CacheInv`, `SInv` |
| `CommandIntakeProofs` | `ImplementsAcceptance`, `AcceptedIsWhole`, `SpecIsLastWritten`, the properties of `Acceptance` | `CInv`, `AInv` |
| `RoutePublisherProofs` | type correctness, `RouteLimited`, `WithdrawnLeavesNothing`, `KeysInUseStay` | `PInv` |
| `MaterializerProofs` | type correctness, `CleanedLeavesNothing`, `ReadyIsVerified` | `MInv` |
| `AccountingProofs` | of `AccessKeys`: `CipherCurrent`, `GrantIsCurrent`, `BucketExact`; of `ManagedCompute`: `ReleasedHoldsNothing`, `RefundIsProven` | `KInv`, `BInv`; `ComputeInv` |

Why the properties need them:

- `IInv` adds that a worker's item names a version the row already had, at most
  what was covered once it executed (`ItemSound`), and that a service without a
  row has nothing acknowledged (`NothingWithoutRow`): an acknowledgement alone
  says nothing about the item it came from.
- `JInv` ties generation, current operation and length of the journal together
  and says of every worker's view that it is of an operation that exists; the
  compare-and-set then makes stale views harmless (`CASCurrent`).
- `LInv` is a proof outline of `runStep`. `Control` says where the process is:
  the operation it works on is the current one as it was loaded, or one that a
  delete has overtaken and whose successor is still at its first step. For every
  step of the path `RuntimeBefore`, `ResourceBefore`, `ReadyBefore` and
  `QuotaBefore` say what holds from its entry to its end, `Doing` what is added at
  each call within it, and `Done` what it has established when it asks for the
  next one; `Rest` is what a finished operation leaves to the next command.
  A step may have been done before, in whole or in part, because a crash or a
  lost answer repeats it, so what holds "before" a step must hold after any part
  of it. None of the four properties mentions the program counter, and each is
  lost without it. That the steps are the journal's (`NextJournal`) needs `JInv`
  only, so the theorems about the journal hold of the service.
- `AInv` of the audit: the lease holder that loaded the current operation loaded
  its present attempt (`LoadedIsCurrent`), and of that attempt only the events of
  steps up to the present one exist (`EventsBehind`). Without both, a repeated id
  could swallow the event of a step (`ON CONFLICT DO NOTHING`). `StepsEntered`
  generalizes `SucceededRanEveryStep` to operations on their way.
- `CacheInv`: calls test the capacity before they store an entry, so it bounds
  entries and running probes together: at most `Capacity + MaxActive - 1` scopes.
- `SInv` says of each projection that the object it read has at most the current
  version, that equal versions mean the status it read is the current one, and
  that the durable state it read afterwards is at least as new as that status:
  the order of the two reads is what makes the optimistic lock sufficient.
- `CInv` says what a call may rely on under its locks (`Holds`: its id has no
  row yet, the service row is as it was checked), that every id row belongs to a
  request and an operation (`Kept`, `OneIdentity`), that a service has a spec for
  each generation (`ServicesWhole`), and which operation wrote each field of each
  spec (`LastWritten`). It gives the refinement: `Written` is one acceptance with
  the next generation, every other step leaves the acceptances alone or tells a
  caller of one. The second invariant, `AInv` of that module, is about
  `Acceptance` alone.
- `PInv` states what a call knows at each request while others change the
  plugin: what it read has a version at most the current one, and if the versions
  are equal it is the current content.
- `MInv` says what a call has established at each request (`CallSound`), that a
  verified claim keeps its files as long as it has its UID (`FilesSound`), and
  that what a cleanup has passed stays gone (`CleanSound`).
- `KInv` says of every running check that its key exists, that the version it
  read is at most the key's, and that equal versions mean the same secret; the
  fences of `ArchiveSecret` and `ConsumeAccess` compare no more than that. `BInv`
  adds that a bound policy exists and that times are in range. `BucketExact` adds
  up requests over time, with a recursive function: that it adds up
  (`TotalIs`, `TotalAdd`) is proved by induction on the set of the moments for
  which the claim holds (`Moments`), from the least member of its complement
  (`LeastNumber`); the induction theorems of the library take an operator and
  cannot be used.

- `ComputeInv`: `ReleasedHoldsNothing` is about the future of what was reported,
  so it needs that nothing can run any more (`Over`): the service was never created
  and its DELETE blocks the CREATE, or the operation is a delete past the observed
  absence. `AtWork` says that the process carries out the current operation as it
  loaded it, or one that a DELETE has overtaken and whose successor still has to
  delete the runtime; the bindings decide which steps are refused, and no lemma
  needs to know more of them (`BindingsKeep`); that there is one process is what keeps an overtaken apply
  from following an observed absence. `AtClose` says that a close is of a resource
  that was never given out, and both that the pods about to be reported are those
  recorded under the CREATE. `Untouched` and `CloseFits` tie rows, operation and
  reports together: one DELETE closes the resource.

Only model-checked:

- all liveness properties: fairness and ENABLED are beyond this prover;
- `ReadsAreWhole` and `OnlyOwnIsShown`: they are about sorted pages and about log
  windows computed by folds over sequences, and would need induction over
  sequences;
- the properties of `RuntimeObjects`.

## Not modelled

- An update that carries the operation id of a managed service
  (`update_usecase.go:82`): it takes another advisory lock before the one of the
  request id.
- A second worker process next to the first, which the documents exclude, except
  in the queue and the journal. The save of a release scope, for instance, is
  not fenced against one.
- `EnsureBootstrapRoute`, run once per installation.
- Pure functions on data that the models abstract: resource arithmetic, GPU
  snapshot validation, counting ready pods, manifests, conversion and validation of
  requests, signatures and digests.
- What only reads, in one statement or call, and decides nothing later:
  `GetOperation`, model references, admission records, the check of a pull
  secret, the comparison of a namespace with the pinned one.
- Clients of other services, metrics and logs, protocol code and wiring: they
  keep no state of their own.
