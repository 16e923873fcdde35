-------------------------- MODULE ServerLifecycle ---------------------------
(***************************************************************************)
(* Starting and stopping the process: the worker loop and the controller   *)
(* manager as servers of the application (internal/server/worker.go,       *)
(* manager.go, readiness.go, newApp in cmd/ani-inference-service/app.go).  *)
(* The application (Kratos, external) starts every server in a goroutine   *)
(* of its own.  On a signal it runs the BeforeStop hook; on a signal or    *)
(* when a server fails it calls Stop of every server, each under the       *)
(* stop timeout, and ends when every Start and every Stop has returned.    *)
(* The context a Start gets is not the one the application cancels.        *)
(***************************************************************************)
EXTENDS Integers

CONSTANT
    Wired   \* ReadyCheck: every provider of the runner is configured

VARIABLES
    app,       \* "up", "stopping" (BeforeStop ran), "canceled", "ended"
    ready,     \* Readiness: what readyz answers
    synced,    \* the cache of the manager
    loop,      \* the goroutine in LoopServer.Start
    mgr,       \* the goroutine in ManagerServer.Start
    stop,      \* the goroutines that call Stop
    canceled,  \* the contexts made in Start
    early      \* history: a Stop came before its Start

vars == <<app, ready, synced, loop, mgr, stop, canceled, early>>

Servers == {"loop", "mgr"}

Init ==
    /\ app = "up"
    /\ ready = FALSE /\ synced = FALSE
    /\ loop = "new" /\ mgr = "new"
    /\ stop = [x \in Servers |-> "none"]
    /\ canceled = [x \in Servers |-> FALSE]
    /\ early = FALSE

-----------------------------------------------------------------------------
(* The application *)

\* A signal: App.Stop runs the BeforeStop hook, readiness.Set(false) ...
Signal ==
    /\ app = "up"
    /\ app' = "stopping"
    /\ ready' = FALSE
    /\ UNCHANGED <<synced, loop, mgr, stop, canceled, early>>

\* ... and cancels.
Cancel ==
    /\ app = "stopping"
    /\ app' = "canceled"
    /\ UNCHANGED <<ready, synced, loop, mgr, stop, canceled, early>>

\* A server returns an error, this one or the gRPC or admin server.
ServerFails ==
    /\ app \in {"up", "stopping"}
    /\ app' = "canceled"
    /\ UNCHANGED <<ready, synced, loop, mgr, stop, canceled, early>>

Exit ==
    /\ app = "canceled"
    /\ loop = "ended" /\ mgr = "ended"
    /\ \A x \in Servers : stop[x] \in {"returned", "timedout"}
    /\ app' = "ended"
    /\ UNCHANGED <<ready, synced, loop, mgr, stop, canceled, early>>

-----------------------------------------------------------------------------
(* ManagerServer.Start *)

ManagerStart ==
    /\ mgr = "new"
    /\ mgr' = "run"
    /\ UNCHANGED <<app, ready, synced, loop, stop, canceled, early>>

CacheSyncs ==
    /\ mgr = "run" /\ ~synced
    /\ synced' = TRUE
    /\ UNCHANGED <<app, ready, loop, mgr, stop, canceled, early>>

\* Manager.Start returns once its context ends, or with an error.
ManagerEnds ==
    /\ mgr = "run" /\ canceled["mgr"]
    /\ mgr' = "ended"
    /\ UNCHANGED <<app, ready, synced, loop, stop, canceled, early>>

ManagerFails ==
    /\ mgr = "run"
    /\ mgr' = "ended"
    /\ app' = IF app \in {"up", "stopping"} THEN "canceled" ELSE app
    /\ UNCHANGED <<ready, synced, loop, stop, canceled, early>>

-----------------------------------------------------------------------------
(* LoopServer.Start *)

LoopRest == UNCHANGED <<app, synced, mgr, stop, canceled, early>>

LoopStart ==
    /\ loop = "new"
    /\ loop' = "wait"
    /\ UNCHANGED ready /\ LoopRest

\* WaitReady: the cache is synced, or the context ended first.
WaitReady ==
    /\ loop = "wait"
    /\ \/ synced /\ loop' = "gate"
       \/ canceled["loop"] /\ loop' = "ended"
    /\ UNCHANGED ready /\ LoopRest

\* ReadyCheck and OnReady
OnReady ==
    /\ loop = "gate"
    /\ ready' = IF Wired THEN TRUE ELSE ready
    /\ loop' = "recover"
    /\ LoopRest

\* Loop.Run: recovery, whose failure is only reported
Recover ==
    /\ loop = "recover"
    /\ loop' = "begin"
    /\ UNCHANGED ready /\ LoopRest

\* Loop.RunOnce begins a pass unless the context ended.
RunOnce ==
    /\ loop = "begin"
    /\ loop' = IF canceled["loop"] THEN "ended" ELSE "pass"
    /\ UNCHANGED ready /\ LoopRest

\* A pass ends when its tenants are through or its context ended.
PassEnds ==
    /\ loop = "pass"
    /\ loop' = IF canceled["loop"] THEN "ended" ELSE "tick"
    /\ UNCHANGED ready /\ LoopRest

\* The select at the end of the loop: either may be chosen if both are due.
TickOrEnd ==
    /\ loop = "tick"
    /\ \/ loop' \in {"recover", "begin"}
       \/ canceled["loop"] /\ loop' = "ended"
    /\ UNCHANGED ready /\ LoopRest

Loop == WaitReady \/ OnReady \/ Recover \/ RunOnce \/ PassEnds \/ TickOrEnd

-----------------------------------------------------------------------------
(* LoopServer.Stop and ManagerServer.Stop *)

At(x) == IF x = "loop" THEN loop ELSE mgr

\* Mutant: Stop waits without canceling.
StopWaits(x) ==
    /\ app = "canceled" /\ stop[x] = "none"
    /\ stop' = [stop EXCEPT ![x] = IF At(x) = "new" THEN "returned" ELSE "waiting"]
    /\ early' = (early \/ At(x) = "new")
    /\ UNCHANGED <<app, ready, synced, loop, mgr, canceled>>

\* Not started: nothing to do.  Otherwise cancel, and wait for done.
Stop(x) ==
    /\ app = "canceled" /\ stop[x] = "none"
    /\ \/ /\ At(x) = "new"
          /\ stop' = [stop EXCEPT ![x] = "returned"]
          /\ early' = TRUE
          /\ UNCHANGED canceled
       \/ /\ At(x) # "new"
          /\ stop' = [stop EXCEPT ![x] = "waiting"]
          /\ canceled' = [canceled EXCEPT ![x] = TRUE]
          /\ UNCHANGED early
    /\ UNCHANGED <<app, ready, synced, loop, mgr>>

\* done is closed, or the stop timeout is over.
StopReturns(x) ==
    /\ stop[x] = "waiting"
    /\ \/ At(x) = "ended" /\ stop' = [stop EXCEPT ![x] = "returned"]
       \/ stop' = [stop EXCEPT ![x] = "timedout"]
    /\ UNCHANGED <<app, ready, synced, loop, mgr, canceled, early>>

Next ==
    \/ Signal \/ Cancel \/ ServerFails \/ Exit
    \/ ManagerStart \/ CacheSyncs \/ ManagerEnds \/ ManagerFails
    \/ LoopStart \/ Loop
    \/ \E x \in Servers : Stop(x) \/ StopReturns(x)

Spec == Init /\ [][Next]_vars

\* Goroutines are scheduled, a pass returns (its calls are bounded by their own
\* timeouts), and a due context is not passed over in favour of the ticker for
\* ever.
Fairness ==
    /\ WF_vars(Cancel) /\ WF_vars(Exit) /\ WF_vars(LoopStart) /\ WF_vars(Loop)
    /\ WF_vars(ManagerStart) /\ WF_vars(ManagerEnds) /\ WF_vars(CacheSyncs)
    /\ \A x \in Servers : WF_vars(Stop(x)) /\ WF_vars(StopReturns(x))

-----------------------------------------------------------------------------
(* Properties *)

\* The loop works only on a synced cache, and once Stop has returned without
\* timing out the loop has ended, whichever of the cache sync, the stop and the
\* ticker came first; and a process told to stop, or one whose server failed,
\* ends.  The one exception to both is a Stop that came before its Start: that
\* Start is never canceled.
ShutdownEnds ==
    /\ [](loop \in {"gate", "recover", "begin", "pass", "tick"} => synced)
    /\ [](stop["loop"] = "returned" => loop = "ended" \/ early)
    /\ app # "up" ~> (app = "ended" \/ early)

=============================================================================
