----------------------------- MODULE ProbeCache -----------------------------
(***************************************************************************)
(* ProbeCache.Observe (internal/biz/diagnostics/probe.go), called by       *)
(* GetRuntimeDiagnostics: concurrent calls share answers for a while, one  *)
(* probe runs per scope and few in all, and the cache is bounded.  Each    *)
(* call takes the time before it takes the lock, and probes without it.    *)
(***************************************************************************)
EXTENDS Integers, FiniteSets, Functions

CONSTANTS
    Calls, Scopes,
    MaxActive,   \* probes at a time (4 in the code)
    Capacity,    \* entries that stop new probes (1024)
    TTL,         \* life of an entry (a minute)
    MaxTime      \* bound: the clock

VARIABLES clock, entries, active, call

vars == <<clock, entries, active, call>>

Out == [pc |-> "out", scope |-> "", now |-> 0, health |-> "", at |-> 0]

Init ==
    /\ clock = 0
    /\ entries = <<>>
    /\ active = {}
    /\ call = [c \in Calls |-> Out]

Tick == clock < MaxTime /\ clock' = clock + 1 /\ UNCHANGED <<entries, active, call>>

Enter(c, s) ==
    /\ call[c].pc = "out"
    /\ call' = [call EXCEPT ![c].pc = "lock", ![c].scope = s, ![c].now = clock]
    /\ UNCHANGED <<clock, entries, active>>

\* Until the caller has its answer; at is when the answer was given to the cache.
\* The probe stamped its own ObservedAt a little earlier, before the body was
\* read and the lock taken.
Return(c, health, at) ==
    call' = [call EXCEPT ![c].pc = "answered", ![c].health = health, ![c].at = at]

Fresh(s, now) == s \in DOMAIN entries /\ now < entries[s].expires

\* Mutant: an entry is served however old it is.
ServeAny(c) ==
    /\ call[c].scope \in DOMAIN entries
    /\ Return(c, entries[call[c].scope].health, entries[call[c].scope].at)
    /\ UNCHANGED <<entries, active>>

Serve(c) ==
    /\ Fresh(call[c].scope, call[c].now)
    /\ Return(c, entries[call[c].scope].health, entries[call[c].scope].at)
    /\ UNCHANGED <<entries, active>>

Busy(c) ==
    /\ ~Fresh(call[c].scope, call[c].now)
    /\ call[c].scope \in active \/ Cardinality(active) >= MaxActive
    /\ Return(c, "unknown", call[c].now)
    /\ UNCHANGED <<entries, active>>

Unexpired(now) == {s \in DOMAIN entries : now < entries[s].expires}

\* Expired entries are dropped before the room is counted.
Admit(c) ==
    /\ ~Fresh(call[c].scope, call[c].now)
    /\ call[c].scope \notin active /\ Cardinality(active) < MaxActive
    /\ entries' = Restrict(entries, Unexpired(call[c].now))
    /\ IF Cardinality(Unexpired(call[c].now)) >= Capacity
       THEN Return(c, "unknown", call[c].now) /\ UNCHANGED active
       ELSE /\ active' = active \cup {call[c].scope}
            /\ call' = [call EXCEPT ![c].pc = "probe"]

\* The critical section before the probe.
Look(c) ==
    /\ call[c].pc = "lock"
    /\ Serve(c) \/ Busy(c) \/ Admit(c)
    /\ UNCHANGED clock

\* ProbeInvocation answers: the second critical section.  Only a conclusive
\* answer is kept.
Probed(c, health) ==
    /\ call[c].pc = "probe"
    /\ active' = active \ {call[c].scope}
    /\ entries' = IF health = "unknown" THEN entries
                  ELSE [s \in DOMAIN entries \cup {call[c].scope} |->
                            IF s = call[c].scope
                            THEN [health |-> health, at |-> clock, expires |-> clock + TTL]
                            ELSE entries[s]]
    /\ Return(c, health, clock)
    /\ UNCHANGED clock

Leave(c) ==
    /\ call[c].pc = "answered"
    /\ call' = [call EXCEPT ![c] = Out]
    /\ UNCHANGED <<clock, entries, active>>

Next ==
    \/ Tick
    \/ \E c \in Calls :
           \/ \E s \in Scopes : Enter(c, s)
           \/ Look(c)
           \/ \E h \in {"healthy", "unknown"} : Probed(c, h)
           \/ Leave(c)

Spec == Init /\ [][Next]_vars

-----------------------------------------------------------------------------
(* Properties *)

\* No scope is probed twice at a time, the slots are exactly the running probes,
\* so none is lost when a probe fails, and the cache outgrows its capacity by no
\* more than the probes that were let in while there was room.  An answer was
\* stored less than TTL before its call came in, although the call may have
\* waited for the lock with an old reading of the clock: the life of an entry
\* counts from the store, not from its ObservedAt.
ProbesBounded ==
    /\ \A c, d \in Calls :
           c # d /\ call[c].pc = "probe" /\ call[d].pc = "probe" => call[c].scope # call[d].scope
    /\ active = {call[c].scope : c \in {d \in Calls : call[d].pc = "probe"}}
    /\ Cardinality(active) <= MaxActive
    /\ Cardinality(DOMAIN entries) <= Capacity + MaxActive - 1
    /\ \A c \in Calls : call[c].pc = "answered" => call[c].now < call[c].at + TTL

=============================================================================
