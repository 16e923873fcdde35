------------------------------- MODULE Records -------------------------------
(***************************************************************************)
(* What is recorded about a service and shown of it: the audited journal   *)
(* of its operations (OperationAudit), the answers of the probe cache      *)
(* (ProbeCache) and the status of its object (StatusProjection).  No step  *)
(* of one depends on the state of another, so that they are explored side  *)
(* by side: part says which one moves.                                     *)
(***************************************************************************)
EXTENDS OperationAudit

CONSTANTS
    Calls, Scopes, MaxActive, Capacity, TTL, MaxTime,
    Controllers, Observations, Attempts, MaxWrites, MaxObjects, MaxApplies

\* The limits of probe.go: four probes, 1024 entries and a minute.
Limits == MaxActive \in Nat \ {0} /\ Capacity \in Nat /\ TTL \in Nat \ {0}
ASSUME ProbeLimits == Limits

VARIABLES
    part,
    clock, entries, active, call,
    db, cr, objects, applies, proj

probeVars == <<clock, entries, active, call>>
statusVars == <<db, cr, objects, applies, proj>>

Probes == INSTANCE ProbeCache
Status == INSTANCE StatusProjection

Parts == {"journal", "probes", "status"}

RecordsInit == Init /\ Probes!Init /\ Status!Init /\ part \in Parts

RecordsNext ==
    /\ UNCHANGED part
    /\ \/ part = "journal" /\ Next /\ UNCHANGED <<probeVars, statusVars>>
       \/ part = "probes" /\ Probes!Next /\ UNCHANGED <<vars, statusVars>>
       \/ part = "status" /\ Status!Next /\ UNCHANGED <<vars, probeVars>>

recordsVars == <<part, vars, probeVars, statusVars>>

RecordsSpec == RecordsInit /\ [][RecordsNext]_recordsVars

-----------------------------------------------------------------------------
(* The properties of the parts, each stated in its module *)

\* ProbeCache: probes and entries are bounded, and answers are fresh.
ProbesBounded == Probes!ProbesBounded

\* StatusProjection: a status never goes back, nor to another object.
StatusMovesForward == Status!StatusMovesForward

=============================================================================
