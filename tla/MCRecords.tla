------------------------------ MODULE MCRecords ------------------------------
(***************************************************************************)
(* Instances of Records for TLC, with ServiceReads and Diagnostics beside  *)
(* it: what is recorded of the system, and what is read back of it.        *)
(***************************************************************************)
EXTENDS Records, TLC

CONSTANTS a1, a2

VARIABLES
    svc, specs, rows, writes, read, steady,
    obj, uids, lineage, binding, req

readVars == <<svc, specs, rows, writes, read, steady>>
diagnosticVars == <<obj, uids, lineage, binding, req>>

\* Two workers, two controllers or two pods: only one part moves, so that one
\* permutation exchanges them in all parts.
MCSymmetry == Permutations({a1, a2})

\* Three services of the tenant that reads, one of them not created yet, as is one
\* of another tenant; rows may share a creation time.
Reads == INSTANCE ServiceReads WITH
    Services <- 1..4, Initial <- {1, 3}, Operations <- 1..6,
    Tenants <- {"a", "b"}, Tenant <- "a", TenantOf <- <<"a", "a", "a", "b">>,
    Times <- {1, 2}, Capabilities <- {"chat"}, PageSizes <- {1}, MaxWrites <- 2, ops <- rows

\* Two pods below a replica set below a bound deployment; 2 ticks in a second, so
\* that a stream holds lines before its window, and at most 3 bytes of it are read.
Runtime == INSTANCE Diagnostics WITH
    Pods <- {a1, a2}, Owners <- {"rs"}, Bound <- "dep",
    OwnerName <- [n \in {a1, a2, "rs"} |-> IF n = "rs" THEN "dep" ELSE "rs"],
    MaxDepth <- 8, MaxUID <- 6, MaxBytes <- 3, Second <- 2,
    Queries <- [written : {<<1, 2, 2, 3>>}, later : {<<4>>}, since : {0, 3}, until : {0, 3},
                tail : {1, 2, 5}, follow : BOOLEAN],
    EventQueries <- [since : {0, 2}, until : {0, 3}, offset : {0, 1}, limit : {1}]

MCObservations == {<<"unknown", "", "">>, <<"ready", "published", "unknown">>}

NoReads ==
    svc = <<>> /\ specs = <<>> /\ rows = {} /\ writes = 0 /\ read = <<>> /\ steady = {}
NoDiagnostics ==
    obj = <<>> /\ uids = 0 /\ lineage = <<>> /\ binding = 0 /\ req = <<>>
MCInit ==
    \/ RecordsInit /\ NoReads /\ NoDiagnostics
    \/ /\ Init /\ Probes!Init /\ Status!Init
       /\ \/ part = "reads" /\ Reads!Init /\ NoDiagnostics
          \/ part = "runtime" /\ NoReads /\ Runtime!Init

MCNext ==
    \/ RecordsNext /\ UNCHANGED <<readVars, diagnosticVars>>
    \/ part = "reads" /\ Reads!Next /\ UNCHANGED <<recordsVars, diagnosticVars>>
    \/ part = "runtime" /\ Runtime!Next /\ UNCHANGED <<recordsVars, readVars>>

MCSpec == MCInit /\ [][MCNext]_<<recordsVars, readVars, diagnosticVars>>

-----------------------------------------------------------------------------
(* The properties of the parts, each stated in its module *)

\* ServiceReads: lists that are followed to their end are complete, and Get shows
\* the spec of the generation it shows.
ReadsAreWhole == part = "reads" => Reads!ReadsAreWhole

\* ServiceReads: the total of an answer covers its page.
TotalCoversPage == part = "reads" => Reads!TotalCoversPage

\* Diagnostics: nothing is shown of objects that do not descend from the binding,
\* and a log answer is the window of the lines asked for, or says it is cut short.
OnlyOwnIsShown == part = "runtime" => Runtime!OnlyOwnIsShown

=============================================================================
