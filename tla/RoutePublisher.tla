--------------------------- MODULE RoutePublisher ---------------------------
(***************************************************************************)
(* HTTPRoutePublisher (internal/data/kubernetes/http_route_publisher.go    *)
(* and higress_rate_limit.go): the HTTPRoute and the ReferenceGrant of a   *)
(* publication, and the WasmPlugin all publications share, which holds a   *)
(* rate limit for each model and remembers in an annotation which routes   *)
(* asked for it.                                                           *)
(*                                                                         *)
(* A publication is one generation of one service.  It is published, then  *)
(* withdrawn, each by as many calls as it takes.  Calls for different      *)
(* publications interleave between any two requests to the API server, and *)
(* any of them may be cut short.                                           *)
(***************************************************************************)
EXTENDS Naturals, FiniteSets

CONSTANTS
    Publications, Models,
    Model,          \* the served model name of a publication
    Bootstrap,      \* the limit keys the platform installed
    Unowned,        \* models with a route older than the ownership annotation
    MaxRetries,     \* higressRateLimitMaxUpdateRetries
    MaxEdits,       \* bound: edits of the plugin by an operator
    MaxCuts         \* bound: calls cut short

ASSUME PublisherAssumption ==
    /\ Model \in [Publications -> Models]
    /\ Bootstrap \subseteq Models /\ Unowned \subseteq Models
    /\ MaxRetries \in Nat \ {0} /\ MaxEdits \in Nat /\ MaxCuts \in Nat

VARIABLES
    goal,      \* what the operations want of a publication
    route,     \* its HTTPRoute
    grant,     \* its ReferenceGrant
    plugin,    \* the WasmPlugin: resourceVersion, limit keys, owners of a key
    pc, seen, keep, tries,  \* a call: where it is, the plugin it read, whether
                            \* another route selects the model, its attempts
    edits, cuts

vars == <<goal, route, grant, plugin, pc, seen, keep, tries, edits, cuts>>

NoPlugin == [rv |-> 0, keys |-> {}, owners |-> [m \in Models |-> {}]]

Init ==
    /\ goal = [p \in Publications |-> "none"]
    /\ route = [p \in Publications |-> "absent"]
    /\ grant = [p \in Publications |-> "absent"]
    /\ plugin = [NoPlugin EXCEPT !.keys = Bootstrap]
    /\ pc = [p \in Publications |-> "idle"]
    /\ seen = [p \in Publications |-> NoPlugin]
    /\ keep = [p \in Publications |-> FALSE]
    /\ tries = [p \in Publications |-> 0]
    /\ edits = 0 /\ cuts = 0

-----------------------------------------------------------------------------
(* Steps of a call *)

Go(p, from, to) == pc[p] = from /\ pc' = [pc EXCEPT ![p] = to]

\* The call ends; what it read is forgotten.
Return(p) ==
    /\ pc' = [pc EXCEPT ![p] = "idle"]
    /\ seen' = [seen EXCEPT ![p] = NoPlugin]
    /\ keep' = [keep EXCEPT ![p] = FALSE]
    /\ tries' = [tries EXCEPT ![p] = 0]

call == <<seen, keep, tries>>
env == <<edits, cuts>>

\* Mutant: the patch does not carry the resourceVersion that was read.
FreshAlways(p) == TRUE

\* MergeFromWithOptimisticLock
Fresh(p) == seen[p].rv = plugin.rv

\* The loop of a call has an attempt left.
Again(p) == tries[p] + 1 < MaxRetries

\* Patch of the plugin with new keys and owners: a conflict reads again from
\* `reread` until the attempts are used up.
PatchPlugin(p, keys, owners, reread, done) ==
    IF Fresh(p)
    THEN /\ plugin' = [rv |-> plugin.rv + 1, keys |-> keys, owners |-> owners]
         /\ pc' = [pc EXCEPT ![p] = done]
         /\ UNCHANGED call
    ELSE /\ UNCHANGED plugin
         /\ IF Again(p)
            THEN /\ pc' = [pc EXCEPT ![p] = reread]
                 /\ tries' = [tries EXCEPT ![p] = @ + 1]
                 /\ seen' = [seen EXCEPT ![p] = NoPlugin]
                 /\ UNCHANGED keep
            ELSE Return(p)

-----------------------------------------------------------------------------
(* Publish *)

\* The route is read first: one that is being deleted is an error.
PublishBegin(p) ==
    /\ goal[p] = "publish" /\ route[p] # "terminating"
    /\ Go(p, "idle", "grant")
    /\ UNCHANGED <<goal, route, grant, plugin, call, env>>

\* ensureBackendGrant
EnsureBackendGrant(p) ==
    /\ pc[p] = "grant"
    /\ IF grant[p] = "terminating"
       THEN Return(p) /\ UNCHANGED grant
       ELSE /\ grant' = [grant EXCEPT ![p] = "live"]
            /\ Go(p, "grant", "limit")
            /\ UNCHANGED call
    /\ UNCHANGED <<goal, route, plugin, env>>

\* ensureRateLimit, the read.  A key without owners is the platform's and is
\* left alone.
LimitRead(p) ==
    LET m == Model[p]
        missing == m \notin plugin.keys
        unowned == plugin.owners[m] # {} /\ p \notin plugin.owners[m]
    IN  /\ Go(p, "limit", IF missing \/ unowned THEN "limitPatch" ELSE "route")
        /\ seen' = [seen EXCEPT ![p] = plugin]
        /\ UNCHANGED <<goal, route, grant, plugin, keep, tries, env>>

LimitPatch(p) ==
    /\ pc[p] = "limitPatch"
    /\ PatchPlugin(p, seen[p].keys \cup {Model[p]},
                   [seen[p].owners EXCEPT ![Model[p]] = @ \cup {p}], "limit", "route")
    /\ UNCHANGED <<goal, route, grant, env>>

RoutePatch(p) ==
    /\ pc[p] = "route"
    /\ route' = [route EXCEPT ![p] = "live"]
    /\ Return(p)
    /\ UNCHANGED <<goal, grant, plugin, env>>

-----------------------------------------------------------------------------
(* Withdraw and ConfirmWithdrawn *)

\* Deletion carries the UID and the resourceVersion that were read.
Withdraw(p) ==
    /\ goal[p] = "withdraw" /\ pc[p] = "idle" /\ route[p] = "live"
    /\ route' = [route EXCEPT ![p] = "terminating"]
    /\ UNCHANGED <<goal, grant, plugin, pc, call, env>>

RouteGone(p) == route[p] = "absent"

ConfirmBegin(p) ==
    /\ goal[p] = "withdraw" /\ RouteGone(p)
    /\ Go(p, "idle", "clean")
    /\ UNCHANGED <<goal, route, grant, plugin, call, env>>

\* Mutant: a route without an owner entry cannot be cleaned up.
CleanReadOwners(p) ==
    /\ \E m \in Models : p \in plugin.owners[m]
    /\ Go(p, "clean", IF plugin.owners[Model[p]] = {p} THEN "list" ELSE "cleanPatch")
    /\ seen' = [seen EXCEPT ![p] = plugin]
    /\ UNCHANGED <<goal, route, grant, plugin, keep, tries, env>>

\* cleanupRateLimit, the read
CleanRead(p) ==
    LET mine == {m \in Models : p \in plugin.owners[m]} IN
    /\ Go(p, "clean", IF mine = {} THEN "ungrant"
                      ELSE IF plugin.owners[Model[p]] = {p} THEN "list" ELSE "cleanPatch")
    /\ seen' = [seen EXCEPT ![p] = plugin]
    /\ UNCHANGED <<goal, route, grant, plugin, keep, tries, env>>

\* hasModelRoute: another route, not being deleted, selects the model.
HasModelRoute(p) ==
    \/ Model[p] \in Unowned
    \/ \E q \in Publications \ {p} : route[q] = "live" /\ Model[q] = Model[p]

CleanList(p) ==
    /\ Go(p, "list", "cleanPatch")
    /\ keep' = [keep EXCEPT ![p] = HasModelRoute(p)]
    /\ UNCHANGED <<goal, route, grant, plugin, seen, tries, env>>

\* Mutant: the last key is removed as well.
KeysWithoutAll(p) == seen[p].keys \ {Model[p]}

\* The last key is kept: Higress rejects an empty list.
KeysWithout(p) ==
    IF Cardinality(seen[p].keys) > 1 THEN seen[p].keys \ {Model[p]} ELSE seen[p].keys

CleanPatch(p) ==
    LET last == seen[p].owners[Model[p]] = {p} IN
    /\ pc[p] = "cleanPatch"
    /\ PatchPlugin(p, IF last /\ ~keep[p] THEN KeysWithout(p) ELSE seen[p].keys,
                   [seen[p].owners EXCEPT ![Model[p]] = @ \ {p}], "clean", "ungrant")
    /\ UNCHANGED <<goal, route, grant, env>>

\* Mutant: the grant counts as absent once its deletion was asked for.
GrantAbsentEarly(p) == grant[p] # "live"

GrantAbsent(p) == grant[p] = "absent"

\* cleanupBackendGrant; its absence ends the withdrawal.
CleanupBackendGrant(p) ==
    /\ pc[p] = "ungrant"
    /\ goal' = [goal EXCEPT ![p] = IF GrantAbsent(p) THEN "withdrawn" ELSE @]
    /\ grant' = [grant EXCEPT ![p] = IF @ = "live" THEN "terminating" ELSE @]
    /\ Return(p)
    /\ UNCHANGED <<route, plugin, env>>

-----------------------------------------------------------------------------
(* What happens around the calls *)

\* An operation publishes the generation; a later one withdraws it.
Request(p) ==
    /\ pc[p] = "idle"
    /\ goal[p] \in {"none", "publish"}
    /\ goal' = [goal EXCEPT ![p] = IF @ = "none" THEN "publish" ELSE "withdraw"]
    /\ UNCHANGED <<route, grant, plugin, pc, call, env>>

\* The process stops or a request fails.
Cut(p) ==
    /\ pc[p] # "idle" /\ cuts < MaxCuts
    /\ Return(p)
    /\ cuts' = cuts + 1
    /\ UNCHANGED <<goal, route, grant, plugin, edits>>

\* Kubernetes ends a deletion.
Vanish(p) ==
    \/ /\ route[p] = "terminating"
       /\ route' = [route EXCEPT ![p] = "absent"]
       /\ UNCHANGED <<goal, grant, plugin, pc, call, env>>
    \/ /\ grant[p] = "terminating"
       /\ grant' = [grant EXCEPT ![p] = "absent"]
       /\ UNCHANGED <<goal, route, plugin, pc, call, env>>

\* An operator adds a limit key, or touches the plugin otherwise.
Edit ==
    /\ edits < MaxEdits
    /\ edits' = edits + 1
    /\ \E more \in {{}} \cup {{m} : m \in Models} :
        plugin' = [rv |-> plugin.rv + 1, keys |-> plugin.keys \cup more, owners |-> plugin.owners]
    /\ UNCHANGED <<goal, route, grant, pc, call, cuts>>

CallStep(p) ==
    \/ PublishBegin(p) \/ EnsureBackendGrant(p) \/ LimitRead(p) \/ LimitPatch(p) \/ RoutePatch(p)
    \/ Withdraw(p) \/ ConfirmBegin(p) \/ CleanRead(p) \/ CleanList(p) \/ CleanPatch(p)
    \/ CleanupBackendGrant(p)

Next == Edit \/ \E p \in Publications : CallStep(p) \/ Request(p) \/ Cut(p) \/ Vanish(p)

Spec == Init /\ [][Next]_vars

\* The runner retries a step until it succeeds, and Kubernetes ends deletions.
FairSpec == Spec /\ \A p \in Publications : WF_vars(CallStep(p)) /\ WF_vars(Vanish(p))

-----------------------------------------------------------------------------
(* Properties *)

Phases == {"idle", "grant", "limit", "limitPatch", "route", "clean", "list", "cleanPatch", "ungrant"}
Plugins == [rv : Nat, keys : SUBSET Models, owners : [Models -> SUBSET Publications]]

TypeOK ==
    /\ goal \in [Publications -> {"none", "publish", "withdraw", "withdrawn"}]
    /\ route \in [Publications -> {"absent", "live", "terminating"}]
    /\ grant \in [Publications -> {"absent", "live", "terminating"}]
    /\ plugin \in Plugins
    /\ pc \in [Publications -> Phases]
    /\ seen \in [Publications -> Plugins]
    /\ keep \in [Publications -> BOOLEAN]
    /\ tries \in [Publications -> 0 .. MaxRetries - 1]
    /\ edits \in 0 .. MaxEdits /\ cuts \in 0 .. MaxCuts

\* A route that serves traffic has a rate limit for its model and the grant
\* its backend reference needs, from the moment it exists until it is gone,
\* however publications and withdrawals of the same model interleave
\* ("records the publication before its Higress route is exposed").
RouteLimited ==
    \A p \in Publications : route[p] # "absent" =>
        Model[p] \in plugin.keys /\ grant[p] = "live"

\* A limit key that some route selects is never removed, also when the route
\* has no owner entry and the removal was decided on an older plugin; and a
\* removal never takes the last key, which Higress would reject, even when two
\* withdrawals each see the other's key still there.
KeysInUseStay ==
    [][\A m \in plugin.keys \ plugin'.keys :
        /\ m \notin Unowned /\ plugin'.keys # {}
        /\ \A p \in Publications : Model[p] = m => route[p] # "live"]_vars

\* Once a withdrawal was confirmed nothing of the publication is left: no
\* route, no grant and no entry in the plugin's owners, whatever simultaneous
\* updates of the plugin wrote.
WithdrawnLeavesNothing ==
    \A p \in Publications : goal[p] = "withdrawn" =>
        /\ route[p] = "absent" /\ grant[p] = "absent"
        /\ \A m \in Models : p \notin plugin.owners[m]

\* A withdrawal that was asked for is confirmed in the end.
WithdrawalsEnd == \A p \in Publications : goal[p] = "withdraw" ~> goal[p] = "withdrawn"

=============================================================================
