------------------------ MODULE RoutePublisherProofs ------------------------
(***************************************************************************)
(* Proofs about RoutePublisher for any publications, models, edits and     *)
(* cuts.  RouteLimited and WithdrawnLeavesNothing are not inductive: that  *)
(* a key survives depends on who owns it, on what a call has read being    *)
(* what it would overwrite, and on calls running only for the goal they    *)
(* were started for.                                                       *)
(***************************************************************************)
EXTENDS RoutePublisher, FiniteSetTheorems, TLAPS

\* Some leaves take longer than the default timeouts on a slow machine.
USE SMTT(15), ZenonT(30)

Publishing == {"grant", "limit", "limitPatch", "route"}
Cleaning == {"clean", "list", "cleanPatch", "ungrant"}

\* A call runs only for the goal it was started for.
CallsFollowGoal ==
    \A p \in Publications :
        /\ pc[p] \in Publishing => goal[p] = "publish" /\ route[p] # "terminating"
        /\ pc[p] \in Cleaning => goal[p] = "withdraw" /\ route[p] = "absent"
        /\ goal[p] = "none" => route[p] = "absent"
        /\ goal[p] = "withdrawn" => pc[p] = "idle" /\ route[p] = "absent" /\ grant[p] = "absent"

\* The plugin a call has read is the plugin, unless its version is older.
ReadAgrees(p) ==
    /\ seen[p].rv <= plugin.rv
    /\ pc[p] \in {"limitPatch", "list", "cleanPatch"} /\ seen[p].rv = plugin.rv =>
        seen[p] = plugin
ReadsAgree == \A p \in Publications : ReadAgrees(p)

\* Only publications of a model own its key, and an owned key is there.
OwnersSound ==
    \A m \in Models, p \in Publications : p \in plugin.owners[m] =>
        m = Model[p] /\ m \in plugin.keys

\* A publication whose route is there, or is about to be, has its limit and
\* its grant; it owns the limit, or nobody does.
Secured ==
    \A p \in Publications :
        /\ route[p] # "absent" \/ pc[p] = "route" =>
            /\ Model[p] \in plugin.keys
            /\ p \in plugin.owners[Model[p]] \/ plugin.owners[Model[p]] = {}
        /\ route[p] # "absent" \/ pc[p] \in {"limit", "limitPatch", "route"} => grant[p] = "live"

\* What a patch is about to write was decided on what was read.
DecidedFor(p) ==
    /\ pc[p] = "limitPatch" => Model[p] \notin seen[p].keys \/ seen[p].owners[Model[p]] # {}
    /\ pc[p] \in {"list", "cleanPatch"} => p \in seen[p].owners[Model[p]]
    /\ pc[p] = "cleanPatch" /\ seen[p].owners[Model[p]] = {p} /\ ~keep[p] =>
        Model[p] \notin Unowned
Decided == \A p \in Publications : DecidedFor(p)

\* Nothing is owned after the clean-up.
Cleaned ==
    \A p \in Publications : pc[p] = "ungrant" \/ goal[p] \in {"none", "withdrawn"} =>
        \A m \in Models : p \notin plugin.owners[m]

PInv == /\ TypeOK /\ CallsFollowGoal /\ ReadsAgree /\ OwnersSound
        /\ Secured /\ Decided /\ Cleaned

-----------------------------------------------------------------------------
(* The invariant holds initially, and what the common parts of actions do *)

\* The state in which the publisher starts satisfies the invariant.
LEMMA InitPInv == Init => PInv
  BY PublisherAssumption, SMTT(15)
 
        DEF Init, PInv, TypeOK, Phases, Plugins, NoPlugin, CallsFollowGoal, ReadsAgree,
            ReadAgrees, OwnersSound,
      Secured, Decided, DecidedFor, Cleaned, Publishing, Cleaning

\* What is read before the first read.
LEMMA NoPluginType == NoPlugin \in Plugins /\ NoPlugin.rv = 0
  BY DEF NoPlugin, Plugins

\* Return ends the call of one publication and leaves the others alone.
LEMMA ReturnEffect ==
  ASSUME TypeOK, NEW p \in Publications, Return(p)
  PROVE  /\ pc' \in [Publications -> Phases] /\ seen' \in [Publications -> Plugins]
         /\ keep' \in [Publications -> BOOLEAN]
         /\ tries' \in [Publications -> 0 .. MaxRetries - 1]
         /\ pc'[p] = "idle" /\ seen'[p] = NoPlugin
         /\ \A q \in Publications \ {p} :
              pc'[q] = pc[q] /\ seen'[q] = seen[q] /\ keep'[q] = keep[q]
<1>1. seen' \in [Publications -> Plugins] /\ seen'[p] = NoPlugin
  BY NoPluginType DEF TypeOK, Return
<1>2. 0 \in 0 .. MaxRetries - 1
  BY PublisherAssumption
<1> QED BY <1>1, <1>2 DEF TypeOK, Return, Phases

\* A patch of the plugin either replaces exactly what was read, or changes
\* nothing and reads again or gives up.
LEMMA PatchEffect ==
  ASSUME TypeOK, ReadsAgree, NEW p \in Publications, pc[p] \in {"limitPatch", "cleanPatch"},
         NEW keys \in SUBSET Models, NEW owners \in [Models -> SUBSET Publications],
         NEW reread \in {"limit", "clean"}, NEW done \in {"route", "ungrant"},
         PatchPlugin(p, keys, owners, reread, done)
  PROVE  /\ pc' \in [Publications -> Phases] /\ seen' \in [Publications -> Plugins]
         /\ keep' \in [Publications -> BOOLEAN]
         /\ tries' \in [Publications -> 0 .. MaxRetries - 1]
         /\ plugin' \in Plugins
         /\ \A q \in Publications \ {p} :
              pc'[q] = pc[q] /\ seen'[q] = seen[q] /\ keep'[q] = keep[q]
         /\ \/ /\ seen[p] = plugin /\ pc'[p] = done /\ plugin'.rv = plugin.rv + 1
               /\ plugin'.keys = keys /\ plugin'.owners = owners /\ seen'[p] = seen[p]
            \/ plugin' = plugin /\ pc'[p] \in {reread, "idle"} /\ seen'[p] = NoPlugin
<1>1. CASE Fresh(p)
  <2>1. seen[p] = plugin
    BY <1>1 DEF ReadsAgree, ReadAgrees, Fresh
  <2>2. plugin' = [rv |-> plugin.rv + 1, keys |-> keys, owners |-> owners]
    BY <1>1 DEF PatchPlugin
  <2>3. /\ plugin' \in Plugins /\ plugin'.rv = plugin.rv + 1
        /\ plugin'.keys = keys /\ plugin'.owners = owners
    BY <2>2 DEF TypeOK, Plugins
  <2>4. pc' = [pc EXCEPT ![p] = done] /\ UNCHANGED <<seen, keep, tries>>
    BY <1>1 DEF PatchPlugin, call
  <2> QED BY <2>1, <2>3, <2>4 DEF TypeOK, Phases
<1>2. CASE ~Fresh(p) /\ tries[p] + 1 < MaxRetries
  <2>1. seen' \in [Publications -> Plugins] /\ seen'[p] = NoPlugin
    BY <1>2, NoPluginType DEF TypeOK, PatchPlugin, Again
  <2>2. tries' \in [Publications -> 0 .. MaxRetries - 1]
    BY <1>2, PublisherAssumption DEF TypeOK, PatchPlugin, Again
  <2> QED BY <1>2, <2>1, <2>2 DEF PatchPlugin, Again, TypeOK, Phases
<1>3. CASE ~Fresh(p) /\ ~(tries[p] + 1 < MaxRetries)
  <2>1. Return(p) /\ plugin' = plugin
    BY <1>3 DEF PatchPlugin, Again
  <2> QED BY <2>1, ReturnEffect DEF TypeOK
<1> QED BY <1>1, <1>2, <1>3

\* A call that did not move is decided as before, on a plugin that agrees, as
\* long as the plugin changes only with its version.
LEMMA OtherCall ==
  ASSUME TypeOK, NEW q \in Publications, ReadAgrees(q), DecidedFor(q), plugin' \in Plugins,
         pc'[q] = pc[q], seen'[q] = seen[q], keep'[q] = keep[q],
         plugin' = plugin \/ plugin'.rv = plugin.rv + 1
  PROVE  ReadAgrees(q)' /\ DecidedFor(q)'
<1>1. DecidedFor(q)'
  BY DEF DecidedFor
<1>2. seen[q].rv \in Nat /\ plugin.rv \in Nat
  BY DEF TypeOK, Plugins
<1> QED BY <1>1, <1>2 DEF ReadAgrees

\* A call that holds nothing it read has nothing to agree with.
LEMMA EmptyCall ==
  ASSUME NEW q \in Publications, plugin' \in Plugins, seen'[q] = NoPlugin,
         pc'[q] \in {"idle", "limit", "clean"}
  PROVE  ReadAgrees(q)' /\ DecidedFor(q)'
<1>1. plugin'.rv \in Nat
  BY DEF Plugins
<1> QED BY <1>1, NoPluginType DEF ReadAgrees, DecidedFor

\* Ending a call keeps what is known of all calls.
LEMMA ReturnCalls ==
  ASSUME PInv, NEW p \in Publications, Return(p), plugin' = plugin
  PROVE  ReadsAgree' /\ Decided'
<1>1. TypeOK /\ ReadsAgree /\ Decided /\ plugin' \in Plugins
  BY DEF PInv, TypeOK
<1> SUFFICES ASSUME NEW q \in Publications PROVE ReadAgrees(q)' /\ DecidedFor(q)'
  BY DEF ReadsAgree, Decided
<1>2. CASE q = p
  BY <1>1, <1>2, ReturnEffect, EmptyCall
<1>3. CASE q # p
  BY <1>1, <1>3, ReturnEffect, OtherCall DEF ReadsAgree, Decided
<1> QED BY <1>2, <1>3

-----------------------------------------------------------------------------
(* Every action preserves the invariant *)

\* PublishBegin preserves the invariant.
LEMMA PublishBeginPInv ==
  ASSUME PInv, NEW p \in Publications, PublishBegin(p) PROVE PInv'
<1> USE PublisherAssumption
      DEF PInv, TypeOK, Phases, Plugins, Publishing, Cleaning, PublishBegin, Go, call, env
<1>1. TypeOK'
  BY SMTT(15)
<1>2. CallsFollowGoal'
  BY SMTT(15) DEF CallsFollowGoal
<1>3. ReadsAgree'
  BY SMTT(15) DEF ReadsAgree, ReadAgrees
<1>4. OwnersSound'
  BY SMTT(15) DEF OwnersSound
<1>5. Secured'
  BY SMTT(15) DEF Secured
<1>6. Decided'
  BY SMTT(15) DEF Decided, DecidedFor
<1>7. Cleaned'
  BY SMTT(15) DEF Cleaned
<1> QED BY <1>1, <1>2, <1>3, <1>4, <1>5, <1>6, <1>7

\* EnsureBackendGrant preserves the invariant.
LEMMA EnsureBackendGrantPInv ==
  ASSUME PInv, NEW p \in Publications, EnsureBackendGrant(p) PROVE PInv'
<1>1. CASE grant[p] = "terminating"
  <2>1. TypeOK /\ Return(p) /\ UNCHANGED <<grant, goal, route, plugin, edits, cuts>>
    BY <1>1 DEF PInv, EnsureBackendGrant, env
  <2> USE <2>1, ReturnEffect, NoPluginType DEF PInv, TypeOK, Phases, Plugins, Publishing, Cleaning
  <2>2. TypeOK'
    BY SMTT(15)
  <2>3. CallsFollowGoal'
    BY SMTT(15) DEF CallsFollowGoal
  <2>4. ReadsAgree'
    BY ReturnCalls
  <2>5. OwnersSound'
    BY SMTT(15) DEF OwnersSound
  <2>6. Secured'
    BY SMTT(15) DEF Secured
  <2>7. Decided'
    BY ReturnCalls
  <2>8. Cleaned'
    BY SMTT(15) DEF Cleaned
  <2> QED BY <2>2, <2>3, <2>4, <2>5, <2>6, <2>7, <2>8
<1>2. CASE grant[p] # "terminating"
  <2> USE <1>2
        DEF PInv, TypeOK, Phases, Plugins, Publishing, Cleaning, EnsureBackendGrant, Go, call, env
  <2>1. TypeOK'
    <3>1. /\ grant' = [grant EXCEPT ![p] = "live"] /\ pc' = [pc EXCEPT ![p] = "limit"]
          /\ UNCHANGED <<goal, route, plugin, seen, keep, tries, edits, cuts>>
      OBVIOUS
    <3>2. TypeOK
      OBVIOUS
    <3> QED BY ONLY <3>1, <3>2 DEF TypeOK, Phases, Plugins
  <2>2. CallsFollowGoal'
    BY SMTT(15) DEF CallsFollowGoal
  <2>3. ReadsAgree'
    BY SMTT(15) DEF ReadsAgree, ReadAgrees
  <2>4. OwnersSound'
    BY SMTT(15) DEF OwnersSound
  <2>5. Secured'
    <3>1. /\ grant' = [grant EXCEPT ![p] = "live"] /\ pc' = [pc EXCEPT ![p] = "limit"]
          /\ UNCHANGED <<route, plugin>>
      OBVIOUS
    <3>2. \A q \in Publications : grant[q] = "live" => grant'[q] = "live"
      BY <3>1
    <3>3. grant'[p] = "live"
      BY <3>1
    <3>4. \A q \in Publications \ {p} : pc'[q] = pc[q]
      BY <3>1
    <3>5. pc'[p] = "limit"
      BY <3>1
    <3> QED BY ONLY Secured, <3>1, <3>2, <3>3, <3>4, <3>5, PInv DEF Secured, PInv
  <2>6. Decided'
    BY SMTT(30) DEF Decided, DecidedFor
  <2>7. Cleaned'
    BY SMTT(30) DEF Cleaned
  <2> QED BY <2>1, <2>2, <2>3, <2>4, <2>5, <2>6, <2>7
<1> QED BY <1>1, <1>2

\* LimitRead preserves the invariant.
LEMMA LimitReadPInv ==
  ASSUME PInv, NEW p \in Publications, LimitRead(p) PROVE PInv'
<1> USE PublisherAssumption
      DEF PInv, TypeOK, Phases, Plugins, Publishing, Cleaning, LimitRead, Go, call, env
<1>1. TypeOK'
  BY SMTT(15)
<1>2. CallsFollowGoal'
  BY SMTT(15) DEF CallsFollowGoal
<1>3. ReadsAgree'
  BY SMTT(15) DEF ReadsAgree, ReadAgrees
<1>4. OwnersSound'
  BY SMTT(15) DEF OwnersSound
<1>5. Secured'
  BY SMTT(15) DEF Secured
<1>6. Decided'
  <2> SUFFICES ASSUME NEW q \in Publications PROVE DecidedFor(q)'
    BY DEF Decided
  <2>1. CASE q = p
    <3>1. seen'[p] = plugin /\ pc'[p] \in {"limitPatch", "route"}
      BY SMTT(15)
    <3>2. pc'[p] = "limitPatch" => Model[p] \notin plugin.keys \/ plugin.owners[Model[p]] # {}
      BY SMTT(15)
    <3> QED BY ONLY <2>1, <3>1, <3>2 DEF DecidedFor
  <2>2. CASE q # p
    BY <2>2, SMTT(15) DEF Decided, DecidedFor
  <2> QED BY <2>1, <2>2
<1>7. Cleaned'
  BY SMTT(15) DEF Cleaned
<1> QED BY <1>1, <1>2, <1>3, <1>4, <1>5, <1>6, <1>7

\* LimitPatch preserves the invariant.
LEMMA LimitPatchPInv ==
  ASSUME PInv, NEW p \in Publications, LimitPatch(p) PROVE PInv'
<1> DEFINE keys == seen[p].keys \cup {Model[p]}
           owners == [seen[p].owners EXCEPT ![Model[p]] = @ \cup {p}]
<1>1. keys \in SUBSET Models /\ owners \in [Models -> SUBSET Publications]
  BY PublisherAssumption DEF PInv, TypeOK, Plugins
<1>2. /\ TypeOK /\ ReadsAgree /\ pc[p] = "limitPatch" /\ PatchPlugin(p, keys, owners, "limit", "route")
      /\ UNCHANGED <<goal, route, grant, edits, cuts>>
  BY DEF PInv, LimitPatch, env
<1>3. /\ pc' \in [Publications -> Phases] /\ seen' \in [Publications -> Plugins]
      /\ keep' \in [Publications -> BOOLEAN] /\ tries' \in [Publications -> 0 .. MaxRetries - 1]
      /\ plugin' \in Plugins
      /\ \A q \in Publications \ {p} :
           pc'[q] = pc[q] /\ seen'[q] = seen[q] /\ keep'[q] = keep[q]
      /\ \/ /\ seen[p] = plugin /\ pc'[p] = "route" /\ plugin'.rv = plugin.rv + 1
            /\ plugin'.keys = keys /\ plugin'.owners = owners /\ seen'[p] = seen[p]
         \/ plugin' = plugin /\ pc'[p] \in {"limit", "idle"} /\ seen'[p] = NoPlugin
  <2> HIDE DEF keys, owners
  <2> QED BY <1>1, <1>2, PatchEffect, Zenon
<1>4. TypeOK'
  BY <1>2, <1>3 DEF TypeOK
<1> USE <1>2, <1>3, NoPluginType, PublisherAssumption DEF PInv, Publishing, Cleaning
<1>5. CASE plugin' = plugin /\ pc'[p] \in {"limit", "idle"} /\ seen'[p] = NoPlugin
  <2> HIDE DEF keys, owners
  <2>1. CallsFollowGoal'
    BY <1>5, SMTT(15) DEF TypeOK, CallsFollowGoal
  <2>2. ReadsAgree' /\ Decided'
    <3> SUFFICES ASSUME NEW q \in Publications PROVE ReadAgrees(q)' /\ DecidedFor(q)'
      BY DEF ReadsAgree, Decided
    <3>1. CASE q = p
      BY <1>5, <3>1, EmptyCall
    <3>2. CASE q # p
      BY <1>5, <3>2, OtherCall DEF ReadsAgree, Decided
    <3> QED BY <3>1, <3>2
  <2>3. OwnersSound'
    BY <1>5, SMTT(15) DEF TypeOK, OwnersSound
  <2>4. Secured'
    BY <1>5, SMTT(15) DEF TypeOK, Secured
  <2>6. Cleaned'
    BY <1>5, SMTT(15) DEF TypeOK, Cleaned
  <2> QED BY <1>4, <2>1, <2>2, <2>3, <2>4, <2>6
<1>6. CASE /\ seen[p] = plugin /\ pc'[p] = "route" /\ plugin'.rv = plugin.rv + 1
             /\ plugin'.keys = keys /\ plugin'.owners = owners /\ seen'[p] = seen[p]
  <2>1. CallsFollowGoal'
    BY <1>6, SMTT(15) DEF TypeOK, Plugins, CallsFollowGoal
  <2>2. ReadsAgree' /\ Decided'
    <3> SUFFICES ASSUME NEW q \in Publications PROVE ReadAgrees(q)' /\ DecidedFor(q)'
      BY DEF ReadsAgree, Decided
    <3> HIDE DEF keys, owners
    <3>1. CASE q = p
      BY <1>6, <3>1 DEF ReadAgrees, DecidedFor, TypeOK, Plugins
    <3>2. CASE q # p
      BY <1>6, <3>2, OtherCall DEF ReadsAgree, Decided
    <3> QED BY <3>1, <3>2
  <2>3. OwnersSound'
    BY <1>6, SMTT(15) DEF TypeOK, Plugins, OwnersSound
  <2>4. Secured'
    <3>1. Model[p] \in plugin'.keys /\ plugin.keys \subseteq plugin'.keys
      BY <1>6
    <3>2. \A m \in Models \ {Model[p]} : plugin'.owners[m] = plugin.owners[m]
      BY <1>6
    <3>3. plugin'.owners[Model[p]] = plugin.owners[Model[p]] \cup {p}
      BY <1>6 DEF TypeOK, Plugins
    <3>4. Model[p] \notin plugin.keys \/ plugin.owners[Model[p]] # {}
      BY <1>6 DEF Decided, DecidedFor
    <3>5. pc[p] = "limitPatch" /\ pc'[p] = "route" /\ UNCHANGED <<route, grant>>
      BY <1>6
    <3>6. \A q \in Publications \ {p} : pc'[q] = pc[q]
      OBVIOUS
    <3>7. Secured /\ Model \in [Publications -> Models]
      OBVIOUS
    <3> HIDE DEF keys, owners
    <3> QED BY ONLY <3>1, <3>2, <3>3, <3>4, <3>5, <3>6, <3>7 DEF Secured
  <2>6. Cleaned'
    BY <1>6, SMTT(15) DEF TypeOK, Plugins, Cleaned, CallsFollowGoal
  <2> QED BY <1>4, <2>1, <2>2, <2>3, <2>4, <2>6
<1> QED BY <1>3, <1>5, <1>6

\* RoutePatch preserves the invariant.
LEMMA RoutePatchPInv ==
  ASSUME PInv, NEW p \in Publications, RoutePatch(p) PROVE PInv'
<1>0. TypeOK /\ Return(p)
  BY DEF PInv, RoutePatch
<1> USE <1>0, ReturnEffect, NoPluginType, PublisherAssumption
      DEF PInv, TypeOK, Phases, Plugins, Publishing, Cleaning, RoutePatch, env
<1>1. TypeOK'
  BY SMTT(15)
<1>2. CallsFollowGoal'
  BY SMTT(15) DEF CallsFollowGoal
<1>3. ReadsAgree'
  BY ReturnCalls
<1>4. OwnersSound'
  BY SMTT(15) DEF OwnersSound
<1>5. Secured'
  BY SMTT(15) DEF Secured
<1>6. Decided'
  BY ReturnCalls
<1>7. Cleaned'
  <2>1. \A q \in Publications : pc'[q] = "ungrant" => pc[q] = "ungrant"
    BY SMTT(15)
  <2>2. Cleaned /\ plugin' = plugin /\ goal' = goal
    OBVIOUS
  <2> QED BY ONLY <2>1, <2>2 DEF Cleaned
<1> QED BY <1>1, <1>2, <1>3, <1>4, <1>5, <1>6, <1>7

\* Withdraw preserves the invariant.
LEMMA WithdrawPInv ==
  ASSUME PInv, NEW p \in Publications, Withdraw(p) PROVE PInv'
<1> USE PublisherAssumption
      DEF PInv, TypeOK, Phases, Plugins, Publishing, Cleaning, Withdraw, call, env
<1>1. TypeOK'
  BY SMTT(15)
<1>2. CallsFollowGoal'
  BY SMTT(15) DEF CallsFollowGoal
<1>3. ReadsAgree'
  BY SMTT(15) DEF ReadsAgree, ReadAgrees
<1>4. OwnersSound'
  BY SMTT(15) DEF OwnersSound
<1>5. Secured'
  BY SMTT(15) DEF Secured
<1>6. Decided'
  BY SMTT(15) DEF Decided, DecidedFor
<1>7. Cleaned'
  BY SMTT(15) DEF Cleaned
<1> QED BY <1>1, <1>2, <1>3, <1>4, <1>5, <1>6, <1>7

\* ConfirmBegin preserves the invariant.
LEMMA ConfirmBeginPInv ==
  ASSUME PInv, NEW p \in Publications, ConfirmBegin(p) PROVE PInv'
<1> USE PublisherAssumption
      DEF PInv, TypeOK, Phases, Plugins, Publishing, Cleaning, ConfirmBegin, RouteGone,
          Go, call, env
<1>1. TypeOK'
  BY SMTT(15)
<1>2. CallsFollowGoal'
  BY SMTT(15) DEF CallsFollowGoal
<1>3. ReadsAgree'
  BY SMTT(15) DEF ReadsAgree, ReadAgrees
<1>4. OwnersSound'
  BY SMTT(15) DEF OwnersSound
<1>5. Secured'
  BY SMTT(15) DEF Secured
<1>6. Decided'
  BY SMTT(15) DEF Decided, DecidedFor
<1>7. Cleaned'
  BY SMTT(15) DEF Cleaned
<1> QED BY <1>1, <1>2, <1>3, <1>4, <1>5, <1>6, <1>7

\* CleanRead preserves the invariant.
LEMMA CleanReadPInv ==
  ASSUME PInv, NEW p \in Publications, CleanRead(p) PROVE PInv'
<1> USE PublisherAssumption
      DEF PInv, TypeOK, Phases, Plugins, Publishing, Cleaning, CleanRead, Go, call, env
<1>1. TypeOK'
  BY SMTT(15)
<1>2. CallsFollowGoal'
  BY SMTT(15) DEF CallsFollowGoal
<1>3. ReadsAgree'
  BY SMTT(15) DEF ReadsAgree, ReadAgrees
<1>4. OwnersSound'
  BY SMTT(15) DEF OwnersSound
<1>5. Secured'
  BY SMTT(15) DEF Secured
<1>6. Decided'
  <2> SUFFICES ASSUME NEW q \in Publications PROVE DecidedFor(q)'
    BY DEF Decided
  <2>1. CASE q = p
    <3>1. seen'[p] = plugin /\ pc'[p] \in {"ungrant", "list", "cleanPatch"}
      BY SMTT(15)
    <3>2. pc'[p] \in {"list", "cleanPatch"} => p \in plugin.owners[Model[p]]
      BY SMTT(15) DEF OwnersSound
    <3>3. pc'[p] = "cleanPatch" => plugin.owners[Model[p]] # {p}
      BY SMTT(15)
    <3> QED BY ONLY <2>1, <3>1, <3>2, <3>3 DEF DecidedFor
  <2>2. CASE q # p
    BY <2>2, SMTT(15) DEF Decided, DecidedFor
  <2> QED BY <2>1, <2>2
<1>7. Cleaned'
  BY SMTT(15) DEF Cleaned
<1> QED BY <1>1, <1>2, <1>3, <1>4, <1>5, <1>6, <1>7

\* CleanList preserves the invariant.
LEMMA CleanListPInv ==
  ASSUME PInv, NEW p \in Publications, CleanList(p) PROVE PInv'
<1> USE PublisherAssumption
      DEF PInv, TypeOK, Phases, Plugins, Publishing, Cleaning, CleanList, HasModelRoute,
          Go, call, env
<1>1. TypeOK'
  BY SMTT(15)
<1>2. CallsFollowGoal'
  BY SMTT(15) DEF CallsFollowGoal
<1>3. ReadsAgree'
  BY SMTT(15) DEF ReadsAgree, ReadAgrees
<1>4. OwnersSound'
  BY SMTT(15) DEF OwnersSound
<1>5. Secured'
  BY SMTT(15) DEF Secured
<1>6. Decided'
  BY SMTT(15) DEF Decided, DecidedFor
<1>7. Cleaned'
  BY SMTT(15) DEF Cleaned
<1> QED BY <1>1, <1>2, <1>3, <1>4, <1>5, <1>6, <1>7

\* CleanPatch preserves the invariant.
LEMMA CleanPatchPInv ==
  ASSUME PInv, NEW p \in Publications, CleanPatch(p) PROVE PInv'
<1> DEFINE keys == IF seen[p].owners[Model[p]] = {p} /\ ~keep[p]
                  THEN KeysWithout(p) ELSE seen[p].keys
           owners == [seen[p].owners EXCEPT ![Model[p]] = @ \ {p}]
<1>1. keys \in SUBSET Models /\ owners \in [Models -> SUBSET Publications]
  BY PublisherAssumption DEF PInv, TypeOK, Plugins, KeysWithout
<1>2. /\ TypeOK /\ ReadsAgree /\ pc[p] = "cleanPatch" /\ PatchPlugin(p, keys, owners, "clean", "ungrant")
      /\ UNCHANGED <<goal, route, grant, edits, cuts>>
  BY DEF PInv, CleanPatch, env
<1>3. /\ pc' \in [Publications -> Phases] /\ seen' \in [Publications -> Plugins]
      /\ keep' \in [Publications -> BOOLEAN] /\ tries' \in [Publications -> 0 .. MaxRetries - 1]
      /\ plugin' \in Plugins
      /\ \A q \in Publications \ {p} :
           pc'[q] = pc[q] /\ seen'[q] = seen[q] /\ keep'[q] = keep[q]
      /\ \/ /\ seen[p] = plugin /\ pc'[p] = "ungrant" /\ plugin'.rv = plugin.rv + 1
            /\ plugin'.keys = keys /\ plugin'.owners = owners /\ seen'[p] = seen[p]
         \/ plugin' = plugin /\ pc'[p] \in {"clean", "idle"} /\ seen'[p] = NoPlugin
  <2> HIDE DEF keys, owners
  <2> QED BY <1>1, <1>2, PatchEffect, Zenon
<1>4. TypeOK'
  BY <1>2, <1>3 DEF TypeOK
<1> USE <1>2, <1>3, NoPluginType, PublisherAssumption DEF PInv, Publishing, Cleaning
<1>5. CASE plugin' = plugin /\ pc'[p] \in {"clean", "idle"} /\ seen'[p] = NoPlugin
  <2> HIDE DEF keys, owners
  <2>1. CallsFollowGoal'
    BY <1>5, SMTT(15) DEF TypeOK, CallsFollowGoal
  <2>2. ReadsAgree' /\ Decided'
    <3> SUFFICES ASSUME NEW q \in Publications PROVE ReadAgrees(q)' /\ DecidedFor(q)'
      BY DEF ReadsAgree, Decided
    <3>1. CASE q = p
      BY <1>5, <3>1, EmptyCall
    <3>2. CASE q # p
      BY <1>5, <3>2, OtherCall DEF ReadsAgree, Decided
    <3> QED BY <3>1, <3>2
  <2>3. OwnersSound'
    BY <1>5, SMTT(15) DEF TypeOK, OwnersSound
  <2>4. Secured'
    BY <1>5, SMTT(15) DEF TypeOK, Secured
  <2>6. Cleaned'
    BY <1>5, SMTT(15) DEF TypeOK, Cleaned
  <2> QED BY <1>4, <2>1, <2>2, <2>3, <2>4, <2>6
<1>6. CASE /\ seen[p] = plugin /\ pc'[p] = "ungrant" /\ plugin'.rv = plugin.rv + 1
             /\ plugin'.keys = keys /\ plugin'.owners = owners /\ seen'[p] = seen[p]
  <2>1. CallsFollowGoal'
    BY <1>6, SMTT(30) DEF TypeOK, Plugins, CallsFollowGoal, KeysWithout
  <2>2. ReadsAgree' /\ Decided'
    <3> SUFFICES ASSUME NEW q \in Publications PROVE ReadAgrees(q)' /\ DecidedFor(q)'
      BY DEF ReadsAgree, Decided
    <3> HIDE DEF keys, owners
    <3>1. CASE q = p
      BY <1>6, <3>1 DEF ReadAgrees, DecidedFor, TypeOK, Plugins
    <3>2. CASE q # p
      BY <1>6, <3>2, OtherCall DEF ReadsAgree, Decided
    <3> QED BY <3>1, <3>2
  <2>3. OwnersSound'
    BY <1>6, SMTT(30) DEF TypeOK, Plugins, OwnersSound, KeysWithout
  <2>4. Secured'
    <3>1. \A m \in Models : m # Model[p] =>
              /\ m \in plugin.keys => m \in plugin'.keys
              /\ plugin'.owners[m] = plugin.owners[m]
      BY <1>6, SMTT(15) DEF TypeOK, Plugins, KeysWithout
    <3>2. /\ p \in plugin.owners[Model[p]]
          /\ plugin'.owners[Model[p]] = plugin.owners[Model[p]] \ {p}
          /\ plugin.owners[Model[p]] # {p} => plugin'.keys = plugin.keys
      BY <1>6, SMTT(15) DEF TypeOK, Plugins, Decided, DecidedFor
    <3>3. route[p] = "absent"
      BY SMTT(15) DEF CallsFollowGoal
    <3> HIDE DEF keys, owners
    <3> QED BY <1>6, <3>1, <3>2, <3>3, SMTT(15) DEF TypeOK, Secured
  <2>6. Cleaned'
    BY <1>6, SMTT(30) DEF TypeOK, Plugins, Cleaned, OwnersSound, KeysWithout
  <2> QED BY <1>4, <2>1, <2>2, <2>3, <2>4, <2>6
<1> QED BY <1>3, <1>5, <1>6

\* CleanupBackendGrant preserves the invariant.
LEMMA CleanupBackendGrantPInv ==
  ASSUME PInv, NEW p \in Publications, CleanupBackendGrant(p) PROVE PInv'
<1>0. TypeOK /\ Return(p)
  BY DEF PInv, CleanupBackendGrant
<1> USE <1>0, ReturnEffect, NoPluginType, PublisherAssumption
      DEF PInv, TypeOK, Phases, Plugins, Publishing, Cleaning, CleanupBackendGrant, GrantAbsent, env
<1>1. TypeOK'
  BY SMTT(15)
<1>2. CallsFollowGoal'
  BY SMTT(15) DEF CallsFollowGoal
<1>3. ReadsAgree'
  BY ReturnCalls
<1>4. OwnersSound'
  BY SMTT(15) DEF OwnersSound
<1>5. Secured'
  BY SMTT(15) DEF Secured, CallsFollowGoal
<1>6. Decided'
  BY ReturnCalls
<1>7. Cleaned'
  BY SMTT(15) DEF Cleaned
<1> QED BY <1>1, <1>2, <1>3, <1>4, <1>5, <1>6, <1>7

\* Request preserves the invariant.
LEMMA RequestPInv ==
  ASSUME PInv, NEW p \in Publications, Request(p) PROVE PInv'
<1> USE PublisherAssumption
      DEF PInv, TypeOK, Phases, Plugins, Publishing, Cleaning, Request, call, env
<1>1. TypeOK'
  BY SMTT(15)
<1>2. CallsFollowGoal'
  BY SMTT(15) DEF CallsFollowGoal
<1>3. ReadsAgree'
  BY SMTT(15) DEF ReadsAgree, ReadAgrees
<1>4. OwnersSound'
  BY SMTT(15) DEF OwnersSound
<1>5. Secured'
  BY SMTT(15) DEF Secured
<1>6. Decided'
  BY SMTT(15) DEF Decided, DecidedFor
<1>7. Cleaned'
  BY SMTT(15) DEF Cleaned
<1> QED BY <1>1, <1>2, <1>3, <1>4, <1>5, <1>6, <1>7

\* Cut preserves the invariant.
LEMMA CutPInv ==
  ASSUME PInv, NEW p \in Publications, Cut(p) PROVE PInv'
<1>0. TypeOK /\ Return(p)
  BY DEF PInv, Cut
<1> USE <1>0, ReturnEffect, NoPluginType, PublisherAssumption
      DEF PInv, TypeOK, Phases, Plugins, Publishing, Cleaning, Cut
<1>1. TypeOK'
  BY SMTT(15)
<1>2. CallsFollowGoal'
  BY SMTT(15) DEF CallsFollowGoal
<1>3. ReadsAgree'
  BY ReturnCalls
<1>4. OwnersSound'
  BY SMTT(15) DEF OwnersSound
<1>5. Secured'
  BY SMTT(15) DEF Secured
<1>6. Decided'
  BY ReturnCalls
<1>7. Cleaned'
  <2>1. \A q \in Publications : pc'[q] = "ungrant" => pc[q] = "ungrant"
    BY SMTT(15)
  <2>2. Cleaned /\ plugin' = plugin /\ goal' = goal
    OBVIOUS
  <2> QED BY ONLY <2>1, <2>2 DEF Cleaned
<1> QED BY <1>1, <1>2, <1>3, <1>4, <1>5, <1>6, <1>7

\* Vanish preserves the invariant.
LEMMA VanishPInv ==
  ASSUME PInv, NEW p \in Publications, Vanish(p) PROVE PInv'
<1>1. CASE route[p] = "terminating" /\ route' = [route EXCEPT ![p] = "absent"]
               /\ UNCHANGED <<goal, grant, plugin, pc, call, env>>
  <2> USE <1>1 DEF PInv, TypeOK, Phases, Plugins, Publishing, Cleaning, call, env
  <2>1. TypeOK'
    BY SMTT(15)
  <2>2. CallsFollowGoal'
    BY SMTT(15) DEF CallsFollowGoal
  <2>3. ReadsAgree'
    BY SMTT(15) DEF ReadsAgree, ReadAgrees
  <2>4. OwnersSound'
    BY SMTT(15) DEF OwnersSound
  <2>5. Secured'
    BY SMTT(15) DEF Secured
  <2>6. Decided'
    BY SMTT(15) DEF Decided, DecidedFor
  <2>7. Cleaned'
    BY SMTT(15) DEF Cleaned
  <2> QED BY <2>1, <2>2, <2>3, <2>4, <2>5, <2>6, <2>7
<1>2. CASE grant[p] = "terminating" /\ grant' = [grant EXCEPT ![p] = "absent"]
               /\ UNCHANGED <<goal, route, plugin, pc, call, env>>
  <2> USE <1>2 DEF PInv, TypeOK, Phases, Plugins, Publishing, Cleaning, call, env
  <2>1. TypeOK'
    BY SMTT(15)
  <2>2. CallsFollowGoal'
    BY SMTT(15) DEF CallsFollowGoal
  <2>3. ReadsAgree'
    BY SMTT(15) DEF ReadsAgree, ReadAgrees
  <2>4. OwnersSound'
    BY SMTT(15) DEF OwnersSound
  <2>5. Secured'
    BY SMTT(15) DEF Secured
  <2>6. Decided'
    BY SMTT(15) DEF Decided, DecidedFor
  <2>7. Cleaned'
    BY SMTT(15) DEF Cleaned
  <2> QED BY <2>1, <2>2, <2>3, <2>4, <2>5, <2>6, <2>7
<1> QED BY <1>1, <1>2 DEF Vanish

\* An operator's edit preserves the invariant.
LEMMA EditPInv == ASSUME PInv, Edit PROVE PInv'
<1> PICK more \in {{}} \cup {{m} : m \in Models} :
      plugin' = [rv |-> plugin.rv + 1, keys |-> plugin.keys \cup more, owners |-> plugin.owners]
  BY Zenon DEF Edit
<1>1. /\ plugin' \in Plugins /\ plugin'.rv = plugin.rv + 1 /\ plugin'.owners = plugin.owners
      /\ plugin'.keys = plugin.keys \cup more
  BY DEF PInv, TypeOK, Plugins
<1>2. UNCHANGED <<goal, route, grant, pc, seen, keep, tries, cuts>> /\ edits' \in 0 .. MaxEdits
  BY PublisherAssumption DEF PInv, TypeOK, Edit, call
<1>3. TypeOK'
  BY <1>1, <1>2 DEF PInv, TypeOK
<1>4. ReadsAgree' /\ Decided'
  BY <1>1, <1>2, OtherCall DEF PInv, ReadsAgree, Decided
<1>5. CallsFollowGoal' /\ OwnersSound' /\ Secured' /\ Cleaned'
  BY <1>1, <1>2 DEF PInv, CallsFollowGoal, OwnersSound, Secured, Cleaned
<1> QED BY <1>3, <1>4, <1>5 DEF PInv

\* Every step preserves the invariant.
LEMMA NextPInv == PInv /\ [Next]_vars => PInv'
<1> SUFFICES ASSUME PInv, [Next]_vars PROVE PInv'
  OBVIOUS
<1>1. CASE UNCHANGED vars
  BY <1>1 DEF vars, PInv, TypeOK, CallsFollowGoal, ReadsAgree, ReadAgrees, OwnersSound, Secured,
              Decided, DecidedFor, Cleaned
<1>2. CASE Next
  BY <1>2, EditPInv, PublishBeginPInv, EnsureBackendGrantPInv, LimitReadPInv, LimitPatchPInv,
     RoutePatchPInv, WithdrawPInv, ConfirmBeginPInv, CleanReadPInv, CleanListPInv, CleanPatchPInv,
     CleanupBackendGrantPInv, RequestPInv, CutPInv, VanishPInv
  DEF Next, CallStep
<1> QED BY <1>1, <1>2

\* The invariant of the publisher.
THEOREM PublisherInvariance == Spec => []PInv
  BY InitPInv, NextPInv, PTL DEF Spec

\* The publisher's state is well formed.
THEOREM PublisherTypeCorrect == Spec => []TypeOK
<1>1. PInv => TypeOK
  BY DEF PInv
<1> QED BY <1>1, PublisherInvariance, PTL

\* A route is exposed only with its rate limit and its grant in place, for any
\* number of simultaneous publications, withdrawals and operator edits
\* (ensureRateLimit before the route's Patch, cleanupRateLimit after it is
\* absent).
THEOREM RoutesAreLimited == Spec => []RouteLimited
<1>1. PInv => RouteLimited
  BY DEF PInv, Secured, RouteLimited
<1> QED BY <1>1, PublisherInvariance, PTL

\* A confirmed withdrawal leaves no route, grant or owner entry behind
\* (ConfirmWithdrawn).
THEOREM WithdrawalComplete == Spec => []WithdrawnLeavesNothing
<1>1. PInv => WithdrawnLeavesNothing
  BY DEF PInv, CallsFollowGoal, Cleaned, WithdrawnLeavesNothing
<1> QED BY <1>1, PublisherInvariance, PTL

\* The step in which a limit key disappears: only a clean-up removes one.
LEMMA NextKeepsKeys ==
  ASSUME PInv, [Next]_vars, NEW m \in plugin.keys \ plugin'.keys
  PROVE  /\ m \notin Unowned /\ plugin'.keys # {}
         /\ \A q \in Publications : Model[q] = m => route[q] # "live"
<1>1. PICK p \in Publications : CleanPatch(p)
  <2>1. ~(UNCHANGED vars)
    BY DEF vars
  <2>2. ~Edit
    BY DEF Edit, PInv, TypeOK, Plugins
  <2>3. \A p \in Publications : ~LimitPatch(p)
    <3> SUFFICES ASSUME NEW p \in Publications, LimitPatch(p) PROVE FALSE
      OBVIOUS
    <3> DEFINE keys == seen[p].keys \cup {Model[p]}
               owners == [seen[p].owners EXCEPT ![Model[p]] = @ \cup {p}]
    <3>1. keys \in SUBSET Models /\ owners \in [Models -> SUBSET Publications]
      BY PublisherAssumption DEF PInv, TypeOK, Plugins
    <3>2. TypeOK /\ ReadsAgree /\ pc[p] = "limitPatch" /\ PatchPlugin(p, keys, owners, "limit", "route")
      BY DEF PInv, LimitPatch
    <3>3. plugin' = plugin \/ (seen[p] = plugin /\ plugin'.keys = keys)
      <4> HIDE DEF keys, owners
      <4> QED BY <3>1, <3>2, PatchEffect, Zenon
    <3> QED BY <3>3
  <2> QED BY <2>1, <2>2, <2>3, ZenonT(60)
      DEF Next, CallStep, PublishBegin, EnsureBackendGrant, LimitRead, RoutePatch, Withdraw,
          ConfirmBegin, CleanRead, CleanList, CleanupBackendGrant, Request, Cut, Vanish
<1> DEFINE keys == IF seen[p].owners[Model[p]] = {p} /\ ~keep[p]
                   THEN KeysWithout(p) ELSE seen[p].keys
           owners == [seen[p].owners EXCEPT ![Model[p]] = @ \ {p}]
<1>2. keys \in SUBSET Models /\ owners \in [Models -> SUBSET Publications]
  BY PublisherAssumption DEF PInv, TypeOK, Plugins, KeysWithout
<1>3. TypeOK /\ ReadsAgree /\ pc[p] = "cleanPatch" /\ PatchPlugin(p, keys, owners, "clean", "ungrant")
  BY <1>1 DEF PInv, CleanPatch
<1>4. plugin' = plugin \/ (seen[p] = plugin /\ plugin'.keys = keys)
  <2> HIDE DEF keys, owners
  <2> QED BY <1>2, <1>3, PatchEffect, Zenon
<1>5. seen[p] = plugin /\ seen[p].owners[Model[p]] = {p} /\ ~keep[p] /\ m = Model[p]
  BY <1>4 DEF KeysWithout
<1>6. m \notin Unowned
  BY <1>3, <1>5 DEF PInv, Decided, DecidedFor
<1>7. \A q \in Publications : Model[q] = m => route[q] # "live"
  <2>1. route[p] = "absent"
    BY <1>3 DEF PInv, CallsFollowGoal, Cleaning
  <2>2. Secured
    BY DEF PInv
  <2> QED BY ONLY <1>5, <2>1, <2>2 DEF Secured
<1>8. plugin'.keys # {}
  <2>1. Cardinality(seen[p].keys) > 1 /\ plugin'.keys = seen[p].keys \ {m}
    BY <1>4, <1>5 DEF KeysWithout
  <2>2. seen[p].keys # {m}
    BY <2>1, FS_Singleton
  <2> QED BY <1>5, <2>1, <2>2
<1> QED BY <1>6, <1>7, <1>8

\* A limit key is never removed while some route selects it, owned or not, and
\* never the last one (hasModelRoute, the length test and the optimistic lock of
\* cleanupRateLimit).
THEOREM KeysSurvive == Spec => KeysInUseStay
<1> DEFINE Stay == \A m \in plugin.keys \ plugin'.keys :
             /\ m \notin Unowned /\ plugin'.keys # {}
             /\ \A p \in Publications : Model[p] = m => route[p] # "live"
<1>1. PInv /\ [Next]_vars => [Stay]_vars
  <2> SUFFICES ASSUME PInv, [Next]_vars PROVE Stay
    OBVIOUS
  <2> QED BY NextKeepsKeys
<1> QED BY <1>1, PublisherInvariance, PTL DEF Spec, KeysInUseStay

=============================================================================
