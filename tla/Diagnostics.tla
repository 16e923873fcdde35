---------------------------- MODULE Diagnostics -----------------------------
(***************************************************************************)
(* Runtime diagnostics (internal/data/kubernetes/diagnostics.go, called by *)
(* the handlers of internal/service/diagnostics.go).  A request reads the  *)
(* recorded bindings, lists the pods of the namespace, follows the owner   *)
(* references of each pod upwards, one read per ancestor and request, and  *)
(* accepts the pods that descend from a recorded uid.  Logs are then       *)
(* opened by pod name, events are listed by uid.  Names are reused all the *)
(* while: pods and their owners are deleted and others are created under   *)
(* the same names.                                                         *)
(***************************************************************************)
EXTENDS Integers, Sequences, FiniteSets, SequencesExt

CONSTANTS
    Pods,           \* names of pods
    Owners,         \* names of the objects above them
    OwnerName,      \* the name of the owner of each pod and each owner
    Bound,          \* the name of the bound object, at the top
    MaxDepth,       \* ancestors followed
    MaxUID,         \* bound: objects created
    MaxBytes,       \* maxLogBytes
    Second,         \* ticks of the clock in a second
    Queries,        \* log queries, with the times of the lines of the log: those
                    \* written when it is opened and those that come later
    EventQueries    \* event queries: window, offset and limit

VARIABLES
    obj,       \* the object under each name: its uid and the uid of its owner
    uids,      \* objects created so far
    lineage,   \* history: the owner of every uid there ever was; 0 is none
    binding,   \* the uid recorded for the bound object
    req        \* the request

vars == <<obj, uids, lineage, binding, req>>

Names == Pods \cup Owners \cup {Bound}
Gone == [uid |-> 0, owner |-> 0]
NoRequest == [pc |-> "idle"]

\* A pod below its chain of owners, all there and bound.
Init ==
    /\ \E f \in [Names -> 1..Cardinality(Names)] :
           /\ \A a, b \in Names : f[a] = f[b] => a = b
           /\ \A a \in Names \ {Bound} : f[OwnerName[a]] < f[a]
           /\ obj = [n \in Names |-> [uid |-> f[n],
                                      owner |-> IF n = Bound THEN 0 ELSE f[OwnerName[n]]]]
           /\ binding = f[Bound]
           /\ lineage = [u \in 1..Cardinality(Names) |->
                             obj[CHOOSE n \in Names : f[n] = u].owner]
    /\ uids = Cardinality(Names)
    /\ req = NoRequest

-----------------------------------------------------------------------------
(* The cluster, and the worker that records bindings *)

Delete(n) ==
    /\ obj[n] # Gone
    /\ obj' = [obj EXCEPT ![n] = Gone]
    /\ UNCHANGED <<uids, lineage, binding, req>>

\* An object under a free name: a child of the owner that is there, or of none.
Make(n) ==
    /\ obj[n] = Gone /\ uids < MaxUID
    /\ \E owner \in {0} \cup (IF n = Bound THEN {} ELSE {obj[OwnerName[n]].uid}) :
           /\ obj' = [obj EXCEPT ![n] = [uid |-> uids + 1, owner |-> owner]]
           /\ lineage' = Append(lineage, owner)
    /\ uids' = uids + 1
    /\ UNCHANGED <<binding, req>>

Bind ==
    /\ obj[Bound] # Gone /\ binding # obj[Bound].uid
    /\ binding' = obj[Bound].uid
    /\ UNCHANGED <<obj, uids, lineage, req>>

-----------------------------------------------------------------------------
(* A request *)

World == UNCHANGED <<obj, uids, lineage, binding>>

\* scope and CurrentRuntime: the bindings of the generation.
Begin(kind, pod) ==
    /\ req = NoRequest
    /\ req' = [pc |-> "list", kind |-> kind, pod |-> pod, bound |-> binding, todo |-> {},
               at |-> Gone, first |-> Gone, depth |-> 0, seen |-> <<>>, owned |-> {},
               stream |-> 0, log |-> <<>>]
    /\ World

\* A read fails, the context ends, or too many streams are open: so does the
\* request.
Fail ==
    /\ req.pc \notin {"idle", "done", "limit", "notfound", "failed"}
    /\ req' = [req EXCEPT !.pc = "failed"]
    /\ World

Found(n) == [name |-> n, uid |-> obj[n].uid, owner |-> obj[n].owner]

\* Pods(...).List
ListPods ==
    /\ req.pc = "list"
    /\ req' = [req EXCEPT !.pc = "next", !.todo = {Found(p) : p \in {q \in Pods : obj[q] # Gone}}]
    /\ World

\* ownedPods, the loop: the next pod, or what the caller wants of the owned ones.
NextPod ==
    /\ req.pc = "next"
    /\ \/ \E p \in req.todo :
              req' = [req EXCEPT !.pc = "climb", !.todo = @ \ {p}, !.at = p, !.first = p,
                                 !.depth = 0]
       \/ /\ req.todo = {}
          /\ req' = [req EXCEPT !.at = Gone, !.first = Gone, !.depth = 0, !.seen = <<>>,
                 !.pc = IF req.kind = "instances" THEN "done"
                        ELSE IF req.kind = "events" THEN "events"
                        ELSE IF \E p \in req.owned : p.name = req.pod THEN "open"
                        ELSE "notfound"]
    /\ World

Bindings == [name |-> Bound, uid |-> req.bound]

\* boundObject: the object is bound, has nothing above it, or is too deep.
Decide ==
    /\ req.pc = "climb"
    /\ \/ /\ req.depth <= MaxDepth
          /\ [name |-> req.at.name, uid |-> req.at.uid] = Bindings
          /\ req' = [req EXCEPT !.pc = "next", !.owned = @ \cup {req.first}]
       \/ /\ \/ req.depth > MaxDepth
             \/ req.at.owner = 0 /\ [name |-> req.at.name, uid |-> req.at.uid] # Bindings
          /\ req' = [req EXCEPT !.pc = "next"]
    /\ World

Climbing ==
    /\ req.pc = "climb" /\ req.depth <= MaxDepth /\ req.at.owner # 0
    /\ [name |-> req.at.name, uid |-> req.at.uid] # Bindings

\* Reader.Get of an ancestor, once in a request, whether it is there or not.
ReadAncestor ==
    /\ Climbing
    /\ LET n == OwnerName[req.at.name] IN
       /\ n \notin DOMAIN req.seen
       /\ req' = [req EXCEPT !.seen =
                      [m \in DOMAIN req.seen \cup {n} |-> IF m = n THEN Found(n) ELSE req.seen[m]]]
    /\ World

\* Mutant: an owner is taken by its name alone.
NamesOwner(o) == o.uid # 0

\* The reference names the object that was read.
IsOwner(o) == o.uid # 0 /\ o.uid = req.at.owner

\* boundObject, one level up
Climb ==
    /\ Climbing
    /\ OwnerName[req.at.name] \in DOMAIN req.seen
    /\ LET o == req.seen[OwnerName[req.at.name]] IN
       req' = IF IsOwner(o) THEN [req EXCEPT !.at = o, !.depth = @ + 1]
              ELSE [req EXCEPT !.pc = "next"]
    /\ World

Selected == CHOOSE p \in req.owned : p.name = req.pod

\* diagnosticsTimeRange: an empty window is turned down.
DiagnosticsTimeRange(q) == q.since = 0 \/ q.until = 0 \/ q.since < q.until

\* The option SinceTime has whole seconds.
SinceTime(q) == Second * (q.since \div Second)

\* The last TailLines lines of what is written
LastLines(q) == SubSeq(q.written, 1 + Max({0, Len(q.written) - q.tail}), Len(q.written))

\* What the API server streams with these options: the last TailLines lines that
\* are not older than SinceTime and, when it follows, the lines that come later.
Streamed(q) ==
    SelectSeq(LastLines(q), LAMBDA at : at >= SinceTime(q)) \o IF q.follow THEN q.later ELSE <<>>

\* GetLogs(name, options).Stream
OpenLog(q) ==
    /\ req.pc = "open"
    /\ DiagnosticsTimeRange(q)
    /\ req' = IF obj[req.pod] = Gone THEN [req EXCEPT !.pc = "failed"]
              ELSE [req EXCEPT !.pc = "recheck", !.stream = obj[req.pod].uid, !.log = <<q>>]
    /\ World

\* "Recheck its UID after opening to reject a replaced pod"
Recheck ==
    /\ req.pc = "recheck"
    /\ req' = [req EXCEPT !.pc = IF obj[req.pod] = Gone THEN "failed"
                                 ELSE IF obj[req.pod].uid = Selected.uid THEN "read"
                                 ELSE "notfound"]
    /\ World

\* Logs, once the pod is selected
OpenOwnLog == Recheck \/ \E q \in Queries : OpenLog(q)

-----------------------------------------------------------------------------
(* readRuntimeLogs, over the times of the lines of the stream *)

InWindow(q, at) ==
    /\ q.since # 0 => at >= q.since
    /\ q.until # 0 => at < q.until

\* A line counts for one byte.  The scan stops at the byte limit, at the line
\* limit of an answer that does not follow, and at the end of the window of one
\* that does; lines outside the window are skipped.
Scan(q) ==
    LET Stop(st, truncated) == [st EXCEPT !.stop = TRUE, !.truncated = truncated]
        Line(st, at) ==
            LET b == [st EXCEPT !.bytes = @ + 1] IN
            CASE st.stop -> st
              [] ~st.stop /\ b.bytes > MaxBytes -> Stop(b, TRUE)
              [] ~st.stop /\ b.bytes <= MaxBytes /\ ~InWindow(q, at) ->
                     IF q.follow /\ q.until # 0 /\ at >= q.until THEN Stop(b, FALSE) ELSE b
              [] OTHER ->
                     IF ~q.follow /\ Len(b.sent) >= q.tail THEN Stop(b, TRUE)
                     ELSE [b EXCEPT !.sent = Append(@, at)]
        end == FoldLeft(Line, [sent |-> <<>>, bytes |-> 0, stop |-> FALSE, truncated |-> FALSE],
                        Streamed(q)) IN
    IF end.stop THEN end ELSE [end EXCEPT !.truncated = end.bytes >= MaxBytes]

\* readRuntimeLogs for GetRuntimeLogs, whose answer says whether it was cut
\* short, and for StreamRuntimeLogs, which then ends with ErrLimit.
ReadLog ==
    /\ req.pc = "read"
    /\ LET q == req.log[1] IN
       req' = [req EXCEPT !.pc = IF q.follow /\ Scan(q).truncated THEN "limit" ELSE "done",
                          !.log = <<q, Scan(q)>>]
    /\ World

-----------------------------------------------------------------------------
(* Events *)

\* The events of the cluster: one of each object there ever was, kept after the
\* object is gone; several may have one time.
Recorded == {[id |-> u, uid |-> u, at |-> (u + 1) \div 2] : u \in 1..uids}

\* The bound object and the owned pods, by uid.
Watched == {req.bound} \cup {p.uid : p \in req.owned}

\* Newest first, then by id.
After(e, f) == e.at > f.at \/ (e.at = f.at /\ e.id > f.id)

\* Events: those of the watched uids in the window, sorted and cut to the page.
Events(q) ==
    LET result == SetToSortSeq({e \in Recorded : e.uid \in Watched /\ InWindow(q, e.at)}, After)
        end == IF q.offset + q.limit > Len(result) THEN Len(result) ELSE q.offset + q.limit IN
    [total |-> Len(result),
     items |-> IF q.offset >= Len(result) THEN <<>> ELSE SubSeq(result, q.offset + 1, end)]

ReadEvents(q) ==
    /\ req.pc = "events"
    /\ DiagnosticsTimeRange(q)
    /\ req' = [req EXCEPT !.pc = "done", !.log = <<q, Events(q)>>]
    /\ World

-----------------------------------------------------------------------------
(* The handlers *)

GetRuntimeDiagnostics == Begin("instances", "")

GetRuntimeLogs(pod) == Begin("logs", pod)

ListRuntimeEvents == Begin("events", "")

\* What GetRuntimeDiagnostics shows of each owned pod.
Instances == {[name |-> p.name, uid |-> p.uid] : p \in req.owned}

Next ==
    \/ \E n \in Names : Delete(n) \/ Make(n)
    \/ Bind
    \/ GetRuntimeDiagnostics \/ ListRuntimeEvents
    \/ \E p \in Pods : GetRuntimeLogs(p)
    \/ ListPods \/ NextPod \/ Decide \/ ReadAncestor \/ Climb
    \/ OpenOwnLog \/ ReadLog
    \/ \E q \in EventQueries : ReadEvents(q)
    \/ Fail

Spec == Init /\ [][Next]_vars

-----------------------------------------------------------------------------
(* Properties *)

Descends(u, top) ==
    LET above[k \in 0..MaxUID] ==
            IF k = 0 THEN u ELSE IF above[k - 1] = 0 THEN 0 ELSE lineage[above[k - 1]] IN
    \E k \in 0..MaxUID : above[k] = top

\* Instances, logs and events are only shown of the object whose uid was recorded
\* when the request began and of objects that really descend from it, even if
\* pods and their owners are replaced under the same names between the list, the
\* reads of the ancestors and the opening of the log.  The lines of a log that are
\* shown are those of the window among the last TailLines lines it had when it was
\* opened and, for a stream, among those that came later: in order and from the
\* first, all of them unless the answer says it was cut short or the stream ends
\* with an error, which they do only at the byte limit.  (Older lines of the
\* window are neither shown nor mentioned.)  A page of events is its part of the
\* events of these objects in the window, newest first.
OnlyOwnIsShown ==
    /\ req.pc = "done" => \A p \in Instances : Descends(p.uid, req.bound)
    /\ req.pc \in {"done", "limit"} /\ req.kind = "logs" =>
        LET q == req.log[1]
            r == req.log[2]
            asked == LastLines(q) \o IF q.follow THEN q.later ELSE <<>>
            window == SelectSeq(asked, LAMBDA at : InWindow(q, at)) IN
        /\ Descends(req.stream, req.bound)
        /\ IsPrefix(r.sent, window)
        /\ r.sent # window => IF q.follow THEN req.pc = "limit" ELSE r.truncated
        /\ r.truncated => Len(asked) >= MaxBytes
    /\ req.pc = "done" /\ req.kind = "events" =>
        LET q == req.log[1]
            r == req.log[2] IN
        /\ \A i \in DOMAIN r.items :
               Descends(r.items[i].uid, req.bound) /\ InWindow(q, r.items[i].at)
        /\ \A i, j \in DOMAIN r.items : i < j => After(r.items[i], r.items[j])
        /\ Len(r.items) = Cardinality((q.offset + 1 .. q.offset + q.limit) \cap (1 .. r.total))

=============================================================================
