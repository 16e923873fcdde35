------------------------------ MODULE MCProcess ------------------------------
(***************************************************************************)
(* Instances of StatusProjection and ServerLifecycle for TLC: the          *)
(* controllers of two replicas, and the start and stop of one process.     *)
(* They share no state; part says which one moves, and the other one       *)
(* starts in a state in which nothing is due.                              *)
(***************************************************************************)
EXTENDS Integers

VARIABLES
    part,
    db, cr, objects, applies, proj,
    app, ready, synced, loop, mgr, stop, canceled, early

statusVars == <<db, cr, objects, applies, proj>>
serverVars == <<app, ready, synced, loop, mgr, stop, canceled, early>>

Status == INSTANCE StatusProjection WITH
    Controllers <- {1, 2}, Attempts <- 2, MaxWrites <- 2, MaxObjects <- 2, MaxApplies <- 1,
    Observations <- {<<"unknown", "", "">>, <<"ready", "published", "unknown">>}

Server == INSTANCE ServerLifecycle WITH Wired <- TRUE

NoServer ==
    /\ app = "ended" /\ ready = FALSE /\ synced = FALSE /\ loop = "ended" /\ mgr = "ended"
    /\ stop = [x \in {"loop", "mgr"} |-> "returned"]
    /\ canceled = [x \in {"loop", "mgr"} |-> FALSE] /\ early = FALSE

Init ==
    /\ Status!Init
    /\ \/ part = "status" /\ NoServer
       \/ part = "server" /\ Server!Init

Next ==
    /\ UNCHANGED part
    /\ \/ part = "status" /\ Status!Next /\ UNCHANGED serverVars
       \/ part = "server" /\ Server!Next /\ UNCHANGED statusVars

FairSpec ==
    /\ Init /\ [][Next]_<<part, statusVars, serverVars>>
    /\ Status!Fairness /\ Server!Fairness

-----------------------------------------------------------------------------
(* The properties of the parts, each stated in its module *)

\* StatusProjection: once writers rest the object shows the durable state.
StatusCatchesUp == Status!StatusCatchesUp

\* ServerLifecycle: the loop works on a synced cache and ends before Stop returns,
\* and a process told to stop ends.
ShutdownEnds == Server!ShutdownEnds

=============================================================================
