----------------------------- MODULE Acceptance -----------------------------
(***************************************************************************)
(* What the command API promises its callers, without transactions, locks  *)
(* or replays: an identity (the method and the request id) is accepted at  *)
(* most once, for one command; the commands of a service form one history  *)
(* that starts with its create, gives each command the next generation and *)
(* ends with its delete; and whoever is told of an operation is told of    *)
(* the one operation of that identity, for the very command it sent        *)
(* (docs/specs/inference-service.md, section on idempotency).              *)
(***************************************************************************)
EXTENDS Integers

CONSTANTS
    Callers,
    Ids,        \* identities of requests
    Commands,   \* what a request asks for
    Services,
    KindOf(_),  \* the kind of a command
    Target(_)   \* the service a command names (not used for a create)

VARIABLES
    accepted,   \* the identities accepted so far: id -> [cmd, svc, gen]
    answer      \* what each caller is being told: [id, cmd, svc, gen]

NotAccepted == [gen |-> 0]

History(s) == {i \in Ids : accepted[i].gen # 0 /\ accepted[i].svc = s}

Closed(s) == \E i \in History(s) : KindOf(accepted[i].cmd) = "delete"

Newest(s, g) ==
    /\ \E i \in History(s) : accepted[i].gen = g
    /\ \A i \in History(s) : accepted[i].gen <= g

Told(i, a) == [id |-> i, cmd |-> a.cmd, svc |-> a.svc, gen |-> a.gen]

Init ==
    /\ accepted = [i \in Ids |-> NotAccepted]
    /\ answer = [c \in Callers |-> NotAccepted]

\* The caller's command becomes the next generation of its service, or the
\* first one of a new service, and the caller is told.
Accept(c, i) ==
    LET a == accepted'[i] IN
    /\ accepted[i] = NotAccepted /\ a # NotAccepted
    /\ a.cmd \in Commands /\ a.svc \in Services /\ a.gen \in Nat
    /\ IF KindOf(a.cmd) = "create"
         THEN History(a.svc) = {} /\ a.gen = 1
         ELSE a.svc = Target(a.cmd) /\ ~Closed(a.svc) /\ Newest(a.svc, a.gen - 1)
    /\ accepted' = [accepted EXCEPT ![i] = a]
    /\ answer[c] = NotAccepted
    /\ answer' = [answer EXCEPT ![c] = Told(i, a)]

\* A caller that repeats an accepted command is told its operation.
Repeat(c, i) ==
    /\ accepted[i] # NotAccepted
    /\ answer[c] = NotAccepted
    /\ answer' = [answer EXCEPT ![c] = Told(i, accepted[i])]
    /\ UNCHANGED accepted

\* The answer is heard, or it is lost.
Heard(c) ==
    /\ answer[c] # NotAccepted
    /\ answer' = [answer EXCEPT ![c] = NotAccepted]
    /\ UNCHANGED accepted

Next == \E c \in Callers : Heard(c) \/ \E i \in Ids : Repeat(c, i) \/ Accept(c, i)

vars == <<accepted, answer>>

Spec == Init /\ [][Next]_vars

-----------------------------------------------------------------------------
(* What follows from it *)

\* The commands of a service form one history: no two of them have the same
\* generation, the first is its create and the only one, each other generation
\* has its predecessor, and nothing follows a delete.
OneHistory ==
    \A s \in Services :
        /\ \A i, j \in History(s) : accepted[i].gen = accepted[j].gen => i = j
        /\ \A i \in History(s) : KindOf(accepted[i].cmd) = "create" <=> accepted[i].gen = 1
        /\ \A i \in History(s) : accepted[i].gen > 1 =>
               \E j \in History(s) : accepted[j].gen = accepted[i].gen - 1
        /\ \A i, j \in History(s) :
               KindOf(accepted[i].cmd) = "delete" => accepted[j].gen <= accepted[i].gen

\* What a caller is told is what was accepted under that identity.
AnswersTrue ==
    \A c \in Callers : answer[c] # NotAccepted =>
        LET i == answer[c].id IN
        i \in Ids /\ accepted[i] # NotAccepted /\ answer[c] = Told(i, accepted[i])

\* What was accepted under an identity stays: it is neither changed nor
\* accepted again.
AcceptedOnce == [][\A i \in Ids : accepted[i] # NotAccepted => accepted'[i] = accepted[i]]_vars
=============================================================================
