------------------------ MODULE CommandIntakeProofs ------------------------
(***************************************************************************)
(* That the transactions of CommandIntake implement Acceptance, for any    *)
(* number of clients, requests and services: what is accepted is accepted  *)
(* whole and once, the commands of a service form one history, and the     *)
(* spec of a generation is what was written last.                          *)
(***************************************************************************)
EXTENDS CommandIntake, TLAPS

\* The leaves are given to Zenon; those that need arithmetic name SMT.
USE ZenonT(30)

Phases == {"pending", "running", "succeeded", "failed"}
Labels == {"idle", "prepare", "image", "model", "refused", "lock", "lookup", "row", "write", "reply"}
Row == [gen : Nat, desired : {"none", "running", "stopped", "deleted"}, deleted : BOOLEAN,
        name : Names \union {Absent}]
SpecRow == [Fields -> Models \union Engines \union {Absent}]
Operation == [svc : Services, kind : Kinds, gen : Nat \ {0}, phase : Phases]
Call == [pc : Labels, req : Requests \union {Absent}, seen : Nat, op : Nat,
         phase : Phases \union {"none"}]

IntakeType ==
    /\ svc \in [Services -> Row]
    /\ spec \in [Services -> Seq(SpecRow)]
    /\ ops \in Seq(Operation)
    /\ DOMAIN idem = Ids
    /\ work \in [Services -> Nat]
    /\ quota \subseteq DOMAIN ops
    /\ lock \in [Ids -> Clients \union {NoClient}]
    /\ rowlock \in [Services -> Clients \union {NoClient}]
    /\ call \in [Clients -> Call]

Requested == \A c \in Clients : call[c].pc # "idle" => Req(c) \in Requests

\* The row of an identity holds the hash of a request of that identity, and
\* an operation of its kind.
KeptFor(i, r) ==
    /\ Identity(r) = i
    /\ idem[i] = [hash |-> Hash(r), op |-> idem[i].op]
    /\ idem[i].op \in DOMAIN ops
    /\ ops[idem[i].op].kind = r.kind

Kept == \A i \in Ids : idem[i] # NoRow => \E r \in Requests : KeptFor(i, r)

\* No operation was accepted under two identities.
OneIdentity == \A i, j \in Ids : idem[i].op = idem[j].op /\ idem[i].op # 0 => i = j

\* The locks a call holds, and what they keep as the call found it.
Holds(c) ==
    /\ call[c].pc \in {"lookup", "row", "write"} => lock[Id(c)] = c
    /\ call[c].pc \in {"row", "write"} => idem[Id(c)] = NoRow
    /\ call[c].pc = "row" => Req(c).kind # "create"
    /\ call[c].pc = "write" /\ Req(c).kind # "create" =>
           /\ rowlock[Req(c).svc] = c
           /\ Permitted(Req(c), svc[Req(c).svc])
           /\ call[c].seen = svc[Req(c).svc].gen

LocksHeld == \A c \in Clients : Holds(c)

\* A service that is there was commanded last at its generation, and has a spec
\* for every generation but that of its delete.
CommandedBy(s, i) ==
    idem[i] # NoRow /\ ops[idem[i].op].svc = s /\ ops[idem[i].op].gen = svc[s].gen

ServicesWhole ==
    \A s \in Services :
        /\ svc[s].gen = 0 <=> svc[s] = NoService
        /\ svc[s] = NoService => spec[s] = <<>>
        /\ svc[s] # NoService =>
               /\ \E i \in Ids : CommandedBy(s, i)
               /\ Len(spec[s]) = IF svc[s].desired = "deleted" THEN svc[s].gen - 1 ELSE svc[s].gen

OperationsWhole ==
    \A o \in DOMAIN ops :
        /\ ops[o].gen <= svc[ops[o].svc].gen
        /\ ops[o].kind = "delete" => svc[ops[o].svc].desired = "deleted"

\* The spec of generation g holds, in field f, what identity i wrote with
\* operation o, and no later operation up to that generation selected f.
Selects(o, f) == \E i \in Ids : idem[i].op = o /\ f \in idem[i].hash.mask

WriterOf(s, g, f) ==
    {o \in DOMAIN ops : ops[o].svc = s /\ ops[o].gen <= g /\ Selects(o, f)}

LastWrittenBy(s, g, f, o, i) ==
    /\ o \in WriterOf(s, g, f)
    /\ \A p \in WriterOf(s, g, f) : p <= o
    /\ idem[i].op = o
    /\ spec[s][g][f] = idem[i].hash.set[f]

LastWritten ==
    \A s \in Services : \A g \in DOMAIN spec[s] : \A f \in Fields :
        \E o \in DOMAIN ops, i \in Ids : LastWrittenBy(s, g, f, o, i)

Answered == \A c \in Clients : call[c].pc = "reply" => call[c].op \in DOMAIN ops

CInv ==
    /\ IntakeType /\ Requested /\ Kept /\ OneIdentity /\ LocksHeld
    /\ ServicesWhole /\ OperationsWhole /\ AcceptedIsWhole /\ LastWritten /\ Answered

-----------------------------------------------------------------------------
(* Requests and their hashes *)

\* A record of a request is determined by its fields.
LEMMA SameRequest ==
    ASSUME NEW q \in Request, NEW r \in Request,
           q.kind = r.kind, q.key = r.key, q.svc = r.svc, q.gen = r.gen, q.name = r.name,
           q.mask = r.mask, q.provider = r.provider, q.set = r.set
    PROVE  q = r
  BY SMTT(15) DEF Request

\* The services a request may name, and the fields it selects.
LEMMA RequestOf ==
    ASSUME NEW r \in Requests
    PROVE  /\ r \in Request /\ r.kind \in Kinds
           /\ r.kind # "create" => r.svc \in Services
           /\ \A f \in r.mask : r.set[f] # Absent
           /\ r.kind = "create" => r.mask = Fields /\ r.name # Absent
           /\ r.kind \notin {"create", "update"} => r.mask = {}
           /\ Identity(r) \in Ids
<1>1. IsRequest(r)
  BY IntakeAssumption
<1>2. r \in Request /\ r.kind \in Kinds /\ r.svc \in 0 .. MaxServices
  BY <1>1 DEF IsRequest, Request
<1>3. r.kind # "create" => r.svc >= 1
  BY <1>1 DEF IsRequest
<1>4. r.kind # "create" => r.svc \in Services
  BY <1>2, <1>3, IntakeAssumption, SMTT(15) DEF Services
<1>5. Identity(r) \in Ids
  BY DEF Ids
<1> QED
  BY <1>1, <1>2, <1>4, <1>5 DEF IsRequest

\* Hashing keeps a request but for its provider and the fields its mask leaves
\* out, and hashing again changes nothing.
LEMMA HashOf ==
    ASSUME NEW r \in Requests
    PROVE  /\ Hash(r) \in Request
           /\ Hash(r).kind = r.kind /\ Hash(r).key = r.key /\ Hash(r).svc = r.svc
           /\ Hash(r).name = r.name /\ Hash(r).mask = r.mask /\ Hash(r).gen = r.gen
           /\ \A f \in r.mask : Hash(r).set[f] = r.set[f]
           /\ r.kind = "update" => \A f \in Fields \ r.mask : Hash(r).set[f] = Absent
           /\ Hash(Hash(r)) = Hash(r)
<1>1. r \in Request /\ r.mask \subseteq Fields
  BY RequestOf DEF Request
<1>2. CASE r.kind = "create"
  <2>1. Hash(r) = CanonicalCreate(r)
    BY <1>2 DEF Hash
  <2>2. RuntimeProvider(r.provider) = "kserve"
    BY <1>1 DEF RuntimeProvider, Request
  <2>3. CanonicalCreate(r) \in Request
    BY <1>1, <2>2 DEF CanonicalCreate, Request
  <2>4. /\ CanonicalCreate(r).kind = r.kind /\ CanonicalCreate(r).key = r.key
        /\ CanonicalCreate(r).svc = r.svc /\ CanonicalCreate(r).name = r.name
        /\ CanonicalCreate(r).mask = r.mask /\ CanonicalCreate(r).gen = r.gen
        /\ CanonicalCreate(r).set = r.set /\ CanonicalCreate(r).provider = "kserve"
    BY <1>1, <2>2 DEF CanonicalCreate, Request
  <2> DEFINE h == CanonicalCreate(r)
  <2>5. Hash(h) = CanonicalCreate(h)
    BY <1>2, <2>4 DEF Hash
  <2>6. RuntimeProvider(h.provider) = "kserve"
    BY <2>4 DEF RuntimeProvider
  <2> HIDE DEF h
  <2>7. CanonicalCreate(h) = h
    BY <2>3, <2>4, <2>6 DEF CanonicalCreate, Request, h
  <2> QED
    BY <1>2, <2>1, <2>3, <2>4, <2>5, <2>7 DEF h
<1>3. CASE r.kind = "update"
  <2> DEFINE set == [f \in Fields |-> IF f \in r.mask THEN r.set[f] ELSE Absent]
             h == [r EXCEPT !.set = set]
  <2>1. Hash(r) = h
    BY <1>3 DEF Hash, CanonicalUpdate
  <2>2. set \in [Fields -> Models \union Engines \union {Absent}]
    BY <1>1 DEF Request
  <2>3. \A f \in Fields : set[f] = IF f \in r.mask THEN r.set[f] ELSE Absent
    OBVIOUS
  <2> HIDE DEF set
  <2>4. /\ h \in Request /\ h.kind = r.kind /\ h.key = r.key /\ h.svc = r.svc /\ h.name = r.name
        /\ h.mask = r.mask /\ h.gen = r.gen /\ h.set = set
    BY <1>1, <2>2 DEF Request
  <2> HIDE DEF h
  <2>5. Hash(h) = [h EXCEPT !.set = [f \in Fields |-> IF f \in h.mask THEN h.set[f] ELSE Absent]]
    BY <1>3, <2>4 DEF Hash, CanonicalUpdate
  <2>6. [f \in Fields |-> IF f \in h.mask THEN h.set[f] ELSE Absent] = h.set
    BY <2>2, <2>3, <2>4
  <2>7. Hash(h) = h
    BY <2>4, <2>5, <2>6 DEF Request
  <2> QED
    BY <1>1, <1>3, <2>1, <2>3, <2>4, <2>7
<1>4. CASE r.kind \notin {"create", "update"}
  <2>1. Hash(r) = r
    BY <1>4 DEF Hash
  <2> QED
    BY <1>1, <1>4, <2>1
<1> QED
  BY <1>2, <1>3, <1>4

\* What is asked for does not depend on how often the request was hashed.
LEMMA CommandOf ==
    ASSUME NEW r \in Requests
    PROVE  Command(Hash(r)) = Command(r) /\ Command(r).kind = r.kind /\ Command(r).svc = r.svc
<1>1. /\ Hash(r).kind = r.kind /\ Hash(Hash(r)) = Hash(r) /\ Hash(r).svc = r.svc
      /\ Hash(r) \in Request
  BY HashOf
<1>2. Command(Hash(r)) = Command(r)
  BY <1>1 DEF Command
<1>3. Command(r).kind = r.kind /\ Command(r).svc = r.svc
  BY <1>1 DEF Command, Request
<1> QED
  BY <1>2, <1>3

\* A delete that names another generation asks for the same.
LEMMA LegacyCommand ==
    ASSUME NEW r \in Requests, NEW q \in Requests, NEW g,
           r.kind = "delete", Hash(q) = [r EXCEPT !.gen = g]
    PROVE  Command(Hash(q)) = Command(r)
<1>1. r \in Request /\ Hash(r) = r
  BY RequestOf DEF Hash
<1>2. Hash(q).kind = "delete" /\ Hash(Hash(q)) = Hash(q)
  <2>1. [r EXCEPT !.gen = g].kind = "delete"
    BY <1>1 DEF Request
  <2> QED
    BY <2>1, HashOf
<1>3. [Hash(q) EXCEPT !.gen = 0] = [r EXCEPT !.gen = 0]
  BY <1>1 DEF Request
<1> QED
  BY <1>1, <1>2, <1>3 DEF Command

-----------------------------------------------------------------------------
(* Steps of a call that leave the tables alone *)

\* The locks of the other calls stay.
OthersKeepLocks(c) ==
    /\ lock' \in [Ids -> Clients \union {NoClient}]
    /\ rowlock' \in [Services -> Clients \union {NoClient}]
    /\ \A d \in Clients \ {c} :
           /\ \A i \in Ids : lock[i] = d => lock'[i] = d
           /\ \A s \in Services : rowlock[s] = d => rowlock'[s] = d

\* Initially there is nothing.
LEMMA IntakeInit == Init => CInv
<1> SUFFICES ASSUME Init PROVE CInv
  OBVIOUS
<1>1. IntakeType
  BY SMTT(15) DEF Init, IntakeType, Row, Operation, Call, NoService, Idle, Labels
<1>2. \A c \in Clients : call[c].pc = "idle"
  BY DEF Init, Idle
<1>3. \A i \in Ids : idem[i] = NoRow /\ idem[i].op = 0
  BY DEF Init, NoRow
<1>4. \A s \in Services : svc[s] = NoService /\ svc[s].gen = 0 /\ spec[s] = <<>>
  BY DEF Init, NoService
<1>5. DOMAIN ops = {}
  BY SMTT(15) DEF Init
<1>6. Requested /\ LocksHeld /\ Answered
  BY <1>2 DEF Requested, LocksHeld, Holds, Answered
<1>7. Kept /\ OneIdentity
  BY <1>3 DEF Kept, OneIdentity
<1>8. ServicesWhole
  BY <1>4 DEF ServicesWhole
<1>9. OperationsWhole /\ AcceptedIsWhole
  BY <1>5 DEF OperationsWhole, AcceptedIsWhole
<1>10. LastWritten
  BY <1>4, SMTT(15) DEF LastWritten
<1> QED
  BY <1>1, <1>6, <1>7, <1>8, <1>9, <1>10 DEF CInv

\* A call that holds what its place asks for, and leaves the locks of others
\* and the tables alone, preserves the invariant.
LEMMA CallStep ==
    ASSUME CInv, NEW c \in Clients, NEW x \in Call, UNCHANGED store,
           call' = [call EXCEPT ![c] = x],
           OthersKeepLocks(c), Holds(c)',
           x.pc # "idle" => x.req \in Requests,
           x.pc = "reply" => x.op \in DOMAIN ops
    PROVE  CInv'
<1>1. call \in [Clients -> Call] /\ call' \in [Clients -> Call]
  BY DEF CInv, IntakeType
<1>2. call'[c] = x /\ \A d \in Clients \ {c} : call'[d] = call[d]
  BY <1>1
<1>3. IntakeType'
  BY <1>1 DEF CInv, IntakeType, OthersKeepLocks, store
<1>4. Requested'
  BY <1>2 DEF CInv, Requested, Req
<1>5. Answered'
  BY <1>2 DEF CInv, Answered, store
<1>6. LocksHeld'
  <2> SUFFICES ASSUME NEW d \in Clients PROVE Holds(d)'
    BY DEF LocksHeld
  <2>1. CASE d # c
    <3>1. /\ Holds(d) /\ call'[d] = call[d] /\ Req(d)' = Req(d) /\ Id(d)' = Id(d)
          /\ svc' = svc /\ idem' = idem
      BY <1>2, <2>1 DEF CInv, LocksHeld, Holds, Req, Id, store
    <3>2. call[d].pc # "idle" => Req(d) \in Requests
      BY DEF CInv, Requested
    <3>3. call[d].pc # "idle" => Id(d) \in Ids /\ (Req(d).kind # "create" => Req(d).svc \in Services)
      BY <3>2, RequestOf DEF Id
    <3> QED
      BY <2>1, <3>1, <3>3 DEF Holds, OthersKeepLocks
  <2> QED
    BY <2>1
<1>7. Kept' /\ OneIdentity'
  BY DEF CInv, Kept, KeptFor, OneIdentity, store
<1>8. ServicesWhole' /\ OperationsWhole' /\ AcceptedIsWhole'
  BY SMTT(15) DEF CInv, ServicesWhole, CommandedBy, OperationsWhole, AcceptedIsWhole, store
<1>9. LastWritten'
  BY SMTT(15) DEF CInv, LastWritten, LastWrittenBy, WriterOf, Selects, store
<1> QED
  BY <1>3, <1>4, <1>5, <1>6, <1>7, <1>8, <1>9 DEF CInv

\* The end of a transaction frees the locks of the call, and no others.
LEMMA UnlockOwn ==
    ASSUME CInv, NEW c \in Clients, Unlock(c)
    PROVE  OthersKeepLocks(c)
<1>1. lock \in [Ids -> Clients \union {NoClient}] /\ rowlock \in [Services -> Clients \union {NoClient}]
  BY DEF CInv, IntakeType
<1> QED
  BY <1>1, SMTT(15) DEF Unlock, OthersKeepLocks

\* A step that leaves the locks alone keeps those of the others.
LEMMA KeepLocks ==
    ASSUME CInv, NEW c \in Clients, UNCHANGED <<lock, rowlock>>
    PROVE  OthersKeepLocks(c)
  BY DEF CInv, IntakeType, OthersKeepLocks

\* A call outside a transaction holds nothing.
LEMMA OutsideHolds ==
    ASSUME CInv, NEW c \in Clients, NEW x \in Call, call' = [call EXCEPT ![c] = x],
           x.pc \notin {"lookup", "row", "write"}
    PROVE  Holds(c)'
<1>1. call'[c] = x
  BY DEF CInv, IntakeType
<1> QED
  BY <1>1 DEF Holds

\* Moves to a place outside the transaction, with and without the end of one.
LEMMA MoveStep ==
    ASSUME CInv, NEW c \in Clients, NEW x \in Call, UNCHANGED store,
           call' = [call EXCEPT ![c] = x],
           Unlock(c) \/ UNCHANGED <<lock, rowlock>>,
           x.pc \notin {"lookup", "row", "write"},
           x.pc # "idle" => x.req \in Requests,
           x.pc = "reply" => x.op \in DOMAIN ops
    PROVE  CInv'
<1>1. OthersKeepLocks(c)
  BY UnlockOwn, KeepLocks
<1>2. Holds(c)'
  BY OutsideHolds
<1> QED
  BY <1>1, <1>2, CallStep

-----------------------------------------------------------------------------
(* What a caller sees of such steps *)

\* An identity is accepted once it has a row, with a generation.
LEMMA AcceptedOf ==
    ASSUME CInv, NEW i \in Ids
    PROVE  /\ idem[i] = NoRow => AcceptedCommands[i] = API!NotAccepted
           /\ idem[i] # NoRow =>
                  /\ AcceptedCommands[i] = Accepted(idem[i].op, idem[i].hash)
                  /\ idem[i].op \in DOMAIN ops
                  /\ AcceptedCommands[i] # API!NotAccepted
<1>1. idem[i] = NoRow => AcceptedCommands[i] = API!NotAccepted
  BY DEF AcceptedCommands, API!NotAccepted
<1>2. ASSUME idem[i] # NoRow
      PROVE  /\ AcceptedCommands[i] = Accepted(idem[i].op, idem[i].hash)
             /\ idem[i].op \in DOMAIN ops /\ ops[idem[i].op].gen # 0
  <2>1. idem[i].op \in DOMAIN ops
    BY <1>2 DEF CInv, Kept, KeptFor
  <2>2. ops[idem[i].op] \in Operation
    BY <2>1, SMTT(15) DEF CInv, IntakeType
  <2> QED
    BY <1>2, <2>1, <2>2 DEF AcceptedCommands, Operation
<1>3. ASSUME idem[i] # NoRow PROVE AcceptedCommands[i] # API!NotAccepted
  BY <1>2, <1>3, SMTT(15) DEF Accepted, API!NotAccepted
<1> QED
  BY <1>1, <1>2, <1>3

\* An answer names an operation, and so is one.
LEMMA AnswerOf ==
    ASSUME CInv, NEW c \in Clients
    PROVE  Answers[c] = API!NotAccepted <=> call[c].pc # "reply"
<1>1. ASSUME call[c].pc = "reply" PROVE ops[call[c].op].gen # 0
  <2>1. ops[call[c].op] \in Operation
    BY <1>1, SMTT(15) DEF CInv, Answered, IntakeType
  <2> QED
    BY <2>1 DEF Operation
<1>2. Answers[c] = IF call[c].pc = "reply" THEN Answer(c) ELSE [gen |-> 0]
  BY DEF Answers
<1>3. Answer(c).gen = ops[call[c].op].gen
  BY DEF Answer, Accepted
<1> QED
  BY <1>1, <1>2, <1>3, SMTT(15) DEF API!NotAccepted

\* A step of one call that leaves the tables alone changes no other answer.
LEMMA OneAnswer ==
    ASSUME CInv, NEW c \in Clients, NEW x \in Call, UNCHANGED store,
           call' = [call EXCEPT ![c] = x]
    PROVE  /\ AcceptedCommands' = AcceptedCommands
           /\ Answers' = [Answers EXCEPT ![c] = IF x.pc = "reply" THEN Answer(c)' ELSE [gen |-> 0]]
<1>1. call'[c] = x /\ \A d \in Clients \ {c} : call'[d] = call[d]
  BY DEF CInv, IntakeType
<1>2. AcceptedCommands' = AcceptedCommands
  BY DEF AcceptedCommands, Accepted, store
<1>3. \A d \in Clients \ {c} : Answer(d)' = Answer(d)
  BY <1>1 DEF Answer, Accepted, Req, Id, store
<1>4. \A d \in Clients : Answers'[d] =
          IF d = c THEN IF x.pc = "reply" THEN Answer(c)' ELSE [gen |-> 0] ELSE Answers[d]
  BY <1>1, <1>3 DEF Answers
<1>5. DOMAIN Answers = Clients /\ DOMAIN Answers' = Clients
  BY DEF Answers
<1>6. Answers' = [d \in Clients |-> Answers'[d]] /\ Answers = [d \in Clients |-> Answers[d]]
  BY DEF Answers
<1> QED
  BY <1>2, <1>4, <1>5, <1>6

\* A call that does not come to its answer is not seen, or its answer is heard
\* or lost.
LEMMA QuietStep ==
    ASSUME CInv, NEW c \in Clients, NEW x \in Call, UNCHANGED store,
           call' = [call EXCEPT ![c] = x], x.pc # "reply"
    PROVE  [API!Next]_(API!vars)
<1>1. /\ AcceptedCommands' = AcceptedCommands
      /\ Answers' = [Answers EXCEPT ![c] = API!NotAccepted]
  BY OneAnswer DEF API!NotAccepted
<1>2. CASE call[c].pc = "reply"
  <2>1. Answers[c] # API!NotAccepted
    BY <1>2, AnswerOf
  <2>2. API!Heard(c)
    BY <1>1, <2>1 DEF API!Heard
  <2> QED
    BY <2>2 DEF API!Next
<1>3. CASE call[c].pc # "reply"
  <2>1. Answers[c] = API!NotAccepted
    BY <1>3, AnswerOf
  <2>2. Answers' = Answers
    BY <1>1, <2>1 DEF Answers
  <2> QED
    BY <1>1, <2>2 DEF API!vars
<1> QED
  BY <1>2, <1>3

\* A replay tells the operation that was accepted for the same command.
LEMMA ReplayStep ==
    ASSUME CInv, NEW c \in Clients, NEW x \in Call, UNCHANGED store,
           call' = [call EXCEPT ![c] = x], x.pc = "reply", call[c].pc \notin {"idle", "reply"},
           x.req = Req(c), idem[Id(c)] # NoRow, x.op = Found(c),
           Command(idem[Id(c)].hash) = Command(Req(c))
    PROVE  [API!Next]_(API!vars)
<1>1. Req(c) \in Requests /\ Id(c) \in Ids
  BY RequestOf DEF CInv, Requested, Id
<1>2. /\ AcceptedCommands' = AcceptedCommands
      /\ Answers' = [Answers EXCEPT ![c] = Answer(c)']
  BY OneAnswer
<1>3. Answers[c] = API!NotAccepted
  BY AnswerOf
<1>4. /\ AcceptedCommands[Id(c)] = Accepted(Found(c), idem[Id(c)].hash)
      /\ AcceptedCommands[Id(c)] # API!NotAccepted
  BY <1>1, AcceptedOf DEF Found, GetIdempotency
<1>5. call'[c] = x
  BY DEF CInv, IntakeType
<1>6. Req(c)' = Req(c) /\ Id(c)' = Id(c) /\ call'[c].op = Found(c) /\ ops' = ops
  BY <1>5 DEF Req, Id, store
<1>7. Answer(c)' = [id |-> Id(c), cmd |-> Command(Req(c)), svc |-> ops[Found(c)].svc,
                    gen |-> ops[Found(c)].gen]
  BY <1>6 DEF Answer, Accepted
<1>8. Answer(c)' = API!Told(Id(c), AcceptedCommands[Id(c)])
  BY <1>4, <1>7, SMTT(15) DEF API!Told, Accepted
<1>9. API!Repeat(c, Id(c))
  BY <1>2, <1>3, <1>4, <1>8 DEF API!Repeat
<1> QED
  BY <1>1, <1>9 DEF API!Next

-----------------------------------------------------------------------------
(* The steps of a call before it writes *)

\* What a step must do: keep the invariant, and be a step of Acceptance or unseen.
Good == CInv' /\ [API!Next]_(API!vars)

\* A call that goes to another place.
LEMMA GotoStep ==
    ASSUME CInv, NEW c \in Clients, NEW pc \in {"image", "model", "refused", "lock"},
           call[c].pc # "idle", UNCHANGED <<store, lock, rowlock>>, Goto(c, pc)
    PROVE  Good
<1> DEFINE x == [call[c] EXCEPT !.pc = pc]
<1>1. call[c] \in Call /\ Req(c) \in Requests
  BY DEF CInv, IntakeType, Requested
<1>2. x \in Call /\ x.pc = pc /\ x.req = Req(c)
  BY <1>1 DEF Call, Labels, Req
<1>3. call' = [call EXCEPT ![c] = x]
  BY DEF Goto
<1> HIDE DEF x
<1>4. CInv'
  BY <1>1, <1>2, <1>3, MoveStep
<1>5. [API!Next]_(API!vars)
  BY <1>2, <1>3, QuietStep
<1> QED
  BY <1>4, <1>5 DEF Good

\* A call that ends.
LEMMA EndStep ==
    ASSUME CInv, NEW c \in Clients, UNCHANGED store, call' = [call EXCEPT ![c] = Idle],
           Unlock(c) \/ UNCHANGED <<lock, rowlock>>
    PROVE  Good
<1>1. Idle \in Call /\ Idle.pc = "idle"
  BY DEF Idle, Call, Labels
<1>2. CInv'
  BY <1>1, MoveStep
<1>3. [API!Next]_(API!vars)
  BY <1>1, QuietStep
<1> QED
  BY <1>2, <1>3 DEF Good

\* A call that finds the operation of its request.
LEMMA ReplayGood ==
    ASSUME CInv, NEW c \in Clients, call[c].pc \notin {"idle", "reply"}, UNCHANGED store,
           Unlock(c) \/ UNCHANGED <<lock, rowlock>>, Replay(c), idem[Id(c)] # NoRow,
           idem[Id(c)].hash = Hash(Req(c)) \/ LegacyDelete(Req(c), idem[Id(c)])
    PROVE  Good
<1>1. call[c] \in Call /\ Req(c) \in Requests /\ Id(c) \in Ids
  BY RequestOf DEF CInv, IntakeType, Requested, Id
<1>2. PICK q \in Requests : KeptFor(Id(c), q)
  BY <1>1 DEF CInv, Kept
<1>3. idem[Id(c)].hash = Hash(q) /\ Found(c) \in DOMAIN ops /\ Found(c) = idem[Id(c)].op
  BY <1>2, SMTT(15) DEF KeptFor, Found, GetIdempotency
<1>4. Found(c) \in Nat /\ ops[Found(c)].phase \in Phases
  <2>1. ops \in Seq(Operation)
    BY DEF CInv, IntakeType
  <2>2. ops[Found(c)] \in Operation /\ Found(c) \in Nat
    BY <1>3, <2>1, SMTT(15)
  <2> QED
    BY <2>2 DEF Operation
<1> DEFINE x == [call[c] EXCEPT !.pc = "reply", !.op = Found(c), !.phase = ReplayPhase(c)]
<1>5. ReplayPhase(c) \in Phases
  BY <1>4 DEF ReplayPhase, Phases
<1>6. x \in Call /\ x.pc = "reply" /\ x.req = Req(c) /\ x.op = Found(c)
  BY <1>1, <1>4, <1>5 DEF Call, Labels, Req
<1>7. call' = [call EXCEPT ![c] = x]
  BY DEF Replay
<1>8. Command(idem[Id(c)].hash) = Command(Req(c))
  <2>1. CASE idem[Id(c)].hash = Hash(Req(c))
    BY <1>1, <2>1, CommandOf
  <2>2. CASE LegacyDelete(Req(c), idem[Id(c)])
    <3> DEFINE g == ops[idem[Id(c)].op].gen - 1
    <3>1. Req(c).kind = "delete" /\ Hash(q) = [Req(c) EXCEPT !.gen = g]
      BY <1>3, <2>2 DEF LegacyDelete
    <3> HIDE DEF g
    <3> QED
      BY <1>1, <1>3, <3>1, LegacyCommand, SMTT(15)
  <2> QED
    BY <2>1, <2>2
<1> HIDE DEF x
<1>9. CInv'
  BY <1>1, <1>3, <1>6, <1>7, MoveStep
<1>10. [API!Next]_(API!vars)
  BY <1>6, <1>7, <1>8, ReplayStep
<1> QED
  BY <1>9, <1>10 DEF Good

\* Send
LEMMA SendGood ==
    ASSUME CInv, NEW c \in Clients, NEW r \in Requests, Send(c, r)
    PROVE  Good
<1> DEFINE x == [Idle EXCEPT !.pc = Entry(r.kind), !.req = r]
<1>1. x \in Call /\ x.pc \in {"prepare", "lock"} /\ x.req = r
  BY DEF Idle, Call, Labels, Entry
<1>2. call' = [call EXCEPT ![c] = x] /\ UNCHANGED <<store, lock, rowlock>>
  BY DEF Send
<1> HIDE DEF x
<1>3. CInv'
  BY <1>1, <1>2, MoveStep
<1>4. [API!Next]_(API!vars)
  BY <1>1, <1>2, QuietStep
<1> QED
  BY <1>3, <1>4 DEF Good

\* The reads of other services on the way of a create.
LEMMA CreateReadsGood ==
    ASSUME CInv, NEW c \in Clients, NamespaceCreate(c) \/ ImageCreate(c) \/ ModelCreate(c)
    PROVE  Good
<1>1. /\ call[c].pc # "idle" /\ UNCHANGED <<store, lock, rowlock>>
      /\ \E pc \in {"image", "model", "refused", "lock"} : Goto(c, pc)
  BY DEF NamespaceCreate, ImageCreate, ModelCreate, Refuse
<1> QED
  BY <1>1, GotoStep

\* The preflight of an update: it goes on, is replayed or is in conflict.
LEMMA UpdateReadsGood ==
    ASSUME CInv, NEW c \in Clients, ImagePrepare(c) \/ ImageUpdate(c) \/ ModelUpdate(c)
    PROVE  Good
<1>1. call[c].pc \notin {"idle", "reply"} /\ UNCHANGED <<store, lock, rowlock>>
  BY DEF ImagePrepare, ImageUpdate, ModelUpdate
<1>2. \/ \E pc \in {"image", "model", "refused", "lock"} : Goto(c, pc)
      \/ idem[Id(c)] # NoRow /\ idem[Id(c)].hash = Hash(Req(c)) /\ Replay(c)
      \/ call' = [call EXCEPT ![c] = Idle]
  BY DEF ImagePrepare, ImageUpdate, ModelUpdate, PrepareUpdate, Refuse, GetIdempotency
<1> QED
  BY <1>1, <1>2, GotoStep, ReplayGood, EndStep

\* Refused, Reply and CutOff
LEMMA EndsGood ==
    ASSUME CInv, NEW c \in Clients, Refused(c) \/ Reply(c) \/ CutOff(c)
    PROVE  Good
<1>1. /\ UNCHANGED store /\ call' = [call EXCEPT ![c] = Idle]
      /\ Unlock(c) \/ UNCHANGED <<lock, rowlock>>
  BY DEF Refused, Reply, CutOff, Fail
<1> QED
  BY <1>1, EndStep

\* LockIdempotency: nobody else holds the identity.
LEMMA LockGood ==
    ASSUME CInv, NEW c \in Clients, LockIdempotency(c)
    PROVE  Good
<1> DEFINE x == [call[c] EXCEPT !.pc = "lookup"]
<1>1. call[c] \in Call /\ Req(c) \in Requests /\ Id(c) \in Ids /\ NoClient \notin Clients
  BY RequestOf, IntakeAssumption DEF CInv, IntakeType, Requested, LockIdempotency, Id
<1>2. x \in Call /\ x.pc = "lookup" /\ x.req = Req(c)
  BY <1>1 DEF Call, Labels, Req
<1>3. call' = [call EXCEPT ![c] = x] /\ UNCHANGED <<store, rowlock>>
  BY DEF LockIdempotency, Goto
<1> HIDE DEF x
<1>4. /\ lock \in [Ids -> Clients \union {NoClient}]
      /\ rowlock \in [Services -> Clients \union {NoClient}]
      /\ call \in [Clients -> Call]
  BY DEF CInv, IntakeType
<1>5. lock[Id(c)] = NoClient /\ lock' = [lock EXCEPT ![Id(c)] = c]
  BY DEF LockIdempotency
<1>6. OthersKeepLocks(c)
  BY <1>1, <1>3, <1>4, <1>5 DEF OthersKeepLocks
<1>7. call'[c] = x /\ Id(c)' = Id(c)
  BY <1>2, <1>3, <1>4 DEF Id, Req
<1>8. Holds(c)'
  BY <1>1, <1>2, <1>4, <1>5, <1>7 DEF Holds
<1>9. CInv'
  BY <1>1, <1>2, <1>3, <1>6, <1>8, CallStep
<1>10. [API!Next]_(API!vars)
  BY <1>2, <1>3, QuietStep
<1> QED
  BY <1>9, <1>10 DEF Good

\* Lookup
LEMMA LookupGood ==
    ASSUME CInv, NEW c \in Clients, Lookup(c)
    PROVE  Good
<1>1. call[c].pc = "lookup" /\ UNCHANGED store
  BY DEF Lookup
<1>2. call[c] \in Call /\ Req(c) \in Requests /\ lock[Id(c)] = c
  BY <1>1 DEF CInv, IntakeType, Requested, LocksHeld, Holds
<1>3. CASE /\ idem[Id(c)] = NoRow /\ UNCHANGED <<lock, rowlock>>
           /\ Goto(c, IF Req(c).kind = "create" THEN "write" ELSE "row")
  <2> DEFINE x == [call[c] EXCEPT !.pc = IF Req(c).kind = "create" THEN "write" ELSE "row"]
  <2>1. /\ x \in Call /\ x.req = Req(c)
        /\ x.pc = IF Req(c).kind = "create" THEN "write" ELSE "row"
    BY <1>2 DEF Call, Labels, Req
  <2>2. call' = [call EXCEPT ![c] = x]
    BY <1>3 DEF Goto
  <2> HIDE DEF x
  <2>3. call'[c] = x /\ Req(c)' = Req(c) /\ Id(c)' = Id(c)
    BY <2>1, <2>2 DEF CInv, IntakeType, Req, Id
  <2>4. Holds(c)'
    BY <1>1, <1>2, <1>3, <2>1, <2>3 DEF Holds, store
  <2>5. CInv'
    BY <1>1, <1>2, <1>3, <2>1, <2>2, <2>4, KeepLocks, CallStep
  <2>6. [API!Next]_(API!vars)
    BY <1>1, <2>1, <2>2, QuietStep
  <2> QED
    BY <2>5, <2>6 DEF Good
<1>4. CASE /\ idem[Id(c)] # NoRow /\ Replay(c) /\ Unlock(c)
           /\ idem[Id(c)].hash = Hash(Req(c)) \/ LegacyDelete(Req(c), idem[Id(c)])
  BY <1>1, <1>4, ReplayGood
<1>5. CASE Fail(c)
  BY <1>1, <1>5, EndStep DEF Fail
<1> QED
  BY <1>3, <1>4, <1>5 DEF Lookup, GetIdempotency

\* GetServiceForUpdate: what the row was when it was locked.
LEMMA RowGood ==
    ASSUME CInv, NEW c \in Clients, GetServiceForUpdate(c)
    PROVE  Good
<1> DEFINE s == Req(c).svc
           x == [call[c] EXCEPT !.pc = "write", !.seen = svc[s].gen]
<1>1. call[c].pc = "row" /\ UNCHANGED store /\ rowlock[s] = NoClient
  BY DEF GetServiceForUpdate
<1>2. /\ call[c] \in Call /\ Req(c) \in Requests /\ lock[Id(c)] = c /\ idem[Id(c)] = NoRow
      /\ Req(c).kind # "create"
  BY <1>1 DEF CInv, IntakeType, Requested, LocksHeld, Holds
<1>3. s \in Services /\ svc[s].gen \in Nat
  BY <1>2, RequestOf DEF CInv, IntakeType, Row
<1>4. CASE /\ Permitted(Req(c), svc[s]) /\ rowlock' = [rowlock EXCEPT ![s] = c]
           /\ call' = [call EXCEPT ![c].pc = "write", ![c].seen = svc[s].gen] /\ UNCHANGED lock
  <2>1. x \in Call /\ x.req = Req(c) /\ x.pc = "write" /\ x.seen = svc[s].gen
    BY <1>2, <1>3 DEF Call, Labels, Req
  <2>2. call' = [call EXCEPT ![c] = x]
    BY <1>4
  <2> HIDE DEF x
  <2>3. call'[c] = x /\ Req(c)' = Req(c) /\ Id(c)' = Id(c)
    BY <2>1, <2>2 DEF CInv, IntakeType, Req, Id
  <2>4. rowlock \in [Services -> Clients \union {NoClient}] /\ NoClient \notin Clients
    BY IntakeAssumption DEF CInv, IntakeType
  <2>5. OthersKeepLocks(c)
    BY <1>1, <1>3, <1>4, <2>4 DEF OthersKeepLocks, CInv, IntakeType
  <2>6. rowlock'[s] = c
    BY <1>3, <1>4, <2>4
  <2>7. Holds(c)'
    BY <1>1, <1>2, <1>4, <2>1, <2>3, <2>6 DEF Holds, store
  <2>8. CInv'
    BY <1>1, <1>2, <2>1, <2>2, <2>5, <2>7, CallStep
  <2>9. [API!Next]_(API!vars)
    BY <1>1, <2>1, <2>2, QuietStep
  <2> QED
    BY <2>8, <2>9 DEF Good
<1>5. CASE Fail(c)
  BY <1>1, <1>5, EndStep DEF Fail
<1> QED
  BY <1>4, <1>5 DEF GetServiceForUpdate

-----------------------------------------------------------------------------
(* The transaction that accepts a command *)

\* The operations as the transaction leaves them, but for the new one.
SameCommands(rest) ==
    /\ rest \in Seq(Operation) /\ Len(rest) = Len(ops)
    /\ \A o \in DOMAIN ops :
           rest[o].svc = ops[o].svc /\ rest[o].kind = ops[o].kind /\ rest[o].gen = ops[o].gen

\* The specs of service s after request r: those it had and, unless it is
\* deleted, one more that differs in what r selects.
NextSpecs(r, s, specs) ==
    /\ specs \in Seq(SpecRow)
    /\ r.kind = "delete" => specs = spec[s]
    /\ r.kind # "delete" =>
           /\ Len(specs) = Len(spec[s]) + 1
           /\ \A g \in DOMAIN spec[s] : specs[g] = spec[s][g]
           /\ \A f \in Fields :
                  specs[Len(specs)][f] =
                      IF f \in r.mask THEN Hash(r).set[f] ELSE spec[s][Len(spec[s])][f]

\* What the transaction of c has established when it writes service s: nobody
\* else is about to, and the command may follow those before it.
Granted(c, s) ==
    /\ call[c].pc = "write" /\ s \in Services
    /\ svc[s].desired # "deleted"
    /\ Req(c).kind = "create" <=> svc[s] = NoService
    /\ Req(c).kind # "create" => s = Req(c).svc
    /\ \A d \in Clients \ {c} :
           call[d].pc = "write" /\ Req(d).kind # "create" => Req(d).svc # s

Writes(c, rest, s, row, specs) ==
    /\ svc' = [svc EXCEPT ![s] = row]
    /\ spec' = [spec EXCEPT ![s] = specs]
    /\ Accept(c, rest, s, Req(c).kind, row.gen)

\* The row of the service after it.
NextRow(r, s, row) ==
    row \in Row /\ row.gen = svc[s].gen + 1 /\ (row.desired = "deleted" <=> r.kind = "delete")

Written(c, rest, s, row, specs) ==
    /\ Granted(c, s) /\ SameCommands(rest)
    /\ NextRow(Req(c), s, row) /\ NextSpecs(Req(c), s, specs)
    /\ Writes(c, rest, s, row, specs)

\* The operation it inserts.
NewOp == Len(ops) + 1

\* The tables after the transaction, entry by entry.
Tables(c, s, row, specs) ==
    /\ Req(c) \in Requests /\ Id(c) \in Ids /\ s \in Services /\ idem[Id(c)] = NoRow
    /\ lock[Id(c)] = c
    /\ ops' \in Seq(Operation) /\ NewOp \notin DOMAIN ops /\ NewOp \in Nat
    /\ DOMAIN ops' = DOMAIN ops \union {NewOp}
    /\ \A p \in DOMAIN ops : /\ ops'[p].svc = ops[p].svc /\ ops'[p].kind = ops[p].kind
                             /\ ops'[p].gen = ops[p].gen /\ p \in Nat /\ p < NewOp
    /\ ops'[NewOp].svc = s /\ ops'[NewOp].kind = Req(c).kind /\ ops'[NewOp].gen = row.gen
    /\ DOMAIN idem' = Ids /\ idem'[Id(c)] = [hash |-> Hash(Req(c)), op |-> NewOp]
    /\ \A i \in Ids \ {Id(c)} : idem'[i] = idem[i]
    /\ svc' \in [Services -> Row] /\ svc'[s] = row /\ row.gen = svc[s].gen + 1
    /\ svc[s].gen \in Nat
    /\ \A t \in Services \ {s} : svc'[t] = svc[t] /\ spec'[t] = spec[t]
    /\ spec' \in [Services -> Seq(SpecRow)] /\ spec'[s] = specs

\* The transaction leaves them so.
LEMMA WrittenTables ==
    ASSUME CInv, NEW c \in Clients, NEW rest, NEW s, NEW row, NEW specs,
           Written(c, rest, s, row, specs)
    PROVE  Tables(c, s, row, specs)
<1>1. call[c].pc = "write" /\ s \in Services
  BY DEF Written, Granted
<1>2. Req(c) \in Requests /\ Id(c) \in Ids /\ idem[Id(c)] = NoRow /\ lock[Id(c)] = c
  BY <1>1, RequestOf DEF CInv, Requested, LocksHeld, Holds, Id
<1>3. /\ ops \in Seq(Operation) /\ svc \in [Services -> Row] /\ DOMAIN idem = Ids
      /\ spec \in [Services -> Seq(SpecRow)] /\ svc[s] \in Row
  BY <1>1 DEF CInv, IntakeType
<1>4. /\ rest \in Seq(Operation) /\ Len(rest) = Len(ops)
      /\ \A p \in DOMAIN ops :
             rest[p].svc = ops[p].svc /\ rest[p].kind = ops[p].kind /\ rest[p].gen = ops[p].gen
  BY DEF Written, SameCommands
<1>5. row \in Row /\ row.gen = svc[s].gen + 1 /\ svc[s].gen \in Nat /\ specs \in Seq(SpecRow)
  BY <1>3 DEF Written, NextRow, NextSpecs, Row
<1> DEFINE n == [svc |-> s, kind |-> Req(c).kind, gen |-> row.gen, phase |-> "pending"]
<1>6. n \in Operation /\ n.svc = s /\ n.kind = Req(c).kind /\ n.gen = row.gen
  BY <1>1, <1>2, <1>5, RequestOf, SMTT(15) DEF Operation, Phases
<1>7. /\ ops' = Append(rest, n) /\ svc' = [svc EXCEPT ![s] = row] /\ spec' = [spec EXCEPT ![s] = specs]
      /\ idem' = [idem EXCEPT ![Id(c)] = [hash |-> Hash(Req(c)), op |-> NewOp]]
  BY <1>4 DEF Written, Writes, Accept, InsertOperation, PutIdempotency, NewOp
<1> HIDE DEF n
<1>8. /\ ops' \in Seq(Operation) /\ ops'[NewOp] = n /\ NewOp \in Nat /\ Len(ops') = NewOp
      /\ \A p \in 1 .. Len(ops) : ops'[p] = rest[p]
  BY <1>3, <1>4, <1>6, <1>7, SMTT(15) DEF NewOp
<1>9. DOMAIN ops = 1 .. Len(ops) /\ DOMAIN ops' = 1 .. NewOp /\ Len(ops) \in Nat
  BY <1>3, <1>8, SMTT(15)
<1>10. /\ DOMAIN ops' = DOMAIN ops \union {NewOp} /\ NewOp \notin DOMAIN ops
       /\ \A p \in DOMAIN ops : p \in Nat /\ p < NewOp
  BY <1>9, SMTT(15) DEF NewOp
<1>11. \A p \in DOMAIN ops :
           ops'[p].svc = ops[p].svc /\ ops'[p].kind = ops[p].kind /\ ops'[p].gen = ops[p].gen
  BY <1>4, <1>8, <1>9
<1>12. /\ svc' \in [Services -> Row] /\ svc'[s] = row
       /\ spec' \in [Services -> Seq(SpecRow)] /\ spec'[s] = specs
       /\ \A t \in Services \ {s} : svc'[t] = svc[t] /\ spec'[t] = spec[t]
  BY <1>1, <1>3, <1>5, <1>7
<1>13. /\ DOMAIN idem' = Ids /\ idem'[Id(c)] = [hash |-> Hash(Req(c)), op |-> NewOp]
       /\ \A i \in Ids \ {Id(c)} : idem'[i] = idem[i]
  BY <1>2, <1>3, <1>7
<1> QED
  BY <1>1, <1>2, <1>5, <1>6, <1>8, <1>10, <1>11, <1>12, <1>13 DEF Tables

\* The caller of the transaction gets its answer, and the other calls keep theirs.
LEMMA WrittenCalls ==
    ASSUME CInv, NEW c \in Clients, NEW rest, NEW s, NEW row, NEW specs,
           Written(c, rest, s, row, specs)
    PROVE  /\ call' \in [Clients -> Call]
           /\ call'[c].pc = "reply" /\ call'[c].op = NewOp /\ call'[c].req = Req(c)
           /\ \A d \in Clients \ {c} : call'[d] = call[d]
<1>1. call \in [Clients -> Call] /\ NewOp \in Nat /\ Len(rest) = Len(ops)
  BY WrittenTables DEF Tables, CInv, IntakeType, Written, SameCommands
<1> DEFINE x == [call[c] EXCEPT !.pc = "reply", !.op = NewOp, !.phase = "pending"]
<1>2. x \in Call /\ x.pc = "reply" /\ x.op = NewOp /\ x.req = Req(c)
  BY <1>1 DEF Call, Labels, Phases, Req
<1>3. call' = [call EXCEPT ![c] = x]
  BY <1>1 DEF Written, Writes, Accept, NewOp
<1> HIDE DEF x
<1> QED
  BY <1>1, <1>2, <1>3

\* No two calls are in a transaction with the same identity.
LEMMA OneTransaction ==
    ASSUME CInv, NEW c \in Clients, NEW d \in Clients, c # d,
           call[c].pc \in {"lookup", "row", "write"}, call[d].pc \in {"lookup", "row", "write"}
    PROVE  Id(c) # Id(d)
  BY DEF CInv, LocksHeld, Holds

\* The types, and what the calls hold.
LEMMA WrittenLocks ==
    ASSUME CInv, NEW c \in Clients, NEW rest, NEW s, NEW row, NEW specs,
           Written(c, rest, s, row, specs)
    PROVE  IntakeType' /\ Requested' /\ Answered' /\ LocksHeld'
<1>0. Tables(c, s, row, specs)
  BY WrittenTables
<1>1. /\ call' \in [Clients -> Call]
      /\ call'[c].pc = "reply" /\ call'[c].op = NewOp /\ call'[c].req = Req(c)
      /\ \A d \in Clients \ {c} : call'[d] = call[d]
  BY WrittenCalls
<1>2. /\ ops' \in Seq(Operation) /\ svc' \in [Services -> Row]
      /\ spec' \in [Services -> Seq(SpecRow)] /\ DOMAIN idem' = Ids
      /\ NewOp \in DOMAIN ops' /\ DOMAIN ops \subseteq DOMAIN ops'
      /\ Req(c) \in Requests /\ s \in Services /\ row.gen \in Nat
  BY <1>0, SMTT(15) DEF Tables
<1>3. /\ \A i \in Ids \ {Id(c)} : idem'[i] = idem[i]
      /\ \A t \in Services \ {s} : svc'[t] = svc[t]
  BY <1>0 DEF Tables
<1>4. OthersKeepLocks(c)
  BY UnlockOwn DEF Written, Writes, Accept
<1>5. work' \in [Services -> Nat]
  <2>1. work \in [Services -> Nat]
    BY DEF CInv, IntakeType
  <2>2. work' = [work EXCEPT ![s] = IF row.gen > @ + 1 THEN row.gen ELSE @ + 1]
    BY DEF Written, Writes, Accept, UpsertResourceWork
  <2> QED
    BY <1>2, <2>1, <2>2, SMTT(15)
<1>6. quota' \subseteq DOMAIN ops'
  <2>1. quota' \subseteq quota \union {NewOp}
    BY DEF Written, Writes, Accept, InsertQuotaReservation, SameCommands, NewOp
  <2> QED
    BY <1>2, <2>1 DEF CInv, IntakeType
<1>7. IntakeType'
  BY <1>1, <1>2, <1>4, <1>5, <1>6 DEF IntakeType, OthersKeepLocks
<1>8. Requested' /\ Answered'
  BY <1>1, <1>2 DEF CInv, Requested, Answered, Req
<1>9. ASSUME NEW d \in Clients PROVE Holds(d)'
  <2>1. CASE d = c
    BY <1>1, <2>1 DEF Holds
  <2>2. CASE d # c
    <3>1. call'[d] = call[d] /\ Req(d)' = Req(d) /\ Id(d)' = Id(d) /\ Holds(d)
      BY <1>1, <2>2 DEF CInv, LocksHeld, Req, Id
    <3>2. call[d].pc # "idle" =>
              Id(d) \in Ids /\ (Req(d).kind # "create" => Req(d).svc \in Services)
      BY RequestOf DEF CInv, Requested, Id
    <3>3. call[d].pc \in {"lookup", "row", "write"} => lock'[Id(d)] = d
      BY <1>4, <2>2, <3>1, <3>2 DEF Holds, OthersKeepLocks
    <3>4. call[d].pc \in {"row", "write"} => idem'[Id(d)] = NoRow
      <4>1. call[c].pc = "write"
        BY DEF Written, Granted
      <4> QED
        BY <1>3, <2>2, <3>1, <3>2, <4>1, OneTransaction DEF Holds
    <3>5. call[d].pc = "write" /\ Req(d).kind # "create" => Req(d).svc # s
      BY <2>2 DEF Written, Granted
    <3>6. call[d].pc = "write" /\ Req(d).kind # "create" =>
              /\ svc'[Req(d).svc] = svc[Req(d).svc] /\ rowlock'[Req(d).svc] = d
      BY <1>3, <1>4, <2>2, <3>1, <3>2, <3>5 DEF Holds, OthersKeepLocks
    <3> QED
      BY <3>1, <3>3, <3>4, <3>6 DEF Holds
  <2> QED
    BY <2>1, <2>2
<1>10. LocksHeld'
  BY <1>9 DEF LocksHeld
<1> QED
  BY <1>7, <1>8, <1>10

\* The record of the request names the new operation, and no other record does.
LEMMA WrittenKept ==
    ASSUME CInv, NEW c \in Clients, NEW rest, NEW s, NEW row, NEW specs,
           Written(c, rest, s, row, specs)
    PROVE  Kept' /\ OneIdentity'
<1>0. Tables(c, s, row, specs)
  BY WrittenTables
<1>1. /\ Req(c) \in Requests /\ Id(c) \in Ids /\ NewOp \in DOMAIN ops' /\ DOMAIN ops \subseteq DOMAIN ops'
      /\ \A p \in DOMAIN ops : ops'[p].kind = ops[p].kind /\ p # NewOp
      /\ ops'[NewOp].kind = Req(c).kind
      /\ idem'[Id(c)] = [hash |-> Hash(Req(c)), op |-> NewOp]
      /\ \A i \in Ids \ {Id(c)} : idem'[i] = idem[i]
  BY <1>0 DEF Tables
<1>2. \A i \in Ids : idem[i] = NoRow \/ idem[i].op \in DOMAIN ops
  BY DEF CInv, Kept, KeptFor
<1>3. \A i \in Ids : idem[i].op \in DOMAIN ops \union {0}
  BY <1>2, SMTT(15) DEF NoRow
<1>4. NewOp # 0 /\ idem'[Id(c)].op = NewOp
  <2>1. NewOp \in Nat \ {0}
    BY SMTT(15) DEF NewOp, CInv, IntakeType
  <2> QED
    BY <1>1, <2>1, SMTT(15)
<1>5. OneIdentity'
  BY <1>1, <1>3, <1>4, SMTT(15) DEF CInv, OneIdentity
<1>6. Kept'
  <2> SUFFICES ASSUME NEW i \in Ids, idem'[i] # NoRow PROVE \E r \in Requests : KeptFor(i, r)'
    BY DEF Kept
  <2>1. CASE i = Id(c)
    <3>1. KeptFor(i, Req(c))'
      <4>1. /\ Identity(Req(c)) = i
            /\ idem'[i] = [hash |-> Hash(Req(c)), op |-> idem'[i].op]
            /\ idem'[i].op \in DOMAIN ops'
            /\ ops'[idem'[i].op].kind = Req(c).kind
        BY <1>1, <1>4, <2>1 DEF Id
      <4>2. Req(c)' = Req(c)
        BY WrittenCalls DEF Req
      <4> QED
        BY <4>1, <4>2 DEF KeptFor
    <3>2. Req(c)' = Req(c)
      BY WrittenCalls DEF Req
    <3> QED
      BY <1>1, <3>1, <3>2
  <2>2. CASE i # Id(c)
    <3>1. PICK r \in Requests : KeptFor(i, r)
      BY <1>1, <2>2 DEF CInv, Kept
    <3>2. KeptFor(i, r)'
      BY <1>1, <2>2, <3>1 DEF KeptFor
    <3> QED
      BY <3>2
  <2> QED
    BY <2>1, <2>2
<1> QED
  BY <1>5, <1>6

\* The service has its new generation, and the operations fit their services.
LEMMA WrittenServices ==
    ASSUME CInv, NEW c \in Clients, NEW rest, NEW s, NEW row, NEW specs,
           Written(c, rest, s, row, specs)
    PROVE  ServicesWhole' /\ OperationsWhole'
<1>0. Tables(c, s, row, specs)
  BY WrittenTables
<1>1. /\ s \in Services /\ Id(c) \in Ids /\ DOMAIN ops' = DOMAIN ops \union {NewOp}
      /\ \A p \in DOMAIN ops :
             ops'[p].svc = ops[p].svc /\ ops'[p].kind = ops[p].kind /\ ops'[p].gen = ops[p].gen
      /\ ops'[NewOp].svc = s /\ ops'[NewOp].kind = Req(c).kind /\ ops'[NewOp].gen = row.gen
      /\ idem[Id(c)] = NoRow /\ idem'[Id(c)] = [hash |-> Hash(Req(c)), op |-> NewOp]
      /\ \A i \in Ids \ {Id(c)} : idem'[i] = idem[i]
      /\ svc' \in [Services -> Row] /\ svc'[s] = row /\ row.gen = svc[s].gen + 1
      /\ svc[s].gen \in Nat
      /\ \A t \in Services \ {s} : svc'[t] = svc[t] /\ spec'[t] = spec[t]
      /\ spec'[s] = specs
  BY <1>0 DEF Tables
<1>2. ops \in Seq(Operation) /\ spec \in [Services -> Seq(SpecRow)] /\ NewOp \in Nat \ {0}
  BY SMTT(15) DEF CInv, IntakeType, NewOp
<1>3. /\ svc[s].desired # "deleted" /\ (row.desired = "deleted" <=> Req(c).kind = "delete")
      /\ svc[s] = NoService <=> Req(c).kind = "create"
  BY DEF Written, Granted, NextRow
<1>4. \A p \in DOMAIN ops : ops[p].svc \in Services /\ ops[p].gen \in Nat
  <2>1. \A p \in DOMAIN ops : ops[p] \in Operation
    BY <1>2, SMTT(15)
  <2> QED
    BY <2>1 DEF Operation
<1>5. row # NoService /\ row.gen # 0
  BY <1>1, SMTT(15) DEF NoService
<1>6. idem'[Id(c)] # NoRow /\ idem'[Id(c)].op = NewOp
  BY <1>1, <1>2, SMTT(15) DEF NoRow
<1>7. Len(specs) = IF row.desired = "deleted" THEN row.gen - 1 ELSE row.gen
  <2>1. Len(spec[s]) = svc[s].gen
    BY <1>1, <1>3 DEF CInv, ServicesWhole
  <2>2. CASE Req(c).kind = "delete"
    BY <1>1, <1>3, <2>1, <2>2, SMTT(15) DEF Written, NextSpecs
  <2>3. CASE Req(c).kind # "delete"
    BY <1>1, <1>3, <2>1, <2>3 DEF Written, NextSpecs
  <2> QED
    BY <2>2, <2>3
<1>8. ServicesWhole'
  <2> SUFFICES ASSUME NEW t \in Services
               PROVE  /\ svc'[t].gen = 0 <=> svc'[t] = NoService
                      /\ svc'[t] = NoService => spec'[t] = <<>>
                      /\ svc'[t] # NoService =>
                             /\ \E i \in Ids : CommandedBy(t, i)'
                             /\ Len(spec'[t]) = IF svc'[t].desired = "deleted"
                                                THEN svc'[t].gen - 1 ELSE svc'[t].gen
    BY DEF ServicesWhole
  <2>1. CASE t = s
    <3>1. CommandedBy(s, Id(c))'
      <4>1. idem'[Id(c)] # NoRow /\ ops'[idem'[Id(c)].op].svc = s
            /\ ops'[idem'[Id(c)].op].gen = svc'[s].gen
        BY <1>1, <1>6
      <4>2. Id(c)' = Id(c)
        BY WrittenCalls DEF Req, Id
      <4> QED
        BY <4>1, <4>2 DEF CommandedBy
    <3>2. Id(c)' = Id(c)
      BY WrittenCalls DEF Req, Id
    <3> QED
      BY <1>1, <1>5, <1>7, <2>1, <3>1, <3>2
  <2>2. CASE t # s
    <3>1. /\ svc'[t] = svc[t] /\ spec'[t] = spec[t]
          /\ svc[t].gen = 0 <=> svc[t] = NoService
          /\ svc[t] = NoService => spec[t] = <<>>
          /\ svc[t] # NoService =>
                 /\ \E i \in Ids : CommandedBy(t, i)
                 /\ Len(spec[t]) = IF svc[t].desired = "deleted" THEN svc[t].gen - 1 ELSE svc[t].gen
      BY <1>1, <2>2 DEF CInv, ServicesWhole
    <3>2. ASSUME NEW i \in Ids, CommandedBy(t, i) PROVE CommandedBy(t, i)'
      <4>1. idem[i] # NoRow /\ i # Id(c) /\ idem[i].op \in DOMAIN ops
        BY <1>1, <3>2 DEF CommandedBy, CInv, Kept, KeptFor
      <4> QED
        BY <1>1, <3>1, <3>2, <4>1, SMTT(15) DEF CommandedBy
    <3> QED
      BY <3>1, <3>2
  <2> QED
    BY <2>1, <2>2
<1>9. OperationsWhole'
  <2> SUFFICES ASSUME NEW p \in DOMAIN ops'
               PROVE  /\ ops'[p].gen <= svc'[ops'[p].svc].gen
                      /\ ops'[p].kind = "delete" => svc'[ops'[p].svc].desired = "deleted"
    BY DEF OperationsWhole
  <2>1. CASE p = NewOp
    BY <1>1, <1>3, <2>1, SMTT(15)
  <2>2. CASE p \in DOMAIN ops
    <3>1. /\ ops[p].gen <= svc[ops[p].svc].gen
          /\ ops[p].kind = "delete" => svc[ops[p].svc].desired = "deleted"
      BY <2>2 DEF CInv, OperationsWhole
    <3> QED
      BY <1>1, <1>3, <1>4, <2>2, <3>1, SMTT(15)
  <2> QED
    BY <1>1, <2>1, <2>2
<1> QED
  BY <1>8, <1>9

\* A row of the request ids names an operation, or none.
LEMMA RowsNameOperations ==
    ASSUME CInv
    PROVE  (\A i \in Ids : idem[i].op \in DOMAIN ops \union {0}) /\ NewOp # 0 /\ 0 \notin DOMAIN ops
<1>1. NewOp # 0 /\ 0 \notin DOMAIN ops
  BY SMTT(15) DEF CInv, IntakeType, NewOp
<1>2. ASSUME NEW i \in Ids PROVE idem[i].op \in DOMAIN ops \union {0}
  <2>1. CASE idem[i] = NoRow
    BY <2>1, SMTT(15) DEF NoRow
  <2>2. CASE idem[i] # NoRow
    BY <2>2 DEF CInv, Kept, KeptFor
  <2> QED
    BY <2>1, <2>2
<1> QED
  BY <1>1, <1>2

\* The new operation has all that an operation has.
LEMMA WrittenWhole ==
    ASSUME CInv, NEW c \in Clients, NEW rest, NEW s, NEW row, NEW specs,
           Written(c, rest, s, row, specs)
    PROVE  AcceptedIsWhole'
<1>0. Tables(c, s, row, specs)
  BY WrittenTables
<1>1. /\ s \in Services /\ Id(c) \in Ids /\ DOMAIN ops' = DOMAIN ops \union {NewOp}
      /\ NewOp \notin DOMAIN ops /\ row.gen \in Nat
      /\ \A p \in DOMAIN ops :
             ops'[p].svc = ops[p].svc /\ ops'[p].kind = ops[p].kind /\ p # NewOp /\ p # 0
      /\ ops'[NewOp].svc = s /\ ops'[NewOp].kind = Req(c).kind /\ ops'[NewOp].gen = row.gen
      /\ idem[Id(c)].op = 0 /\ idem'[Id(c)].op = NewOp
      /\ \A i \in Ids \ {Id(c)} : idem'[i] = idem[i]
      /\ svc'[s].gen = row.gen
      /\ \A t \in Services \ {s} : svc'[t] = svc[t]
  <2>1. \A p \in DOMAIN ops : p # 0
    BY SMTT(15) DEF CInv, IntakeType
  <2> QED
    BY <1>0, <2>1, SMTT(15) DEF Tables, NoRow
<1>2. /\ audit' = audit \union {NewOp}
      /\ quota' = IF Req(c).kind \in {"create", "update", "start", "restart"}
                  THEN quota \union {NewOp} ELSE quota
      /\ work' = [work EXCEPT ![s] = IF row.gen > @ + 1 THEN row.gen ELSE @ + 1]
  BY DEF Written, Writes, Accept, AppendAuditEvent, InsertQuotaReservation,
     UpsertResourceWork,
         SameCommands, NewOp
<1>3. Req(c).kind \in Kinds /\ NewOp \notin quota
  BY <1>0, <1>1, RequestOf DEF Tables, CInv, IntakeType
<1>4. \A i \in Ids : idem[i].op \in DOMAIN ops \union {0}
  BY RowsNameOperations
<1>5. \A t \in Services : work'[t] >= svc'[t].gen \/ (t # s /\ work'[t] = work[t])
  <2>1. work \in [Services -> Nat]
    BY DEF CInv, IntakeType
  <2> QED
    BY <1>1, <1>2, <2>1, SMTT(15)
<1> SUFFICES ASSUME NEW p \in DOMAIN ops'
             PROVE  /\ p \in audit'
                    /\ p \in quota' <=> ops'[p].kind \notin {"stop", "delete"}
                    /\ \E i \in Ids : idem'[i].op = p /\ \A j \in Ids \ {i} : idem'[j].op # p
                    /\ work'[ops'[p].svc] >= svc'[ops'[p].svc].gen
  BY DEF AcceptedIsWhole
<1>6. CASE p = NewOp
  <2>1. p \in audit' /\ (p \in quota' <=> ops'[p].kind \notin {"stop", "delete"})
    BY <1>1, <1>2, <1>3, <1>6 DEF Kinds
  <2>2. idem'[Id(c)].op = p /\ \A j \in Ids \ {Id(c)} : idem'[j].op # p
    BY <1>1, <1>4, <1>6, RowsNameOperations, SMTT(15)
  <2>3. work'[ops'[p].svc] >= svc'[ops'[p].svc].gen
    BY <1>1, <1>5, <1>6
  <2> QED
    BY <1>1, <2>1, <2>2, <2>3
<1>7. CASE p \in DOMAIN ops
  <2>1. /\ p \in audit
        /\ p \in quota <=> ops[p].kind \notin {"stop", "delete"}
        /\ work[ops[p].svc] >= svc[ops[p].svc].gen
    BY <1>7 DEF CInv, AcceptedIsWhole
  <2>2. PICK i \in Ids : idem[i].op = p /\ \A j \in Ids \ {i} : idem[j].op # p
    BY <1>7 DEF CInv, AcceptedIsWhole
  <2>3. idem'[i].op = p /\ \A j \in Ids \ {i} : idem'[j].op # p
    BY <1>1, <1>7, <2>2
  <2>4. ops[p].svc \in Services
    <3>1. ops[p] \in Operation
      BY <1>7, SMTT(15) DEF CInv, IntakeType
    <3> QED
      BY <3>1 DEF Operation
  <2>5. work'[ops'[p].svc] >= svc'[ops'[p].svc].gen
    BY <1>1, <1>5, <1>7, <2>1, <2>4, SMTT(15)
  <2> QED
    BY <1>1, <1>2, <1>7, <2>1, <2>3, <2>5
<1> QED
  BY <1>1, <1>6, <1>7

\* The writers of a field: the old ones and, where it selects the field, the new
\* operation.
LEMMA WrittenSelects ==
    ASSUME CInv, NEW c \in Clients, NEW rest, NEW s, NEW row, NEW specs,
           Written(c, rest, s, row, specs), NEW f \in Fields, NEW o, o = NewOp
    PROVE  /\ Selects(o, f)' <=> f \in Req(c).mask
           /\ \A p \in DOMAIN ops : Selects(p, f)' <=> Selects(p, f)
<1>0. Tables(c, s, row, specs)
  BY WrittenTables
<1>1. /\ Id(c) \in Ids /\ NewOp \notin DOMAIN ops
      /\ idem[Id(c)].op = 0 /\ idem'[Id(c)].op = NewOp /\ idem'[Id(c)].hash = Hash(Req(c))
      /\ \A i \in Ids \ {Id(c)} : idem'[i] = idem[i]
      /\ Hash(Req(c)).mask = Req(c).mask
  BY <1>0, HashOf, SMTT(15) DEF Tables, NoRow
<1>2. (\A i \in Ids : idem[i].op \in DOMAIN ops \union {0}) /\ NewOp # 0 /\ 0 \notin DOMAIN ops
  BY RowsNameOperations
<1> QED
  BY <1>1, <1>2 DEF Selects

\* The spec of the new generation is the one before it, but for what the request
\* selects; the others are as they were.
LEMMA WrittenSpecs ==
    ASSUME CInv, NEW c \in Clients, NEW rest, NEW s, NEW row, NEW specs,
           Written(c, rest, s, row, specs)
    PROVE  LastWritten'
<1>0. Tables(c, s, row, specs)
  BY WrittenTables
<1>1. PICK n : n = NewOp
  OBVIOUS
<1>2. /\ Req(c) \in Requests /\ s \in Services /\ Id(c) \in Ids /\ n \in Nat
      /\ DOMAIN ops' = DOMAIN ops \union {n} /\ n \notin DOMAIN ops
      /\ \A p \in DOMAIN ops :
             ops'[p].svc = ops[p].svc /\ ops'[p].gen = ops[p].gen /\ p \in Nat /\ p < n
      /\ ops'[n].svc = s /\ ops'[n].gen = row.gen
      /\ idem[Id(c)] = NoRow /\ idem'[Id(c)].op = n /\ idem'[Id(c)].hash = Hash(Req(c))
      /\ \A i \in Ids \ {Id(c)} : idem'[i] = idem[i]
      /\ row.gen = svc[s].gen + 1 /\ svc[s].gen \in Nat
      /\ \A t \in Services \ {s} : spec'[t] = spec[t]
      /\ spec'[s] = specs
  BY <1>0, <1>1, SMTT(15) DEF Tables
<1>3. \A f \in Fields :
          /\ Selects(n, f)' <=> f \in Req(c).mask
          /\ \A p \in DOMAIN ops : Selects(p, f)' <=> Selects(p, f)
  BY <1>1, WrittenSelects
<1>4. \A p \in DOMAIN ops : ops[p].svc = s => ops[p].gen <= svc[s].gen
  BY DEF CInv, OperationsWhole
<1>5. \A p \in DOMAIN ops : ops[p].gen \in Nat
  <2>1. \A p \in DOMAIN ops : ops[p] \in Operation
    BY SMTT(15) DEF CInv, IntakeType
  <2> QED
    BY <2>1 DEF Operation
<1>6. Len(spec[s]) = svc[s].gen /\ DOMAIN spec[s] = 1 .. svc[s].gen
  <2>1. svc[s].desired # "deleted" /\ spec[s] \in Seq(SpecRow)
    BY <1>2 DEF Written, Granted, CInv, IntakeType
  <2>2. Len(spec[s]) = svc[s].gen
    BY <1>2, <2>1, SMTT(15) DEF CInv, ServicesWhole, NoService
  <2> QED
    BY <2>1, <2>2, SMTT(15)
<1>7. \A f \in Fields, t \in Services : \A g \in DOMAIN spec[t] :
          WriterOf(t, g, f)' = WriterOf(t, g, f)
  <2> SUFFICES ASSUME NEW f \in Fields, NEW t \in Services, NEW g \in DOMAIN spec[t]
               PROVE  \A p : p \in WriterOf(t, g, f)' <=> p \in WriterOf(t, g, f)
    BY DEF WriterOf
  <2>1. t = s => ~(ops'[n].gen <= g)
    BY <1>2, <1>6, SMTT(15)
  <2> QED
    BY <1>2, <1>3, <2>1 DEF WriterOf
<1>8. ASSUME NEW t \in Services, NEW g \in DOMAIN spec[t], NEW f \in Fields,
             spec'[t][g] = spec[t][g]
      PROVE  \E o \in DOMAIN ops', i \in Ids : LastWrittenBy(t, g, f, o, i)'
  <2>1. PICK o \in DOMAIN ops, i \in Ids : LastWrittenBy(t, g, f, o, i)
    BY DEF CInv, LastWritten
  <2>2. i # Id(c)
    <3>1. o # 0 /\ idem[i].op = o
      BY <2>1, RowsNameOperations DEF LastWrittenBy
    <3> QED
      BY <1>2, <3>1, SMTT(15) DEF NoRow
  <2>3. LastWrittenBy(t, g, f, o, i)'
    BY <1>2, <1>7, <1>8, <2>1, <2>2 DEF LastWrittenBy
  <2> QED
    BY <1>2, <2>3
<1>9. ASSUME Req(c).kind # "delete", NEW f \in Fields, NEW g, g = row.gen
      PROVE  \E o \in DOMAIN ops', i \in Ids : LastWrittenBy(s, g, f, o, i)'
  <2>1. specs[g][f] = IF f \in Req(c).mask THEN Hash(Req(c)).set[f] ELSE spec[s][svc[s].gen][f]
    BY <1>2, <1>6, <1>9, SMTT(15) DEF Written, NextSpecs
  <2>2. CASE f \in Req(c).mask
    <3>1. n \in WriterOf(s, g, f)'
      BY <1>2, <1>3, <1>9, <2>2, SMTT(15) DEF WriterOf
    <3>2. \A p \in WriterOf(s, g, f)' : p <= n
      BY <1>2, SMTT(15) DEF WriterOf
    <3>3. PICK i \in Ids : i = Id(c)
      BY <1>2
    <3>4. LastWrittenBy(s, g, f, n, i)'
      BY <1>2, <2>1, <2>2, <3>1, <3>2, <3>3 DEF LastWrittenBy
    <3> QED
      BY <1>2, <3>4
  <2>3. CASE f \notin Req(c).mask
    <3>1. Req(c).kind # "create"
      BY <1>2, <2>3, RequestOf
    <3>2. svc[s].gen # 0
      BY <1>2, <3>1 DEF Written, Granted, CInv, ServicesWhole
    <3>3. PICK h : h = svc[s].gen
      OBVIOUS
    <3>4. h \in DOMAIN spec[s]
      BY <1>2, <1>6, <3>2, <3>3, SMTT(15)
    <3>5. PICK o \in DOMAIN ops, i \in Ids : LastWrittenBy(s, h, f, o, i)
      BY <1>2, <3>4 DEF CInv, LastWritten
    <3>6. WriterOf(s, g, f)' = WriterOf(s, h, f)
      <4> SUFFICES ASSUME NEW p PROVE p \in WriterOf(s, g, f)' <=> p \in WriterOf(s, h, f)
        BY DEF WriterOf
      <4>1. p = n => p \notin WriterOf(s, g, f)'
        BY <1>3, <2>3 DEF WriterOf
      <4>2. p \in DOMAIN ops /\ ops[p].svc = s => ops[p].gen <= h /\ ops[p].gen <= g
        BY <1>2, <1>4, <1>5, <1>9, <3>3, SMTT(15)
      <4> QED
        BY <1>2, <1>3, <4>1, <4>2 DEF WriterOf
    <3>7. i # Id(c)
      <4>1. o # 0 /\ idem[i].op = o
        BY <3>5, RowsNameOperations DEF LastWrittenBy
      <4> QED
        BY <1>2, <4>1, SMTT(15) DEF NoRow
    <3>8. LastWrittenBy(s, g, f, o, i)'
      BY <1>2, <2>1, <2>3, <3>3, <3>5, <3>6, <3>7 DEF LastWrittenBy
    <3> QED
      BY <1>2, <3>8
  <2> QED
    BY <2>2, <2>3
<1>10. ASSUME NEW t \in Services, NEW g \in DOMAIN spec'[t]
       PROVE  \/ g \in DOMAIN spec[t] /\ spec'[t][g] = spec[t][g]
              \/ t = s /\ g = row.gen /\ Req(c).kind # "delete"
  <2>1. CASE t # s
    BY <1>2, <1>10, <2>1
  <2>2. CASE t = s /\ Req(c).kind = "delete"
    BY <1>2, <1>10, <2>2 DEF Written, NextSpecs
  <2>3. CASE t = s /\ Req(c).kind # "delete"
    <3>1. /\ specs \in Seq(SpecRow) /\ Len(specs) = Len(spec[s]) + 1
          /\ \A h \in DOMAIN spec[s] : specs[h] = spec[s][h]
      BY <2>3 DEF Written, NextSpecs
    <3>2. g \in 1 .. row.gen
      BY <1>2, <1>6, <1>10, <2>3, <3>1, SMTT(15)
    <3>3. g \in DOMAIN spec[s] \/ g = row.gen
      BY <1>2, <1>6, <3>2, SMTT(15)
    <3> QED
      BY <1>2, <2>3, <3>1, <3>3
  <2> QED
    BY <2>1, <2>2, <2>3
<1> SUFFICES ASSUME NEW t \in Services, NEW g \in DOMAIN spec'[t], NEW f \in Fields
             PROVE  \E o \in DOMAIN ops', i \in Ids : LastWrittenBy(t, g, f, o, i)'
  BY DEF LastWritten
<1> QED
  BY <1>8, <1>9, <1>10

\* What Acceptance sees of an accepted identity.
LEMMA SeenAccepted ==
    ASSUME CInv, NEW i \in Ids, AcceptedCommands[i].gen # 0
    PROVE  /\ idem[i] # NoRow /\ idem[i].op \in DOMAIN ops
           /\ AcceptedCommands[i].svc = ops[idem[i].op].svc
           /\ AcceptedCommands[i].gen = ops[idem[i].op].gen
           /\ KindOf(AcceptedCommands[i].cmd) = ops[idem[i].op].kind
<1>1. idem[i] # NoRow
  BY AcceptedOf, SMTT(15) DEF API!NotAccepted
<1>2. PICK r \in Requests : KeptFor(i, r)
  BY <1>1 DEF CInv, Kept
<1>3. /\ idem[i].op \in DOMAIN ops /\ idem[i].hash = Hash(r) /\ ops[idem[i].op].kind = r.kind
  BY <1>2, SMTT(15) DEF KeptFor
<1>4. /\ AcceptedCommands[i].cmd = Command(idem[i].hash)
      /\ AcceptedCommands[i].svc = ops[idem[i].op].svc
      /\ AcceptedCommands[i].gen = ops[idem[i].op].gen
  <2>1. AcceptedCommands[i] = Accepted(idem[i].op, idem[i].hash)
    BY <1>1, AcceptedOf
  <2> QED
    BY <2>1, SMTT(15) DEF Accepted
<1>5. Command(idem[i].hash).kind = r.kind
  BY <1>3, CommandOf
<1> QED
  BY <1>1, <1>3, <1>4, <1>5 DEF KindOf

\* The transaction accepts one identity and tells its caller.
LEMMA WrittenAnswers ==
    ASSUME CInv, CInv', NEW c \in Clients, NEW rest, NEW s, NEW row, NEW specs,
           Written(c, rest, s, row, specs), NEW a,
           a = [cmd |-> Command(Req(c)), svc |-> s, gen |-> row.gen]
    PROVE  /\ AcceptedCommands' = [AcceptedCommands EXCEPT ![Id(c)] = a]
           /\ Answers' = [Answers EXCEPT ![c] = API!Told(Id(c), a)]
<1>0. Tables(c, s, row, specs)
  BY WrittenTables
<1>1. /\ Req(c) \in Requests /\ Id(c) \in Ids
      /\ \A p \in DOMAIN ops : ops'[p].svc = ops[p].svc /\ ops'[p].gen = ops[p].gen
      /\ ops'[NewOp].svc = s /\ ops'[NewOp].gen = row.gen
      /\ idem'[Id(c)].op = NewOp /\ idem'[Id(c)].hash = Hash(Req(c)) /\ idem'[Id(c)] # NoRow
      /\ \A i \in Ids \ {Id(c)} : idem'[i] = idem[i]
  BY <1>0, RowsNameOperations, SMTT(15) DEF Tables, NoRow
<1>2. Command(Hash(Req(c))) = Command(Req(c))
  BY <1>1, CommandOf
<1>3. AcceptedCommands'[Id(c)] = a
  BY <1>1, <1>2 DEF AcceptedCommands, Accepted
<1>4. \A i \in Ids \ {Id(c)} : AcceptedCommands'[i] = AcceptedCommands[i]
  <2> SUFFICES ASSUME NEW i \in Ids \ {Id(c)} PROVE AcceptedCommands'[i] = AcceptedCommands[i]
    OBVIOUS
  <2>1. idem[i] # NoRow => idem[i].op \in DOMAIN ops
    BY AcceptedOf
  <2> QED
    BY <1>1, <2>1 DEF AcceptedCommands, Accepted
<1>5. AcceptedCommands' = [AcceptedCommands EXCEPT ![Id(c)] = a]
  <2>1. /\ AcceptedCommands = [i \in Ids |-> AcceptedCommands[i]]
        /\ AcceptedCommands' = [i \in Ids |-> AcceptedCommands'[i]]
    BY DEF AcceptedCommands
  <2> QED
    BY <1>1, <1>3, <1>4, <2>1
<1>6. /\ call'[c].pc = "reply" /\ call'[c].op = NewOp /\ call'[c].req = Req(c)
      /\ \A d \in Clients \ {c} : call'[d] = call[d]
  BY WrittenCalls
<1>7. Req(c)' = Req(c) /\ Id(c)' = Id(c)
  BY <1>6 DEF Req, Id
<1>8. Answers'[c] = API!Told(Id(c), a)
  BY <1>1, <1>6, <1>7 DEF Answers, Answer, Accepted, API!Told
<1>9. \A d \in Clients \ {c} : Answers'[d] = Answers[d]
  <2> SUFFICES ASSUME NEW d \in Clients \ {c} PROVE Answers'[d] = Answers[d]
    OBVIOUS
  <2>1. call[d].pc = "reply" => call[d].op \in DOMAIN ops
    BY DEF CInv, Answered
  <2>2. call'[d] = call[d] /\ Req(d)' = Req(d) /\ Id(d)' = Id(d)
    BY <1>6 DEF Req, Id
  <2> QED
    BY <1>1, <2>1, <2>2, SMTT(15) DEF Answers, Answer, Accepted
<1>10. Answers' = [Answers EXCEPT ![c] = API!Told(Id(c), a)]
  <2>1. Answers = [d \in Clients |-> Answers[d]] /\ Answers' = [d \in Clients |-> Answers'[d]]
    BY DEF Answers
  <2> QED
    BY <1>8, <1>9, <2>1
<1> QED
  BY <1>5, <1>10

\* It is the step of Acceptance that accepts the next command of the service.
LEMMA WrittenAccepts ==
    ASSUME CInv, CInv', NEW c \in Clients, NEW rest, NEW s, NEW row, NEW specs,
           Written(c, rest, s, row, specs)
    PROVE  API!Accept(c, Id(c))
<1>0. Tables(c, s, row, specs)
  BY WrittenTables
<1>1. PICK a : a = [cmd |-> Command(Req(c)), svc |-> s, gen |-> row.gen]
  OBVIOUS
<1>2. /\ AcceptedCommands' = [AcceptedCommands EXCEPT ![Id(c)] = a]
      /\ Answers' = [Answers EXCEPT ![c] = API!Told(Id(c), a)]
  BY <1>1, WrittenAnswers, SMTT(15)
<1>3. /\ Req(c) \in Requests /\ Id(c) \in Ids /\ s \in Services /\ idem[Id(c)] = NoRow
      /\ row.gen = svc[s].gen + 1 /\ svc[s].gen \in Nat
  BY <1>0 DEF Tables
<1>4. AcceptedCommands'[Id(c)] = a /\ AcceptedCommands[Id(c)] = API!NotAccepted
  <2>1. DOMAIN AcceptedCommands = Ids
    BY DEF AcceptedCommands
  <2> QED
    BY <1>2, <1>3, <2>1, AcceptedOf
<1>5. Answers[c] = API!NotAccepted
  BY AnswerOf DEF Written, Granted
<1>6. /\ a # API!NotAccepted /\ a.cmd \in {Command(r) : r \in Requests} /\ a.svc = s
      /\ a.gen = row.gen /\ a.gen \in Nat
      /\ KindOf(a.cmd) = Req(c).kind /\ Target(a.cmd) = Req(c).svc
  <2>1. a.cmd = Command(Req(c)) /\ a.svc = s /\ a.gen = row.gen
    BY <1>1
  <2>2. row.gen \in Nat /\ row.gen # 0
    BY <1>3, SMTT(15)
  <2>3. a # API!NotAccepted
    BY <2>1, <2>2, SMTT(15) DEF API!NotAccepted
  <2> QED
    BY <1>3, <2>1, <2>2, <2>3, CommandOf DEF KindOf, Target
<1>7. \A i \in Ids : /\ i \in API!History(s) =>
                            /\ AcceptedCommands[i].gen \in Nat
                            /\ AcceptedCommands[i].gen <= svc[s].gen
                            /\ AcceptedCommands[i].gen # 0
                            /\ KindOf(AcceptedCommands[i].cmd) = "delete" =>
                                   svc[s].desired = "deleted"
                     /\ CommandedBy(s, i) =>
                            i \in API!History(s) /\ AcceptedCommands[i].gen = svc[s].gen
  <2> SUFFICES ASSUME NEW i \in Ids
               PROVE  /\ i \in API!History(s) =>
                            /\ AcceptedCommands[i].gen \in Nat
                            /\ AcceptedCommands[i].gen <= svc[s].gen
                            /\ AcceptedCommands[i].gen # 0
                            /\ KindOf(AcceptedCommands[i].cmd) = "delete" =>
                                   svc[s].desired = "deleted"
                      /\ CommandedBy(s, i) =>
                            i \in API!History(s) /\ AcceptedCommands[i].gen = svc[s].gen
    OBVIOUS
  <2>1. \A p \in DOMAIN ops : ops[p] \in Operation
    BY SMTT(15) DEF CInv, IntakeType
  <2>2. ASSUME i \in API!History(s)
        PROVE  /\ AcceptedCommands[i].gen \in Nat /\ AcceptedCommands[i].gen <= svc[s].gen
               /\ AcceptedCommands[i].gen # 0
               /\ KindOf(AcceptedCommands[i].cmd) = "delete" => svc[s].desired = "deleted"
    <3>1. AcceptedCommands[i].gen # 0 /\ AcceptedCommands[i].svc = s
      BY <2>2 DEF API!History
    <3>2. /\ idem[i].op \in DOMAIN ops /\ ops[idem[i].op].svc = s
          /\ AcceptedCommands[i].gen = ops[idem[i].op].gen
          /\ KindOf(AcceptedCommands[i].cmd) = ops[idem[i].op].kind
      BY <3>1, SeenAccepted
    <3> QED
      BY <2>1, <3>1, <3>2 DEF CInv, OperationsWhole, Operation
  <2>3. ASSUME CommandedBy(s, i)
        PROVE  i \in API!History(s) /\ AcceptedCommands[i].gen = svc[s].gen
    <3>1. /\ idem[i].op \in DOMAIN ops /\ AcceptedCommands[i] = Accepted(idem[i].op, idem[i].hash)
          /\ ops[idem[i].op].svc = s /\ ops[idem[i].op].gen = svc[s].gen
      BY <2>3, AcceptedOf DEF CommandedBy
    <3>2. ops[idem[i].op].gen # 0
      BY <2>1, <3>1 DEF Operation
    <3> QED
      BY <3>1, <3>2, SMTT(15) DEF API!History, Accepted
  <2> QED
    BY <2>2, <2>3
<1>8. CASE Req(c).kind = "create"
  <2>1. svc[s].gen = 0
    BY <1>3, <1>8, SMTT(15) DEF Written, Granted, NoService
  <2>2. API!History(s) = {} /\ row.gen = 1
    BY <1>3, <1>7, <2>1, SMTT(15) DEF API!History
  <2> QED
    BY <1>2, <1>3, <1>4, <1>5, <1>6, <1>8, <2>2 DEF API!Accept
<1>9. CASE Req(c).kind # "create"
  <2>1. svc[s] # NoService /\ svc[s].desired # "deleted" /\ s = Req(c).svc
    BY <1>9 DEF Written, Granted
  <2>2. PICK i \in Ids : CommandedBy(s, i)
    BY <1>3, <2>1 DEF CInv, ServicesWhole
  <2>3. ~API!Closed(s)
    BY <1>7, <2>1 DEF API!Closed, API!History
  <2>4. API!Newest(s, row.gen - 1)
    <3>1. row.gen - 1 = svc[s].gen
      BY <1>3, SMTT(15)
    <3> QED
      BY <1>7, <2>2, <3>1 DEF API!Newest, API!History
  <2> QED
    BY <1>2, <1>3, <1>4, <1>5, <1>6, <1>9, <2>1, <2>3, <2>4 DEF API!Accept
<1> QED
  BY <1>8, <1>9

\* A transaction that writes keeps the invariant and accepts.
LEMMA WrittenGood ==
    ASSUME CInv, NEW c \in Clients, NEW rest, NEW s, NEW row, NEW specs,
           Written(c, rest, s, row, specs)
    PROVE  Good
<1>1. CInv'
  BY WrittenLocks, WrittenKept, WrittenServices, WrittenWhole, WrittenSpecs DEF CInv
<1>2. Id(c) \in Ids /\ API!Accept(c, Id(c))
  BY <1>1, WrittenAccepts, WrittenTables DEF Tables
<1> QED
  BY <1>1, <1>2 DEF Good, API!Next

\* A command is permitted on a service that is there and not being deleted.
LEMMA PermittedRow ==
    ASSUME NEW r \in Requests, r.kind # "create", NEW row, Permitted(r, row)
    PROVE  row # NoService /\ row.desired # "deleted"
<1>1. r.kind \in {"update", "start", "stop", "restart", "delete"}
  BY RequestOf DEF Kinds
<1>2. ValidCommandState(r.kind, row.desired) /\ row # NoService
  BY DEF Permitted
<1>3. CASE r.kind = "update"
  BY <1>2, <1>3 DEF ValidCommandState
<1>4. CASE r.kind = "start"
  BY <1>2, <1>4 DEF ValidCommandState
<1>5. CASE r.kind = "stop"
  BY <1>2, <1>5 DEF ValidCommandState
<1>6. CASE r.kind = "restart"
  BY <1>2, <1>6 DEF ValidCommandState
<1>7. CASE r.kind = "delete"
  BY <1>2, <1>7 DEF ValidCommandState
<1> QED
  BY <1>1, <1>2, <1>3, <1>4, <1>5, <1>6, <1>7

\* The row after a command.
LEMMA TransitionRow ==
    ASSUME NEW row \in Row, NEW kind \in Kinds
    PROVE  LET next == TransitionService(row, kind) IN
           next \in Row /\ next.gen = row.gen + 1 /\ (next.desired = "deleted" <=> kind = "delete")
<1> DEFINE desired == DesiredAfter(kind)
           gen == row.gen + 1
           next == [row EXCEPT !.gen = gen, !.desired = desired]
<1>1. desired \in {"running", "stopped", "deleted"} /\ (desired = "deleted" <=> kind = "delete")
  <2>1. CASE kind = "stop"
    BY <2>1 DEF DesiredAfter
  <2>2. CASE kind = "delete"
    BY <2>2 DEF DesiredAfter
  <2>3. CASE kind \notin {"stop", "delete"}
    BY <2>3 DEF DesiredAfter
  <2> QED
    BY <2>1, <2>2, <2>3
<1>2. TransitionService(row, kind) = next
  BY DEF TransitionService
<1>3. gen \in Nat
  BY SMTT(15) DEF Row
<1> HIDE DEF desired, gen
<1>4. next \in Row /\ next.gen = gen /\ next.desired = desired
  BY <1>1, <1>3 DEF Row
<1> QED
  BY <1>1, <1>2, <1>4 DEF gen

\* CancelActiveOperation only ends operations.
LEMMA CancelledCommands ==
    ASSUME CInv, NEW s \in Services
    PROVE  SameCommands(CancelActiveOperation(s)) /\ SameCommands(ops)
<1>1. ops \in Seq(Operation) /\ DOMAIN ops = 1 .. Len(ops) /\ Len(ops) \in Nat
  BY SMTT(15) DEF CInv, IntakeType
<1>2. ASSUME NEW o \in DOMAIN ops
      PROVE  LET x == [ops[o] EXCEPT !.phase = "failed"] IN
             x \in Operation /\ x.svc = ops[o].svc /\ x.kind = ops[o].kind /\ x.gen = ops[o].gen
  <2>1. ops[o] \in Operation
    BY <1>1, SMTT(15)
  <2> QED
    BY <2>1 DEF Operation, Phases
<1> DEFINE rest == CancelActiveOperation(s)
<1>3. /\ DOMAIN rest = 1 .. Len(ops)
      /\ \A o \in DOMAIN ops : rest[o] = ops[o] \/ rest[o] = [ops[o] EXCEPT !.phase = "failed"]
  BY <1>1 DEF CancelActiveOperation
<1>4. \A o \in DOMAIN ops :
          /\ rest[o] \in Operation
          /\ rest[o].svc = ops[o].svc /\ rest[o].kind = ops[o].kind /\ rest[o].gen = ops[o].gen
  <2> SUFFICES ASSUME NEW o \in DOMAIN ops
               PROVE  /\ rest[o] \in Operation /\ rest[o].svc = ops[o].svc
                      /\ rest[o].kind = ops[o].kind /\ rest[o].gen = ops[o].gen
    OBVIOUS
  <2>1. CASE rest[o] = ops[o]
    BY <1>1, <2>1, SMTT(15)
  <2>2. CASE rest[o] = [ops[o] EXCEPT !.phase = "failed"]
    BY <1>2, <2>2
  <2> QED
    BY <1>3, <2>1, <2>2
<1>5. rest \in [1 .. Len(ops) -> Operation]
  BY <1>1, <1>3, <1>4 DEF CancelActiveOperation
<1> HIDE DEF rest
<1>6. rest \in Seq(Operation) /\ Len(rest) = Len(ops)
  BY <1>1, <1>5, SMTT(15)
<1>7. SameCommands(rest)
  BY <1>4, <1>6 DEF SameCommands
<1>8. SameCommands(ops)
  BY <1>1 DEF SameCommands
<1> QED
  BY <1>7, <1>8 DEF rest

\* A call at its write holds the row of its service.
LEMMA WriterHolds ==
    ASSUME CInv, NEW c \in Clients, call[c].pc = "write", Req(c).kind # "create"
    PROVE  /\ Req(c) \in Requests /\ Req(c).svc \in Services
           /\ Granted(c, Req(c).svc)
           /\ call[c].seen = svc[Req(c).svc].gen /\ svc[Req(c).svc] \in Row
           /\ svc[Req(c).svc].gen \in DOMAIN spec[Req(c).svc]
           /\ svc[Req(c).svc].gen = Len(spec[Req(c).svc])
<1> DEFINE s == Req(c).svc
<1>1. Req(c) \in Requests /\ s \in Services
  BY RequestOf DEF CInv, Requested
<1>2. /\ rowlock[s] = c /\ Permitted(Req(c), svc[s]) /\ call[c].seen = svc[s].gen
  BY DEF CInv, LocksHeld, Holds
<1>3. svc[s] # NoService /\ svc[s].desired # "deleted"
  BY <1>1, <1>2, PermittedRow
<1>4. \A d \in Clients \ {c} : call[d].pc = "write" /\ Req(d).kind # "create" => Req(d).svc # s
  BY <1>2 DEF CInv, LocksHeld, Holds
<1>5. svc[s] \in Row /\ svc[s].gen \in Nat /\ spec[s] \in Seq(SpecRow)
  BY <1>1 DEF CInv, IntakeType, Row
<1>6. svc[s].gen = Len(spec[s]) /\ svc[s].gen # 0
  BY <1>1, <1>3 DEF CInv, ServicesWhole
<1>7. svc[s].gen \in DOMAIN spec[s]
  BY <1>5, <1>6, SMTT(15)
<1> QED
  BY <1>1, <1>2, <1>3, <1>4, <1>5, <1>6, <1>7 DEF Granted

\* CreateService
LEMMA CreateGood ==
    ASSUME CInv, NEW c \in Clients, CreateService(c)
    PROVE  Good
<1>1. call[c].pc = "write" /\ Hash(Req(c)).kind = "create"
  BY DEF CreateService
<1>2. Req(c) \in Requests
  BY <1>1 DEF CInv, Requested
<1>3. PICK r : r = Hash(Req(c))
  OBVIOUS
<1>4. /\ r \in Request /\ Req(c).kind = "create" /\ r.mask = Fields /\ Req(c).mask = Fields
      /\ r.name \in Names \union {Absent} /\ r.set \in SpecRow
  BY <1>1, <1>2, <1>3, HashOf, RequestOf DEF Request, SpecRow
<1>5. CASE Roll(c)
  BY <1>5, EndStep DEF Roll, Fail
<1>6. ASSUME NEW s \in Services, NextId(s),
             svc' = [svc EXCEPT ![s] = InsertService(r)],
             spec' = [spec EXCEPT ![s] = InsertSpec(r)],
             Accept(c, ops, s, "create", 1)
      PROVE  Good
  <2>1. PICK row, specs, rest : row = InsertService(r) /\ specs = InsertSpec(r) /\ rest = ops
    OBVIOUS
  <2>2. svc[s] = NoService /\ svc[s].gen = 0 /\ svc[s].desired = "none" /\ spec[s] = <<>>
    BY <1>6, SMTT(15) DEF NextId, CInv, ServicesWhole, NoService
  <2>3. \A d \in Clients \ {c} : call[d].pc = "write" /\ Req(d).kind # "create" => Req(d).svc # s
    BY <2>2, WriterHolds DEF Granted
  <2>4. Granted(c, s)
    BY <1>1, <1>4, <2>2, <2>3 DEF Granted
  <2>5. SameCommands(rest)
    BY <2>1, CancelledCommands
  <2>6. NextRow(Req(c), s, row) /\ row.gen = 1
    BY <1>4, <2>1, <2>2, SMTT(15) DEF NextRow, InsertService, Row
  <2>7. NextSpecs(Req(c), s, specs)
    <3>1. specs = <<r.set>>
      BY <2>1 DEF InsertSpec
    <3>2. specs \in Seq(SpecRow) /\ Len(specs) = 1 /\ specs[1] = r.set
      BY <1>4, <3>1, SMTT(15)
    <3>3. Len(spec[s]) = 0 /\ DOMAIN spec[s] = {}
      BY <2>2, SMTT(15)
    <3> QED
      BY <1>3, <1>4, <3>2, <3>3, SMTT(15) DEF NextSpecs
  <2>8. Writes(c, rest, s, row, specs)
    BY <1>4, <1>6, <2>1, <2>6 DEF Writes
  <2> QED
    BY <2>4, <2>5, <2>6, <2>7, <2>8, WrittenGood DEF Written
<1> QED
  BY <1>3, <1>5, <1>6 DEF CreateService

\* CommandUseCase.Command
LEMMA CommandGood ==
    ASSUME CInv, NEW c \in Clients, WriteCommand(c)
    PROVE  Good
<1>1. call[c].pc = "write" /\ Req(c).kind \in {"start", "stop", "restart", "delete"}
  BY DEF WriteCommand
<1>2. PICK s, rest, row, specs :
          /\ s = Req(c).svc
          /\ rest = IF Req(c).kind = "delete" THEN CancelActiveOperation(s) ELSE ops
          /\ row = TransitionService(svc[s], Req(c).kind)
          /\ specs = IF Req(c).kind = "delete" THEN spec[s]
                     ELSE CloneSpecGeneration(spec[s], svc[s].gen)
  OBVIOUS
<1>3. /\ Req(c) \in Requests /\ s \in Services /\ Granted(c, s)
      /\ call[c].seen = svc[s].gen /\ svc[s] \in Row
      /\ svc[s].gen \in DOMAIN spec[s] /\ svc[s].gen = Len(spec[s])
  BY <1>1, <1>2, WriterHolds
<1>4. CASE Roll(c)
  BY <1>4, EndStep DEF Roll, Fail
<1>5. CASE /\ svc' = [svc EXCEPT ![s] = TransitionService(@, Req(c).kind)]
           /\ spec' = IF Req(c).kind = "delete" THEN spec
                      ELSE [spec EXCEPT ![s] = CloneSpecGeneration(@, call[c].seen)]
           /\ Accept(c, rest, s, Req(c).kind, call[c].seen + 1)
  <2>1. SameCommands(rest)
    BY <1>2, <1>3, CancelledCommands
  <2>2. NextRow(Req(c), s, row) /\ row.gen = call[c].seen + 1
    BY <1>1, <1>2, <1>3, TransitionRow, SMTT(15) DEF NextRow, Kinds
  <2>3. spec[s] \in Seq(SpecRow) /\ Req(c).mask = {} /\ spec \in [Services -> Seq(SpecRow)]
    BY <1>1, <1>3, RequestOf DEF CInv, IntakeType
  <2>4. NextSpecs(Req(c), s, specs)
    <3>1. CASE Req(c).kind = "delete"
      BY <1>2, <2>3, <3>1 DEF NextSpecs
    <3>2. CASE Req(c).kind # "delete"
      <4>1. specs = Append(spec[s], spec[s][Len(spec[s])])
        BY <1>2, <1>3, <3>2 DEF CloneSpecGeneration
      <4>2. spec[s][Len(spec[s])] \in SpecRow
        BY <1>3, <2>3, SMTT(15)
      <4>3. /\ specs \in Seq(SpecRow) /\ Len(specs) = Len(spec[s]) + 1
            /\ \A g \in DOMAIN spec[s] : specs[g] = spec[s][g]
            /\ specs[Len(specs)] = spec[s][Len(spec[s])]
        BY <2>3, <4>1, <4>2, SMTT(15)
      <4> QED
        BY <2>3, <3>2, <4>3 DEF NextSpecs
    <3> QED
      BY <3>1, <3>2
  <2>5. svc' = [svc EXCEPT ![s] = row] /\ spec' = [spec EXCEPT ![s] = specs]
    BY <1>2, <1>3, <1>5, <2>3
  <2>6. Writes(c, rest, s, row, specs)
    BY <1>5, <2>2, <2>5 DEF Writes
  <2> QED
    BY <1>3, <2>1, <2>2, <2>4, <2>6, WrittenGood DEF Written
<1> QED
  BY <1>2, <1>4, <1>5 DEF WriteCommand

\* UpdateUseCase.Update
LEMMA UpdateGood ==
    ASSUME CInv, NEW c \in Clients, WriteUpdate(c)
    PROVE  Good
<1>1. call[c].pc = "write" /\ Hash(Req(c)).kind = "update"
  BY DEF WriteUpdate
<1>2. Req(c) \in Requests
  BY <1>1 DEF CInv, Requested
<1>3. PICK r : r = Hash(Req(c))
  OBVIOUS
<1>4. /\ r \in Request /\ Req(c).kind = "update" /\ r.svc = Req(c).svc /\ r.mask = Req(c).mask
      /\ r.set \in SpecRow
      /\ \A f \in Fields \ r.mask : r.set[f] = Absent
      /\ \A f \in r.mask : r.set[f] # Absent
  BY <1>1, <1>2, <1>3, HashOf, RequestOf, SMTT(15) DEF Request, SpecRow
<1>5. PICK s, row, specs, rest :
          /\ s = Req(c).svc /\ row = TransitionService(svc[s], "update") /\ rest = ops
          /\ specs = CloneSpecWithRuntimeUpdate(spec[s], svc[s].gen, r.set)
  OBVIOUS
<1>6. /\ s \in Services /\ Granted(c, s)
      /\ call[c].seen = svc[s].gen /\ svc[s] \in Row
      /\ svc[s].gen \in DOMAIN spec[s] /\ svc[s].gen = Len(spec[s])
  BY <1>1, <1>4, <1>5, WriterHolds
<1>7. CASE Roll(c)
  BY <1>7, EndStep DEF Roll, Fail
<1>8. CASE /\ svc' = [svc EXCEPT ![s] = TransitionService(@, "update")]
           /\ spec' = [spec EXCEPT ![s] = CloneSpecWithRuntimeUpdate(@, call[c].seen, r.set)]
           /\ Accept(c, ops, s, "update", call[c].seen + 1)
  <2>1. SameCommands(rest)
    BY <1>5, <1>6, CancelledCommands
  <2>2. NextRow(Req(c), s, row) /\ row.gen = call[c].seen + 1
    BY <1>4, <1>5, <1>6, TransitionRow, SMTT(15) DEF NextRow, Kinds
  <2>3. spec[s] \in Seq(SpecRow) /\ spec \in [Services -> Seq(SpecRow)]
    BY <1>6 DEF CInv, IntakeType
  <2>4. NextSpecs(Req(c), s, specs)
    <3> DEFINE last == spec[s][Len(spec[s])]
               new == [f \in Fields |-> IF r.set[f] = Absent THEN last[f] ELSE r.set[f]]
    <3>1. specs = Append(spec[s], new)
      BY <1>5, <1>6 DEF CloneSpecWithRuntimeUpdate
    <3>2. last \in SpecRow
      BY <1>6, <2>3, SMTT(15)
    <3>3. new \in SpecRow /\ \A f \in Fields : new[f] = IF f \in r.mask THEN r.set[f] ELSE last[f]
      BY <1>4, <3>2 DEF SpecRow
    <3> HIDE DEF new
    <3>4. /\ specs \in Seq(SpecRow) /\ Len(specs) = Len(spec[s]) + 1
          /\ \A g \in DOMAIN spec[s] : specs[g] = spec[s][g]
          /\ specs[Len(specs)] = new
      BY <2>3, <3>1, <3>3, SMTT(15)
    <3> QED
      BY <1>3, <1>4, <3>3, <3>4 DEF NextSpecs
  <2>5. svc' = [svc EXCEPT ![s] = row] /\ spec' = [spec EXCEPT ![s] = specs]
    BY <1>5, <1>6, <1>8
  <2>6. Writes(c, rest, s, row, specs)
    BY <1>4, <1>5, <1>8, <2>2, <2>5 DEF Writes
  <2> QED
    BY <1>6, <2>1, <2>2, <2>4, <2>6, WrittenGood DEF Written
<1> QED
  BY <1>3, <1>4, <1>5, <1>7, <1>8 DEF WriteUpdate

-----------------------------------------------------------------------------
(* The worker *)

\* The worker moves the phase of an operation, and may mark its service deleted,
\* but not while a transaction has locked it.
LEMMA WorkTables ==
    ASSUME CInv, NEW o \in DOMAIN ops, Work(o)
    PROVE  /\ ops' \in Seq(Operation) /\ DOMAIN ops' = DOMAIN ops
           /\ \A p \in DOMAIN ops : ops'[p].svc = ops[p].svc /\ ops'[p].kind = ops[p].kind
                                    /\ ops'[p].gen = ops[p].gen
           /\ svc' \in [Services -> Row]
           /\ \A t \in Services :
                  /\ svc'[t].gen = svc[t].gen /\ svc'[t].desired = svc[t].desired
                  /\ svc'[t] = NoService <=> svc[t] = NoService
                  /\ rowlock[t] # NoClient => svc'[t] = svc[t]
<1>1. /\ ops \in Seq(Operation) /\ ops[o] \in Operation /\ svc \in [Services -> Row]
      /\ DOMAIN ops = 1 .. Len(ops)
  BY SMTT(15) DEF CInv, IntakeType
<1>2. PICK s : s = ops[o].svc
  OBVIOUS
<1>3. s \in Services /\ svc[s] \in Row /\ svc[s].gen # 0
  <2>1. s \in Services /\ ops[o].gen \in Nat \ {0}
    BY <1>1, <1>2 DEF Operation
  <2>2. svc[s] \in Row
    BY <1>1, <2>1
  <2>3. ops[o].gen <= svc[s].gen /\ svc[s].gen \in Nat
    BY <1>2, <2>2 DEF CInv, OperationsWhole, Row
  <2> QED
    BY <2>1, <2>2, <2>3, SMTT(15)
<1>4. PICK phase \in Phases : ops' = [ops EXCEPT ![o].phase = phase]
  BY DEF Work, Phases
<1> DEFINE x == [ops[o] EXCEPT !.phase = phase]
<1>5. x \in Operation /\ x.svc = ops[o].svc /\ x.kind = ops[o].kind /\ x.gen = ops[o].gen
  BY <1>1 DEF Operation
<1>6. ops' = [ops EXCEPT ![o] = x]
  BY <1>4
<1> HIDE DEF x
<1>7. /\ ops' \in Seq(Operation) /\ DOMAIN ops' = DOMAIN ops
      /\ \A p \in DOMAIN ops : ops'[p] = IF p = o THEN x ELSE ops[p]
  BY <1>1, <1>5, <1>6, SMTT(15)
<1>8. svc' = svc \/ (rowlock[s] = NoClient /\ \E b \in BOOLEAN : svc' = [svc EXCEPT ![s].deleted = b])
  BY <1>2 DEF Work
<1>9. CASE svc' = svc
  BY <1>1, <1>5, <1>7, <1>9
<1>10. ASSUME NEW b \in BOOLEAN, rowlock[s] = NoClient, svc' = [svc EXCEPT ![s].deleted = b]
       PROVE  /\ svc' \in [Services -> Row]
              /\ \A t \in Services :
                     /\ svc'[t].gen = svc[t].gen /\ svc'[t].desired = svc[t].desired
                     /\ svc'[t] = NoService <=> svc[t] = NoService
                     /\ rowlock[t] # NoClient => svc'[t] = svc[t]
  <2> DEFINE y == [svc[s] EXCEPT !.deleted = b]
  <2>1. y \in Row /\ y.gen = svc[s].gen /\ y.desired = svc[s].desired
    BY <1>3 DEF Row
  <2>2. svc' = [svc EXCEPT ![s] = y]
    BY <1>10
  <2> HIDE DEF y
  <2>3. y # NoService /\ svc[s] # NoService
    BY <1>3, <2>1, SMTT(15) DEF NoService
  <2>4. svc' \in [Services -> Row] /\ \A t \in Services : svc'[t] = IF t = s THEN y ELSE svc[t]
    BY <1>1, <1>3, <2>1, <2>2
  <2> QED
    BY <1>10, <2>1, <2>3, <2>4
<1> QED
  BY <1>5, <1>7, <1>8, <1>9, <1>10

\* Work
LEMMA WorkGood ==
    ASSUME CInv, NEW o \in DOMAIN ops, Work(o)
    PROVE  Good
<1>1. /\ ops' \in Seq(Operation) /\ DOMAIN ops' = DOMAIN ops
      /\ \A p \in DOMAIN ops : ops'[p].svc = ops[p].svc /\ ops'[p].kind = ops[p].kind
                               /\ ops'[p].gen = ops[p].gen
      /\ svc' \in [Services -> Row]
      /\ \A t \in Services :
             /\ svc'[t].gen = svc[t].gen /\ svc'[t].desired = svc[t].desired
             /\ svc'[t] = NoService <=> svc[t] = NoService
             /\ rowlock[t] # NoClient => svc'[t] = svc[t]
  BY WorkTables
<1>2. UNCHANGED <<spec, idem, work, quota, audit, lock, rowlock, call>>
  BY DEF Work
<1>3. \A p \in DOMAIN ops : ops[p].svc \in Services
  <2>1. \A p \in DOMAIN ops : ops[p] \in Operation
    BY SMTT(15) DEF CInv, IntakeType
  <2> QED
    BY <2>1 DEF Operation
<1>4. IntakeType' /\ Requested' /\ Answered'
  BY <1>1, <1>2 DEF CInv, IntakeType, Requested, Answered, Req
<1>5. Kept' /\ OneIdentity'
  <2>1. \A i \in Ids, r \in Requests : KeptFor(i, r) => KeptFor(i, r)'
    BY <1>1, <1>2 DEF KeptFor
  <2> QED
    BY <1>2, <2>1 DEF CInv, Kept, OneIdentity
<1>6. LocksHeld'
  <2> SUFFICES ASSUME NEW d \in Clients PROVE Holds(d)'
    BY DEF LocksHeld
  <2>1. Holds(d) /\ Req(d)' = Req(d) /\ Id(d)' = Id(d) /\ call'[d] = call[d] /\ NoClient \notin Clients
    BY <1>2, IntakeAssumption DEF CInv, LocksHeld, Req, Id
  <2>2. call[d].pc = "write" /\ Req(d).kind # "create" => svc'[Req(d).svc] = svc[Req(d).svc]
    <3>1. call[d].pc = "write" /\ Req(d).kind # "create" => Req(d).svc \in Services
      BY RequestOf DEF CInv, Requested
    <3> QED
      BY <1>1, <2>1, <3>1 DEF Holds
  <2> QED
    BY <1>2, <2>1, <2>2 DEF Holds
<1>7. ServicesWhole'
  <2>1. \A t \in Services, i \in Ids : CommandedBy(t, i) => CommandedBy(t, i)'
    BY <1>1, <1>2, AcceptedOf DEF CommandedBy
  <2> QED
    BY <1>1, <1>2, <2>1 DEF CInv, ServicesWhole
<1>8. OperationsWhole' /\ AcceptedIsWhole'
  BY <1>1, <1>2, <1>3, SMTT(30) DEF CInv, OperationsWhole, AcceptedIsWhole
<1>9. LastWritten'
  <2> SUFFICES ASSUME NEW t \in Services, NEW g \in DOMAIN spec'[t], NEW f \in Fields
               PROVE  \E p \in DOMAIN ops', i \in Ids : LastWrittenBy(t, g, f, p, i)'
    BY DEF LastWritten
  <2>1. PICK p \in DOMAIN ops, i \in Ids : LastWrittenBy(t, g, f, p, i)
    BY <1>2 DEF CInv, LastWritten
  <2>2. WriterOf(t, g, f)' = WriterOf(t, g, f)
    BY <1>1, <1>2 DEF WriterOf, Selects
  <2>3. LastWrittenBy(t, g, f, p, i)'
    BY <1>2, <2>1, <2>2 DEF LastWrittenBy
  <2> QED
    BY <1>1, <2>3
<1>10. UNCHANGED API!vars
  <2>1. AcceptedCommands' = AcceptedCommands
    <3>1. \A i \in Ids : idem[i] # NoRow =>
              Accepted(idem[i].op, idem[i].hash)' = Accepted(idem[i].op, idem[i].hash)
      BY <1>1, <1>2, AcceptedOf DEF Accepted
    <3> QED
      BY <1>2, <3>1 DEF AcceptedCommands
  <2>2. Answers' = Answers
    <3>1. \A c \in Clients : call[c].pc = "reply" => Answer(c)' = Answer(c)
      BY <1>1, <1>2 DEF CInv, Answered, Answer, Accepted, Req, Id
    <3> QED
      BY <1>2, <3>1 DEF Answers
  <2> QED
    BY <2>1, <2>2 DEF API!vars
<1> QED
  BY <1>4, <1>5, <1>6, <1>7, <1>8, <1>9, <1>10 DEF CInv, Good

\* Every step keeps the invariant and is a step of Acceptance, or unseen.
LEMMA IntakeStep == CInv /\ [Next]_vars => Good
<1> SUFFICES ASSUME CInv, [Next]_vars PROVE Good
  OBVIOUS
<1>1. CASE UNCHANGED vars
  <2>1. UNCHANGED <<store, lock, rowlock, call>>
    BY <1>1 DEF vars
  <2>2. CInv'
    <3>1. IntakeType' /\ Requested' /\ Answered' /\ Kept' /\ OneIdentity'
      BY <2>1 DEF CInv, IntakeType, Requested, Answered, Kept, KeptFor, OneIdentity,
         Req, store
    <3>2. LocksHeld'
      BY <2>1 DEF CInv, LocksHeld, Holds, Req, Id, store
    <3>3. ServicesWhole' /\ OperationsWhole' /\ AcceptedIsWhole'
      BY <2>1, SMTT(15) DEF CInv, ServicesWhole, CommandedBy, OperationsWhole,
         AcceptedIsWhole, store
    <3>4. LastWritten'
      BY <2>1, SMTT(15) DEF CInv, LastWritten, LastWrittenBy, WriterOf, Selects, store
    <3> QED
      BY <3>1, <3>2, <3>3, <3>4 DEF CInv
  <2>3. UNCHANGED API!vars
    BY <2>1 DEF API!vars, AcceptedCommands, Answers, Answer, Accepted, Req, Id, store
  <2> QED
    BY <2>2, <2>3 DEF Good
<1>2. ASSUME NEW c \in Clients, Step(c) PROVE Good
  BY <1>2, CreateReadsGood, UpdateReadsGood, EndsGood, LockGood, LookupGood, RowGood,
     CreateGood,
     CommandGood, UpdateGood DEF Step
<1>3. ASSUME NEW c \in Clients, CutOff(c) PROVE Good
  BY <1>3, EndsGood
<1>4. ASSUME NEW c \in Clients, NEW r \in Requests, Send(c, r) PROVE Good
  BY <1>4, SendGood
<1>5. ASSUME NEW o \in DOMAIN ops, Work(o) PROVE Good
  BY <1>5, WorkGood
<1> QED
  BY <1>1, <1>2, <1>3, <1>4, <1>5 DEF Next

-----------------------------------------------------------------------------
(* The theorems *)

\* The invariant holds in every state: what the two locks of a transaction
\* keep, and what the tables say of one another.
THEOREM IntakeInvariance == Spec => []CInv
  BY IntakeInit, IntakeStep, PTL DEF Spec, Good

\* Whatever is cut off or races, an operation is accepted whole or not at all:
\* with its reservation, its audit event, its one request id and its work row.
THEOREM AcceptsWhole == Spec => []AcceptedIsWhole
<1>1. CInv => AcceptedIsWhole
  BY DEF CInv
<1> QED
  BY <1>1, IntakeInvariance, PTL

\* No update is lost and none leaks: each field of each spec is what the newest
\* request that selected it carried.
THEOREM SpecsLastWritten == Spec => []SpecIsLastWritten
<1>1. CInv => SpecIsLastWritten
  <2> SUFFICES ASSUME CInv, NEW s \in Services, NEW g \in DOMAIN spec[s], NEW f \in Fields
               PROVE  \E i \in Ids : /\ idem[i].op = Writer(s, g, f)
                                     /\ spec[s][g][f] = idem[i].hash.set[f]
    BY DEF SpecIsLastWritten
  <2>1. PICK o \in DOMAIN ops, i \in Ids : LastWrittenBy(s, g, f, o, i)
    BY DEF CInv, LastWritten
  <2>2. WriterOf(s, g, f) \subseteq Nat
    BY SMTT(15) DEF WriterOf, CInv, IntakeType
  <2>3. Writer(s, g, f) = CHOOSE p \in WriterOf(s, g, f) : \A q \in WriterOf(s, g, f) : q <= p
    BY DEF Writer, WriterOf, Selects
  <2>4. \A p \in WriterOf(s, g, f) : (\A q \in WriterOf(s, g, f) : q <= p) => p = o
    BY <2>1, <2>2, SMTT(15) DEF LastWrittenBy
  <2>5. o \in WriterOf(s, g, f) /\ \A q \in WriterOf(s, g, f) : q <= o
    BY <2>1 DEF LastWrittenBy
  <2>6. Writer(s, g, f) = o
    BY <2>3, <2>4, <2>5
  <2> QED
    BY <2>1, <2>6 DEF LastWrittenBy
<1> QED
  BY <1>1, IntakeInvariance, PTL

\* The transactions, locks, preflights and replays implement Acceptance.
THEOREM IntakeImplementsAcceptance == Spec => ImplementsAcceptance
<1>1. Init => API!Init
  <2> SUFFICES ASSUME Init PROVE API!Init
    OBVIOUS
  <2>1. \A i \in Ids : idem[i] = NoRow
    BY DEF Init
  <2>2. \A c \in Clients : call[c].pc # "reply"
    BY DEF Init, Idle
  <2> QED
    BY <2>1, <2>2 DEF API!Init, API!NotAccepted, AcceptedCommands, Answers
<1>2. CInv /\ [Next]_vars => [API!Next]_(API!vars)
  BY IntakeStep DEF Good
<1> QED
  BY <1>1, <1>2, IntakeInvariance, PTL DEF Spec, ImplementsAcceptance, API!Spec

-----------------------------------------------------------------------------
(* What the promise of Acceptance gives its callers *)

IsAccepted(i) == AcceptedCommands[i] # API!NotAccepted

\* Every identity is free, or holds a command with a generation.
Recorded ==
    /\ DOMAIN AcceptedCommands = Ids
    /\ \A i \in Ids :
          /\ IsAccepted(i) =>
                /\ AcceptedCommands[i].svc \in Services
                /\ AcceptedCommands[i].gen \in Nat /\ AcceptedCommands[i].gen # 0
          /\ ~IsAccepted(i) => AcceptedCommands[i].gen = 0

AnswersKept == DOMAIN Answers = Clients /\ API!AnswersTrue

AInv == Recorded /\ API!OneHistory /\ AnswersKept

\* Initially nothing is accepted and nobody is told anything.
LEMMA AcceptanceInit == API!Init => AInv
<1> SUFFICES ASSUME API!Init PROVE AInv
  OBVIOUS
<1>1. \A i \in Ids : AcceptedCommands[i] = API!NotAccepted /\ AcceptedCommands[i].gen = 0
  BY DEF API!Init, API!NotAccepted
<1>2. DOMAIN AcceptedCommands = Ids /\ DOMAIN Answers = Clients
  BY DEF API!Init
<1>3. \A s \in Services : API!History(s) = {}
  BY <1>1 DEF API!History
<1>4. API!OneHistory
  BY <1>3 DEF API!OneHistory
<1>5. API!AnswersTrue
  BY DEF API!Init, API!AnswersTrue
<1> QED
  BY <1>1, <1>2, <1>4, <1>5 DEF AInv, Recorded, IsAccepted, AnswersKept

\* A step that accepts nothing preserves the invariant if the answers are true.
LEMMA AnswerStep ==
    ASSUME AInv, UNCHANGED AcceptedCommands, AnswersKept'
    PROVE  AInv'
  BY SMTT(15) DEF AInv, Recorded, IsAccepted, API!OneHistory, API!History

\* An accepted command extends the history of its service by one, and takes
\* nothing away.
LEMMA AcceptStep ==
    ASSUME AInv, NEW c \in Clients, NEW i \in Ids, API!Accept(c, i)
    PROVE  AInv' /\ \A j \in Ids : IsAccepted(j) => AcceptedCommands'[j] = AcceptedCommands[j]
<1> DEFINE a == AcceptedCommands'[i]
<1>1. /\ ~IsAccepted(i) /\ a # API!NotAccepted /\ a.svc \in Services /\ a.gen \in Nat
      /\ \A j \in Ids \ {i} : AcceptedCommands'[j] = AcceptedCommands[j]
      /\ DOMAIN AcceptedCommands' = Ids
  BY DEF API!Accept, IsAccepted, AInv, Recorded
<1>2. /\ KindOf(a.cmd) = "create" => API!History(a.svc) = {} /\ a.gen = 1
      /\ KindOf(a.cmd) # "create" => ~API!Closed(a.svc) /\ API!Newest(a.svc, a.gen - 1)
  BY DEF API!Accept
<1>3. \A j \in Ids : IsAccepted(j) => j # i
  BY <1>1
<1>4. a.gen # 0
  <2>1. CASE KindOf(a.cmd) = "create"
    BY <1>2, <2>1, SMTT(15)
  <2>2. CASE KindOf(a.cmd) # "create"
    <3>1. PICK j \in API!History(a.svc) : AcceptedCommands[j].gen = a.gen - 1
      BY <1>2, <2>2 DEF API!Newest
    <3>2. AcceptedCommands[j].gen \in Nat
      BY <3>1 DEF API!History, AInv, Recorded
    <3> QED
      BY <1>1, <3>1, <3>2, SMTT(15)
  <2> QED
    BY <2>1, <2>2
<1>5. \A s \in Services : API!History(s)' = IF s = a.svc THEN API!History(s) \cup {i} ELSE API!History(s)
  BY <1>1, <1>4 DEF API!History, AInv, Recorded, IsAccepted
<1>6. i \notin API!History(a.svc) /\ \A s \in Services : i \notin API!History(s)
  BY <1>1 DEF API!History, AInv, Recorded
<1>7. \A s \in Services : \A j \in API!History(s) :
          j \in Ids /\ AcceptedCommands'[j] = AcceptedCommands[j] /\ AcceptedCommands[j].gen \in Nat /\ AcceptedCommands[j].gen # 0
  BY <1>1, <1>6 DEF API!History, AInv, Recorded, IsAccepted
<1>8. Recorded'
  BY <1>1, <1>4 DEF AInv, Recorded, IsAccepted
<1>9. API!OneHistory'
  <2> SUFFICES ASSUME NEW s \in Services
               PROVE  /\ \A j, k \in API!History(s)' :
                             AcceptedCommands'[j].gen = AcceptedCommands'[k].gen => j = k
                      /\ \A j \in API!History(s)' :
                             KindOf(AcceptedCommands'[j].cmd) = "create" <=> AcceptedCommands'[j].gen = 1
                      /\ \A j \in API!History(s)' : AcceptedCommands'[j].gen > 1 =>
                             \E k \in API!History(s)' : AcceptedCommands'[k].gen = AcceptedCommands'[j].gen - 1
                      /\ \A j, k \in API!History(s)' :
                             KindOf(AcceptedCommands'[j].cmd) = "delete" =>
                                 AcceptedCommands'[k].gen <= AcceptedCommands'[j].gen
    BY DEF API!OneHistory
  <2>1. /\ \A j, k \in API!History(s) : AcceptedCommands[j].gen = AcceptedCommands[k].gen => j = k
        /\ \A j \in API!History(s) : KindOf(AcceptedCommands[j].cmd) = "create" <=> AcceptedCommands[j].gen = 1
        /\ \A j \in API!History(s) : AcceptedCommands[j].gen > 1 =>
               \E k \in API!History(s) : AcceptedCommands[k].gen = AcceptedCommands[j].gen - 1
        /\ \A j, k \in API!History(s) :
               KindOf(AcceptedCommands[j].cmd) = "delete" => AcceptedCommands[k].gen <= AcceptedCommands[j].gen
    BY DEF AInv, API!OneHistory
  <2>2. CASE s # a.svc
    BY <1>5, <1>7, <2>1, <2>2, SMTT(15)
  <2>3. CASE s = a.svc
    <3>1. API!History(s)' = API!History(s) \cup {i}
      BY <1>5, <2>3
    <3>2. \A j \in API!History(s) : AcceptedCommands[j].gen < a.gen
      BY <1>1, <1>2, <1>7, <2>3, SMTT(15) DEF API!Newest
    <3>3. \A j \in API!History(s) : KindOf(AcceptedCommands[j].cmd) # "delete"
      BY <1>2, <2>3 DEF API!Closed
    <3>4. KindOf(a.cmd) = "create" <=> a.gen = 1
      <4>1. CASE KindOf(a.cmd) # "create"
        <5>1. PICK j \in API!History(s) : AcceptedCommands[j].gen = a.gen - 1
          BY <1>2, <2>3, <4>1 DEF API!Newest
        <5> QED
          BY <1>1, <1>7, <4>1, <5>1, SMTT(15)
      <4> QED
        BY <1>2, <4>1
    <3>5. a.gen > 1 => \E k \in API!History(s) : AcceptedCommands[k].gen = a.gen - 1
      BY <1>2, <2>3, SMTT(15) DEF API!Newest
    <3> HIDE DEF a
    <3>6. \A j, k \in API!History(s)' : AcceptedCommands'[j].gen = AcceptedCommands'[k].gen => j = k
      BY <1>1, <1>7, <2>1, <3>1, <3>2, SMTT(15) DEF a
    <3>7. \A j \in API!History(s)' : KindOf(AcceptedCommands'[j].cmd) = "create" <=> AcceptedCommands'[j].gen = 1
      BY <1>7, <2>1, <3>1, <3>4 DEF a
    <3>8. \A j \in API!History(s)' : AcceptedCommands'[j].gen > 1 =>
              \E k \in API!History(s)' : AcceptedCommands'[k].gen = AcceptedCommands'[j].gen - 1
      BY <1>7, <2>1, <3>1, <3>5, SMTT(15) DEF a
    <3>9. \A j, k \in API!History(s)' :
              KindOf(AcceptedCommands'[j].cmd) = "delete" => AcceptedCommands'[k].gen <= AcceptedCommands'[j].gen
      BY <1>1, <1>7, <3>1, <3>2, <3>3, SMTT(15) DEF a
    <3> QED
      BY <3>6, <3>7, <3>8, <3>9
  <2> QED
    BY <2>2, <2>3
<1>10. AnswersKept'
  <2>1. /\ Answers'[c] = API!Told(i, a) /\ DOMAIN Answers' = Clients
        /\ \A d \in Clients \ {c} : Answers'[d] = Answers[d]
    BY DEF API!Accept, AInv, AnswersKept
  <2>2. Answers'[c].id = i
    BY <2>1, SMTT(15) DEF API!Told
  <2>3. ASSUME NEW d \in Clients \ {c}, Answers[d] # API!NotAccepted
        PROVE  /\ Answers[d].id \in Ids /\ AcceptedCommands'[Answers[d].id] # API!NotAccepted
               /\ Answers[d] = API!Told(Answers[d].id, AcceptedCommands'[Answers[d].id])
    <3>1. /\ Answers[d].id \in Ids /\ IsAccepted(Answers[d].id)
          /\ Answers[d] = API!Told(Answers[d].id, AcceptedCommands[Answers[d].id])
      BY <2>3 DEF AInv, AnswersKept, API!AnswersTrue, IsAccepted
    <3> QED
      BY <1>1, <1>3, <3>1 DEF IsAccepted
  <2>4. API!AnswersTrue'
    BY <1>1, <2>1, <2>2, <2>3 DEF API!AnswersTrue
  <2> QED
    BY <2>1, <2>4 DEF AnswersKept
<1> QED
  BY <1>1, <1>3, <1>8, <1>9, <1>10 DEF AInv

\* Every step preserves the invariant, and what was accepted stays.
LEMMA AcceptanceStep ==
    ASSUME AInv, [API!Next]_(API!vars)
    PROVE  AInv' /\ \A j \in Ids : IsAccepted(j) => AcceptedCommands'[j] = AcceptedCommands[j]
<1>1. CASE UNCHANGED API!vars
  BY <1>1, AnswerStep DEF API!vars, AInv, AnswersKept, API!AnswersTrue
<1>2. CASE \E c \in Clients, i \in Ids : API!Accept(c, i)
  BY <1>2, AcceptStep
<1>3. ASSUME NEW c \in Clients, NEW i \in Ids, API!Repeat(c, i)
      PROVE  AInv' /\ UNCHANGED AcceptedCommands
  <2>1. /\ UNCHANGED AcceptedCommands /\ IsAccepted(i) /\ DOMAIN Answers' = Clients
        /\ Answers'[c] = API!Told(i, AcceptedCommands[i])
        /\ \A d \in Clients \ {c} : Answers'[d] = Answers[d]
    BY <1>3 DEF API!Repeat, IsAccepted, AInv, AnswersKept
  <2>2. Answers'[c].id = i
    BY <2>1, SMTT(15) DEF API!Told
  <2>3. AnswersKept'
    BY <2>1, <2>2 DEF AInv, AnswersKept, API!AnswersTrue, IsAccepted
  <2> QED
    BY <2>1, <2>3, AnswerStep
<1>4. ASSUME NEW c \in Clients, API!Heard(c)
      PROVE  AInv' /\ UNCHANGED AcceptedCommands
  <2>1. /\ UNCHANGED AcceptedCommands /\ DOMAIN Answers' = Clients /\ Answers'[c] = API!NotAccepted
        /\ \A d \in Clients \ {c} : Answers'[d] = Answers[d]
    BY <1>4 DEF API!Heard, AInv, AnswersKept
  <2>2. AnswersKept'
    BY <2>1 DEF AInv, AnswersKept, API!AnswersTrue
  <2> QED
    BY <2>1, <2>2, AnswerStep
<1> QED
  BY <1>1, <1>2, <1>3, <1>4 DEF API!Next

\* The invariant of Acceptance holds of whatever implements it.
LEMMA AcceptanceKept == API!Spec => []AInv
<1>1. AInv /\ [API!Next]_(API!vars) => AInv'
  BY AcceptanceStep
<1> QED
  BY <1>1, AcceptanceInit, PTL DEF API!Spec

\* The commands accepted for a service form one history that starts with its
\* create and ends with its delete.
THEOREM HistoriesLinear == Spec => []API!OneHistory
<1>1. AInv => API!OneHistory
  BY DEF AInv
<1> QED
  BY <1>1, AcceptanceKept, IntakeImplementsAcceptance, PTL DEF ImplementsAcceptance

\* Whoever is told of an operation is told of the one that was accepted under
\* the identity of their request.
THEOREM ToldTheTruth == Spec => []API!AnswersTrue
<1>1. AInv => API!AnswersTrue
  BY DEF AInv, AnswersKept
<1> QED
  BY <1>1, AcceptanceKept, IntakeImplementsAcceptance, PTL DEF ImplementsAcceptance

\* A request that is repeated is never accepted a second time.
THEOREM AcceptedAtMostOnce == Spec => API!AcceptedOnce
<1>1. AInv /\ [API!Next]_(API!vars) =>
          [\A i \in Ids : AcceptedCommands[i] # API!NotAccepted =>
                            AcceptedCommands'[i] = AcceptedCommands[i]]_(API!vars)
  BY AcceptanceStep DEF IsAccepted
<1> QED
  BY <1>1, AcceptanceKept, IntakeImplementsAcceptance, PTL
     DEF API!Spec, API!AcceptedOnce, ImplementsAcceptance
=============================================================================
