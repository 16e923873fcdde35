----------------------------- MODULE AccessKeys -----------------------------
(***************************************************************************)
(* The access keys and access policies of one tenant and the checks the    *)
(* gateway asks for while keys are rotated, revoked and rebound            *)
(* (internal/biz/accesskey, internal/data/postgres/access_key.go,          *)
(* access_policy.go and service_policy.go).                                *)
(*                                                                         *)
(* A secret is a number, new ones are greater than all before; its prefix  *)
(* and its hash stand for it.  Every transaction is one action; a check is *)
(* several, and everything may happen between them.                        *)
(***************************************************************************)
EXTENDS Integers, FiniteSets

CONSTANTS
    Keys, Policies, Models,
    Services,       \* services of all tenants
    Owned,          \* those of this tenant
    Serves,         \* the served model name of a service
    Clients,        \* concurrent checks
    Idempotency,    \* idempotency keys of callers
    None,
    Windows,        \* lengths of the rate windows: second, minute, hour
    Limits,         \* what a policy may grant per window; 0 is no limit
    MaxSecret, MaxVersion, MaxTime   \* bounds

ASSUME AccessAssumption ==
    /\ Owned \subseteq Services /\ Serves \in [Services -> Models]
    /\ Windows \subseteq Nat \ {0} /\ Limits \subseteq [Windows -> Nat] /\ Limits # {}
    /\ None \notin Policies /\ None \notin Idempotency /\ None \notin Services
    /\ MaxSecret \in Nat /\ MaxVersion \in Nat /\ MaxTime \in Nat

VARIABLES
    key,        \* inference_access_keys
    policy,     \* inference_access_policies: models and limits, or None
    published,  \* publication of a service: withdrawn, moving or effective
    bucket,     \* inference_access_key_rate_buckets
    secrets,    \* secrets handed out so far
    now,        \* the clock, in seconds
    pc, rec,    \* a check: where it is, and the record it read
    granted,    \* history: cost of the requests a window limited, by second
    rotations   \* history: rotations done for an idempotency key

vars == <<key, policy, published, bucket, secrets, now, pc, rec, granted, rotations>>

Never == MaxTime + 1   \* the expiry of a key without one
NoKey == [secret |-> 0, version |-> 0, revoked |-> FALSE, expires |-> 0, cipher |-> 0,
          policy |-> None, created |-> None, rotated |-> None]
LegacyKey == [secret |-> 1, version |-> 1, revoked |-> FALSE, expires |-> Never,
              cipher |-> 0, policy |-> None, created |-> None, rotated |-> None]
NoRec == [key |-> None, secret |-> 0, version |-> 0, cipher |-> 0, at |-> 0, cost |-> 0,
          model |-> None, service |-> None]

Exists(k) == key[k].secret # 0
Starts(w) == 0 .. (MaxTime \div w)

\* One key may be left from before secrets were archived; it is denied until
\* it is bound to a policy.
Init ==
    /\ key \in [Keys -> {NoKey, LegacyKey}]
    /\ \A j, k \in Keys : Exists(j) /\ Exists(k) => j = k
    /\ policy = [p \in Policies |-> None]
    /\ published = [s \in Services |-> "withdrawn"]
    /\ bucket = [k \in Keys |-> [w \in Windows |-> [i \in Starts(w) |-> 0]]]
    /\ secrets = 1
    /\ now = 0
    /\ pc = [c \in Clients |-> "idle"]
    /\ rec = [c \in Clients |-> NoRec]
    /\ granted = [k \in Keys |-> [w \in Windows |-> [t \in 0 .. MaxTime |-> 0]]]
    /\ rotations = [k \in Keys |-> [i \in Idempotency |-> 0]]

check == <<pc, rec, bucket, granted>>

-----------------------------------------------------------------------------
(* Management of keys *)

\* The statements: the keys they find, and what they make of a row.

GetInferenceAccessKeyByPrefix(secret) == {k \in Keys : Exists(k) /\ key[k].secret = secret}

GetInferenceAccessKeyByCreateIdempotency(i) == {k \in Keys : key[k].created = i}

GetInferenceAccessKeyByRotationIdempotency(k, i) == {j \in {k} : key[j].rotated = i}

\* The table after each statement
InsertInferenceAccessKey(k, secret, i, p, expires) ==
    [key EXCEPT ![k] =
        [secret |-> secret, version |-> 1, revoked |-> FALSE, expires |-> expires,
         cipher |-> secret, policy |-> p, created |-> i, rotated |-> None]]

RevokeInferenceAccessKey(k) == [key EXCEPT ![k].revoked = TRUE, ![k].version = @ + 1]

RotateInferenceAccessKey(k, secret, i) ==
    [key EXCEPT ![k].secret = secret, ![k].cipher = secret, ![k].revoked = FALSE,
                ![k].rotated = i, ![k].version = @ + 1]

\* Create.  A repeated idempotency key is answered with the key it created.
CreateKey(k, i, p, expires) ==
    /\ ~Exists(k) /\ secrets < MaxSecret
    /\ i # None => GetInferenceAccessKeyByCreateIdempotency(i) = {}
    /\ policy[p] # None
    /\ expires > now
    /\ secrets' = secrets + 1
    /\ key' = InsertInferenceAccessKey(k, secrets + 1, i, p, expires)
    /\ UNCHANGED <<policy, published, now, check, rotations>>

Revoke(k) ==
    /\ Exists(k) /\ ~key[k].revoked /\ key[k].version < MaxVersion
    /\ key' = RevokeInferenceAccessKey(k)
    /\ UNCHANGED <<policy, published, secrets, now, check, rotations>>

\* Rotate.  The last idempotency key is answered without rotating again.
Rotate(k, i) ==
    /\ Exists(k) /\ secrets < MaxSecret /\ key[k].version < MaxVersion
    /\ i # None => GetInferenceAccessKeyByRotationIdempotency(k, i) = {}
    /\ ~key[k].revoked
    /\ secrets' = secrets + 1
    /\ key' = RotateInferenceAccessKey(k, secrets + 1, i)
    /\ rotations' = IF i = None THEN rotations ELSE [rotations EXCEPT ![k][i] = @ + 1]
    /\ UNCHANGED <<policy, published, now, check>>

BindAccessPolicy(k, p) ==
    /\ Exists(k) /\ policy[p] # None /\ key[k].version < MaxVersion
    /\ key' = [key EXCEPT ![k].policy = p, ![k].version = @ + 1]
    /\ UNCHANGED <<policy, published, secrets, now, check, rotations>>

-----------------------------------------------------------------------------
(* Policies, publications, time *)

\* CreateAccessPolicy and UpdateAccessPolicy
SaveAccessPolicy(p, models, limit) ==
    /\ policy' = [policy EXCEPT ![p] = [models |-> models, limit |-> limit]]
    /\ UNCHANGED <<key, published, secrets, now, check, rotations>>

\* DeleteAccessPolicy: ErrInUse while a key refers to the policy
DeleteAccessPolicy(p) ==
    /\ policy[p] # None
    /\ \A k \in Keys : key[k].policy # p
    /\ policy' = [policy EXCEPT ![p] = None]
    /\ UNCHANGED <<key, published, secrets, now, check, rotations>>

\* What the lifecycle of a service does to its publication
Republish(s, phase) ==
    /\ <<published[s], phase>> \in {<<"withdrawn", "moving">>, <<"moving", "effective">>,
                                     <<"effective", "moving">>, <<"moving", "withdrawn">>}
    /\ published' = [published EXCEPT ![s] = phase]
    /\ UNCHANGED <<key, policy, secrets, now, check, rotations>>

Tick ==
    /\ now < MaxTime
    /\ now' = now + 1
    /\ UNCHANGED <<key, policy, published, secrets, check, rotations>>

-----------------------------------------------------------------------------
(* Check *)

\* lookupPublishedModel: the only service with a publication of the model that
\* is not withdrawn, when that publication is effective.
Effective(m, s) ==
    /\ published[s] = "effective"
    /\ {t \in Services : Serves[t] = m /\ published[t] # "withdrawn"} = {s}

CostOf(cost) == IF cost < 1 THEN 1 ELSE cost

\* GetByPrefix and verifySecret on the secret presented, revocation and expiry
Verify(c, secret, m, cost) ==
    /\ pc[c] \in {"idle", "allowed"}
    /\ \E k \in GetInferenceAccessKeyByPrefix(secret) :
        /\ ~key[k].revoked
        /\ key[k].expires > now
        /\ rec' = [rec EXCEPT ![c] =
                     [key |-> k, secret |-> secret, version |-> key[k].version,
                      cipher |-> key[k].cipher, at |-> now, model |-> m, service |-> None,
                      cost |-> CostOf(cost)]]
    /\ pc' = [pc EXCEPT ![c] = "verified"]
    /\ UNCHANGED <<key, policy, published, bucket, secrets, now, granted, rotations>>

\* The answer: "allowed", or "idle" for a denial or an error
Answer(c, result) ==
    /\ pc' = [pc EXCEPT ![c] = result]
    /\ rec' = [rec EXCEPT ![c] = NoRec]

\* Resolve; a service named by the caller must be the one resolved.
Resolve(c) ==
    /\ pc[c] = "verified"
    /\ \/ \E s \in Services :
            /\ Effective(rec[c].model, s)
            /\ rec' = [rec EXCEPT ![c].service = s]
            /\ pc' = [pc EXCEPT ![c] = "resolved"]
       \/ Answer(c, "idle")
    /\ UNCHANGED <<key, policy, published, bucket, secrets, now, granted, rotations>>

\* The row of the key, locked until the transaction ends.
LockInferenceAccessKey(k) == key[k]

\* Mutant: the version of the key is not compared.
KeyUsableAnyVersion(r) ==
    LET k == LockInferenceAccessKey(r.key) IN
    /\ ~k.revoked
    /\ k.expires > r.at
    /\ k.policy # None

\* What ConsumeAccess finds under the lock of the key
KeyUsable(r) ==
    LET k == LockInferenceAccessKey(r.key) IN
    /\ k.version = r.version
    /\ ~k.revoked
    /\ k.expires > r.at
    /\ k.policy # None

Authorized(r) ==
    /\ Effective(r.model, r.service) /\ r.service \in Owned
    /\ KeyUsable(r)
    /\ r.model \in policy[key[r.key].policy].models

LimitOf(r, w) == policy[key[r.key].policy].limit[w]
Used(r, w) == bucket[r.key][w][r.at \div w]

\* ConsumeInferenceAccessKeyRateBucket; 0 is no limit
Room(r, w) == LimitOf(r, w) = 0 \/ Used(r, w) + r.cost <= LimitOf(r, w)

\* Mutant: the windows before the one that is full stay charged.
ChargePartly(r) ==
    bucket' = [bucket EXCEPT ![r.key] = [w \in Windows |->
                 IF LimitOf(r, w) = 0 \/ ~Room(r, w) THEN @[w]
                 ELSE [@[w] EXCEPT ![r.at \div w] = Used(r, w) + r.cost]]]

\* consumeKeyBuckets: a full window rolls back those charged before it.
Charge(r) ==
    IF \A w \in Windows : Room(r, w)
    THEN bucket' = [bucket EXCEPT ![r.key] = [w \in Windows |->
                      IF LimitOf(r, w) = 0 THEN @[w]
                      ELSE [@[w] EXCEPT ![r.at \div w] = Used(r, w) + r.cost]]]
    ELSE UNCHANGED bucket

\* ConsumeAccess
Consume(c) ==
    LET r == rec[c] IN
    /\ pc[c] = "resolved"
    /\ IF Authorized(r) THEN Charge(r) ELSE UNCHANGED bucket
    /\ IF Authorized(r) /\ \A w \in Windows : Room(r, w)
       THEN /\ granted' = [granted EXCEPT ![r.key] = [w \in Windows |->
                             IF LimitOf(r, w) = 0 THEN @[w]
                             ELSE [@[w] EXCEPT ![r.at] = granted[r.key][w][r.at] + r.cost]]]
            /\ IF r.cipher = 0
               THEN pc' = [pc EXCEPT ![c] = "archive"] /\ UNCHANGED rec
               ELSE Answer(c, "allowed")
       ELSE UNCHANGED granted /\ Answer(c, "idle")
    /\ UNCHANGED <<key, policy, published, secrets, now, rotations>>

\* Mutant: the archive is not fenced.
ArchiveFenceAny(r) == key[r.key].cipher = 0 \/ key[r.key].version # r.version

ArchiveFence(r) ==
    /\ key[r.key].version = r.version
    /\ key[r.key].secret = r.secret
    /\ key[r.key].cipher = 0
    /\ ~key[r.key].revoked

\* ArchiveSecret
Archive(c) ==
    /\ pc[c] = "archive"
    /\ key' = IF ArchiveFence(rec[c])
              THEN [key EXCEPT ![rec[c].key].cipher = rec[c].secret] ELSE key
    /\ Answer(c, "allowed")
    /\ UNCHANGED <<policy, published, bucket, secrets, now, granted, rotations>>

\* The caller gives up, or a query fails.
Abandon(c) ==
    /\ pc[c] \in {"verified", "resolved", "archive"}
    /\ Answer(c, "idle")
    /\ UNCHANGED <<key, policy, published, bucket, secrets, now, granted, rotations>>

-----------------------------------------------------------------------------
Manage ==
    \/ \E k \in Keys, i \in Idempotency \cup {None}, p \in Policies, e \in 1 .. Never :
        CreateKey(k, i, p, e)
    \/ \E k \in Keys : Revoke(k)
    \/ \E k \in Keys, i \in Idempotency \cup {None} : Rotate(k, i)
    \/ \E k \in Keys, p \in Policies : BindAccessPolicy(k, p)
    \/ \E p \in Policies, models \in SUBSET Models, limit \in Limits :
        SaveAccessPolicy(p, models, limit)
    \/ \E p \in Policies : DeleteAccessPolicy(p)
    \/ \E s \in Services, phase \in {"withdrawn", "moving", "effective"} : Republish(s, phase)

CheckStep(c) ==
    \/ \E secret \in 1 .. secrets, m \in Models, cost \in {-1, 1, 2} : Verify(c, secret, m, cost)
    \/ Resolve(c) \/ Consume(c) \/ Archive(c) \/ Abandon(c)

Next == Manage \/ Tick \/ \E c \in Clients : CheckStep(c)

Spec == Init /\ [][Next]_vars

-----------------------------------------------------------------------------
(* Properties *)

KeyRow == [secret : Nat, version : Nat, revoked : BOOLEAN, expires : Nat, cipher : Nat,
           policy : Policies \cup {None}, created : Idempotency \cup {None},
           rotated : Idempotency \cup {None}]

TypeOK ==
    /\ key \in [Keys -> KeyRow]
    /\ policy \in [Policies -> [models : SUBSET Models, limit : Limits] \cup {None}]
    /\ published \in [Services -> {"withdrawn", "moving", "effective"}]
    /\ secrets \in Nat /\ now \in Nat
    /\ pc \in [Clients -> {"idle", "verified", "resolved", "archive", "allowed"}]
    /\ rec \in [Clients ->
                  [key : Keys \cup {None}, secret : Nat, version : Nat, cipher : Nat, at : Nat,
                   cost : Nat, model : Models \cup {None}, service : Services \cup {None}]]

\* A request is allowed only with the secret the key has at that moment, on a
\* key that is not revoked, for a model its policy allows at that moment:
\* rotation, revocation, rebinding and policy changes between the look-up and
\* the decision are seen (the version test of ConsumeAccess).  A revoked key
\* stays revoked: RotateInferenceAccessKey, which clears revoked_at, never
\* revives it.
GrantIsCurrent ==
    [][/\ \A k \in Keys : key[k].revoked => key'[k].revoked
       /\ \A c \in Clients : pc[c] = "resolved" /\ pc'[c] \in {"archive", "allowed"} =>
           LET k == key[rec[c].key] IN
           /\ rec[c].secret = k.secret /\ ~k.revoked
           /\ k.policy # None /\ rec[c].model \in policy[k.policy].models]_vars

\* The archived ciphertext always opens to the secret the key has now: a check
\* of a legacy secret never archives it over a rotation.
CipherCurrent == \A k \in Keys : key[k].cipher \in {0, key[k].secret}

\* The sum of f over all seconds
Total(f) ==
    LET Sum[t \in 0 .. MaxTime] == f[t] + (IF t = 0 THEN 0 ELSE Sum[t - 1])
    IN  Sum[MaxTime]

\* What was granted in window i of length w, by second and in all
InWindow(k, w, i) ==
    [t \in 0 .. MaxTime |-> IF t \div w = i THEN granted[k][w][t] ELSE 0]

Spent(k, w, i) == Total(InWindow(k, w, i))

\* A bucket holds the cost of the requests allowed in its window while its
\* policy limited it, and nothing else: a request turned down by one window is
\* not charged to another, and no two checks are counted as one.  No
\* interleaving of checks, policy changes and rebindings lets a key spend more
\* in a limited window than the most generous policy ever grants.
BucketExact ==
    \A k \in Keys, w \in Windows : \A i \in Starts(w) :
        /\ bucket[k][w][i] = Spent(k, w, i)
        /\ \E limit \in Limits : Spent(k, w, i) <= limit[w]

\* One idempotency key rotates a key at most once ("idempotency_key ...
\* idempotent create and rotate").
RotatedOnce == \A k \in Keys, i \in Idempotency : rotations[k][i] <= 1

=============================================================================
