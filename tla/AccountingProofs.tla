-------------------------- MODULE AccountingProofs --------------------------
(***************************************************************************)
(* What is granted, charged and refunded.                                  *)
(*                                                                         *)
(* Access keys: a grant is of the secret its key has at that moment, an    *)
(* archived secret is the current one and the rate buckets are exact, for  *)
(* any number of keys, policies, models, windows, services and concurrent  *)
(* checks.                                                                 *)
(*                                                                         *)
(* Managed compute: what Governance was told is released holds nothing,    *)
(* and was proven by the recorded pods, for any number of DELETEs,         *)
(* payloads, operations, pods and failures.  The two components have no    *)
(* variable in common.                                                     *)
(***************************************************************************)
EXTENDS AccessKeys, ManagedCompute, WellFoundedInduction, TLAPS

\* The leaves are given to Zenon; those that need arithmetic name SMT.
USE ZenonT(30)

-----------------------------------------------------------------------------
(* Access keys *)

Checking(c) == pc[c] \in {"verified", "resolved", "archive"}

\* A row that was never inserted is not revoked.
RowsSound == \A k \in Keys : ~Exists(k) => ~key[k].revoked

\* What a check read: the version of the key never goes back, and a version has
\* one secret.
CheckSound(c) ==
    LET r == rec[c] IN
    /\ r.key \in Keys /\ Exists(r.key)
    /\ r.version <= key[r.key].version
    /\ r.version = key[r.key].version => r.secret = key[r.key].secret

KInv ==
    /\ TypeOK
    /\ RowsSound
    /\ CipherCurrent
    /\ \A c \in Clients : Checking(c) => CheckSound(c)

\* The step a check is granted at, and revocation.
GrantStep ==
    /\ \A k \in Keys : key[k].revoked => key'[k].revoked
    /\ \A c \in Clients : pc[c] = "resolved" /\ pc'[c] \in {"archive", "allowed"} =>
        LET k == key[rec[c].key] IN
        /\ rec[c].secret = k.secret /\ ~k.revoked
        /\ k.policy # None /\ rec[c].model \in policy[k.policy].models

\* Initially no check is under way.
LEMMA KeysInit == Init => KInv
<1> SUFFICES ASSUME Init PROVE KInv
  OBVIOUS
<1>1. NoKey \in KeyRow /\ LegacyKey \in KeyRow
  BY AccessAssumption, SMTT(15) DEF NoKey, LegacyKey, KeyRow, Never
<1>2. key \in [Keys -> KeyRow]
  BY <1>1 DEF Init
<1>3. \A k \in Keys : key[k].cipher = 0 /\ ~key[k].revoked
  BY SMTT(15) DEF Init, NoKey, LegacyKey
<1>4. NoRec \in [key : Keys \cup {None}, secret : Nat, version : Nat, cipher : Nat, at : Nat,
                 cost : Nat, model : Models \cup {None}, service : Services \cup {None}]
  BY DEF NoRec
<1>5. TypeOK
  BY <1>2, <1>4 DEF Init, TypeOK
<1>6. \A c \in Clients : ~Checking(c)
  BY DEF Init, Checking
<1> QED
  BY <1>3, <1>5, <1>6 DEF KInv, RowsSound, CipherCurrent

\* A step that changes the row of one key and no check: what was read of it
\* stays sound if the version moves with the secret, and its cipher with both.
LEMMA RowStep ==
    ASSUME KInv, NEW k \in Keys, key' \in [Keys -> KeyRow],
           \A j \in Keys \ {k} : key'[j] = key[j],
           UNCHANGED <<policy, published, now, pc, rec>>, secrets' \in Nat,
           key'[k].secret # 0, key'[k].cipher \in {0, key'[k].secret},
           key[k].revoked => key'[k].revoked,
           Exists(k) => key'[k].version > key[k].version
    PROVE  KInv' /\ GrantStep
<1>1. \A j \in Keys : key[j].version \in Nat /\ key'[j].version \in Nat
  BY DEF KInv, TypeOK, KeyRow
<1>3. TypeOK'
  BY DEF KInv, TypeOK
<1>4. RowsSound' /\ CipherCurrent'
  BY DEF KInv, RowsSound, CipherCurrent, Exists
<1>5. ASSUME NEW c \in Clients, Checking(c)'
      PROVE  CheckSound(c)'
  <2>1. Checking(c) /\ CheckSound(c) /\ rec' = rec /\ rec[c].version \in Nat
    BY <1>5 DEF KInv, Checking, TypeOK
  <2>2. rec[c].key \in Keys /\ Exists(rec[c].key)
    BY <2>1 DEF CheckSound
  <2>3. CASE rec[c].key = k
    BY <1>1, <2>1, <2>2, <2>3, SMTT(15) DEF CheckSound, Exists
  <2>4. CASE rec[c].key # k
    BY <2>1, <2>2, <2>4 DEF CheckSound, Exists
  <2> QED
    BY <2>3, <2>4
<1>6. GrantStep
  BY DEF GrantStep
<1> QED
  BY <1>3, <1>4, <1>5, <1>6 DEF KInv

\* A step that changes neither keys nor checks.
LEMMA OtherStep ==
    ASSUME KInv, TypeOK', UNCHANGED <<key, pc, rec>>
    PROVE  KInv' /\ GrantStep
  BY DEF KInv, RowsSound, CipherCurrent, Exists, Checking, CheckSound, GrantStep

\* The management of keys and policies.
LEMMA ManageStep ==
    ASSUME KInv, Manage
    PROVE  KInv' /\ GrantStep
<1>1. /\ \A k \in Keys : key[k] \in KeyRow /\ key[k].version \in Nat
      /\ secrets \in Nat /\ TypeOK
  BY DEF KInv, TypeOK, KeyRow
<1>2. ASSUME NEW k \in Keys, NEW i \in Idempotency \cup {None}, NEW p \in Policies,
             NEW e \in 1 .. Never, CreateKey(k, i, p, e)
      PROVE  KInv' /\ GrantStep
  <2>1. /\ key' = InsertInferenceAccessKey(k, secrets + 1, i, p, e) /\ ~Exists(k)
        /\ UNCHANGED <<policy, published, now, pc, rec>> /\ secrets' = secrets + 1
    BY <1>2 DEF CreateKey, check
  <2>2. /\ key' \in [Keys -> KeyRow] /\ \A j \in Keys \ {k} : key'[j] = key[j]
        /\ key'[k].secret = secrets + 1 /\ key'[k].cipher = secrets + 1
    BY <1>1, <2>1, AccessAssumption, SMTT(15) DEF InsertInferenceAccessKey, KeyRow, TypeOK,
       Never
  <2>3. ~key[k].revoked /\ secrets + 1 \in Nat /\ secrets + 1 # 0
    BY <1>1, <2>1, SMTT(15) DEF KInv, RowsSound
  <2> QED
    BY <2>1, <2>2, <2>3, RowStep
<1>3. ASSUME NEW k \in Keys, Revoke(k)
      PROVE  KInv' /\ GrantStep
  <2>1. /\ key' = RevokeInferenceAccessKey(k) /\ Exists(k)
        /\ UNCHANGED <<policy, published, now, pc, rec, secrets>>
    BY <1>3 DEF Revoke, check
  <2>2. /\ key' \in [Keys -> KeyRow] /\ \A j \in Keys \ {k} : key'[j] = key[j]
        /\ key'[k].secret = key[k].secret /\ key'[k].cipher = key[k].cipher
        /\ key'[k].revoked /\ key'[k].version = key[k].version + 1
    BY <1>1, <2>1, SMTT(15) DEF RevokeInferenceAccessKey, KeyRow, TypeOK
  <2>3. /\ key[k].secret # 0 /\ key[k].cipher \in {0, key[k].secret}
        /\ key[k].version + 1 > key[k].version
    BY <1>1, <2>1, SMTT(15) DEF Exists, KInv, CipherCurrent
  <2> QED
    BY <1>1, <2>1, <2>2, <2>3, RowStep
<1>4. ASSUME NEW k \in Keys, NEW i \in Idempotency \cup {None}, Rotate(k, i)
      PROVE  KInv' /\ GrantStep
  <2>1. /\ key' = RotateInferenceAccessKey(k, secrets + 1, i) /\ ~key[k].revoked
        /\ UNCHANGED <<policy, published, now, pc, rec>> /\ secrets' = secrets + 1
    BY <1>4 DEF Rotate, check
  <2>2. /\ key' \in [Keys -> KeyRow] /\ \A j \in Keys \ {k} : key'[j] = key[j]
        /\ key'[k].secret = secrets + 1 /\ key'[k].cipher = secrets + 1
        /\ key'[k].version = key[k].version + 1
    BY <1>1, <2>1, SMTT(15) DEF RotateInferenceAccessKey, KeyRow, TypeOK
  <2>3. /\ secrets + 1 \in Nat /\ secrets + 1 # 0
        /\ key[k].version + 1 > key[k].version
    BY <1>1, SMTT(15)
  <2> QED
    BY <2>1, <2>2, <2>3, RowStep
<1>5. ASSUME NEW k \in Keys, NEW p \in Policies, BindAccessPolicy(k, p)
      PROVE  KInv' /\ GrantStep
  <2>1. /\ key' = [key EXCEPT ![k].policy = p, ![k].version = @ + 1] /\ Exists(k)
        /\ UNCHANGED <<policy, published, now, pc, rec, secrets>>
    BY <1>5 DEF BindAccessPolicy, check
  <2>2. /\ key' \in [Keys -> KeyRow] /\ \A j \in Keys \ {k} : key'[j] = key[j]
        /\ key'[k].secret = key[k].secret /\ key'[k].cipher = key[k].cipher
        /\ key'[k].revoked = key[k].revoked /\ key'[k].version = key[k].version + 1
    BY <1>1, <2>1, SMTT(15) DEF KeyRow, TypeOK
  <2>3. /\ key[k].secret # 0 /\ key[k].cipher \in {0, key[k].secret}
        /\ key[k].version + 1 > key[k].version
    BY <1>1, <2>1, SMTT(15) DEF Exists, KInv, CipherCurrent
  <2> QED
    BY <1>1, <2>1, <2>2, <2>3, RowStep
<1>6. ASSUME NEW p \in Policies, NEW models \in SUBSET Models, NEW limit \in Limits,
             SaveAccessPolicy(p, models, limit)
      PROVE  KInv' /\ GrantStep
  <2>1. /\ policy' = [policy EXCEPT ![p] = [models |-> models, limit |-> limit]]
        /\ UNCHANGED <<key, published, secrets, now, pc, rec>>
    BY <1>6 DEF SaveAccessPolicy, check
  <2>2. TypeOK'
    BY <1>1, <2>1 DEF TypeOK
  <2> QED
    BY <2>1, <2>2, OtherStep
<1>7. ASSUME NEW p \in Policies, DeleteAccessPolicy(p)
      PROVE  KInv' /\ GrantStep
  <2>1. /\ policy' = [policy EXCEPT ![p] = None]
        /\ UNCHANGED <<key, published, secrets, now, pc, rec>>
    BY <1>7 DEF DeleteAccessPolicy, check
  <2>2. TypeOK'
    BY <1>1, <2>1 DEF TypeOK
  <2> QED
    BY <2>1, <2>2, OtherStep
<1>8. ASSUME NEW s \in Services, NEW phase \in {"withdrawn", "moving", "effective"},
             Republish(s, phase)
      PROVE  KInv' /\ GrantStep
  <2>1. /\ published' = [published EXCEPT ![s] = phase]
        /\ UNCHANGED <<key, policy, secrets, now, pc, rec>>
    BY <1>8 DEF Republish, check
  <2>2. TypeOK'
    BY <1>1, <2>1 DEF TypeOK
  <2> QED
    BY <2>1, <2>2, OtherStep
<1> QED
  BY <1>2, <1>3, <1>4, <1>5, <1>6, <1>7, <1>8 DEF Manage

\* A check that is answered is no longer under way.
LEMMA AnswerStep ==
    ASSUME KInv, NEW c \in Clients, NEW result \in {"idle", "allowed"}, Answer(c, result),
           UNCHANGED <<key, policy, published, secrets, now>>
    PROVE  KInv'
<1>1. NoRec \in [key : Keys \cup {None}, secret : Nat, version : Nat, cipher : Nat, at : Nat,
                 cost : Nat, model : Models \cup {None}, service : Services \cup {None}]
  BY DEF NoRec
<1>2. /\ pc'[c] = result /\ \A d \in Clients \ {c} : pc'[d] = pc[d] /\ rec'[d] = rec[d]
      /\ TypeOK'
  BY <1>1 DEF Answer, KInv, TypeOK
<1>3. ASSUME NEW d \in Clients, Checking(d)' PROVE CheckSound(d)'
  <2>1. d # c
    BY <1>2, <1>3 DEF Checking
  <2> QED
    BY <1>2, <1>3, <2>1 DEF KInv, Checking, CheckSound, Exists
<1> QED
  BY <1>2, <1>3 DEF KInv, RowsSound, CipherCurrent, Exists

\* The steps of Check, and the archive that follows it.
LEMMA CheckSteps ==
    ASSUME KInv, NEW c \in Clients, CheckStep(c)
    PROVE  KInv' /\ GrantStep
<1> DEFINE Read == UNCHANGED <<key, policy, published, secrets, now>>
<1>1. TypeOK /\ \A k \in Keys : key[k] \in KeyRow
  BY DEF KInv, TypeOK
<1>2. ASSUME NEW secret \in 1 .. secrets, NEW m \in Models, NEW cost \in {-1, 1, 2},
             Verify(c, secret, m, cost)
      PROVE  KInv' /\ GrantStep
  <2>1. PICK k \in GetInferenceAccessKeyByPrefix(secret) :
            rec' = [rec EXCEPT ![c] =
                     [key |-> k, secret |-> secret, version |-> key[k].version,
                      cipher |-> key[k].cipher, at |-> now, model |-> m, service |-> None,
                      cost |-> CostOf(cost)]]
    BY <1>2 DEF Verify
  <2> DEFINE r == [key |-> k, secret |-> secret, version |-> key[k].version,
                   cipher |-> key[k].cipher, at |-> now, model |-> m, service |-> None,
                   cost |-> CostOf(cost)]
  <2>2. k \in Keys /\ Exists(k) /\ key[k].secret = secret
    BY <2>1 DEF GetInferenceAccessKeyByPrefix
  <2>3. r \in [key : Keys \cup {None}, secret : Nat, version : Nat, cipher : Nat, at : Nat,
               cost : Nat, model : Models \cup {None}, service : Services \cup {None}]
    BY <1>1, <2>2, SMTT(15) DEF CostOf, TypeOK, KeyRow
  <2>4. /\ pc[c] # "resolved" /\ pc' = [pc EXCEPT ![c] = "verified"] /\ Read
    BY <1>2 DEF Verify
  <2>5. /\ rec'[c] = r /\ pc'[c] = "verified"
        /\ \A d \in Clients \ {c} : pc'[d] = pc[d] /\ rec'[d] = rec[d]
    BY <1>1, <2>1, <2>4 DEF TypeOK
  <2>6. r.key = k /\ r.secret = secret /\ r.version = key[k].version
    OBVIOUS
  <2> HIDE DEF r
  <2>7. TypeOK'
    BY <1>1, <2>1, <2>3, <2>4 DEF TypeOK, r
  <2>8. ASSUME NEW d \in Clients, Checking(d)' PROVE CheckSound(d)'
    <3>1. CASE d = c
      <4>1. key[k].version \in Nat
        BY <1>1, <2>2 DEF KeyRow
      <4> QED
        BY <2>2, <2>4, <2>5, <2>6, <3>1, <4>1, SMTT(15) DEF CheckSound, Exists
    <3>2. CASE d # c
      BY <2>4, <2>5, <2>8, <3>2 DEF KInv, Checking, CheckSound, Exists
    <3> QED
      BY <3>1, <3>2
  <2>9. GrantStep
    BY <2>4, <2>5 DEF GrantStep
  <2> QED
    BY <2>4, <2>7, <2>8, <2>9 DEF KInv, RowsSound, CipherCurrent, Exists
<1>3. CASE Resolve(c)
  <2>1. Read /\ pc[c] = "verified"
    BY <1>3 DEF Resolve
  <2>2. CASE Answer(c, "idle")
    <3>1. GrantStep
      BY <1>1, <2>1, <2>2 DEF GrantStep, Answer, TypeOK
    <3> QED
      BY <2>1, <2>2, <3>1, AnswerStep
  <2>3. CASE ~Answer(c, "idle")
    <3>1. PICK s \in Services : /\ rec' = [rec EXCEPT ![c].service = s]
                                /\ pc' = [pc EXCEPT ![c] = "resolved"]
      BY <1>3, <2>3 DEF Resolve
    <3>2. /\ rec'[c].key = rec[c].key /\ rec'[c].version = rec[c].version
          /\ rec'[c].secret = rec[c].secret /\ pc'[c] = "resolved"
          /\ \A d \in Clients \ {c} : pc'[d] = pc[d] /\ rec'[d] = rec[d]
          /\ TypeOK'
      BY <1>1, <2>1, <3>1, SMTT(15) DEF TypeOK
    <3>3. ASSUME NEW d \in Clients, Checking(d)' PROVE CheckSound(d)'
      BY <2>1, <3>2, <3>3, SMTT(15) DEF KInv, Checking, CheckSound, Exists
    <3>4. GrantStep
      BY <2>1, <3>2 DEF GrantStep
    <3> QED
      BY <2>1, <3>2, <3>3, <3>4 DEF KInv, RowsSound, CipherCurrent, Exists
  <2> QED
    BY <2>2, <2>3
<1>4. CASE Consume(c)
  <2>1. Read /\ pc[c] = "resolved"
    BY <1>4 DEF Consume
  <2>2. CASE Authorized(rec[c]) /\ \A w \in Windows : Room(rec[c], w)
    <3>1. \/ pc' = [pc EXCEPT ![c] = "archive"] /\ UNCHANGED rec
          \/ Answer(c, "allowed")
      BY <1>4, <2>2 DEF Consume
    <3>2. LET k == key[rec[c].key] IN
          /\ k.version = rec[c].version /\ ~k.revoked /\ k.policy # None
          /\ rec[c].model \in policy[k.policy].models
      BY <2>2 DEF Authorized, KeyUsable, LockInferenceAccessKey
    <3>3. rec[c].secret = key[rec[c].key].secret
      BY <2>1, <3>2 DEF KInv, Checking, CheckSound
    <3>4. \A d \in Clients \ {c} : pc'[d] = pc[d]
      BY <1>1, <3>1 DEF Answer, TypeOK
    <3>5. GrantStep
      BY <2>1, <3>2, <3>3, <3>4 DEF GrantStep
    <3>6. CASE Answer(c, "allowed")
      BY <2>1, <3>5, <3>6, AnswerStep
    <3>7. CASE pc' = [pc EXCEPT ![c] = "archive"] /\ UNCHANGED rec
      <4>1. TypeOK' /\ pc'[c] = "archive"
        BY <1>1, <2>1, <3>7 DEF TypeOK
      <4>2. ASSUME NEW d \in Clients, Checking(d)' PROVE CheckSound(d)'
        BY <2>1, <3>4, <3>7, <4>2 DEF KInv, Checking, CheckSound, Exists
      <4> QED
        BY <2>1, <3>5, <4>1, <4>2 DEF KInv, RowsSound, CipherCurrent, Exists
    <3> QED
      BY <3>1, <3>6, <3>7
  <2>3. CASE ~(Authorized(rec[c]) /\ \A w \in Windows : Room(rec[c], w))
    <3>1. Answer(c, "idle")
      BY <1>4, <2>3 DEF Consume
    <3>2. GrantStep
      BY <1>1, <2>1, <3>1 DEF GrantStep, Answer, TypeOK
    <3> QED
      BY <2>1, <3>1, <3>2, AnswerStep
  <2> QED
    BY <2>2, <2>3
<1>5. CASE Archive(c)
  <2> DEFINE r == rec[c]
  <2>1. /\ pc[c] = "archive" /\ Answer(c, "allowed")
        /\ UNCHANGED <<policy, published, secrets, now>>
    BY <1>5 DEF Archive
  <2>2. r.key \in Keys /\ r.secret \in Nat
    BY <1>1, <2>1 DEF KInv, Checking, CheckSound, TypeOK
  <2>3. GrantStep
    <3>1. \A k \in Keys : key'[k].revoked = key[k].revoked
      BY <1>1, <1>5, <2>2 DEF Archive, TypeOK, KeyRow
    <3>2. \A d \in Clients : pc[d] = "resolved" => pc'[d] = pc[d]
      BY <1>1, <2>1 DEF Answer, TypeOK
    <3> QED
      BY <3>1, <3>2 DEF GrantStep
  <2>4. CASE ~ArchiveFence(r)
    BY <1>5, <2>1, <2>3, <2>4, AnswerStep DEF Archive
  <2>5. CASE ArchiveFence(r)
    <3>1. /\ key' = [key EXCEPT ![r.key].cipher = r.secret]
          /\ key[r.key].secret = r.secret
      BY <1>5, <2>5 DEF Archive, ArchiveFence
    <3>2. /\ key' \in [Keys -> KeyRow] /\ key'[r.key].cipher = r.secret
          /\ \A k \in Keys : /\ key'[k].secret = key[k].secret
                             /\ key'[k].version = key[k].version
                             /\ key'[k].revoked = key[k].revoked
          /\ \A k \in Keys \ {r.key} : key'[k].cipher = key[k].cipher
      BY <1>1, <2>2, <3>1, SMTT(20) DEF TypeOK, KeyRow
    <3>3. NoRec \in [key : Keys \cup {None}, secret : Nat, version : Nat, cipher : Nat, at : Nat,
                     cost : Nat, model : Models \cup {None}, service : Services \cup {None}]
      BY DEF NoRec
    <3>4. /\ pc'[c] = "allowed" /\ \A d \in Clients \ {c} : pc'[d] = pc[d] /\ rec'[d] = rec[d]
          /\ TypeOK'
      BY <1>1, <2>1, <3>2, <3>3 DEF Answer, TypeOK
    <3>5. ASSUME NEW d \in Clients, Checking(d)' PROVE CheckSound(d)'
      <4>1. d # c
        BY <3>4, <3>5 DEF Checking
      <4>2. Checking(d) /\ rec'[d] = rec[d]
        BY <3>4, <3>5, <4>1 DEF Checking
      <4> QED
        BY <3>2, <4>2, SMTT(15) DEF KInv, CheckSound, Exists
    <3>6. RowsSound' /\ CipherCurrent'
      BY <2>2, <3>1, <3>2 DEF KInv, RowsSound, CipherCurrent, Exists
    <3> QED
      BY <2>3, <3>4, <3>5, <3>6 DEF KInv
  <2> QED
    BY <2>4, <2>5
<1>6. CASE Abandon(c)
  <2>1. Answer(c, "idle") /\ Read
    BY <1>6 DEF Abandon
  <2>2. GrantStep
    BY <1>1, <2>1 DEF GrantStep, Answer, TypeOK
  <2> QED
    BY <2>1, <2>2, AnswerStep
<1> QED
  BY <1>2, <1>3, <1>4, <1>5, <1>6 DEF CheckStep

\* The invariant is inductive, and every step grants only what is current.
LEMMA KeysStep ==
    ASSUME KInv, [Next]_vars
    PROVE  KInv' /\ (GrantStep \/ UNCHANGED vars)
<1>1. CASE UNCHANGED vars
  BY <1>1 DEF vars, KInv, TypeOK, RowsSound, CipherCurrent, Exists, Checking, CheckSound
<1>2. CASE Tick
  <2>1. now' = now + 1 /\ UNCHANGED <<key, policy, published, secrets, pc, rec>>
    BY <1>2 DEF Tick, check
  <2>2. TypeOK'
    BY <2>1, SMTT(15) DEF KInv, TypeOK
  <2> QED
    BY <2>1, <2>2, OtherStep
<1> QED
  BY <1>1, <1>2, ManageStep, CheckSteps DEF Next

\* However many checks and management calls overlap, the archived ciphertext of
\* a key opens to the secret the key has now.
THEOREM CiphersCurrent == Spec => []CipherCurrent
<1>1. KInv /\ [Next]_vars => KInv'
  BY KeysStep
<1>2. KInv => CipherCurrent
  BY DEF KInv
<1> QED
  BY <1>1, <1>2, KeysInit, PTL DEF Spec

\* However many checks and management calls overlap, a request is granted only
\* on the secret, the key and the policy of that moment, and no revoked key
\* comes back.
THEOREM GrantsCurrent == Spec => GrantIsCurrent
<1>1. KInv /\ [Next]_vars => KInv'
  BY KeysStep
<1>2. KInv /\ [Next]_vars => [GrantStep]_vars
  BY KeysStep
<1> QED
  BY <1>1, <1>2, KeysInit, PTL DEF Spec, GrantIsCurrent, GrantStep

-----------------------------------------------------------------------------
(* Sums over the moments of the model *)

\* A nonempty set of numbers has a least one.
LEMMA LeastNumber == ASSUME NEW T \in SUBSET Nat, T # {} PROVE \E n \in T : \A m \in T : n <= m
<1> DEFINE R == OpToRel(<, Nat)
<1>1. IsWellFoundedOn(R, Nat)
  BY NatLessThanWellFounded
<1>2. PICK n \in T : \A m \in T : ~(<<m, n>> \in R)
  <2> HIDE DEF R
  <2> QED
    BY <1>1, WFMin
<1>3. \A m \in T : ~(m < n)
  BY <1>2 DEF OpToRel
<1> QED
  BY <1>3, SMTT(15)

\* Induction on the moments of the model, on a set instead of a predicate.
LEMMA Moments ==
    ASSUME NEW S, 0 \in S, \A t \in 1 .. MaxTime : t - 1 \in S => t \in S
    PROVE  0 .. MaxTime \subseteq S
<1> SUFFICES ASSUME (0 .. MaxTime) \ S # {} PROVE FALSE
  OBVIOUS
<1> DEFINE T == (0 .. MaxTime) \ S
<1>1. PICK n \in T : \A m \in T : n <= m
  <2>1. T \in SUBSET Nat /\ T # {}
    BY AccessAssumption, SMTT(15)
  <2> HIDE DEF T
  <2> QED
    BY <2>1, LeastNumber
<1>2. n \in 1 .. MaxTime /\ n - 1 \in 0 .. MaxTime
  BY <1>1, AccessAssumption, SMTT(15)
<1>3. n - 1 \in S
  BY <1>1, <1>2, AccessAssumption, SMTT(15)
<1> QED
  BY <1>1, <1>2, <1>3

\* s holds the partial sums of f up to n.
PartSums(s, f, n) ==
    \A t \in 0 .. n : s[t] = f[t] + (IF t = 0 THEN 0 ELSE s[t - 1])

\* Every f has partial sums.
LEMMA SumsExist ==
    ASSUME NEW f \in [0 .. MaxTime -> Nat]
    PROVE  \E s \in [0 .. MaxTime -> Nat] : PartSums(s, f, MaxTime)
<1> DEFINE S == {n \in 0 .. MaxTime : \E s \in [0 .. MaxTime -> Nat] : PartSums(s, f, n)}
<1>1. 0 \in S
  <2> DEFINE s == [t \in 0 .. MaxTime |-> f[0]]
  <2>1. s \in [0 .. MaxTime -> Nat] /\ PartSums(s, f, 0)
    BY AccessAssumption, SMTT(15) DEF PartSums
  <2>2. 0 \in 0 .. MaxTime
    BY AccessAssumption, SMTT(15)
  <2> HIDE DEF s
  <2> QED
    BY <2>1, <2>2
<1>2. ASSUME NEW n \in 1 .. MaxTime, n - 1 \in S PROVE n \in S
  <2>1. PICK s \in [0 .. MaxTime -> Nat] : PartSums(s, f, n - 1)
    BY <1>2
  <2> DEFINE u == [t \in 0 .. MaxTime |-> IF t = n THEN f[n] + s[n - 1] ELSE s[t]]
  <2>2. u \in [0 .. MaxTime -> Nat]
    BY AccessAssumption, SMTT(15)
  <2>3. PartSums(u, f, n)
    BY <2>1, AccessAssumption, SMTT(15) DEF PartSums
  <2>4. n \in 0 .. MaxTime
    BY AccessAssumption, SMTT(15)
  <2> HIDE DEF u
  <2> QED
    BY <2>2, <2>3, <2>4
<1>3. 0 .. MaxTime \subseteq S
  <2> HIDE DEF S
  <2> QED
    BY <1>1, <1>2, Moments
<1>4. MaxTime \in S
  <2> HIDE DEF S
  <2> QED
    BY <1>3, AccessAssumption, SMTT(15)
<1> QED
  BY <1>4

\* Total is the last of them.
LEMMA TotalIs ==
    ASSUME NEW f \in [0 .. MaxTime -> Nat]
    PROVE  \E s \in [0 .. MaxTime -> Nat] : PartSums(s, f, MaxTime) /\ Total(f) = s[MaxTime]
<1> DEFINE Def(s) == s = [t \in 0 .. MaxTime |-> f[t] + (IF t = 0 THEN 0 ELSE s[t - 1])]
<1>1. PICK u \in [0 .. MaxTime -> Nat] : PartSums(u, f, MaxTime)
  BY SumsExist
<1>2. Def(u)
  BY <1>1 DEF PartSums
<1> DEFINE s == CHOOSE s : Def(s)
<1>3. Def(s)
  <2> HIDE DEF Def
  <2> QED
    BY <1>2
<1>4. Total(f) = s[MaxTime]
  BY DEF Total
<1> HIDE DEF s
<1>5. PartSums(s, f, MaxTime)
  BY <1>3, AccessAssumption DEF PartSums
<1>6. \A t \in 0 .. MaxTime : s[t] \in Nat
  <2> DEFINE S == {t \in 0 .. MaxTime : s[t] \in Nat}
  <2>1. 0 \in S
    BY <1>5, AccessAssumption, SMTT(15) DEF PartSums
  <2>2. ASSUME NEW t \in 1 .. MaxTime, t - 1 \in S PROVE t \in S
    <3>1. t \in 0 .. MaxTime /\ s[t] = f[t] + s[t - 1]
      BY <1>5, AccessAssumption, SMTT(15) DEF PartSums
    <3>2. f[t] \in Nat /\ s[t - 1] \in Nat
      BY <2>2, <3>1
    <3> QED
      BY <3>1, <3>2, SMTT(15)
  <2> QED
    BY <2>1, <2>2, Moments
<1>7. s \in [0 .. MaxTime -> Nat]
  BY <1>3, <1>6
<1> QED
  BY <1>4, <1>5, <1>7

\* Nothing sums up to nothing.
LEMMA TotalZero ==
    ASSUME NEW f \in [0 .. MaxTime -> Nat], \A t \in 0 .. MaxTime : f[t] = 0
    PROVE  Total(f) = 0
<1>1. PICK s \in [0 .. MaxTime -> Nat] : PartSums(s, f, MaxTime) /\ Total(f) = s[MaxTime]
  BY TotalIs
<1> DEFINE S == {t \in 0 .. MaxTime : s[t] = 0}
<1>2. 0 \in S
  BY <1>1, AccessAssumption, SMTT(15) DEF PartSums
<1>3. \A t \in 1 .. MaxTime : t - 1 \in S => t \in S
  BY <1>1, AccessAssumption, SMTT(15) DEF PartSums
<1>4. 0 .. MaxTime \subseteq S
  BY <1>2, <1>3, Moments
<1> QED
  BY <1>1, <1>4, AccessAssumption, SMTT(15)

\* What is added at one moment is added to the total.
LEMMA TotalAdd ==
    ASSUME NEW f \in [0 .. MaxTime -> Nat], NEW g \in [0 .. MaxTime -> Nat],
           NEW a \in 0 .. MaxTime, NEW c \in Nat, g[a] = f[a] + c,
           \A t \in 0 .. MaxTime : t # a => g[t] = f[t]
    PROVE  Total(g) = Total(f) + c
<1>1. PICK s \in [0 .. MaxTime -> Nat] : PartSums(s, f, MaxTime) /\ Total(f) = s[MaxTime]
  BY TotalIs
<1>2. PICK u \in [0 .. MaxTime -> Nat] : PartSums(u, g, MaxTime) /\ Total(g) = u[MaxTime]
  BY TotalIs
<1> DEFINE S == {t \in 0 .. MaxTime : u[t] = s[t] + (IF t < a THEN 0 ELSE c)}
<1>3. 0 \in S
  BY <1>1, <1>2, AccessAssumption, SMTT(15) DEF PartSums
<1>4. ASSUME NEW t \in 1 .. MaxTime, t - 1 \in S PROVE t \in S
  <2>1. /\ s[t] = f[t] + s[t - 1] /\ u[t] = g[t] + u[t - 1]
        /\ t - 1 \in 0 .. MaxTime /\ t \in 0 .. MaxTime
    BY <1>1, <1>2, AccessAssumption, SMTT(15) DEF PartSums
  <2>2. CASE t = a
    BY <1>4, <2>1, <2>2, SMTT(15)
  <2>3. CASE t # a
    BY <1>4, <2>1, <2>3, SMTT(15)
  <2> QED
    BY <2>2, <2>3
<1>5. 0 .. MaxTime \subseteq S
  BY <1>3, <1>4, Moments
<1> QED
  BY <1>1, <1>2, <1>5, AccessAssumption, SMTT(15)

\* A moment of the model falls into a window of the model.
LEMMA DivMonotone ==
    ASSUME NEW a \in Nat, NEW b \in Nat, a <= b, NEW w \in Nat \ {0}
    PROVE  a \div w \in Nat /\ a \div w <= b \div w
  BY SMTT(15)

-----------------------------------------------------------------------------
(* The rate buckets *)

\* A policy that a key refers to exists.
BoundPolicies ==
    \A k \in Keys : key[k].policy # None =>
        policy[key[k].policy] \in [models : SUBSET Models, limit : Limits]

InTime ==
    /\ now \in 0 .. MaxTime
    /\ \A c \in Clients : Checking(c) => rec[c].at \in 0 .. MaxTime

BucketShape ==
    /\ DOMAIN bucket = Keys
    /\ \A k \in Keys : /\ DOMAIN bucket[k] = Windows
                       /\ \A w \in Windows : bucket[k][w] \in [Starts(w) -> Nat]
    /\ granted \in [Keys -> [Windows -> [0 .. MaxTime -> Nat]]]

BInv == BoundPolicies /\ InTime /\ BucketShape /\ BucketExact

\* Initially nothing was spent.
LEMMA BucketsInit == Init => BInv
<1> SUFFICES ASSUME Init PROVE BInv
  OBVIOUS
<1>1. BoundPolicies
  BY SMTT(15) DEF Init, BoundPolicies, NoKey, LegacyKey
<1>2. InTime
  BY AccessAssumption, SMTT(15) DEF Init, InTime, Checking
<1>3. BucketShape
  BY DEF Init, BucketShape
<1>4. ASSUME NEW k \in Keys, NEW w \in Windows, NEW i \in Starts(w)
      PROVE  /\ bucket[k][w][i] = Spent(k, w, i)
             /\ \E limit \in Limits : Spent(k, w, i) <= limit[w]
  <2>1. /\ InWindow(k, w, i) \in [0 .. MaxTime -> Nat]
        /\ \A t \in 0 .. MaxTime : InWindow(k, w, i)[t] = 0
    BY DEF Init, InWindow
  <2>2. Spent(k, w, i) = 0
    BY <2>1, TotalZero DEF Spent
  <2>3. PICK limit \in Limits : TRUE
    BY AccessAssumption
  <2>4. limit[w] \in Nat
    BY <2>3, AccessAssumption
  <2> QED
    BY <2>2, <2>3, <2>4, SMTT(15) DEF Init
<1> QED
  BY <1>1, <1>2, <1>3, <1>4 DEF BInv, BucketExact

\* A step that charges nothing.
LEMMA BucketsKept ==
    ASSUME BucketShape, BucketExact, UNCHANGED <<bucket, granted>>
    PROVE  BucketShape' /\ BucketExact'
<1>1. BucketShape'
  BY DEF BucketShape
<1>2. \A k \in Keys, w \in Windows : \A i \in Starts(w) : InWindow(k, w, i)' = InWindow(k, w, i)
  BY DEF InWindow
<1>3. \A k \in Keys, w \in Windows : \A i \in Starts(w) : Spent(k, w, i)' = Spent(k, w, i)
  BY <1>2 DEF Spent
<1> QED
  BY <1>1, <1>3 DEF BucketExact

\* ConsumeAccess of a check that finds room in every window.
LEMMA ChargeStep ==
    ASSUME KInv, BInv, NEW c \in Clients, Consume(c),
           Authorized(rec[c]), \A w \in Windows : Room(rec[c], w)
    PROVE  BucketShape' /\ BucketExact'
<1> DEFINE r == rec[c]
           a == r.at
           k == r.key
<1>1. k \in Keys /\ a \in 0 .. MaxTime /\ r.cost \in Nat /\ a \in Nat
  BY DEF Consume, KInv, Checking, CheckSound, TypeOK, BInv, InTime
<1>2. policy[key[k].policy].limit \in Limits
  BY <1>1 DEF Authorized, KeyUsable, LockInferenceAccessKey, BInv, BoundPolicies
<1>3. /\ bucket' = [bucket EXCEPT ![k] = [w \in Windows |->
                      IF LimitOf(r, w) = 0 THEN bucket[k][w]
                      ELSE [bucket[k][w] EXCEPT ![a \div w] = Used(r, w) + r.cost]]]
      /\ granted' = [granted EXCEPT ![k] = [w \in Windows |->
                       IF LimitOf(r, w) = 0 THEN granted[k][w]
                       ELSE [granted[k][w] EXCEPT ![a] = granted[k][w][a] + r.cost]]]
  BY DEF Consume, Charge
<1>4. ASSUME NEW w \in Windows
      PROVE  /\ a \div w \in Starts(w)
             /\ bucket[k][w] \in [Starts(w) -> Nat]
             /\ granted[k][w] \in [0 .. MaxTime -> Nat]
             /\ Used(r, w) = bucket[k][w][a \div w]
             /\ LimitOf(r, w) \in Nat
  <2>1. a \div w \in Nat /\ a \div w <= MaxTime \div w /\ MaxTime \div w \in Nat
    BY <1>1, AccessAssumption, DivMonotone, SMTT(15)
  <2>2. a \div w \in Starts(w)
    BY <2>1, AccessAssumption, SMTT(15) DEF Starts
  <2>3. bucket[k][w] \in [Starts(w) -> Nat]
    BY <1>1 DEF BInv, BucketShape
  <2>4. granted[k][w] \in [0 .. MaxTime -> Nat]
    BY <1>1, SMTT(15) DEF BInv, BucketShape
  <2>5. Used(r, w) = bucket[k][w][a \div w]
    BY DEF Used
  <2>6. LimitOf(r, w) \in Nat
    BY <1>2, AccessAssumption, SMTT(15) DEF LimitOf
  <2> QED
    BY <2>2, <2>3, <2>4, <2>5, <2>6
<1>5. ASSUME NEW w \in Windows
      PROVE  /\ bucket'[k][w] \in [Starts(w) -> Nat]
             /\ granted'[k][w] \in [0 .. MaxTime -> Nat]
             /\ LimitOf(r, w) = 0 => bucket'[k][w] = bucket[k][w] /\ granted'[k][w] = granted[k][w]
             /\ LimitOf(r, w) # 0 =>
                  /\ bucket'[k][w] = [bucket[k][w] EXCEPT ![a \div w] = Used(r, w) + r.cost]
                  /\ granted'[k][w] = [granted[k][w] EXCEPT ![a] = granted[k][w][a] + r.cost]
  <2>1. bucket'[k][w] = IF LimitOf(r, w) = 0 THEN bucket[k][w]
                        ELSE [bucket[k][w] EXCEPT ![a \div w] = Used(r, w) + r.cost]
    BY <1>1, <1>3 DEF BInv, BucketShape
  <2>2. granted'[k][w] = IF LimitOf(r, w) = 0 THEN granted[k][w]
                         ELSE [granted[k][w] EXCEPT ![a] = granted[k][w][a] + r.cost]
    BY <1>1, <1>3 DEF BInv, BucketShape
  <2> DEFINE q == a \div w
             used == Used(r, w) + r.cost
             spent == granted[k][w][a] + r.cost
  <2>3. used \in Nat /\ spent \in Nat
    <3>1. q \in Starts(w)
      BY <1>4
    <3> HIDE DEF q
    <3>2. bucket[k][w][q] \in Nat /\ granted[k][w][a] \in Nat
      BY <1>1, <1>4, <3>1
    <3>3. Used(r, w) \in Nat
      BY <1>4, <3>2 DEF q
    <3> QED
      BY <1>1, <3>2, <3>3, SMTT(15)
  <2>4. CASE LimitOf(r, w) = 0
    BY <1>4, <2>1, <2>2, <2>4
  <2>5. CASE LimitOf(r, w) # 0
    <3>1. /\ bucket'[k][w] = [bucket[k][w] EXCEPT ![q] = used]
          /\ granted'[k][w] = [granted[k][w] EXCEPT ![a] = spent]
      BY <2>1, <2>2, <2>5
    <3>2. bucket[k][w] \in [Starts(w) -> Nat] /\ granted[k][w] \in [0 .. MaxTime -> Nat]
      BY <1>4
    <3> HIDE DEF q, used, spent
    <3>3. bucket'[k][w] \in [Starts(w) -> Nat]
      BY <2>3, <3>1, <3>2
    <3>4. granted'[k][w] \in [0 .. MaxTime -> Nat]
      BY <2>3, <3>1, <3>2
    <3> QED
      BY <2>5, <3>1, <3>3, <3>4 DEF q, used, spent
  <2> QED
    BY <2>4, <2>5
<1>6. \A j \in Keys \ {k} : bucket'[j] = bucket[j] /\ granted'[j] = granted[j]
  BY <1>3 DEF BInv, BucketShape
<1>7. BucketShape'
  <2>1. DOMAIN bucket' = Keys /\ DOMAIN bucket'[k] = Windows
        /\ DOMAIN granted' = Keys /\ DOMAIN granted'[k] = Windows
        /\ granted' = [j \in Keys |-> granted'[j]]
        /\ granted'[k] = [w \in Windows |-> granted'[k][w]]
    BY <1>1, <1>3 DEF BInv, BucketShape
  <2>2. granted'[k] \in [Windows -> [0 .. MaxTime -> Nat]]
    BY <1>5, <2>1
  <2>3. \A j \in Keys : granted'[j] \in [Windows -> [0 .. MaxTime -> Nat]]
    BY <1>6, <2>2 DEF BInv, BucketShape
  <2>4. granted' \in [Keys -> [Windows -> [0 .. MaxTime -> Nat]]]
    BY <2>1, <2>3
  <2> QED
    BY <1>5, <1>6, <2>1, <2>4 DEF BInv, BucketShape
<1>8. ASSUME NEW j \in Keys, NEW w \in Windows, NEW i \in Starts(w)
      PROVE  /\ bucket'[j][w][i] = Spent(j, w, i)'
             /\ \E limit \in Limits : Spent(j, w, i)' <= limit[w]
  <2>1. /\ bucket[j][w][i] = Spent(j, w, i)
        /\ \E limit \in Limits : Spent(j, w, i) <= limit[w]
    BY DEF BInv, BucketExact
  <2>2. CASE ~(j = k /\ LimitOf(r, w) # 0 /\ i = a \div w)
    <3>1. bucket'[j][w][i] = bucket[j][w][i]
      <4>1. CASE j = k /\ LimitOf(r, w) # 0
        <5> DEFINE q == a \div w
                   used == Used(r, w) + r.cost
        <5>1. bucket'[k][w] = [bucket[k][w] EXCEPT ![q] = used] /\ i # q
          BY <1>5, <2>2, <4>1
        <5> HIDE DEF q, used
        <5> QED
          BY <1>4, <4>1, <5>1
      <4> QED
        BY <1>5, <1>6, <4>1
    <3>2. InWindow(j, w, i)' = InWindow(j, w, i)
      <4> SUFFICES ASSUME NEW t \in 0 .. MaxTime, t \div w = i
                   PROVE  granted'[j][w][t] = granted[j][w][t]
        BY DEF InWindow
      <4>1. CASE j = k /\ LimitOf(r, w) # 0
        <5> DEFINE spent == granted[k][w][a] + r.cost
        <5>1. granted'[k][w] = [granted[k][w] EXCEPT ![a] = spent] /\ t # a
          BY <1>5, <2>2, <4>1
        <5>2. granted[k][w] \in [0 .. MaxTime -> Nat]
          BY <1>4
        <5> HIDE DEF spent
        <5> QED
          BY <4>1, <5>1, <5>2
      <4> QED
        BY <1>5, <1>6, <4>1
    <3> QED
      BY <2>1, <3>1, <3>2 DEF Spent
  <2>3. CASE j = k /\ LimitOf(r, w) # 0 /\ i = a \div w
    <3> DEFINE f == InWindow(k, w, i)
               g == [t \in 0 .. MaxTime |-> IF t \div w = i THEN granted'[k][w][t] ELSE 0]
    <3>1. f \in [0 .. MaxTime -> Nat] /\ g \in [0 .. MaxTime -> Nat]
      BY <1>4, <1>5 DEF InWindow
    <3>2. g[a] = f[a] + r.cost /\ \A t \in 0 .. MaxTime : t # a => g[t] = f[t]
      <4> DEFINE spent == granted[k][w][a] + r.cost
      <4>1. granted'[k][w] = [granted[k][w] EXCEPT ![a] = spent]
        BY <1>5, <2>3
      <4> HIDE DEF spent
      <4>2. granted'[k][w][a] = spent
            /\ \A t \in 0 .. MaxTime : t # a => granted'[k][w][t] = granted[k][w][t]
        BY <1>1, <1>4, <4>1
      <4>3. f[a] = granted[k][w][a] /\ g[a] = spent
        BY <1>1, <2>3, <4>2 DEF InWindow
      <4> QED
        BY <4>2, <4>3 DEF InWindow, spent
    <3>3. Spent(j, w, i) = Total(f) /\ Spent(j, w, i)' = Total(g)
      BY <2>3 DEF Spent, InWindow
    <3> HIDE DEF f, g
    <3>4. Total(g) = Total(f) + r.cost
      BY <1>1, <3>1, <3>2, TotalAdd
    <3>5. bucket'[j][w][i] = Used(r, w) + r.cost /\ Used(r, w) = Total(f)
      BY <1>4, <1>5, <2>1, <2>3, <3>3
    <3>6. Used(r, w) + r.cost <= policy[key[k].policy].limit[w]
      BY <2>3 DEF Room, LimitOf
    <3> QED
      BY <1>2, <3>3, <3>4, <3>5, <3>6
  <2> QED
    BY <2>2, <2>3
<1> QED
  BY <1>7, <1>8 DEF BucketExact

\* No other step charges.
LEMMA ChargedByConsume ==
    ASSUME KInv, BInv, [Next]_vars
    PROVE  BucketShape' /\ BucketExact'
<1>1. ASSUME NEW c \in Clients, Consume(c) PROVE BucketShape' /\ BucketExact'
  <2>1. CASE Authorized(rec[c]) /\ \A w \in Windows : Room(rec[c], w)
    BY <1>1, <2>1, ChargeStep
  <2>2. CASE ~(Authorized(rec[c]) /\ \A w \in Windows : Room(rec[c], w))
    <3>1. UNCHANGED <<bucket, granted>>
      BY <1>1, <2>2 DEF Consume, Charge
    <3> QED
      BY <3>1, BucketsKept DEF BInv
  <2> QED
    BY <2>1, <2>2
<1>2. CASE ~\E c \in Clients : Consume(c)
  <2>1. UNCHANGED <<bucket, granted>>
    BY <1>2 DEF Next, vars, Manage, CheckStep, CreateKey, Revoke, Rotate,
       BindAccessPolicy,
       SaveAccessPolicy, DeleteAccessPolicy, Republish, Tick, check, Verify, Resolve, Archive,
       Abandon
  <2> QED
    BY <2>1, BucketsKept DEF BInv
<1> QED
  BY <1>1, <1>2

\* A policy that a key refers to is not deleted, and no key refers to another.
LEMMA PoliciesBound ==
    ASSUME KInv, BInv, [Next]_vars
    PROVE  BoundPolicies'
<1> DEFINE Policy == [models : SUBSET Models, limit : Limits]
<1>1. /\ key \in [Keys -> KeyRow] /\ policy \in [Policies -> Policy \cup {None}]
      /\ \A k \in Keys : key[k].policy # None => policy[key[k].policy] \in Policy
      /\ \A k \in Keys : key[k].policy \in Policies \cup {None}
  BY DEF KInv, TypeOK, BInv, BoundPolicies, KeyRow
<1>2. ASSUME NEW k \in Keys, NEW i \in Idempotency \cup {None}, NEW p \in Policies,
             NEW e \in 1 .. Never, CreateKey(k, i, p, e)
      PROVE  BoundPolicies'
  <2>1. key'[k].policy = p /\ policy' = policy /\ policy[p] \in Policy
        /\ \A j \in Keys \ {k} : key'[j] = key[j]
    BY <1>1, <1>2 DEF CreateKey, InsertInferenceAccessKey
  <2> QED
    BY <1>1, <2>1 DEF BoundPolicies
<1>3. ASSUME NEW k \in Keys, NEW p \in Policies, BindAccessPolicy(k, p) PROVE BoundPolicies'
  <2>1. key'[k].policy = p /\ policy' = policy /\ policy[p] \in Policy
        /\ \A j \in Keys \ {k} : key'[j] = key[j]
    BY <1>1, <1>3 DEF BindAccessPolicy, KeyRow
  <2> QED
    BY <1>1, <2>1 DEF BoundPolicies
<1>4. ASSUME NEW p \in Policies, NEW models \in SUBSET Models, NEW limit \in Limits,
             SaveAccessPolicy(p, models, limit)
      PROVE  BoundPolicies'
  <2>1. key' = key /\ policy' = [policy EXCEPT ![p] = [models |-> models, limit |-> limit]]
    BY <1>4 DEF SaveAccessPolicy
  <2>2. policy'[p] \in Policy /\ \A x \in Policies \ {p} : policy'[x] = policy[x]
    BY <1>1, <2>1
  <2> QED
    BY <1>1, <2>1, <2>2 DEF BoundPolicies
<1>5. ASSUME NEW p \in Policies, DeleteAccessPolicy(p) PROVE BoundPolicies'
  <2>1. key' = key /\ policy' = [policy EXCEPT ![p] = None] /\ \A k \in Keys : key[k].policy # p
    BY <1>5 DEF DeleteAccessPolicy
  <2>2. \A x \in Policies \ {p} : policy'[x] = policy[x]
    BY <1>1, <2>1
  <2> QED
    BY <1>1, <2>1, <2>2 DEF BoundPolicies
<1>6. ASSUME policy' = policy, \A k \in Keys : key'[k].policy = key[k].policy
      PROVE  BoundPolicies'
  BY <1>1, <1>6 DEF BoundPolicies
<1>7. ASSUME NEW k \in Keys, Revoke(k) PROVE BoundPolicies'
  <2>1. policy' = policy /\ \A j \in Keys : key'[j].policy = key[j].policy
    BY <1>1, <1>7 DEF Revoke, RevokeInferenceAccessKey, KeyRow
  <2> QED
    BY <1>6, <2>1
<1>8. ASSUME NEW k \in Keys, NEW i \in Idempotency \cup {None}, Rotate(k, i) PROVE BoundPolicies'
  <2>1. policy' = policy /\ \A j \in Keys : key'[j].policy = key[j].policy
    BY <1>1, <1>8, SMTT(15) DEF Rotate, RotateInferenceAccessKey, KeyRow
  <2> QED
    BY <1>6, <2>1
<1>9. ASSUME NEW c \in Clients, Archive(c) PROVE BoundPolicies'
  <2>1. policy' = policy /\ \A j \in Keys : key'[j].policy = key[j].policy
    BY <1>1, <1>9 DEF Archive, KeyRow
  <2> QED
    BY <1>6, <2>1
<1>10. ASSUME UNCHANGED <<key, policy>> PROVE BoundPolicies'
  BY <1>6, <1>10
<1>11. CASE Manage
  <2>1. ASSUME NEW s \in Services, NEW phase \in {"withdrawn", "moving", "effective"},
               Republish(s, phase)
        PROVE  BoundPolicies'
    BY <1>10, <2>1 DEF Republish
  <2> QED
    BY <1>11, <1>2, <1>3, <1>4, <1>5, <1>7, <1>8, <2>1 DEF Manage
<1>12. ASSUME NEW c \in Clients, CheckStep(c) PROVE BoundPolicies'
  <2>1. CASE Archive(c)
    BY <1>9, <2>1
  <2>2. CASE ~Archive(c)
    <3>1. UNCHANGED <<key, policy>>
      BY <1>12, <2>2 DEF CheckStep, Verify, Resolve, Consume, Abandon
    <3> QED
      BY <1>10, <3>1
  <2> QED
    BY <2>1, <2>2
<1>13. CASE Tick \/ UNCHANGED vars
  BY <1>10, <1>13 DEF Tick, vars
<1> QED
  BY <1>11, <1>12, <1>13 DEF Next

\* A check keeps the moment it began at.
LEMMA TimeKept ==
    ASSUME KInv, BInv, [Next]_vars
    PROVE  InTime'
<1>1. /\ now \in 0 .. MaxTime /\ now \in Nat /\ TypeOK
      /\ \A c \in Clients : Checking(c) => rec[c].at \in 0 .. MaxTime
  BY DEF KInv, TypeOK, BInv, InTime
<1>2. now' \in 0 .. MaxTime
  <2>1. now' \in {now, now + 1} /\ (now' # now => now < MaxTime)
    BY DEF Next, vars, Manage, CheckStep, CreateKey, Revoke, Rotate, BindAccessPolicy,
       SaveAccessPolicy, DeleteAccessPolicy, Republish, Tick, Verify, Resolve, Consume, Archive,
       Abandon
  <2> QED
    BY <1>1, <2>1, AccessAssumption, SMTT(15)
<1>3. ASSUME NEW c \in Clients, CheckStep(c), NEW d \in Clients, Checking(d)'
      PROVE  rec'[d].at \in 0 .. MaxTime
  <2>1. CASE d # c
    <3>1. pc'[d] = pc[d] /\ rec'[d] = rec[d]
      BY <1>1, <1>3, <2>1
         DEF CheckStep, Verify, Resolve, Consume, Archive, Abandon, Answer, TypeOK
    <3> QED
      BY <1>1, <1>3, <3>1 DEF Checking
  <2>2. CASE d = c /\ \E secret \in 1 .. secrets, m \in Models, cost \in {-1, 1, 2} :
                        Verify(c, secret, m, cost)
    BY <1>1, <2>2, SMTT(15) DEF Verify, TypeOK
  <2>3. CASE d = c /\ (Resolve(c) \/ Consume(c) \/ Archive(c) \/ Abandon(c))
    <3>1. CASE \E result \in {"idle", "allowed"} : Answer(c, result)
      BY <1>1, <1>3, <2>3, <3>1 DEF Answer, Checking, TypeOK
    <3>2. CASE Consume(c) /\ UNCHANGED rec
      BY <1>1, <2>3, <3>2 DEF Consume, Checking
    <3>3. CASE Resolve(c) /\ \E s \in Services : rec' = [rec EXCEPT ![c].service = s]
      BY <1>1, <2>3, <3>3 DEF Resolve, Checking, TypeOK
    <3> QED
      BY <2>3, <3>1, <3>2, <3>3 DEF Resolve, Consume, Archive, Abandon
  <2> QED
    BY <1>3, <2>1, <2>2, <2>3 DEF CheckStep
<1>4. CASE ~\E c \in Clients : CheckStep(c)
  <2>1. UNCHANGED <<pc, rec>>
    BY <1>4 DEF Next, vars, Manage, CreateKey, Revoke, Rotate, BindAccessPolicy,
       SaveAccessPolicy, DeleteAccessPolicy, Republish, Tick, check
  <2> QED
    BY <1>1, <1>2, <2>1 DEF InTime, Checking
<1> QED
  BY <1>2, <1>3, <1>4 DEF InTime

\* However many checks of however many windows overlap, whatever happens to the
\* policies meanwhile, a bucket holds exactly what was granted in its window
\* and never more than the most generous policy grants (consumeKeyBuckets).
THEOREM BucketsAreExact == Spec => []BucketExact
<1>1. KInv /\ BInv /\ [Next]_vars => (KInv /\ BInv)'
  BY KeysStep, ChargedByConsume, PoliciesBound, TimeKept DEF BInv
<1>2. BInv => BucketExact
  BY DEF BInv
<1> QED
  BY <1>1, <1>2, KeysInit, BucketsInit, PTL DEF Spec

-----------------------------------------------------------------------------
(* Managed compute: the inductive invariant *)

ProcessLabels ==
    {"idle", "source", "apply_cr", "bind_cr", "apply_runtime", "bind_runtime",
     "observe_runtime", "save_pods", "delete_runtime", "observe_absence", "seal", "delete_cr",
     "release_quota", "close_scope", "load_report", "save_report", "send", "advance", "retry"}

OperationRow == [num : Nat, kind : Kinds \cup {"none"}, by : Deletes \cup {Null},
                 step : ManagedSteps]
CloseRow == [state : {"none", "normal", "pending", "complete", "unknown_execution"},
             lease : BOOLEAN, due : BOOLEAN, report : {Null} \cup SUBSET Nat]
ProcessRow == [at : ProcessLabels, job : {"none", "work", "close"}, op : OperationRow,
               sealed : BOOLEAN, pods : SUBSET Nat]

ManagedType ==
    /\ class \in {"cpu", "gpu"}
    /\ row \in [digest : Payloads \cup {Null}, saved : Payloads \cup {Null},
                by : Deletes \cup {Null}]
    /\ closed \in [Deletes -> CloseRow]
    /\ service \in {"absent", "direct", "running", "stopped", "deleted"}
    /\ op \in OperationRow
    /\ leased \in BOOLEAN
    /\ scope \in [{Create} \cup Deletes -> [sealed : BOOLEAN, pods : SUBSET Nat]]
    /\ proc \in ProcessRow
    /\ runtime \in {"absent", "present", "deleting"}
    /\ pods \in SUBSET Nat /\ uids \in Nat
    /\ class = "cpu" => pods = {}

\* The steps of ManagedPaths, by kind
StepOfKind(o) ==
    /\ o.kind = "none" => o.step = "complete"
    /\ o.kind \in {"create", "start"} =>
        o.step \in {"apply_cr", "apply_runtime", "observe_runtime", "complete"}
    /\ o.kind \in {"update", "restart"} => o.step \notin {"delete_cr", "release_quota"}
    /\ o.kind \in {"stop", "delete"} =>
        o.step \notin {"apply_cr", "apply_runtime", "observe_runtime"}
    /\ o.kind = "stop" => o.step # "delete_cr"

NothingRuns == runtime = "absent" /\ pods = {}

\* As long as the service was not created nothing was given out.
Untouched ==
    service \in {"absent", "direct"} =>
        /\ op.kind = "none" /\ row.saved = Null /\ NothingRuns
        /\ \A o \in {Create} \cup Deletes : scope[o].pods = {}

\* A service has an operation, and is deleted by the DELETE that closes it.
OperationFits ==
    /\ StepOfKind(op)
    /\ service \in {"running", "stopped", "deleted"} => created # NoCreate /\ op.kind # "none"
    /\ service = "deleted" <=> op.kind = "delete"
    /\ op.kind = "delete" => op.by \in Deletes /\ closed[op.by].state = "normal"
    /\ op.kind = "delete" /\ op.step \in {"delete_cr", "release_quota", "complete"} => NothingRuns

\* Nothing runs any more, and nothing can.
Over == \/ service = "absent"
        \/ op.kind = "delete" /\ op.step \in {"release_quota", "complete"}

Reported(d) == /\ closed[d].state # "none" /\ row.by = d
               /\ closed[d].report = scope[Create].pods
               /\ Over

\* One DELETE closes the resource, and what was reported is what was recorded.
CloseFits ==
    /\ \A d \in Deletes :
        /\ closed[d].state # "none" => row.by = d
        /\ closed[d].state \in {"pending", "complete"} => service = "absent"
        /\ closed[d].report # Null => Reported(d)
    /\ told \subseteq Deletes
    /\ \A d \in told : Reported(d)

\* The process carries out the current operation as it loaded it, or one that a
\* DELETE has overtaken since.
AtWork ==
    /\ StepOfKind(proc.op) /\ proc.op.kind # "none" /\ proc.op.step # "complete"
    /\ \/ op = proc.op
       \/ /\ op.kind = "delete" /\ op.step = "delete_runtime"
          /\ proc.op.kind # "delete" /\ op.num # proc.op.num
    /\ \/ proc.at \in {"source", "advance", "retry", proc.op.step}
       \/ proc.at = "bind_cr" /\ proc.op.step = "apply_cr"
       \/ proc.at = "bind_runtime" /\ proc.op.step = "apply_runtime"
       \/ proc.at = "save_pods" /\ proc.op.step = "observe_runtime"
       \/ proc.at = "seal" /\ proc.op.step = "observe_absence"
       \/ /\ proc.at \in {"load_report", "save_report", "send"}
          /\ proc.op.step = "release_quota" /\ proc.op.kind = "delete"
    /\ proc.at = "source" => proc.op.step # "release_quota"
    /\ proc.at = "seal" \/ (proc.at = "advance" /\ proc.op.step = "observe_absence") => NothingRuns
    /\ proc.at \in {"release_quota", "load_report", "save_report"} =>
        proc.pods = scope[Create].pods

\* Or it closes a resource that was never given out.
AtClose ==
    /\ service = "absent" /\ proc.op.by \in Deletes /\ row.by = proc.op.by
    /\ closed[proc.op.by].state \in {"pending", "complete"}
    /\ proc.at \in {"close_scope", "load_report", "save_report", "send", "advance", "retry"}
    /\ proc.at \in {"load_report", "save_report"} => proc.pods = scope[Create].pods

ProcessFits ==
    /\ proc.job = "none" <=> proc.at = "idle"
    /\ proc.job = "work" => AtWork
    /\ proc.job = "close" => AtClose
    /\ proc.at = "send" => proc.op.by \in Deletes /\ Reported(proc.op.by)

ComputeInv == ManagedType /\ Untouched /\ OperationFits /\ CloseFits /\ ProcessFits


-----------------------------------------------------------------------------
(* Managed compute: the steps of an operation *)

\* The step that follows on the managed path.
LEMMA ManagedSuccessor ==
    ASSUME NEW k \in Kinds, NEW s \in ManagedSteps, s # "complete",
           StepOfKind([kind |-> k, step |-> s])
    PROVE  /\ NextStep(k, s) \in ManagedSteps
           /\ StepOfKind([kind |-> k, step |-> NextStep(k, s)])
           /\ k = "delete" /\ s = "delete_runtime" => NextStep(k, s) = "observe_absence"
           /\ k = "delete" /\ s = "observe_absence" => NextStep(k, s) = "delete_cr"
           /\ k = "delete" /\ s = "delete_cr" => NextStep(k, s) = "release_quota"
           /\ k = "delete" /\ s = "release_quota" => NextStep(k, s) = "complete"
<1>1. CASE k \in {"create", "start"}
  <2>1. ManagedPaths[k] = <<"apply_cr", "apply_runtime", "observe_runtime", "complete">>
    BY <1>1, SMTT(15) DEF ManagedPaths
  <2>2. s \in {"apply_cr", "apply_runtime", "observe_runtime"}
    BY <1>1 DEF StepOfKind
  <2>3. /\ s = "apply_cr" => NextStep(k, s) = "apply_runtime"
        /\ s = "apply_runtime" => NextStep(k, s) = "observe_runtime"
        /\ s = "observe_runtime" => NextStep(k, s) = "complete"
    BY <2>1, SMTT(15) DEF NextStep
  <2> QED
    BY <1>1, <2>2, <2>3 DEF StepOfKind, ManagedSteps
<1>2. CASE k \in {"update", "restart"}
  <2>1. ManagedPaths[k] = <<"delete_runtime", "observe_absence", "apply_cr", "apply_runtime",
                            "observe_runtime", "complete">>
    BY <1>2, SMTT(15) DEF ManagedPaths
  <2>2. s \in {"delete_runtime", "observe_absence", "apply_cr", "apply_runtime",
               "observe_runtime"}
    BY <1>2 DEF StepOfKind, ManagedSteps
  <2>3. /\ s = "delete_runtime" => NextStep(k, s) = "observe_absence"
        /\ s = "observe_absence" => NextStep(k, s) = "apply_cr"
        /\ s = "apply_cr" => NextStep(k, s) = "apply_runtime"
        /\ s = "apply_runtime" => NextStep(k, s) = "observe_runtime"
        /\ s = "observe_runtime" => NextStep(k, s) = "complete"
    BY <2>1, SMTT(15) DEF NextStep
  <2> QED
    BY <1>2, <2>2, <2>3 DEF StepOfKind, ManagedSteps
<1>3. CASE k = "stop"
  <2>1. ManagedPaths[k] = <<"delete_runtime", "observe_absence", "release_quota", "complete">>
    BY <1>3, SMTT(15) DEF ManagedPaths
  <2>2. s \in {"delete_runtime", "observe_absence", "release_quota"}
    BY <1>3 DEF StepOfKind, ManagedSteps
  <2>3. /\ s = "delete_runtime" => NextStep(k, s) = "observe_absence"
        /\ s = "observe_absence" => NextStep(k, s) = "release_quota"
        /\ s = "release_quota" => NextStep(k, s) = "complete"
    BY <2>1, SMTT(15) DEF NextStep
  <2> QED
    BY <1>3, <2>2, <2>3 DEF StepOfKind, ManagedSteps
<1>4. CASE k = "delete"
  <2>1. ManagedPaths[k] = <<"delete_runtime", "observe_absence", "delete_cr", "release_quota",
                            "complete">>
    BY <1>4, SMTT(15) DEF ManagedPaths
  <2>2. s \in {"delete_runtime", "observe_absence", "delete_cr", "release_quota"}
    BY <1>4 DEF StepOfKind, ManagedSteps
  <2>3. /\ s = "delete_runtime" => NextStep(k, s) = "observe_absence"
        /\ s = "observe_absence" => NextStep(k, s) = "delete_cr"
        /\ s = "delete_cr" => NextStep(k, s) = "release_quota"
        /\ s = "release_quota" => NextStep(k, s) = "complete"
    BY <2>1, SMTT(15) DEF NextStep
  <2> QED
    BY <1>4, <2>2, <2>3 DEF StepOfKind, ManagedSteps
<1> QED
  BY <1>1, <1>2, <1>3, <1>4 DEF Kinds

\* An operation starts with the first step of its path.
LEMMA FirstOperation ==
    ASSUME op \in OperationRow, NEW k \in Kinds, NEW d \in Deletes \cup {Null}
    PROVE  /\ Operation(k, d) \in OperationRow /\ StepOfKind(Operation(k, d))
           /\ Operation(k, d).kind = k /\ Operation(k, d).by = d
           /\ Operation(k, d).num # op.num
           /\ k = "delete" => Operation(k, d).step = "delete_runtime"
<1>1. ManagedPaths[k][1] =
          IF k \in {"create", "start"} THEN "apply_cr" ELSE "delete_runtime"
  BY SMTT(15) DEF ManagedPaths, Kinds
<1>2. op.num + 1 \in Nat /\ op.num + 1 # op.num
  BY SMTT(15) DEF OperationRow
<1>3. /\ Operation(k, d).num = op.num + 1 /\ Operation(k, d).kind = k
      /\ Operation(k, d).by = d /\ Operation(k, d).step = ManagedPaths[k][1]
  BY DEF Operation
<1>4. Operation(k, d) \in OperationRow
  BY <1>1, <1>2 DEF Operation, OperationRow, ManagedSteps
<1> QED
  BY <1>1, <1>2, <1>3, <1>4 DEF StepOfKind, Kinds

\* A step of the process moves its label, and keeps what it carries.
LEMMA GotoKeeps ==
    ASSUME proc \in ProcessRow, NEW label \in ProcessLabels, Goto(label)
    PROVE  /\ proc' \in ProcessRow
           /\ proc'.at = label /\ proc'.job = proc.job /\ proc'.op = proc.op
           /\ proc'.pods = proc.pods
BY DEF ProcessRow, Goto

-----------------------------------------------------------------------------
(* Managed compute: what the actions have in common *)

\* While something may run or be applied nothing was reported or closed.
LEMMA NotOverYet ==
    ASSUME ComputeInv, ~Over
    PROVE  /\ \A d \in Deletes : /\ closed[d].report = Null
                                 /\ closed[d].state \notin {"pending", "complete"}
           /\ told = {}
           /\ proc.job # "close" /\ proc.at # "send"
<1>1. \A d \in Deletes : ~Reported(d)
  BY DEF Reported
<1>2. service # "absent"
  BY DEF Over
<1>3. proc.job # "close"
  BY <1>2 DEF ComputeInv, ProcessFits, AtClose
<1> QED
  BY <1>1, <1>2, <1>3 DEF ComputeInv, CloseFits, ProcessFits

\* An action that leaves the rows, the operation and the cluster alone, and at
\* most tells Governance the report that is being sent, has only the process to
\* account for.
LEMMA RowsKept ==
    ASSUME ComputeInv,
           UNCHANGED <<class, row, service, op, scope, runtime, pods, uids>>,
           created # NoCreate => created' # NoCreate,
           leased' \in BOOLEAN, closed' \in [Deletes -> CloseRow],
           \A d \in Deletes : /\ closed'[d].state = closed[d].state
                              /\ closed'[d].report = closed[d].report,
           \A d \in told' : d \in told \/ (proc.at = "send" /\ d = proc.op.by),
           proc' \in ProcessRow, ProcessFits'
    PROVE  ComputeInv'
<1>1. ManagedType'
  BY DEF ComputeInv, ManagedType
<1>2. Untouched'
  BY DEF ComputeInv, Untouched, NothingRuns
<1>3. OperationFits'
  <2>1. op.kind = "delete" => op.by \in Deletes /\ closed'[op.by].state = "normal"
    BY DEF ComputeInv, OperationFits
  <2> QED
    BY <2>1 DEF ComputeInv, OperationFits, StepOfKind, NothingRuns
<1>4. \A d \in Deletes : Reported(d) => Reported(d)'
  BY DEF Reported, Over
<1>5. CloseFits'
  <2>1. \A d \in told' : d \in Deletes /\ Reported(d)
    BY DEF ComputeInv, CloseFits, ProcessFits
  <2>2. told' \subseteq Deletes /\ \A d \in told' : Reported(d)'
    BY <1>4, <2>1
  <2>3. \A d \in Deletes :
            /\ closed'[d].state # "none" => row'.by = d
            /\ closed'[d].state \in {"pending", "complete"} => service' = "absent"
            /\ closed'[d].report # Null => Reported(d)'
    BY <1>4 DEF ComputeInv, CloseFits
  <2> QED
    BY <2>2, <2>3 DEF CloseFits
<1> QED
  BY <1>1, <1>2, <1>3, <1>5 DEF ComputeInv

\* The process that stays where it is, is still accounted for.
LEMMA ProcessStays ==
    ASSUME ComputeInv,
           UNCHANGED <<row, service, op, scope, runtime, pods, proc>>,
           \A d \in Deletes : /\ closed'[d].state = closed[d].state
                              /\ closed'[d].report = closed[d].report
    PROVE  ProcessFits'
<1>1. proc.job = "work" => AtWork'
  BY DEF ComputeInv, ProcessFits, AtWork, StepOfKind, NothingRuns
<1>2. proc.job = "close" => AtClose'
  BY DEF ComputeInv, ProcessFits, AtClose
<1>3. proc.at = "send" => proc.op.by \in Deletes /\ Reported(proc.op.by)'
  BY DEF ComputeInv, ProcessFits, Reported, Over
<1> QED
  BY <1>1, <1>2, <1>3 DEF ComputeInv, ProcessFits

\* An idle process has nothing to account for.
LEMMA IdleFits ==
    ASSUME proc' = Idle
    PROVE  proc' \in ProcessRow /\ ProcessFits'
<1>1. NoOp \in OperationRow
  BY DEF NoOp, OperationRow, ManagedSteps
<1>2. proc' \in ProcessRow
  BY <1>1 DEF Idle, ProcessRow, ProcessLabels
<1> QED
  BY <1>2 DEF Idle, ProcessFits

\* A process that works on an operation, at the labels of its steps.
LEMMA WorkAt ==
    ASSUME ComputeInv,
           proc.at \in {"source", "apply_cr", "bind_cr", "apply_runtime", "bind_runtime",
                        "observe_runtime", "save_pods", "delete_runtime", "observe_absence",
                        "seal", "delete_cr", "release_quota"}
    PROVE  /\ proc.job = "work" /\ AtWork
           /\ service \notin {"absent", "direct"}
           /\ proc.at \in {"apply_cr", "apply_runtime", "observe_runtime", "delete_runtime",
                           "observe_absence", "delete_cr", "release_quota"} =>
                  proc.op.step = proc.at
           /\ proc.at = "bind_cr" => proc.op.step = "apply_cr"
           /\ proc.at = "bind_runtime" => proc.op.step = "apply_runtime"
           /\ proc.at = "save_pods" => proc.op.step = "observe_runtime"
           /\ proc.at = "seal" => proc.op.step = "observe_absence"
           /\ proc.op.step \in {"apply_runtime", "observe_runtime"} => ~Over
<1>1. proc.job # "close"
  BY DEF ComputeInv, ProcessFits, AtClose
<1>2. proc.job \in {"none", "work", "close"}
  BY DEF ComputeInv, ManagedType, ProcessRow
<1>3. proc.job = "work" /\ AtWork
  BY <1>1, <1>2 DEF ComputeInv, ProcessFits
<1>4. op.kind # "none"
  BY <1>3 DEF AtWork
<1>5. service \notin {"absent", "direct"}
  BY <1>4 DEF ComputeInv, Untouched
<1>6. proc.op.step \in {"apply_runtime", "observe_runtime"} => ~Over
  BY <1>3, <1>5 DEF AtWork, StepOfKind, Over
<1>7. proc.op.step \notin {"bind_cr", "bind_runtime", "save_pods", "seal"}
  BY DEF ComputeInv, ManagedType, ProcessRow, OperationRow, ManagedSteps
<1> QED
  BY <1>3, <1>5, <1>6, <1>7 DEF AtWork

\* A process that moves on within an operation whose rows do not change.
LEMMA WorkMoves ==
    ASSUME ComputeInv, proc.job = "work", AtWork,
           UNCHANGED <<op, runtime, pods>>,
           scope'[Create].pods = scope[Create].pods,
           proc' \in ProcessRow, proc'.job = "work", proc'.op = proc.op,
           \/ proc'.at \in {"source", "advance", "retry", proc.op.step}
           \/ proc'.at = "bind_cr" /\ proc.op.step = "apply_cr"
           \/ proc'.at = "bind_runtime" /\ proc.op.step = "apply_runtime"
           \/ proc'.at = "save_pods" /\ proc.op.step = "observe_runtime"
           \/ proc'.at = "seal" /\ proc.op.step = "observe_absence"
           \/ /\ proc'.at \in {"load_report", "save_report"}
              /\ proc.op.step = "release_quota" /\ proc.op.kind = "delete",
           proc'.at = "source" => proc.op.step # "release_quota",
           proc'.at = "seal" \/ (proc'.at = "advance" /\ proc.op.step = "observe_absence") =>
               NothingRuns,
           proc'.at \in {"release_quota", "load_report", "save_report"} =>
               proc'.pods = scope[Create].pods
    PROVE  ProcessFits'
<1>1. AtWork'
  BY DEF AtWork, StepOfKind, NothingRuns
<1>2. proc'.at \notin {"idle", "send"}
  <2>1. proc.op.step \in ManagedSteps
    BY DEF ComputeInv, ManagedType, ProcessRow, OperationRow
  <2> QED
    BY <2>1 DEF ManagedSteps
<1> QED
  BY <1>1, <1>2 DEF ProcessFits

-----------------------------------------------------------------------------
(* Managed compute: the steps of an operation keep the invariant *)

LEMMA ClaimKeeps ==
    ASSUME ComputeInv, Claim
    PROVE  ComputeInv'
<1>1. op \in OperationRow /\ StepOfKind(op) /\ op.step # "complete" /\ op.kind # "none"
  BY DEF ComputeInv, ManagedType, OperationFits, StepOfKind, Claim
<1>2. /\ proc'.op = op /\ proc'.job = "work" /\ proc'.pods = scope[Create].pods
      /\ proc'.at = IF op.step = "release_quota" THEN "release_quota" ELSE "source"
  BY DEF Claim, GetManagedGPUReleaseScope
<1>3. proc' \in ProcessRow
  <2>1. scope[Create].sealed \in BOOLEAN /\ scope[Create].pods \in SUBSET Nat
    BY DEF ComputeInv, ManagedType
  <2> QED
    BY <1>1, <2>1 DEF Claim, GetManagedGPUReleaseScope, ProcessRow, ProcessLabels
<1>4. AtWork'
  BY <1>1, <1>2 DEF AtWork, StepOfKind, Claim
<1>5. ProcessFits'
  BY <1>2, <1>4 DEF ProcessFits
<1> QED
  BY <1>3, <1>5, RowsKept DEF Claim, commands, cluster, ComputeInv, ManagedType

LEMMA CurrentRuntimeKeeps ==
    ASSUME ComputeInv, CurrentRuntime
    PROVE  ComputeInv'
<1>1. proc.job = "work" /\ AtWork /\ proc.op.step # "release_quota"
  BY WorkAt DEF CurrentRuntime, At, AtWork
<1>2. proc.op.step \in ManagedSteps \ {"complete"}
  BY <1>1 DEF ComputeInv, ManagedType, ProcessRow, OperationRow, AtWork
<1> DEFINE label == IF op.num = proc.op.num THEN proc.op.step ELSE "retry"
<1>3. label \in ProcessLabels /\ label \in {"retry", proc.op.step}
  BY <1>2 DEF ProcessLabels, ManagedSteps
<1>4. Goto(label) /\ proc \in ProcessRow
  BY DEF CurrentRuntime, ComputeInv, ManagedType
<1> HIDE DEF label
<1>5. /\ proc' \in ProcessRow /\ proc'.at = label /\ proc'.job = proc.job
      /\ proc'.op = proc.op
  BY <1>3, <1>4, GotoKeeps
<1>6. proc'.at \notin {"source", "seal", "advance", "release_quota", "load_report", "save_report"}
  BY <1>1, <1>2, <1>3, <1>5 DEF ManagedSteps
<1>7. ProcessFits'
  BY <1>1, <1>3, <1>5, <1>6, WorkMoves DEF CurrentRuntime, work, cluster
<1> QED
  BY <1>5, <1>7, RowsKept DEF CurrentRuntime, commands, work, cluster, ComputeInv,
     ManagedType

\* The custom resource and the bindings hold no GPU.
LEMMA BindingsKeep ==
    ASSUME ComputeInv, ApplyCR \/ BindCR \/ BindRuntime \/ DeleteCR
    PROVE  ComputeInv'
<1>1. /\ proc.job = "work" /\ AtWork
      /\ proc.op.step \in {"apply_cr", "apply_runtime", "delete_cr"}
      /\ ApplyCR => proc.op.step = "apply_cr"
  BY WorkAt DEF ApplyCR, BindCR, BindRuntime, DeleteCR, At
<1>2. /\ proc' \in ProcessRow /\ proc'.job = proc.job /\ proc'.op = proc.op
      /\ \/ proc'.at \in {"advance", "retry"}
         \/ proc'.at = "bind_cr" /\ proc.op.step = "apply_cr"
  BY <1>1, GotoKeeps DEF ApplyCR, BindCR, BindRuntime, DeleteCR, ComputeInv, ManagedType,
     ProcessLabels
<1>3. UNCHANGED <<class, row, created, closed, service, op, leased, scope, runtime, pods, uids,
                  told>>
  BY DEF ApplyCR, BindCR, BindRuntime, DeleteCR, commands, work
<1>4. ProcessFits'
  BY <1>1, <1>2, <1>3, WorkMoves
<1> QED
  BY <1>2, <1>3, <1>4, RowsKept DEF ComputeInv, ManagedType

LEMMA ApplyRuntimeKeeps ==
    ASSUME ComputeInv, ApplyRuntime
    PROVE  ComputeInv'
<1>1. /\ proc.job = "work" /\ AtWork /\ proc.op.step = "apply_runtime" /\ ~Over
      /\ service \notin {"absent", "direct"}
      /\ op.kind = "delete" => op.step = "delete_runtime"
  BY WorkAt DEF ApplyRuntime, At, AtWork, StepOfKind
<1>2. /\ proc' \in ProcessRow /\ proc'.at \in {"bind_runtime", "retry"} /\ proc'.job = proc.job
      /\ proc'.op = proc.op
  BY GotoKeeps DEF ApplyRuntime, ComputeInv, ManagedType, ProcessLabels
<1>3. AtWork'
  BY <1>1, <1>2 DEF AtWork, StepOfKind, ApplyRuntime, work
<1>4. ProcessFits'
  BY <1>1, <1>2, <1>3 DEF ProcessFits
<1>5. ManagedType'
  BY <1>2 DEF ComputeInv, ManagedType, ApplyRuntime, commands, work
<1>6. Untouched' /\ OperationFits'
  BY <1>1 DEF ComputeInv, Untouched, OperationFits, StepOfKind, Over, ApplyRuntime,
     commands, work
<1>7. CloseFits'
  BY <1>1, NotOverYet DEF ComputeInv, CloseFits, ApplyRuntime, commands, work
<1> QED
  BY <1>4, <1>5, <1>6, <1>7 DEF ComputeInv

LEMMA ObserveRuntimeKeeps ==
    ASSUME ComputeInv, ObserveRuntime
    PROVE  ComputeInv'
<1>1. proc.job = "work" /\ AtWork /\ proc.op.step = "observe_runtime"
  BY WorkAt DEF ObserveRuntime, At
<1>2. /\ proc' \in ProcessRow /\ proc'.at \in {"save_pods", "retry"}
      /\ proc'.job = proc.job /\ proc'.op = proc.op
  <2>1. CASE proc' = [proc EXCEPT !.at = "save_pods", !.pods = pods]
    BY <2>1 DEF ComputeInv, ManagedType, ProcessRow, ProcessLabels
  <2>2. CASE Goto("retry")
    BY <2>2, GotoKeeps DEF ComputeInv, ManagedType, ProcessLabels
  <2> QED
    BY <2>1, <2>2 DEF ObserveRuntime
<1>3. ProcessFits'
  BY <1>1, <1>2, WorkMoves DEF ObserveRuntime, work, cluster
<1> QED
  BY <1>2, <1>3, RowsKept DEF ObserveRuntime, commands, work, cluster, ComputeInv,
     ManagedType

LEMMA SavePodsKeeps ==
    ASSUME ComputeInv, SavePods
    PROVE  ComputeInv'
<1>1. /\ proc.job = "work" /\ AtWork /\ proc.op.step = "observe_runtime" /\ ~Over
      /\ service \notin {"absent", "direct"}
  BY WorkAt DEF SavePods, At, AtWork
<1>2. /\ proc' \in ProcessRow /\ proc'.at \in {"advance", "retry"}
      /\ proc'.job = proc.job /\ proc'.op = proc.op
  BY GotoKeeps DEF SavePods, ComputeInv, ManagedType, ProcessLabels
<1>3. AtWork'
  BY <1>1, <1>2 DEF AtWork, StepOfKind, SavePods, work
<1>4. ProcessFits'
  BY <1>1, <1>2, <1>3 DEF ProcessFits
<1>5. scope' \in [{Create} \cup Deletes -> [sealed : BOOLEAN, pods : SUBSET Nat]]
  <2>1. proc.pods \in SUBSET Nat
    BY DEF ComputeInv, ManagedType, ProcessRow
  <2>2. scope \in [{Create} \cup Deletes -> [sealed : BOOLEAN, pods : SUBSET Nat]]
    BY DEF ComputeInv, ManagedType
  <2> DEFINE new == [scope[Create] EXCEPT !.pods = @ \cup proc.pods]
  <2>3. new \in [sealed : BOOLEAN, pods : SUBSET Nat]
    BY <2>1, <2>2
  <2>4. scope' \in {scope, [scope EXCEPT ![Create] = new]}
    BY DEF SavePods, GetManagedGPUReleaseScope, UpsertManagedGPUReleaseScope
  <2> QED
    BY <2>2, <2>3, <2>4
<1>6. ManagedType'
  BY <1>2, <1>5 DEF ComputeInv, ManagedType, SavePods, commands, work, cluster
<1>7. Untouched' /\ OperationFits'
  BY <1>1 DEF ComputeInv, Untouched, OperationFits, StepOfKind, NothingRuns, SavePods,
     commands, work, cluster
<1>8. CloseFits'
  BY <1>1, NotOverYet DEF ComputeInv, CloseFits, SavePods, commands, work
<1> QED
  BY <1>4, <1>6, <1>7, <1>8 DEF ComputeInv

LEMMA DeleteRuntimeKeeps ==
    ASSUME ComputeInv, DeleteRuntime
    PROVE  ComputeInv'
<1>1. /\ proc.job = "work" /\ AtWork /\ proc.op.step = "delete_runtime"
      /\ service \notin {"absent", "direct"}
      /\ op.kind = "delete" => op.step = "delete_runtime"
  BY WorkAt DEF DeleteRuntime, At, AtWork
<1>2. ~Over
  BY <1>1 DEF Over, AtWork
<1>3. /\ proc' \in ProcessRow /\ proc'.at \in {"advance", "retry"} /\ proc'.job = proc.job
      /\ proc'.op = proc.op
  BY GotoKeeps DEF DeleteRuntime, ComputeInv, ManagedType, ProcessLabels
<1>4. AtWork'
  BY <1>1, <1>3 DEF AtWork, StepOfKind, DeleteRuntime, work
<1>5. ProcessFits'
  BY <1>1, <1>3, <1>4 DEF ProcessFits
<1>6. ManagedType'
  BY <1>3 DEF ComputeInv, ManagedType, DeleteRuntime, commands, work
<1>7. Untouched' /\ OperationFits'
  BY <1>1, <1>2
  DEF ComputeInv, Untouched, OperationFits, StepOfKind, Over, DeleteRuntime, commands, work
<1>8. CloseFits'
  BY <1>2, NotOverYet DEF ComputeInv, CloseFits, DeleteRuntime, commands, work
<1> QED
  BY <1>5, <1>6, <1>7, <1>8 DEF ComputeInv

\* The absence that was observed under the lease lasts: the process that would
\* apply the runtime again is the one that observes.
LEMMA ObserveAbsenceKeeps ==
    ASSUME ComputeInv, ObserveAbsence
    PROVE  ComputeInv'
<1>1. proc.job = "work" /\ AtWork /\ proc.op.step = "observe_absence"
  BY WorkAt DEF ObserveAbsence, At
<1>2. /\ proc' \in ProcessRow /\ proc'.at \in {"seal", "retry"} /\ proc'.job = proc.job
      /\ proc'.op = proc.op
  BY GotoKeeps DEF ObserveAbsence, ComputeInv, ManagedType, ProcessLabels
<1>3. proc'.at = "seal" => NothingRuns
  <2>1. proc'.at = IF runtime = "absent" /\ PodsGone /\ Fence THEN "seal" ELSE "retry"
    BY GotoKeeps DEF ObserveAbsence, ComputeInv, ManagedType, ProcessLabels
  <2>2. PodsGone => pods = {}
    BY DEF PodsGone, ComputeInv, ManagedType
  <2> QED
    BY <2>1, <2>2 DEF NothingRuns
<1>4. ProcessFits'
  BY <1>1, <1>2, <1>3, WorkMoves DEF ObserveAbsence, work, cluster
<1> QED
  BY <1>2, <1>4, RowsKept DEF ObserveAbsence, commands, work, cluster, ComputeInv,
     ManagedType

\* A change of the scopes that keeps the pods of every one of them.
LEMMA PodsRecordedKept ==
    ASSUME ComputeInv,
           UNCHANGED <<class, row, created, closed, service, op, leased, runtime, pods, uids,
                       told>>,
           scope' \in [{Create} \cup Deletes -> [sealed : BOOLEAN, pods : SUBSET Nat]],
           \A o \in {Create} \cup Deletes : scope'[o].pods = scope[o].pods,
           proc' \in ProcessRow, ProcessFits'
    PROVE  ComputeInv'
<1>1. ManagedType'
  BY DEF ComputeInv, ManagedType
<1>2. Untouched' /\ OperationFits'
  BY DEF ComputeInv, Untouched, OperationFits, StepOfKind, NothingRuns
<1>3. \A d \in Deletes : Reported(d) => Reported(d)'
  BY DEF Reported, Over
<1>4. CloseFits'
  BY <1>3 DEF ComputeInv, CloseFits
<1> QED
  BY <1>1, <1>2, <1>4 DEF ComputeInv

LEMMA SealKeeps ==
    ASSUME ComputeInv, Seal
    PROVE  ComputeInv'
<1>1. proc.job = "work" /\ AtWork /\ proc.op.step = "observe_absence" /\ NothingRuns
  BY WorkAt DEF Seal, At, AtWork
<1>2. /\ proc' \in ProcessRow /\ proc'.at = "advance" /\ proc'.job = proc.job
      /\ proc'.op = proc.op
  BY GotoKeeps DEF Seal, ComputeInv, ManagedType, ProcessLabels
<1>3. /\ scope' \in [{Create} \cup Deletes -> [sealed : BOOLEAN, pods : SUBSET Nat]]
      /\ \A o \in {Create} \cup Deletes : scope'[o].pods = scope[o].pods
  <2> DEFINE new == [scope[Create] EXCEPT !.sealed = TRUE]
  <2>1. scope \in [{Create} \cup Deletes -> [sealed : BOOLEAN, pods : SUBSET Nat]]
    BY DEF ComputeInv, ManagedType
  <2>2. new \in [sealed : BOOLEAN, pods : SUBSET Nat] /\ new.pods = scope[Create].pods
    BY <2>1
  <2>3. scope' \in {scope, [scope EXCEPT ![Create] = new]}
    BY DEF Seal, GetManagedGPUReleaseScope, UpsertManagedGPUReleaseScope
  <2> QED
    BY <2>1, <2>2, <2>3
<1>4. ProcessFits'
  BY <1>1, <1>2, <1>3, WorkMoves DEF Seal, work, cluster
<1> QED
  BY <1>2, <1>3, <1>4, PodsRecordedKept DEF Seal, commands, work, cluster

LEMMA ReleaseQuotaKeeps ==
    ASSUME ComputeInv, ReleaseQuota
    PROVE  ComputeInv'
<1>1. /\ proc.job = "work" /\ AtWork /\ proc.op.step = "release_quota"
      /\ proc.pods = scope[Create].pods
  BY WorkAt DEF ReleaseQuota, At, AtWork
<1>2. /\ proc' \in ProcessRow /\ proc'.job = proc.job /\ proc'.op = proc.op
      /\ proc'.pods = proc.pods
      /\ proc'.at = "advance" \/ (proc'.at = "load_report" /\ proc.op.kind = "delete")
  BY GotoKeeps DEF ReleaseQuota, ComputeInv, ManagedType, ProcessLabels
<1>3. ProcessFits'
  BY <1>1, <1>2, WorkMoves DEF ReleaseQuota, work, cluster
<1> QED
  BY <1>2, <1>3, RowsKept DEF ReleaseQuota, commands, work, cluster, ComputeInv,
     ManagedType

\* A delete goes on to delete_cr, and from there to release_quota, only from the
\* observed absence.
LEMMA AdvanceKeeps ==
    ASSUME ComputeInv, Advance
    PROVE  ComputeInv'
<1>1. proc.job = "work" /\ AtWork /\ proc.at = "advance"
  BY DEF ComputeInv, ProcessFits, Advance, At
<1>2. proc' \in ProcessRow /\ ProcessFits'
  BY IdleFits DEF Advance
<1>3. CASE ~Fence
  <2>1. op' = op
    BY <1>3 DEF Advance
  <2> QED
    BY <1>2, <2>1, RowsKept DEF Advance, commands, cluster, ComputeInv, ManagedType
<1>4. CASE Fence
  <2> DEFINE next == NextStep(op.kind, op.step)
  <2>1. /\ op = proc.op /\ op \in OperationRow /\ StepOfKind(op) /\ op.kind # "none"
        /\ op.step # "complete"
    BY <1>1, <1>4 DEF Fence, AtWork, ComputeInv, ManagedType
  <2>2. op.kind \in Kinds /\ op.step \in ManagedSteps
    BY <2>1 DEF OperationRow
  <2>3. StepOfKind([kind |-> op.kind, step |-> op.step])
    BY <2>1 DEF StepOfKind
  <2>4. /\ next \in ManagedSteps /\ StepOfKind([kind |-> op.kind, step |-> next])
        /\ op.kind = "delete" /\ op.step = "delete_runtime" => next = "observe_absence"
        /\ op.kind = "delete" /\ op.step = "observe_absence" => next = "delete_cr"
        /\ op.kind = "delete" /\ op.step = "delete_cr" => next = "release_quota"
        /\ op.kind = "delete" /\ op.step = "release_quota" => next = "complete"
    BY <2>1, <2>2, <2>3, ManagedSuccessor
  <2>5. op' = [op EXCEPT !.step = next]
    BY <1>4 DEF Advance
  <2> HIDE DEF next
  <2>6. /\ op' \in OperationRow /\ StepOfKind(op') /\ op'.kind = op.kind /\ op'.by = op.by
        /\ op'.step = next
    BY <2>1, <2>4, <2>5 DEF OperationRow, StepOfKind
  <2>7. op.kind = "delete" /\ op'.step \in {"delete_cr", "release_quota", "complete"} =>
            NothingRuns
    <3>1. op.kind = "delete" =>
              op.step \in {"delete_runtime", "observe_absence", "delete_cr", "release_quota"}
      BY <2>1, <2>2 DEF StepOfKind, ManagedSteps
    <3>2. op.step = "observe_absence" => NothingRuns
      BY <1>1, <2>1 DEF AtWork
    <3>3. op.kind = "delete" /\ op.step \in {"delete_cr", "release_quota"} => NothingRuns
      BY DEF ComputeInv, OperationFits
    <3> QED
      BY <2>4, <2>6, <3>1, <3>2, <3>3
  <2>8. ManagedType'
    BY <1>2, <2>6 DEF ComputeInv, ManagedType, Advance, commands, cluster
  <2>9. Untouched'
    BY <2>6 DEF ComputeInv, Untouched, NothingRuns, Advance, commands, cluster
  <2>10. OperationFits'
    BY <2>6, <2>7 DEF ComputeInv, OperationFits, NothingRuns, StepOfKind, Advance,
       commands, cluster
  <2>11. Over => Over'
    BY <2>1, <2>4, <2>6 DEF Over, Advance
  <2>12. \A d \in Deletes : Reported(d) => Reported(d)'
    BY <2>11 DEF Reported, Advance, commands
  <2>13. CloseFits'
    BY <2>12 DEF ComputeInv, CloseFits, Advance, commands
  <2> QED
    BY <1>2, <2>8, <2>9, <2>10, <2>13 DEF ComputeInv
<1> QED
  BY <1>3, <1>4

-----------------------------------------------------------------------------
(* Managed compute: closes and reports keep the invariant *)

\* The lease of a close and its retry time say nothing of what was released.
LEMMA LeaseFields ==
    ASSUME closed \in [Deletes -> CloseRow], NEW d \in Deletes,
           NEW lease \in BOOLEAN, NEW due \in BOOLEAN,
           closed' = [closed EXCEPT ![d] = [@ EXCEPT !.lease = lease, !.due = due]]
    PROVE  /\ closed' \in [Deletes -> CloseRow]
           /\ \A e \in Deletes : /\ closed'[e].state = closed[e].state
                                 /\ closed'[e].report = closed[e].report
<1> DEFINE new == [closed[d] EXCEPT !.lease = lease, !.due = due]
<1>1. new \in CloseRow /\ new.state = closed[d].state /\ new.report = closed[d].report
  BY DEF CloseRow
<1>2. closed' = [closed EXCEPT ![d] = new]
  OBVIOUS
<1> QED
  BY <1>1, <1>2

LEMMA AllLeasesEnd ==
    ASSUME closed \in [Deletes -> CloseRow],
           closed' = [d \in Deletes |-> [closed[d] EXCEPT !.lease = FALSE]]
    PROVE  /\ closed' \in [Deletes -> CloseRow]
           /\ \A e \in Deletes : /\ closed'[e].state = closed[e].state
                                 /\ closed'[e].report = closed[e].report
<1>1. \A e \in Deletes : /\ closed'[e] \in CloseRow
                         /\ closed'[e].state = closed[e].state
                         /\ closed'[e].report = closed[e].report
  BY DEF CloseRow
<1> QED
  BY <1>1

LEMMA RetryKeeps ==
    ASSUME ComputeInv, Retry
    PROVE  ComputeInv'
<1>1. proc' \in ProcessRow /\ ProcessFits'
  BY IdleFits DEF Retry, GiveBack
<1>2. closed \in [Deletes -> CloseRow] /\ leased \in BOOLEAN /\ proc \in ProcessRow
  BY DEF ComputeInv, ManagedType
<1>3. CASE proc.job = "work"
  <2>1. leased' = FALSE /\ closed' = closed
    BY <1>3 DEF Retry, GiveBack
  <2> QED
    BY <1>1, <1>2, <2>1, RowsKept DEF Retry, cluster
<1>4. CASE proc.job # "work"
  <2> DEFINE d == proc.op.by
  <2>1. d \in Deletes
    <3>1. proc.job = "close"
      BY <1>2, <1>4 DEF Retry, At, ComputeInv, ProcessFits, ProcessRow
    <3> QED
      BY <3>1 DEF ComputeInv, ProcessFits, AtClose
  <2>2. closed' = [closed EXCEPT ![d].due = ~closed[d].lease, ![d].lease = FALSE]
    BY <1>4 DEF Retry, GiveBack
  <2>3. closed' = [closed EXCEPT ![d] = [@ EXCEPT !.lease = FALSE, !.due = ~closed[d].lease]]
    BY <1>2, <2>1, <2>2 DEF CloseRow
  <2>4. (~closed[d].lease) \in BOOLEAN
    BY <1>2, <2>1 DEF CloseRow
  <2>5. /\ closed' \in [Deletes -> CloseRow]
        /\ \A e \in Deletes : /\ closed'[e].state = closed[e].state
                              /\ closed'[e].report = closed[e].report
    BY <1>2, <2>1, <2>3, <2>4, LeaseFields
  <2>6. leased' = leased
    BY <1>4 DEF Retry, GiveBack
  <2> QED
    BY <1>1, <1>2, <2>5, <2>6, RowsKept DEF Retry, cluster
<1> QED
  BY <1>3, <1>4

LEMMA ClaimCloseKeeps ==
    ASSUME ComputeInv, NEW d \in Deletes, ClaimClose(d)
    PROVE  ComputeInv'
<1>1. closed \in [Deletes -> CloseRow] /\ leased \in BOOLEAN
  BY DEF ComputeInv, ManagedType
<1>2. /\ closed' \in [Deletes -> CloseRow]
      /\ \A e \in Deletes : /\ closed'[e].state = closed[e].state
                            /\ closed'[e].report = closed[e].report
  <2>1. closed' = [closed EXCEPT ![d] = [@ EXCEPT !.lease = TRUE, !.due = closed[d].due]]
    BY <1>1 DEF ClaimClose, CloseRow
  <2>2. closed[d].due \in BOOLEAN
    BY <1>1 DEF CloseRow
  <2> QED
    BY <1>1, <2>1, <2>2, LeaseFields
<1>3. /\ proc' \in ProcessRow /\ proc'.at = "close_scope" /\ proc'.job = "close"
      /\ proc'.op.by = d
  BY DEF ClaimClose, Idle, NoOp, ProcessRow, ProcessLabels, OperationRow, ManagedSteps,
     Kinds
<1>4. AtClose'
  <2>1. closed[d].state = "pending" /\ row.by = d /\ service = "absent"
    BY DEF ClaimClose, ComputeInv, CloseFits
  <2> QED
    BY <1>2, <1>3, <2>1 DEF AtClose, ClaimClose, work
<1>5. ProcessFits'
  BY <1>3, <1>4 DEF ProcessFits
<1> QED
  BY <1>1, <1>2, <1>3, <1>5, RowsKept DEF ClaimClose, work, cluster

\* The process that closes a resource, at the labels that only a close has.
LEMMA CloseScopeKeeps ==
    ASSUME ComputeInv, CloseScope
    PROVE  ComputeInv'
<1>1. proc.job = "close" /\ AtClose
  <2>1. proc.job # "work"
    <3>1. proc.op.step # "close_scope"
      BY DEF ComputeInv, ManagedType, ProcessRow, OperationRow, ManagedSteps
    <3> QED
      BY <3>1 DEF ComputeInv, ProcessFits, AtWork, CloseScope, At
  <2> QED
    BY <2>1 DEF ComputeInv, ManagedType, ProcessFits, ProcessRow, CloseScope, At
<1> DEFINE found == scope[proc.op.by]
<1>2. found \in [sealed : BOOLEAN, pods : SUBSET Nat]
  BY <1>1 DEF AtClose, ComputeInv, ManagedType
<1>3. /\ proc' \in ProcessRow /\ proc'.at \in {"load_report", "retry"} /\ proc'.job = "close"
      /\ proc'.op = proc.op /\ proc'.pods = found.pods
  BY <1>1, <1>2
  DEF CloseScope, GetManagedGPUReleaseScope, ComputeInv, ManagedType, ProcessRow, ProcessLabels
<1>4. found.pods = {} /\ scope[Create].pods = {}
  BY <1>1 DEF AtClose, ComputeInv, Untouched
<1>5. AtClose'
  BY <1>1, <1>3, <1>4 DEF AtClose, CloseScope, commands, work
<1>6. ProcessFits'
  BY <1>3, <1>5 DEF ProcessFits
<1> QED
  BY <1>3, <1>6, RowsKept DEF CloseScope, commands, work, cluster, ComputeInv, ManagedType

LEMMA CompleteKeeps ==
    ASSUME ComputeInv, CompleteManagedClose
    PROVE  ComputeInv'
<1> DEFINE d == proc.op.by
           new == IF closed[d].lease
                  THEN [closed[d] EXCEPT !.state = "complete", !.lease = FALSE] ELSE closed[d]
<1>1. d \in Deletes /\ service = "absent" /\ row.by = d /\ closed[d].state # "none"
  BY DEF ComputeInv, ProcessFits, AtClose, CompleteManagedClose
<1>2. closed \in [Deletes -> CloseRow]
  BY DEF ComputeInv, ManagedType
<1>3. /\ new \in CloseRow /\ new.report = closed[d].report
      /\ new.state \in {closed[d].state, "complete"}
  BY <1>1, <1>2 DEF CloseRow
<1>4. closed' = [closed EXCEPT ![d] = new]
  BY DEF CompleteManagedClose
<1>5. /\ closed' \in [Deletes -> CloseRow] /\ closed'[d] = new
      /\ \A e \in Deletes \ {d} : closed'[e] = closed[e]
  BY <1>1, <1>2, <1>3, <1>4
<1> HIDE DEF new
<1>6. proc' \in ProcessRow /\ ProcessFits'
  BY IdleFits DEF CompleteManagedClose
<1>7. ManagedType'
  BY <1>5, <1>6 DEF ComputeInv, ManagedType, CompleteManagedClose, work, cluster
<1>8. Untouched'
  BY DEF ComputeInv, Untouched, NothingRuns, CompleteManagedClose, work, cluster
<1>9. OperationFits'
  <2>1. op.kind # "delete"
    BY <1>1 DEF ComputeInv, OperationFits
  <2> QED
    BY <2>1 DEF ComputeInv, OperationFits, StepOfKind, CompleteManagedClose, work
<1>10. \A e \in Deletes : Reported(e) => Reported(e)'
  BY <1>1, <1>3, <1>5, SMTT(15) DEF Reported, Over, CompleteManagedClose, work
<1>11. CloseFits'
  <2>1. \A e \in Deletes :
            /\ closed'[e].state # "none" => row'.by = e
            /\ closed'[e].state \in {"pending", "complete"} => service' = "absent"
            /\ closed'[e].report # Null => Reported(e)'
    <3> TAKE e \in Deletes
    <3>1. CASE e = d
      BY <1>1, <1>3, <1>5, <1>10, <3>1 DEF ComputeInv, CloseFits, CompleteManagedClose,
         work
    <3>2. CASE e # d
      BY <1>5, <1>10, <3>2 DEF ComputeInv, CloseFits, CompleteManagedClose, work
    <3> QED
      BY <3>1, <3>2
  <2>2. told' \subseteq Deletes /\ \A e \in told' : Reported(e)'
    BY <1>10 DEF ComputeInv, CloseFits, CompleteManagedClose
  <2> QED
    BY <2>1, <2>2 DEF CloseFits
<1> QED
  BY <1>6, <1>7, <1>8, <1>9, <1>11 DEF ComputeInv

\* Whoever is about to report, for an operation or a close, may: the DELETE is
\* the current operation past its absence, or nothing was ever given out, and
\* the pods it loaded are the recorded ones.
LEMMA ReportingAt ==
    ASSUME ComputeInv, proc.at \in {"load_report", "save_report", "send"}
    PROVE  /\ proc.op.by \in Deletes /\ Over
           /\ proc.at # "send" => proc.pods = scope[Create].pods
           /\ proc.job \in {"work", "close"}
<1>1. proc.job \in {"work", "close"}
  BY DEF ComputeInv, ManagedType, ProcessRow, ProcessFits
<1>2. CASE proc.job = "work"
  <2>1. AtWork /\ proc.op.step \notin {"load_report", "save_report", "send"}
    BY <1>2 DEF ComputeInv, ProcessFits, ManagedType, ProcessRow, OperationRow,
       ManagedSteps
  <2>2. proc.op.step = "release_quota" /\ proc.op.kind = "delete" /\ op = proc.op
    BY <2>1 DEF AtWork
  <2> QED
    BY <1>1, <2>1, <2>2 DEF AtWork, Over, ComputeInv, OperationFits
<1>3. CASE proc.job = "close"
  BY <1>1, <1>3 DEF ComputeInv, ProcessFits, AtClose, Over
<1> QED
  BY <1>1, <1>2, <1>3

\* Moving on from a report.
LEMMA ReportMoves ==
    ASSUME ComputeInv, proc.at \in {"load_report", "save_report", "send"},
           UNCHANGED <<row, service, op, scope, runtime, pods>>,
           \A d \in Deletes : closed'[d].state = closed[d].state,
           proc' \in ProcessRow, proc'.job = proc.job, proc'.op = proc.op,
           proc'.pods = proc.pods,
           proc'.at \in {"save_report", "send", "advance", "retry"},
           proc'.at = "save_report" => proc.at # "send",
           proc'.at = "send" => Reported(proc.op.by)'
    PROVE  ProcessFits'
<1>1. /\ proc.op.by \in Deletes /\ proc.job \in {"work", "close"}
      /\ proc.at # "send" => proc.pods = scope[Create].pods
  BY ReportingAt
<1>2. proc.job = "work" => AtWork'
  <2> HAVE proc.job = "work"
  <2>1. AtWork /\ proc.op.step \notin {"load_report", "save_report", "send"}
    BY DEF ComputeInv, ProcessFits, ManagedType, ProcessRow, OperationRow, ManagedSteps
  <2>2. proc.op.step = "release_quota" /\ proc.op.kind = "delete"
    BY <2>1 DEF AtWork
  <2> QED
    BY <1>1, <2>1, <2>2 DEF AtWork, StepOfKind
<1>3. proc.job = "close" => AtClose'
  BY <1>1 DEF ComputeInv, ProcessFits, AtClose
<1> QED
  BY <1>1, <1>2, <1>3 DEF ProcessFits

LEMMA LoadReportKeeps ==
    ASSUME ComputeInv, LoadReport
    PROVE  ComputeInv'
<1> DEFINE d == proc.op.by
           label == IF ClosedBy # d THEN "retry"
                    ELSE IF closed[d].report # Null THEN "send"
                    ELSE IF proc.sealed THEN "save_report" ELSE "retry"
<1>1. proc.at = "load_report" /\ proc \in ProcessRow /\ Goto(label)
  BY DEF LoadReport, At, ComputeInv, ManagedType
<1>2. d \in Deletes
  BY <1>1, ReportingAt
<1>3. /\ label \in {"retry", "send", "save_report"}
      /\ label = "send" => closed[d].report # Null
  OBVIOUS
<1> HIDE DEF label
<1>4. /\ proc' \in ProcessRow /\ proc'.at = label /\ proc'.job = proc.job
      /\ proc'.op = proc.op /\ proc'.pods = proc.pods
  <2>1. label \in ProcessLabels
    BY <1>3 DEF ProcessLabels
  <2> QED
    BY <1>1, <2>1, GotoKeeps
<1>5. label = "send" => Reported(d)'
  <2>1. label = "send" => Reported(d)
    BY <1>2, <1>3 DEF ComputeInv, CloseFits
  <2> QED
    BY <1>4, <2>1 DEF Reported, Over, LoadReport, commands, work
<1>6. ProcessFits'
  BY <1>1, <1>3, <1>4, <1>5, ReportMoves DEF LoadReport, commands, work, cluster
<1> QED
  BY <1>4, <1>6, RowsKept DEF LoadReport, commands, work, cluster, ComputeInv, ManagedType

\* The report that is saved names the recorded pods, and nothing runs.
LEMMA SaveReportKeeps ==
    ASSUME ComputeInv, SaveReport
    PROVE  ComputeInv'
<1> DEFINE d == proc.op.by
<1>1. /\ proc.at = "save_report" /\ proc \in ProcessRow
      /\ closed \in [Deletes -> CloseRow]
  BY DEF SaveReport, At, ComputeInv, ManagedType
<1>2. d \in Deletes /\ Over /\ proc.pods = scope[Create].pods
  BY <1>1, ReportingAt
<1>3. CASE ~ReportFence
  <2>1. closed' = closed /\ Goto("retry")
    BY <1>3 DEF SaveReport
  <2>2. /\ proc' \in ProcessRow /\ proc'.at = "retry" /\ proc'.job = proc.job
        /\ proc'.op = proc.op /\ proc'.pods = proc.pods
    BY <1>1, <2>1, GotoKeeps DEF ProcessLabels
  <2>3. ProcessFits'
    BY <1>1, <2>1, <2>2, ReportMoves DEF SaveReport, work, cluster
  <2> QED
    BY <1>1, <2>1, <2>2, <2>3, RowsKept DEF SaveReport, work, cluster, ComputeInv,
       ManagedType
<1>4. CASE ReportFence
  <2> DEFINE new == [closed[d] EXCEPT !.report = proc.pods]
  <2>1. closed' = [closed EXCEPT ![d] = new] /\ Goto("send")
    BY <1>4 DEF SaveReport, Evidence
  <2>2. proc.pods \in SUBSET Nat
    BY <1>1 DEF ProcessRow
  <2>3. new \in CloseRow /\ new.state = closed[d].state /\ new.report = proc.pods
    BY <1>1, <1>2, <2>2 DEF CloseRow
  <2>4. /\ closed' \in [Deletes -> CloseRow] /\ closed'[d] = new
        /\ \A e \in Deletes \ {d} : closed'[e] = closed[e]
    BY <1>1, <1>2, <2>1, <2>3
  <2> HIDE DEF new
  <2>5. row.by = d /\ closed[d].state # "none"
    BY <1>4 DEF ReportFence, ClosedBy
  <2>6. /\ proc' \in ProcessRow /\ proc'.at = "send" /\ proc'.job = proc.job
        /\ proc'.op = proc.op /\ proc'.pods = proc.pods
    BY <1>1, <2>1, GotoKeeps DEF ProcessLabels
  <2>7. \A e \in Deletes : e = d => Reported(e)'
    BY <1>2, <2>3, <2>4, <2>5 DEF Reported, Over, SaveReport, work
  <2>8. \A e \in Deletes : Reported(e) => Reported(e)'
    BY <2>4, <2>7 DEF Reported, Over, SaveReport, work
  <2>9. ProcessFits'
    BY <1>1, <1>2, <2>3, <2>4, <2>6, <2>7, ReportMoves DEF SaveReport, work, cluster
  <2>10. ManagedType'
    BY <2>4, <2>6 DEF ComputeInv, ManagedType, SaveReport, work, cluster
  <2>11. Untouched'
    BY DEF ComputeInv, Untouched, NothingRuns, SaveReport, work, cluster
  <2>12. OperationFits'
    <3>1. op.kind = "delete" => op.by \in Deletes /\ closed'[op.by].state = "normal"
      BY <2>3, <2>4 DEF ComputeInv, OperationFits
    <3> QED
      BY <3>1 DEF ComputeInv, OperationFits, NothingRuns, StepOfKind, SaveReport, work,
         cluster
  <2>13. CloseFits'
    <3>1. \A e \in Deletes :
              /\ closed'[e].state # "none" => row'.by = e
              /\ closed'[e].state \in {"pending", "complete"} => service' = "absent"
              /\ closed'[e].report # Null => Reported(e)'
      <4> TAKE e \in Deletes
      <4>1. CASE e = d
        BY <2>3, <2>4, <2>5, <2>7, <4>1 DEF ComputeInv, CloseFits, SaveReport, work
      <4>2. CASE e # d
        BY <2>4, <2>8, <4>2 DEF ComputeInv, CloseFits, SaveReport, work
      <4> QED
        BY <4>1, <4>2
    <3>2. told' \subseteq Deletes /\ \A e \in told' : Reported(e)'
      BY <2>8 DEF ComputeInv, CloseFits, SaveReport
    <3> QED
      BY <3>1, <3>2 DEF CloseFits
  <2> QED
    BY <2>9, <2>10, <2>11, <2>12, <2>13 DEF ComputeInv
<1> QED
  BY <1>3, <1>4

LEMMA SendKeeps ==
    ASSUME ComputeInv, Send
    PROVE  ComputeInv'
<1>1. proc.at = "send" /\ proc \in ProcessRow
  BY DEF Send, At, ComputeInv, ManagedType
<1>2. /\ proc' \in ProcessRow /\ proc'.at = "advance" /\ proc'.job = proc.job
      /\ proc'.op = proc.op /\ proc'.pods = proc.pods
  BY <1>1, GotoKeeps DEF Send, ProcessLabels
<1>3. ProcessFits'
  BY <1>1, <1>2, ReportMoves DEF Send, commands, work, cluster
<1>4. \A d \in told' : d \in told \/ (proc.at = "send" /\ d = proc.op.by)
  BY <1>1 DEF Send
<1> QED
  BY <1>2, <1>3, <1>4, RowsKept DEF Send, commands, work, cluster, ComputeInv, ManagedType

-----------------------------------------------------------------------------
(* Managed compute: commands keep the invariant *)

\* A CREATE that is taken as new finds no command, no service and no DELETE.
LEMMA NewCreate ==
    ASSUME ComputeInv, NEW p \in Payloads, CreateIntake(p) = "new"
    PROVE  /\ created = NoCreate /\ row.by = Null /\ service \in {"absent", "direct"}
           /\ \A d \in Deletes : closed[d].state = "none" /\ closed[d].report = Null
           /\ told = {} /\ proc.job = "none" /\ proc.at = "idle"
<1>1. created = NoCreate
  BY DEF CreateIntake, GetManagedGPUCommand
<1>2. row.by = Null
  <2>1. CASE row = NoRow
    BY <2>1 DEF NoRow
  <2>2. CASE row # NoRow
    BY <1>1, <2>2 DEF CreateIntake, GetManagedGPUCommand, GetManagedGPUResourceForUpdate
  <2> QED
    BY <2>1, <2>2
<1>3. service \in {"absent", "direct"}
  BY <1>1 DEF ComputeInv, ManagedType, OperationFits
<1>4. \A d \in Deletes : d # row.by
  BY <1>2, ManagedBounds
<1>5. \A d \in Deletes : closed[d].state = "none" /\ closed[d].report = Null
  BY <1>4 DEF ComputeInv, CloseFits, Reported
<1>6. told = {}
  BY <1>4 DEF ComputeInv, CloseFits, Reported
<1>7. proc.job # "close"
  BY <1>4 DEF ComputeInv, ProcessFits, AtClose
<1>8. proc.job # "work"
  <2>1. op.kind = "none"
    BY <1>3 DEF ComputeInv, Untouched
  <2> QED
    BY <2>1 DEF ComputeInv, ProcessFits, AtWork
<1>9. proc.job = "none" /\ proc.at = "idle"
  BY <1>7, <1>8 DEF ComputeInv, ManagedType, ProcessRow, ProcessFits
<1> QED
  BY <1>1, <1>2, <1>3, <1>5, <1>6, <1>9

\* A command that is only recorded disturbs nothing.
LEMMA CommandRecorded ==
    ASSUME ComputeInv,
           UNCHANGED <<class, row, closed, service, op, leased, scope, proc, cluster, told>>,
           created # NoCreate => created' # NoCreate
    PROVE  ComputeInv'
<1>1. ProcessFits'
  BY ProcessStays DEF cluster
<1> QED
  BY <1>1, RowsKept DEF cluster, ComputeInv, ManagedType

LEMMA PrepareCreateKeeps ==
    ASSUME ComputeInv, NEW p \in Payloads, PrepareCreate(p)
    PROVE  ComputeInv'
<1>1. created' = created \/ created' # NoCreate
  BY SMTT(15) DEF PrepareCreate, Block, InsertManagedGPUCommand, NoCreate
<1> QED
  BY <1>1, CommandRecorded DEF PrepareCreate, work

\* Its service starts with nothing given out, reported or under way.
LEMMA CreateServiceKeeps ==
    ASSUME ComputeInv, NEW p \in Payloads, CreateService(p)
    PROVE  ComputeInv'
<1>1. CASE UNCHANGED <<row, service, op>> /\ (created' = created \/ Block(p))
  <2>1. created # NoCreate => created' # NoCreate
    BY <1>1, SMTT(15) DEF Block, InsertManagedGPUCommand, NoCreate
  <2> QED
    BY <1>1, <2>1, CommandRecorded DEF CreateService
<1>2. CASE /\ CreateIntake(p) = "new"
           /\ row' = SaveManagedGPUCreate(InsertManagedGPUResource(row, p), p)
           /\ created' = InsertManagedGPUCommand(p, "create_pending")
           /\ service' = "running" /\ op' = Operation("create", Null)
  <2>1. /\ row.by = Null /\ proc.job = "none" /\ proc.at = "idle" /\ told = {}
        /\ \A d \in Deletes : closed[d].state = "none" /\ closed[d].report = Null
    BY <1>2, NewCreate
  <2>2. /\ op' \in OperationRow /\ StepOfKind(op') /\ op'.kind = "create"
    BY <1>2, FirstOperation, SMTT(15) DEF ComputeInv, ManagedType, Kinds
  <2>3. row' \in [digest : Payloads \cup {Null}, saved : Payloads \cup {Null},
                  by : Deletes \cup {Null}]
    <3> DEFINE r == InsertManagedGPUResource(row, p)
    <3>1. r \in [digest : Payloads \cup {Null}, saved : Payloads \cup {Null},
                 by : Deletes \cup {Null}]
      BY DEF InsertManagedGPUResource, NoRow, ComputeInv, ManagedType
    <3>2. row' = [r EXCEPT !.saved = IF r.saved = Null THEN p ELSE r.saved]
      BY <1>2 DEF SaveManagedGPUCreate
    <3> HIDE DEF r
    <3> QED
      BY <3>1, <3>2
  <2>4. created' # NoCreate
    BY <1>2 DEF InsertManagedGPUCommand, NoCreate
  <2>5. ManagedType'
    BY <1>2, <2>2, <2>3 DEF ComputeInv, ManagedType, CreateService, cluster
  <2>6. Untouched' /\ OperationFits'
    BY <1>2, <2>2, <2>4 DEF Untouched, OperationFits, StepOfKind
  <2>7. CloseFits'
    BY <2>1 DEF CloseFits, CreateService
  <2>8. ProcessFits'
    BY <2>1 DEF ProcessFits, CreateService
  <2> QED
    BY <2>5, <2>6, <2>7, <2>8 DEF ComputeInv
<1> QED
  BY <1>1, <1>2 DEF CreateService

\* The DELETE that is taken finds no other one.
LEMMA OnlyDelete ==
    ASSUME ComputeInv, NEW d \in Deletes, NEW p \in Payloads, DeleteIntake(d, p)
    PROVE  /\ \A e \in Deletes : /\ closed[e].state = "none" /\ closed[e].report = Null
                                 /\ ~Reported(e)
           /\ told = {} /\ proc.job # "close" /\ proc.at # "send"
           /\ row.by \in {Null, d}
<1>1. closed[d].state = "none"
  BY SMTT(15) DEF DeleteIntake, NoClose
<1>2. row.by \in {Null, d}
  BY SMTT(15) DEF DeleteIntake, GetManagedGPUResourceForUpdate, NoRow
<1>3. \A e \in Deletes : closed[e].state = "none"
  BY <1>1, <1>2, ManagedBounds DEF ComputeInv, CloseFits
<1>4. \A e \in Deletes : ~Reported(e)
  BY <1>3 DEF Reported
<1>5. proc.job # "close"
  BY <1>3 DEF ComputeInv, ProcessFits, AtClose
<1> QED
  BY <1>2, <1>3, <1>4, <1>5 DEF ComputeInv, CloseFits, ProcessFits

\* The row of a resource that is closed.
LEMMA ClosingRow ==
    ASSUME ComputeInv, NEW d \in Deletes, NEW r,
           r \in [digest : Payloads \cup {Null}, saved : Payloads \cup {Null},
                  by : Deletes \cup {Null}],
           r.by \in {Null, d}
    PROVE  /\ SetManagedGPUClosing(r, d) \in
                [digest : Payloads \cup {Null}, saved : Payloads \cup {Null},
                 by : Deletes \cup {Null}]
           /\ SetManagedGPUClosing(r, d).by = d
           /\ SetManagedGPUClosing(r, d).saved = r.saved
BY DEF SetManagedGPUClosing

\* The rows of the closes, once one has its state.
LEMMA CloseStateSet ==
    ASSUME closed \in [Deletes -> CloseRow], NEW d \in Deletes,
           NEW s \in {"none", "normal", "pending", "complete", "unknown_execution"},
           closed' = [closed EXCEPT ![d].state = s]
    PROVE  /\ closed' \in [Deletes -> CloseRow]
           /\ closed'[d].state = s /\ closed'[d].report = closed[d].report
           /\ \A e \in Deletes \ {d} : closed'[e] = closed[e]
<1> DEFINE new == [closed[d] EXCEPT !.state = s]
<1>1. new \in CloseRow /\ new.state = s /\ new.report = closed[d].report
  BY DEF CloseRow
<1>2. closed' = [closed EXCEPT ![d] = new]
  OBVIOUS
<1> QED
  BY <1>1, <1>2

LEMMA DeleteFirstKeeps ==
    ASSUME ComputeInv, NEW d \in Deletes, NEW p \in Payloads, DeleteFirst(d, p)
    PROVE  ComputeInv'
<1>1. /\ \A e \in Deletes : closed[e].state = "none" /\ closed[e].report = Null
      /\ told = {} /\ proc.job # "close" /\ proc.at # "send" /\ row.by \in {Null, d}
  BY OnlyDelete DEF DeleteFirst
<1>2. service = "absent" /\ op.kind = "none" /\ row.saved = Null
  BY DEF DeleteFirst, ComputeInv, Untouched
<1> DEFINE r == InsertManagedGPUResource(row, p)
<1>3. /\ r \in [digest : Payloads \cup {Null}, saved : Payloads \cup {Null},
                by : Deletes \cup {Null}]
      /\ r.by \in {Null, d} /\ r.saved = Null
  BY <1>1, <1>2 DEF InsertManagedGPUResource, NoRow, ComputeInv, ManagedType
<1>4. row' = SetManagedGPUClosing(r, d)
  BY DEF DeleteFirst
<1> HIDE DEF r
<1>5. /\ row' \in [digest : Payloads \cup {Null}, saved : Payloads \cup {Null},
                   by : Deletes \cup {Null}]
      /\ row'.by = d /\ row'.saved = Null
  BY <1>3, <1>4, ClosingRow
<1>6. /\ closed' \in [Deletes -> CloseRow]
      /\ closed'[d].report = Null
      /\ \A e \in Deletes \ {d} : closed'[e] = closed[e]
  <2>1. CloseState \in {"unknown_execution", "complete", "pending"}
    BY DEF CloseState
  <2>2. closed \in [Deletes -> CloseRow] /\ closed' = [closed EXCEPT ![d].state = CloseState]
    BY DEF DeleteFirst, SetManagedCloseState, ComputeInv, ManagedType
  <2> QED
    BY <1>1, <2>1, <2>2, CloseStateSet
<1>7. /\ scope' \in [{Create} \cup Deletes -> [sealed : BOOLEAN, pods : SUBSET Nat]]
      /\ \A o \in {Create} \cup Deletes : scope'[o].pods = {}
  <2> DEFINE new == [sealed |-> TRUE, pods |-> {}]
  <2>1. /\ scope \in [{Create} \cup Deletes -> [sealed : BOOLEAN, pods : SUBSET Nat]]
        /\ \A o \in {Create} \cup Deletes : scope[o].pods = {}
    BY <1>2 DEF ComputeInv, ManagedType, Untouched
  <2>2. new \in [sealed : BOOLEAN, pods : SUBSET Nat] /\ new.pods = {}
    OBVIOUS
  <2>3. scope' \in {scope, [scope EXCEPT ![d] = new]}
    BY DEF DeleteFirst, SealFirst, UpsertManagedGPUReleaseScope
  <2> HIDE DEF new
  <2> QED
    BY <2>1, <2>2, <2>3
<1>8. ManagedType'
  BY <1>5, <1>6, <1>7 DEF ComputeInv, ManagedType, DeleteFirst, work, cluster
<1>9. Untouched'
  BY <1>5, <1>7 DEF ComputeInv, Untouched, NothingRuns, DeleteFirst, work, cluster
<1>10. OperationFits'
  BY <1>2 DEF ComputeInv, OperationFits, StepOfKind, DeleteFirst, work
<1>11. CloseFits'
  BY <1>1, <1>2, <1>5, <1>6, SMTT(15) DEF CloseFits, DeleteFirst, work
<1>12. ProcessFits'
  <2>1. proc.job # "work"
    BY <1>2 DEF ComputeInv, ProcessFits, AtWork
  <2> QED
    BY <1>1, <2>1 DEF ComputeInv, ProcessFits, DeleteFirst
<1> QED
  BY <1>8, <1>9, <1>10, <1>11, <1>12 DEF ComputeInv

\* A DELETE overtakes the operation the process may be carrying out.
LEMMA DeleteServiceKeeps ==
    ASSUME ComputeInv, NEW d \in Deletes, NEW p \in Payloads, DeleteService(d, p)
    PROVE  ComputeInv'
<1>1. /\ \A e \in Deletes : closed[e].state = "none" /\ closed[e].report = Null
      /\ told = {} /\ proc.job # "close" /\ proc.at # "send" /\ row.by \in {Null, d}
  BY OnlyDelete DEF DeleteService
<1>2. service \in {"running", "stopped"} /\ created # NoCreate /\ op.kind # "delete"
  BY DEF DeleteService, ComputeInv, OperationFits
<1>3. /\ row' \in [digest : Payloads \cup {Null}, saved : Payloads \cup {Null},
                   by : Deletes \cup {Null}]
      /\ row'.by = d
  BY <1>1, ClosingRow DEF DeleteService, ComputeInv, ManagedType
<1>4. /\ closed' \in [Deletes -> CloseRow]
      /\ closed'[d].state = "normal" /\ closed'[d].report = Null
      /\ \A e \in Deletes \ {d} : closed'[e] = closed[e]
  BY <1>1, CloseStateSet DEF DeleteService, ComputeInv, ManagedType
<1>5. /\ op' \in OperationRow /\ StepOfKind(op') /\ op'.kind = "delete" /\ op'.by = d
      /\ op'.num # op.num /\ op'.step = "delete_runtime"
  BY FirstOperation DEF DeleteService, ComputeInv, ManagedType, Kinds
<1>6. ManagedType'
  BY <1>3, <1>4, <1>5 DEF ComputeInv, ManagedType, DeleteService, cluster
<1>7. Untouched' /\ OperationFits'
  BY <1>2, <1>4, <1>5 DEF Untouched, OperationFits, DeleteService
<1>8. CloseFits'
  BY <1>1, <1>3, <1>4 DEF CloseFits, DeleteService
<1>9. ProcessFits'
  <2>1. proc.job = "work" => AtWork'
    <3> HAVE proc.job = "work"
    <3>1. AtWork /\ op = proc.op
      BY <1>2 DEF ComputeInv, ProcessFits, AtWork
    <3> QED
      BY <1>2, <1>5, <3>1 DEF AtWork, StepOfKind, NothingRuns, DeleteService, cluster
  <2> QED
    BY <1>1, <2>1 DEF ComputeInv, ProcessFits, DeleteService
<1> QED
  BY <1>6, <1>7, <1>8, <1>9 DEF ComputeInv

\* The other commands wait for the operation before them.
LEMMA CommandKeeps ==
    ASSUME ComputeInv, NEW kind \in {"start", "stop", "restart", "update"}, Command(kind)
    PROVE  ComputeInv'
<1>1. service \in {"running", "stopped"} /\ op.step = "complete"
  BY DEF Command
<1>2. created # NoCreate /\ op.kind # "delete"
  BY <1>1 DEF ComputeInv, OperationFits
<1>3. ~Over
  BY <1>1, <1>2 DEF Over
<1>4. /\ \A d \in Deletes : /\ closed[d].report = Null
                            /\ closed[d].state \notin {"pending", "complete"}
      /\ told = {} /\ proc.job # "close" /\ proc.at # "send"
  BY <1>3, NotOverYet
<1>5. proc.job # "work"
  BY <1>1, <1>2 DEF ComputeInv, ProcessFits, AtWork
<1>6. /\ op' \in OperationRow /\ StepOfKind(op') /\ op'.kind = kind
  BY FirstOperation, SMTT(15) DEF Command, ComputeInv, ManagedType, Kinds
<1>7. service' \in {"running", "stopped"}
  BY DEF Command
<1>8. ManagedType'
  BY <1>6, <1>7 DEF ComputeInv, ManagedType, Command, commands, cluster
<1>9. Untouched' /\ OperationFits'
  BY <1>2, <1>6, <1>7 DEF Untouched, OperationFits, Command, commands
<1>10. CloseFits'
  BY <1>4 DEF ComputeInv, CloseFits, Command, commands
<1>11. ProcessFits'
  BY <1>4, <1>5 DEF ComputeInv, ProcessFits, Command
<1> QED
  BY <1>8, <1>9, <1>10, <1>11 DEF ComputeInv

-----------------------------------------------------------------------------
(* Managed compute: the cluster, time and failures keep the invariant *)

\* Only what still runs starts pods, and pods only end where nothing runs.
LEMMA ClusterKeeps ==
    ASSUME ComputeInv, PodStarts \/ PodEnds \/ Vanish
    PROVE  ComputeInv'
<1>1. UNCHANGED <<class, row, created, closed, service, op, leased, scope, proc, told>>
  BY DEF PodStarts, PodEnds, Vanish, commands, work
<1>2. NothingRuns => NothingRuns'
  BY DEF NothingRuns, PodStarts, PodEnds, Vanish
<1>3. /\ runtime' \in {"absent", "present", "deleting"}
      /\ pods' \in SUBSET Nat /\ uids' \in Nat
      /\ class = "cpu" => pods' = {}
  <2>1. CASE PodStarts
    BY <2>1, SMTT(15) DEF PodStarts, ComputeInv, ManagedType
  <2>2. CASE PodEnds
    BY <2>2 DEF PodEnds, ComputeInv, ManagedType
  <2>3. CASE Vanish
    BY <2>3 DEF Vanish, ComputeInv, ManagedType
  <2> QED
    BY <2>1, <2>2, <2>3
<1>4. ManagedType'
  BY <1>1, <1>3 DEF ComputeInv, ManagedType
<1>5. Untouched' /\ OperationFits'
  BY <1>1, <1>2 DEF ComputeInv, Untouched, OperationFits, StepOfKind
<1>6. \A d \in Deletes : Reported(d) => Reported(d)'
  BY <1>1 DEF Reported, Over
<1>7. CloseFits'
  BY <1>1, <1>6 DEF ComputeInv, CloseFits
<1>8. ProcessFits'
  <2>1. proc.job = "work" => AtWork'
    BY <1>1, <1>2 DEF ComputeInv, ProcessFits, AtWork, StepOfKind
  <2>2. proc.job = "close" => AtClose'
    BY <1>1 DEF ComputeInv, ProcessFits, AtClose
  <2>3. proc.at = "send" => proc.op.by \in Deletes /\ Reported(proc.op.by)'
    BY <1>1, <1>6 DEF ComputeInv, ProcessFits
  <2> QED
    BY <1>1, <2>1, <2>2, <2>3 DEF ComputeInv, ProcessFits
<1> QED
  BY <1>4, <1>5, <1>7, <1>8 DEF ComputeInv

LEMMA TimeKeeps ==
    ASSUME ComputeInv, LeaseLapses \/ RetryDue \/ LeaseOutlived
    PROVE  ComputeInv'
<1>1. closed \in [Deletes -> CloseRow] /\ leased \in BOOLEAN /\ proc \in ProcessRow
  BY DEF ComputeInv, ManagedType
<1>2. UNCHANGED <<class, row, created, service, op, scope, proc, runtime, pods, uids, told>>
  BY DEF LeaseLapses, RetryDue, LeaseOutlived, work, cluster
<1>3. /\ closed' \in [Deletes -> CloseRow] /\ leased' \in BOOLEAN
      /\ \A e \in Deletes : /\ closed'[e].state = closed[e].state
                            /\ closed'[e].report = closed[e].report
  <2>1. CASE LeaseLapses \/ LeaseOutlived
    BY <1>1, <2>1, AllLeasesEnd DEF LeaseLapses, LeaseOutlived
  <2>2. CASE RetryDue
    <3>1. PICK d \in Deletes : closed' = [closed EXCEPT ![d].due = TRUE]
      BY <2>2 DEF RetryDue
    <3>2. closed' = [closed EXCEPT ![d] = [@ EXCEPT !.lease = closed[d].lease, !.due = TRUE]]
      BY <1>1, <3>1 DEF CloseRow
    <3>3. closed[d].lease \in BOOLEAN
      BY <1>1 DEF CloseRow
    <3> QED
      BY <1>1, <2>2, <3>2, <3>3, LeaseFields DEF RetryDue, work
  <2> QED
    BY <2>1, <2>2
<1>4. ProcessFits'
  BY <1>2, <1>3, ProcessStays
<1> QED
  BY <1>1, <1>2, <1>3, <1>4, RowsKept

\* A call that fails may still have told Governance.
LEMMA FailuresKeep ==
    ASSUME ComputeInv, CallFails \/ Crash
    PROVE  ComputeInv'
<1>1. UNCHANGED <<class, row, created, closed, service, op, leased, scope, runtime, pods, uids>>
  BY DEF CallFails, Crash, commands, work, cluster
<1>2. \A d \in told' : d \in told \/ (proc.at = "send" /\ d = proc.op.by)
  BY DEF CallFails, Crash, At
<1>3. proc' \in ProcessRow /\ ProcessFits'
  <2>1. CASE Crash
    BY <2>1, IdleFits DEF Crash
  <2>2. CASE CallFails
    <3>1. /\ proc' \in ProcessRow /\ proc'.at = "retry" /\ proc'.job = proc.job
          /\ proc'.op = proc.op
      BY <2>2, GotoKeeps DEF CallFails, ComputeInv, ManagedType, ProcessLabels
    <3>2. proc.job = "work" => ProcessFits'
      BY <1>1, <3>1, WorkMoves DEF ComputeInv, ProcessFits
    <3>3. proc.job = "close" => ProcessFits'
      BY <1>1, <3>1 DEF ComputeInv, ProcessFits, AtClose
    <3>4. proc.job \in {"work", "close"}
      BY <2>2 DEF CallFails, At, ComputeInv, ManagedType, ProcessRow, ProcessFits
    <3> QED
      BY <3>1, <3>2, <3>3, <3>4
  <2> QED
    BY <2>1, <2>2
<1> QED
  BY <1>1, <1>2, <1>3, RowsKept DEF ComputeInv, ManagedType

-----------------------------------------------------------------------------
(* Managed compute: the theorems *)

LEMMA ComputeInit ==
    ASSUME ManagedInit
    PROVE  ComputeInv
<1>1. proc \in ProcessRow /\ op \in OperationRow
  BY DEF ManagedInit, Idle, NoOp, ProcessRow, ProcessLabels, OperationRow, ManagedSteps
<1>2. closed \in [Deletes -> CloseRow]
  BY DEF ManagedInit, NoClose, CloseRow
<1>3. /\ scope \in [{Create} \cup Deletes -> [sealed : BOOLEAN, pods : SUBSET Nat]]
      /\ \A o \in {Create} \cup Deletes : scope[o].pods = {}
  BY DEF ManagedInit, NoScope
<1>4. row \in [digest : Payloads \cup {Null}, saved : Payloads \cup {Null},
               by : Deletes \cup {Null}] /\ row.saved = Null
  BY DEF ManagedInit, NoRow
<1>5. ManagedType
  BY <1>1, <1>2, <1>3, <1>4 DEF ManagedInit, ManagedType
<1>6. Untouched
  BY <1>3, <1>4 DEF ManagedInit, Untouched, NothingRuns, NoOp
<1>7. OperationFits
  BY DEF ManagedInit, OperationFits, StepOfKind, NoOp
<1>8. CloseFits
  BY DEF ManagedInit, CloseFits, NoClose
<1>9. ProcessFits
  BY DEF ManagedInit, ProcessFits, Idle
<1> QED
  BY <1>5, <1>6, <1>7, <1>8, <1>9 DEF ComputeInv

\* The process carries out the operation it loaded or one a DELETE overtook, and
\* what was reported or closed stays reported with nothing left to run.
THEOREM ComputeInvariance == ManagedSpec => []ComputeInv
<1>1. ManagedInit => ComputeInv
  BY ComputeInit
<1>2. ComputeInv /\ [ManagedNext]_managedVars => ComputeInv'
  <2> SUFFICES ASSUME ComputeInv, [ManagedNext]_managedVars
               PROVE  ComputeInv'
    OBVIOUS
  <2>1. CASE ProcessStep
    BY <2>1, ClaimKeeps, CurrentRuntimeKeeps, BindingsKeep, ApplyRuntimeKeeps,
       ObserveRuntimeKeeps, SavePodsKeeps, DeleteRuntimeKeeps, ObserveAbsenceKeeps, SealKeeps, ReleaseQuotaKeeps,
       AdvanceKeeps, RetryKeeps, ClaimCloseKeeps, CloseScopeKeeps, CompleteKeeps,
       LoadReportKeeps, SaveReportKeeps, SendKeeps
    DEF ProcessStep
  <2>2. CASE \E p \in Payloads : PrepareCreate(p) \/ CreateService(p)
    BY <2>2, PrepareCreateKeeps, CreateServiceKeeps
  <2>3. CASE \E d \in Deletes, p \in Payloads : DeleteFirst(d, p) \/ DeleteService(d, p)
    BY <2>3, DeleteFirstKeeps, DeleteServiceKeeps
  <2>4. CASE \E kind \in {"start", "stop", "restart", "update"} : Command(kind)
    BY <2>4, CommandKeeps
  <2>5. CASE PodStarts \/ PodEnds \/ Vanish
    BY <2>5, ClusterKeeps
  <2>6. CASE LeaseLapses \/ RetryDue \/ LeaseOutlived
    BY <2>6, TimeKeeps
  <2>7. CASE CallFails \/ Crash
    BY <2>7, FailuresKeep
  <2>8. CASE UNCHANGED managedVars
    BY <2>8, CommandRecorded DEF managedVars, commands, work
  <2> QED
    BY <2>1, <2>2, <2>3, <2>4, <2>5, <2>6, <2>7, <2>8 DEF ManagedNext
<1> QED
  BY <1>1, <1>2, PTL DEF ManagedSpec

\* Once Governance was told of a release, or a DELETE that came first was closed,
\* neither workload objects nor pods are left, and nothing brings them back:
\* whatever calls, leases and operations were under way.
THEOREM ReleasesHoldNothing == ManagedSpec => []ReleasedHoldsNothing
<1>1. ComputeInv => ReleasedHoldsNothing
  <2> SUFFICES ASSUME ComputeInv, NEW d \in Deletes, d \in told \/ closed[d].state = "complete"
               PROVE  runtime = "absent" /\ pods = {}
    BY DEF ReleasedHoldsNothing
  <2>1. Over
    BY DEF ComputeInv, CloseFits, Reported, Over
  <2> QED
    BY <2>1 DEF Over, ComputeInv, Untouched, OperationFits, NothingRuns
<1> QED
  BY <1>1, ComputeInvariance, PTL

\* Governance refunds only on a saved report of the one DELETE of the resource,
\* and the report names every pod that was ever recorded.
THEOREM RefundsAreProven == ManagedSpec => []RefundIsProven
<1>1. ComputeInv => RefundIsProven
  BY DEF ComputeInv, CloseFits, Reported, RefundIsProven
<1> QED
  BY <1>1, ComputeInvariance, PTL

=============================================================================
