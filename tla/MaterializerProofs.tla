------------------------- MODULE MaterializerProofs -------------------------
(***************************************************************************)
(* Readiness and cleanup of model files for any number of generations,     *)
(* claims, failures, lost claims and releases.                             *)
(***************************************************************************)
EXTENDS Materializer, TLAPS

\* Some leaves take longer than the default timeouts on a slow machine.
USE SMTT(15), ZenonT(30)

Ensuring == {"job", "verify", "claim", "secret", "create", "reset_job", "reset_claim", "reset_secret"}
Cleaning == {"list", "delete", "absent"}

\* A call knows what it is about.
CallSound ==
    /\ pc \in {"idle"} \cup Ensuring \cup Cleaning
    /\ pc \in Ensuring => at \in Generations
    /\ pc \in Cleaning => at \in 1 .. 4 /\ closing
    /\ pc \in {"secret", "create"} => uid >= 1
    /\ pc = "verify" => job[at].st = "complete"
    /\ pc = "reset_job" => job[at].st = "failed"
    /\ listed \subseteq {"job", "pod", "claim", "secret"} \X Generations
    /\ uid <= uids

\* UIDs are never used twice, and a Job that completed filled the claim it was
\* made for.
FilesSound ==
    \A g \in Generations :
        /\ claim[g].uid <= uids /\ job[g].uid <= uids
        /\ claim[g].st # "absent" => claim[g].uid >= 1
        /\ job[g].st = "complete" /\ claim[g].uid = job[g].uid => claim[g].files = "verified"

\* The first n kinds of objects are gone, in the order they are looked for.
Clear(n) ==
    \A g \in Generations :
        /\ n >= 1 => job[g].st = "absent"
        /\ n >= 2 => pod[g] = "absent" /\ stray[g] = "absent"
        /\ n >= 3 => claim[g].st = "absent"
        /\ n >= 4 => secret[g] = "absent"

\* What the second look of a cleanup has found gone stays gone.
CleanSound ==
    /\ cleaned => closing /\ pc = "idle" /\ Clear(4)
    /\ pc = "absent" => Clear(at - 1)

\* The parts of the type invariant: the objects, the numbers, the flags.
ObjectsOK ==
    /\ job \in [Generations -> [st : JobStates, uid : 0 .. MaxUID, impl : 0 .. MaxUpgrades]]
    /\ claim \in [Generations -> [st : ClaimStates, uid : 0 .. MaxUID, files : {"none", "verified"}]]
    /\ \A g \in Generations : job[g].st # "absent" => job[g].uid # 0
    /\ secret \in [Generations -> SecretStates]
    /\ pod \in [Generations -> PodStates] /\ stray \in [Generations -> PodStates]

NumbersOK ==
    /\ gen \in Generations /\ ready \subseteq Generations
    /\ at \in Nat /\ uid \in 0 .. MaxUID
    /\ uids \in 0 .. MaxUID /\ impl \in 0 .. MaxUpgrades
    /\ faults \in 0 .. MaxFaults /\ losses \in 0 .. MaxLosses

FlagsOK == closing \in BOOLEAN /\ cleaned \in BOOLEAN /\ missing \in BOOLEAN

MInv == ObjectsOK /\ NumbersOK /\ FlagsOK /\ CallSound /\ FilesSound /\ CleanSound

-----------------------------------------------------------------------------
\* The parts make the type invariant.
LEMMA TypeParts == ObjectsOK /\ NumbersOK /\ FlagsOK => TypeOK
BY DEF ObjectsOK, NumbersOK, FlagsOK, TypeOK

\* What the four lists show.
LEMMA FoundKinds ==
    /\ Found("job") = {} <=> \A g \in Generations : job[g].st = "absent"
    /\ Found("pod") = {} <=> \A g \in Generations : pod[g] = "absent" /\ stray[g] = "absent"
    /\ Found("claim") = {} <=> \A g \in Generations : claim[g].st = "absent"
    /\ Found("secret") = {} <=> \A g \in Generations : secret[g] = "absent"
<1>1. Found("job") = {} <=> \A g \in Generations : job[g].st = "absent"
  BY DEF Found
<1>2. Found("pod") = {} <=> \A g \in Generations : pod[g] = "absent" /\ stray[g] = "absent"
  BY DEF Found
<1>3. Found("claim") = {} <=> \A g \in Generations : claim[g].st = "absent"
  BY DEF Found
<1>4. Found("secret") = {} <=> \A g \in Generations : secret[g] = "absent"
  BY DEF Found
<1> QED BY <1>1, <1>2, <1>3, <1>4

\* Whatever is listed is an object of some generation.
LEMMA FoundType ==
  ASSUME NEW kind \in {"job", "pod", "claim", "secret"}
  PROVE  Found(kind) \subseteq {"job", "pod", "claim", "secret"} \X Generations
<1>1. \A o \in Found(kind) : \E g \in Generations : o = <<kind, g>>
  BY Zenon DEF Found
<1> QED BY <1>1

\* The order of the kinds.
LEMMA KindsOrder ==
    Len(Kinds) = 4 /\ Kinds[1] = "job" /\ Kinds[2] = "pod" /\ Kinds[3] = "claim" /\ Kinds[4] = "secret"
BY DEF Kinds

\* A fresh service satisfies the invariant.
LEMMA InitMInv == Init => MInv
<1> SUFFICES ASSUME Init PROVE MInv
  OBVIOUS
<1> USE DEF Init
<1>1. ObjectsOK
  BY MaterializerBounds DEF ObjectsOK, NoJob, NoClaim, JobStates, ClaimStates, SecretStates, PodStates
<1>2. NumbersOK
  BY MaterializerBounds DEF NumbersOK, Generations
<1>3. FlagsOK
  BY DEF FlagsOK
<1>4. CallSound /\ CleanSound
  BY DEF CallSound, CleanSound, Ensuring, Cleaning
<1>5. FilesSound
  BY DEF FilesSound, NoJob, NoClaim
<1> QED BY <1>1, <1>2, <1>3, <1>4, <1>5 DEF MInv

\* A step that leaves the objects and the supply of UIDs alone preserves what
\* is said of them.
LEMMA SameObjects ==
  ASSUME MInv, UNCHANGED <<objects, uids>>
  PROVE  /\ ObjectsOK' /\ FilesSound'
         /\ \A n \in Nat : Clear(n) => Clear(n)'
         /\ job' = job
BY DEF MInv, ObjectsOK, FilesSound, Clear, objects

\* The end of a call, and the steps that only start one, preserve the
\* invariant.
LEMMA CallMInv ==
  ASSUME MInv, NewGeneration \/ Close \/ EnsureBegin \/ CleanupBegin \/ Cut \/ Upgrade
  PROVE  MInv'
<1>1. CASE NewGeneration
  <2> USE <1>1 DEF MInv, NewGeneration, call, env
  <2>1. /\ ObjectsOK' /\ FilesSound' /\ job' = job
        /\ \A n \in Nat : Clear(n) => Clear(n)'
    BY SameObjects
  <2>3. NumbersOK'
    BY MaterializerBounds DEF NumbersOK, Generations
  <2>4. FlagsOK'
    BY DEF FlagsOK
  <2>5. CallSound'
    BY <2>1 DEF CallSound, NumbersOK, Ensuring, Cleaning
  <2>6. CleanSound'
    BY <2>1 DEF CleanSound, CallSound, Ensuring, Cleaning
  <2> QED BY <2>1, <2>3, <2>4, <2>5, <2>6
<1>2. CASE Close
  <2> USE <1>2 DEF MInv, Close, call, env
  <2>1. /\ ObjectsOK' /\ FilesSound' /\ job' = job
        /\ \A n \in Nat : Clear(n) => Clear(n)'
    BY SameObjects
  <2>3. NumbersOK'
    BY MaterializerBounds DEF NumbersOK, Generations
  <2>4. FlagsOK'
    BY DEF FlagsOK
  <2>5. CallSound'
    BY <2>1 DEF CallSound, NumbersOK, Ensuring, Cleaning
  <2>6. CleanSound'
    BY <2>1 DEF CleanSound, CallSound, Ensuring, Cleaning
  <2> QED BY <2>1, <2>3, <2>4, <2>5, <2>6
<1>3. CASE EnsureBegin
  <2> USE <1>3 DEF MInv, EnsureBegin, Goto, service, env
  <2>1. /\ ObjectsOK' /\ FilesSound' /\ job' = job
        /\ \A n \in Nat : Clear(n) => Clear(n)'
    BY SameObjects
  <2>3. NumbersOK'
    BY MaterializerBounds DEF NumbersOK, Generations
  <2>4. FlagsOK'
    BY DEF FlagsOK
  <2>5. CallSound'
    BY <2>1 DEF CallSound, NumbersOK, Ensuring, Cleaning
  <2>6. CleanSound'
    BY <2>1 DEF CleanSound, CallSound, Ensuring, Cleaning
  <2> QED BY <2>1, <2>3, <2>4, <2>5, <2>6
<1>4. CASE CleanupBegin
  <2> USE <1>4 DEF MInv, CleanupBegin, Goto, service, env
  <2>1. /\ ObjectsOK' /\ FilesSound' /\ job' = job
        /\ \A n \in Nat : Clear(n) => Clear(n)'
    BY SameObjects
  <2>3. NumbersOK'
    BY MaterializerBounds DEF NumbersOK, Generations
  <2>4. FlagsOK'
    BY DEF FlagsOK
  <2>5. CallSound'
    BY <2>1 DEF CallSound, NumbersOK, Ensuring, Cleaning
  <2>6. CleanSound'
    BY <2>1 DEF CleanSound, CallSound, Ensuring, Cleaning
  <2> QED BY <2>1, <2>3, <2>4, <2>5, <2>6
<1>5. CASE Cut
  <2> USE <1>5 DEF MInv, Cut, Return, service
  <2>1. /\ ObjectsOK' /\ FilesSound' /\ job' = job
        /\ \A n \in Nat : Clear(n) => Clear(n)'
    BY SameObjects
  <2>3. NumbersOK'
    BY MaterializerBounds DEF NumbersOK, Generations
  <2>4. FlagsOK'
    BY DEF FlagsOK
  <2>5. CallSound'
    BY <2>1 DEF CallSound, NumbersOK, Ensuring, Cleaning
  <2>6. CleanSound'
    BY <2>1 DEF CleanSound, CallSound, Ensuring, Cleaning
  <2> QED BY <2>1, <2>3, <2>4, <2>5, <2>6
<1>6. CASE Upgrade
  <2> USE <1>6 DEF MInv, Upgrade, Return, service
  <2>1. /\ ObjectsOK' /\ FilesSound' /\ job' = job
        /\ \A n \in Nat : Clear(n) => Clear(n)'
    BY SameObjects
  <2>3. NumbersOK'
    BY MaterializerBounds DEF NumbersOK, Generations
  <2>4. FlagsOK'
    BY DEF FlagsOK
  <2>5. CallSound'
    BY <2>1 DEF CallSound, NumbersOK, Ensuring, Cleaning
  <2>6. CleanSound'
    BY <2>1 DEF CleanSound, CallSound, Ensuring, Cleaning
  <2> QED BY <2>1, <2>3, <2>4, <2>5, <2>6
<1> QED BY <1>1, <1>2, <1>3, <1>4, <1>5, <1>6

\* The steps of EnsureModel preserve the invariant.
LEMMA EnsureMInv ==
  ASSUME MInv, EnsureStep
  PROVE  MInv'
<1>1. CASE GetJob
  <2> USE <1>1 DEF MInv, GetJob, Goto, Return, service, env
  <2>1. /\ ObjectsOK' /\ FilesSound' /\ job' = job
        /\ \A n \in Nat : Clear(n) => Clear(n)'
    BY SameObjects
  <2>3. NumbersOK'
    BY MaterializerBounds DEF NumbersOK, Generations
  <2>4. FlagsOK'
    BY DEF FlagsOK
  <2>5. CallSound'
    BY <2>1 DEF CallSound, NumbersOK, Ensuring, Cleaning
  <2>6. CleanSound'
    BY <2>1 DEF CleanSound, CallSound, Ensuring, Cleaning
  <2> QED BY <2>1, <2>3, <2>4, <2>5, <2>6
<1>2. CASE VerifyClaim
  <2> USE <1>2 DEF MInv, VerifyClaim, Return, env
  <2>1. /\ ObjectsOK' /\ FilesSound' /\ job' = job
        /\ \A n \in Nat : Clear(n) => Clear(n)'
    BY SameObjects
  <2>2. at \in Generations
    BY DEF CallSound, Ensuring
  <2>3. NumbersOK'
    BY <2>2, MaterializerBounds DEF NumbersOK, Generations
  <2>4. FlagsOK'
    BY DEF FlagsOK
  <2>5. CallSound'
    BY <2>1 DEF CallSound, NumbersOK, Ensuring, Cleaning
  <2>6. CleanSound'
    BY <2>1 DEF CleanSound, CallSound, Ensuring, Cleaning
  <2> QED BY <2>1, <2>3, <2>4, <2>5, <2>6
<1>3. CASE EnsureClaim
  <2> USE <1>3 DEF MInv, EnsureClaim, Goto, Return, service
  <2>1. at \in Generations /\ pc = "claim"
    BY DEF CallSound, Ensuring
  <2>2. FlagsOK'
    BY DEF FlagsOK
  <2>3. CleanSound'
    BY <2>1 DEF CleanSound, CallSound, Ensuring, Cleaning
  <2>4. CASE claim[at].st = "absent"
    <3>1. /\ uids < MaxUID /\ uids' = uids + 1 /\ uid' = uids + 1
          /\ claim' = [claim EXCEPT ![at] = [st |-> "pending", uid |-> uids + 1, files |-> "none"]]
          /\ pc' = "secret" /\ UNCHANGED <<at, missing, listed, job, secret, pod, stray>>
      BY <2>4
    <3>2. uids + 1 \in 0 .. MaxUID /\ uids \in Nat
      BY <3>1, MaterializerBounds DEF NumbersOK
    <3>3. NumbersOK'
      BY <3>1, <3>2 DEF NumbersOK
    <3>4. ObjectsOK'
      BY <2>1, <3>1, <3>2 DEF ObjectsOK, ClaimStates
    <3>5. CallSound'
      BY <2>1, <3>1, <3>2 DEF CallSound, Ensuring, Cleaning
    <3>6. FilesSound'
      <4> SUFFICES ASSUME NEW g \in Generations
                   PROVE  /\ claim'[g].uid <= uids' /\ job[g].uid <= uids'
                          /\ claim'[g].st # "absent" => claim'[g].uid >= 1
                          /\ job[g].st = "complete" /\ claim'[g].uid = job[g].uid => claim'[g].files = "verified"
        BY <3>1 DEF FilesSound
      <4>1. claim[g].uid \in Nat /\ job[g].uid \in Nat
        BY MaterializerBounds DEF ObjectsOK
      <4>2. CASE g = at
        BY <2>1, <3>1, <3>2, <4>1, <4>2 DEF FilesSound, ObjectsOK
      <4>3. CASE g # at
        BY <2>1, <3>1, <3>2, <4>1, <4>3 DEF FilesSound, ObjectsOK
      <4> QED BY <4>2, <4>3
    <3> QED BY <2>2, <2>3, <3>3, <3>4, <3>5, <3>6
  <2>5. CASE claim[at].st # "absent"
    <3>1. UNCHANGED <<objects, uids>> /\ ObjectsOK' /\ FilesSound'
      BY <2>5, SameObjects DEF objects
    <3>2. claim[at].uid \in 0 .. MaxUID /\ claim[at].uid <= uids /\ claim[at].uid >= 1
      BY <2>1, <2>5 DEF ObjectsOK, FilesSound
    <3>3. NumbersOK'
      BY <2>5, <3>2, MaterializerBounds DEF NumbersOK
    <3>4. CallSound'
      BY <2>1, <2>5, <3>2, <3>1, MaterializerBounds DEF CallSound, NumbersOK, Ensuring, Cleaning, objects
    <3> QED BY <2>2, <2>3, <3>1, <3>3, <3>4
  <2> QED BY <2>4, <2>5
<1>4. CASE EnsureSecret
  <2> USE <1>4 DEF MInv, EnsureSecret, Goto, Return, SecretStates, service, env
  <2>1. ObjectsOK'
    BY DEF ObjectsOK, NumbersOK, CallSound, Ensuring
  <2>2. FilesSound'
    BY DEF FilesSound, ObjectsOK, NumbersOK, CallSound, Ensuring
  <2>3. NumbersOK'
    BY MaterializerBounds DEF NumbersOK, Generations
  <2>4. FlagsOK'
    BY DEF FlagsOK
  <2>5. CallSound'
    BY DEF CallSound, NumbersOK, Ensuring, Cleaning
  <2>6. CleanSound'
    BY DEF CleanSound, CallSound, Ensuring, Cleaning, Clear
  <2> QED BY <2>1, <2>2, <2>3, <2>4, <2>5, <2>6
<1>5. CASE CreateJob
  <2> USE <1>5 DEF MInv, CreateJob, JobFor, Return, JobStates, service, env
  <2>1. ObjectsOK'
    BY DEF ObjectsOK, NumbersOK, CallSound, Ensuring
  <2>2. FilesSound'
    BY DEF FilesSound, ObjectsOK, NumbersOK, CallSound, Ensuring
  <2>3. NumbersOK'
    BY MaterializerBounds DEF NumbersOK, Generations
  <2>4. FlagsOK'
    BY DEF FlagsOK
  <2>5. CallSound'
    BY DEF CallSound, NumbersOK, Ensuring, Cleaning
  <2>6. CleanSound'
    BY DEF CleanSound, CallSound, Ensuring, Cleaning, Clear
  <2> QED BY <2>1, <2>2, <2>3, <2>4, <2>5, <2>6
<1>6. CASE ResetJob
  <2> USE <1>6 DEF MInv, ResetJob, Goto, JobStates, service, env
  <2>1. ObjectsOK'
    BY DEF ObjectsOK, NumbersOK, CallSound, Ensuring
  <2>2. FilesSound'
    BY DEF FilesSound, ObjectsOK, NumbersOK, CallSound, Ensuring
  <2>3. NumbersOK'
    BY MaterializerBounds DEF NumbersOK, Generations
  <2>4. FlagsOK'
    BY DEF FlagsOK
  <2>5. CallSound'
    BY DEF CallSound, NumbersOK, Ensuring, Cleaning
  <2>6. CleanSound'
    BY DEF CleanSound, CallSound, Ensuring, Cleaning, Clear
  <2> QED BY <2>1, <2>2, <2>3, <2>4, <2>5, <2>6
<1>7. CASE ResetClaim
  <2> USE <1>7 DEF MInv, ResetClaim, Ended, Goto, ClaimStates, service, env
  <2>1. ObjectsOK'
    BY DEF ObjectsOK, NumbersOK, CallSound, Ensuring
  <2>2. FilesSound'
    BY DEF FilesSound, ObjectsOK, NumbersOK, CallSound, Ensuring
  <2>3. NumbersOK'
    BY MaterializerBounds DEF NumbersOK, Generations
  <2>4. FlagsOK'
    BY DEF FlagsOK
  <2>5. CallSound'
    BY DEF CallSound, NumbersOK, Ensuring, Cleaning
  <2>6. CleanSound'
    BY DEF CleanSound, CallSound, Ensuring, Cleaning, Clear
  <2> QED BY <2>1, <2>2, <2>3, <2>4, <2>5, <2>6
<1>8. CASE ResetSecret
  <2> USE <1>8 DEF MInv, ResetSecret, Ended, Return, SecretStates, service, env
  <2>1. ObjectsOK'
    BY DEF ObjectsOK, NumbersOK, CallSound, Ensuring
  <2>2. FilesSound'
    BY DEF FilesSound, ObjectsOK, NumbersOK, CallSound, Ensuring
  <2>3. NumbersOK'
    BY MaterializerBounds DEF NumbersOK, Generations
  <2>4. FlagsOK'
    BY DEF FlagsOK
  <2>5. CallSound'
    BY DEF CallSound, NumbersOK, Ensuring, Cleaning
  <2>6. CleanSound'
    BY DEF CleanSound, CallSound, Ensuring, Cleaning, Clear
  <2> QED BY <2>1, <2>2, <2>3, <2>4, <2>5, <2>6
<1> QED BY <1>1, <1>2, <1>3, <1>4, <1>5, <1>6, <1>7, <1>8 DEF EnsureStep

\* Deleting an object only marks it.
LEMMA RemoveSound ==
  ASSUME MInv, NEW o, o[1] \in {"job", "pod", "claim", "secret"}, o[2] \in Generations,
         Remove(o), UNCHANGED env
  PROVE  ObjectsOK' /\ FilesSound'
<1> USE DEF MInv, Ended, env
<1>1. CASE o[1] = "job"
  <2>1. job' = [job EXCEPT ![o[2]].st = Ended(@)] /\ UNCHANGED <<claim, secret, pod, stray>>
    BY <1>1 DEF Remove
  <2>2. ObjectsOK'
    BY <2>1 DEF ObjectsOK, JobStates
  <2>3. FilesSound'
    BY <2>1 DEF FilesSound, ObjectsOK
  <2> QED BY <2>2, <2>3
<1>2. CASE o[1] = "pod"
  <2>1. /\ pod' = [pod EXCEPT ![o[2]] = Ended(@)] /\ stray' = [stray EXCEPT ![o[2]] = Ended(@)]
        /\ UNCHANGED <<job, claim, secret>>
    BY <1>2 DEF Remove
  <2>2. pod' \in [Generations -> PodStates] /\ stray' \in [Generations -> PodStates]
    BY <2>1 DEF ObjectsOK, PodStates
  <2>3. ObjectsOK' /\ FilesSound'
    BY <2>1, <2>2 DEF ObjectsOK, FilesSound
  <2> QED BY <2>3
<1>3. CASE o[1] = "claim"
  <2>1. claim' = [claim EXCEPT ![o[2]].st = Ended(@)] /\ UNCHANGED <<job, secret, pod, stray>>
    BY <1>3 DEF Remove
  <2>2. ObjectsOK'
    BY <2>1 DEF ObjectsOK, ClaimStates
  <2>3. FilesSound'
    BY <2>1 DEF FilesSound, ObjectsOK
  <2> QED BY <2>2, <2>3
<1>4. CASE o[1] = "secret"
  <2>1. secret' = [secret EXCEPT ![o[2]] = Ended(@)] /\ UNCHANGED <<job, claim, pod, stray>>
    BY <1>4 DEF Remove
  <2>2. ObjectsOK' /\ FilesSound'
    BY <2>1 DEF ObjectsOK, FilesSound, SecretStates
  <2> QED BY <2>2
<1> QED BY <1>1, <1>2, <1>3, <1>4

\* The steps of CleanupModel preserve the invariant.
LEMMA CleanupMInv ==
  ASSUME MInv, CleanupStep
  PROVE  MInv'
<1>1. CASE List
  <2> USE <1>1 DEF MInv, List, Goto, service, env
  <2>1. /\ ObjectsOK' /\ FilesSound' /\ job' = job
    BY SameObjects
  <2>2. at \in 1 .. 4 /\ closing /\ pc = "list"
    BY DEF CallSound, Cleaning
  <2>3. Kinds[at] \in {"job", "pod", "claim", "secret"}
    BY <2>2, KindsOrder
  <2>4. listed' \subseteq {"job", "pod", "claim", "secret"} \X Generations
    BY <2>3, FoundType DEF CallSound, Listed
  <2>5. NumbersOK'
    BY MaterializerBounds DEF NumbersOK, Generations
  <2>6. FlagsOK'
    BY DEF FlagsOK
  <2>7. at' \in 1 .. 4
    BY <2>2, KindsOrder
  <2>8. CallSound'
    BY <2>2, <2>4, <2>7 DEF CallSound, Ensuring, Cleaning
  <2>9. CleanSound'
    BY <2>2 DEF CleanSound
  <2> QED BY <2>1, <2>5, <2>6, <2>8, <2>9
<1>2. CASE Delete
  <2>1. at \in 1 .. 4 /\ closing /\ pc = "delete" /\ ~cleaned
    BY <1>2 DEF MInv, Delete, CallSound, Cleaning, CleanSound, FlagsOK
  <2>2. UNCHANGED <<service, missing, uid, env>>
    BY <1>2 DEF Delete
  <2>3. FlagsOK'
    BY <2>2 DEF MInv, FlagsOK, service
  <2>4. CASE \E o \in listed : Remove(o) /\ listed' = listed \ {o} /\ UNCHANGED <<pc, at>>
    <3>1. PICK o \in listed : Remove(o) /\ listed' = listed \ {o} /\ UNCHANGED <<pc, at>>
      BY <2>4
    <3>2. o[1] \in {"job", "pod", "claim", "secret"} /\ o[2] \in Generations
      BY DEF MInv, CallSound
    <3>3. ObjectsOK' /\ FilesSound'
      BY <2>2, <3>1, <3>2, RemoveSound
    <3>4. NumbersOK' /\ CallSound' /\ CleanSound'
      BY <2>1, <2>2, <3>1 DEF MInv, NumbersOK, CallSound, CleanSound, Ensuring, Cleaning, service, env
    <3> QED BY <2>3, <3>3, <3>4 DEF MInv
  <2>5. CASE /\ IF at < Len(Kinds) THEN at' = at + 1 /\ UNCHANGED pc ELSE pc' = "absent" /\ at' = 1
             /\ UNCHANGED <<objects, listed>>
    <3>1. ObjectsOK' /\ FilesSound'
      BY <2>2, <2>5, SameObjects DEF env
    <3>2. at' \in 1 .. 4 /\ (pc' = "delete" \/ (pc' = "absent" /\ at' = 1))
      BY <2>1, <2>5, KindsOrder
    <3>3. NumbersOK' /\ CallSound'
      BY <2>1, <2>2, <2>5, <3>2 DEF MInv, NumbersOK, CallSound, Ensuring, Cleaning, service, env
    <3>4. CleanSound'
      BY <2>1, <2>2, <3>2 DEF CleanSound, Clear, service
    <3> QED BY <2>3, <3>1, <3>3, <3>4 DEF MInv
  <2> QED BY <1>2, <2>4, <2>5 DEF Delete, Goto
<1>3. CASE Absent
  <2> USE <1>3 DEF MInv, Absent, StillThere, Return, env
  <2>1. /\ ObjectsOK' /\ FilesSound' /\ job' = job
        /\ \A n \in Nat : Clear(n) => Clear(n)'
    BY SameObjects
  <2>2. at \in 1 .. 4 /\ closing /\ pc = "absent" /\ Clear(at - 1)
    BY DEF CallSound, CleanSound, Cleaning
  <2>3. NumbersOK'
    BY MaterializerBounds DEF NumbersOK, Generations
  <2>4. FlagsOK'
    BY DEF FlagsOK
  <2>5. Found(Kinds[at]) = {} => Clear(at)
    BY <2>2, FoundKinds, KindsOrder DEF Clear
  <2>6. CASE Found(Kinds[at]) # {} \/ at = 4
    <3>1. pc' = "idle" /\ at' = 0 /\ uid' = 0 /\ listed' = {} /\ closing' = closing /\ uids' = uids
      BY <2>6, KindsOrder
    <3>2. cleaned' => Found(Kinds[at]) = {}
      BY <2>6, KindsOrder
    <3>3. cleaned' => Clear(4)
      BY <2>5, <2>6, <3>2
    <3>4. CallSound'
      BY <3>1 DEF CallSound, NumbersOK, Ensuring, Cleaning
    <3>5. CleanSound'
      BY <2>1, <2>2, <3>1, <3>3 DEF CleanSound
    <3> QED BY <2>1, <2>3, <2>4, <3>4, <3>5
  <2>7. CASE ~(Found(Kinds[at]) # {} \/ at = 4)
    <3>1. at' = at + 1 /\ at + 1 \in 1 .. 4 /\ UNCHANGED <<pc, missing, uid, listed, cleaned, closing>>
      BY <2>2, <2>7, KindsOrder
    <3>2. CallSound'
      BY <2>1, <2>2, <3>1 DEF CallSound, Ensuring, Cleaning
    <3>3. ~cleaned' /\ at' - 1 = at /\ at \in Nat
      BY <2>2, <3>1 DEF CleanSound
    <3>4. CleanSound'
      <4>1. \A g \in Generations :
              /\ at >= 1 => job'[g].st = "absent"
              /\ at >= 2 => pod'[g] = "absent" /\ stray'[g] = "absent"
              /\ at >= 3 => claim'[g].st = "absent"
              /\ at >= 4 => secret'[g] = "absent"
        BY <2>5, <2>7 DEF Clear, objects
      <4> QED BY <3>3, <4>1 DEF CleanSound, Clear
    <3> QED BY <2>1, <2>3, <2>4, <3>2, <3>4
  <2> QED BY <2>6, <2>7
<1> QED BY <1>1, <1>2, <1>3 DEF CleanupStep

\* What Kubernetes, the downloader and the operator do preserves the invariant.
LEMMA OutsideMInv ==
  ASSUME MInv, NEW g \in Generations,
         PodStarts(g) \/ ClaimBinds(g) \/ Downloaded(g) \/ DownloadFails(g) \/ Vanish(g) \/ Lose(g)
  PROVE  MInv'
<1>1. CASE PodStarts(g)
  <2> USE <1>1 DEF MInv, PodStarts, PodStates, ClaimStates, service, call, env
  <2>1. ObjectsOK'
    BY DEF ObjectsOK
  <2>2. FilesSound'
    BY DEF FilesSound, ObjectsOK, NumbersOK, CallSound, Ensuring
  <2>3. NumbersOK'
    BY MaterializerBounds DEF NumbersOK, Generations
  <2>4. FlagsOK'
    BY DEF FlagsOK
  <2>5. CallSound'
    BY DEF CallSound, NumbersOK, Ensuring, Cleaning
  <2>6. CleanSound'
    BY DEF CleanSound, CallSound, Ensuring, Cleaning, Clear
  <2> QED BY <2>1, <2>2, <2>3, <2>4, <2>5, <2>6
<1>2. CASE ClaimBinds(g)
  <2> USE <1>2 DEF MInv, ClaimBinds, ClaimStates, service, call, env
  <2>1. ObjectsOK'
    BY DEF ObjectsOK
  <2>2. FilesSound'
    BY DEF FilesSound, ObjectsOK, NumbersOK, CallSound, Ensuring
  <2>3. NumbersOK'
    BY MaterializerBounds DEF NumbersOK, Generations
  <2>4. FlagsOK'
    BY DEF FlagsOK
  <2>5. CallSound'
    BY DEF CallSound, NumbersOK, Ensuring, Cleaning
  <2>6. CleanSound'
    BY DEF CleanSound, CallSound, Ensuring, Cleaning, Clear
  <2> QED BY <2>1, <2>2, <2>3, <2>4, <2>5, <2>6
<1>3. CASE Downloaded(g)
  <2> USE <1>3 DEF MInv, Downloaded, JobStates, PodStates, service, call, env
  <2>1. ObjectsOK'
    BY DEF ObjectsOK
  <2>2. FilesSound'
    BY DEF FilesSound, ObjectsOK, NumbersOK, CallSound, Ensuring
  <2>3. NumbersOK'
    BY MaterializerBounds DEF NumbersOK, Generations
  <2>4. FlagsOK'
    BY DEF FlagsOK
  <2>5. CallSound'
    BY DEF CallSound, NumbersOK, Ensuring, Cleaning
  <2>6. CleanSound'
    BY DEF CleanSound, CallSound, Ensuring, Cleaning, Clear
  <2> QED BY <2>1, <2>2, <2>3, <2>4, <2>5, <2>6
<1>4. CASE DownloadFails(g)
  <2> USE <1>4 DEF MInv, DownloadFails, JobStates, PodStates, service, call, env
  <2>1. ObjectsOK'
    BY DEF ObjectsOK
  <2>2. FilesSound'
    BY DEF FilesSound, ObjectsOK, NumbersOK, CallSound, Ensuring
  <2>3. NumbersOK'
    BY MaterializerBounds DEF NumbersOK, Generations
  <2>4. FlagsOK'
    BY DEF FlagsOK
  <2>5. CallSound'
    BY DEF CallSound, NumbersOK, Ensuring, Cleaning
  <2>6. CleanSound'
    BY DEF CleanSound, CallSound, Ensuring, Cleaning, Clear
  <2> QED BY <2>1, <2>2, <2>3, <2>4, <2>5, <2>6
<1>5. CASE JobVanishes(g)
  <2> USE <1>5 DEF MInv, JobVanishes, JobStates, PodStates, NoJob, service, call, env
  <2>1. ObjectsOK'
    <3>1. job' = [job EXCEPT ![g] = NoJob] /\ UNCHANGED <<claim, secret>>
      OBVIOUS
    <3>2. pod' \in [Generations -> PodStates]
      BY DEF ObjectsOK
    <3>3. stray' \in [Generations -> PodStates]
      BY DEF ObjectsOK
    <3>4. job' \in [Generations -> [st : JobStates, uid : 0 .. MaxUID, impl : 0 .. MaxUpgrades]]
      BY <3>1, MaterializerBounds DEF ObjectsOK
    <3>5. \A h \in Generations : job'[h].st # "absent" => job'[h].uid # 0
      BY <3>1 DEF ObjectsOK
    <3> QED BY <3>1, <3>2, <3>3, <3>4, <3>5 DEF ObjectsOK
  <2>2. FilesSound'
    BY DEF FilesSound, ObjectsOK, NumbersOK, CallSound, Ensuring
  <2>3. NumbersOK'
    BY MaterializerBounds DEF NumbersOK, Generations
  <2>4. FlagsOK'
    BY DEF FlagsOK
  <2>5. CallSound'
    BY DEF CallSound, NumbersOK, Ensuring, Cleaning
  <2>6. CleanSound'
    BY DEF CleanSound, CallSound, Ensuring, Cleaning, Clear
  <2> QED BY <2>1, <2>2, <2>3, <2>4, <2>5, <2>6
<1>6. CASE PodVanishes(g)
  <2> USE <1>6 DEF MInv, PodVanishes, PodStates, service, call, env
  <2>1. ObjectsOK'
    <3>1. pod' \in [Generations -> PodStates]
      BY DEF ObjectsOK
    <3>2. stray' \in [Generations -> PodStates]
      BY DEF ObjectsOK
    <3> QED BY <3>1, <3>2 DEF ObjectsOK
  <2>2. FilesSound'
    BY DEF FilesSound, ObjectsOK, NumbersOK, CallSound, Ensuring
  <2>3. NumbersOK'
    BY MaterializerBounds DEF NumbersOK, Generations
  <2>4. FlagsOK'
    BY DEF FlagsOK
  <2>5. CallSound'
    BY DEF CallSound, NumbersOK, Ensuring, Cleaning
  <2>6. CleanSound'
    BY DEF CleanSound, CallSound, Ensuring, Cleaning, Clear
  <2> QED BY <2>1, <2>2, <2>3, <2>4, <2>5, <2>6
<1>7. CASE ClaimVanishes(g)
  <2> USE <1>7 DEF MInv, ClaimVanishes, ClaimStates, NoClaim, service, call, env
  <2>1. ObjectsOK'
    BY MaterializerBounds DEF ObjectsOK
  <2>2. FilesSound'
    BY DEF FilesSound, ObjectsOK, NumbersOK, CallSound, Ensuring
  <2>3. NumbersOK'
    BY MaterializerBounds DEF NumbersOK, Generations
  <2>4. FlagsOK'
    BY DEF FlagsOK
  <2>5. CallSound'
    BY DEF CallSound, NumbersOK, Ensuring, Cleaning
  <2>6. CleanSound'
    BY DEF CleanSound, CallSound, Ensuring, Cleaning, Clear
  <2> QED BY <2>1, <2>2, <2>3, <2>4, <2>5, <2>6
<1>8. CASE SecretVanishes(g)
  <2> USE <1>8 DEF MInv, SecretVanishes, SecretStates, service, call, env
  <2>1. ObjectsOK'
    BY DEF ObjectsOK
  <2>2. FilesSound'
    BY DEF FilesSound, ObjectsOK, NumbersOK, CallSound, Ensuring
  <2>3. NumbersOK'
    BY MaterializerBounds DEF NumbersOK, Generations
  <2>4. FlagsOK'
    BY DEF FlagsOK
  <2>5. CallSound'
    BY DEF CallSound, NumbersOK, Ensuring, Cleaning
  <2>6. CleanSound'
    BY DEF CleanSound, CallSound, Ensuring, Cleaning, Clear
  <2> QED BY <2>1, <2>2, <2>3, <2>4, <2>5, <2>6
<1>9. CASE Lose(g)
  <2> USE <1>9 DEF MInv, Lose, ClaimStates, service, call, env
  <2>1. ObjectsOK'
    BY DEF ObjectsOK
  <2>2. FilesSound'
    BY DEF FilesSound, ObjectsOK, NumbersOK, CallSound, Ensuring
  <2>3. NumbersOK'
    BY MaterializerBounds DEF NumbersOK, Generations
  <2>4. FlagsOK'
    BY DEF FlagsOK
  <2>5. CallSound'
    BY DEF CallSound, NumbersOK, Ensuring, Cleaning
  <2>6. CleanSound'
    BY DEF CleanSound, CallSound, Ensuring, Cleaning, Clear
  <2> QED BY <2>1, <2>2, <2>3, <2>4, <2>5, <2>6
<1> QED BY <1>1, <1>2, <1>3, <1>4, <1>5, <1>6, <1>7, <1>8, <1>9 DEF Vanish

\* The invariant is inductive.
THEOREM MaterializerInvariance == Spec => []MInv
<1>1. MInv /\ UNCHANGED vars => MInv'
  BY DEF MInv, ObjectsOK, NumbersOK, FlagsOK, CallSound, FilesSound, CleanSound, Clear, vars, service,
     objects, call, env
<1>2. MInv /\ [Next]_vars => MInv'
  BY <1>1, CallMInv, EnsureMInv, CleanupMInv, OutsideMInv DEF Next, ProcessStep
<1> QED BY InitMInv, <1>2, PTL DEF Spec

\* The objects and the calls keep their types.
THEOREM MaterializerTypeCorrect == Spec => []TypeOK
<1>1. MInv => TypeOK
  BY TypeParts DEF MInv
<1> QED BY MaterializerInvariance, <1>1, PTL

\* A cleanup that reported success left nothing behind, and nothing comes back.
THEOREM CleanupComplete == Spec => []CleanedLeavesNothing
<1>1. MInv => CleanedLeavesNothing
  BY FoundKinds, KindsOrder DEF MInv, CleanSound, Clear, CleanedLeavesNothing
<1> QED BY MaterializerInvariance, <1>1, PTL

\* Only a claim with verified files is ever reported ready.
THEOREM ReadinessVerified == Spec => ReadyIsVerified
<1> DEFINE Step == \A g \in ready' \ ready : claim[g].st = "bound" /\ claim[g].files = "verified"
<1>1. MInv /\ [Next]_vars => [Step]_vars
  <2> SUFFICES ASSUME MInv, Next PROVE Step
    OBVIOUS
  <2>1. CASE VerifyClaim
    <3>1. at \in Generations /\ job[at].st = "complete"
      BY <2>1 DEF VerifyClaim, MInv, CallSound, Ensuring
    <3>2. \A g \in ready' \ ready : g = at /\ VerifiedClaim(at)
      BY <2>1 DEF VerifyClaim
    <3> QED BY <3>1, <3>2 DEF VerifiedClaim, MInv, FilesSound
  <2>2. CASE ~VerifyClaim
    BY <2>2 DEF Next, ProcessStep, EnsureStep, CleanupStep, NewGeneration, Close, EnsureBegin,
       CleanupBegin, Cut, Upgrade, GetJob, EnsureClaim, EnsureSecret, CreateJob, ResetJob,
       ResetClaim, ResetSecret, List, Delete, Absent, PodStarts, ClaimBinds, Downloaded,
       DownloadFails, Vanish, JobVanishes, PodVanishes, ClaimVanishes, SecretVanishes, Lose, service
  <2> QED BY <2>1, <2>2
<1> QED BY MaterializerInvariance, <1>1, PTL DEF Spec, ReadyIsVerified

=============================================================================
