---------------------------- MODULE Materializer ----------------------------
(***************************************************************************)
(* The model files of one service (internal/data/model/materializer.go and *)
(* download_bundle.py): for each generation a volume claim, a Secret with  *)
(* the download address and a Job whose pod fills the claim.  EnsureModel  *)
(* is called until it reports the files of the generation ready;           *)
(* CleanupModel removes those of all generations when the service goes.    *)
(*                                                                         *)
(* One process makes the calls, one after the other.  Kubernetes, the      *)
(* downloader and an operator who deletes a claim act between any two of   *)
(* its requests, and a call may end at any of them.                        *)
(***************************************************************************)
EXTENDS Naturals, Sequences

CONSTANTS
    MaxGen,       \* bound: generations of the service
    MaxUID,       \* bound: claims created
    MaxFaults,    \* bound: failed downloads, calls cut short, losses and upgrades
    MaxLosses,    \* bound: claims deleted by an operator
    MaxUpgrades   \* bound: restarts with another download image or script

ASSUME MaterializerBounds ==
    /\ MaxGen \in Nat \ {0} /\ MaxUID \in Nat \ {0}
    /\ MaxFaults \in Nat /\ MaxLosses \in Nat /\ MaxUpgrades \in Nat

Generations == 1 .. MaxGen

VARIABLES
    gen,       \* desired_generation
    closing,   \* a delete was accepted
    ready,     \* generations EnsureModel reported ready
    cleaned,   \* CleanupModel returned without an error
    job,       \* the download Job: state, UID of the claim, implementation
    claim,     \* the volume claim: state, UID, files in it
    secret,    \* the Secret with the download address
    pod,       \* the pod of the Job
    stray,     \* pods that a deleted Job left behind
    pc,        \* where the call is
    at,        \* the generation it is about, or the kind of object
    missing,   \* EnsureModel found no Job
    uid,       \* the claim it found or created
    listed,    \* objects CleanupModel is going to delete
    uids, impl, faults, losses

service == <<gen, closing, ready, cleaned>>
objects == <<job, claim, secret, pod, stray>>
call == <<pc, at, missing, uid, listed>>
env == <<uids, impl, faults, losses>>
vars == <<service, objects, call, env>>

NoJob == [st |-> "absent", uid |-> 0, impl |-> 0]
NoClaim == [st |-> "absent", uid |-> 0, files |-> "none"]

Init ==
    /\ gen = 1 /\ closing = FALSE /\ ready = {} /\ cleaned = FALSE
    /\ job = [g \in Generations |-> NoJob]
    /\ claim = [g \in Generations |-> NoClaim]
    /\ secret = [g \in Generations |-> "absent"]
    /\ pod = [g \in Generations |-> "absent"]
    /\ stray = [g \in Generations |-> "absent"]
    /\ pc = "idle" /\ at = 0 /\ missing = FALSE /\ uid = 0 /\ listed = {}
    /\ uids = 0 /\ impl = 0 /\ faults = 0 /\ losses = 0

Goto(label) == pc' = label

\* The call ends, with whatever result.
Return ==
    /\ pc' = "idle" /\ at' = 0 /\ missing' = FALSE /\ uid' = 0 /\ listed' = {}

-----------------------------------------------------------------------------
(* The operations that make the calls *)

\* An update or restart is accepted once the operation before it is over.
NewGeneration ==
    /\ gen < MaxGen /\ ~closing
    /\ gen \in ready /\ pc = "idle"
    /\ gen' = gen + 1
    /\ UNCHANGED <<closing, ready, cleaned, objects, call, env>>

\* A delete is accepted at any time.
Close ==
    /\ ~closing
    /\ closing' = TRUE
    /\ UNCHANGED <<gen, ready, cleaned, objects, call, env>>

\* CurrentRuntime and the catalog have answered.
EnsureBegin ==
    /\ pc = "idle" /\ ~closing /\ gen \notin ready
    /\ Goto("job") /\ at' = gen
    /\ UNCHANGED <<service, objects, missing, uid, listed, env>>

CleanupBegin ==
    /\ pc = "idle" /\ closing /\ ~cleaned
    /\ Goto("list") /\ at' = 1
    /\ UNCHANGED <<service, objects, missing, uid, listed, env>>

-----------------------------------------------------------------------------
(* EnsureModel *)

\* The Job decides how the call goes on; one that is going or was made by
\* another implementation is an error.
GetJob ==
    LET j == job[at] IN
    /\ pc = "job"
    /\ IF j.st \in {"orphaning", "ending"} \/ (j.st # "absent" /\ j.impl # impl)
       THEN Return
       ELSE /\ Goto(CASE j.st = "complete" -> "verify"
                      [] j.st = "failed" -> "reset_job"
                      [] OTHER -> "claim")
            /\ missing' = (j.st = "absent")
            /\ UNCHANGED <<at, uid, listed>>
    /\ UNCHANGED <<service, objects, env>>

\* Mutant: any bound claim will do.
VerifiedClaimAny(g) == claim[g].st = "bound"

\* The claim is the one the Job was made for.
VerifiedClaim(g) == claim[g].st = "bound" /\ claim[g].uid = job[g].uid

VerifyClaim ==
    /\ pc = "verify"
    /\ ready' = IF VerifiedClaim(at) THEN ready \cup {at} ELSE ready
    /\ Return
    /\ UNCHANGED <<gen, closing, cleaned, objects, env>>

EnsureClaim ==
    /\ pc = "claim"
    /\ \/ /\ claim[at].st = "absent" /\ uids < MaxUID
          /\ uids' = uids + 1
          /\ claim' = [claim EXCEPT ![at] =
                         [st |-> "pending", uid |-> uids + 1, files |-> "none"]]
          /\ uid' = uids + 1
          /\ Goto("secret") /\ UNCHANGED <<at, missing, listed>>
       \/ /\ claim[at].st \in {"pending", "bound"}
          /\ uid' = claim[at].uid
          /\ Goto("secret") /\ UNCHANGED <<at, missing, listed, claim, uids>>
       \/ /\ claim[at].st = "ending"
          /\ Return /\ UNCHANGED <<claim, uids>>
    /\ UNCHANGED <<service, job, secret, pod, stray, impl, faults, losses>>

\* A new download address every time.
EnsureSecret ==
    /\ pc = "secret"
    /\ IF secret[at] = "ending"
       THEN Return /\ UNCHANGED secret
       ELSE /\ secret' = [secret EXCEPT ![at] = "live"]
            /\ IF missing THEN Goto("create") /\ UNCHANGED <<at, missing, uid, listed>> ELSE Return
    /\ UNCHANGED <<service, job, claim, pod, stray, env>>

JobFor(u) == [st |-> "running", uid |-> u, impl |-> impl]

CreateJob ==
    /\ pc = "create"
    /\ job' = IF job[at].st = "absent" THEN [job EXCEPT ![at] = JobFor(uid)] ELSE job
    /\ Return
    /\ UNCHANGED <<service, claim, secret, pod, stray, env>>

\* Mutant: the failed Job itself is kept.
ResetJobKept ==
    /\ pc = "reset_job"
    /\ Goto("reset_claim")
    /\ UNCHANGED <<service, objects, at, missing, uid, listed, env>>

\* resetFailedMaterialization deletes the Job, the claim and the Secret.  The
\* Job is deleted without a propagation policy: its pods may stay.
ResetJob ==
    /\ pc = "reset_job"
    /\ job' = [job EXCEPT ![at].st = "orphaning"]
    /\ Goto("reset_claim")
    /\ UNCHANGED <<service, claim, secret, pod, stray, at, missing, uid, listed, env>>

Ended(st) == IF st = "absent" THEN "absent" ELSE "ending"

ResetClaim ==
    /\ pc = "reset_claim"
    /\ claim' = [claim EXCEPT ![at].st = Ended(@)]
    /\ Goto("reset_secret")
    /\ UNCHANGED <<service, job, secret, pod, stray, at, missing, uid, listed, env>>

ResetSecret ==
    /\ pc = "reset_secret"
    /\ secret' = [secret EXCEPT ![at] = Ended(@)]
    /\ Return
    /\ UNCHANGED <<service, job, claim, pod, stray, env>>

EnsureStep ==
    \/ GetJob \/ VerifyClaim \/ EnsureClaim \/ EnsureSecret \/ CreateJob
    \/ ResetJob \/ ResetClaim \/ ResetSecret

-----------------------------------------------------------------------------
(* CleanupModel *)

\* The order in which the kinds are listed, deleted and listed again
Kinds == <<"job", "pod", "claim", "secret">>

\* materializationListOptions selects by service: all generations
Found(kind) ==
    {<<kind, g>> : g \in {h \in Generations :
        CASE kind = "job" -> job[h].st # "absent"
          [] kind = "pod" -> pod[h] # "absent" \/ stray[h] # "absent"
          [] kind = "claim" -> claim[h].st # "absent"
          [] kind = "secret" -> secret[h] # "absent"}}

\* Mutant: only the Job's own pods are listed, not those of a Job that is gone.
ListedOwnPods(kind) ==
    IF kind = "pod" THEN {o \in Found(kind) : job[o[2]].st # "absent"} ELSE Found(kind)

\* The owned objects among those found.
Listed(kind) == Found(kind)

List ==
    /\ pc = "list"
    /\ listed' = listed \cup Listed(Kinds[at])
    /\ IF at < Len(Kinds) THEN at' = at + 1 /\ UNCHANGED pc ELSE Goto("delete") /\ at' = 1
    /\ UNCHANGED <<service, objects, missing, uid, env>>

\* deleteMaterializationObject; a Job goes after its pods.
Remove(o) ==
    LET g == o[2] IN
    CASE o[1] = "job" ->
            /\ job' = [job EXCEPT ![g].st = Ended(@)]
            /\ UNCHANGED <<claim, secret, pod, stray>>
      [] o[1] = "pod" ->
            /\ pod' = [pod EXCEPT ![g] = Ended(@)]
            /\ stray' = [stray EXCEPT ![g] = Ended(@)]
            /\ UNCHANGED <<job, claim, secret>>
      [] o[1] = "claim" ->
            /\ claim' = [claim EXCEPT ![g].st = Ended(@)]
            /\ UNCHANGED <<job, secret, pod, stray>>
      [] o[1] = "secret" ->
            /\ secret' = [secret EXCEPT ![g] = Ended(@)]
            /\ UNCHANGED <<job, claim, pod, stray>>

Delete ==
    LET now == {o \in listed : o[1] = Kinds[at]} IN
    /\ pc = "delete"
    /\ \/ \E o \in now :
            /\ Remove(o)
            /\ listed' = listed \ {o}
            /\ UNCHANGED <<pc, at>>
       \/ /\ now = {}
          /\ IF at < Len(Kinds) THEN at' = at + 1 /\ UNCHANGED pc ELSE Goto("absent") /\ at' = 1
          /\ UNCHANGED <<objects, listed>>
    /\ UNCHANGED <<service, missing, uid, env>>

\* Mutant: the deletions were asked for, which is taken as enough.
StillThereNever(kind) == FALSE

StillThere(kind) == Found(kind) # {}

\* ensureMaterializationAbsent
Absent ==
    /\ pc = "absent"
    /\ IF StillThere(Kinds[at]) \/ at = Len(Kinds)
       THEN /\ Return
            /\ cleaned' = ~StillThere(Kinds[at])
       ELSE at' = at + 1 /\ UNCHANGED <<pc, missing, uid, listed, cleaned>>
    /\ UNCHANGED <<gen, closing, ready, objects, env>>

CleanupStep == List \/ Delete \/ Absent

-----------------------------------------------------------------------------
(* Kubernetes, the downloader, the operator *)

\* The pod of a Job starts when the claim it names can be mounted.
PodStarts(g) ==
    /\ job[g].st = "running" /\ pod[g] = "absent"
    /\ claim[g].st \in {"pending", "bound"} /\ secret[g] = "live"
    /\ pod' = [pod EXCEPT ![g] = "running"]
    /\ claim' = [claim EXCEPT ![g].st = "bound"]
    /\ UNCHANGED <<service, job, secret, stray, call, env>>

\* A storage class may bind a claim before anyone uses it.
ClaimBinds(g) ==
    /\ claim[g].st = "pending"
    /\ claim' = [claim EXCEPT ![g].st = "bound"]
    /\ UNCHANGED <<service, job, secret, pod, stray, call, env>>

\* download_bundle.py renames the verified directory into place as its last
\* step; what an earlier attempt verified is taken over.
Downloaded(g) ==
    /\ pod[g] = "running" /\ job[g].st = "running"
    /\ pod' = [pod EXCEPT ![g] = "done"]
    /\ job' = [job EXCEPT ![g].st = "complete"]
    /\ claim' = [claim EXCEPT ![g].files = "verified"]
    /\ UNCHANGED <<service, secret, stray, call, env>>

\* The Job gives up, before or after the files were in place.
DownloadFails(g) ==
    /\ pod[g] = "running" /\ job[g].st = "running"
    /\ faults < MaxFaults /\ faults' = faults + 1
    /\ pod' = [pod EXCEPT ![g] = "done"]
    /\ job' = [job EXCEPT ![g].st = "failed"]
    /\ \E files \in {claim[g].files, "verified"} :
        claim' = [claim EXCEPT ![g].files = files]
    /\ UNCHANGED <<service, secret, stray, call, uids, impl, losses>>

\* A Job deleted without a propagation policy may leave its pod behind; one
\* deleted in the foreground waits for it.
JobVanishes(g) ==
    /\ \/ /\ job[g].st = "orphaning"
          /\ pod' = [pod EXCEPT ![g] = "absent"]
          /\ \/ UNCHANGED stray
             \/ pod[g] # "absent" /\ stray' = [stray EXCEPT ![g] = pod[g]]
       \/ /\ job[g].st = "ending" /\ pod[g] = "absent"
          /\ UNCHANGED <<pod, stray>>
    /\ job' = [job EXCEPT ![g] = NoJob]
    /\ UNCHANGED <<service, claim, secret, call, env>>

PodVanishes(g) ==
    /\ \/ /\ pod[g] = "ending" \/ (job[g].st = "ending" /\ pod[g] # "absent")
          /\ pod' = [pod EXCEPT ![g] = "absent"] /\ UNCHANGED stray
       \/ /\ stray[g] = "ending"
          /\ stray' = [stray EXCEPT ![g] = "absent"] /\ UNCHANGED pod
    /\ UNCHANGED <<service, job, claim, secret, call, env>>

\* A claim waits for the pod that uses it.
ClaimVanishes(g) ==
    /\ claim[g].st = "ending" /\ pod[g] \notin {"running", "ending"}
    /\ claim' = [claim EXCEPT ![g] = NoClaim]
    /\ UNCHANGED <<service, job, secret, pod, stray, call, env>>

SecretVanishes(g) ==
    /\ secret[g] = "ending"
    /\ secret' = [secret EXCEPT ![g] = "absent"]
    /\ UNCHANGED <<service, job, claim, pod, stray, call, env>>

\* Deletions end.
Vanish(g) == JobVanishes(g) \/ PodVanishes(g) \/ ClaimVanishes(g) \/ SecretVanishes(g)

\* An operator deletes a claim.
Lose(g) ==
    /\ claim[g].st \in {"pending", "bound"} /\ losses < MaxLosses /\ faults < MaxFaults
    /\ losses' = losses + 1 /\ faults' = faults + 1
    /\ claim' = [claim EXCEPT ![g].st = "ending"]
    /\ UNCHANGED <<service, job, secret, pod, stray, call, uids, impl>>

\* A request fails or the process stops.
Cut ==
    /\ pc # "idle" /\ faults < MaxFaults
    /\ faults' = faults + 1
    /\ Return
    /\ UNCHANGED <<service, objects, uids, impl, losses>>

\* The process is replaced by a release with another image or script.
Upgrade ==
    /\ impl < MaxUpgrades /\ faults < MaxFaults
    /\ impl' = impl + 1 /\ faults' = faults + 1
    /\ Return
    /\ UNCHANGED <<service, objects, uids, losses>>

-----------------------------------------------------------------------------
ProcessStep == EnsureBegin \/ EnsureStep \/ CleanupBegin \/ CleanupStep

Next ==
    \/ NewGeneration \/ Close \/ ProcessStep \/ Cut \/ Upgrade
    \/ \E g \in Generations :
        PodStarts(g) \/ ClaimBinds(g) \/ Downloaded(g) \/ DownloadFails(g) \/ Vanish(g) \/ Lose(g)

Spec == Init /\ [][Next]_vars

\* The runner calls again until the step succeeds; pods run and deletions end.
FairSpec ==
    /\ Spec
    /\ WF_vars(ProcessStep)
    /\ \A g \in Generations :
        WF_vars(PodStarts(g)) /\ WF_vars(Downloaded(g)) /\ WF_vars(Vanish(g))

-----------------------------------------------------------------------------
(* Properties *)

SecretStates == {"absent", "live", "ending"}
ClaimStates == {"absent", "pending", "bound", "ending"}
PodStates == {"absent", "running", "done", "ending"}
JobStates == {"absent", "running", "complete", "failed", "orphaning", "ending"}

TypeOK ==
    /\ gen \in Generations /\ closing \in BOOLEAN /\ cleaned \in BOOLEAN
    /\ ready \subseteq Generations
    /\ job \in [Generations -> [st : JobStates, uid : 0 .. MaxUID, impl : 0 .. MaxUpgrades]]
    /\ claim \in [Generations -> [st : ClaimStates, uid : 0 .. MaxUID, files : {"none", "verified"}]]
    /\ \A g \in Generations : job[g].st # "absent" => job[g].uid # 0
    /\ secret \in [Generations -> SecretStates]
    /\ pod \in [Generations -> PodStates] /\ stray \in [Generations -> PodStates]
    /\ at \in Nat /\ missing \in BOOLEAN /\ uid \in 0 .. MaxUID
    /\ uids \in 0 .. MaxUID /\ impl \in 0 .. MaxUpgrades
    /\ faults \in 0 .. MaxFaults /\ losses \in 0 .. MaxLosses

\* EnsureModel reports a generation ready only when the claim its runtime will
\* mount holds the verified files, also when the claim was deleted and made
\* again while the Job ran or after it completed ("verified model PVC is
\* unavailable or replaced").
ReadyIsVerified ==
    [][\A g \in ready' \ ready : claim[g].st = "bound" /\ claim[g].files = "verified"]_vars

\* After CleanupModel returned without an error no Job, pod, claim or Secret of
\* any generation is left or comes back, whatever earlier calls left half done
\* ("a successful Delete may only mark an object terminating").
CleanedLeavesNothing ==
    cleaned => \A i \in 1 .. Len(Kinds) : Found(Kinds[i]) = {}

\* A Job of the generation was made by another image or script: EnsureModel
\* refuses it and does not replace it.
Outdated(g) == job[g].st # "absent" /\ job[g].impl # impl

\* The instance has no UID left for the claim the call needs.
Exhausted == pc = "claim" /\ claim[at].st = "absent" /\ uids = MaxUID

\* A generation's files arrive although downloads fail and calls are cut short
\* in the middle of a reset ("model download Job failed; reset for retry"),
\* unless another generation or the cleanup takes over, the Job is outdated or
\* an operator deleted a claim.
ModelArrives ==
    \A g \in Generations :
        (gen = g) ~> \/ g \in ready \/ closing \/ gen # g
                     \/ Outdated(g) \/ losses > 0 \/ Exhausted

\* A cleanup ends, also when Jobs left pods behind.
CleanupEnds == closing ~> (cleaned \/ Exhausted)

=============================================================================
