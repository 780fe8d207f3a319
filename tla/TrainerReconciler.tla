-------------------------- MODULE TrainerReconciler --------------------------
(***************************************************************************)
(* The Trainer operator: one reconcile worker that drives the objects of   *)
(* the cluster from the Trainer CR (internal/controller/                   *)
(* trainer_controller.go), the API server it talks to, the operand's pods, *)
(* and the people and platform operators who change things meanwhile.      *)
(*                                                                         *)
(* Every request to the API server that a pass makes is a step of its own  *)
(* (or a block of requests with no guard in between), so the environment   *)
(* may act between any two of them. The framework that runs the actions    *)
(* (odh-platform-utilities) is not in the repository: its steps are        *)
(* modelled from how NewReconciler configures them.                        *)
(***************************************************************************)
EXTENDS Dependencies

CONSTANTS
  Objects,       \* every object some build's manifests render
  Runtimes,      \* the ClusterTrainingRuntimes and TrainingRuntimes
  Deployments,   \* the operand's Deployments
  Webhooks,      \* the ValidatingWebhookConfigurations for runtimes
  CRDs,          \* the CRDs that serve the runtime kinds
  ImageStreams,  \* rendered on OpenShift only
  Kept,          \* kinds the operator's role may not delete
  Watched,       \* kinds NewReconciler watches
  Namespaced,    \* objects in the applications namespace
  Drifting,      \* objects somebody else may edit or delete
  Rank,          \* [Objects -> Nat], the position in the apply order
  Builds, FirstBuild,
  Manifests,     \* [Builds -> SUBSET Objects], what a build's templates render
  Clash,         \* <<b1, b2, o>>: o created by b1 has an immutable field b2 changes
  LegacyBuilds,  \* builds whose operand puts its finalizer on runtimes in use
  Described,     \* builds whose component_metadata.yaml can be read
  BootRelease,   \* [Builds -> releases], the first one it lists
  NoRelease,     \* the empty release
  Versions,      \* parsable platform versions
  BadVersion, NoVersion, NoConfigMap,  \* unparsable; none in the ConfigMap; no ConfigMap
  OpenShift, DepStates, FirstDeps,
  None, Drifted, Absent,
  MaxUid, MaxGen, MaxFaults, MaxEnv  \* bounds: CRs, spec changes, failed
                                     \* requests, acts of the environment

ASSUME ObjectsAssumption ==
  /\ Deployments \subseteq Objects /\ Runtimes \subseteq Objects
  /\ \A b \in Builds : Manifests[b] \subseteq Objects

ASSUME InitialAssumption ==
  FirstBuild \in Builds /\ FirstDeps \in DepStates /\ OpenShift \in BOOLEAN

ASSUME BoundsAssumption ==
  MaxUid \in Nat /\ MaxGen \in Nat \ {0} /\ MaxFaults \in Nat /\ MaxEnv \in Nat

\* Every build ships the operand, in Deployments that NewReconciler watches.
ASSUME OperandAssumption ==
  /\ Deployments # {} /\ Deployments \subseteq Watched \cap Namespaced
  /\ \A b \in Builds : Deployments \subseteq Manifests[b] \ ImageStreams

\* Every build ships a runtime CRD, which nobody else touches. Runtimes are not
\* watched.
ASSUME RuntimesAssumption ==
  /\ Runtimes \cap (Watched \cup CRDs) = {} /\ CRDs \cap Drifting = {}
  /\ \A b \in Builds : CRDs \cap (Manifests[b] \ ImageStreams) # {}

ASSUME VersionsAssumption == NoConfigMap \notin Versions

VARIABLES
  cr,       \* the Trainer CR in the API server
  seen,     \* the informer's copy of it
  objs,     \* [Objects -> object state or Absent]
  pods,     \* [Deployments -> the build whose pods serve, Drifted or None]
  ns,       \* the applications namespace exists
  deps,     \* the dependencies, see Dependencies.tla
  platform, \* platformVersion of the platform ConfigMap
  build,    \* the operator image running
  release,  \* Reconciler.Release, in memory
  queue,    \* the CR's key is in the work queue
  pc,       \* the pass's next step
  rr,       \* types.ReconciliationRequest of the pass
  faults,   \* failed requests so far
  env       \* acts of the environment so far

vars == <<cr, seen, objs, pods, ns, deps, platform, build, release, queue, pc,
          rr, faults, env>>

Releases == Versions \cup {BootRelease[b] : b \in Builds} \cup {NoRelease}

PlatformConfigs == Versions \cup {BadVersion, NoVersion, NoConfigMap}

\* Without readable metadata the reconciler starts with an empty release.
readBootstrapRelease(b) == IF b \in Described THEN BootRelease[b] ELSE NoRelease

Status == [ready : BOOLEAN, reason : Reasons \cup {None},
           platform : Versions \cup {None}, component : Builds \cup {None},
           gen : 0..MaxGen]

CRs == [exists : BOOLEAN, uid : 0..MaxUid, gen : 0..MaxGen,
        deleting : BOOLEAN, fin : BOOLEAN, st : Status]

ObjectStates == [rel : Releases, uid : 0..MaxUid, gen : 0..MaxGen,
                 by : Builds \cup {Drifted}, born : Builds,
                 legacy : BOOLEAN, term : BOOLEAN]

ASSUME AbsentAssumption == Absent \notin ObjectStates

Requests == [inst : CRs, release : Releases, res : SUBSET Objects, st : Status,
             avail : BOOLEAN, err : BOOLEAN]

NoStatus == [ready |-> FALSE, reason |-> None, platform |-> None,
             component |-> None, gen |-> 0]

NoCR(u) == [exists |-> FALSE, uid |-> u, gen |-> 0, deleting |-> FALSE,
            fin |-> FALSE, st |-> NoStatus]

\* The request between two passes.
NoRequest == [inst |-> NoCR(0), release |-> NoRelease, res |-> {},
              st |-> NoStatus, avail |-> FALSE, err |-> FALSE]

\* The collector never removes runtimes (WithUnremovables) nor what the role
\* may not delete.
Collectable == Objects \ (Runtimes \cup Kept)

\* The actions in the order NewReconciler registers them.
Following == [checkDependencies |-> "ensureNamespace",
              ensureNamespace   |-> "updateReleases",
              updateReleases    |-> "renderManifests",
              renderManifests   |-> "deploy",
              deploy            |-> "deployments",
              deployments       |-> "stripRuntimeFinalizers",
              stripRuntimeFinalizers |-> "gc",
              gc                |-> "status",
              cleanupStrip      |-> "cleanupDelete",
              cleanupDelete     |-> "cleanupCollect",
              cleanupCollect    |-> "removeFinalizer"]

LiveSteps == {"checkDependencies", "ensureNamespace", "updateReleases",
              "renderManifests", "deploy", "deployments",
              "stripRuntimeFinalizers", "gc", "status"}

CleanupSteps == {"cleanupStrip", "cleanupDelete", "cleanupCollect", "removeFinalizer"}

Init ==
  /\ cr = NoCR(0) /\ seen = cr
  /\ objs = [o \in Objects |-> Absent]
  /\ pods = [d \in Deployments |-> None]
  /\ ns = FALSE
  /\ deps = FirstDeps
  /\ platform = NoConfigMap
  /\ build = FirstBuild /\ release = readBootstrapRelease(FirstBuild)
  /\ queue = FALSE /\ pc = "idle"
  /\ rr = NoRequest
  /\ faults = 0 /\ env = 0
-----------------------------------------------------------------------------
(* Helpers of the steps.                                                    *)

\* Go on with the next action; stop the pass with an error, which the
\* framework still reports in the status; or give a finalizer pass up.
Proceed == pc' = Following[pc]

Fails(st) == pc' = "status" /\ rr' = [rr EXCEPT !.st = st, !.err = TRUE]

GiveUp == pc' = "idle" /\ queue' = TRUE /\ rr' = NoRequest

Fault == faults < MaxFaults /\ faults' = faults + 1

\* Mutant: the collector compares the reconciler's release, not the request's.
Stamped_LiveRelease(o, r) == /\ objs[o].rel = release
                             /\ objs[o].uid = r.inst.uid
                             /\ objs[o].gen = r.inst.gen

\* Mutant: the collector does not compare releases.
Stamped_NoRelease(o, r) == objs[o].uid = r.inst.uid /\ objs[o].gen = r.inst.gen

\* What the deploy action stamps on an object and the collector compares.
Stamped(o, r) == /\ objs[o].rel = r.release
                 /\ objs[o].uid = r.inst.uid
                 /\ objs[o].gen = r.inst.gen

\* Mutant: a Deployment's spec changes pass unnoticed.
Notifies_ExistenceOnly(o) == o \in Watched /\ (objs[o] = Absent) # (objs'[o] = Absent)

\* A watched object's change queues the CR; a Deployment's does only when its
\* existence or its spec changes (DefaultDeploymentPredicate).
Notifies(o) ==
  /\ o \in Watched
  /\ IF o \in Deployments
       THEN \/ (objs[o] = Absent) # (objs'[o] = Absent)
            \/ objs[o] # Absent /\ objs'[o] # Absent /\ objs[o].by # objs'[o].by
       ELSE objs[o] # objs'[o]

Changed == queue' = (queue \/ \E o \in Objects : Notifies(o))

\* An API server with the webhook configuration but no operand pod to answer
\* rejects every create and update of a runtime (failurePolicy: Fail).
WebhookDown == /\ \E w \in Webhooks : objs[w] # Absent
               /\ \A d \in Deployments : pods[d] = None

RuntimeAPI == \E c \in CRDs : objs[c] # Absent

\* A delete request: an object with a finalizer stays, terminating.
Deleted(o) == IF objs[o] # Absent /\ objs[o].legacy
                THEN [objs[o] EXCEPT !.term = TRUE] ELSE Absent
-----------------------------------------------------------------------------
(* The framework around the actions (external).                            *)

\* The informer catches up with the API server. The CR is queued when it
\* appears, disappears, starts to terminate or changes its generation.
SyncCache ==
  /\ seen # cr
  /\ seen' = cr
  /\ queue' = (queue \/ seen.exists # cr.exists \/ seen.uid # cr.uid
                     \/ seen.gen # cr.gen \/ seen.deleting # cr.deleting)
  /\ UNCHANGED <<cr, objs, pods, ns, deps, platform, build, release, pc, rr, faults, env>>

\* Mutant: no finalizer is registered.
FirstStep_NoFinalizer(c) == IF ~c.exists THEN "idle"
                            ELSE IF c.deleting THEN "cleanupStrip"
                            ELSE "checkDependencies"

\* Where a pass over the copy c begins.
FirstStep(c) == IF ~c.exists THEN "idle"
                ELSE IF c.deleting THEN "cleanupStrip"
                ELSE IF c.fin THEN "checkDependencies"
                ELSE "addFinalizer"

\* The worker takes the key and reads the CR from the cache. The request
\* copies Reconciler.Release.
Start ==
  /\ pc = "idle" /\ queue
  /\ queue' = FALSE
  /\ pc' = FirstStep(seen)
  /\ rr' = IF seen.exists
             THEN [inst |-> seen, release |-> release, res |-> {}, st |-> seen.st,
                   avail |-> FALSE, err |-> FALSE]
             ELSE NoRequest
  /\ UNCHANGED <<cr, seen, objs, pods, ns, deps, platform, build, release, faults, env>>

\* The finalizer is written before the actions run; a stale copy conflicts. The
\* update returns the CR as written, and the pass goes on with it.
AddFinalizer ==
  /\ pc = "addFinalizer"
  /\ \/ /\ cr = rr.inst
        /\ cr' = [cr EXCEPT !.fin = TRUE]
        /\ rr' = [rr EXCEPT !.inst = cr']
        /\ pc' = "checkDependencies"
        /\ UNCHANGED <<queue, faults>>
     \/ /\ cr # rr.inst \/ faults < MaxFaults
        /\ faults' = IF cr # rr.inst THEN faults ELSE faults + 1
        /\ GiveUp /\ UNCHANGED cr
  /\ UNCHANGED <<seen, objs, pods, ns, deps, platform, build, release, env>>

\* The status is written at the end of every live pass, successful or not,
\* against the resource version the pass read. A pass that fails, or whose
\* status conflicts, is queued again.
WriteStatus ==
  /\ pc = "status" /\ pc' = "idle" /\ rr' = NoRequest
  /\ \/ /\ cr = rr.inst
        /\ cr' = [cr EXCEPT !.st = [rr.st EXCEPT !.ready = ~rr.err /\ rr.avail,
                                                 !.gen = rr.inst.gen]]
        /\ queue' = (queue \/ rr.err)
        /\ UNCHANGED faults
     \/ /\ cr # rr.inst /\ queue' = TRUE /\ UNCHANGED <<cr, faults>>
     \/ Fault /\ queue' = TRUE /\ UNCHANGED cr
  /\ UNCHANGED <<seen, objs, pods, ns, deps, platform, build, release, env>>
-----------------------------------------------------------------------------
(* The actions of a live pass.                                             *)

\* What a failed request of checkDependencies is reported as.
FaultReasons == IF OpenShift THEN Reasons \ {"DependenciesAvailable"}
                             ELSE {"ClusterDetectionFailed", "JobSetCRDNotFound"}

checkDependencies ==
  /\ pc = "checkDependencies"
  /\ \E r \in Reasons :
       /\ \/ r = CheckDependencies(OpenShift, deps) /\ UNCHANGED faults
          \/ r \in FaultReasons /\ Fault
       /\ LET st == [rr.st EXCEPT !.reason = r]
          IN  IF r = "DependenciesAvailable" THEN Proceed /\ rr' = [rr EXCEPT !.st = st]
                                             ELSE Fails(st)
  /\ UNCHANGED <<cr, seen, objs, pods, ns, deps, platform, build, release, queue, env>>

\* Get, then Create where it is missing; AlreadyExists is success.
ensureNamespace ==
  /\ pc = "ensureNamespace"
  /\ \/ ns' = TRUE /\ Proceed /\ UNCHANGED <<rr, faults>>
     \/ Fault /\ Fails(rr.st) /\ UNCHANGED ns
  /\ UNCHANGED <<cr, seen, objs, pods, deps, platform, build, release, queue, env>>

\* The ConfigMap's version; without a ConfigMap, none.
getPlatformVersion == IF platform = NoConfigMap THEN NoVersion ELSE platform

\* Mutant: a version that does not parse is taken as it is.
Parsable_Any(v) == v # NoVersion

\* semver.ParseTolerant accepts a version that is there.
Parsable(v) == v \in Versions

\* Component releases that cannot be read leave the status as it is.
getComponentReleases == IF build \in Described THEN build ELSE rr.st.component

\* The component's releases come from the image, the platform's from the
\* ConfigMap. A parsable version is recorded in the status and becomes the
\* release of the passes that start from now on, not of this one.
updateReleases ==
  /\ pc = "updateReleases"
  /\ LET st == [rr.st EXCEPT !.component = getComponentReleases]
     IN  \/ /\ Parsable(getPlatformVersion)
            /\ rr' = [rr EXCEPT !.st = [st EXCEPT !.platform = getPlatformVersion]]
            /\ release' = getPlatformVersion
            /\ Proceed /\ UNCHANGED faults
         \/ /\ ~Parsable(getPlatformVersion)
            /\ rr' = [rr EXCEPT !.st = st]
            /\ Proceed /\ UNCHANGED <<release, faults>>
         \/ Fault /\ Fails(st) /\ UNCHANGED release
  /\ UNCHANGED <<cr, seen, objs, pods, ns, deps, platform, build, queue, env>>

Rendered(b) == IF OpenShift THEN Manifests[b] ELSE Manifests[b] \ ImageStreams

renderManifests ==
  /\ pc = "renderManifests"
  /\ \/ rr' = [rr EXCEPT !.res = Rendered(build)] /\ Proceed /\ UNCHANGED faults
     \/ Fault /\ Fails(rr.st)
  /\ UNCHANGED <<cr, seen, objs, pods, ns, deps, platform, build, release, queue, env>>

\* Mutant: an object that exists is stamped but keeps its content.
Applied_CreateOnly(o) ==
  IF objs[o] = Absent
    THEN [rel |-> rr.release, uid |-> rr.inst.uid, gen |-> rr.inst.gen,
          by |-> build, born |-> build, legacy |-> FALSE, term |-> FALSE]
    ELSE [objs[o] EXCEPT !.rel = rr.release, !.uid = rr.inst.uid, !.gen = rr.inst.gen]

\* Server-side apply of one object.
Applied(o) ==
  IF objs[o] = Absent
    THEN [rel |-> rr.release, uid |-> rr.inst.uid, gen |-> rr.inst.gen,
          by |-> build, born |-> build, legacy |-> FALSE, term |-> FALSE]
    ELSE [objs[o] EXCEPT !.rel = rr.release, !.uid = rr.inst.uid,
                         !.gen = rr.inst.gen, !.by = build]

ImmutableField(o) == objs[o] # Absent /\ <<objs[o].born, build, o>> \in Clash

Rejected(o) == \/ ImmutableField(o)
               \/ o \in Namespaced /\ ~ns
               \/ o \in Runtimes /\ WebhookDown

Earlier(o) == {x \in rr.res : Rank[x] < Rank[o]}

\* The apply order gets as far as o.
Reaches(o) == o \in rr.res /\ \A x \in Earlier(o) : ~Rejected(x)

Deploy ==
  /\ pc = "deploy"
  /\ \A o \in rr.res : ~Rejected(o)
  /\ objs' = [o \in Objects |-> IF o \in rr.res THEN Applied(o) ELSE objs[o]]
  /\ Changed /\ Proceed
  /\ UNCHANGED <<cr, seen, pods, ns, deps, platform, build, release, rr, faults, env>>

\* The first object that cannot be applied ends the action.
DeployStops(o) ==
  /\ pc = "deploy" /\ Reaches(o) /\ ~ImmutableField(o)
  /\ \/ Rejected(o) /\ UNCHANGED faults
     \/ ~Rejected(o) /\ Fault
  /\ objs' = [x \in Objects |-> IF x \in Earlier(o) THEN Applied(x) ELSE objs[x]]
  /\ Changed /\ Fails(rr.st)
  /\ UNCHANGED <<cr, seen, pods, ns, deps, platform, build, release, env>>

\* Mutant: the recovery deletes nothing.
RecoveryDeletes_Nothing == {}

RecoveryDeletes == Deployments \cap rr.res

\* withImmutableFieldRecovery deletes the rendered Deployments and passes the
\* error on; a failed delete is logged and skipped.
DeployRecovers(o) ==
  /\ pc = "deploy" /\ Reaches(o) /\ ImmutableField(o)
  /\ \E D \in SUBSET RecoveryDeletes :
       /\ \/ D = RecoveryDeletes /\ UNCHANGED faults
          \/ D # RecoveryDeletes /\ Fault
       /\ objs' = [x \in Objects |-> IF x \in D THEN Absent
                                     ELSE IF x \in Earlier(o) THEN Applied(x)
                                     ELSE objs[x]]
  /\ Changed /\ Fails(rr.st)
  /\ UNCHANGED <<cr, seen, pods, ns, deps, platform, build, release, env>>

\* fwdeployments: there are Deployments and each of them has ready pods.
AllAvailable == LET present == {d \in Deployments : objs[d] # Absent}
                IN  present # {} /\ \A d \in present : pods[d] # None

deployments ==
  /\ pc = "deployments"
  /\ \/ rr' = [rr EXCEPT !.avail = AllAvailable] /\ Proceed /\ UNCHANGED faults
     \/ Fault /\ Fails(rr.st)
  /\ UNCHANGED <<cr, seen, objs, pods, ns, deps, platform, build, release, queue, env>>

LegacyRuntimes == {o \in Runtimes : objs[o] # Absent /\ objs[o].legacy}

\* Mutant: only terminating runtimes lose the finalizer.
Stripped_Terminating(S) ==
  objs' = [o \in Objects |-> IF o \in S /\ objs[o].term THEN Absent ELSE objs[o]]

\* One update per runtime; a terminating one disappears with its finalizer.
Stripped(S) ==
  objs' = [o \in Objects |-> IF o \notin S THEN objs[o]
                             ELSE IF objs[o].term THEN Absent
                             ELSE [objs[o] EXCEPT !.legacy = FALSE]]

StripFails == IF pc = "cleanupStrip" THEN GiveUp
                                     ELSE Fails(rr.st) /\ UNCHANGED queue

\* Mutant: a runtime API that does not exist is an error.
StripBlocked_NoAPI == ~RuntimeAPI \/ (LegacyRuntimes # {} /\ WebhookDown)

\* Where the runtime API does not exist there is nothing to strip; a rejected
\* update is an error.
StripBlocked == RuntimeAPI /\ LegacyRuntimes # {} /\ WebhookDown

\* In a live pass, and first in the finalizer.
removeRuntimeFinalizers ==
  /\ pc \in {"stripRuntimeFinalizers", "cleanupStrip"}
  /\ \/ /\ ~StripBlocked
        /\ Stripped(IF RuntimeAPI THEN LegacyRuntimes ELSE {})
        /\ Proceed /\ UNCHANGED <<queue, rr, faults>>
     \/ /\ StripBlocked
        /\ StripFails /\ UNCHANGED <<objs, faults>>
     \/ /\ Fault /\ StripFails
        /\ \E S \in SUBSET LegacyRuntimes : (WebhookDown => S = {}) /\ Stripped(S)
  /\ UNCHANGED <<cr, seen, pods, ns, deps, platform, build, release, env>>

Collected(S) == objs' = [o \in Objects |-> IF o \in S THEN Absent ELSE objs[o]]

\* Objects this operator made whose stamp is not the pass's.
Stale == {o \in Collectable : objs[o] # Absent /\ ~Stamped(o, rr)}

GC ==
  /\ pc = "gc"
  /\ \/ Collected(Stale) /\ Proceed /\ UNCHANGED <<rr, faults>>
     \/ Fault /\ Fails(rr.st) /\ \E S \in SUBSET Stale : Collected(S)
  /\ Changed
  /\ UNCHANGED <<cr, seen, pods, ns, deps, platform, build, release, env>>
-----------------------------------------------------------------------------
(* cleanup, the finalizer.                                                 *)

\* Mutant: runtimes that were edited are left out.
RuntimesToDelete_Unedited ==
  {o \in Runtimes : objs[o] # Absent /\ ~objs[o].term /\ objs[o].by = build}

RuntimesToDelete == {o \in Runtimes : objs[o] # Absent /\ ~objs[o].term}

\* A failed list or delete is logged and skipped.
cleanupTrainerResources ==
  /\ pc = "cleanupDelete"
  /\ \E S \in SUBSET RuntimesToDelete :
       /\ \/ S = RuntimesToDelete /\ UNCHANGED faults
          \/ S # RuntimesToDelete /\ Fault
       /\ objs' = [o \in Objects |-> IF o \in S THEN Deleted(o) ELSE objs[o]]
  /\ Proceed
  /\ UNCHANGED <<cr, seen, pods, ns, deps, platform, build, release, queue, rr, env>>

\* Mutant: an error of the collector is logged and skipped too.
CollectFails_Skipped == Proceed /\ UNCHANGED <<queue, rr>>

\* cleanup returns the collector's error: the finalizer stays.
CollectFails == GiveUp

cleanupCollect ==
  /\ pc = "cleanupCollect"
  /\ \/ Collected(Collectable) /\ Changed /\ Proceed /\ UNCHANGED <<rr, faults>>
     \/ Fault /\ CollectFails /\ \E S \in SUBSET Collectable : Collected(S)
  /\ UNCHANGED <<cr, seen, pods, ns, deps, platform, build, release, env>>

\* The last finalizer gone, the API server removes the CR. (External.)
RemoveFinalizer ==
  /\ pc = "removeFinalizer"
  /\ \/ /\ cr = rr.inst
        /\ cr' = NoCR(cr.uid)
        /\ pc' = "idle" /\ rr' = NoRequest /\ UNCHANGED <<queue, faults>>
     \/ cr # rr.inst /\ GiveUp /\ UNCHANGED <<cr, faults>>
     \/ Fault /\ GiveUp /\ UNCHANGED cr
  /\ UNCHANGED <<seen, objs, pods, ns, deps, platform, build, release, env>>
-----------------------------------------------------------------------------
(* The operand's pods (external).                                          *)

\* The Deployment controller rolls the pods to the Deployment's spec, or
\* removes them with it; a status change of a Deployment queues the CR.
PodsFollow(d) ==
  /\ pods[d] # (IF objs[d] = Absent THEN None ELSE objs[d].by)
  /\ pods' = [pods EXCEPT ![d] = IF objs[d] = Absent THEN None ELSE objs[d].by]
  /\ queue' = (queue \/ objs[d] # Absent)
  /\ UNCHANGED <<cr, seen, objs, ns, deps, platform, build, release, pc, rr, faults, env>>
-----------------------------------------------------------------------------
(* The environment.                                                        *)

EnvAct == env < MaxEnv /\ env' = env + 1

CreateCR ==
  /\ EnvAct /\ ~cr.exists /\ cr.uid < MaxUid
  /\ cr' = [NoCR(cr.uid + 1) EXCEPT !.exists = TRUE, !.gen = 1]
  /\ UNCHANGED <<seen, objs, pods, ns, deps, platform, build, release, queue, pc, rr, faults>>

\* A spec change other than of appNamespace.
UpdateSpec ==
  /\ EnvAct /\ cr.exists /\ cr.gen < MaxGen
  /\ cr' = [cr EXCEPT !.gen = @ + 1]
  /\ UNCHANGED <<seen, objs, pods, ns, deps, platform, build, release, queue, pc, rr, faults>>

DeleteCR ==
  /\ EnvAct /\ cr.exists /\ ~cr.deleting
  /\ cr' = IF cr.fin THEN [cr EXCEPT !.deleting = TRUE] ELSE NoCR(cr.uid)
  /\ UNCHANGED <<seen, objs, pods, ns, deps, platform, build, release, queue, pc, rr, faults>>

DriftDelete(o) ==
  /\ EnvAct /\ o \in Drifting /\ objs[o] # Absent
  /\ objs' = [objs EXCEPT ![o] = Deleted(o)]
  /\ Changed
  /\ UNCHANGED <<cr, seen, pods, ns, deps, platform, build, release, pc, rr, faults>>

DriftEdit(o) ==
  /\ EnvAct /\ o \in Drifting /\ objs[o] # Absent /\ objs[o].by # Drifted
  /\ objs' = [objs EXCEPT ![o].by = Drifted]
  /\ Changed
  /\ UNCHANGED <<cr, seen, pods, ns, deps, platform, build, release, pc, rr, faults>>

\* Mutant: only labelled ConfigMaps are watched.
PlatformConfigEvent_Labelled(v) == FALSE

\* The platform ConfigMap is watched by its name; it has no label of ours.
PlatformConfigEvent(v) == v # platform

\* The namespace goes with what is in it, the platform ConfigMap too.
DeleteNamespace ==
  /\ EnvAct /\ ns
  /\ ns' = FALSE /\ platform' = NoConfigMap
  /\ objs' = [o \in Objects |-> IF o \in Namespaced THEN Absent ELSE objs[o]]
  /\ queue' = (queue \/ PlatformConfigEvent(NoConfigMap) \/ \E o \in Objects : Notifies(o))
  /\ UNCHANGED <<cr, seen, pods, deps, build, release, pc, rr, faults>>

\* The platform operator writes or deletes its ConfigMap.
ChangePlatformVersion(v) ==
  /\ EnvAct /\ ns /\ v # platform
  /\ platform' = v
  /\ queue' = (queue \/ PlatformConfigEvent(v))
  /\ UNCHANGED <<cr, seen, objs, pods, ns, deps, build, release, pc, rr, faults>>

\* Mutant: the watch leaves the status out.
JobSetOperatorEvent_NoStatus(d) == OpenShift /\ d.instances # deps.instances

\* The JobSetOperator CR is watched, its status too, where its CRD exists.
JobSetOperatorEvent(d) ==
  OpenShift /\ <<d.instances, d.readable, d.conds>>
                 # <<deps.instances, deps.readable, deps.conds>>

\* The other dependencies are not watched.
ChangeDependencies(d) ==
  /\ EnvAct /\ d # deps
  /\ deps' = d
  /\ queue' = (queue \/ JobSetOperatorEvent(d))
  /\ UNCHANGED <<cr, seen, objs, pods, ns, platform, build, release, pc, rr, faults>>

\* An operand from before Trainer 2.3 marks a runtime that is in use. The API
\* server takes no new finalizer on a terminating object.
LegacyFinalizer(o) ==
  /\ EnvAct /\ \E d \in Deployments : pods[d] \in LegacyBuilds
  /\ o \in Runtimes /\ objs[o] # Absent /\ ~objs[o].legacy /\ ~objs[o].term
  /\ objs' = [objs EXCEPT ![o].legacy = TRUE]
  /\ UNCHANGED <<cr, seen, pods, ns, deps, platform, build, release, queue, pc, rr, faults>>

\* The operand crashes; its Deployment brings it back (PodsFollow).
PodsDown(d) ==
  /\ EnvAct /\ pods[d] # None
  /\ pods' = [pods EXCEPT ![d] = None]
  /\ queue' = (queue \/ objs[d] # Absent)
  /\ UNCHANGED <<cr, seen, objs, ns, deps, platform, build, release, pc, rr, faults>>

\* The operator crashes or is replaced by another build: memory and the pass
\* are lost, the new process lists the CR and queues it.
Restart(b) ==
  /\ EnvAct
  /\ build' = b /\ release' = readBootstrapRelease(b)
  /\ seen' = cr /\ queue' = cr.exists
  /\ pc' = "idle" /\ rr' = NoRequest
  /\ UNCHANGED <<cr, objs, pods, ns, deps, platform, faults>>
-----------------------------------------------------------------------------
Worker ==
  \/ Start \/ AddFinalizer \/ WriteStatus
  \/ checkDependencies \/ ensureNamespace \/ updateReleases \/ renderManifests
  \/ Deploy \/ \E o \in Objects : DeployStops(o) \/ DeployRecovers(o)
  \/ deployments \/ removeRuntimeFinalizers \/ GC
  \/ cleanupTrainerResources \/ cleanupCollect \/ RemoveFinalizer

Environment ==
  \/ CreateCR \/ UpdateSpec \/ DeleteCR \/ DeleteNamespace
  \/ \E o \in Objects : DriftDelete(o) \/ DriftEdit(o) \/ LegacyFinalizer(o)
  \/ \E v \in PlatformConfigs : ChangePlatformVersion(v)
  \/ \E d \in DepStates : ChangeDependencies(d)
  \/ \E d \in Deployments : PodsDown(d)
  \/ \E b \in Builds : Restart(b)

Next == Worker \/ SyncCache \/ Environment \/ \E d \in Deployments : PodsFollow(d)

\* The worker and the informer run while they have something to do, and the
\* Deployment controller rolls pods out. Nothing makes the environment act.
Fairness == /\ WF_vars(Worker) /\ WF_vars(SyncCache)
            /\ \A d \in Deployments : WF_vars(PodsFollow(d))

Spec == Init /\ [][Next]_vars

FairSpec == Spec /\ Fairness
-----------------------------------------------------------------------------
(* Properties.                                                             *)

\* Every variable has its type.
TypeOK ==
  /\ cr \in CRs /\ seen \in CRs
  /\ objs \in [Objects -> ObjectStates \cup {Absent}]
  /\ pods \in [Deployments -> Builds \cup {Drifted, None}]
  /\ ns \in BOOLEAN /\ deps \in DepStates
  /\ platform \in PlatformConfigs
  /\ build \in Builds /\ release \in Releases /\ queue \in BOOLEAN
  /\ pc \in LiveSteps \cup CleanupSteps \cup {"idle", "addFinalizer"}
  /\ rr \in Requests
  /\ faults \in 0..MaxFaults /\ env \in 0..MaxEnv

\* The operator rests: nothing queued, nothing running, the cache up to date.
Quiet == pc = "idle" /\ ~queue /\ seen = cr

Live == cr.exists /\ ~cr.deleting

\* What a pass cannot vouch for: unwatched objects somebody else may change,
\* and the runtimes of a CR that follows another. One the old operand kept
\* terminating when the first CR went is applied again, but goes for good when
\* a later pass strips it, and nothing queues the CR for that.
NotVouchedFor(c) == (Drifting \ Watched) \cup
                    (IF c.uid > 1 /\ LegacyBuilds # {} THEN Runtimes ELSE {})

\* What a pass over the copy c of the CR brings about.
DeployedFor(c) ==
  /\ ns
  /\ \A o \in Rendered(build) \ NotVouchedFor(c) :
       /\ objs[o] # Absent
       /\ <<objs[o].by, objs[o].uid, objs[o].gen>> = <<build, c.uid, c.gen>>

\* An operator at rest with a live CR has converged: the namespace exists and
\* so does every object its build renders, with that build's content and the
\* CR's uid and generation, whatever deleted or edited it.
SettledDeployed == Quiet /\ Live => DeployedFor(cr)

\* The status an operator at rest has written describes the cluster: Ready
\* exactly while the operand is available, the observed generation current,
\* the platform version the ConfigMap's, the component releases the build's.
SettledStatus ==
  Quiet /\ Live =>
    /\ cr.st.ready <=> AllAvailable
    /\ cr.st.gen = cr.gen /\ (build \in Described => cr.st.component = build)
    /\ platform \in Versions => cr.st.platform = platform /\ release = platform

\* On OpenShift an operator at rest has a healthy JobSetOperator: its failing
\* at any time queues the CR, through the watch on it, and stays reported.
SettledDependencies ==
  Quiet /\ Live => /\ cr.st.reason = "DependenciesAvailable"
                   /\ OpenShift => checkJobSetOperatorHealth(deps)

\* Once an operator at rest has rolled the operand past the builds that mark
\* runtimes, no runtime carries the legacy finalizer: stripping after the
\* deploy, again on every rollout event, outlasts the old pods.
SettledFinalizers ==
  Quiet /\ Live /\ (\A d \in Deployments : pods[d] \notin LegacyBuilds)
    => LegacyRuntimes = {}

\* The Trainer CR is gone only when everything the operator may collect is:
\* through crashes, failed requests, stale caches and CRs that are deleted and
\* created again.
NoOrphans == ~cr.exists => \A o \in Collectable : objs[o] = Absent

\* The garbage collection of a pass never deletes an object that the pass
\* rendered, whatever changed Reconciler.Release or the CR since it began.
GCKeepsRendered ==
  [][pc = "gc" /\ pc' # "gc" =>
       \A o \in rr.res : objs[o] # Absent => objs'[o] # Absent]_vars

\* The parts of the inductive invariant behind NoOrphans and GCKeepsRendered,
\* the order in which the worker's copies of the CR may lag the API server's.
HeldBy(c) == c.exists /\ c.fin

Clean == \A o \in Collectable : objs[o] = Absent

CopiesInOrder ==
  /\ seen.uid <= cr.uid
  /\ pc # "idle" => rr.inst.uid <= seen.uid
  /\ seen.exists /\ seen.deleting /\ cr.exists /\ cr.uid = seen.uid => cr.deleting

FinalizerGuards ==
  /\ ~HeldBy(cr) => Clean
  /\ pc = "removeFinalizer" => Clean
  /\ pc \in LiveSteps => HeldBy(cr)
  /\ HeldBy(seen) /\ ~seen.deleting => HeldBy(cr)

PassMatchesCR ==
  /\ pc = "addFinalizer" => rr.inst.exists /\ ~rr.inst.deleting
  /\ seen.exists /\ seen.deleting => ~HeldBy(cr) \/ cr.deleting
  /\ pc \in CleanupSteps => /\ ~HeldBy(cr) \/ cr.deleting
                            /\ ~HeldBy(seen) \/ seen.deleting

DeployedStamped ==
  pc \in {"deployments", "stripRuntimeFinalizers", "gc"} =>
    \A o \in rr.res : objs[o] # Absent => Stamped(o, rr)

\* Inductive: a pass that applies objects runs under a CR that holds the
\* finalizer, only the pass that has collected everything lets it go, and what
\* a pass has applied still carries its stamp when it collects.
PassInvariant ==
  CopiesInOrder /\ FinalizerGuards /\ PassMatchesCR /\ DeployedStamped

\* The CR's hold and the collectable objects, as the protocol sees them.
Protocol == INSTANCE FinalizerProtocol
              WITH Things <- Collectable,
                   holder <- IF ~cr.exists THEN "none"
                             ELSE IF ~cr.fin THEN "unheld"
                             ELSE IF ~cr.deleting THEN "held" ELSE "deleting",
                   footprint <- {o \in Collectable : objs[o] # Absent}

\* The operator implements the finalizer's promise: every step of its own, of
\* a stale pass too, and of anybody else is one the protocol allows or leaves
\* the CR's hold and the collectable objects alone.
ImplementsProtocol == Protocol!Spec

\* A Trainer CR that is being deleted goes away.
DeletionCompletes == cr.deleting ~> ~cr.deleting

\* The same wherever updates of a runtime that still has the legacy finalizer
\* are not rejected for good: the deletion outlasts failed requests, upgrades
\* half-way, crashes of the operand and runtime APIs that do not exist.
DeletionUnblocked ==
  <>[]~(LegacyRuntimes # {} /\ WebhookDown) => (cr.deleting ~> ~cr.deleting)

\* When the dependencies are there for good and the CR stays, the operator
\* comes to rest: passes do not chase their own events or each other's errors.
Converges ==
  <>[](Live /\ CheckDependencies(OpenShift, deps) = "DependenciesAvailable") => <>[]Quiet

\* The Trainer CR is gone only when the training runtimes are.
RuntimesGoneWithCR == ~cr.exists => \A o \in Runtimes : objs[o] = Absent

\* As long as no request failed, a CR that is gone has taken every runtime with
\* it, edited ones too, or left it terminating behind an old operand's
\* finalizer.
RuntimesDeleted ==
  ~cr.exists /\ faults = 0 =>
    \A o \in Runtimes : objs[o] = Absent \/ objs[o].term

\* An operator at rest has collected what earlier builds rendered and its own
\* does not.
StaleCollected ==
  Quiet /\ Live => \A o \in Collectable \ Rendered(build) : objs[o] = Absent

\* The recovery from an immutable field deletes a Deployment only when it is
\* the object the API server rejected.
RecoveryDeletesOffender ==
  [][pc = "deploy" /\ pc' = "status" =>
       \A d \in Deployments :
         objs[d] # Absent /\ objs'[d] = Absent => ImmutableField(d)]_vars
=============================================================================
