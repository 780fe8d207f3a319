------------------------ MODULE TrainerSettledProofs ------------------------
(***************************************************************************)
(* TLAPS proofs about what TrainerReconciler leaves behind when it rests,  *)
(* for every set of objects, builds, versions and dependencies and every   *)
(* bound. Liveness is not needed for them: a reconciler at rest has        *)
(* finished a successful pass over the CR it sees, and whatever undid a    *)
(* part of that since has queued the CR.                                   *)
(***************************************************************************)
EXTENDS TrainerReconcilerProofs

-----------------------------------------------------------------------------
(* The copies of the CR and its versions.                                  *)

Alive(c) == c.exists /\ ~c.deleting

\* What an event of the CR tells apart.
Key(c) == <<c.exists, c.uid, c.gen, c.deleting>>

\* The CR may become d when it has been c.
Precedes(c, d) ==
  \/ c.uid < d.uid
  \/ /\ c.uid = d.uid
     /\ d.exists => c.exists /\ c.gen <= d.gen /\ (c.deleting => d.deleting)

\* Inductive: the pass's copy, the cache's and the CR follow each other, and a
\* pass is of the kind its copy calls for.
CopyInvariant ==
  /\ Precedes(seen, cr)
  /\ cr.exists => cr.uid >= 1
  /\ seen.exists => seen.uid >= 1
  /\ pc # "idle" => Precedes(rr.inst, seen) /\ rr.inst.exists /\ rr.inst.uid >= 1
  /\ pc \in LiveSteps \cup {"addFinalizer"} => ~rr.inst.deleting
  /\ pc \in CleanupSteps => rr.inst.deleting
-----------------------------------------------------------------------------
(* The runtimes.                                                           *)

\* The first CR was deleted before this copy.
Past(c) == c.uid > 1 \/ (c.uid = 1 /\ ~Alive(c))

RuntimesGone == \A o \in Runtimes : objs[o] = Absent \/ objs[o].term

\* Inductive: only old operands mark runtimes, only the finalizer and somebody
\* else leave one terminating, and as long as no request failed the finalizer
\* goes after the runtimes.
RuntimeInvariant ==
  /\ LegacyBuilds = {} => LegacyRuntimes = {}
  /\ \A o \in Runtimes \ Drifting : objs[o] # Absent /\ objs[o].term =>
       Past(cr) /\ Past(seen) /\ (pc # "idle" => Past(rr.inst))
  /\ faults = 0 /\ (~HeldBy(cr) \/ pc \in {"cleanupCollect", "removeFinalizer"})
       => RuntimesGone
-----------------------------------------------------------------------------
(* What a pass has achieved so far.                                        *)

\* The pass has got past the steps before S without an error.
Reached(S) == pc \in S \/ (pc = "status" /\ ~rr.err)

Healthy == OpenShift => checkJobSetOperatorHealth(deps)

ReportsReleases(st) == build \in Described => st.component = build

ReportsPlatform(st) == platform \in Versions => st.platform = platform /\ release = platform

Unmarked == (\E d \in Deployments : pods[d] \in LegacyBuilds) \/ LegacyRuntimes = {}

\* What the pass renders stays what its build renders.
RendersBuild ==
  Reached({"deploy", "deployments", "stripRuntimeFinalizers", "gc"})
    => rr.res = Rendered(build)

\* Each step of a pass leaves its result behind, or the CR is queued.
PassSettles ==
  /\ Reached({"ensureNamespace", "updateReleases", "renderManifests", "deploy",
              "deployments", "stripRuntimeFinalizers", "gc"})
       => rr.st.reason = "DependenciesAvailable" /\ (queue \/ Healthy)
  /\ Reached({"renderManifests", "deploy", "deployments", "stripRuntimeFinalizers", "gc"})
       => ReportsReleases(rr.st) /\ (queue \/ ReportsPlatform(rr.st))
  /\ Reached({"deployments", "stripRuntimeFinalizers", "gc"})
       => queue \/ DeployedFor(rr.inst)
  /\ Reached({"stripRuntimeFinalizers", "gc"}) => queue \/ rr.avail = AllAvailable
  /\ Reached({"gc"}) => queue \/ Unmarked

\* The status describes the cluster.
Reports(st) ==
  /\ st.reason = "DependenciesAvailable" /\ Healthy
  /\ ReportsReleases(st) /\ ReportsPlatform(st)
  /\ st.ready = AllAvailable

\* Between passes, with nothing queued, the last pass was over what the cache
\* holds, and its results are there.
RestSettles ==
  pc = "idle" /\ ~queue /\ Alive(seen) =>
    /\ DeployedFor(seen) /\ Unmarked
    /\ Key(seen) = Key(cr) => Reports(cr.st) /\ cr.st.gen = cr.gen

SettledInvariant == RendersBuild /\ PassSettles /\ RestSettles
-----------------------------------------------------------------------------
(* The steps, by what they may touch.                                      *)

\* The worker's steps that leave the CR alone.
PassStep ==
  \/ checkDependencies \/ ensureNamespace \/ updateReleases \/ renderManifests
  \/ Deploy \/ (\E o \in Objects : DeployStops(o) \/ DeployRecovers(o))
  \/ deployments \/ removeRuntimeFinalizers \/ GC
  \/ cleanupTrainerResources \/ cleanupCollect

\* The steps of the cluster around the operator.
ClusterStep ==
  \/ (\E d \in Deployments : PodsFollow(d) \/ PodsDown(d)) \/ DeleteNamespace
  \/ (\E o \in Objects : DriftDelete(o) \/ DriftEdit(o) \/ LegacyFinalizer(o))
  \/ (\E v \in PlatformConfigs : ChangePlatformVersion(v))
  \/ (\E d \in DepStates : ChangeDependencies(d))

\* The owner's.
OwnerStep == CreateCR \/ UpdateSpec \/ DeleteCR

\* Every step is one of these.
LEMMA StepKinds ==
  ASSUME Next
  PROVE  \/ PassStep \/ ClusterStep \/ OwnerStep \/ Start \/ AddFinalizer \/ WriteStatus
         \/ RemoveFinalizer \/ SyncCache \/ \E b \in Builds : Restart(b)
  BY DEF Next, Worker, Environment, PassStep, ClusterStep, OwnerStep

\* A step of a pass stays in its kind of pass, with the same copy of the CR, or
\* gives a finalizer pass up.
LEMMA PassStepFrame ==
  ASSUME TypeOK, PassStep
  PROVE  /\ UNCHANGED <<cr, seen, pods, deps, platform, build, env>>
         /\ \/ pc' = "idle" /\ queue' /\ pc \in CleanupSteps
            \/ /\ rr'.inst = rr.inst
               /\ \/ pc \in LiveSteps /\ pc' \in LiveSteps
                  \/ pc \in CleanupSteps /\ pc' \in CleanupSteps
<1> USE DEF LiveSteps, CleanupSteps, Proceed, Following
<1>0. ASSUME NEW st, Fails(st) PROVE rr'.inst = rr.inst /\ pc' = "status"
  BY <1>0 DEF Fails, TypeOK, Requests
<1>1. CASE checkDependencies
  <2>1. rr'.inst = rr.inst
    BY <1>0, <1>1 DEF checkDependencies, TypeOK, Requests
  <2>2. pc' \in {"ensureNamespace", "status"}
    BY <1>0, <1>1 DEF checkDependencies
  <2> QED
    BY <1>1, <2>1, <2>2 DEF checkDependencies
<1>2. CASE ensureNamespace
  BY <1>0, <1>2 DEF ensureNamespace
<1>3. CASE updateReleases
  <2>1. rr'.inst = rr.inst
    BY <1>0, <1>3 DEF updateReleases, TypeOK, Requests
  <2>2. pc' \in {"renderManifests", "status"}
    BY <1>0, <1>3 DEF updateReleases
  <2> QED
    BY <1>3, <2>1, <2>2 DEF updateReleases
<1>4. CASE renderManifests
  <2>1. rr'.inst = rr.inst
    BY <1>0, <1>4 DEF renderManifests, TypeOK, Requests
  <2> QED
    BY <1>0, <1>4, <2>1 DEF renderManifests
<1>5. CASE Deploy \/ \E o \in Objects : DeployStops(o) \/ DeployRecovers(o)
  BY <1>0, <1>5 DEF Deploy, DeployStops, DeployRecovers
<1>6. CASE deployments
  <2>1. rr'.inst = rr.inst
    BY <1>0, <1>6 DEF deployments, TypeOK, Requests
  <2> QED
    BY <1>0, <1>6, <2>1 DEF deployments
<1>7. CASE removeRuntimeFinalizers
  BY <1>0, <1>7 DEF removeRuntimeFinalizers, StripFails, GiveUp
<1>8. CASE cleanupTrainerResources \/ cleanupCollect
  BY <1>8 DEF cleanupTrainerResources, cleanupCollect, CollectFails, GiveUp
<1>9. CASE GC
  BY <1>0, <1>9 DEF GC
<1> QED
  BY <1>1, <1>2, <1>3, <1>4, <1>5, <1>6, <1>7, <1>8, <1>9 DEF PassStep

\* What happens around the operator leaves its pass and the CR alone, and takes
\* nothing out of the queue.
LEMMA ClusterStepFrame ==
  ASSUME ClusterStep
  PROVE  UNCHANGED <<cr, seen, build, release, pc, rr, faults>> /\ (queue => queue')
<1>1. UNCHANGED <<cr, seen, build, release, pc, rr, faults>>
  BY DEF ClusterStep, PodsFollow, PodsDown, DeleteNamespace, DriftDelete, DriftEdit,
         LegacyFinalizer, ChangePlatformVersion, ChangeDependencies
<1>2. queue => queue'
  BY Zenon DEF ClusterStep, PodsFollow, PodsDown, DeleteNamespace, DriftDelete, DriftEdit,
         LegacyFinalizer, ChangePlatformVersion, ChangeDependencies, Changed
<1> QED
  BY <1>1, <1>2
-----------------------------------------------------------------------------
\* Copies of the CR follow each other whatever happens.
THEOREM CopyInvariantHolds == Spec => []CopyInvariant
<1>1. Init => CopyInvariant
  BY DEF Init, CopyInvariant, Precedes, NoCR, LiveSteps, CleanupSteps
<1>2. TypeOK /\ CopyInvariant /\ [Next]_vars => CopyInvariant'
  <2> SUFFICES ASSUME TypeOK, CopyInvariant, [Next]_vars PROVE CopyInvariant'
    OBVIOUS
  <2> USE DEF CopyInvariant, Precedes
  <2>1. CASE UNCHANGED vars
    BY <2>1 DEF vars
  <2>2. CASE PassStep
    BY <2>2, PassStepFrame DEF LiveSteps, CleanupSteps
  <2>3. CASE ClusterStep
    BY <2>3, ClusterStepFrame
  <2>4. CASE OwnerStep
    <3>1. cr \in CRs /\ UNCHANGED <<seen, pc, rr>>
      BY <2>4 DEF OwnerStep, CreateCR, UpdateSpec, DeleteCR, TypeOK
    <3>2. CASE CreateCR
      <4>1. cr'.uid = cr.uid + 1
        BY <3>2 DEF CreateCR, NoCR
      <4>2. cr.uid \in Nat /\ seen.uid \in Nat
        BY DEF TypeOK, CRs
      <4> QED
        BY <3>1, <4>1, <4>2
    <3>3. CASE UpdateSpec
      <4>1. /\ cr'.uid = cr.uid /\ cr'.gen = cr.gen + 1 /\ cr'.exists = cr.exists
            /\ cr'.deleting = cr.deleting
        BY <3>1, <3>3 DEF UpdateSpec, CRs
      <4>2. cr.gen \in Nat /\ seen.gen \in Nat
        BY DEF TypeOK, CRs
      <4> QED
        BY <3>1, <4>1, <4>2
    <3>4. CASE DeleteCR
      <4>1. /\ cr'.uid = cr.uid
            /\ \/ cr'.exists = FALSE
               \/ cr'.exists = cr.exists /\ cr'.gen = cr.gen /\ cr'.deleting = TRUE
        BY <3>1, <3>4 DEF DeleteCR, NoCR, CRs
      <4> QED
        BY <3>1, <4>1
    <3> QED
      BY <2>4, <3>2, <3>3, <3>4 DEF OwnerStep
  <2>5. CASE Start
    <3>1. seen.exists => rr'.inst = seen
      BY <2>5 DEF Start
    <3> QED
      BY <2>5, <3>1 DEF Start, FirstStep, LiveSteps, CleanupSteps, TypeOK, CRs
  <2>6. CASE AddFinalizer
    <3>1. /\ cr'.uid = cr.uid /\ cr'.exists = cr.exists /\ cr'.gen = cr.gen
          /\ cr'.deleting = cr.deleting
      BY <2>6 DEF AddFinalizer, TypeOK, CRs
    <3>2. /\ cr \in CRs /\ seen \in CRs /\ UNCHANGED seen
          /\ pc' # "idle" => /\ pc = "addFinalizer" /\ pc' = "checkDependencies"
                            /\ cr = rr.inst /\ rr'.inst = cr'
      BY <2>6 DEF AddFinalizer, GiveUp, TypeOK, Requests
    <3> QED
      BY <3>1, <3>2 DEF LiveSteps, CleanupSteps, CRs
  <2>7. CASE WriteStatus
    <3>1. /\ cr'.uid = cr.uid /\ cr'.exists = cr.exists /\ cr'.gen = cr.gen
          /\ cr'.deleting = cr.deleting
      BY <2>7 DEF WriteStatus, TypeOK, CRs
    <3> QED
      BY <2>7, <3>1 DEF WriteStatus, LiveSteps, CleanupSteps
  <2>8. CASE RemoveFinalizer
    <3>1. cr' = cr \/ (cr'.uid = cr.uid /\ cr'.exists = FALSE)
      BY <2>8 DEF RemoveFinalizer, NoCR
    <3> QED
      BY <2>8, <3>1 DEF RemoveFinalizer, GiveUp, LiveSteps, CleanupSteps
  <2>9. CASE SyncCache
    <3>1. seen' = cr /\ UNCHANGED <<cr, pc, rr>>
      BY <2>9 DEF SyncCache
    <3>2. pc # "idle" => Precedes(rr.inst, cr)
      <4>1. /\ rr.inst.uid \in Nat /\ seen.uid \in Nat /\ cr.uid \in Nat
            /\ rr.inst.gen \in Nat /\ seen.gen \in Nat /\ cr.gen \in Nat
        BY DEF TypeOK, Requests, CRs
      <4> QED
        BY <4>1
    <3> QED
      BY <3>1, <3>2 DEF TypeOK, CRs
  <2>10. ASSUME NEW b \in Builds, Restart(b) PROVE CopyInvariant'
    BY <2>10 DEF Restart, LiveSteps, CleanupSteps, TypeOK, CRs
  <2> QED
    BY <2>1, <2>2, <2>3, <2>4, <2>5, <2>6, <2>7, <2>8, <2>9, <2>10, StepKinds
<1> QED
  BY <1>1, <1>2, TypeCorrect, PTL DEF Spec
-----------------------------------------------------------------------------
(* Where marks and terminations come from.                                 *)

\* Most steps leave every object alone.
LEMMA ObjectsStay ==
  ASSUME Next
  PROVE  \/ UNCHANGED objs
         \/ Deploy \/ \E x \in Objects : DeployStops(x) \/ DeployRecovers(x)
         \/ removeRuntimeFinalizers \/ GC \/ cleanupTrainerResources \/ cleanupCollect
         \/ DeleteNamespace
         \/ \E x \in Objects : DriftDelete(x) \/ DriftEdit(x) \/ LegacyFinalizer(x)
  BY DEF Next, Worker, Environment, Start, AddFinalizer, WriteStatus, checkDependencies,
         ensureNamespace, updateReleases, renderManifests, deployments, RemoveFinalizer,
         SyncCache, PodsFollow, CreateCR, UpdateSpec, DeleteCR, ChangePlatformVersion,
         ChangeDependencies, PodsDown, Restart

\* The deploy action runs, as far as it gets.
Deploying == pc = "deploy" /\ pc' \in LiveSteps /\ cr' = cr

\* Only old operands mark an object, only the finalizer and somebody else let
\* one terminate, and only the deploy action creates one.
LEMMA ObjectOrigins ==
  ASSUME TypeOK, Next, NEW o \in Objects, objs'[o] # Absent
  PROVE  /\ objs'[o].legacy => (objs[o] # Absent /\ objs[o].legacy) \/ LegacyFinalizer(o)
         /\ objs'[o].term => \/ objs[o] # Absent /\ objs[o].term
                            \/ DriftDelete(o) \/ cleanupTrainerResources
         /\ ~objs'[o].term => \/ objs[o] # Absent /\ ~objs[o].term
                             \/ Deploying
<1>0. objs \in [Objects -> ObjectStates \cup {Absent}]
  BY DEF TypeOK
<1>1. CASE objs'[o] = objs[o]
  BY <1>1
<1>2. CASE objs'[o] = Applied(o) /\ Deploying
  BY <1>0, <1>2 DEF Applied, ObjectStates
<1>3. CASE cleanupTrainerResources
  BY <1>0, <1>3 DEF cleanupTrainerResources, Deleted, ObjectStates
<1>4. CASE removeRuntimeFinalizers
  <2>1. objs'[o] = objs[o] \/ (objs[o] # Absent /\ objs'[o] = [objs[o] EXCEPT !.legacy = FALSE])
    BY <1>4 DEF removeRuntimeFinalizers, Stripped, LegacyRuntimes
  <2> QED
    BY <1>0, <2>1 DEF ObjectStates
<1>5. CASE DriftDelete(o) \/ DriftEdit(o) \/ LegacyFinalizer(o)
  <2>1. objs[o] # Absent /\ objs[o] \in ObjectStates
    BY <1>0, <1>5 DEF DriftDelete, DriftEdit, LegacyFinalizer
  <2>2. \/ objs'[o] = [objs[o] EXCEPT !.term = TRUE] /\ DriftDelete(o)
        \/ objs'[o] = [objs[o] EXCEPT !.by = Drifted]
        \/ objs'[o] = [objs[o] EXCEPT !.legacy = TRUE] /\ LegacyFinalizer(o)
    BY <1>0, <1>5 DEF DriftDelete, DriftEdit, LegacyFinalizer, Deleted
  <2> QED
    BY <2>1, <2>2 DEF ObjectStates
<1>6. CASE Deploy \/ \E x \in Objects : DeployStops(x) \/ DeployRecovers(x)
  <2>1. Deploying
    BY <1>6 DEF Deploying, Deploy, DeployStops, DeployRecovers, Proceed, Following, Fails, LiveSteps
  <2>2. objs'[o] = Applied(o) \/ objs'[o] = objs[o]
    BY <1>6 DEF Deploy, DeployStops, DeployRecovers
  <2> QED
    BY <1>1, <1>2, <2>1, <2>2
<1>7. CASE GC \/ cleanupCollect \/ DeleteNamespace
  BY <1>1, <1>7 DEF GC, cleanupCollect, DeleteNamespace, Collected
<1>8. ASSUME NEW x \in Objects, x # o, DriftDelete(x) \/ DriftEdit(x) \/ LegacyFinalizer(x)
      PROVE  objs'[o] = objs[o]
  BY <1>0, <1>8 DEF DriftDelete, DriftEdit, LegacyFinalizer
<1> QED
  BY <1>1, <1>3, <1>4, <1>5, <1>6, <1>7, <1>8, ObjectsStay

\* A copy that follows one of a past CR is one itself.
LEMMA PastStays ==
  ASSUME NEW c \in CRs, NEW d \in CRs, Precedes(c, d), Past(c) PROVE Past(d)
<1>1. c.uid \in Nat /\ d.uid \in Nat
  BY DEF CRs
<1> QED
  BY <1>1 DEF Precedes, Past, Alive

\* How a step moves the copies of the CR.
LEMMA CopyMoves ==
  ASSUME TypeOK, Next
  PROVE  /\ Precedes(cr, cr') /\ seen' \in {seen, cr}
         /\ pc' # "idle" => (pc # "idle" /\ Precedes(rr.inst, rr'.inst)) \/ rr'.inst = seen
         /\ HeldBy(cr) /\ ~HeldBy(cr') => pc = "removeFinalizer"
<1>0. cr \in CRs /\ rr.inst \in CRs
  BY DEF TypeOK, Requests
<1> USE DEF Precedes, HeldBy
<1>1. CASE PassStep
  BY <1>0, <1>1, PassStepFrame DEF CleanupSteps, LiveSteps, CRs
<1>2. CASE ClusterStep
  BY <1>0, <1>2, ClusterStepFrame DEF CRs
<1>3. CASE OwnerStep
  <2>1. UNCHANGED <<seen, pc, rr>>
    BY <1>3 DEF OwnerStep, CreateCR, UpdateSpec, DeleteCR
  <2>2. CASE CreateCR
    <3>1. ~cr.exists /\ cr'.uid = cr.uid + 1
      BY <2>2 DEF CreateCR, NoCR
    <3> QED
      BY <1>0, <2>1, <3>1 DEF CRs
  <2>3. CASE UpdateSpec
    BY <1>0, <2>1, <2>3 DEF UpdateSpec, CRs
  <2>4. CASE DeleteCR
    <3>1. CASE cr.fin
      BY <1>0, <2>1, <2>4, <3>1 DEF DeleteCR, CRs
    <3>2. CASE ~cr.fin
      BY <1>0, <2>1, <2>4, <3>2 DEF DeleteCR, NoCR, CRs
    <3> QED
      BY <3>1, <3>2
  <2> QED
    BY <1>3, <2>2, <2>3, <2>4 DEF OwnerStep
<1>4. CASE Start
  <2>1. pc' # "idle" => rr'.inst = seen
    BY <1>4 DEF Start, FirstStep
  <2> QED
    BY <1>0, <1>4, <2>1 DEF Start, CRs
<1>5. CASE AddFinalizer
  <2>1. pc' # "idle" => /\ cr = rr.inst /\ cr' = [cr EXCEPT !.fin = TRUE]
                        /\ rr'.inst = cr'
    BY <1>5 DEF AddFinalizer, GiveUp, TypeOK, Requests
  <2> QED
    BY <1>0, <1>5, <2>1 DEF AddFinalizer, GiveUp, CRs
<1>6. CASE WriteStatus
  BY <1>0, <1>6 DEF WriteStatus, CRs
<1>7. CASE RemoveFinalizer
  <2>1. cr' = cr \/ (cr'.uid = cr.uid /\ cr'.exists = FALSE)
    BY <1>7 DEF RemoveFinalizer, NoCR
  <2> QED
    BY <1>0, <1>7, <2>1 DEF RemoveFinalizer, GiveUp, CRs
<1>8. CASE SyncCache
  BY <1>0, <1>8 DEF SyncCache, CRs
<1>9. ASSUME NEW b \in Builds, Restart(b)
      PROVE /\ Precedes(cr, cr') /\ seen' \in {seen, cr} /\ pc' = "idle" /\ cr' = cr
  BY <1>0, <1>9 DEF Restart, CRs
<1> QED
  BY <1>1, <1>2, <1>3, <1>4, <1>5, <1>6, <1>7, <1>8, <1>9, StepKinds

\* The finalizer collects after it has deleted the runtimes, and failed
\* requests stay counted.
LEMMA CleanupMoves ==
  ASSUME TypeOK, Next
  PROVE  /\ pc' = "cleanupCollect" => pc = "cleanupCollect" \/ cleanupTrainerResources
         /\ pc' = "removeFinalizer" => pc \in {"removeFinalizer", "cleanupCollect"}
         /\ faults' = 0 => faults = 0
<1>1. faults' = 0 => faults = 0
  <2>1. faults \in Nat /\ (Fault => faults' = faults + 1)
    BY DEF TypeOK, Fault
  <2>2. faults' = faults \/ Fault \/ faults' = faults + 1
    BY DEF Next, Worker, Environment, Start, AddFinalizer, WriteStatus, checkDependencies,
         ensureNamespace, updateReleases, renderManifests, Deploy, DeployStops,
         DeployRecovers, deployments, removeRuntimeFinalizers, GC, cleanupTrainerResources,
         cleanupCollect, RemoveFinalizer, SyncCache, PodsFollow, CreateCR, UpdateSpec,
         DeleteCR, DeleteNamespace, DriftDelete, DriftEdit, LegacyFinalizer,
         ChangePlatformVersion, ChangeDependencies, PodsDown, Restart
  <2> QED
    BY <2>1, <2>2
<1>2. CASE pc' \in {"cleanupCollect", "removeFinalizer"} /\ pc' # pc
  <2>1. \/ removeRuntimeFinalizers \/ cleanupTrainerResources \/ cleanupCollect
        \/ PassStep /\ pc \in LiveSteps
    BY <1>2, StepKinds, ClusterStepFrame
    DEF PassStep, OwnerStep, CreateCR, UpdateSpec, DeleteCR, Start, FirstStep, AddFinalizer,
        WriteStatus, RemoveFinalizer, GiveUp, SyncCache, Restart, checkDependencies,
        ensureNamespace, updateReleases, renderManifests, Deploy, DeployStops,
        DeployRecovers, deployments, GC, LiveSteps
  <2> QED
    BY <1>1, <1>2, <2>1, PassStepFrame
    DEF removeRuntimeFinalizers, cleanupTrainerResources, cleanupCollect, StripFails,
        CollectFails, GiveUp, Fails, Proceed, Following, LiveSteps, CleanupSteps
<1> QED
  BY <1>1, <1>2

\* The invariant about the runtimes holds in every reachable state.
THEOREM RuntimeInvariantHolds == Spec => []RuntimeInvariant
<1>1. Init => RuntimeInvariant
  BY ObjectsAssumption DEF Init, RuntimeInvariant, RuntimesGone, LegacyRuntimes
<1>2. /\ TypeOK /\ TypeOK' /\ PassInvariant /\ CopyInvariant /\ RuntimeInvariant
      /\ [Next]_vars
      => RuntimeInvariant'
  <2> SUFFICES ASSUME TypeOK, TypeOK', PassInvariant, CopyInvariant, RuntimeInvariant,
                      [Next]_vars
               PROVE  RuntimeInvariant'
    OBVIOUS
  <2>1. CASE UNCHANGED vars
    BY <2>1 DEF vars, RuntimeInvariant, RuntimesGone, LegacyRuntimes, Past, Alive, HeldBy
  <2>2. CASE Next
    <3>1. LegacyBuilds = {} => LegacyRuntimes' = {}
      <4> SUFFICES ASSUME LegacyBuilds = {}, NEW o \in Runtimes, objs'[o] # Absent,
                          objs'[o].legacy
                   PROVE  FALSE
        BY DEF LegacyRuntimes
      <4>1. o \in Objects
        BY ObjectsAssumption
      <4>2. ~(objs[o] # Absent /\ objs[o].legacy)
        BY DEF RuntimeInvariant, LegacyRuntimes
      <4>3. LegacyFinalizer(o)
        BY <2>2, <4>1, <4>2, ObjectOrigins
      <4> QED
        BY <4>3 DEF LegacyFinalizer
    <3>2. ASSUME NEW o \in Runtimes \ Drifting, objs'[o] # Absent, objs'[o].term
          PROVE  Past(cr') /\ Past(seen') /\ (pc' # "idle" => Past(rr'.inst))
      <4>0. /\ o \in Objects /\ cr \in CRs /\ cr' \in CRs /\ seen \in CRs
            /\ rr.inst \in CRs /\ rr'.inst \in CRs
        BY ObjectsAssumption DEF TypeOK, Requests
      <4>1. CASE objs[o] # Absent /\ objs[o].term
        <5>1. Past(cr) /\ Past(seen) /\ (pc # "idle" => Past(rr.inst))
          BY <4>1 DEF RuntimeInvariant
        <5> QED
          BY <2>2, <4>0, <5>1, PastStays, CopyMoves
      <4>2. CASE cleanupTrainerResources
        <5>1. pc = "cleanupDelete" /\ UNCHANGED <<cr, seen, rr>>
          BY <4>2 DEF cleanupTrainerResources
        <5>2. /\ rr.inst.deleting /\ rr.inst.uid >= 1
              /\ Precedes(rr.inst, seen) /\ Precedes(seen, cr)
          BY <5>1 DEF CopyInvariant, CleanupSteps
        <5>3. Past(rr.inst)
          BY <4>0, <5>2 DEF Past, Alive, CRs
        <5> QED
          BY <4>0, <5>1, <5>2, <5>3, PastStays
      <4>3. ~DriftDelete(o)
        BY DEF DriftDelete
      <4> QED
        BY <2>2, <3>2, <4>0, <4>1, <4>2, <4>3, ObjectOrigins
    <3>3. ASSUME faults' = 0, ~HeldBy(cr') \/ pc' \in {"cleanupCollect", "removeFinalizer"},
                 NEW o \in Runtimes, objs'[o] # Absent, ~objs'[o].term
          PROVE  FALSE
      <4>0. o \in Objects /\ faults = 0
        BY <2>2, <3>3, ObjectsAssumption, CleanupMoves
      <4>1. CASE Deploying
        BY <3>3, <4>1 DEF Deploying, PassInvariant, FinalizerGuards, LiveSteps
      <4>2. CASE objs[o] # Absent /\ ~objs[o].term
        <5>1. HeldBy(cr) /\ pc \notin {"cleanupCollect", "removeFinalizer"}
          BY <4>0, <4>2 DEF RuntimeInvariant, RuntimesGone
        <5>2. cleanupTrainerResources
          BY <2>2, <3>3, <5>1, CopyMoves, CleanupMoves
        <5>3. ~Fault
          BY <3>3, <4>0 DEF Fault
        <5>4. objs'[o] = Deleted(o)
          BY <4>0, <4>2, <5>2, <5>3 DEF cleanupTrainerResources, RuntimesToDelete
        <5>5. objs[o] \in ObjectStates
          BY <4>0, <4>2 DEF TypeOK
        <5> QED
          BY <3>3, <5>4, <5>5 DEF Deleted, ObjectStates
      <4> QED
        BY <2>2, <3>3, <4>0, <4>1, <4>2, ObjectOrigins
    <3> QED
      BY <3>1, <3>2, <3>3 DEF RuntimeInvariant, RuntimesGone
  <2> QED
    BY <2>1, <2>2
<1> QED
  BY <1>1, <1>2, TypeCorrect, PassInvariantHolds, CopyInvariantHolds, PTL DEF Spec

\* As long as no request failed, a CR that is gone has taken every runtime with
\* it or left it terminating: cleanupTrainerResources deletes them all before
\* the finalizer goes, and no live pass, however late, creates one after that.
THEOREM RuntimesGoWithCR == Spec => []RuntimesDeleted
<1>1. RuntimeInvariant => RuntimesDeleted
  BY DEF RuntimeInvariant, RuntimesDeleted, RuntimesGone, HeldBy
<1> QED
  BY <1>1, RuntimeInvariantHolds, PTL
-----------------------------------------------------------------------------
(* What undoes a result queues the CR.                                     *)

\* The objects a pass vouches for keep their content and their stamp.
ObjectsHold ==
  \A o \in Objects \ (Drifting \ Watched) : objs[o] # Absent =>
    /\ objs'[o] # Absent
    /\ <<objs'[o].by, objs'[o].uid, objs'[o].gen>> = <<objs[o].by, objs[o].uid, objs[o].gen>>

\* A finalizer that comes or goes, and a deletion that waits for one, leave an
\* object its content and its stamp.
LEMMA MarksLeaveContent ==
  ASSUME NEW x \in ObjectStates,
         NEW y \in {[x EXCEPT !.legacy = TRUE], [x EXCEPT !.legacy = FALSE],
                    [x EXCEPT !.term = TRUE]}
  PROVE  y # Absent /\ y.by = x.by /\ y.uid = x.uid /\ y.gen = x.gen
<1>1. y \in ObjectStates /\ y.by = x.by /\ y.uid = x.uid /\ y.gen = x.gen
  BY DEF ObjectStates
<1> QED
  BY <1>1, AbsentAssumption

\* A deployed build has its operand's Deployments and its runtime CRD.
LEMMA DeployedHasOperand ==
  ASSUME TypeOK, NEW c, DeployedFor(c)
  PROVE  (\A d \in Deployments : objs[d] # Absent) /\ RuntimeAPI
<1>1. build \in Builds
  BY DEF TypeOK
<1>2. Deployments \cup (CRDs \cap Rendered(build)) \subseteq Rendered(build) \ NotVouchedFor(c)
  BY <1>1, OperandAssumption, RuntimesAssumption DEF NotVouchedFor, Rendered
<1>3. CRDs \cap Rendered(build) # {}
  BY <1>1, RuntimesAssumption DEF Rendered
<1> QED
  BY <1>2, <1>3 DEF DeployedFor, RuntimeAPI

\* A step around the operator that does not queue the CR leaves the results of
\* its passes alone.
LEMMA ClusterKeepsResults ==
  ASSUME TypeOK, ClusterStep, ~queue'
  PROVE  /\ Healthy => Healthy'
         /\ platform' \in Versions => platform' = platform
         /\ AllAvailable' = AllAvailable
         /\ (\A d \in Deployments : objs[d] # Absent)
              => ns' = ns /\ ObjectsHold /\ (Unmarked => Unmarked')
<1>0. /\ objs \in [Objects -> ObjectStates \cup {Absent}]
      /\ pods \in [Deployments -> Builds \cup {Drifted, None}]
      /\ Deployments \subseteq Objects \cap Watched \cap Namespaced
      /\ Runtimes \subseteq Objects /\ Runtimes \cap Watched = {}
  BY ObjectsAssumption, OperandAssumption, RuntimesAssumption DEF TypeOK
<1>1. ASSUME NEW d \in Deployments, PodsFollow(d) \/ PodsDown(d)
      PROVE  /\ UNCHANGED <<objs, ns, deps, platform>> /\ objs[d] = Absent
             /\ \A x \in Deployments : x # d => pods'[x] = pods[x]
  BY <1>0, <1>1 DEF PodsFollow, PodsDown
<1>2. CASE \E d \in Deployments : PodsFollow(d) \/ PodsDown(d)
  <2>1. AllAvailable' = AllAvailable
    BY <1>1, <1>2 DEF AllAvailable
  <2> QED
    BY <1>1, <1>2, <2>1 DEF Healthy
<1>3. CASE DeleteNamespace
  <2>1. /\ UNCHANGED <<pods, deps>> /\ platform' = NoConfigMap
        /\ \A o \in Namespaced \cap Objects : objs'[o] = Absent
        /\ \A o \in Objects : ~Notifies(o)
    BY <1>3 DEF DeleteNamespace
  <2>2. \A d \in Deployments : objs[d] = Absent /\ objs'[d] = Absent
    BY <1>0, <2>1 DEF Notifies
  <2>3. ~AllAvailable /\ ~AllAvailable'
    BY <2>2 DEF AllAvailable
  <2> QED
    BY <2>1, <2>2, <2>3, OperandAssumption, VersionsAssumption DEF Healthy, AllAvailable
<1>4. ASSUME NEW o \in Objects, DriftDelete(o) \/ DriftEdit(o)
      PROVE  /\ AllAvailable' = AllAvailable /\ ObjectsHold /\ (Unmarked => Unmarked')
             /\ UNCHANGED <<pods, ns, deps, platform>>
  <2>1. /\ o \in Drifting /\ objs[o] \in ObjectStates /\ objs[o] # Absent
        /\ \A x \in Objects : x # o => objs'[x] = objs[x]
        /\ \/ objs'[o] = Absent
           \/ objs'[o] = [objs[o] EXCEPT !.term = TRUE]
           \/ objs'[o] = [objs[o] EXCEPT !.by = Drifted] /\ objs[o].by # Drifted
        /\ ~Notifies(o)
        /\ UNCHANGED <<pods, ns, deps, platform>>
    BY <1>0, <1>4 DEF DriftDelete, DriftEdit, Deleted, Changed
  <2>2. o \in Watched => objs'[o] = [objs[o] EXCEPT !.term = TRUE]
    <3>1. [objs[o] EXCEPT !.term = TRUE] # Absent
      BY <2>1, MarksLeaveContent
    <3>2. [objs[o] EXCEPT !.by = Drifted] # Absent /\ [objs[o] EXCEPT !.by = Drifted].by = Drifted
      BY <2>1, AbsentAssumption DEF ObjectStates
    <3> QED
      BY <2>1, <3>1, <3>2 DEF Notifies
  <2>3. ObjectsHold
    <3>1. o \in Watched =>
            /\ objs'[o] # Absent /\ objs'[o].by = objs[o].by
            /\ objs'[o].uid = objs[o].uid /\ objs'[o].gen = objs[o].gen
      BY <2>1, <2>2, MarksLeaveContent
    <3> QED
      BY <2>1, <3>1 DEF ObjectsHold
  <2>4. \A d \in Deployments : (objs[d] = Absent) <=> (objs'[d] = Absent)
    BY <1>0, <2>1 DEF Notifies
  <2>5. AllAvailable' = AllAvailable
    BY <2>1, <2>4 DEF AllAvailable
  <2>6. LegacyRuntimes' \subseteq LegacyRuntimes
    BY <1>0, <2>1 DEF LegacyRuntimes, ObjectStates
  <2> QED
    BY <2>1, <2>3, <2>5, <2>6 DEF Unmarked
<1>5. ASSUME NEW o \in Objects, LegacyFinalizer(o)
      PROVE  /\ AllAvailable' = AllAvailable /\ ObjectsHold /\ Unmarked'
             /\ UNCHANGED <<pods, ns, deps, platform>>
  <2>1. /\ o \in Runtimes /\ objs[o] \in ObjectStates /\ objs[o] # Absent
        /\ objs' = [objs EXCEPT ![o].legacy = TRUE]
        /\ \E d \in Deployments : pods[d] \in LegacyBuilds
        /\ UNCHANGED <<pods, ns, deps, platform>>
    BY <1>0, <1>5 DEF LegacyFinalizer
  <2>2. ObjectsHold
    <3>1. /\ objs'[o] = [objs[o] EXCEPT !.legacy = TRUE]
          /\ \A x \in Objects : x # o => objs'[x] = objs[x]
      BY <1>0, <2>1
    <3> QED
      BY <2>1, <3>1, MarksLeaveContent DEF ObjectsHold
  <2>3. \A d \in Deployments : objs'[d] = objs[d]
    BY <1>0, <2>1
  <2>4. AllAvailable' = AllAvailable
    BY <2>1, <2>3 DEF AllAvailable
  <2> QED
    BY <2>1, <2>2, <2>4 DEF Unmarked
<1>6. ASSUME NEW v \in PlatformConfigs, ChangePlatformVersion(v) PROVE FALSE
  BY <1>6 DEF ChangePlatformVersion, PlatformConfigEvent
<1>7. ASSUME NEW d \in DepStates, ChangeDependencies(d)
      PROVE  (Healthy => Healthy') /\ UNCHANGED <<objs, pods, ns, platform>>
  BY <1>7 DEF ChangeDependencies, JobSetOperatorEvent, Healthy, checkJobSetOperatorHealth,
              GetSingleton
<1>8. UNCHANGED objs => ObjectsHold
  BY DEF ObjectsHold
<1>9. UNCHANGED <<objs, pods>> => AllAvailable' = AllAvailable /\ (Unmarked => Unmarked')
  BY DEF Unmarked, LegacyRuntimes, AllAvailable
<1>10. UNCHANGED deps => (Healthy => Healthy')
  BY DEF Healthy
<1>11. CASE \E d \in DepStates : ChangeDependencies(d)
  BY <1>7, <1>8, <1>9, <1>11
<1>12. CASE \E o \in Objects : DriftDelete(o) \/ DriftEdit(o) \/ LegacyFinalizer(o)
  BY <1>4, <1>5, <1>10, <1>12
<1> QED
  BY <1>2, <1>3, <1>6, <1>11, <1>12 DEF ClusterStep
-----------------------------------------------------------------------------
(* Every step keeps SettledInvariant.                                      *)

\* What a pass over c vouches for keeps its content and its stamp.
HoldsFor(c) ==
  \A o \in Rendered(build) \ NotVouchedFor(c) : objs[o] # Absent =>
    /\ objs'[o] # Absent
    /\ <<objs'[o].by, objs'[o].uid, objs'[o].gen>> = <<objs[o].by, objs[o].uid, objs[o].gen>>

\* What is deployed stays deployed for the pass, and for the cache.
LEMMA DeployedStays ==
  ASSUME UNCHANGED <<ns, build>>
  PROVE  /\ HoldsFor(rr.inst) /\ DeployedFor(rr.inst) /\ rr'.inst = rr.inst
              => DeployedFor(rr.inst)'
         /\ HoldsFor(seen) /\ DeployedFor(seen) /\ seen' = seen => DeployedFor(seen)'
<1>1. Rendered(build)' = Rendered(build)
  BY DEF Rendered
<1>2. ASSUME HoldsFor(rr.inst), DeployedFor(rr.inst), rr'.inst = rr.inst
      PROVE  DeployedFor(rr.inst)'
  <2>1. NotVouchedFor(rr.inst)' = NotVouchedFor(rr.inst)
    BY <1>2 DEF NotVouchedFor
  <2> QED
    BY <1>1, <1>2, <2>1 DEF HoldsFor, DeployedFor
<1>3. ASSUME HoldsFor(seen), DeployedFor(seen), seen' = seen PROVE DeployedFor(seen)'
  <2>1. NotVouchedFor(seen)' = NotVouchedFor(seen)
    BY <1>3 DEF NotVouchedFor
  <2> QED
    BY <1>1, <1>3, <2>1 DEF HoldsFor, DeployedFor
<1> QED
  BY <1>2, <1>3

\* Where all objects keep their content, so do those a pass vouches for.
LEMMA HoldsForAll ==
  ASSUME TypeOK, ObjectsHold, NEW c PROVE HoldsFor(c)
<1>1. Rendered(build) \subseteq Objects
  BY ObjectsAssumption DEF Rendered, TypeOK
<1> QED
  BY <1>1 DEF ObjectsHold, HoldsFor, NotVouchedFor

\* A step that leaves all that passes write and read alone keeps the results.
LEMMA NothingChanges ==
  ASSUME UNCHANGED <<objs, pods, deps>>
  PROVE  /\ Healthy' = Healthy /\ AllAvailable' = AllAvailable /\ Unmarked' = Unmarked
         /\ \A c : HoldsFor(c)
  BY DEF Healthy, AllAvailable, Unmarked, LegacyRuntimes, HoldsFor

\* The steps around the operator.
LEMMA ClusterSettles ==
  ASSUME TypeOK, SettledInvariant, ClusterStep PROVE SettledInvariant'
<1>1. UNCHANGED <<cr, seen, build, release, pc, rr>> /\ (queue => queue')
  BY ClusterStepFrame
<1>2. RendersBuild'
  BY <1>1 DEF SettledInvariant, RendersBuild, Reached, Rendered
<1>3. CASE queue'
  <2>1. PassSettles'
    BY <1>1, <1>3 DEF SettledInvariant, PassSettles, Reached, ReportsReleases
  <2> QED
    BY <1>2, <1>3, <2>1 DEF SettledInvariant, RestSettles
<1>4. CASE ~queue'
  <2>1. /\ ~queue /\ (Healthy => Healthy') /\ (AllAvailable' = AllAvailable)
        /\ platform' \in Versions => platform' = platform
    BY <1>1, <1>4, ClusterKeepsResults
  <2>2. ASSUME NEW c, DeployedFor(c)
        PROVE  ns' = ns /\ HoldsFor(c) /\ (Unmarked => Unmarked')
    BY <1>4, <2>2, ClusterKeepsResults, DeployedHasOperand, HoldsForAll
  <2>3. (DeployedFor(rr.inst) => DeployedFor(rr.inst)') /\ (DeployedFor(seen) => DeployedFor(seen)')
    BY <1>1, <2>2, DeployedStays
  <2>4. PassSettles'
    BY <1>1, <2>1, <2>2, <2>3
    DEF SettledInvariant, PassSettles, Reached, ReportsReleases, ReportsPlatform
  <2>5. RestSettles'
    BY <1>1, <2>1, <2>2, <2>3
    DEF SettledInvariant, RestSettles, Reports, ReportsReleases, ReportsPlatform, Alive, Key
  <2> QED
    BY <1>2, <2>4, <2>5 DEF SettledInvariant
<1> QED
  BY <1>3, <1>4

\* A pass that fails, or a finalizer's, claims nothing.
LEMMA NothingClaimed ==
  ASSUME \/ pc' = "status" /\ rr'.err
         \/ pc' \in CleanupSteps \cup {"addFinalizer", "checkDependencies"}
         \/ pc' = "idle" /\ queue'
  PROVE  SettledInvariant'
  BY DEF SettledInvariant, RendersBuild, PassSettles, RestSettles, Reached, CleanupSteps

\* The same, when an action of a live pass reports its error.
LEMMA FailureClaimsNothing ==
  ASSUME TypeOK, NEW st, Fails(st) PROVE SettledInvariant'
<1>1. pc' = "status" /\ rr'.err
  BY DEF Fails, TypeOK, Requests
<1> QED
  BY <1>1, NothingClaimed

\* The steps before anything is applied.
LEMMA FirstStepsSettle ==
  ASSUME TypeOK, SettledInvariant,
         checkDependencies \/ ensureNamespace \/ updateReleases \/ renderManifests
  PROVE  SettledInvariant'
<1> USE DEF Reached
<1>1. UNCHANGED <<objs, pods, deps, platform, build, queue>>
  BY DEF checkDependencies, ensureNamespace, updateReleases, renderManifests
<1>2. Healthy' = Healthy
  BY <1>1, NothingChanges
<1>3. CASE checkDependencies
  <2>1. CASE \E st : Fails(st)
    BY <2>1, FailureClaimsNothing
  <2>2. CASE ~\E st : Fails(st)
    <3>1. PICK r \in Reasons :
            /\ r = CheckDependencies(OpenShift, deps) \/ r \in FaultReasons
            /\ r = "DependenciesAvailable" /\ Proceed
            /\ rr' = [rr EXCEPT !.st = [rr.st EXCEPT !.reason = r]]
      BY <1>3, <2>2 DEF checkDependencies
    <3>2. "DependenciesAvailable" \notin FaultReasons
      BY DEF FaultReasons, Reasons
    <3>3. CheckDependencies(OpenShift, deps) = "DependenciesAvailable" => Healthy
      BY DEF CheckDependencies, Healthy
    <3>4. pc' = "ensureNamespace"
      BY <1>3, <3>1 DEF checkDependencies, Proceed, Following
    <3>5. rr'.st.reason = "DependenciesAvailable"
      BY <3>1, RequestFields DEF TypeOK, Requests, Status
    <3> QED
      BY <1>2, <3>1, <3>2, <3>3, <3>4, <3>5
      DEF SettledInvariant, RendersBuild, PassSettles, RestSettles
  <2> QED
    BY <2>1, <2>2
<1>4. CASE ensureNamespace
  <2>1. CASE Fails(rr.st)
    BY <2>1, FailureClaimsNothing
  <2>2. CASE ~Fails(rr.st)
    <3>1. pc = "ensureNamespace" /\ pc' = "updateReleases" /\ rr' = rr
      BY <1>4, <2>2 DEF ensureNamespace, Proceed, Following
    <3> QED
      BY <1>1, <1>2, <3>1 DEF SettledInvariant, RendersBuild, PassSettles, RestSettles
  <2> QED
    BY <2>1, <2>2
<1>5. CASE updateReleases
  <2>1. CASE \E st : Fails(st)
    BY <2>1, FailureClaimsNothing
  <2>2. CASE ~\E st : Fails(st)
    <3>1. pc = "updateReleases" /\ pc' = "renderManifests"
      BY <1>5, <2>2 DEF updateReleases, Proceed, Following
    <3>2. rr.st \in Status /\ rr \in Requests /\ build \in Builds
      BY RequestFields DEF TypeOK
    <3> DEFINE st == [rr.st EXCEPT !.component = getComponentReleases]
    <3>3. st.reason = rr.st.reason /\ (build \in Described => st.component = build)
      BY <3>2 DEF Status, getComponentReleases
    <3>4. CASE getPlatformVersion \in Versions
      <4>1. rr' = [rr EXCEPT !.st = [st EXCEPT !.platform = getPlatformVersion]]
            /\ release' = getPlatformVersion
        BY <1>5, <2>2, <3>4 DEF updateReleases, Parsable
      <4>2. /\ rr'.st.reason = st.reason /\ rr'.st.component = st.component
            /\ rr'.st.platform = getPlatformVersion
        BY <3>2, <4>1 DEF Requests, Status
      <4> QED
        BY <1>1, <1>2, <3>1, <3>3, <4>1, <4>2, VersionsAssumption
        DEF SettledInvariant, RendersBuild, PassSettles, RestSettles, ReportsReleases,
            ReportsPlatform, getPlatformVersion
    <3>5. CASE getPlatformVersion \notin Versions
      <4>1. rr' = [rr EXCEPT !.st = st]
        BY <1>5, <2>2, <3>5 DEF updateReleases, Parsable
      <4>2. rr'.st = st
        BY <3>2, <4>1 DEF Requests
      <4>3. platform \notin Versions
        BY <3>5, VersionsAssumption DEF getPlatformVersion
      <4> QED
        BY <1>1, <1>2, <3>1, <3>3, <4>2, <4>3
        DEF SettledInvariant, RendersBuild, PassSettles, RestSettles, ReportsReleases,
            ReportsPlatform
    <3> QED
      BY <3>4, <3>5
  <2> QED
    BY <2>1, <2>2
<1>6. CASE renderManifests
  <2>1. CASE \E st : Fails(st)
    BY <2>1, FailureClaimsNothing
  <2>2. CASE ~\E st : Fails(st)
    <3>1. /\ pc = "renderManifests" /\ pc' = "deploy" /\ UNCHANGED release
          /\ rr' = [rr EXCEPT !.res = Rendered(build)]
      BY <1>6, <2>2 DEF renderManifests, Proceed, Following
    <3>2. rr'.res = Rendered(build) /\ rr'.st = rr.st
      BY <3>1 DEF TypeOK, Requests
    <3>3. Rendered(build)' = Rendered(build)
      BY <1>1 DEF Rendered
    <3> QED
      BY <1>1, <1>2, <3>1, <3>2, <3>3
      DEF SettledInvariant, RendersBuild, PassSettles, RestSettles, ReportsReleases,
          ReportsPlatform
  <2> QED
    BY <2>1, <2>2
<1> QED
  BY <1>3, <1>4, <1>5, <1>6

\* The deploy action applies everything its build renders, where the namespace
\* exists, or fails.
LEMMA DeploySettles ==
  ASSUME TypeOK, SettledInvariant, Deploy PROVE SettledInvariant'
<1>1. /\ pc = "deploy" /\ pc' = "deployments" /\ (queue => queue')
      /\ UNCHANGED <<deps, ns, platform, build, release, rr>>
  BY DEF Deploy, Proceed, Following, Changed
<1>2. rr.res = Rendered(build) /\ build \in Builds /\ rr.res \subseteq Objects
  BY <1>1, RequestFields DEF SettledInvariant, RendersBuild, Reached, TypeOK
<1>3. ns
  <2>1. PICK d \in Deployments : d \in rr.res /\ d \in Namespaced
    BY <1>2, OperandAssumption DEF Rendered
  <2> QED
    BY <2>1 DEF Deploy, Rejected
<1>4. ASSUME NEW o \in rr.res
      PROVE  /\ objs'[o] # Absent /\ objs'[o].by = build
             /\ objs'[o].uid = rr.inst.uid /\ objs'[o].gen = rr.inst.gen
  <2>1. objs'[o] = Applied(o)
    BY <1>2 DEF Deploy
  <2>2. Applied(o) \in ObjectStates
    BY <1>2, AppliedType
  <2>3. Applied(o).by = build /\ Applied(o).uid = rr.inst.uid /\ Applied(o).gen = rr.inst.gen
    BY <1>2 DEF TypeOK, Applied, ObjectStates
  <2> QED
    BY <2>1, <2>2, <2>3, AbsentAssumption
<1>5. DeployedFor(rr.inst)'
  BY <1>1, <1>2, <1>3, <1>4 DEF DeployedFor, Rendered
<1>6. Healthy' = Healthy
  BY <1>1 DEF Healthy
<1>7. Rendered(build)' = Rendered(build)
  BY <1>1 DEF Rendered
<1> QED
  BY <1>1, <1>5, <1>6, <1>7
  DEF SettledInvariant, RendersBuild, PassSettles, RestSettles, ReportsReleases,
      ReportsPlatform, Reached

\* The availability a pass reports is what it finds.
LEMMA AvailabilitySettles ==
  ASSUME TypeOK, SettledInvariant, deployments PROVE SettledInvariant'
<1>1. CASE Fails(rr.st)
  BY <1>1, FailureClaimsNothing
<1>2. CASE ~Fails(rr.st)
  <2>1. /\ pc = "deployments" /\ pc' = "stripRuntimeFinalizers"
        /\ UNCHANGED <<objs, pods, ns, deps, platform, build, release, queue>>
        /\ rr' = [rr EXCEPT !.avail = AllAvailable]
    BY <1>2 DEF deployments, Proceed, Following
  <2>2. /\ rr'.avail = AllAvailable /\ rr'.st = rr.st /\ rr'.inst = rr.inst
        /\ rr'.res = rr.res
    BY <2>1 DEF TypeOK, Requests
  <2>3. /\ Healthy' = Healthy /\ AllAvailable' = AllAvailable
        /\ DeployedFor(rr.inst) => DeployedFor(rr.inst)'
    BY <2>1, <2>2, NothingChanges, DeployedStays
  <2>4. Rendered(build)' = Rendered(build)
    BY <2>1 DEF Rendered
  <2> QED
    BY <2>1, <2>2, <2>3, <2>4
    DEF SettledInvariant, RendersBuild, PassSettles, RestSettles, ReportsReleases,
        ReportsPlatform, Reached
<1> QED
  BY <1>1, <1>2

\* Stripping takes the mark off every runtime. It removes one for good only
\* where the pass does not vouch for it.
LEMMA StripSettles ==
  ASSUME TypeOK, CopyInvariant, RuntimeInvariant, SettledInvariant, removeRuntimeFinalizers
  PROVE  SettledInvariant'
<1>1. CASE pc = "cleanupStrip" \/ StripFails
  <2>1. CASE pc = "cleanupStrip"
    <3>1. pc' = "cleanupDelete" \/ (pc' = "idle" /\ queue')
      BY <2>1 DEF removeRuntimeFinalizers, Proceed, Following, StripFails, GiveUp
    <3> QED
      BY <3>1, NothingClaimed DEF CleanupSteps
  <2>2. CASE pc # "cleanupStrip" /\ StripFails
    BY <2>2, FailureClaimsNothing DEF StripFails
  <2> QED
    BY <1>1, <2>1, <2>2
<1>2. CASE pc # "cleanupStrip" /\ ~StripFails
  <2>1. /\ pc = "stripRuntimeFinalizers" /\ pc' = "gc"
        /\ UNCHANGED <<pods, ns, deps, platform, build, release, queue, rr>>
        /\ Stripped(IF RuntimeAPI THEN LegacyRuntimes ELSE {})
    BY <1>2 DEF removeRuntimeFinalizers, Proceed, Following
  <2>2. /\ objs \in [Objects -> ObjectStates \cup {Absent}]
        /\ Runtimes \subseteq Objects /\ Runtimes \cap Deployments = {}
        /\ Rendered(build) \subseteq Objects
    BY ObjectsAssumption, RuntimesAssumption, OperandAssumption DEF TypeOK, Rendered
  <2>3. HoldsFor(rr.inst)
    <3> SUFFICES ASSUME NEW o \in Rendered(build) \ NotVouchedFor(rr.inst), objs[o] # Absent
                 PROVE  /\ objs'[o] # Absent /\ objs'[o].by = objs[o].by
                        /\ objs'[o].uid = objs[o].uid /\ objs'[o].gen = objs[o].gen
      BY DEF HoldsFor
    <3>1. o \in LegacyRuntimes => ~objs[o].term
      <4> SUFFICES ASSUME o \in LegacyRuntimes, objs[o].term PROVE FALSE
        OBVIOUS
      <4>1. o \in Runtimes \ Drifting /\ LegacyBuilds # {}
        BY RuntimesAssumption DEF LegacyRuntimes, NotVouchedFor, RuntimeInvariant
      <4>2. Past(rr.inst) /\ ~(rr.inst.uid > 1)
        BY <2>1, <4>1 DEF RuntimeInvariant, NotVouchedFor
      <4>3. Alive(rr.inst)
        BY <2>1 DEF CopyInvariant, Alive, LiveSteps
      <4> QED
        BY <4>2, <4>3 DEF Past
    <3>2. objs'[o] = objs[o] \/ objs'[o] = [objs[o] EXCEPT !.legacy = FALSE]
      BY <2>1, <2>2, <3>1 DEF Stripped
    <3>3. objs[o] \in ObjectStates
      BY <2>2
    <3> QED
      BY <3>2, <3>3, MarksLeaveContent
  <2>4. DeployedFor(rr.inst) => DeployedFor(rr.inst)'
    BY <2>1, <2>3, DeployedStays
  <2>5. DeployedFor(rr.inst) => LegacyRuntimes' = {}
    <3> SUFFICES ASSUME DeployedFor(rr.inst), NEW o \in Runtimes,
                        objs'[o] # Absent, objs'[o].legacy
                 PROVE  FALSE
      BY DEF LegacyRuntimes
    <3>1. RuntimeAPI
      BY DeployedHasOperand
    <3>2. o \in LegacyRuntimes => objs[o] \in ObjectStates
      BY <2>2 DEF LegacyRuntimes
    <3>3. o \in LegacyRuntimes => FALSE
      BY <2>1, <2>2, <3>1, <3>2 DEF Stripped, ObjectStates
    <3> QED
      BY <2>1, <2>2, <3>3 DEF Stripped, LegacyRuntimes
  <2>6. \A d \in Deployments : objs'[d] = objs[d]
    BY <2>1, <2>2, ObjectsAssumption DEF Stripped, LegacyRuntimes
  <2>7. AllAvailable' = AllAvailable
    BY <2>1, <2>6 DEF AllAvailable
  <2>8. Healthy' = Healthy /\ Rendered(build)' = Rendered(build)
    BY <2>1 DEF Healthy, Rendered
  <2> QED
    BY <2>1, <2>4, <2>5, <2>7, <2>8
    DEF SettledInvariant, RendersBuild, PassSettles, RestSettles, ReportsReleases,
        ReportsPlatform, Reached, Unmarked
<1> QED
  BY <1>1, <1>2

\* The collection keeps what the pass vouches for, and runtimes, and takes no
\* Deployment without an event.
LEMMA CollectionSettles ==
  ASSUME TypeOK, PassInvariant, SettledInvariant, GC PROVE SettledInvariant'
<1>1. CASE Fails(rr.st)
  BY <1>1, FailureClaimsNothing
<1>2. CASE ~Fails(rr.st)
  <2>1. /\ pc = "gc" /\ pc' = "status" /\ (queue => queue')
        /\ UNCHANGED <<pods, ns, deps, platform, build, release, rr>>
        /\ Collected(Stale) /\ Changed
    BY <1>2 DEF GC, Proceed, Following, Changed
  <2>2. rr.res = Rendered(build) /\ rr.res \subseteq Objects
    BY <2>1, RequestFields DEF SettledInvariant, RendersBuild, Reached
  <2>3. HoldsFor(rr.inst)
    <3>1. \A o \in Rendered(build) : objs[o] # Absent => Stamped(o, rr)
      BY <2>1, <2>2 DEF PassInvariant, DeployedStamped
    <3> QED
      BY <2>1, <2>2, <3>1 DEF HoldsFor, Collected, Stale
  <2>4. DeployedFor(rr.inst) => DeployedFor(rr.inst)'
    BY <2>1, <2>3, DeployedStays
  <2>5. LegacyRuntimes' = LegacyRuntimes
    BY <2>1, ObjectsAssumption DEF LegacyRuntimes, Collected, Stale, Collectable
  <2>6. ~queue' => AllAvailable' = AllAvailable
    <3>1. ASSUME ~queue', NEW d \in Deployments
          PROVE  (objs[d] = Absent) <=> (objs'[d] = Absent)
      <4>1. d \in Objects /\ d \in Watched /\ ~Notifies(d)
        BY <2>1, <3>1, ObjectsAssumption, OperandAssumption DEF Changed
      <4> QED
        BY <3>1, <4>1 DEF Notifies
    <3> QED
      BY <2>1, <3>1 DEF AllAvailable
  <2>7. Healthy' = Healthy /\ Rendered(build)' = Rendered(build)
    BY <2>1 DEF Healthy, Rendered
  <2>8. Unmarked' = Unmarked
    BY <2>1, <2>5 DEF Unmarked
  <2> QED
    BY <2>1, <2>4, <2>6, <2>7, <2>8
    DEF SettledInvariant, RendersBuild, PassSettles, RestSettles, ReportsReleases,
        ReportsPlatform, Reached
<1> QED
  BY <1>1, <1>2

\* All the steps of a pass that leave the CR alone.
LEMMA PassStepSettles ==
  ASSUME TypeOK, PassInvariant, CopyInvariant, RuntimeInvariant, SettledInvariant, PassStep
  PROVE  SettledInvariant'
<1>1. ASSUME NEW o \in Objects, DeployStops(o) \/ DeployRecovers(o) PROVE SettledInvariant'
  BY <1>1, FailureClaimsNothing DEF DeployStops, DeployRecovers
<1>2. CASE cleanupTrainerResources \/ cleanupCollect
  <2>1. pc' \in {"cleanupCollect", "removeFinalizer"} \/ (pc' = "idle" /\ queue')
    BY <1>2 DEF cleanupTrainerResources, cleanupCollect, Proceed, Following, CollectFails,
                GiveUp
  <2> QED
    BY <2>1, NothingClaimed DEF CleanupSteps
<1> QED
  BY <1>1, <1>2, FirstStepsSettle, DeploySettles, AvailabilitySettles, StripSettles,
     CollectionSettles
  DEF PassStep

\* The owner's changes make the cache differ from the CR, and touch nothing else.
LEMMA OwnerSettles ==
  ASSUME TypeOK, CopyInvariant, SettledInvariant, OwnerStep PROVE SettledInvariant'
<1>1. UNCHANGED <<seen, objs, pods, ns, deps, platform, build, release, queue, pc, rr>>
  BY DEF OwnerStep, CreateCR, UpdateSpec, DeleteCR
<1>2. /\ Healthy' = Healthy /\ AllAvailable' = AllAvailable /\ Unmarked' = Unmarked
      /\ DeployedFor(rr.inst) => DeployedFor(rr.inst)'
      /\ DeployedFor(seen) => DeployedFor(seen)'
      /\ Rendered(build)' = Rendered(build)
  BY <1>1, NothingChanges, DeployedStays DEF Rendered
<1>3. RendersBuild' /\ PassSettles'
  BY <1>1, <1>2 DEF SettledInvariant, RendersBuild, PassSettles, ReportsReleases,
                    ReportsPlatform, Reached
<1>4. Alive(seen) => Key(seen) # Key(cr')
  <2>1. cr \in CRs /\ seen \in CRs /\ Precedes(seen, cr)
    BY DEF TypeOK, CopyInvariant
  <2>2. CASE CreateCR
    <3>1. cr'.uid = cr.uid + 1
      BY <2>2 DEF CreateCR, NoCR
    <3> QED
      BY <2>1, <3>1 DEF Key, Precedes, CRs
  <2>3. CASE UpdateSpec
    <3>1. cr'.uid = cr.uid /\ cr'.gen = cr.gen + 1 /\ cr.exists
      BY <2>1, <2>3 DEF UpdateSpec, CRs
    <3> QED
      BY <2>1, <3>1 DEF Key, Precedes, CRs
  <2>4. CASE DeleteCR
    <3>1. cr'.exists = FALSE \/ cr'.deleting = TRUE
      BY <2>1, <2>4 DEF DeleteCR, NoCR, CRs
    <3> QED
      BY <2>1, <3>1 DEF Key, Alive, CRs
  <2> QED
    BY <2>2, <2>3, <2>4 DEF OwnerStep
<1>5. RestSettles'
  BY <1>1, <1>2, <1>4 DEF SettledInvariant, RestSettles, Alive, Key
<1> QED
  BY <1>3, <1>5 DEF SettledInvariant

\* The end of a pass: what it found becomes the status of a CR that is still
\* what the pass read, and what the cache holds.
LEMMA WriteStatusSettles ==
  ASSUME TypeOK, CopyInvariant, SettledInvariant, WriteStatus PROVE SettledInvariant'
<1>1. pc = "status" /\ pc' = "idle"
      /\ UNCHANGED <<seen, objs, pods, ns, deps, platform, build, release>>
  BY DEF WriteStatus
<1>2. CASE queue'
  BY <1>1, <1>2, NothingClaimed
<1>3. CASE ~queue'
  <2> DEFINE st == [rr.st EXCEPT !.ready = ~rr.err /\ rr.avail, !.gen = rr.inst.gen]
  <2>1. cr = rr.inst /\ ~rr.err /\ ~queue /\ cr' = [cr EXCEPT !.st = st]
    BY <1>3 DEF WriteStatus
  <2>2. cr \in CRs /\ seen \in CRs /\ rr.inst \in CRs /\ rr.st \in Status
        /\ rr.avail \in BOOLEAN
    BY RequestFields DEF TypeOK
  <2>3. /\ cr'.st = st /\ cr'.exists = cr.exists /\ cr'.uid = cr.uid
        /\ cr'.gen = cr.gen /\ cr'.deleting = cr.deleting
    BY <2>1, <2>2 DEF CRs
  <2>4. /\ st.ready = rr.avail /\ st.gen = rr.inst.gen /\ st.reason = rr.st.reason
        /\ st.component = rr.st.component /\ st.platform = rr.st.platform
    BY <2>1, <2>2 DEF Status
  <2>5. Precedes(rr.inst, seen) /\ Precedes(seen, cr) /\ rr.inst.exists
    BY <1>1 DEF CopyInvariant
  <2>6. seen.uid = rr.inst.uid /\ seen.gen = rr.inst.gen
    BY <2>1, <2>2, <2>5 DEF Precedes, CRs
  <2>7. /\ rr.st.reason = "DependenciesAvailable" /\ Healthy /\ ReportsReleases(rr.st)
        /\ ReportsPlatform(rr.st) /\ DeployedFor(rr.inst) /\ rr.avail = AllAvailable
        /\ Unmarked
    BY <1>1, <2>1 DEF SettledInvariant, PassSettles, Reached
  <2>8. DeployedFor(seen)
    BY <2>6, <2>7 DEF DeployedFor, NotVouchedFor
  <2>9. /\ Healthy' = Healthy /\ AllAvailable' = AllAvailable /\ Unmarked' = Unmarked
        /\ DeployedFor(seen) => DeployedFor(seen)'
    BY <1>1, NothingChanges, DeployedStays
  <2>10. RestSettles'
    BY <1>1, <2>1, <2>3, <2>4, <2>7, <2>8, <2>9
    DEF RestSettles, Reports, ReportsReleases, ReportsPlatform
  <2> QED
    BY <1>1, <2>10 DEF SettledInvariant, RendersBuild, PassSettles, Reached
<1> QED
  BY <1>2, <1>3

\* The other steps of the framework.
LEMMA FrameworkSettles ==
  ASSUME TypeOK, CopyInvariant, SettledInvariant,
         \/ Start \/ AddFinalizer \/ RemoveFinalizer \/ SyncCache
         \/ \E b \in Builds : Restart(b)
  PROVE  SettledInvariant'
<1>1. CASE Start
  <2>1. CASE pc' = "idle"
    <3>1. ~seen'.exists
      BY <1>1, <2>1 DEF Start, FirstStep
    <3> QED
      BY <2>1, <3>1 DEF SettledInvariant, RendersBuild, PassSettles, RestSettles, Reached,
                        Alive
  <2>2. CASE pc' # "idle"
    BY <1>1, <2>2, NothingClaimed DEF Start, FirstStep, CleanupSteps
  <2> QED
    BY <2>1, <2>2
<1>2. CASE AddFinalizer
  BY <1>2, NothingClaimed DEF AddFinalizer, GiveUp
<1>3. CASE RemoveFinalizer
  <2>1. CASE pc' = "idle" /\ queue'
    BY <2>1, NothingClaimed
  <2>2. CASE cr = rr.inst
    <3>1. pc' = "idle" /\ pc = "removeFinalizer" /\ seen' = seen
      BY <1>3 DEF RemoveFinalizer, GiveUp
    <3>2. /\ Precedes(rr.inst, seen) /\ Precedes(seen, cr)
          /\ rr.inst.exists /\ rr.inst.deleting /\ seen \in CRs /\ cr \in CRs
      BY <3>1 DEF CopyInvariant, CleanupSteps, TypeOK
    <3>3. ~Alive(seen)
      BY <2>2, <3>2 DEF Precedes, Alive, CRs
    <3> QED
      BY <3>1, <3>3 DEF SettledInvariant, RendersBuild, PassSettles, RestSettles, Reached,
                        Alive
  <2> QED
    BY <1>3, <2>1, <2>2 DEF RemoveFinalizer, GiveUp
<1>4. CASE SyncCache
  <2>1. /\ UNCHANGED <<cr, objs, pods, ns, deps, platform, build, release, pc, rr>>
        /\ seen' = cr /\ (queue => queue') /\ (~queue' => Key(seen) = Key(cr))
    BY <1>4 DEF SyncCache, Key
  <2>2. /\ Healthy' = Healthy /\ AllAvailable' = AllAvailable /\ Unmarked' = Unmarked
        /\ DeployedFor(rr.inst) => DeployedFor(rr.inst)'
        /\ Rendered(build)' = Rendered(build)
    BY <2>1, NothingChanges, DeployedStays DEF Rendered
  <2>3. RendersBuild' /\ PassSettles'
    BY <2>1, <2>2 DEF SettledInvariant, RendersBuild, PassSettles, ReportsReleases,
                      ReportsPlatform, Reached
  <2>4. RestSettles'
    <3> SUFFICES ASSUME pc' = "idle", ~queue', Alive(seen') PROVE RestSettles'
      BY DEF RestSettles, Alive
    <3>1. Key(seen) = Key(cr) /\ Alive(seen) /\ pc = "idle" /\ ~queue
      BY <2>1 DEF Key, Alive
    <3>2. DeployedFor(seen) /\ Unmarked /\ Reports(cr.st) /\ cr.st.gen = cr.gen
      BY <3>1 DEF SettledInvariant, RestSettles
    <3>3. DeployedFor(seen)'
      BY <2>1, <2>2, <3>1, <3>2 DEF DeployedFor, NotVouchedFor, Key
    <3> QED
      BY <2>1, <2>2, <3>2, <3>3 DEF RestSettles, Reports, ReportsReleases, ReportsPlatform
  <2> QED
    BY <2>3, <2>4 DEF SettledInvariant
<1>5. ASSUME NEW b \in Builds, Restart(b) PROVE SettledInvariant'
  <2>1. pc' = "idle" /\ seen' = cr /\ queue' = cr.exists
    BY <1>5 DEF Restart
  <2> QED
    BY <2>1 DEF SettledInvariant, RendersBuild, PassSettles, RestSettles, Reached, Alive
<1> QED
  BY <1>1, <1>2, <1>3, <1>4, <1>5
-----------------------------------------------------------------------------
\* The invariant behind the four theorems about rest.
THEOREM SettledInvariantHolds == Spec => []SettledInvariant
<1>1. Init => SettledInvariant
  BY DEF Init, NoCR, SettledInvariant, RendersBuild, PassSettles, RestSettles, Reached, Alive
<1>2. /\ TypeOK /\ PassInvariant /\ CopyInvariant /\ RuntimeInvariant /\ SettledInvariant
      /\ [Next]_vars
      => SettledInvariant'
  <2> SUFFICES ASSUME TypeOK, PassInvariant, CopyInvariant, RuntimeInvariant,
                      SettledInvariant, [Next]_vars
               PROVE  SettledInvariant'
    OBVIOUS
  <2>1. CASE UNCHANGED vars
    <3>1. UNCHANGED <<cr, seen, objs, pods, ns, deps, platform, build, release, queue, pc, rr>>
      BY <2>1 DEF vars
    <3>2. /\ Healthy' = Healthy /\ AllAvailable' = AllAvailable /\ Unmarked' = Unmarked
          /\ DeployedFor(rr.inst) => DeployedFor(rr.inst)'
          /\ DeployedFor(seen) => DeployedFor(seen)'
          /\ Rendered(build)' = Rendered(build)
      BY <3>1, NothingChanges, DeployedStays DEF Rendered
    <3> QED
      BY <3>1, <3>2 DEF SettledInvariant, RendersBuild, PassSettles, RestSettles, Reports,
                        ReportsReleases, ReportsPlatform, Reached, Alive, Key
  <2>2. CASE Next
    BY <2>2, StepKinds, ClusterSettles, PassStepSettles, OwnerSettles, WriteStatusSettles,
       FrameworkSettles
  <2> QED
    BY <2>1, <2>2
<1> QED
  BY <1>1, <1>2, TypeCorrect, PassInvariantHolds, CopyInvariantHolds, RuntimeInvariantHolds,
     PTL
  DEF Spec

\* An operator at rest with a live CR has deployed its build for that CR, and
\* nothing has taken a part of it away or edited it since without an event.
THEOREM RestIsDeployed == Spec => []SettledDeployed
<1>1. SettledInvariant => SettledDeployed
  BY DEF SettledInvariant, RestSettles, SettledDeployed, Quiet, Live, Alive
<1> QED
  BY <1>1, SettledInvariantHolds, PTL

\* The status of an operator at rest is true of the cluster: what it says about
\* the operand, the generation and the two releases could not change since
\* without an event.
THEOREM RestIsReported == Spec => []SettledStatus
<1>1. SettledInvariant => SettledStatus
  BY DEF SettledInvariant, RestSettles, SettledStatus, Quiet, Live, Alive, Reports,
         ReportsReleases, ReportsPlatform
<1> QED
  BY <1>1, SettledInvariantHolds, PTL

\* An operator at rest found its dependencies there, and on OpenShift its
\* JobSetOperator is healthy still.
THEOREM RestIsHealthy == Spec => []SettledDependencies
<1>1. SettledInvariant => SettledDependencies
  BY DEF SettledInvariant, RestSettles, SettledDependencies, Quiet, Live, Alive, Reports,
         Healthy
<1> QED
  BY <1>1, SettledInvariantHolds, PTL

\* No runtime carries the legacy finalizer once an operator at rest has rolled
\* the operand past the builds that set it.
THEOREM RestIsUnmarked == Spec => []SettledFinalizers
<1>1. SettledInvariant => SettledFinalizers
  BY DEF SettledInvariant, RestSettles, SettledFinalizers, Quiet, Live, Alive, Unmarked
<1> QED
  BY <1>1, SettledInvariantHolds, PTL
-----------------------------------------------------------------------------
(* What earlier builds rendered. The collector tells builds apart by their *)
(* release only, so this holds where each build brings its own and no      *)
(* platform sets another.                                                  *)

OwnReleases ==
  /\ Versions = {}
  /\ \A b, c \in Builds : readBootstrapRelease(b) = readBootstrapRelease(c) => b = c

OthersCollected == \A o \in Collectable \ Rendered(build) : objs[o] = Absent

\* Inductive: the release a pass stamps is its build's, every object carries
\* that of a build that renders it, and a pass that has collected leaves only
\* its build's.
StaleInvariant ==
  /\ release = readBootstrapRelease(build)
  /\ pc # "idle" => rr.release = release
  /\ \A o \in Objects : objs[o] # Absent =>
       \E b \in Builds : o \in Rendered(b) /\ objs[o].rel = readBootstrapRelease(b)
  /\ pc = "status" /\ ~rr.err => OthersCollected
  /\ pc = "idle" /\ ~queue /\ Alive(seen) => OthersCollected

\* An object has the release it had, or the one the deploy action stamps.
LEMMA ReleaseOrigins ==
  ASSUME TypeOK, Next, NEW o \in Objects, objs'[o] # Absent
  PROVE  \/ objs[o] # Absent /\ objs'[o].rel = objs[o].rel
         \/ pc = "deploy" /\ o \in rr.res /\ objs'[o].rel = rr.release
<1>0. objs \in [Objects -> ObjectStates \cup {Absent}]
  BY DEF TypeOK
<1>1. CASE objs'[o] = objs[o]
  BY <1>1
<1>2. CASE Deploy \/ \E x \in Objects : DeployStops(x) \/ DeployRecovers(x)
  <2>1. pc = "deploy"
    BY <1>2 DEF Deploy, DeployStops, DeployRecovers
  <2>2. objs'[o] = objs[o] \/ (o \in rr.res /\ objs'[o] = Applied(o))
    BY <1>2 DEF Deploy, DeployStops, DeployRecovers, Earlier
  <2>3. Applied(o).rel = rr.release
    BY <1>0 DEF Applied, ObjectStates
  <2> QED
    BY <1>1, <2>1, <2>2, <2>3
<1>3. CASE cleanupTrainerResources
  BY <1>0, <1>3 DEF cleanupTrainerResources, Deleted, ObjectStates
<1>4. CASE removeRuntimeFinalizers
  <2>1. objs'[o] = objs[o] \/ (objs[o] # Absent /\ objs'[o] = [objs[o] EXCEPT !.legacy = FALSE])
    BY <1>4 DEF removeRuntimeFinalizers, Stripped, LegacyRuntimes
  <2> QED
    BY <1>0, <2>1 DEF ObjectStates
<1>5. CASE DriftDelete(o) \/ DriftEdit(o) \/ LegacyFinalizer(o)
  <2>1. objs[o] # Absent /\ objs[o] \in ObjectStates
    BY <1>0, <1>5 DEF DriftDelete, DriftEdit, LegacyFinalizer
  <2>2. \/ objs'[o] = [objs[o] EXCEPT !.term = TRUE]
        \/ objs'[o] = [objs[o] EXCEPT !.by = Drifted]
        \/ objs'[o] = [objs[o] EXCEPT !.legacy = TRUE]
    BY <1>0, <1>5 DEF DriftDelete, DriftEdit, LegacyFinalizer, Deleted
  <2> QED
    BY <2>1, <2>2 DEF ObjectStates
<1>6. CASE GC \/ cleanupCollect \/ DeleteNamespace
  BY <1>1, <1>6 DEF GC, cleanupCollect, DeleteNamespace, Collected
<1>7. ASSUME NEW x \in Objects, x # o, DriftDelete(x) \/ DriftEdit(x) \/ LegacyFinalizer(x)
      PROVE  objs'[o] = objs[o]
  BY <1>0, <1>7 DEF DriftDelete, DriftEdit, LegacyFinalizer
<1> QED
  BY <1>1, <1>2, <1>3, <1>4, <1>5, <1>6, <1>7, ObjectsStay

\* Outside the deploy action nothing is created.
LEMMA CollectedStay ==
  ASSUME TypeOK, Next, pc # "deploy", build' = build, OthersCollected PROVE OthersCollected'
<1>1. Rendered(build)' = Rendered(build)
  BY DEF Rendered
<1> QED
  BY <1>1, ReleaseOrigins DEF OthersCollected, Collectable

\* Without platform versions a pass and the reconciler keep their release.
LEMMA PassKeepsRelease ==
  ASSUME TypeOK, OwnReleases, PassStep
  PROVE  release' = release /\ (pc' # "idle" => rr'.release = rr.release)
<1>0. ASSUME NEW st, Fails(st) PROVE rr'.release = rr.release
  BY <1>0 DEF Fails, TypeOK, Requests
<1>1. CASE checkDependencies
  BY <1>0, <1>1 DEF checkDependencies, TypeOK, Requests
<1>2. CASE updateReleases
  BY <1>0, <1>2 DEF updateReleases, Parsable, OwnReleases, TypeOK, Requests
<1>3. CASE ensureNamespace \/ renderManifests \/ deployments
  BY <1>0, <1>3 DEF ensureNamespace, renderManifests, deployments, TypeOK, Requests
<1>4. CASE Deploy \/ \E o \in Objects : DeployStops(o) \/ DeployRecovers(o)
  BY <1>0, <1>4 DEF Deploy, DeployStops, DeployRecovers
<1>5. CASE removeRuntimeFinalizers
  BY <1>0, <1>5 DEF removeRuntimeFinalizers, StripFails, GiveUp
<1>6. CASE GC \/ cleanupTrainerResources \/ cleanupCollect
  BY <1>0, <1>6 DEF GC, cleanupTrainerResources, cleanupCollect, CollectFails, GiveUp
<1> QED
  BY <1>1, <1>2, <1>3, <1>4, <1>5, <1>6 DEF PassStep

\* Only the collection ends a pass without an error.
LEMMA OnlyCollectionEnds ==
  ASSUME TypeOK, PassStep, pc' = "status", ~rr'.err PROVE GC /\ Collected(Stale)
<1>0. ASSUME NEW st, Fails(st) PROVE FALSE
  BY <1>0 DEF Fails, TypeOK, Requests
<1>1. ASSUME pc # "gc", Proceed PROVE FALSE
  BY <1>1 DEF Proceed, Following, PassStep, checkDependencies, ensureNamespace,
     updateReleases, renderManifests, Deploy, DeployStops, DeployRecovers, deployments,
     removeRuntimeFinalizers, GC, cleanupTrainerResources, cleanupCollect
<1>2. CASE checkDependencies \/ updateReleases \/ ensureNamespace \/ renderManifests
             \/ deployments
  BY <1>0, <1>1, <1>2 DEF checkDependencies, updateReleases, ensureNamespace,
                          renderManifests, deployments
<1>3. CASE Deploy \/ \E o \in Objects : DeployStops(o) \/ DeployRecovers(o)
  BY <1>0, <1>1, <1>3 DEF Deploy, DeployStops, DeployRecovers
<1>4. CASE removeRuntimeFinalizers \/ cleanupTrainerResources \/ cleanupCollect
  BY <1>0, <1>1, <1>4 DEF removeRuntimeFinalizers, StripFails, cleanupTrainerResources,
                          cleanupCollect, CollectFails, GiveUp
<1>5. CASE GC
  BY <1>0, <1>5 DEF GC
<1> QED
  BY <1>2, <1>3, <1>4, <1>5 DEF PassStep

\* The invariant about releases holds where each build brings its own.
LEMMA StaleInvariantHolds ==
  ASSUME OwnReleases PROVE Spec => []StaleInvariant
<1>1. Init => StaleInvariant
  BY DEF Init, NoCR, StaleInvariant, Alive
<1>2. /\ TypeOK /\ CopyInvariant /\ SettledInvariant /\ StaleInvariant /\ [Next]_vars
      => StaleInvariant'
  <2> SUFFICES ASSUME TypeOK, CopyInvariant, SettledInvariant, StaleInvariant, [Next]_vars
               PROVE  StaleInvariant'
    OBVIOUS
  <2> DEFINE Known == \A o \in Objects : objs[o] # Absent =>
               \E b \in Builds : o \in Rendered(b) /\ objs[o].rel = readBootstrapRelease(b)
  <2>0. build \in Builds
    BY DEF TypeOK
  <2>1. CASE UNCHANGED vars
    BY <2>1 DEF vars, StaleInvariant, OthersCollected, Rendered, Alive
  <2>2. CASE Next
    <3>1. Known'
      <4>1. pc = "deploy" => /\ rr.res = Rendered(build)
                            /\ rr.release = readBootstrapRelease(build)
        BY DEF SettledInvariant, RendersBuild, Reached, StaleInvariant
      <4> SUFFICES ASSUME NEW o \in Objects, objs'[o] # Absent
                   PROVE \E b \in Builds :
                           o \in Rendered(b) /\ objs'[o].rel = readBootstrapRelease(b)
        BY DEF Rendered, readBootstrapRelease
      <4>2. CASE objs[o] # Absent /\ objs'[o].rel = objs[o].rel
        BY <4>2 DEF StaleInvariant
      <4>3. CASE pc = "deploy" /\ o \in rr.res /\ objs'[o].rel = rr.release
        BY <2>0, <4>1, <4>3
      <4> QED
        BY <2>2, <4>2, <4>3, ReleaseOrigins
    <3>2. CASE PassStep
      <4>1. UNCHANGED <<build, release>> /\ (pc' # "idle" => rr'.release = rr.release)
            /\ (pc' = "idle" => queue') /\ (pc' # "idle" => pc # "idle")
        BY <3>2, PassStepFrame, PassKeepsRelease DEF LiveSteps, CleanupSteps
      <4>2. pc' = "status" /\ ~rr'.err => OthersCollected'
        <5> SUFFICES ASSUME pc' = "status", ~rr'.err,
                            NEW o \in Collectable \ Rendered(build), objs'[o] # Absent
                     PROVE  FALSE
          BY <4>1 DEF OthersCollected, Rendered
        <5>1. pc = "gc" /\ Collected(Stale)
          BY <3>2, OnlyCollectionEnds DEF GC
        <5>2. o \in Objects /\ objs[o] # Absent /\ Stamped(o, rr)
          BY <5>1 DEF Collected, Stale, Collectable
        <5>3. PICK b \in Builds : o \in Rendered(b) /\ objs[o].rel = readBootstrapRelease(b)
          BY <5>2 DEF StaleInvariant
        <5>4. readBootstrapRelease(b) = readBootstrapRelease(build)
          BY <5>1, <5>2, <5>3 DEF StaleInvariant, Stamped
        <5>5. b = build
          BY <2>0, <5>4 DEF OwnReleases
        <5> QED
          BY <5>3, <5>5
      <4>3. readBootstrapRelease(build)' = readBootstrapRelease(build)
        BY <4>1 DEF readBootstrapRelease
      <4> QED
        BY <3>1, <4>1, <4>2, <4>3 DEF StaleInvariant
    <3>3. CASE ClusterStep \/ OwnerStep
      <4>1. UNCHANGED <<seen, build, release, pc, rr>> /\ (queue => queue')
        BY <3>3, ClusterStepFrame DEF OwnerStep, CreateCR, UpdateSpec, DeleteCR
      <4>2. readBootstrapRelease(build)' = readBootstrapRelease(build)
        BY <4>1 DEF readBootstrapRelease
      <4> QED
        BY <2>2, <3>1, <4>1, <4>2, CollectedStay DEF StaleInvariant, Alive
    <3>4. CASE Start
      <4>1. UNCHANGED <<build, release, seen>> /\ (pc' # "idle" => rr'.release = release)
            /\ (pc' = "idle" => ~Alive(seen)) /\ pc' # "status"
        BY <3>4 DEF Start, FirstStep, Alive
      <4>2. readBootstrapRelease(build)' = readBootstrapRelease(build)
        BY <4>1 DEF readBootstrapRelease
      <4> QED
        BY <3>1, <4>1, <4>2 DEF StaleInvariant, Alive
    <3>5. CASE AddFinalizer \/ RemoveFinalizer
      <4>1. UNCHANGED <<build, release, seen>> /\ pc' # "status"
            /\ (pc' # "idle" => rr'.release = rr.release /\ pc # "idle")
        BY <3>5 DEF AddFinalizer, RemoveFinalizer, GiveUp, TypeOK, Requests
      <4>2. pc' = "idle" /\ ~queue' => ~Alive(seen)
        <5> SUFFICES ASSUME pc' = "idle", ~queue' PROVE ~Alive(seen)
          OBVIOUS
        <5>1. pc = "removeFinalizer" /\ cr = rr.inst
          BY <3>5 DEF AddFinalizer, RemoveFinalizer, GiveUp
        <5>2. /\ Precedes(rr.inst, seen) /\ Precedes(seen, cr)
              /\ rr.inst.exists /\ rr.inst.deleting /\ seen \in CRs /\ cr \in CRs
          BY <5>1 DEF CopyInvariant, CleanupSteps, TypeOK
        <5> QED
          BY <5>1, <5>2 DEF Precedes, Alive, CRs
      <4>3. readBootstrapRelease(build)' = readBootstrapRelease(build)
        BY <4>1 DEF readBootstrapRelease
      <4> QED
        BY <3>1, <4>1, <4>2, <4>3 DEF StaleInvariant, Alive
    <3>6. CASE WriteStatus
      <4>1. UNCHANGED <<build, release, seen>> /\ pc = "status" /\ pc' = "idle"
            /\ (~queue' => ~rr.err)
        BY <3>6 DEF WriteStatus
      <4>2. readBootstrapRelease(build)' = readBootstrapRelease(build)
        BY <4>1 DEF readBootstrapRelease
      <4> QED
        BY <2>2, <3>1, <4>1, <4>2, CollectedStay DEF StaleInvariant
    <3>7. CASE SyncCache
      <4>1. UNCHANGED <<build, release, pc, rr>> /\ seen' = cr /\ (queue => queue')
            /\ (~queue' => Key(seen) = Key(cr))
        BY <3>7 DEF SyncCache, Key
      <4>2. readBootstrapRelease(build)' = readBootstrapRelease(build)
        BY <4>1 DEF readBootstrapRelease
      <4>3. ~queue' /\ Alive(seen') => Alive(seen)
        BY <4>1 DEF Key, Alive
      <4> QED
        BY <2>2, <3>1, <4>1, <4>2, <4>3, CollectedStay DEF StaleInvariant, Alive
    <3>8. ASSUME NEW b \in Builds, Restart(b) PROVE StaleInvariant'
      <4>1. release' = readBootstrapRelease(build') /\ pc' = "idle" /\ seen' = cr
            /\ queue' = cr.exists
        BY <3>8 DEF Restart
      <4> QED
        BY <3>1, <4>1 DEF StaleInvariant, Alive, readBootstrapRelease
    <3> QED
      BY <2>2, <3>2, <3>3, <3>4, <3>5, <3>6, <3>7, <3>8, StepKinds
  <2> QED
    BY <2>1, <2>2
<1> QED
  BY <1>1, <1>2, TypeCorrect, CopyInvariantHolds, SettledInvariantHolds, PTL DEF Spec

\* Where each build brings a release of its own, an operator at rest has
\* collected what other builds rendered and its own does not.
THEOREM RestIsCollected == ASSUME OwnReleases PROVE Spec => []StaleCollected
<1>1. StaleInvariant => StaleCollected
  BY DEF StaleInvariant, StaleCollected, OthersCollected, Quiet, Live, Alive
<1> QED
  BY <1>1, StaleInvariantHolds, PTL
=============================================================================
