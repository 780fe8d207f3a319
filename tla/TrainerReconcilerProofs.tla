----------------------- MODULE TrainerReconcilerProofs -----------------------
(***************************************************************************)
(* TLAPS proofs about TrainerReconciler, for every set of objects, builds, *)
(* versions and dependencies and every bound: types, that the garbage      *)
(* collection of a pass keeps what it rendered, and that the CR never goes *)
(* away before what it stands for.                                         *)
(***************************************************************************)
EXTENDS TrainerReconciler, TLAPS

Steps == LiveSteps \cup CleanupSteps \cup {"idle", "addFinalizer"}

-----------------------------------------------------------------------------
(* The parts a step is made of.                                            *)

\* A status nobody has written, a CR that does not exist and the request
\* between two passes are well typed.
LEMMA InitialValues ==
  /\ NoStatus \in Status
  /\ \A u \in 0..MaxUid : NoCR(u) \in CRs
  /\ NoRequest \in Requests
<1>1. NoStatus \in Status
  BY BoundsAssumption DEF NoStatus, Status
<1>2. \A u \in 0..MaxUid : NoCR(u) \in CRs
  BY <1>1, BoundsAssumption DEF NoCR, CRs
<1>3. NoRequest \in Requests
  BY <1>1, <1>2, BoundsAssumption, InitialAssumption DEF NoRequest, Requests, Releases
<1> QED
  BY <1>1, <1>2, <1>3

\* The fields of a well-typed request.
LEMMA RequestFields ==
  ASSUME TypeOK
  PROVE  /\ rr.inst \in CRs /\ rr.release \in Releases /\ rr.res \subseteq Objects
         /\ rr.st \in Status /\ rr.avail \in BOOLEAN /\ rr.err \in BOOLEAN
  BY DEF TypeOK, Requests

\* A failed request stays within its bound.
LEMMA FaultType == ASSUME TypeOK, Fault PROVE faults' \in 0..MaxFaults
  BY BoundsAssumption DEF TypeOK, Fault

\* An act of the environment stays within its bound.
LEMMA EnvActType == ASSUME TypeOK, EnvAct PROVE env' \in 0..MaxEnv
  BY BoundsAssumption DEF TypeOK, EnvAct

\* An action that fails leaves a well-typed request and goes to the status.
LEMMA FailsType ==
  ASSUME TypeOK, NEW st \in Status, Fails(st) PROVE rr' \in Requests /\ pc' = "status"
  BY DEF TypeOK, Fails, Requests

\* A finalizer pass that gives up is queued again.
LEMMA GiveUpType ==
  ASSUME GiveUp PROVE rr' \in Requests /\ pc' = "idle" /\ queue' \in BOOLEAN
  BY InitialValues DEF GiveUp

\* The events of a step leave the queue a flag.
LEMMA ChangedType == ASSUME TypeOK, Changed PROVE queue' \in BOOLEAN
  BY DEF TypeOK, Changed

\* Every action but the last of its list has a successor.
LEMMA ProceedType ==
  ASSUME pc \in (LiveSteps \cup CleanupSteps) \ {"status", "removeFinalizer"}, Proceed
  PROVE  pc' \in Steps
  BY DEF Proceed, Following, Steps, LiveSteps, CleanupSteps

\* Applying an object gives an object.
LEMMA AppliedType ==
  ASSUME TypeOK, NEW o \in Objects PROVE Applied(o) \in ObjectStates
  BY RequestFields DEF TypeOK, Applied, ObjectStates, CRs

\* Deleting an object gives an object that terminates, or none.
LEMMA DeletedType ==
  ASSUME TypeOK, NEW o \in Objects PROVE Deleted(o) \in ObjectStates \cup {Absent}
  BY DEF TypeOK, Deleted, ObjectStates

\* Collecting objects leaves the others as they are.
LEMMA CollectedType ==
  ASSUME TypeOK, NEW S, Collected(S) PROVE objs' \in [Objects -> ObjectStates \cup {Absent}]
  BY DEF TypeOK, Collected

\* So does stripping runtimes of their finalizer.
LEMMA StrippedType ==
  ASSUME TypeOK, NEW S \in SUBSET LegacyRuntimes, Stripped(S)
  PROVE  objs' \in [Objects -> ObjectStates \cup {Absent}]
<1>1. ASSUME NEW o \in Objects
      PROVE (IF o \notin S THEN objs[o]
             ELSE IF objs[o].term THEN Absent
             ELSE [objs[o] EXCEPT !.legacy = FALSE]) \in ObjectStates \cup {Absent}
  <2>1. o \in S => objs[o] \in ObjectStates
    BY DEF TypeOK, LegacyRuntimes
  <2> QED
    BY <2>1 DEF TypeOK, ObjectStates
<1> QED
  BY <1>1 DEF Stripped
-----------------------------------------------------------------------------
\* Every reachable state is well typed: no step writes a status, a stamp or a
\* request that the code's types could not hold.
THEOREM TypeCorrect == Spec => []TypeOK
<1>1. Init => TypeOK
  <2> SUFFICES ASSUME Init PROVE TypeOK
    OBVIOUS
  <2>1. cr \in CRs /\ seen \in CRs /\ rr \in Requests
    BY InitialValues, BoundsAssumption DEF Init
  <2>2. objs \in [Objects -> ObjectStates \cup {Absent}]
    BY DEF Init
  <2>3. pods \in [Deployments -> Builds \cup {Drifted, None}]
    BY DEF Init
  <2>4. deps \in DepStates /\ build \in Builds /\ release \in Releases
    BY InitialAssumption DEF Init, Releases, readBootstrapRelease
  <2>5. faults \in 0..MaxFaults /\ env \in 0..MaxEnv
    BY BoundsAssumption DEF Init
  <2> QED
    BY <2>1, <2>2, <2>3, <2>4, <2>5 DEF Init, TypeOK, PlatformConfigs
<1>2. TypeOK /\ [Next]_vars => TypeOK'
  <2> SUFFICES ASSUME TypeOK, [Next]_vars PROVE TypeOK'
    OBVIOUS
  <2> USE DEF LiveSteps, CleanupSteps, Steps
  <2>1. CASE UNCHANGED vars
    BY <2>1 DEF vars, TypeOK
  <2>2. CASE Start
    BY <2>2, InitialValues DEF Start, FirstStep, TypeOK, Requests, CRs
  <2>3. CASE AddFinalizer
    <3>1. [cr EXCEPT !.fin = TRUE] \in CRs
      BY DEF TypeOK, CRs
    <3>2. faults' \in 0..MaxFaults
      BY <2>3, BoundsAssumption DEF AddFinalizer, TypeOK
    <3>3. cr' \in CRs => [rr EXCEPT !.inst = cr'] \in Requests
      BY DEF TypeOK, Requests
    <3> QED
      BY <2>3, <3>1, <3>2, <3>3, GiveUpType DEF AddFinalizer, TypeOK
  <2>4. CASE WriteStatus
    <3> DEFINE st == [rr.st EXCEPT !.ready = ~rr.err /\ rr.avail, !.gen = rr.inst.gen]
    <3>1. st \in Status
      BY RequestFields DEF Status, CRs
    <3>2. [cr EXCEPT !.st = st] \in CRs
      BY <3>1 DEF TypeOK, CRs
    <3>3. cr' \in CRs /\ rr' \in Requests /\ pc' \in Steps
      BY <2>4, <3>2, InitialValues DEF WriteStatus, TypeOK
    <3>4. queue' \in BOOLEAN /\ faults' \in 0..MaxFaults
      BY <2>4, RequestFields, FaultType DEF WriteStatus, TypeOK
    <3> QED
      BY <2>4, <3>3, <3>4 DEF WriteStatus, TypeOK
  <2>5. CASE checkDependencies
    <3>1. PICK r \in Reasons :
            /\ UNCHANGED faults \/ Fault
            /\ LET st == [rr.st EXCEPT !.reason = r]
               IN  (Proceed /\ rr' = [rr EXCEPT !.st = st]) \/ Fails(st)
      BY <2>5 DEF checkDependencies
    <3>2. [rr.st EXCEPT !.reason = r] \in Status
      BY RequestFields DEF Status
    <3>3. rr' \in Requests /\ pc' \in Steps
      BY <2>5, <3>1, <3>2, FailsType, ProceedType DEF checkDependencies, TypeOK, Requests
    <3> QED
      BY <2>5, <3>1, <3>3, FaultType DEF checkDependencies, TypeOK
  <2>6. CASE ensureNamespace
    BY <2>6, FaultType, FailsType, ProceedType, RequestFields DEF ensureNamespace, TypeOK
  <2>7. CASE updateReleases
    <3>1. [rr.st EXCEPT !.component = getComponentReleases] \in Status
      BY RequestFields DEF TypeOK, Status, getComponentReleases
    <3>2. getPlatformVersion \in Versions =>
            [[rr.st EXCEPT !.component = getComponentReleases]
               EXCEPT !.platform = getPlatformVersion] \in Status
      BY <3>1 DEF Status
    <3>3. rr' \in Requests /\ pc' \in Steps
      BY <2>7, <3>1, <3>2, FailsType, ProceedType DEF updateReleases, Parsable, TypeOK, Requests
    <3> QED
      BY <2>7, <3>3, FaultType DEF updateReleases, Parsable, TypeOK, Releases
  <2>8. CASE renderManifests
    <3>1. [rr EXCEPT !.res = Rendered(build)] \in Requests
      BY ObjectsAssumption DEF TypeOK, Requests, Rendered
    <3> QED
      BY <2>8, <3>1, FaultType, FailsType, ProceedType, RequestFields
      DEF renderManifests, TypeOK
  <2>9. CASE Deploy
    BY <2>9, AppliedType, ChangedType, ProceedType DEF Deploy, TypeOK
  <2>10. ASSUME NEW o \in Objects, DeployStops(o) PROVE TypeOK'
    BY <2>10, AppliedType, ChangedType, FaultType, FailsType, RequestFields
    DEF DeployStops, TypeOK
  <2>11. ASSUME NEW o \in Objects, DeployRecovers(o) PROVE TypeOK'
    BY <2>11, AppliedType, ChangedType, FaultType, FailsType, RequestFields
    DEF DeployRecovers, TypeOK
  <2>12. CASE deployments
    <3>1. [rr EXCEPT !.avail = AllAvailable] \in Requests
      BY DEF TypeOK, Requests, AllAvailable
    <3> QED
      BY <2>12, <3>1, FaultType, FailsType, ProceedType, RequestFields
      DEF deployments, TypeOK
  <2>13. CASE removeRuntimeFinalizers
    <3>1. objs' \in [Objects -> ObjectStates \cup {Absent}]
      BY <2>13, StrippedType DEF removeRuntimeFinalizers, TypeOK
    <3>2. rr' \in Requests /\ pc' \in Steps /\ queue' \in BOOLEAN
      BY <2>13, FailsType, GiveUpType, ProceedType, RequestFields
      DEF removeRuntimeFinalizers, StripFails, TypeOK
    <3> QED
      BY <2>13, <3>1, <3>2, FaultType DEF removeRuntimeFinalizers, TypeOK
  <2>14. CASE GC
    BY <2>14, CollectedType, ChangedType, FaultType, FailsType, ProceedType, RequestFields
    DEF GC, TypeOK
  <2>15. CASE cleanupTrainerResources
    BY <2>15, DeletedType, FaultType, ProceedType DEF cleanupTrainerResources, TypeOK
  <2>16. CASE cleanupCollect
    BY <2>16, CollectedType, ChangedType, FaultType, GiveUpType, ProceedType
    DEF cleanupCollect, CollectFails, TypeOK
  <2>17. CASE RemoveFinalizer
    BY <2>17, InitialValues, FaultType, GiveUpType DEF RemoveFinalizer, TypeOK, CRs
  <2>18. CASE SyncCache
    BY <2>18 DEF SyncCache, TypeOK
  <2>19. ASSUME NEW d \in Deployments, PodsFollow(d) PROVE TypeOK'
    <3>1. (IF objs[d] = Absent THEN None ELSE objs[d].by) \in Builds \cup {Drifted, None}
      BY ObjectsAssumption DEF TypeOK, ObjectStates
    <3> QED
      BY <2>19, <3>1 DEF PodsFollow, TypeOK
  <2>20. CASE CreateCR \/ UpdateSpec \/ DeleteCR
    <3>1. cr' \in CRs
      <4>1. CASE CreateCR
        <5>1. cr.uid + 1 \in 0..MaxUid /\ 1 \in 0..MaxGen
          BY <4>1, BoundsAssumption DEF CreateCR, TypeOK, CRs
        <5>2. NoCR(cr.uid + 1) \in CRs
          BY <5>1, InitialValues
        <5> QED
          BY <4>1, <5>1, <5>2 DEF CreateCR, CRs
      <4>2. CASE UpdateSpec
        <5>1. cr.gen + 1 \in 0..MaxGen
          BY <4>2, BoundsAssumption DEF UpdateSpec, TypeOK, CRs
        <5> QED
          BY <4>2, <5>1 DEF UpdateSpec, TypeOK, CRs
      <4>3. CASE DeleteCR
        <5>1. NoCR(cr.uid) \in CRs /\ [cr EXCEPT !.deleting = TRUE] \in CRs
          BY InitialValues DEF TypeOK, CRs
        <5> QED
          BY <4>3, <5>1 DEF DeleteCR
      <4> QED
        BY <2>20, <4>1, <4>2, <4>3
    <3> QED
      BY <2>20, <3>1, EnvActType DEF CreateCR, UpdateSpec, DeleteCR, TypeOK
  <2>21. CASE DeleteNamespace
    BY <2>21, EnvActType DEF DeleteNamespace, TypeOK, PlatformConfigs
  <2>22. ASSUME NEW o \in Objects, DriftDelete(o) \/ DriftEdit(o) \/ LegacyFinalizer(o)
         PROVE TypeOK'
    <3>1. objs' \in [Objects -> ObjectStates \cup {Absent}]
      <4>1. objs[o] # Absent => /\ [objs[o] EXCEPT !.by = Drifted] \in ObjectStates
                                /\ [objs[o] EXCEPT !.legacy = TRUE] \in ObjectStates
        BY DEF TypeOK, ObjectStates
      <4> QED
        BY <2>22, <4>1, DeletedType DEF DriftDelete, DriftEdit, LegacyFinalizer, TypeOK
    <3> QED
      BY <2>22, <3>1, EnvActType, ChangedType
      DEF DriftDelete, DriftEdit, LegacyFinalizer, TypeOK
  <2>23. ASSUME NEW v \in PlatformConfigs, ChangePlatformVersion(v)
         PROVE TypeOK'
    BY <2>23, EnvActType DEF ChangePlatformVersion, TypeOK
  <2>24. ASSUME NEW d \in DepStates, ChangeDependencies(d) PROVE TypeOK'
    BY <2>24, EnvActType DEF ChangeDependencies, TypeOK
  <2>25. ASSUME NEW d \in Deployments, PodsDown(d) PROVE TypeOK'
    BY <2>25, EnvActType DEF PodsDown, TypeOK
  <2>26. ASSUME NEW b \in Builds, Restart(b) PROVE TypeOK'
    BY <2>26, EnvActType, InitialValues DEF Restart, TypeOK, CRs, Releases, readBootstrapRelease
  <2> QED
    BY <2>1, <2>2, <2>3, <2>4, <2>5, <2>6, <2>7, <2>8, <2>9, <2>10, <2>11, <2>12, <2>13,
       <2>14, <2>15, <2>16, <2>17, <2>18, <2>19, <2>20, <2>21, <2>22, <2>23, <2>24, <2>25,
       <2>26
    DEF Next, Worker, Environment
<1> QED
  BY <1>1, <1>2, PTL DEF Spec
-----------------------------------------------------------------------------
(* The inductive invariant. Most steps leave the CR and the cache alone, so *)
(* what they must respect is said once.                                    *)

\* A step that does not touch the CR or its cached copy keeps the first three
\* parts if it stays in its kind of pass, reaches the removal of the finalizer
\* only with everything collected, and creates objects in live passes only.
LEMMA KeepsGuards ==
  ASSUME PassInvariant, UNCHANGED <<cr, seen>>,
         pc' # "idle" => pc # "idle" /\ rr'.inst = rr.inst,
         pc' \in LiveSteps => pc \in LiveSteps,
         pc' \in CleanupSteps => pc \in CleanupSteps,
         pc' = "addFinalizer" => pc = "addFinalizer",
         pc' = "removeFinalizer" => Clean',
         pc \in LiveSteps \/ (Clean => Clean')
  PROVE  CopiesInOrder' /\ FinalizerGuards' /\ PassMatchesCR'
<1>1. CopiesInOrder'
  BY DEF PassInvariant, CopiesInOrder
<1>2. FinalizerGuards'
  BY DEF PassInvariant, FinalizerGuards, HeldBy
<1>3. PassMatchesCR'
  BY DEF PassInvariant, PassMatchesCR, HeldBy
<1> QED
  BY <1>1, <1>2, <1>3

\* A step that neither creates nor stamps objects, nor moves the pass, keeps
\* the stamps of what the pass has applied.
LEMMA KeepsStamps ==
  ASSUME TypeOK, DeployedStamped, UNCHANGED <<pc, rr>>,
         \A o \in Objects : objs'[o] # Absent =>
           /\ objs[o] # Absent
           /\ objs'[o].rel = objs[o].rel
           /\ objs'[o].uid = objs[o].uid
           /\ objs'[o].gen = objs[o].gen
  PROVE  DeployedStamped'
  BY RequestFields DEF DeployedStamped, Stamped

\* Objects that are absent stay absent.
LEMMA StaysClean ==
  ASSUME \A o \in Objects : objs[o] = Absent => objs'[o] = Absent, Clean PROVE Clean'
  BY DEF Clean, Collectable

\* The steps of the worker that leave the CR alone.
LEMMA ActionsKeepInvariant ==
  ASSUME TypeOK, PassInvariant,
         \/ checkDependencies \/ ensureNamespace \/ updateReleases \/ renderManifests
         \/ Deploy \/ (\E o \in Objects : DeployStops(o) \/ DeployRecovers(o))
         \/ deployments \/ removeRuntimeFinalizers \/ GC
         \/ cleanupTrainerResources \/ cleanupCollect
  PROVE  PassInvariant'
<1> USE DEF LiveSteps, CleanupSteps
<1>1. CASE checkDependencies \/ ensureNamespace \/ updateReleases \/ renderManifests
  <2>1. /\ pc \in {"checkDependencies", "ensureNamespace", "updateReleases", "renderManifests"}
        /\ pc' \in {"ensureNamespace", "updateReleases", "renderManifests", "deploy", "status"}
        /\ UNCHANGED <<cr, seen, objs>>
    <3>1. CASE checkDependencies
      BY <3>1 DEF checkDependencies, Proceed, Following, Fails
    <3>2. CASE ensureNamespace
      BY <3>2 DEF ensureNamespace, Proceed, Following, Fails
    <3>3. CASE updateReleases
      BY <3>3 DEF updateReleases, Parsable, Proceed, Following, Fails
    <3>4. CASE renderManifests
      BY <3>4 DEF renderManifests, Proceed, Following, Fails
    <3> QED
      BY <1>1, <3>1, <3>2, <3>3, <3>4
  <2>2. rr'.inst = rr.inst
    <3>1. ASSUME NEW st, Fails(st) PROVE rr'.inst = rr.inst
      BY <3>1 DEF Fails, TypeOK, Requests
    <3> QED
      BY <1>1, <3>1
      DEF checkDependencies, ensureNamespace, updateReleases, renderManifests, TypeOK, Requests
  <2>3. Clean => Clean'
    BY <2>1 DEF Clean
  <2>4. DeployedStamped'
    BY <2>1 DEF DeployedStamped
  <2> QED
    BY <2>1, <2>2, <2>3, <2>4, KeepsGuards DEF PassInvariant
<1>2. CASE Deploy
  <2>1. pc = "deploy" /\ pc' = "deployments" /\ UNCHANGED <<cr, seen, rr>>
    BY <1>2 DEF Deploy, Proceed, Following
  <2>2. \A o \in rr.res : objs'[o] = Applied(o)
    BY <1>2, RequestFields DEF Deploy
  <2>3. \A o \in rr.res : /\ Applied(o).rel = rr.release
                          /\ Applied(o).uid = rr.inst.uid
                          /\ Applied(o).gen = rr.inst.gen
    <3> SUFFICES ASSUME NEW o \in rr.res
                 PROVE  /\ Applied(o).rel = rr.release
                        /\ Applied(o).uid = rr.inst.uid
                        /\ Applied(o).gen = rr.inst.gen
      OBVIOUS
    <3>1. objs[o] # Absent => objs[o] \in ObjectStates
      BY RequestFields DEF TypeOK
    <3> QED
      BY <3>1 DEF Applied, ObjectStates
  <2>4. DeployedStamped'
    BY <2>1, <2>2, <2>3 DEF DeployedStamped, Stamped
  <2> QED
    BY <2>1, <2>4, KeepsGuards DEF PassInvariant
<1>3. ASSUME NEW o \in Objects, DeployStops(o) \/ DeployRecovers(o) PROVE PassInvariant'
  <2>1. pc = "deploy" /\ pc' = "status" /\ UNCHANGED <<cr, seen>> /\ rr'.inst = rr.inst
    BY <1>3 DEF DeployStops, DeployRecovers, Fails, TypeOK, Requests
  <2>2. DeployedStamped'
    BY <2>1 DEF DeployedStamped
  <2> QED
    BY <2>1, <2>2, KeepsGuards DEF PassInvariant
<1>4. CASE deployments
  <2>1. /\ pc = "deployments" /\ pc' \in {"stripRuntimeFinalizers", "status"}
        /\ UNCHANGED <<cr, seen, objs>>
    BY <1>4 DEF deployments, Proceed, Following, Fails
  <2>2. /\ rr'.inst = rr.inst /\ rr'.release = rr.release /\ rr'.res = rr.res
    BY <1>4 DEF deployments, Fails, TypeOK, Requests
  <2>3. DeployedStamped'
    BY <2>1, <2>2 DEF PassInvariant, DeployedStamped, Stamped
  <2> QED
    BY <2>1, <2>2, <2>3, KeepsGuards DEF PassInvariant
<1>5. CASE removeRuntimeFinalizers
  <2>1. /\ pc = "stripRuntimeFinalizers" => pc' \in {"gc", "status"}
        /\ pc = "cleanupStrip" => pc' \in {"cleanupDelete", "idle"}
        /\ pc \in {"stripRuntimeFinalizers", "cleanupStrip"}
        /\ UNCHANGED <<cr, seen>>
    BY <1>5 DEF removeRuntimeFinalizers, StripFails, GiveUp, Proceed, Following, Fails
  <2>2. pc' # "idle" => rr'.inst = rr.inst /\ (pc' = "gc" => rr' = rr)
    BY <1>5 DEF removeRuntimeFinalizers, StripFails, GiveUp, Proceed, Following, Fails,
                TypeOK, Requests
  <2>3. UNCHANGED objs \/ \E S \in SUBSET LegacyRuntimes : Stripped(S)
    BY <1>5 DEF removeRuntimeFinalizers
  <2>4. \A x \in Objects : objs'[x] # Absent => /\ objs[x] # Absent
                                               /\ objs'[x].rel = objs[x].rel
                                               /\ objs'[x].uid = objs[x].uid
                                               /\ objs'[x].gen = objs[x].gen
    <3>1. ASSUME NEW S \in SUBSET LegacyRuntimes, Stripped(S), NEW x \in Objects,
                 objs'[x] # Absent
          PROVE  /\ objs[x] # Absent
                 /\ objs'[x].rel = objs[x].rel
                 /\ objs'[x].uid = objs[x].uid
                 /\ objs'[x].gen = objs[x].gen
      <4>1. CASE x \notin S
        BY <3>1, <4>1 DEF Stripped
      <4>2. CASE x \in S
        <5>1. objs[x] # Absent /\ objs[x] \in ObjectStates
          BY <4>2 DEF LegacyRuntimes, TypeOK
        <5>2. objs'[x] = [objs[x] EXCEPT !.legacy = FALSE]
          BY <3>1, <4>2 DEF Stripped
        <5> QED
          BY <5>1, <5>2 DEF ObjectStates
      <4> QED
        BY <4>1, <4>2
    <3> QED
      BY <2>3, <3>1
  <2>5. Clean => Clean'
    BY <2>4, StaysClean
  <2>6. DeployedStamped'
    BY <2>1, <2>2, <2>4, RequestFields DEF PassInvariant, DeployedStamped, Stamped
  <2> QED
    BY <2>1, <2>2, <2>5, <2>6, KeepsGuards DEF PassInvariant
<1>6. CASE GC
  <2>1. pc = "gc" /\ pc' = "status" /\ UNCHANGED <<cr, seen>> /\ rr'.inst = rr.inst
    BY <1>6 DEF GC, Proceed, Following, Fails, TypeOK, Requests
  <2>2. DeployedStamped'
    BY <2>1 DEF DeployedStamped
  <2> QED
    BY <2>1, <2>2, KeepsGuards DEF PassInvariant
<1>7. CASE cleanupTrainerResources
  <2>1. pc = "cleanupDelete" /\ pc' = "cleanupCollect" /\ UNCHANGED <<cr, seen, rr>>
    BY <1>7 DEF cleanupTrainerResources, Proceed, Following
  <2>2. \A x \in Objects : objs[x] = Absent => objs'[x] = Absent
    BY <1>7 DEF cleanupTrainerResources, RuntimesToDelete
  <2>3. DeployedStamped'
    BY <2>1 DEF DeployedStamped
  <2> QED
    BY <2>1, <2>2, <2>3, StaysClean, KeepsGuards DEF PassInvariant
<1>8. CASE cleanupCollect
  <2>1. /\ pc = "cleanupCollect" /\ UNCHANGED <<cr, seen>>
        /\ \/ pc' = "removeFinalizer" /\ rr' = rr /\ Collected(Collectable)
           \/ pc' = "idle" /\ \E S \in SUBSET Collectable : Collected(S)
    BY <1>8 DEF cleanupCollect, CollectFails, GiveUp, Proceed, Following
  <2>2. pc' = "removeFinalizer" => Clean'
    BY <2>1 DEF Collected, Clean, Collectable
  <2>3. \A x \in Objects : objs[x] = Absent => objs'[x] = Absent
    BY <2>1 DEF Collected
  <2>4. DeployedStamped'
    BY <2>1 DEF DeployedStamped
  <2> QED
    BY <2>1, <2>2, <2>3, <2>4, StaysClean, KeepsGuards DEF PassInvariant
<1> QED
  BY <1>1, <1>2, <1>3, <1>4, <1>5, <1>6, <1>7, <1>8

\* The steps that change the CR or the cached copy, or start a pass.
LEMMA CRStepsKeepInvariant ==
  ASSUME TypeOK, PassInvariant,
         \/ Start \/ AddFinalizer \/ WriteStatus \/ RemoveFinalizer \/ SyncCache
         \/ CreateCR \/ UpdateSpec \/ DeleteCR \/ (\E b \in Builds : Restart(b))
  PROVE  PassInvariant'
<1> USE DEF LiveSteps, CleanupSteps
<1>1. CASE Start
  <2>1. Clean => Clean'
    BY <1>1 DEF Start, FirstStep, Clean
  <2>2. seen.exists => rr'.inst = seen
    BY <1>1 DEF Start
  <2>7. /\ UNCHANGED <<cr, seen, objs>>
        /\ pc' \in {"idle", "cleanupStrip", "checkDependencies", "addFinalizer"}
        /\ pc' # "idle" => seen.exists
        /\ pc' = "checkDependencies" => HeldBy(seen) /\ ~seen.deleting
    BY <1>1 DEF Start, FirstStep, HeldBy
  <2>3. CopiesInOrder'
    <3>1. seen.uid <= seen.uid
      BY DEF TypeOK, CRs
    <3> QED
      BY <2>2, <2>7, <3>1 DEF PassInvariant, CopiesInOrder
  <2>4. FinalizerGuards'
    BY <2>1, <2>7 DEF PassInvariant, FinalizerGuards, HeldBy
  <2>5. PassMatchesCR'
    BY <1>1, <2>2 DEF Start, FirstStep, PassInvariant, PassMatchesCR, HeldBy
  <2>6. DeployedStamped'
    BY <1>1 DEF Start, FirstStep, DeployedStamped
  <2> QED
    BY <2>3, <2>4, <2>5, <2>6 DEF PassInvariant
<1>2. CASE AddFinalizer
  <2>1. CASE cr = rr.inst /\ pc' = "checkDependencies" /\ cr' = [cr EXCEPT !.fin = TRUE]
    <3>1. /\ pc = "addFinalizer" /\ UNCHANGED <<seen, objs>>
          /\ rr'.inst = cr'
      BY <1>2, <2>1 DEF AddFinalizer, GiveUp, TypeOK, Requests
    <3>2. /\ cr'.exists = cr.exists /\ cr'.uid = cr.uid /\ cr'.deleting = cr.deleting
          /\ cr'.fin = TRUE
      BY <2>1 DEF TypeOK, CRs
    <3>3. cr.exists /\ ~cr.deleting
      BY <2>1, <3>1 DEF PassInvariant, PassMatchesCR
    <3>4. ~(seen.exists /\ seen.deleting)
      BY <2>1, <3>1, <3>3 DEF PassInvariant, CopiesInOrder, TypeOK, CRs
    <3>5. CopiesInOrder'
      BY <2>1, <3>1, <3>2 DEF PassInvariant, CopiesInOrder
    <3>6. FinalizerGuards'
      BY <2>1, <3>1, <3>2, <3>3 DEF PassInvariant, FinalizerGuards, HeldBy
    <3>7. PassMatchesCR'
      BY <2>1, <3>1, <3>2, <3>4 DEF PassInvariant, PassMatchesCR, HeldBy
    <3>8. DeployedStamped'
      BY <2>1 DEF DeployedStamped
    <3> QED
      BY <3>5, <3>6, <3>7, <3>8 DEF PassInvariant
  <2>2. CASE pc' = "idle" /\ UNCHANGED <<cr, seen, objs>>
    BY <2>2, KeepsGuards DEF PassInvariant, DeployedStamped, Clean
  <2> QED
    BY <1>2, <2>1, <2>2 DEF AddFinalizer, GiveUp
<1>3. CASE WriteStatus
  <2>1. /\ pc = "status" /\ pc' = "idle" /\ UNCHANGED <<seen, objs>>
        /\ cr'.exists = cr.exists /\ cr'.uid = cr.uid /\ cr'.deleting = cr.deleting
        /\ cr'.fin = cr.fin
    BY <1>3 DEF WriteStatus, TypeOK, CRs
  <2>2. Clean => Clean'
    BY <2>1 DEF Clean
  <2> QED
    BY <2>1, <2>2 DEF PassInvariant, CopiesInOrder, FinalizerGuards, PassMatchesCR,
                      DeployedStamped, HeldBy
<1>4. CASE RemoveFinalizer
  <2>1. CASE cr = rr.inst /\ cr' = NoCR(cr.uid) /\ pc' = "idle"
    <3>1. /\ pc = "removeFinalizer" /\ UNCHANGED <<seen, objs>>
          /\ cr'.exists = FALSE /\ cr'.uid = cr.uid
      BY <1>4, <2>1 DEF RemoveFinalizer, NoCR
    <3>2. Clean'
      BY <3>1 DEF PassInvariant, FinalizerGuards, Clean
    <3> QED
      BY <2>1, <3>1, <3>2 DEF PassInvariant, CopiesInOrder, FinalizerGuards, PassMatchesCR,
                              DeployedStamped, HeldBy
  <2>2. CASE pc' = "idle" /\ UNCHANGED <<cr, seen, objs>>
    BY <2>2, KeepsGuards DEF PassInvariant, DeployedStamped, Clean
  <2> QED
    BY <1>4, <2>1, <2>2 DEF RemoveFinalizer, GiveUp
<1>5. CASE SyncCache
  <2>1. seen' = cr /\ UNCHANGED <<cr, objs, pc, rr>>
    BY <1>5 DEF SyncCache
  <2>2. CopiesInOrder'
    BY <2>1 DEF PassInvariant, CopiesInOrder, TypeOK, CRs, Requests
  <2>3. FinalizerGuards' /\ PassMatchesCR'
    BY <2>1 DEF PassInvariant, FinalizerGuards, PassMatchesCR, HeldBy, Clean
  <2>4. DeployedStamped'
    BY <2>1, KeepsStamps DEF PassInvariant
  <2> QED
    BY <2>2, <2>3, <2>4 DEF PassInvariant
<1>6. CASE CreateCR
  <2>1. /\ ~cr.exists /\ UNCHANGED <<seen, objs, pc, rr>>
        /\ cr'.exists /\ cr'.uid = cr.uid + 1 /\ cr'.fin = FALSE /\ cr'.deleting = FALSE
    BY <1>6 DEF CreateCR, NoCR
  <2>2. CopiesInOrder'
    BY <2>1 DEF PassInvariant, CopiesInOrder, TypeOK, CRs
  <2>3. FinalizerGuards' /\ PassMatchesCR'
    BY <2>1 DEF PassInvariant, FinalizerGuards, PassMatchesCR, HeldBy, Clean
  <2>4. DeployedStamped'
    BY <2>1, KeepsStamps DEF PassInvariant
  <2> QED
    BY <2>2, <2>3, <2>4 DEF PassInvariant
<1>7. CASE UpdateSpec \/ DeleteCR
  <2>1. /\ UNCHANGED <<seen, objs, pc, rr>> /\ cr.exists /\ cr'.uid = cr.uid
        /\ \/ /\ cr'.exists = cr.exists /\ cr'.fin = cr.fin
              /\ cr'.deleting = cr.deleting \/ cr'.deleting = TRUE
           \/ ~cr.fin /\ cr'.exists = FALSE
    BY <1>7 DEF UpdateSpec, DeleteCR, NoCR, TypeOK, CRs
  <2>2. CopiesInOrder'
    BY <2>1 DEF PassInvariant, CopiesInOrder
  <2>3. FinalizerGuards' /\ PassMatchesCR'
    BY <2>1 DEF PassInvariant, FinalizerGuards, PassMatchesCR, HeldBy, Clean
  <2>4. DeployedStamped'
    BY <2>1, KeepsStamps DEF PassInvariant
  <2> QED
    BY <2>2, <2>3, <2>4 DEF PassInvariant
<1>8. ASSUME NEW b \in Builds, Restart(b) PROVE PassInvariant'
  <2>1. seen' = cr /\ pc' = "idle" /\ UNCHANGED <<cr, objs>>
    BY <1>8 DEF Restart
  <2> QED
    BY <2>1 DEF PassInvariant, CopiesInOrder, FinalizerGuards, PassMatchesCR,
                DeployedStamped, HeldBy, Clean, TypeOK, CRs
<1> QED
  BY <1>1, <1>2, <1>3, <1>4, <1>5, <1>6, <1>7, <1>8

\* The steps of the cluster around the operator.
LEMMA ClusterKeepsInvariant ==
  ASSUME TypeOK, PassInvariant,
         \/ (\E d \in Deployments : PodsFollow(d) \/ PodsDown(d)) \/ DeleteNamespace
         \/ (\E o \in Objects : DriftDelete(o) \/ DriftEdit(o) \/ LegacyFinalizer(o))
         \/ (\E v \in PlatformConfigs : ChangePlatformVersion(v))
         \/ (\E d \in DepStates : ChangeDependencies(d))
  PROVE  PassInvariant'
<1>1. UNCHANGED <<cr, seen, pc, rr>>
  BY DEF PodsFollow, PodsDown, DeleteNamespace, DriftDelete, DriftEdit, LegacyFinalizer,
         ChangePlatformVersion, ChangeDependencies
<1>2. \A x \in Objects : objs'[x] # Absent => /\ objs[x] # Absent
                                             /\ objs'[x].rel = objs[x].rel
                                             /\ objs'[x].uid = objs[x].uid
                                             /\ objs'[x].gen = objs[x].gen
  <2>1. CASE DeleteNamespace
    BY <2>1 DEF DeleteNamespace
  <2>2. ASSUME NEW o \in Objects, DriftDelete(o) \/ DriftEdit(o) \/ LegacyFinalizer(o),
               NEW x \in Objects, objs'[x] # Absent
        PROVE  /\ objs[x] # Absent
               /\ objs'[x].rel = objs[x].rel
               /\ objs'[x].uid = objs[x].uid
               /\ objs'[x].gen = objs[x].gen
    <3>1. CASE x # o
      BY <2>2, <3>1 DEF DriftDelete, DriftEdit, LegacyFinalizer, TypeOK
    <3>2. CASE x = o
      <4>1. objs[o] # Absent /\ objs[o] \in ObjectStates
        BY <2>2 DEF DriftDelete, DriftEdit, LegacyFinalizer, TypeOK
      <4>2. \/ objs'[o] = [objs[o] EXCEPT !.term = TRUE]
            \/ objs'[o] = [objs[o] EXCEPT !.by = Drifted]
            \/ objs'[o] = [objs[o] EXCEPT !.legacy = TRUE]
        BY <2>2, <3>2 DEF DriftDelete, DriftEdit, LegacyFinalizer, Deleted, TypeOK
      <4> QED
        BY <3>2, <4>1, <4>2 DEF ObjectStates
    <3> QED
      BY <3>1, <3>2
  <2>3. UNCHANGED objs \/ DeleteNamespace
          \/ \E o \in Objects : DriftDelete(o) \/ DriftEdit(o) \/ LegacyFinalizer(o)
    BY DEF PodsFollow, PodsDown, ChangePlatformVersion, ChangeDependencies
  <2> QED
    BY <2>1, <2>2, <2>3
<1>3. Clean => Clean'
  BY <1>2, StaysClean
<1>4. DeployedStamped'
  BY <1>1, <1>2, KeepsStamps DEF PassInvariant
<1>5. pc' = "removeFinalizer" => Clean'
  BY <1>1, <1>3 DEF PassInvariant, FinalizerGuards
<1> QED
  BY <1>1, <1>3, <1>4, <1>5, KeepsGuards DEF PassInvariant
-----------------------------------------------------------------------------
\* The invariant behind the two safety theorems holds in every reachable state.
THEOREM PassInvariantHolds == Spec => []PassInvariant
<1>1. Init => PassInvariant
  BY DEF Init, PassInvariant, CopiesInOrder, FinalizerGuards, PassMatchesCR, DeployedStamped,
         HeldBy, Clean, Collectable, NoCR, NoRequest, LiveSteps, CleanupSteps
<1>2. TypeOK /\ PassInvariant /\ [Next]_vars => PassInvariant'
  <2> SUFFICES ASSUME TypeOK, PassInvariant, [Next]_vars PROVE PassInvariant'
    OBVIOUS
  <2>1. CASE UNCHANGED vars
    <3>1. UNCHANGED <<cr, seen, objs, pc, rr>>
      BY <2>1 DEF vars
    <3>2. /\ CopiesInOrder' = CopiesInOrder /\ FinalizerGuards' = FinalizerGuards
          /\ PassMatchesCR' = PassMatchesCR
      BY <3>1 DEF CopiesInOrder, FinalizerGuards, PassMatchesCR, HeldBy, Clean
    <3>3. DeployedStamped'
      BY <3>1, KeepsStamps DEF PassInvariant
    <3> QED
      BY <3>2, <3>3 DEF PassInvariant
  <2>2. CASE Next
    BY <2>2, ActionsKeepInvariant, CRStepsKeepInvariant, ClusterKeepsInvariant
    DEF Next, Worker, Environment
  <2> QED
    BY <2>1, <2>2
<1> QED
  BY <1>1, <1>2, TypeCorrect, PTL DEF Spec

\* The Trainer CR goes away only when everything the operator may collect has:
\* the finalizer the operator adds before it applies anything, and removes only
\* after a complete collection, is enough against crashes, failed requests,
\* stale caches and recreated CRs.
THEOREM OrphanFreedom == Spec => []NoOrphans
<1>1. PassInvariant => NoOrphans
  BY DEF PassInvariant, FinalizerGuards, HeldBy, Clean, NoOrphans
<1> QED
  BY <1>1, PassInvariantHolds, PTL

\* The garbage collection of a pass keeps every object the pass rendered,
\* because the request carries the release its objects were stamped with.
THEOREM CollectionIsSafe == Spec => GCKeepsRendered
<1>1. TypeOK /\ PassInvariant /\ [Next]_vars =>
        [pc = "gc" /\ pc' # "gc" =>
           \A o \in rr.res : objs[o] # Absent => objs'[o] # Absent]_vars
  <2> SUFFICES ASSUME TypeOK, PassInvariant, Next, pc = "gc", pc' # "gc",
                      NEW o \in rr.res, objs[o] # Absent
               PROVE  objs'[o] # Absent
    BY DEF vars
  <2>1. o \in Objects /\ Stamped(o, rr)
    BY RequestFields DEF PassInvariant, DeployedStamped
  <2>2. CASE GC
    <3>1. \E S \in SUBSET Stale : Collected(S)
      BY <2>2 DEF GC
    <3> QED
      BY <2>1, <3>1 DEF Stale, Collected
  <2>3. ASSUME NEW b \in Builds, Restart(b) PROVE objs'[o] # Absent
    BY <2>3 DEF Restart
  <2>4. CASE Worker
    BY <2>2, <2>4 DEF Worker, Start, AddFinalizer, WriteStatus, checkDependencies,
         ensureNamespace, updateReleases, renderManifests, Deploy, DeployStops,
         DeployRecovers, deployments, removeRuntimeFinalizers, cleanupTrainerResources,
         cleanupCollect, RemoveFinalizer
  <2>5. CASE SyncCache \/ \E d \in Deployments : PodsFollow(d)
    BY <2>5 DEF SyncCache, PodsFollow
  <2>6. CASE Environment
    BY <2>3, <2>6 DEF Environment, CreateCR, UpdateSpec, DeleteCR, DeleteNamespace,
         DriftDelete, DriftEdit, LegacyFinalizer, ChangePlatformVersion,
         ChangeDependencies, PodsDown
  <2> QED
    BY <2>4, <2>5, <2>6 DEF Next
<1> QED
  BY <1>1, TypeCorrect, PassInvariantHolds, PTL DEF Spec, GCKeepsRendered
-----------------------------------------------------------------------------
(* The refinement of FinalizerProtocol.                                     *)

\* What the protocol sees of the CR stays.
SameHold == /\ cr'.exists = cr.exists /\ cr'.fin = cr.fin
            /\ cr'.deleting = cr.deleting

\* A step that creates no collectable object and leaves the CR's hold alone.
LEMMA ShrinkStep ==
  ASSUME SameHold, \A o \in Collectable : objs'[o] # Absent => objs[o] # Absent
  PROVE  Protocol!Next
  BY DEF SameHold, Protocol!Next, Protocol!Shrink

\* A step that may create objects, under a CR with the finalizer.
LEMMA GrowStep ==
  ASSUME HeldBy(cr), SameHold PROVE Protocol!Next
  BY DEF HeldBy, SameHold, Protocol!Next, Protocol!Grow

\* The steps of a live pass and of the finalizer that touch objects.
LEMMA PassStepsAllowed ==
  ASSUME TypeOK, PassInvariant,
         \/ Start \/ checkDependencies \/ ensureNamespace \/ updateReleases
         \/ renderManifests \/ Deploy
         \/ \E o \in Objects : DeployStops(o) \/ DeployRecovers(o)
         \/ deployments \/ removeRuntimeFinalizers \/ GC
         \/ cleanupTrainerResources \/ cleanupCollect
  PROVE  Protocol!Next
<1>1. SameHold
  BY DEF SameHold, Start, checkDependencies, ensureNamespace, updateReleases,
         renderManifests, Deploy, DeployStops, DeployRecovers, deployments,
         removeRuntimeFinalizers, GC, cleanupTrainerResources, cleanupCollect
<1>2. CASE pc \in LiveSteps
  BY <1>1, <1>2, GrowStep DEF PassInvariant, FinalizerGuards
<1>3. CASE pc \notin LiveSteps
  <2>1. Start \/ removeRuntimeFinalizers \/ cleanupTrainerResources \/ cleanupCollect
    BY <1>3 DEF LiveSteps, checkDependencies, ensureNamespace, updateReleases,
         renderManifests, Deploy, DeployStops, DeployRecovers, deployments, GC
  <2>2. ASSUME NEW o \in Collectable, objs'[o] # Absent PROVE objs[o] # Absent
    <3>1. o \in Objects
      BY DEF Collectable
    <3>2. CASE Start
      BY <2>2, <3>2 DEF Start
    <3>3. CASE removeRuntimeFinalizers
      BY <2>2, <3>1, <3>3 DEF removeRuntimeFinalizers, Stripped, LegacyRuntimes
    <3>4. CASE cleanupTrainerResources
      BY <2>2, <3>1, <3>4 DEF cleanupTrainerResources, RuntimesToDelete
    <3>5. CASE cleanupCollect
      BY <2>2, <3>1, <3>5 DEF cleanupCollect, Collected
    <3> QED
      BY <2>1, <3>2, <3>3, <3>4, <3>5
  <2> QED
    BY <1>1, <2>2, ShrinkStep
<1> QED
  BY <1>2, <1>3

\* The steps of the operator and the owner that write the CR.
LEMMA CRStepsAllowed ==
  ASSUME TypeOK, PassInvariant,
         \/ AddFinalizer \/ WriteStatus \/ RemoveFinalizer
         \/ CreateCR \/ UpdateSpec \/ DeleteCR
  PROVE  Protocol!Next
<1>1. cr \in CRs /\ UNCHANGED objs
  BY DEF TypeOK, AddFinalizer, WriteStatus, RemoveFinalizer, CreateCR, UpdateSpec, DeleteCR
<1>2. CASE UNCHANGED cr
  BY <1>1, <1>2, ShrinkStep DEF SameHold
<1>3. CASE WriteStatus \/ UpdateSpec
  <2>1. SameHold
    BY <1>1, <1>3 DEF SameHold, WriteStatus, UpdateSpec, CRs
  <2> QED
    BY <1>1, <2>1, ShrinkStep
<1>4. CASE AddFinalizer /\ cr' # cr
  <2>1. /\ cr.exists /\ ~cr.deleting /\ cr' = [cr EXCEPT !.fin = TRUE]
    BY <1>4 DEF AddFinalizer, PassInvariant, PassMatchesCR
  <2>2. cr'.exists /\ ~cr'.deleting /\ cr'.fin /\ ~cr.fin
    BY <1>1, <1>4, <2>1 DEF CRs
  <2> QED
    BY <1>1, <2>1, <2>2 DEF Protocol!Next, Protocol!Hold
<1>5. CASE RemoveFinalizer /\ cr' # cr
  <2>1. ~cr'.exists /\ cr = rr.inst /\ pc = "removeFinalizer"
    BY <1>5 DEF RemoveFinalizer, NoCR
  <2>2. Clean /\ (~HeldBy(cr) \/ cr.deleting)
    BY <2>1 DEF PassInvariant, FinalizerGuards, PassMatchesCR, CleanupSteps
  <2>3. CASE HeldBy(cr)
    BY <1>1, <2>1, <2>2, <2>3 DEF HeldBy, Clean, Protocol!Next, Protocol!Release
  <2>4. CASE cr.exists /\ ~cr.fin
    BY <1>1, <2>1, <2>4 DEF Protocol!Next, Protocol!Delete
  <2>5. CASE ~cr.exists
    BY <1>1, <2>1, <2>5 DEF Protocol!Next, Protocol!Shrink
  <2> QED
    BY <2>3, <2>4, <2>5 DEF HeldBy
<1>6. CASE CreateCR
  <2>1. ~cr.exists /\ cr'.exists /\ ~cr'.fin
    BY <1>6 DEF CreateCR, NoCR
  <2> QED
    BY <1>1, <2>1 DEF Protocol!Next, Protocol!Create
<1>7. CASE DeleteCR
  <2>1. CASE cr.fin
    <3>1. cr.exists /\ ~cr.deleting /\ cr'.exists /\ cr'.fin /\ cr'.deleting
      BY <1>1, <1>7, <2>1 DEF DeleteCR, CRs
    <3> QED
      BY <1>1, <2>1, <3>1 DEF Protocol!Next, Protocol!Delete
  <2>2. CASE ~cr.fin
    <3>1. cr.exists /\ ~cr'.exists
      BY <1>7, <2>2 DEF DeleteCR, NoCR
    <3> QED
      BY <1>1, <2>2, <3>1 DEF Protocol!Next, Protocol!Delete
  <2> QED
    BY <2>1, <2>2
<1> QED
  BY <1>2, <1>3, <1>4, <1>5, <1>6, <1>7

\* What happens around the operator, restarts of it too, creates nothing.
LEMMA ClusterStepsAllowed ==
  ASSUME TypeOK,
         \/ SyncCache \/ \E d \in Deployments : PodsFollow(d) \/ PodsDown(d)
         \/ DeleteNamespace
         \/ \E o \in Objects : DriftDelete(o) \/ DriftEdit(o) \/ LegacyFinalizer(o)
         \/ \E v \in PlatformConfigs : ChangePlatformVersion(v)
         \/ \E d \in DepStates : ChangeDependencies(d)
         \/ \E b \in Builds : Restart(b)
  PROVE  Protocol!Next
<1>1. SameHold
  BY DEF SameHold, SyncCache, PodsFollow, PodsDown, DeleteNamespace, DriftDelete,
         DriftEdit, LegacyFinalizer, ChangePlatformVersion, ChangeDependencies, Restart
<1>2. ASSUME NEW x \in Collectable, objs'[x] # Absent PROVE objs[x] # Absent
  <2>1. x \in Objects /\ objs \in [Objects -> ObjectStates \cup {Absent}]
    BY DEF Collectable, TypeOK
  <2>2. CASE \E o \in Objects : DriftDelete(o) \/ DriftEdit(o) \/ LegacyFinalizer(o)
    BY <1>2, <2>1, <2>2 DEF DriftDelete, DriftEdit, LegacyFinalizer
  <2>3. CASE DeleteNamespace
    BY <1>2, <2>1, <2>3 DEF DeleteNamespace
  <2>4. CASE UNCHANGED objs
    BY <1>2, <2>4
  <2> QED
    BY <2>2, <2>3, <2>4 DEF SyncCache, PodsFollow, PodsDown, ChangePlatformVersion,
         ChangeDependencies, Restart
<1> QED
  BY <1>1, <1>2, ShrinkStep

\* The operator keeps the finalizer's promise: whatever it applies, with however
\* old a copy of the CR and after however many crashes and failed requests, is
\* accounted for by a CR with the finalizer, which goes last.
THEOREM FinalizerPromiseKept == Spec => ImplementsProtocol
<1>1. Init => Protocol!Init
  BY DEF Init, NoCR, Collectable, Protocol!Init
<1>2. TypeOK /\ PassInvariant /\ [Next]_vars => [Protocol!Next]_(Protocol!vars)
  <2> SUFFICES ASSUME TypeOK, PassInvariant, [Next]_vars
               PROVE  [Protocol!Next]_(Protocol!vars)
    OBVIOUS
  <2>1. CASE UNCHANGED vars
    BY <2>1 DEF vars, Protocol!vars
  <2>2. CASE Next
    BY <2>2, PassStepsAllowed, CRStepsAllowed, ClusterStepsAllowed
    DEF Next, Worker, Environment
  <2> QED
    BY <2>1, <2>2
<1> QED
  BY <1>1, <1>2, TypeCorrect, PassInvariantHolds, PTL
  DEF Spec, ImplementsProtocol, Protocol!Spec
=============================================================================
