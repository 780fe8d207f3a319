------------------------------- MODULE Rollout -------------------------------
(***************************************************************************)
(* Two operator processes at once. The manager is created without leader   *)
(* election, and the operator's Deployment (one replica) is rolled in the  *)
(* default way: the new pod starts before the old one is stopped. Each     *)
(* process is a TrainerReconciler of its own; they share the cluster.      *)
(***************************************************************************)
EXTENDS TrainerReconciler

CONSTANT NewBuild  \* the build that is rolled out; FirstBuild runs already

VARIABLES
  phase,  \* which processes run: "old", "both" or "new"
  seen2, build2, release2, queue2, pc2, rr2  \* the new process

New == INSTANCE TrainerReconciler
         WITH seen <- seen2, build <- build2, release <- release2,
              queue <- queue2, pc <- pc2, rr <- rr2

rolloutVars == <<vars, phase, seen2, build2, release2, queue2, pc2, rr2>>

\* A process that does not run has no copy of the CR and misses events.
RolloutInit ==
  /\ Init /\ phase = "old"
  /\ seen2 = NoCR(0) /\ build2 = NewBuild /\ release2 = NoRelease
  /\ queue2 = TRUE /\ pc2 = "idle" /\ rr2 = NoRequest

\* One process works, the other sees the objects change.
OldWorks ==
  /\ phase # "new" /\ (Worker \/ SyncCache)
  /\ queue2' = (queue2 \/ \E o \in Objects : Notifies(o))
  /\ UNCHANGED <<phase, seen2, build2, release2, pc2, rr2>>

NewWorks ==
  /\ phase # "old" /\ (New!Worker \/ New!SyncCache)
  /\ queue' = (queue \/ \E o \in Objects : Notifies(o))
  /\ UNCHANGED <<phase, seen, build, release, pc, rr>>

\* What happens to the cluster happens to both.
ClusterChanges ==
  /\ \/ CreateCR /\ New!CreateCR
     \/ UpdateSpec /\ New!UpdateSpec
     \/ DeleteCR /\ New!DeleteCR
     \/ DeleteNamespace /\ New!DeleteNamespace
     \/ \E o \in Objects : \/ DriftDelete(o) /\ New!DriftDelete(o)
                           \/ DriftEdit(o) /\ New!DriftEdit(o)
                           \/ LegacyFinalizer(o) /\ New!LegacyFinalizer(o)
     \/ \E v \in PlatformConfigs : ChangePlatformVersion(v) /\ New!ChangePlatformVersion(v)
     \/ \E d \in DepStates : ChangeDependencies(d) /\ New!ChangeDependencies(d)
     \/ \E d \in Deployments : \/ PodsDown(d) /\ New!PodsDown(d)
                               \/ PodsFollow(d) /\ New!PodsFollow(d)
  /\ UNCHANGED phase

\* Replicas are one, but a rolling update has both pods for a while.
StartNew ==
  /\ phase = "old" /\ phase' = "both"
  /\ New!Restart(NewBuild)
  /\ UNCHANGED <<seen, build, release, queue, pc, rr>>

StopOld ==
  /\ phase = "both" /\ phase' = "new"
  /\ seen' = NoCR(0) /\ queue' = TRUE /\ pc' = "idle" /\ rr' = NoRequest
  /\ UNCHANGED <<cr, objs, pods, ns, deps, platform, build, release, faults, env,
                 seen2, build2, release2, queue2, pc2, rr2>>

RolloutNext == OldWorks \/ NewWorks \/ ClusterChanges \/ StartNew \/ StopOld

RolloutSpec == RolloutInit /\ [][RolloutNext]_rolloutVars
-----------------------------------------------------------------------------
\* Once the rollout is over and the new operator rests, a Trainer CR that was
\* deleted meanwhile has left nothing behind that the operator may collect.
NothingLeftAfterRollout ==
  phase = "new" /\ New!Quiet /\ ~cr.exists =>
    \A o \in Collectable : objs[o] = Absent
=============================================================================
