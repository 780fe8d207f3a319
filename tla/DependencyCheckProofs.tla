------------------------ MODULE DependencyCheckProofs ------------------------
(***************************************************************************)
(* TLAPS proofs about DependencyCheck, for every set of condition lists    *)
(* and every bound on failed requests: types, that a verdict is backed by  *)
(* what the cluster showed during the pass, and that an undisturbed pass   *)
(* reports what checking one snapshot reports.                             *)
(***************************************************************************)
EXTENDS DependencyCheck, TLAPS

\* The history of a pass includes the cluster as it is now.
HistoryCurrent ==
  pc # "done" => \A k \in Checks : IF Holds(k, deps) THEN k \in held ELSE k \in failed

\* A pass that has come to a check found every check before it to hold, and
\* none of its requests failed.
PassedSoFar ==
  /\ pc \in Checks => pc \in Required /\ Before(pc) \subseteq held
  /\ pc # "done" => ~faulted

CheckInvariant ==
  HistoryCurrent /\ PassedSoFar /\ VerdictJustified /\ StepsAgreeWithSnapshot
-----------------------------------------------------------------------------
\* Every variable keeps its type; in particular only known reasons are written.
THEOREM TypeCorrect == Spec => []TypeOK
<1>1. Init => TypeOK
  <2> SUFFICES ASSUME Init PROVE TypeOK
    OBVIOUS
  <2>1. deps \in DepStates
    <3>1. {0} \subseteq 0..2 /\ {{}} \subseteq CondSets
      BY CondSetsAssumption
    <3> QED
      BY <3>1 DEF Init, DepStates
  <2>2. faults \in 0..MaxFaults
    BY BoundAssumption DEF Init
  <2>3. /\ openShift \in BOOLEAN /\ queue = TRUE /\ pc = "done" /\ reason = "(none)"
        /\ held = {} /\ failed = {} /\ faulted = FALSE
    BY DEF Init
  <2> QED
    BY <2>1, <2>2, <2>3 DEF TypeOK
<1>2. TypeOK /\ [Next]_vars => TypeOK'
  <2> SUFFICES ASSUME TypeOK, [Next]_vars PROVE TypeOK'
    OBVIOUS
  <2>1. CASE UNCHANGED vars
    BY <2>1 DEF vars, TypeOK
  <2>2. CASE Begin \/ DetectClusterType
    BY <2>2 DEF Begin, DetectClusterType, TypeOK, Checks
  <2>3. CASE RequestFails
    <3>1. pc # "detect" => ReasonOf[pc] \in Reasons
      BY <2>3 DEF RequestFails, TypeOK, Checks, ReasonOf, Reasons
    <3> QED
      BY <2>3, <3>1, BoundAssumption DEF RequestFails, degradeDependency, TypeOK, Reasons
  <2>4. ASSUME NEW k \in Checks, Check(k) PROVE TypeOK'
    <3>1. ReasonOf[k] \in Reasons /\ Following[k] \in Checks \cup {"done"}
      BY DEF Checks, ReasonOf, Reasons, Following
    <3> QED
      BY <2>4, <3>1 DEF Check, Succeeds, degradeDependency, TypeOK, Reasons
  <2>5. CASE Change
    <3>1. deps' \in DepStates
      BY <2>5 DEF Change, TypeOK, DepStates
    <3>2. queue' \in BOOLEAN
      BY <2>5, Zenon DEF Change, TypeOK, JobSetOperatorEvent
    <3> QED
      BY <2>5, <3>1, <3>2 DEF Change, TypeOK
  <2>6. CASE Event
    BY <2>6 DEF Event, TypeOK
  <2> QED
    BY <2>1, <2>2, <2>3, <2>4, <2>5, <2>6 DEF Next, Pass
<1> QED
  BY <1>1, <1>2, PTL DEF Spec
-----------------------------------------------------------------------------
(* Each check by its place in the order.                                   *)

\* A check is blamed with a reason of its own.
LEMMA ReasonsDiffer ==
  \A j, k \in Checks : /\ ReasonOf[j] = ReasonOf[k] => j = k
                       /\ ReasonOf[k] \notin {"(none)", "DependenciesAvailable",
                                              "ClusterDetectionFailed"}
  BY DEF Checks, ReasonOf

\* The check that follows a required one is required, and comes right after it.
LEMMA FollowingInOrder ==
  ASSUME TypeOK, NEW k \in Required, Following[k] # "done"
  PROVE  Following[k] \in Required /\ Before(Following[k]) \subseteq Before(k) \cup {k}
  BY DEF TypeOK, Required, Checks, Following, Before

\* The last check of the order leaves no required one out.
LEMMA LastInOrder ==
  ASSUME TypeOK, NEW k \in Required, Following[k] = "done"
  PROVE  Required \subseteq Before(k) \cup {k}
  BY DEF TypeOK, Required, Checks, Following, Before

\* Checking one snapshot stops at the first required check that does not hold.
LEMMA SnapshotVerdict ==
  ASSUME openShift \in BOOLEAN, NEW d
  PROVE  /\ (\A k \in Required : Holds(k, d)) =>
              CheckDependencies(openShift, d) = "DependenciesAvailable"
         /\ \A k \in Required : ~Holds(k, d) /\ (\A j \in Before(k) : Holds(j, d)) =>
              CheckDependencies(openShift, d) = ReasonOf[k]
<1>1. /\ Holds("installed", d) = checkJobSetOperatorInstalled(d)
      /\ Holds("cr", d) = checkJobSetOperatorCR(d)
      /\ Holds("health", d) = checkJobSetOperatorHealth(d)
      /\ Holds("crd", d) = checkJobSetAvailable(d)
  BY DEF Holds
<1> QED
  BY <1>1 DEF Required, Checks, Before, CheckDependencies, ReasonOf
-----------------------------------------------------------------------------
\* The invariant holds in every reachable state.
LEMMA CheckInvariantHolds == Spec => []CheckInvariant
<1>1. Init => CheckInvariant
  BY ReasonsDiffer
  DEF Init, CheckInvariant, HistoryCurrent, PassedSoFar, VerdictJustified,
      StepsAgreeWithSnapshot, Checks
<1>2. TypeOK /\ CheckInvariant /\ [Next]_vars => CheckInvariant'
  <2> SUFFICES ASSUME TypeOK, CheckInvariant, [Next]_vars PROVE CheckInvariant'
    OBVIOUS
  <2> USE DEF CheckInvariant
  <2>1. CASE UNCHANGED vars \/ Event
    <3>1. UNCHANGED <<openShift, deps, pc, reason, held, failed, faulted>>
      BY <2>1 DEF vars, Event
    <3> QED
      BY <3>1
      DEF HistoryCurrent, PassedSoFar, VerdictJustified, StepsAgreeWithSnapshot,
          Required, Before
  <2>2. CASE Begin
    <3>1. pc' = "detect" /\ deps' = deps /\ faulted' = FALSE
      BY <2>2 DEF Begin
    <3>2. HistoryCurrent'
      BY <2>2, <3>1 DEF Begin, HistoryCurrent
    <3> QED
      BY <3>1, <3>2 DEF PassedSoFar, VerdictJustified, StepsAgreeWithSnapshot, Checks
  <2>3. CASE DetectClusterType
    <3>1. /\ pc = "detect" /\ pc' = IF openShift THEN "installed" ELSE "crd"
          /\ UNCHANGED <<openShift, deps, held, failed, faulted>>
      BY <2>3 DEF DetectClusterType
    <3>2. HistoryCurrent'
      BY <3>1 DEF HistoryCurrent
    <3>3. PassedSoFar'
      BY <3>1 DEF PassedSoFar, Required, Before, Checks
    <3> QED
      BY <3>1, <3>2, <3>3 DEF VerdictJustified, StepsAgreeWithSnapshot, Checks
  <2>4. CASE RequestFails
    <3>1. /\ pc' = "done" /\ faulted' = TRUE /\ UNCHANGED <<openShift, held, failed>>
          /\ reason' = IF pc = "detect" THEN "ClusterDetectionFailed" ELSE ReasonOf[pc]
          /\ pc # "done"
      BY <2>4 DEF RequestFails, degradeDependency
    <3>2. VerdictJustified'
      BY <3>1, ReasonsDiffer DEF PassedSoFar, VerdictJustified, TypeOK, Required, Before
    <3> QED
      BY <3>1, <3>2 DEF HistoryCurrent, PassedSoFar, StepsAgreeWithSnapshot, Checks
  <2>5. ASSUME NEW k \in Checks, Check(k) PROVE CheckInvariant'
    <3>1. /\ pc = k /\ k \in Required /\ Before(k) \subseteq held /\ ~faulted
          /\ UNCHANGED <<openShift, deps, held, failed, faulted>>
          /\ \A j \in Checks : IF Holds(j, deps) THEN j \in held ELSE j \in failed
      BY <2>5 DEF Check, PassedSoFar, HistoryCurrent, Checks
    <3>2. Required' = Required /\ \A j : Before(j)' = Before(j)
      BY <3>1 DEF Required, Before
    <3>3. CASE Holds(k, deps) /\ Following[k] # "done"
      <4>1. pc' = Following[k] /\ k \in held
        BY <2>5, <3>1, <3>3 DEF Check
      <4>2. PassedSoFar'
        BY <3>1, <3>2, <3>3, <4>1, FollowingInOrder DEF PassedSoFar
      <4> QED
        BY <3>1, <3>3, <4>1, <4>2 DEF HistoryCurrent, VerdictJustified, StepsAgreeWithSnapshot
    <3>4. CASE Holds(k, deps) /\ Following[k] = "done"
      <4>1. pc' = "done" /\ reason' = "DependenciesAvailable" /\ Required \subseteq held
        BY <2>5, <3>1, <3>4, LastInOrder DEF Check, Succeeds
      <4>2. VerdictJustified'
        BY <3>1, <3>2, <4>1, ReasonsDiffer DEF VerdictJustified
      <4>3. held \cap failed = {} => CheckDependencies(openShift, deps) = "DependenciesAvailable"
        BY <3>1, <4>1, SnapshotVerdict DEF TypeOK, Required
      <4>4. StepsAgreeWithSnapshot'
        BY <3>1, <4>1, <4>3 DEF StepsAgreeWithSnapshot, TypeOK
      <4> QED
        BY <4>1, <4>2, <4>4 DEF HistoryCurrent, PassedSoFar, Checks
    <3>5. CASE ~Holds(k, deps)
      <4>1. pc' = "done" /\ reason' = ReasonOf[k] /\ k \in failed
        BY <2>5, <3>1, <3>5 DEF Check, degradeDependency
      <4>2. VerdictJustified'
        BY <3>1, <3>2, <4>1, ReasonsDiffer DEF VerdictJustified
      <4>3. held \cap failed = {} => CheckDependencies(openShift, deps) = ReasonOf[k]
        <5>1. Before(k) \subseteq Checks
          BY DEF Before, Checks
        <5> QED
          BY <3>1, <3>5, <5>1, SnapshotVerdict DEF TypeOK
      <4>4. StepsAgreeWithSnapshot'
        BY <3>1, <4>1, <4>3 DEF StepsAgreeWithSnapshot, TypeOK
      <4> QED
        BY <4>1, <4>2, <4>4 DEF HistoryCurrent, PassedSoFar, Checks
    <3> QED
      BY <3>3, <3>4, <3>5
  <2>6. CASE Change
    <3>1. UNCHANGED <<openShift, pc, reason, faulted>>
      BY <2>6 DEF Change
    <3>2. CASE pc = "done"
      <4>1. UNCHANGED <<held, failed>>
        BY <2>6, <3>2 DEF Change
      <4> QED
        BY <3>1, <3>2, <4>1
        DEF HistoryCurrent, PassedSoFar, VerdictJustified, StepsAgreeWithSnapshot,
            Required, Before, Checks
    <3>3. CASE pc # "done"
      <4>1. /\ held' = held \cup {k \in Checks : Holds(k, deps')}
            /\ failed' = failed \cup {k \in Checks : ~Holds(k, deps')}
        BY <2>6, <3>3 DEF Change
      <4>2. HistoryCurrent'
        BY <4>1 DEF HistoryCurrent
      <4>3. PassedSoFar'
        BY <3>1, <4>1 DEF PassedSoFar, Required, Before
      <4> QED
        BY <3>1, <3>3, <4>2, <4>3 DEF VerdictJustified, StepsAgreeWithSnapshot
    <3> QED
      BY <3>2, <3>3
  <2> QED
    BY <2>1, <2>2, <2>3, <2>4, <2>5, <2>6 DEF Next, Pass
<1> QED
  BY <1>1, <1>2, TypeCorrect, PTL DEF Spec

\* The reason checkDependencies reports is backed by what the cluster showed
\* during the pass, whatever changed between its requests.
THEOREM VerdictIsJustified == Spec => []VerdictJustified
<1>1. CheckInvariant => VerdictJustified
  BY DEF CheckInvariant
<1> QED
  BY <1>1, CheckInvariantHolds, PTL

\* Unless a check changed its answer or a request failed, the checks made one
\* by one report what they would report of one snapshot.
THEOREM StepsMatchSnapshot == Spec => []StepsAgreeWithSnapshot
<1>1. CheckInvariant => StepsAgreeWithSnapshot
  BY DEF CheckInvariant
<1> QED
  BY <1>1, CheckInvariantHolds, PTL
=============================================================================
