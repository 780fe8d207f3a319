--------------------------- MODULE DependencyCheck ---------------------------
(***************************************************************************)
(* checkDependencies one API read at a time. Every check is a request of   *)
(* its own, so the cluster may change between two of them, the same        *)
(* JobSetOperator object is fetched twice, and a failed request is         *)
(* reported like a missing dependency. A pass runs only when the CR is     *)
(* queued: by a failed pass, by the watch on the JobSetOperator, or by an  *)
(* event of some other object. Nothing watches OLM or the JobSet CRD.      *)
(***************************************************************************)
EXTENDS Dependencies

CONSTANTS
  CondSets,     \* the status.conditions lists the JobSetOperator may show
  MaxFaults     \* bound on failed API requests

\* A JobSetOperator that was never reconciled has no conditions.
ASSUME CondSetsAssumption == {} \in CondSets

ASSUME BoundAssumption == MaxFaults \in Nat

VARIABLES
  openShift,    \* what cluster.DetectClusterType finds; never changes
  deps,         \* the cluster's dependencies now
  queue,        \* the CR waits in the controller's queue
  pc,           \* the next request of the pass, or "done"
  reason,       \* reason of the Degraded condition at the end of the pass
  held, failed, \* history: checks that held / failed at some moment of the pass
  faulted,      \* history: a request of this pass failed
  faults        \* failed requests so far

vars == <<openShift, deps, queue, pc, reason, held, failed, faulted, faults>>

Checks == {"installed", "cr", "health", "crd"}

DepStates == [olm : BOOLEAN, instances : 0..2, readable : BOOLEAN,
              conds : CondSets, crd : {"absent", "created", "established"}]

Holds(k, d) == CASE k = "installed" -> checkJobSetOperatorInstalled(d)
                 [] k = "cr"        -> checkJobSetOperatorCR(d)
                 [] k = "health"    -> checkJobSetOperatorHealth(d)
                 [] k = "crd"       -> checkJobSetAvailable(d)

\* Mutant: a reason nobody knows.
ReasonOf_Other == [installed |-> "JobSetOperatorMissing", cr |-> "JobSetOperatorCRNotFound",
                   health |-> "JobSetOperatorDegraded", crd |-> "JobSetCRDNotFound"]

\* degradeDependency: the reason each failing check is reported with.
ReasonOf == [installed |-> "JobSetOperatorNotInstalled",
             cr        |-> "JobSetOperatorCRNotFound",
             health    |-> "JobSetOperatorDegraded",
             crd       |-> "JobSetCRDNotFound"]

\* Mutants: the health check is left out; the health check does for both.
Following_NoHealth == [installed |-> "cr", cr |-> "crd", health |-> "crd", crd |-> "done"]
Following_NoCR == [installed |-> "health", cr |-> "health", health |-> "crd", crd |-> "done"]

\* The order of the checks; a vanilla cluster starts at the last one.
Following == [installed |-> "cr", cr |-> "health", health |-> "crd", crd |-> "done"]

\* The checks made before k on this cluster type.
Before(k) ==
  IF ~openShift THEN {}
  ELSE CASE k = "installed" -> {}
         [] k = "cr"        -> {"installed"}
         [] k = "health"    -> {"installed", "cr"}
         [] k = "crd"       -> {"installed", "cr", "health"}

Required == IF openShift THEN Checks ELSE {"crd"}

Init ==
  /\ openShift \in BOOLEAN
  /\ deps \in [olm : {FALSE}, instances : {0}, readable : {TRUE},
               conds : {{}}, crd : {"absent"}]
  /\ queue = TRUE /\ pc = "done" /\ reason = "(none)"
  /\ held = {} /\ failed = {} /\ faulted = FALSE /\ faults = 0

\* The worker takes the CR from the queue.
Begin ==
  /\ pc = "done" /\ queue
  /\ pc' = "detect" /\ queue' = FALSE
  /\ held' = {k \in Checks : Holds(k, deps)}
  /\ failed' = Checks \ held'
  /\ faulted' = FALSE
  /\ UNCHANGED <<openShift, deps, reason, faults>>

\* Mutant: the failed check is reported, but no error returned.
degradeDependency_NoError(r) == pc' = "done" /\ reason' = r /\ UNCHANGED queue

\* The error ends the pass and has the CR queued again.
degradeDependency(r) == pc' = "done" /\ reason' = r /\ queue' = TRUE

\* cluster.DetectClusterType
DetectClusterType ==
  /\ pc = "detect"
  /\ pc' = IF openShift THEN "installed" ELSE "crd"
  /\ UNCHANGED <<openShift, deps, queue, reason, held, failed, faulted, faults>>

\* MarkFalse on the Degraded condition.
Succeeds == pc' = "done" /\ reason' = "DependenciesAvailable" /\ UNCHANGED queue

Check(k) ==
  /\ pc = k
  /\ IF Holds(k, deps)
       THEN IF Following[k] = "done" THEN Succeeds
                                     ELSE pc' = Following[k] /\ UNCHANGED <<reason, queue>>
       ELSE degradeDependency(ReasonOf[k])
  /\ UNCHANGED <<openShift, deps, held, failed, faulted, faults>>

\* A request fails: checkJobSetOperatorInstalled, checkJobSetOperatorCR and
\* checkJobSetAvailable return false on any error.
RequestFails ==
  /\ pc # "done" /\ faults < MaxFaults
  /\ degradeDependency(IF pc = "detect" THEN "ClusterDetectionFailed" ELSE ReasonOf[pc])
  /\ faulted' = TRUE /\ faults' = faults + 1
  /\ UNCHANGED <<openShift, deps, held, failed>>

\* The JobSetOperator is watched, its status too, where its CRD exists.
JobSetOperatorEvent(d) ==
  openShift /\ <<d.instances, d.readable, d.conds>>
                 # <<deps.instances, deps.readable, deps.conds>>

\* Someone installs, removes, breaks or repairs one dependency.
Change ==
  /\ \/ \E b \in BOOLEAN : deps' = [deps EXCEPT !.olm = b]
     \/ \E n \in 0..2 : deps' = [deps EXCEPT !.instances = n]
     \/ \E c \in CondSets, b \in BOOLEAN :
          deps' = [deps EXCEPT !.conds = c, !.readable = b]
     \/ \E c \in {"absent", "created", "established"} : deps' = [deps EXCEPT !.crd = c]
  /\ deps' # deps
  /\ queue' = (queue \/ JobSetOperatorEvent(deps'))
  /\ IF pc = "done" THEN UNCHANGED <<held, failed>>
     ELSE /\ held' = held \cup {k \in Checks : Holds(k, deps')}
          /\ failed' = failed \cup {k \in Checks : ~Holds(k, deps')}
  /\ UNCHANGED <<openShift, pc, reason, faulted, faults>>

Pass == Begin \/ DetectClusterType \/ RequestFails \/ \E k \in Checks : Check(k)

\* An event of another watched object. (External.)
Event ==
  /\ ~queue /\ queue' = TRUE
  /\ UNCHANGED <<openShift, deps, pc, reason, held, failed, faulted, faults>>

Next == Pass \/ Change \/ Event

\* The worker goes on while there is a pass to make; nothing makes the
\* environment act, so after a success there may never be another pass.
Spec == Init /\ [][Next]_vars /\ WF_vars(Pass)
-----------------------------------------------------------------------------
\* Every variable has its type.
TypeOK ==
  /\ openShift \in BOOLEAN /\ deps \in DepStates /\ queue \in BOOLEAN
  /\ pc \in Checks \cup {"detect", "done"}
  /\ reason \in Reasons \cup {"(none)"}
  /\ held \subseteq Checks /\ failed \subseteq Checks
  /\ faulted \in BOOLEAN /\ faults \in 0..MaxFaults

\* The verdict of a pass is backed by what the cluster showed during it,
\* whatever changed between the requests: DependenciesAvailable only if every
\* dependency this cluster type needs held at some moment of the pass, and a
\* dependency is blamed only if it failed at some moment (or its request did)
\* while every check made before it had held.
VerdictJustified ==
  pc = "done" =>
    /\ reason = "DependenciesAvailable" => Required \subseteq held
    /\ \A k \in Checks : reason = ReasonOf[k] =>
         /\ k \in Required
         /\ Before(k) \subseteq held
         /\ faulted \/ k \in failed

\* A pass during which no check changed its answer, and no request failed,
\* reports what checking one snapshot reports: the stepwise code and the
\* atomic CheckDependencies the reconciler model uses agree.
StepsAgreeWithSnapshot ==
  pc = "done" /\ reason # "(none)" /\ ~faulted /\ held \cap failed = {} =>
    \E d \in DepStates : /\ \A k \in Checks : Holds(k, d) <=> k \in held
                         /\ reason = CheckDependencies(openShift, d)

\* The dependencies whose loss no watch reports.
Unwatched == {"JobSetOperatorNotInstalled", "JobSetCRDNotFound"}

\* Once the dependencies stay in one condition, the reported reason becomes
\* and stays the one that describes it: a failed pass is queued again, and the
\* JobSetOperator's changes queue the CR. One wrong reason may stay, and only
\* DependenciesAvailable: OLM's operator or the JobSet CRD went away after the
\* pass that found it. Requests fail only finitely often.
DiagnosisConverges ==
  \A r \in Reasons :
    <>[](CheckDependencies(openShift, deps) = r) =>
      \/ <>[](reason = r)
      \/ r \in Unwatched /\ <>[](reason = "DependenciesAvailable")
=============================================================================
