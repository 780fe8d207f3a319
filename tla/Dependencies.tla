---------------------------- MODULE Dependencies ----------------------------
(***************************************************************************)
(* The dependency checks of the reconciler (internal/controller/           *)
(* dependencies.go and checkDependencies of trainer_controller.go) as      *)
(* operators over one snapshot of the cluster. DependencyCheck.tla runs    *)
(* the same checks one API read at a time.                                 *)
(*                                                                         *)
(* A snapshot d is a record                                                *)
(*   olm        the JobSet operator is found through OLM                   *)
(*   instances  how many JobSetOperator objects exist                      *)
(*   readable   status.conditions, where present, is a list                *)
(*   conds      the entries of that list                                   *)
(*   crd        the JobSet CRD: absent, created, or established            *)
(***************************************************************************)
EXTENDS Naturals, FiniteSets

\* The value of a condition field the object does not carry.
Missing == "(missing)"

\* A list entry that is not an object; the health check skips it.
NotAMap == [type |-> "(not a map)", status |-> "(not a map)"]

Reasons == {"DependenciesAvailable", "ClusterDetectionFailed",
            "JobSetOperatorNotInstalled", "JobSetOperatorCRNotFound",
            "JobSetOperatorDegraded", "JobSetCRDNotFound"}

\* cluster.GetSingleton: exactly one object of the kind, else an error.
GetSingleton(d) == d.instances = 1

\* cluster.CustomResourceDefinitionExists: present and established.
CustomResourceDefinitionExists(d) == d.crd = "established"

checkJobSetOperatorInstalled(d) == d.olm

checkJobSetOperatorCR(d) == GetSingleton(d)

checkJobSetAvailable(d) == CustomResourceDefinitionExists(d)

isJobSetOperatorConditionDegraded(c) ==
  \/ /\ c.type \in {"Degraded", "TargetConfigControllerDegraded",
                    "JobSetOperatorStaticResourcesDegraded"}
     /\ c.status = "True"
  \/ c.type = "Available" /\ c.status = "False"

\* An entry the health check reports: malformed, or a degraded condition.
ReportedCondition(c) ==
  /\ c # NotAMap
  /\ \/ Missing \in {c.type, c.status}
     \/ isJobSetOperatorConditionDegraded(c)

\* The CR is fetched again, so it may also fail to be found here. No
\* conditions at all means that its operator has not reconciled it yet.
checkJobSetOperatorHealth(d) ==
  /\ GetSingleton(d)
  /\ d.readable
  /\ d.conds # {}
  /\ ~ \E c \in d.conds : ReportedCondition(c)

\* The checks in the order checkDependencies makes them, up to the first one
\* that fails; the reason it writes on the Degraded condition.
CheckDependencies(openShift, d) ==
  IF openShift /\ ~checkJobSetOperatorInstalled(d) THEN "JobSetOperatorNotInstalled"
  ELSE IF openShift /\ ~checkJobSetOperatorCR(d) THEN "JobSetOperatorCRNotFound"
  ELSE IF openShift /\ ~checkJobSetOperatorHealth(d) THEN "JobSetOperatorDegraded"
  ELSE IF ~checkJobSetAvailable(d) THEN "JobSetCRDNotFound"
  ELSE "DependenciesAvailable"
=============================================================================
