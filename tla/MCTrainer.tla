------------------------------ MODULE MCTrainer ------------------------------
(* Instances of TrainerReconciler for TLC.                                   *)
EXTENDS TrainerReconciler

CONSTANTS b1, b2, v1, boot1, boot2

\* The objects of a deployment: the runtime CRD, a ClusterRole the second
\* build no longer ships, a Service, the operand's Deployment, a
\* ClusterTrainingRuntime and the webhook configuration, in apply order.
MCRank == [crd |-> 1, role |-> 2, svc |-> 3, is |-> 4, dep |-> 5, rt |-> 6, vwc |-> 7]

Ready == [olm |-> TRUE, instances |-> 1, readable |-> TRUE,
          conds |-> {[type |-> "Available", status |-> "True"]},
          crd |-> "established"]
Unavailable == [Ready EXCEPT !.conds = {[type |-> "Available", status |-> "False"]}]
NoCRD == [Ready EXCEPT !.crd = "absent"]

OneDepState == {Ready}
CRDComesAndGoes == {Ready, NoCRD}
OperatorFails == {Ready, Unavailable}

OneManifest == [b \in {b1} |-> Objects]
\* The second build drops the role.
DropsRole == [b \in {b1, b2} |-> IF b = b1 THEN Objects ELSE Objects \ {"role"}]

Boot == [b \in {b1, b2} |-> IF b = b1 THEN boot1 ELSE boot2]

NoClash == {}
DeploymentClash == {<<b1, b2, "dep">>, <<b2, b1, "dep">>}
RuntimeClash == {<<b1, b2, "rt">>}
=============================================================================
