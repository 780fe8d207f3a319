-------------------------- MODULE MCDependencyCheck --------------------------
(* The condition lists of the DependencyCheck run: none, healthy, degraded,  *)
(* healthy and degraded together, unavailable, malformed, not an object.     *)
EXTENDS DependencyCheck

Cond(t, s) == [type |-> t, status |-> s]

MCCondSets ==
  {{}, {Cond("Available", "True")}, {Cond("Degraded", "True")},
   {Cond("Available", "True"), Cond("TargetConfigControllerDegraded", "True")},
   {Cond("Available", "False")}, {Cond("Degraded", Missing)}, {NotAMap}}
=============================================================================
