-------------------------- MODULE FinalizerProtocol --------------------------
(***************************************************************************)
(* What the finalizer promises the owner of a Trainer CR, without how the  *)
(* operator keeps it: as long as the operand leaves any footprint in the   *)
(* cluster there is a CR that accounts for it and carries the finalizer.   *)
(***************************************************************************)
CONSTANT Things  \* what the operand's footprint is made of

VARIABLES
  holder,    \* the CR: "none", "unheld", "held" or "deleting", the last two
             \* with the finalizer
  footprint  \* the things that exist

vars == <<holder, footprint>>

Init == holder = "none" /\ footprint = {}

\* The owner creates the CR or asks for its deletion.
Create == holder = "none" /\ holder' = "unheld" /\ UNCHANGED footprint

Delete == /\ \/ holder = "unheld" /\ holder' = "none"
             \/ holder = "held" /\ holder' = "deleting"
          /\ UNCHANGED footprint

Hold == holder = "unheld" /\ holder' = "held" /\ UNCHANGED footprint

\* Things appear only under a CR with the finalizer; anyone may remove them.
Grow == /\ holder \in {"held", "deleting"}
        /\ footprint' \in SUBSET Things /\ UNCHANGED holder

Shrink == footprint' \in SUBSET footprint /\ UNCHANGED holder

\* The CR goes when nothing is left.
Release == /\ holder = "deleting" /\ footprint = {}
           /\ holder' = "none" /\ UNCHANGED footprint

Next == Create \/ Delete \/ Hold \/ Grow \/ Shrink \/ Release

Spec == Init /\ [][Next]_vars
=============================================================================
