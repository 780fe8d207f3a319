------------------------------ MODULE MCRollout ------------------------------
(* An instance of Rollout for TLC.                                           *)
EXTENDS Rollout, MCTrainer
=============================================================================
