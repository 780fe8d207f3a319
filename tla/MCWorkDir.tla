------------------------------ MODULE MCWorkDir ------------------------------
(* A template of a directory and three files, params.env in the middle of    *)
(* the walk.                                                                 *)
EXTENDS WorkDir

MCFiles == <<"rhoai", "kustomization.yaml", "params.env", "resources.yaml">>
=============================================================================
