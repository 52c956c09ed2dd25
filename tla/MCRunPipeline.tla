---------------------------- MODULE MCRunPipeline ----------------------------
(***************************************************************************)
(* RunPipeline for TLC: constants are given by the configurations.         *)
(***************************************************************************)
EXTENDS RunPipeline
=============================================================================
