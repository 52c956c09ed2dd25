----------------------------- MODULE MCWorkflow -----------------------------
(***************************************************************************)
(* Workflow for TLC.  Agents and connections are interchangeable: nothing  *)
(* in the module chooses between them.                                     *)
(***************************************************************************)
EXTENDS Workflow, TLC

GraphSymmetry == Permutations(Agent) \cup Permutations(Connection)
=============================================================================
