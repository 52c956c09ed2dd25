-------------------------------- MODULE MCAuth --------------------------------
(***************************************************************************)
(* Auth for TLC.  Requests are interchangeable.                            *)
(***************************************************************************)
EXTENDS Auth, TLC

RequestSymmetry == Permutations(Requests)
==============================================================================
