----------------------------- MODULE MCTeamRuns -----------------------------
(***************************************************************************)
(* TeamRuns for TLC.  No definition of TeamRuns tells requests or teams    *)
(* apart, and no run of it checks liveness.                                *)
(***************************************************************************)
EXTENDS TeamRuns, TLC

RequestSymmetry == Permutations(Request) \cup Permutations(Team)
=============================================================================
