--------------------------- MODULE MCRunAdmission ----------------------------
(***************************************************************************)
(* RunAdmission for TLC: a model of every registry, one of the paid ones   *)
(* and one of none.  BYOK has no limits, so more than there are requests.  *)
(***************************************************************************)
EXTENDS RunAdmission, TLC

CONSTANTS cheap, paid, unlisted

MCModel == {cheap, paid, unlisted}
MCRegistry == [p \in Plan |-> IF p = "FREE" THEN {cheap} ELSE {cheap, paid}]
MCConcurrentLimit == [FREE |-> 1, PRO |-> 2, BYOK |-> 9]
MCMonthlyLimit == [FREE |-> 2, PRO |-> 3, BYOK |-> 9]

RequestSymmetry == Permutations(Request)
==============================================================================
