------------------------------ MODULE MCBilling ------------------------------
(***************************************************************************)
(* Billing for TLC.  Webhook requests are interchangeable.                 *)
(***************************************************************************)
EXTENDS Billing, TLC

RequestSymmetry == Permutations(Handlers)
==============================================================================
