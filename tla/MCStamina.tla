------------------------------ MODULE MCStamina ------------------------------
(***************************************************************************)
(* Stamina for TLC: the operator, who is the coinbase, and one user.       *)
(***************************************************************************)
EXTENDS Stamina

CONSTANTS op, ann, nul
=============================================================================
