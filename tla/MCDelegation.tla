----------------------------- MODULE MCDelegation -----------------------------
(* Model-checking instance of Delegation.                                  *)
EXTENDS Delegation
=============================================================================
