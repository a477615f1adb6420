---------------------------- MODULE MCProvisioning ----------------------------
(* Model-checking instance of Provisioning: one instance to provide for.   *)
EXTENDS Provisioning, TLC

MCInstances == <<1>>

Symmetry == Permutations(Requests)
=============================================================================
