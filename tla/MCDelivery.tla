------------------------------ MODULE MCDelivery ------------------------------
(* Instances of Delivery for TLC.                                           *)
EXTENDS Delivery, TLC

CONSTANTS push, pull, scan, commit, own

\* A push and a pull request on the same commit share their dedup key; a full
\* scan has a key of its own.
MCKeyOf == [e \in Deliveries |-> IF e = scan THEN own ELSE commit]

Symmetry == Permutations(Handlers) \cup Permutations(Runners) \cup Permutations(Instances)

=============================================================================
