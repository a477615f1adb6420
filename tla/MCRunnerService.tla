--------------------------- MODULE MCRunnerService ---------------------------
(* Instances of RunnerService for TLC.                                      *)
EXTENDS RunnerService, TLC

\* Coroutines and runners are interchangeable (LocalInstance identities are
\* not: NewObject chooses one).
Symmetry == Permutations(Tasks) \cup Permutations(Runners)

=============================================================================
