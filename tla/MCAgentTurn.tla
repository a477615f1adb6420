---------------------------- MODULE MCAgentTurn ----------------------------
(***************************************************************************)
(* AgentTurn with the shapes of replies that TLC enumerates: an answer     *)
(* without calls, one delegation, a delegation beside another tool, and    *)
(* more delegations than may run at once.                                  *)
(***************************************************************************)
EXTENDS AgentTurn

MCShapes == {<<>>, <<TRUE>>, <<TRUE, FALSE>>, <<TRUE, TRUE, TRUE>>}

\* The arguments are only compared with each other.
Symmetry == Permutations(Args)

=============================================================================
