---------------------------- MODULE MCTurnResults ----------------------------
(* Main line 1-2-3-4 and a branch of one commit, 5, that leaves it at 2.   *)
EXTENDS TurnResults, TLC

MCParent == <<0, 1, 2, 3, 2>>

Ev(action, commit, before, base) ==
  [action |-> action, commit |-> commit, before |-> before, base |-> base]

(* A push of two commits and of one, a first manual run, a pull request, a *)
(* full scan of wherever the default branch is, a chat.                    *)
MCEvents ==
  {Ev("push", 4, 2, 0), Ev("push", 3, 2, 0), Ev("manual", 4, 0, 0),
   Ev("pull_request", 5, 0, 3), Ev("full_scan", 0, 0, 0), Ev("chat", 0, 0, 0)}

MCRegions == {<<>>, <<1>>, <<4>>, <<3, 2>>, <<5, 0>>}

Symmetry == Permutations(Agents)
=============================================================================
