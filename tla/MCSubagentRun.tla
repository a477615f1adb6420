---------------------------- MODULE MCSubagentRun ----------------------------
(* Model-checking instance of SubagentRun: two tools, of which the second, *)
(* report_finding, has the longer ledger line, and a ledger budget that    *)
(* two short lines fill.                                                   *)
EXTENDS SubagentRun

CONSTANTS run, finding

MCTools == {run, finding}
MCCallLists == {<<>>, <<run>>, <<finding, run>>}
MCLineLen == [t \in MCTools |-> IF t = run THEN 1 ELSE 2]
MCAnchors == {None, run}
=============================================================================
