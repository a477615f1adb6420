------------------------------ MODULE AgentTurn ------------------------------
(***************************************************************************)
(* Turns of the lead agent on the checkpoint thread of one instance        *)
(* (core/runner/executor.py, core/runner/history.py): the repair of the    *)
(* thread, the loop of model calls and tool calls, and the middleware that *)
(* looks at every reply (core/middleware).  The graph is built anew for    *)
(* every turn, so the middleware starts fresh while the thread goes on.    *)
(*                                                                         *)
(* Every node of the graph ends in a checkpoint, so a turn may be cut off  *)
(* between any two actions: by an exception or a stop (Interrupt, followed *)
(* by a repair that may fail) or with the process (Crash).                 *)
(***************************************************************************)
EXTENDS Integers, Sequences, FiniteSets, SequencesExt

CONSTANTS
  Shapes,          \* the tool calls of a reply: TRUE delegates (task)
  Args,            \* what _salient tells apart in the arguments
  MaxConcurrent,   \* SubagentLimitMiddleware.max_concurrent
  MaxTotal,        \* SubagentLimitMiddleware.max_total_per_run
  Budget,          \* TokenBudgetMiddleware._budget, in replies
  IdenticalHard,   \* LoopDetectionMiddleware._identical_hard
  FreqHard,        \* LoopDetectionMiddleware._freq_hard
  Window,          \* LoopDetectionMiddleware._window
  MaxReplies,      \* bound: replies of the model
  MaxTurns         \* bound: turns

ASSUME TurnAssumption ==
  /\ \A s \in Shapes : s \in Seq(BOOLEAN)
  /\ MaxConcurrent \in Nat \ {0} /\ MaxTotal \in Nat \ {0}
  /\ Budget \in Nat \ {0}
  /\ IdenticalHard \in Nat \ {0} /\ FreqHard \in Nat \ {0}
  /\ Window \in Nat /\ Window >= IdenticalHard /\ Window >= FreqHard
  /\ MaxReplies \in Nat /\ MaxTurns \in Nat

VARIABLES
  thread,      \* the messages of the checkpoint
  pc,          \* where the turn is
  start,       \* history: replies before this turn
  replies,     \* replies so far; message ids
  turns,       \* turns so far
  seen, used,  \* TokenBudgetMiddleware._seen, _total
  history,     \* LoopDetectionMiddleware._history
  toolHistory, \* LoopDetectionMiddleware._tool_history
  retried      \* TerminalResponseMiddleware._retried

midVars == <<seen, used, history, toolHistory, retried>>
vars == <<thread, pc, start, replies, turns, midVars>>

Calls == [reply : 1 .. MaxReplies, n : Nat \ {0}, task : BOOLEAN]
None == [reply |-> 0, n |-> 0, task |-> FALSE]

\* The elements of s that are in S, in their order: SelectSeq, without the
\* definition local to it, which a proof cannot expand.
Only(s, S) == FlattenSeq([n \in DOMAIN s |-> IF s[n] \in S THEN <<s[n]>> ELSE <<>>])

CallsOf(m) == ToSet(m.calls)
Tasks(m) == Only(m.calls, {c \in CallsOf(m) : c.task})

\* One record for all kinds of messages.  text: not empty; bad: has
\* invalid_tool_calls; usage: has usage_metadata; status: a ToolMessage with
\* subagent_status; ans: the call a ToolMessage answers.
Blank == [role |-> "human", id |-> 0, calls |-> <<>>, args |-> {}, text |-> TRUE,
          bad |-> FALSE, usage |-> FALSE, status |-> FALSE, ans |-> None]
Human == Blank
Result(c) == [Blank EXCEPT !.role = "tool", !.ans = c, !.status = c.task]
Failed(c) == [Blank EXCEPT !.role = "tool", !.ans = c]
Cancelled(c) == Failed(c)

PCs == {"none", "done", "repair", "input", "model", "terminal", "budget", "loop",
        "limit", "tools", "broken"}
\* Inside `async with self._repaired_thread`.
GraphPCs == {"input", "model", "terminal", "budget", "loop", "limit", "tools"}

TypeOK ==
  /\ \A n \in DOMAIN thread :
       /\ DOMAIN thread[n] = DOMAIN Blank
       /\ thread[n].role \in {"human", "ai", "tool"}
       /\ \A k \in DOMAIN thread[n].calls : thread[n].calls[k] \in Calls
       /\ thread[n].ans \in Calls \cup {None}
  /\ pc \in PCs
  /\ replies \in 0 .. MaxReplies /\ start \in 0 .. replies /\ turns \in 0 .. MaxTurns
  /\ seen \subseteq 1 .. MaxReplies /\ used = Cardinality(seen)
  /\ Len(history) <= Window /\ Len(toolHistory) <= Window
  /\ retried \in BOOLEAN

Init ==
  /\ thread = <<>>
  /\ pc = "none"
  /\ start = 0 /\ replies = 0 /\ turns = 0
  /\ seen = {} /\ used = 0
  /\ history = <<>> /\ toolHistory = <<>>
  /\ retried = FALSE

-----------------------------------------------------------------------------
(* The repair of the thread.                                               *)

\* The calls that a ToolMessage anywhere in s answers.
Answers(s) == {s[n].ans : n \in {m \in DOMAIN s : s[m].role = "tool"}}

Open(s, m) == Only(m.calls, CallsOf(m) \ Answers(s))

\* Every AIMessage loses its truncated calls and is followed by a synthetic
\* ToolMessage for each of its calls that has none.
Cleaned(m) == [m EXCEPT !.bad = FALSE, !.text = @ \/ m.bad]
Cancellations(s, m) == LET open == Open(s, m)
                       IN  [k \in DOMAIN open |-> Cancelled(open[k])]
RepairedTail(s) ==
  IF s = <<>> THEN s
  ELSE s \o Cancellations(s, s[Len(s)])
RepairedCallsOnly(s) ==
  LET fix(m) == <<m>> \o Cancellations(s, m)
  IN  FlattenSeq([n \in DOMAIN s |-> fix(s[n])])
RepairedByRemoval(s) ==
  Only(s, {m \in ToSet(s) : CallsOf(m) \subseteq Answers(s)})
Repaired(s) ==
  FlattenSeq([n \in DOMAIN s |-> <<Cleaned(s[n])>> \o Cancellations(s, s[n])])

\* process_event or chat_stream: a new graph with new middleware.
StartTurn ==
  /\ pc \in {"none", "done"} /\ turns < MaxTurns
  /\ turns' = turns + 1
  /\ pc' = "repair"
  /\ start' = replies
  /\ seen' = {} /\ used' = 0 /\ history' = <<>> /\ toolHistory' = <<>> /\ retried' = FALSE
  /\ UNCHANGED <<thread, replies>>

\* No sandbox, no repository, or the repair raises.
StartFails ==
  /\ pc = "repair"
  /\ pc' = "none"
  /\ UNCHANGED <<thread, start, replies, turns, midVars>>

Repair ==
  /\ pc = "repair"
  /\ thread' = Repaired(thread)
  /\ pc' = "input"
  /\ UNCHANGED <<start, replies, turns, midVars>>

Input ==
  /\ pc = "input"
  /\ thread' = Append(thread, Human)
  /\ pc' = "model"
  /\ UNCHANGED <<start, replies, turns, midVars>>

-----------------------------------------------------------------------------
(* The loop of the graph: model, after_model hooks in reverse order, tools. *)

\* SummarizationMiddleware.before_model: the messages before n become one,
\* never with a cut between calls and their results.
Compact(n) ==
  /\ pc = "model"
  /\ n \in 3 .. Len(thread) /\ thread[n].role # "tool"
  /\ thread' = <<Human>> \o SubSeq(thread, n, Len(thread))
  /\ UNCHANGED <<pc, start, replies, turns, midVars>>

Reply(shape, args, text, bad) ==
  [Blank EXCEPT !.role = "ai", !.id = replies + 1, !.args = {args}, !.usage = TRUE,
                !.text = text, !.bad = bad,
                !.calls = [k \in DOMAIN shape |->
                             [reply |-> replies + 1, n |-> k, task |-> shape[k]]]]

ModelReplies(shape, args, text, bad) ==
  /\ pc = "model" /\ replies < MaxReplies
  /\ replies' = replies + 1
  /\ thread' = Append(thread, Reply(shape, args, text, bad))
  /\ pc' = "terminal"
  /\ UNCHANGED <<start, turns, midVars>>

LastMsg == thread[Len(thread)]
ReplaceLast(m) == thread' = [thread EXCEPT ![Len(thread)] = m]
EmptyFirst == LastMsg.calls = <<>> /\ ~LastMsg.text /\ ~retried
EmptyFinal == LastMsg.calls = <<>> /\ ~LastMsg.text
AnyTool == \E n \in DOMAIN thread : thread[n].role = "tool"

\* clone_ai_message_with_tool_calls: the clone has no usage and no truncated
\* calls; it gets a note when no call is left.
Keep(m, kept) ==
  LET left == Only(m.calls, kept)
  IN  [m EXCEPT !.calls = left, !.usage = FALSE, !.bad = FALSE,
                !.text = @ \/ (left = <<>> /\ m.calls # <<>>)]
StripAll(m) == Keep(m, {})

\* TerminalResponseMiddleware.after_model: an empty final answer after tools
\* is asked for again once, then replaced by a visible error.
AfterTerminal ==
  /\ pc = "terminal"
  /\ \/ /\ EmptyFinal /\ AnyTool /\ ~retried
        /\ retried' = TRUE
        /\ thread' = SubSeq(thread, 1, Len(thread) - 1)
        /\ pc' = "model"
     \/ /\ EmptyFinal /\ AnyTool /\ retried
        /\ ReplaceLast([LastMsg EXCEPT !.text = TRUE, !.bad = FALSE, !.usage = FALSE])
        /\ pc' = "budget"
        /\ UNCHANGED retried
     \/ /\ ~(EmptyFinal /\ AnyTool)
        /\ pc' = "budget"
        /\ UNCHANGED <<thread, retried>>
  /\ UNCHANGED <<start, replies, turns, seen, used, history, toolHistory>>

\* TokenBudgetMiddleware.after_model: usage of all replies in the thread that
\* this middleware has not counted yet.
Uncounted == {thread[n].id : n \in {m \in DOMAIN thread : thread[m].usage}} \ seen
OverBudgetLate(total) == total > Budget
OverBudget(total) == total >= Budget

AfterBudget ==
  /\ pc = "budget"
  /\ seen' = seen \cup Uncounted
  /\ used' = used + Cardinality(Uncounted)
  /\ \/ /\ OverBudget(used') /\ LastMsg.calls # <<>>
        /\ ReplaceLast(StripAll(LastMsg))
     \/ /\ ~(OverBudget(used') /\ LastMsg.calls # <<>>)
        /\ UNCHANGED thread
  /\ pc' = "loop"
  /\ UNCHANGED <<start, replies, turns, history, toolHistory, retried>>

\* deque(maxlen=Window).
Latest(s) == IF Len(s) > Window THEN SubSeq(s, Len(s) - Window + 1, Len(s)) ELSE s
Count(s, x) == Cardinality({n \in DOMAIN s : s[n] = x})
Names(m) == [k \in DOMAIN m.calls |-> m.calls[k].task]
CallSet(m) == <<Len(m.calls), Len(Tasks(m)), m.args>>

Looping(hist, tools, m) == \/ Count(hist, CallSet(m)) >= IdenticalHard
                           \/ \E name \in BOOLEAN : Count(tools, name) >= FreqHard

\* LoopDetectionMiddleware.after_model.
AfterLoop ==
  /\ pc = "loop"
  /\ \/ /\ LastMsg.calls = <<>>
        /\ UNCHANGED <<thread, history, toolHistory>>
     \/ /\ LastMsg.calls # <<>>
        /\ history' = Latest(Append(history, CallSet(LastMsg)))
        /\ toolHistory' = Latest(toolHistory \o Names(LastMsg))
        /\ \/ Looping(history', toolHistory', LastMsg) /\ ReplaceLast(StripAll(LastMsg))
           \/ ~Looping(history', toolHistory', LastMsg) /\ UNCHANGED thread
  /\ pc' = "limit"
  /\ UNCHANGED <<start, replies, turns, seen, used, retried>>

MinOf(a, b) == IF a <= b THEN a ELSE b
MaxOf(a, b) == IF a >= b THEN a ELSE b
PriorDelegations == Cardinality({n \in DOMAIN thread : thread[n].status})
AllowedAtOnce == MaxConcurrent
Allowed == MinOf(MaxConcurrent, MaxOf(0, MaxTotal - PriorDelegations))
KeptCalls(m) == {m.calls[k] : k \in {j \in DOMAIN m.calls : ~m.calls[j].task}}
                  \cup {Tasks(m)[k] : k \in 1 .. MinOf(Allowed, Len(Tasks(m)))}

\* SubagentLimitMiddleware.after_model, then the edge to the tools or the end.
AfterLimit ==
  LET m == IF Len(Tasks(LastMsg)) <= Allowed
           THEN LastMsg ELSE Keep(LastMsg, KeptCalls(LastMsg))
  IN
  /\ pc = "limit"
  /\ ReplaceLast(m)
  /\ pc' = IF m.calls = <<>> THEN "done" ELSE "tools"
  /\ UNCHANGED <<start, replies, turns, midVars>>

\* The results of the calls in S, in the order of the calls.  Those in bad
\* did not fit the tool's schema: an error message, and no subagent ran.
Results(S, bad) ==
  LET done == Only(LastMsg.calls, S)
  IN  [k \in DOMAIN done |-> IF done[k] \in bad THEN Failed(done[k]) ELSE Result(done[k])]

\* Every call returns a ToolMessage, a failed one an error (ToolErrorHandling).
ToolsReturn ==
  /\ pc = "tools"
  /\ \E bad \in SUBSET CallsOf(LastMsg) :
       thread' = thread \o Results(CallsOf(LastMsg), bad)
  /\ pc' = "model"
  /\ UNCHANGED <<start, replies, turns, midVars>>

-----------------------------------------------------------------------------
(* Turns that are cut off.                                                 *)

\* What the checkpoint holds when the graph stops here: of parallel tool
\* calls, those that had returned, with a result or with an error.
Saved ==
  IF pc = "tools"
  THEN {thread \o Results(S, bad) : S, bad \in SUBSET CallsOf(LastMsg)}
  ELSE {thread}

\* The turn is cancelled by a stop, or the model, a hook or the recursion
\* limit raises.
Interrupt ==
  /\ pc \in GraphPCs
  /\ thread' \in Saved
  /\ pc' = "broken"
  /\ UNCHANGED <<start, replies, turns, midVars>>

\* _repaired_thread on the way out, best-effort.
RepairAfter ==
  /\ pc = "broken"
  /\ thread' \in {thread, Repaired(thread)}
  /\ pc' = "none"
  /\ UNCHANGED <<start, replies, turns, midVars>>

Crash ==
  /\ pc \in GraphPCs
  /\ thread' \in Saved
  /\ pc' = "none"
  /\ UNCHANGED <<start, replies, turns, midVars>>

Next ==
  \/ StartTurn \/ StartFails \/ Repair \/ Input
  \/ \E n \in DOMAIN thread : Compact(n)
  \/ \E shape \in Shapes, args \in Args, text, bad \in BOOLEAN :
       ModelReplies(shape, args, text, bad)
  \/ AfterTerminal \/ AfterBudget \/ AfterLoop \/ AfterLimit
  \/ ToolsReturn
  \/ Interrupt \/ RepairAfter \/ Crash

Spec == Init /\ [][Next]_vars

-----------------------------------------------------------------------------
(* Properties.                                                             *)

\* Each call of an AIMessage is answered by one of the ToolMessages that
\* follow it without another message in between, and by only one.
AnsweredAt(s, n) ==
  \A k \in DOMAIN s[n].calls :
    /\ \E m \in n + 1 .. Len(s) : /\ s[m].ans = s[n].calls[k]
                                  /\ \A j \in n + 1 .. m : s[j].role = "tool"
    /\ Cardinality({m \in DOMAIN s : s[m].ans = s[n].calls[k]}) = 1

\* The provider rejects a history with an unanswered tool call.  Wherever
\* earlier turns were cut off, whichever repairs failed and whatever was
\* compacted, a model call never sends one.
ModelSeesAnswered == pc = "model" => \A n \in DOMAIN thread : AnsweredAt(thread, n)

\* A turn starts on a thread without truncated tool calls, and repairing it
\* again would change nothing.
StartsClean == pc = "input" => /\ \A n \in DOMAIN thread : ~thread[n].bad
                               /\ Repaired(thread) = thread

\* What s and a repair of s have in common: all but the ToolMessages for calls
\* that none in s answers.
Shared(s, m) == m.role # "tool" \/ m.ans \in Answers(s)
Plain(m) == <<m.role, m.id, m.calls, m.ans, m.status>>
PlainShared(s, t) ==
  FlattenSeq([n \in DOMAIN t |-> IF Shared(s, t[n]) THEN <<Plain(t[n])>> ELSE <<>>])

\* A repair adds ToolMessages and nothing else: what was in the thread stays,
\* in its order, so no result that a cut-off turn had saved is lost.
RepairOnlyAdds ==
  [][(pc \in {"repair", "broken"}) =>
       PlainShared(thread, thread') = [n \in DOMAIN thread |-> Plain(thread[n])]]_vars

\* Whatever the replies ask for, the delegations that the lead remembers never
\* exceed the total limit, also when turns are cut off between the check and
\* the results.
TotalLimit == PriorDelegations <= MaxTotal

\* A turn that has spent its budget calls no more tools.  The one reply that
\* TerminalResponseMiddleware takes back is not counted.
BudgetStops == pc = "tools" => replies - start < Budget + (IF retried THEN 1 ELSE 0)

\* A turn that used tools ends with an answer.
NeverEmptyAnswer == pc = "done" /\ AnyTool => LastMsg.text

=============================================================================
