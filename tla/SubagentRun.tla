----------------------------- MODULE SubagentRun -----------------------------
(***************************************************************************)
(* One run of a subagent: SubagentExecutor.arun drives the child's graph   *)
(* (model, tools, model, ...), the receipt middleware stamps every tool    *)
(* result and shows the model a ledger r1..rN of what was executed, and    *)
(* the task tool checks the receipt citations of the final report.         *)
(*                                                                         *)
(* A call is identified by its tool_call_id, here the pair of the AI       *)
(* message that asked for it and its place there.  The text of a message   *)
(* is abstracted to what the verdict tells apart; a rendered ledger line   *)
(* is abstracted to its length.                                            *)
(***************************************************************************)
EXTENDS Integers, Sequences, FiniteSets, SequencesExt

CONSTANTS
  Tools,        \* tool names
  FindingTool,  \* report_finding
  CallLists,    \* the tool call lists a model reply may carry
  Texts,        \* what a reply's text says: "empty", "short", "claims", "long"
  CitedIds,     \* receipt numbers a report may cite
  Anchors,      \* tool labels a citation may carry, None for a bare one
  MaxCites,     \* bound on the citations of one reply
  MaxTurns,     \* SubagentConfig.max_turns, LangGraph's recursion limit
  LineLen,      \* length of the ledger line of a tool
  HeaderLen, OmissionLen, RenderBudget,
  None

ReceiptSet == [id : Nat, call : Nat \X Nat, tool : Tools, status : {"success", "error"}]

ASSUME RunAssumption ==
  /\ MaxTurns \in Nat \ {0} /\ MaxCites \in Nat
  /\ CallLists \subseteq Seq(Tools) /\ CitedIds \subseteq Nat \ {0}
  /\ Texts \subseteq {"empty", "short", "claims", "long"}
  /\ LineLen \in [Tools -> Nat]
  /\ HeaderLen \in Nat /\ OmissionLen \in Nat /\ RenderBudget \in Nat
  /\ FindingTool \in Tools /\ None \notin Tools
  /\ \A t \in Tools : HeaderLen + OmissionLen + LineLen[t] <= RenderBudget

VARIABLES
  pc,         \* where the child's graph is: start, model, tools, end, over
  messages,   \* the child's AI and tool messages
  said,       \* text and citations of the last AI message
  steps,      \* LangGraph supersteps taken
  usage,      \* SubagentTokenCollector: the replies with a usage record
  holder,     \* the SubagentResult that arun fills
  captured,   \* messages handed to on_step, by position
  cursor,     \* processed_count of the step capture
  outcome     \* what the task tool returns: the result and its verdict

vars == <<pc, messages, said, steps, usage, holder, captured, cursor, outcome>>
-----------------------------------------------------------------------------
Citation == [id : CitedIds, anchor : Anchors]

Says == {s \in [text : Texts, cites : UNION {[1..n -> Citation] : n \in 0..MaxCites}] :
           s.text = "empty" => s.cites = <<>>}

IsTool(m) == m.role = "tool"

(* extract_tool_receipts: the stamped results, numbered r1..rN by their    *)
(* place among the stamped ones.  A ledger is the set of its receipts,     *)
(* which are in the order of their numbers.                                *)
Stamped(ms) == {n \in DOMAIN ms : IsTool(ms[n]) /\ ms[n].stamped}

Number(ms, n) == Cardinality({m \in Stamped(ms) : m <= n})

Receipts(ms) ==
  {[id |-> Number(ms, n), call |-> ms[n].call, tool |-> ms[n].tool, status |-> ms[n].status] :
     n \in Stamped(ms)}

(* The length of the k-th newest line, and of the newest k together.       *)
Line(rs, k) == LineLen[(CHOOSE r \in rs : r.id = Cardinality(rs) - k + 1).tool]

Lengths(rs) ==
  LET sum[k \in 0..Cardinality(rs)] == IF k = 0 THEN 0 ELSE sum[k - 1] + Line(rs, k)
  IN  sum

\* mutant: the rendered rows are numbered afresh
NewestRenumbered(rs, k) ==
  {[r EXCEPT !.id = @ - (Cardinality(rs) - k)] : r \in {x \in rs : x.id > Cardinality(rs) - k}}

Newest(rs, k) == {r \in rs : r.id > Cardinality(rs) - k}

(* render_tool_receipts_with_snapshot: all receipts if they fit, else the  *)
(* newest that fit beside the omission line, else none.                    *)
Rendered(rs) ==
  IF HeaderLen + Lengths(rs)[Cardinality(rs)] <= RenderBudget
  THEN rs
  ELSE LET fits == {k \in 0..Cardinality(rs) :
                      HeaderLen + OmissionLen + Lengths(rs)[k] <= RenderBudget}
       IN  IF fits = {} THEN {}
           ELSE Newest(rs, CHOOSE k \in fits : \A j \in fits : j <= k)

(* extract_citing_turn_receipts: the ledger of the last AI message that    *)
(* carries one.  A ledger that may be missing is the set of it, which is   *)
(* empty where the code has None.                                          *)
CitingTurn(ms) ==
  LET citing == {i \in DOMAIN ms : ~IsTool(ms[i]) /\ ms[i].ledger # {}}
  IN  {ms[i].ledger : i \in {n \in citing : \A j \in citing : j <= n}}

\* mutant: all receipts of the run instead of the citing turn's
HarvestAll(ms) == {Receipts(ms)}

(* _harvest: without a citing turn the ledger is known only if it is empty. *)
Harvest(ms) ==
  IF CitingTurn(ms) # {} THEN CitingTurn(ms)
  ELSE IF Receipts(ms) = {} THEN {{}} ELSE {}

(* collect_findings: the report_finding calls of the AI messages, whatever *)
(* became of them; that equal titles of one file count once is left out.   *)
Findings(ms) ==
  UNION {{<<n, i>> : i \in {j \in DOMAIN ms[n].calls : ms[n].calls[j] = FindingTool}} :
           n \in {k \in DOMAIN ms : ~IsTool(ms[k])}}
-----------------------------------------------------------------------------
(* verify_receipt_citations over a report and the receipts of its turn.    *)
ById(rs, id) == {r \in rs : r.id = id}

\* mutant: failed calls count as evidence
ResolvedAnyStatus(cites, rs) ==
  {c \in ToSet(cites) : \E r \in ById(rs, c.id) : c.anchor \in {None, r.tool}}

Resolved(cites, rs) ==
  {c \in ToSet(cites) : \E r \in ById(rs, c.id) :
      r.status = "success" /\ c.anchor \in {None, r.tool}}

NoCitationClaims(report, rs) ==
  /\ report.cites = <<>>
  /\ \/ report.text = "claims"
     \/ report.text = "long" /\ rs # {}

Verdict(report, rs) ==
  [resolved |-> Resolved(report.cites, rs),
   unknown  |-> {c \in ToSet(report.cites) : ById(rs, c.id) = {}},
   clean    |-> IF report.cites = <<>>
                THEN ~NoCitationClaims(report, rs)
                ELSE Resolved(report.cites, rs) = ToSet(report.cites)]

(* _extract_final_result: only the last AI message is looked at; without   *)
(* text it becomes "No response generated", whose verb reads as a claim.   *)
Placeholder == [text |-> "claims", cites |-> <<>>]

FinalResult == IF said.text = "empty" THEN Placeholder ELSE said

\* mutant: a failed run is terminated without its usage
SetTerminalUnbilled(h, status, report, stop, receipts) ==
  [h EXCEPT !.status = status, !.stop = stop,
            !.report = IF report = None THEN @ ELSE report,
            !.receipts = IF receipts = {} THEN @ ELSE receipts,
            !.usage = IF status = "FAILED" THEN {} ELSE usage]

(* try_set_terminal: first writer wins, and a None leaves the field as the *)
(* stream set it.                                                          *)
TrySetTerminal(h, status, report, stop, receipts) ==
  IF h.status \in {"COMPLETED", "FAILED", "TIMED_OUT", "CANCELLED"} THEN h
  ELSE [h EXCEPT !.status = status, !.stop = stop,
                 !.report = IF report = None THEN @ ELSE report,
                 !.receipts = IF receipts = {} THEN @ ELSE receipts,
                 !.usage = usage]

(* The end of the task tool: the verdict is given for a completed run with *)
(* known receipts only.                                                    *)
Report(h) ==
  [result  |-> h,
   verdict |-> IF h.status = "COMPLETED" /\ h.receipts # {} /\ h.report # None
               THEN Verdict(h.report, UNION h.receipts) ELSE None]

\* mutant: the tail begins at the cursor and ids are not remembered
CaptureFromCursor(ms) ==
  LET from == IF cursor = 0 THEN 1 ELSE cursor
  IN  captured \o [i \in 1..(Len(ms) - from + 1) |-> from + i - 1]

(* capture_new_step_messages: the tail beyond the cursor in order, each    *)
(* message id once.                                                        *)
Ascending(S) ==
  [i \in 1..Cardinality(S) |-> CHOOSE n \in S : Cardinality({m \in S : m <= n}) = i]

Capture(ms) ==
  LET from == IF Len(ms) < cursor THEN 1 ELSE cursor + 1
  IN  captured \o Ascending((from..Len(ms)) \ ToSet(captured))

(* on_llm_end: the callback may come more than once for a reply, or        *)
(* without usage; a reply has at most one record.                          *)
Billed(callbacks) == IF callbacks = 0 THEN usage ELSE usage \cup {Len(messages) + 1}

(* One chunk of the values stream, as arun's loop takes it in.             *)
TakeChunk(ms) ==
  /\ messages' = ms
  /\ captured' = Capture(ms)
  /\ cursor' = Len(ms)
  /\ holder' = [holder EXCEPT !.receipts = {Receipts(ms)}, !.usage = usage',
                              !.findings = Findings(ms)]

Over(h) ==
  /\ pc' = "over"
  /\ holder' = h
  /\ outcome' = Report(h)
  /\ UNCHANGED <<messages, said, steps, usage, captured, cursor>>
-----------------------------------------------------------------------------
Init ==
  /\ pc = "start" /\ messages = <<>> /\ steps = 0 /\ usage = {}
  /\ said = [text |-> "empty", cites |-> <<>>]
  /\ holder = [status |-> "RUNNING", report |-> None, stop |-> None,
               receipts |-> {}, usage |-> {}, findings |-> {}]
  /\ captured = <<>> /\ cursor = 0 /\ outcome = None

(* The stream's first chunk is the input itself.                           *)
Start ==
  /\ pc = "start"
  /\ pc' = "model"
  /\ usage' = usage
  /\ TakeChunk(<<>>)
  /\ UNCHANGED <<said, steps, outcome>>

(* The middleware injects the ledger into the request and stamps the reply *)
(* with exactly the receipts it rendered.                                  *)
ModelReplies(calls, say, billed) ==
  /\ pc = "model" /\ steps < MaxTurns
  /\ said' = say
  /\ steps' = steps + 1
  /\ usage' = Billed(billed)
  /\ TakeChunk(Append(messages, [role |-> "ai", calls |-> calls,
                                 ledger |-> Rendered(Receipts(messages))]))
  /\ pc' = IF calls = <<>> THEN "end" ELSE "tools"
  /\ UNCHANGED outcome

(* The tool node runs the calls of the last reply; an exception of a tool  *)
(* is an error result by the time the receipt is stamped.                  *)
ToolsReturn ==
  /\ pc = "tools" /\ steps < MaxTurns
  /\ usage' = usage
  /\ LET n == Len(messages)
         calls == messages[n].calls
     IN  \E status \in [DOMAIN calls -> {"success", "error"}],
            stamped \in [DOMAIN calls -> BOOLEAN] :
           TakeChunk(messages \o [i \in DOMAIN calls |->
             [role |-> "tool", call |-> <<n, i>>, tool |-> calls[i],
              status |-> status[i], stamped |-> stamped[i]]])
  /\ pc' = "model"
  /\ steps' = steps + 1
  /\ UNCHANGED <<said, outcome>>

Finishes ==
  /\ pc = "end"
  /\ Over(TrySetTerminal(holder, "COMPLETED", FinalResult, None, Harvest(messages)))

(* GraphRecursionError: a report so far counts as a capped success.        *)
TurnCapped ==
  /\ pc \in {"model", "tools"} /\ steps = MaxTurns
  /\ Over(IF said.text # "empty"
          THEN TrySetTerminal(holder, "COMPLETED", FinalResult, "turn_capped", Harvest(messages))
          ELSE TrySetTerminal(holder, "FAILED", None, "turn_capped", Harvest(messages)))

(* Any other exception, before the first chunk or from the model.          *)
RunFails ==
  /\ pc \in {"start", "model"} /\ steps < MaxTurns
  /\ Over(TrySetTerminal(holder, "FAILED", None, None,
                         IF pc = "start" THEN {} ELSE Harvest(messages)))

(* wait_for gives up or the turn is cancelled: arun's holder is lost and   *)
(* the task tool terminates the PENDING result it was created with.        *)
Abandoned(status) ==
  /\ pc \in {"start", "model", "tools", "end"}
  /\ pc' = "over"
  /\ outcome' = Report([status |-> status, report |-> None, stop |-> None,
                        receipts |-> {}, usage |-> {}, findings |-> {}])
  /\ UNCHANGED <<messages, said, steps, usage, holder, captured, cursor>>

Next ==
  \/ Start \/ ToolsReturn \/ Finishes \/ TurnCapped \/ RunFails
  \/ \E calls \in CallLists, say \in Says, billed \in 0..2 : ModelReplies(calls, say, billed)
  \/ \E status \in {"TIMED_OUT", "CANCELLED"} : Abandoned(status)

Spec == Init /\ [][Next]_vars
-----------------------------------------------------------------------------
AIs == {i \in DOMAIN messages : ~IsTool(messages[i])}

(* A receipt number means one call for the whole run: however the ledger   *)
(* was cut to its budget (receipts.py:161-197), two replies that saw the   *)
(* same number saw the same call.                                          *)
IdsStable ==
  \A i, j \in AIs :
    \A r \in messages[i].ledger, s \in messages[j].ledger :
      (r.id = s.id) <=> (r.call = s.call)

(* What the verdict counts as resolved was executed: the cited number is   *)
(* that of a call of this run that returned successfully, under the tool   *)
(* the citation names (receipts.py:257-280).                               *)
ResolvedIsExecuted ==
  (outcome # None /\ outcome.verdict # None) =>
    \A c \in outcome.verdict.resolved :
      \E n \in Stamped(messages) :
        /\ Number(messages, n) = c.id /\ messages[n].status = "success"
        /\ c.anchor \in {None, messages[n].tool}

(* A citation resolves only to a number some reply of the child was shown, *)
(* so one guessed before its call was made is not evidence.  The exception *)
(* is a capped run whose replies were shown no ledger at all: _harvest     *)
(* says None, and try_set_terminal then keeps every receipt of the run     *)
(* (executor.py:224-237, contract.py:102-103).                             *)
ResolvedWasShown ==
  (outcome # None /\ outcome.verdict # None) =>
    \A c \in outcome.verdict.resolved :
      \/ \E i \in AIs : \E r \in messages[i].ledger : r.id = c.id
      \/ /\ outcome.result.stop = "turn_capped"
         /\ \A i \in AIs : messages[i].ledger = {}

(* Every AI and tool message of the child is handed to on_step once, in    *)
(* order (steps.py:81-104).                                                *)
StepsOnce == captured = [i \in 1..Len(messages) |-> i]

(* A run that ended by itself, a capped or failed one too, reports the     *)
(* usage of every reply that carried one and every finding the child asked *)
(* to record; an abandoned run reports neither, its holder being lost      *)
(* (executor.py:174-224, task.py:124-145).                                 *)
WorkAccounted ==
  outcome # None =>
    <<outcome.result.usage, outcome.result.findings>> =
      IF outcome.result.status \in {"COMPLETED", "FAILED"}
      THEN <<usage, Findings(messages)>> ELSE <<{}, {}>>

(* What contract.py:78-79 says of the findings of a result ("зафиксирован- *)
(* ные Сабагентом; ставит исполнитель до терминала, вне first-writer-wins   *)
(* контракта"): however the run ended, they are those the child reported.  *)
(* It does not hold: LostFindings.cfg.                                     *)
ResultKeepsFindings ==
  outcome # None => outcome.result.findings = Findings(messages)

=============================================================================
