----------------------------- MODULE TurnResults -----------------------------
(***************************************************************************)
(* What an Event's turn leaves behind (EventExecutor.process_event): the   *)
(* clone in the sandbox is brought to the Event's commit, the commits of   *)
(* its range are fetched into the shallow history, and then the lead and   *)
(* its subagents call report_finding and write_report side by side, which  *)
(* blame the reported lines, remember the finding for the report and write *)
(* rows of hub.findings and hub.reports.                                   *)
(*                                                                         *)
(* The sandbox outlives the turn, so every turn starts from the history    *)
(* that the earlier ones left.  History is a forest (no merge commits) and *)
(* a commit's author time is its number.  The commit of an Event stands    *)
(* for its head_sha and commit_sha.  What a finding says is left out: it   *)
(* is the number of its call and the lines it points at.                   *)
(*                                                                         *)
(* Nobody moves HEAD in mid-turn.  The agent's shell and the operator's    *)
(* console could: both run in /repo beside the turn, a race the code       *)
(* accepts (service.py:374-377), and a `git checkout` of theirs would      *)
(* change what the agents read and what blame sees.                        *)
(***************************************************************************)
EXTENDS Integers, Sequences, FiniteSets, FiniteSetsExt

CONSTANTS
  Parent,     \* Parent[c]: the parent of commit c, 0 for a root
  Main,       \* commits the default branch may be at when it is cloned
  Events,     \* the Events and chats: action, commit, before, base; 0 for no sha
  Regions,    \* line ranges: the commit that wrote each line, 0 if uncommitted
  Agents,     \* the lead and its subagents
  MaxTurns,   \* bound on the turns
  MaxCalls,   \* bound on the report_finding calls, all turns together
  MaxReports, \* bound on the write_report calls, all turns together
  MaxFaults   \* bound on inserts that raise and turns that are cut off

Commits == DOMAIN Parent

ASSUME ResultsAssumption ==
  /\ IsFiniteSet(Commits) /\ Commits = 1..Cardinality(Commits)
  /\ \A c \in Commits : Parent[c] \in 0..(c - 1)
  /\ Main \subseteq Commits /\ Main # {}
  /\ \A e \in Events : {e.commit, e.before, e.base} \subseteq Commits \cup {0}
  /\ \A e \in Events : e.action = "chat" => e.commit = 0
  /\ Regions \subseteq Seq(Commits \cup {0})
  /\ {MaxTurns, MaxCalls, MaxReports, MaxFaults} \subseteq Nat

VARIABLES
  repo,      \* the clone: its commits, the ends of its history, HEAD (0: no clone)
  turn,      \* the turn under way: stage, Event, merge-base found
  call,      \* the tool call each agent waits for
  recorded,  \* numbers of the findings of this turn, in the order recorded
  blameOf,   \* BlameResolver._blame_cache
  originOf,  \* BlameResolver._ancestry_cache
  findings,  \* rows of hub.findings
  reports,   \* rows of hub.reports
  answered,  \* findings whose report_finding has answered, of this turn
  failed,    \* findings whose insert raised or was cut off
  spent      \* turns, calls, reports and faults so far

toolVars == <<call, recorded, blameOf, originOf, findings, reports, answered, failed>>
vars == <<repo, turn, toolVars, spent>>
-----------------------------------------------------------------------------
(* Git.                                                                    *)

(* The history of c as far as the ends in cut let git walk it.             *)
Visible(c, cut) ==
  LET walk[x \in 0..Cardinality(Commits)] ==
        IF x = 0 THEN {} ELSE {x} \cup (IF x \in cut THEN {} ELSE walk[Parent[x]])
  IN  walk[c]

History(c) == Visible(c, {})

(* git fetch --depth n: the commit and its n - 1 ancestors, cut below.     *)
Fetched(c, depth) ==
  LET p    == Parent[c]
      both == depth = 2 /\ p # 0
      last == IF both THEN p ELSE c
  IN  [repo EXCEPT !.have = @ \cup (IF both THEN {c, p} ELSE {c}),
                   !.cut  = (IF both THEN @ \ {c} ELSE @)
                              \cup (IF Parent[last] = 0 THEN {} ELSE {last})]

(* git fetch --unshallow origin with the default branch at tip.            *)
Unshallowed(tip) ==
  [repo EXCEPT !.have = UNION {History(c) : c \in @ \cup {tip}}, !.cut = {}]

MergeBase(a, b, cut) ==
  LET common == Visible(a, cut) \cap Visible(b, cut)
  IN  IF common = {} THEN 0 ELSE Max(common)

(* git blame gives a line that is older than the visible history to the    *)
(* commit at its end.                                                      *)
LineCommit(o) ==
  LET seen == Visible(repo.head, repo.cut) IN IF o \in seen THEN o ELSE Min(seen)

(* parse_blame_porcelain: the commit with most of the lines, the later one *)
(* of equals; 0 when no line is committed.                                 *)
BlameCommit(lines) ==
  LET committed == {i \in DOMAIN lines : lines[i] # 0}
      share(c)  == Cardinality({i \in committed : LineCommit(lines[i]) = c})
      blamed    == {LineCommit(lines[i]) : i \in committed}
      most      == {c \in blamed : \A d \in blamed : share(d) <= share(c)}
  IN  IF blamed = {} THEN 0 ELSE Max(most)
-----------------------------------------------------------------------------
(* The Event's range.                                                      *)
PRActions == {"pull_request", "merge_request"}

(* before = 0 stands for the ref after^.                                   *)
ScopeRange(e, mergeBase) ==
  IF e.commit = 0 THEN {}
  ELSE CASE e.action \in PRActions ->
              {[before |-> IF mergeBase # 0 THEN mergeBase ELSE e.base, after |-> e.commit]}
         [] e.action \in {"push", "manual"} -> {[before |-> e.before, after |-> e.commit]}
         [] OTHER -> {}

Scope == ScopeRange(turn.event, turn.mergeBase)

(* The commit a ref of the range names in the clone, 0 if it names none.   *)
Before(rng) ==
  IF rng.before \in repo.have THEN rng.before
  ELSE IF rng.before # 0 \/ rng.after \in repo.cut THEN 0
  ELSE Parent[rng.after]

(* The first commit of the range's far side, whatever the clone holds.     *)
TrueBefore(rng) == IF rng.before # 0 THEN rng.before ELSE Parent[rng.after]
-----------------------------------------------------------------------------
NoEvent == [action |-> "none", commit |-> 0, before |-> 0, base |-> 0]
Idle == [pc |-> "idle", n |-> 0, lines |-> <<>>, commit |-> 0, by |-> "none",
         attached |-> {}, known |-> {}]
NoTurn == [stage |-> "idle", event |-> NoEvent, mergeBase |-> 0]

Init ==
  /\ repo = [have |-> {}, cut |-> {}, head |-> 0]
  /\ turn = NoTurn
  /\ call = [a \in Agents |-> Idle]
  /\ recorded = <<>> /\ blameOf = <<>> /\ originOf = <<>>
  /\ findings = {} /\ reports = {} /\ answered = {} /\ failed = {}
  /\ spent = [turns |-> 0, calls |-> 0, reports |-> 0, faults |-> 0]

\* mutant: the findings of the turn before stay recorded
BeginsRecorded(e) ==
  /\ turn.stage = "idle" /\ spent.turns < MaxTurns
  /\ spent' = [spent EXCEPT !.turns = @ + 1]
  /\ turn' = [stage |-> IF e.action = "chat" THEN "graph"
                        ELSE IF repo.head = 0 THEN "clone"
                        ELSE IF e.commit # 0 THEN "checkout" ELSE "scope",
              event |-> e, mergeBase |-> 0]
  /\ blameOf' = <<>> /\ originOf' = <<>> /\ answered' = {}
  /\ UNCHANGED <<repo, call, recorded, findings, reports, failed>>

(* process_event up to the clone's state; a chat takes the clone as it is  *)
(* (chat_stream).  The tools of a turn are made anew with it (_graph), so  *)
(* recorded and the caches start empty.                                    *)
Begins(e) ==
  /\ turn.stage = "idle" /\ spent.turns < MaxTurns
  /\ spent' = [spent EXCEPT !.turns = @ + 1]
  /\ turn' = [stage |-> IF e.action = "chat" THEN "graph"
                        ELSE IF repo.head = 0 THEN "clone"
                        ELSE IF e.commit # 0 THEN "checkout" ELSE "scope",
              event |-> e, mergeBase |-> 0]
  /\ recorded' = <<>> /\ blameOf' = <<>> /\ originOf' = <<>> /\ answered' = {}
  /\ UNCHANGED <<repo, call, findings, reports, failed>>

(* prepare_repo: a clone of depth 1 of wherever the default branch is.     *)
Clones(tip) ==
  /\ turn.stage = "clone"
  /\ repo' = [have |-> {tip}, cut |-> IF Parent[tip] = 0 THEN {} ELSE {tip}, head |-> tip]
  /\ turn' = [turn EXCEPT !.stage = IF turn.event.commit # 0 THEN "checkout" ELSE "scope"]
  /\ UNCHANGED <<toolVars, spent>>

\* mutant: a commit the clone already holds is not checked out again
ChecksOutMissing ==
  /\ turn.stage = "checkout"
  /\ repo' = IF turn.event.commit \in repo.have THEN repo
             ELSE [Fetched(turn.event.commit, 2) EXCEPT !.head = turn.event.commit]
  /\ turn' = [turn EXCEPT !.stage = "scope"]
  /\ UNCHANGED <<toolVars, spent>>

(* fetch --depth 2 && checkout --detach, of prepare_repo and advance_repo. *)
ChecksOut ==
  /\ turn.stage = "checkout"
  /\ repo' = [Fetched(turn.event.commit, 2) EXCEPT !.head = turn.event.commit]
  /\ turn' = [turn EXCEPT !.stage = "scope"]
  /\ UNCHANGED <<toolVars, spent>>

(* ensure_commits: each commit the clone lacks is fetched alone; a fetch   *)
(* that fails is logged.                                                   *)
EnsureCommits ==
  /\ turn.stage = "scope"
  /\ LET missing == {turn.event.before, turn.event.base, turn.event.commit}
                      \ (repo.have \cup {0})
     IN  \E got \in SUBSET missing :
           repo' = [repo EXCEPT !.have = @ \cup got,
                                !.cut  = @ \cup {c \in got : Parent[c] # 0}]
  /\ turn' = [turn EXCEPT !.stage =
                IF turn.event.action \in PRActions /\ turn.event.base # 0 THEN "merge" ELSE "graph"]
  /\ UNCHANGED <<toolVars, spent>>

(* The merge-base of a pull request; when the shallow history has none the *)
(* rest of it is fetched, or that fails too.                               *)
FindsMergeBase ==
  /\ turn.stage = "merge"
  /\ LET base == turn.event.base
         head == turn.event.commit
         near == IF base \in repo.have THEN MergeBase(base, head, repo.cut) ELSE 0
         Found(r, b) == repo' = r /\ turn' = [turn EXCEPT !.stage = "graph", !.mergeBase = b]
     IN  IF near # 0 THEN Found(repo, near)
         ELSE \/ Found(repo, 0)
              \/ \E tip \in Main :
                   LET whole == Unshallowed(tip)
                   IN  Found(whole, IF base \in whole.have THEN MergeBase(base, head, {}) ELSE 0)
  /\ UNCHANGED <<toolVars, spent>>

(* sandbox_run with the command the tools' hints name, deep enough: the    *)
(* only one of the agent's commands that is modelled.                      *)
AgentDeepens(tip) ==
  /\ turn.stage = "graph" /\ repo.cut # {}
  /\ repo' = Unshallowed(tip)
  /\ UNCHANGED <<turn, toolVars, spent>>
-----------------------------------------------------------------------------
(* report_finding.                                                         *)

\* mutant: a finding whose blame failed is not remembered
RecordTraced(a, c) ==
  /\ recorded' = IF c.by = "none" THEN recorded ELSE Append(recorded, c.n)
  /\ call' = [call EXCEPT ![a] = [c EXCEPT !.pc = "storing"]]

(* The finding is remembered for the report, then its insert is awaited.   *)
Record(a, c) ==
  /\ recorded' = Append(recorded, c.n)
  /\ call' = [call EXCEPT ![a] = [c EXCEPT !.pc = "storing"]]

(* validate_finding and finding_from_args.  Without a line there is no     *)
(* blame; a cached blame is used without an await.                         *)
Reports(a, lines) ==
  /\ turn.stage = "graph" /\ call[a].pc = "idle" /\ spent.calls < MaxCalls
  /\ spent' = [spent EXCEPT !.calls = @ + 1]
  /\ LET c == [Idle EXCEPT !.n = spent'.calls, !.lines = lines]
     IN  IF lines = <<>> THEN Record(a, c)
         ELSE IF lines \in DOMAIN blameOf
         THEN Record(a, [c EXCEPT !.commit = blameOf[lines].commit, !.by = blameOf[lines].by])
         ELSE /\ call' = [call EXCEPT ![a] = [c EXCEPT !.pc = "blaming"]]
              /\ UNCHANGED recorded
  /\ UNCHANGED <<repo, turn, blameOf, originOf, findings, reports, answered, failed>>

(* resolve: the blame goes into the cache and the finding on its way.      *)
Resolves(a, commit, by) ==
  /\ blameOf' = [l \in DOMAIN blameOf \cup {call[a].lines} |->
                   IF l = call[a].lines THEN [commit |-> commit, by |-> by] ELSE blameOf[l]]
  /\ Record(a, [call[a] EXCEPT !.commit = commit, !.by = by])

(* git blame answers (0: nothing committed, or SandboxCommandError).       *)
Blames(a) ==
  /\ call[a].pc = "blaming"
  /\ \E commit \in {0, BlameCommit(call[a].lines)} :
       IF commit = 0 \/ Scope = {} THEN Resolves(a, commit, "none")
       ELSE IF commit \in DOMAIN originOf THEN Resolves(a, commit, originOf[commit])
       ELSE /\ call' = [call EXCEPT ![a].pc = "after", ![a].commit = commit]
            /\ UNCHANGED <<recorded, blameOf>>
  /\ UNCHANGED <<repo, turn, originOf, findings, reports, answered, failed, spent>>

(* The sandbox itself fails (SandboxConnectionException): the tool raises  *)
(* before it has recorded anything.                                        *)
BlameRaises(a) ==
  /\ call[a].pc = "blaming" /\ spent.faults < MaxFaults
  /\ spent' = [spent EXCEPT !.faults = @ + 1]
  /\ call' = [call EXCEPT ![a] = Idle]
  /\ UNCHANGED <<repo, turn, recorded, blameOf, originOf, findings, reports, answered, failed>>

(* _introduced_by, its end: the answer is cached, an error too.            *)
Traced(a, by) ==
  /\ originOf' = [c \in DOMAIN originOf \cup {call[a].commit} |->
                    IF c = call[a].commit THEN by ELSE originOf[c]]
  /\ Resolves(a, call[a].commit, by)

(* merge-base --is-ancestor commit after.                                  *)
TracesAfter(a) ==
  /\ call[a].pc = "after"
  /\ \E rng \in Scope :
       IF rng.after \notin repo.have THEN Traced(a, "none")
       ELSE IF call[a].commit \in Visible(rng.after, repo.cut)
       THEN /\ call' = [call EXCEPT ![a].pc = "before"]
            /\ UNCHANGED <<recorded, blameOf, originOf>>
       ELSE Traced(a, "earlier")
  /\ UNCHANGED <<repo, turn, findings, reports, answered, failed, spent>>

\* mutant: a ref the clone does not know reads as "not an ancestor"
TracesBeforeUnknown(a) ==
  /\ call[a].pc = "before"
  /\ \E rng \in Scope :
       Traced(a, IF Before(rng) # 0 /\ call[a].commit \in Visible(Before(rng), repo.cut)
                 THEN "this_event" ELSE "earlier")
  /\ UNCHANGED <<repo, turn, findings, reports, answered, failed, spent>>

(* merge-base --is-ancestor commit before; an unknown ref is no verdict.   *)
TracesBefore(a) ==
  /\ call[a].pc = "before"
  /\ \E rng \in Scope :
       Traced(a, IF Before(rng) = 0 THEN "none"
                 ELSE IF call[a].commit \in Visible(Before(rng), repo.cut)
                 THEN "earlier" ELSE "this_event")
  /\ UNCHANGED <<repo, turn, findings, reports, answered, failed, spent>>

Row(c) == [turn |-> spent.turns, event |-> turn.event, n |-> c.n, lines |-> c.lines,
           by |-> c.by, range |-> Scope]

(* add_finding returns and so does the tool, or it raises.                 *)
Stores(a) ==
  /\ call[a].pc = "storing"
  /\ call' = [call EXCEPT ![a] = Idle]
  /\ \/ /\ findings' = findings \cup {Row(call[a])}
        /\ answered' = answered \cup {call[a].n}
        /\ UNCHANGED <<failed, spent>>
     \/ /\ spent.faults < MaxFaults
        /\ spent' = [spent EXCEPT !.faults = @ + 1]
        /\ failed' = failed \cup {call[a].n}
        /\ UNCHANGED <<findings, answered>>
  /\ UNCHANGED <<repo, turn, recorded, blameOf, originOf, reports>>
-----------------------------------------------------------------------------
(* write_report.                                                           *)

(* build_structured_report on a copy of what is recorded.                  *)
WritesReport(a) ==
  /\ turn.stage = "graph" /\ call[a].pc = "idle" /\ spent.reports < MaxReports
  /\ spent' = [spent EXCEPT !.reports = @ + 1]
  /\ call' = [call EXCEPT ![a] = [Idle EXCEPT !.pc = "saving", !.n = spent'.reports,
                                  !.attached = {recorded[i] : i \in DOMAIN recorded},
                                  !.known = answered]]
  /\ UNCHANGED <<repo, turn, recorded, blameOf, originOf, findings, reports, answered, failed>>

Report(c) == [turn |-> spent.turns, event |-> turn.event, n |-> c.n,
              attached |-> c.attached, known |-> c.known]

(* add_report returns, or raises.                                          *)
Saves(a) ==
  /\ call[a].pc = "saving"
  /\ call' = [call EXCEPT ![a] = Idle]
  /\ \/ reports' = reports \cup {Report(call[a])} /\ UNCHANGED spent
     \/ /\ spent.faults < MaxFaults /\ spent' = [spent EXCEPT !.faults = @ + 1]
        /\ UNCHANGED reports
  /\ UNCHANGED <<repo, turn, recorded, blameOf, originOf, findings, answered, failed>>
-----------------------------------------------------------------------------
(* The stream ends when no tool is running.                                *)
Finishes ==
  /\ turn.stage = "graph" /\ \A a \in Agents : call[a].pc = "idle"
  /\ turn' = NoTurn
  /\ UNCHANGED <<repo, toolVars, spent>>

(* A git command fails, the turn is cancelled, or the runner dies.  A      *)
(* command of the preparation may have got half way; a row on its way may  *)
(* be committed or not.                                                    *)
CutOff ==
  /\ turn.stage # "idle" /\ spent.faults < MaxFaults
  /\ spent' = [spent EXCEPT !.faults = @ + 1]
  /\ repo' \in CASE turn.stage = "clone" -> {[have |-> {}, cut |-> {}, head |-> 0]}
                 [] turn.stage = "checkout" -> {repo, Fetched(turn.event.commit, 2)}
                 [] OTHER -> {repo}
  /\ turn' = NoTurn
  /\ call' = [a \in Agents |-> Idle]
  /\ LET inserts == {a \in Agents : call[a].pc = "storing"}
         saves   == {a \in Agents : call[a].pc = "saving"}
     IN  /\ \E done \in SUBSET inserts :
              findings' = findings \cup {Row(call[a]) : a \in done}
         /\ \E done \in SUBSET saves : reports' = reports \cup {Report(call[a]) : a \in done}
         /\ failed' = failed \cup {call[a].n : a \in inserts}
  /\ UNCHANGED <<recorded, blameOf, originOf, answered>>

(* The lines an agent can point at are lines of the checked out tree.      *)
Readable(lines) == \A i \in DOMAIN lines : lines[i] \in History(repo.head) \cup {0}

Next ==
  \/ \E e \in Events : Begins(e)
  \/ \E tip \in Main : Clones(tip) \/ AgentDeepens(tip)
  \/ ChecksOut \/ EnsureCommits \/ FindsMergeBase
  \/ \E a \in Agents :
       \/ \E lines \in Regions : Readable(lines) /\ Reports(a, lines)
       \/ Blames(a) \/ BlameRaises(a) \/ TracesAfter(a) \/ TracesBefore(a)
       \/ Stores(a) \/ WritesReport(a) \/ Saves(a)
  \/ Finishes \/ CutOff

Spec == Init /\ [][Next]_vars
-----------------------------------------------------------------------------
(* The agents of a turn read the tree of the Event's commit, whatever the  *)
(* turns before it, finished or cut off, left in the sandbox, unless a     *)
(* shell command of theirs or of the operator's console checks out another.*)
ReadsEventCommit ==
  turn.stage = "graph" /\ turn.event.commit # 0 => repo.head = turn.event.commit

(* A finding marked as older than the Event is: some of its lines were     *)
(* there before the range began.  For a range of one commit, a finding     *)
(* marked as the Event's own has a line of that commit.  Shallow history,  *)
(* cached answers and fetches in mid-turn do not change this.              *)
VerdictSound ==
  \A f \in findings : \A rng \in f.range :
    /\ f.by = "earlier" =>
         \E i \in DOMAIN f.lines : f.lines[i] \in History(TrueBefore(rng))
    /\ f.by = "this_event" /\ TrueBefore(rng) = Parent[rng.after] =>
         \E i \in DOMAIN f.lines : f.lines[i] = rng.after

(* A report attaches every finding of its turn that the tool had confirmed *)
(* when the report was asked for, whoever had reported it.                 *)
ReportKnowsConfirmed == \A r \in reports : r.known \subseteq r.attached

(* A finding attached to a report has its row in hub.findings, under the   *)
(* same Event, unless its insert failed or is still under way.             *)
AttachedIsStored ==
  \A r \in reports : \A n \in r.attached :
    \/ \E f \in findings : f.n = n /\ f.event = r.event /\ f.turn = r.turn
    \/ n \in failed
    \/ \E a \in Agents : call[a].pc = "storing" /\ call[a].n = n

(* What blame.py:1-2 says of introducedBy ("каким коммитом внёс уязвимые   *)
(* строки, и входит ли этот коммит в диапазон изменений"): a finding marked *)
(* as the Event's own has a line that a commit of its range wrote.  It does *)
(* not hold: WrongOrigin.cfg.                                              *)
OwnIsInRange ==
  \A f \in findings : f.by = "this_event" =>
    \A rng \in f.range : \E i \in DOMAIN f.lines :
      f.lines[i] \in History(rng.after) \ History(TrueBefore(rng))

=============================================================================
