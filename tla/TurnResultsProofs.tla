--------------------------- MODULE TurnResultsProofs ---------------------------
(* Theorems about TurnResults, for every history, every set of Events and   *)
(* agents, and any number of turns, calls, reports and faults.              *)
EXTENDS TurnResults, FiniteSetTheorems, SequenceTheorems, WellFoundedInduction, TLAPS

-----------------------------------------------------------------------------
(* The inductive invariant.                                                *)

\* A tool call; what blame says of it does not matter here.
Call(c) ==
  /\ c = [pc |-> c.pc, n |-> c.n, lines |-> c.lines, commit |-> c.commit, by |-> c.by,
          attached |-> c.attached, known |-> c.known]
  /\ c.n \in Nat

Shapes ==
  /\ repo = [have |-> repo.have, cut |-> repo.cut, head |-> repo.head]
  /\ turn = [stage |-> turn.stage, event |-> turn.event, mergeBase |-> turn.mergeBase]
  /\ spent \in [turns : Nat, calls : Nat, reports : Nat, faults : Nat]
  /\ call = [a \in Agents |-> call[a]] /\ \A a \in Agents : Call(call[a])
  /\ recorded \in Seq(Nat)

\* Past the checkout HEAD is the Event's commit; only a graph calls tools, and
\* it begins with nothing recorded.
Prepared ==
  /\ turn.stage \in {"scope", "merge", "graph"} /\ turn.event.commit # 0 =>
       repo.head = turn.event.commit
  /\ turn.stage # "graph" => \A a \in Agents : call[a].pc = "idle"
  /\ turn.stage \notin {"idle", "graph"} => recorded = <<>>

Recorded == {recorded[i] : i \in DOMAIN recorded}

\* A finding is recorded before its insert is awaited, and a report carries
\* what was recorded when it was asked for.
Remembered ==
  /\ answered \subseteq Recorded
  /\ \A a \in Agents :
       /\ call[a].pc = "storing" => call[a].n \in Recorded
       /\ call[a].pc = "saving" => /\ call[a].known \subseteq call[a].attached
                                   /\ call[a].attached \subseteq Recorded

Settled(n, event, k) ==
  \/ \E f \in findings : f.n = n /\ f.event = event /\ f.turn = k
  \/ n \in failed

OnItsWay(n) == \E a \in Agents : call[a].pc = "storing" /\ call[a].n = n

\* What this turn recorded has its row, has failed, or is on its way.
Tracked ==
  turn.stage = "graph" =>
    \A n \in Recorded : Settled(n, turn.event, spent.turns) \/ OnItsWay(n)

\* So has what a report attaches; an insert on its way is of the report's turn.
Reported ==
  \A r \in reports :
    /\ r.known \subseteq r.attached
    /\ \A n \in r.attached :
         \/ Settled(n, r.event, r.turn)
         \/ /\ turn.stage = "graph" /\ r.event = turn.event /\ r.turn = spent.turns
            /\ OnItsWay(n)

Inv == Shapes /\ Prepared /\ Remembered /\ Tracked /\ Reported

-----------------------------------------------------------------------------
(* Calls.                                                                  *)

LEMMA IdleCall == Call(Idle) /\ Idle.pc = "idle"
BY DEF Idle, Call

\* What the steps of report_finding change of a call.
LEMMA CallUpdates ==
  ASSUME NEW c, Call(c), NEW v, NEW w, NEW n \in Nat
  PROVE  /\ Call([c EXCEPT !.pc = v]) /\ [c EXCEPT !.pc = v].pc = v /\ [c EXCEPT !.pc = v].n = c.n
         /\ Call([c EXCEPT !.commit = v, !.by = w])
         /\ Call([Idle EXCEPT !.n = n, !.lines = v])
<1> DEFINE R == [pc : {c.pc, v}, n : Nat, lines : {c.lines}, commit : {c.commit, v},
                 by : {c.by, w}, attached : {c.attached}, known : {c.known}]
<1>1. c \in R
  BY DEF Call
<1>2. \A d \in R : Call(d)
  BY DEF Call
<1>3. /\ [c EXCEPT !.pc = v] \in R /\ [c EXCEPT !.pc = v].pc = v /\ [c EXCEPT !.pc = v].n = c.n
  BY <1>1
<1>4. [c EXCEPT !.commit = v, !.by = w] \in R
  BY <1>1
<1>5. Call([Idle EXCEPT !.n = n, !.lines = v])
  <2> DEFINE S == [pc : {"idle"}, n : Nat, lines : {<<>>, v}, commit : {0}, by : {"none"},
                   attached : {{}}, known : {{}}]
  <2>1. Idle \in S
    BY DEF Idle
  <2>2. [Idle EXCEPT !.n = n, !.lines = v] \in S
    BY <2>1
  <2>3. \A d \in S : Call(d)
    BY DEF Call
  <2> QED
    BY <2>2, <2>3
<1> QED
  BY <1>2, <1>3, <1>4, <1>5

LEMMA CommitUpdate ==
  ASSUME NEW c, Call(c), NEW commit
  PROVE  /\ Call([c EXCEPT !.pc = "after", !.commit = commit])
         /\ [c EXCEPT !.pc = "after", !.commit = commit].pc = "after"
<1> DEFINE R == [pc : {c.pc, "after"}, n : Nat, lines : {c.lines}, commit : {c.commit, commit},
                 by : {c.by}, attached : {c.attached}, known : {c.known}]
<1>1. c \in R
  BY DEF Call
<1>2. \A d \in R : Call(d)
  BY DEF Call
<1>3. /\ [c EXCEPT !.pc = "after", !.commit = commit] \in R
      /\ [c EXCEPT !.pc = "after", !.commit = commit].pc = "after"
  BY <1>1
<1> QED
  BY <1>2, <1>3

\* A step of one agent.
LEMMA OneCall ==
  ASSUME Shapes, NEW a \in Agents, NEW c, call' = [call EXCEPT ![a] = c], Call(c)
  PROVE  /\ call'[a] = c /\ \A b \in Agents \ {a} : call'[b] = call[b]
         /\ call' = [b \in Agents |-> call'[b]] /\ \A b \in Agents : Call(call'[b])
<1>1. call = [b \in Agents |-> call[b]] /\ \A b \in Agents : Call(call[b])
  BY DEF Shapes
<1>2. call'[a] = c /\ \A b \in Agents \ {a} : call'[b] = call[b]
  BY <1>1
<1>3. call' = [b \in Agents |-> call'[b]]
  BY <1>1
<1>4. \A b \in Agents : Call(call'[b])
  BY <1>1, <1>2
<1> QED
  BY <1>2, <1>3, <1>4

LEMMA RecordedAppend ==
  ASSUME recorded \in Seq(Nat), NEW n \in Nat, recorded' = Append(recorded, n)
  PROVE  recorded' \in Seq(Nat) /\ Recorded' = Recorded \cup {n}
<1>1. /\ recorded' \in Seq(Nat) /\ Len(recorded') = Len(recorded) + 1
      /\ DOMAIN recorded' = 1 .. Len(recorded') /\ DOMAIN recorded = 1 .. Len(recorded)
      /\ Len(recorded) \in Nat
  OBVIOUS
<1>2. /\ \A i \in 1 .. Len(recorded) : recorded'[i] = recorded[i]
      /\ recorded'[Len(recorded) + 1] = n
  OBVIOUS
<1>3. Recorded' \subseteq Recorded \cup {n}
  <2> SUFFICES ASSUME NEW i \in DOMAIN recorded'
               PROVE  recorded'[i] \in Recorded \cup {n}
    BY DEF Recorded
  <2>1. i = Len(recorded) + 1 \/ i \in 1 .. Len(recorded)
    BY <1>1
  <2> QED
    BY <1>1, <1>2, <2>1 DEF Recorded
<1>4. Recorded \subseteq Recorded'
  BY <1>1, <1>2 DEF Recorded
<1>5. n \in Recorded'
  BY <1>1, <1>2 DEF Recorded
<1> QED
  BY <1>1, <1>3, <1>4, <1>5

-----------------------------------------------------------------------------
(* The tools.                                                              *)

\* A step of a tool that is not waiting for its insert: the call goes on or is
\* over, or the finding is recorded and its insert begins.
LEMMA ToolStep ==
  ASSUME Inv, NEW a \in Agents, NEW c, call' = [call EXCEPT ![a] = c], Call(c),
         call[a].pc # "storing", turn.stage = "graph",
         UNCHANGED <<repo, turn, findings, reports, answered, failed>>,
         spent'.turns = spent.turns,
         spent' \in [turns : Nat, calls : Nat, reports : Nat, faults : Nat],
         \/ recorded' = recorded /\ c.pc \notin {"storing", "saving"}
         \/ recorded' = Append(recorded, c.n) /\ c.pc = "storing"
  PROVE  Inv'
<1>1. /\ call'[a] = c /\ \A b \in Agents \ {a} : call'[b] = call[b]
      /\ call' = [b \in Agents |-> call'[b]] /\ \A b \in Agents : Call(call'[b])
  BY OneCall DEF Inv
<1>2. /\ recorded' \in Seq(Nat) /\ Recorded \subseteq Recorded'
      /\ c.pc = "storing" => c.n \in Recorded'
      /\ c.pc # "storing" => Recorded' = Recorded
      /\ Recorded' \subseteq Recorded \cup {c.n}
  <2>1. recorded \in Seq(Nat) /\ c.n \in Nat
    BY DEF Inv, Shapes, Call
  <2>2. CASE recorded' = recorded /\ c.pc \notin {"storing", "saving"}
    BY <2>1, <2>2 DEF Recorded
  <2>3. CASE recorded' = Append(recorded, c.n) /\ c.pc = "storing"
    BY <2>1, <2>3, RecordedAppend
  <2> QED
    BY <2>2, <2>3
<1>3. c.pc # "saving"
  OBVIOUS
<1>4. Shapes'
  BY <1>1, <1>2 DEF Inv, Shapes
<1>5. Prepared'
  BY DEF Inv, Prepared
<1>6. Remembered'
  BY <1>1, <1>2, <1>3 DEF Inv, Remembered
<1>7. \A n : OnItsWay(n) => OnItsWay(n)'
  BY <1>1 DEF OnItsWay
<1>8. \A n, e, k : Settled(n, e, k)' <=> Settled(n, e, k)
  BY DEF Settled
<1>9. Tracked'
  <2> SUFFICES ASSUME NEW n \in Recorded'
               PROVE  Settled(n, turn.event, spent.turns)' \/ OnItsWay(n)'
    BY DEF Tracked
  <2>1. CASE n \in Recorded
    BY <2>1, <1>7, <1>8 DEF Inv, Tracked, Settled
  <2>2. CASE n \notin Recorded
    <3>1. n = c.n /\ c.pc = "storing"
      BY <2>2, <1>2
    <3> QED
      BY <3>1, <1>1 DEF OnItsWay
  <2> QED
    BY <2>1, <2>2
<1>10. Reported'
  BY <1>7, <1>8 DEF Inv, Reported
<1> QED
  BY <1>4, <1>5, <1>6, <1>9, <1>10 DEF Inv

\* A call is under way only in a graph.
LEMMA CallingGraph ==
  ASSUME Inv, NEW a \in Agents, call[a].pc # "idle"
  PROVE  turn.stage = "graph"
BY DEF Inv, Prepared

LEMMA InvReports ==
  ASSUME Inv, NEW a \in Agents, NEW lines, Reports(a, lines)
  PROVE  Inv'
<1> DEFINE c == [Idle EXCEPT !.n = spent'.calls, !.lines = lines]
           d == [c EXCEPT !.commit = blameOf[lines].commit, !.by = blameOf[lines].by]
<1>1. spent \in [turns : Nat, calls : Nat, reports : Nat, faults : Nat]
  BY DEF Inv, Shapes
<1>2. /\ spent' \in [turns : Nat, calls : Nat, reports : Nat, faults : Nat]
      /\ spent'.turns = spent.turns /\ spent'.calls \in Nat
  BY <1>1 DEF Reports
<1>3. Call(c)
  BY <1>2, CallUpdates, IdleCall
<1>4. Call(d)
  BY <1>3, CallUpdates
<1>5. /\ call[a].pc # "storing" /\ turn.stage = "graph"
      /\ UNCHANGED <<repo, turn, findings, reports, answered, failed>>
  BY DEF Reports
<1>6. \/ Record(a, c) \/ Record(a, d)
      \/ call' = [call EXCEPT ![a] = [c EXCEPT !.pc = "blaming"]] /\ UNCHANGED recorded
  BY DEF Reports
<1> HIDE DEF c, d
<1>7. ASSUME NEW x, Call(x), Record(a, x)
      PROVE  Inv'
  <2>1. /\ Call([x EXCEPT !.pc = "storing"]) /\ [x EXCEPT !.pc = "storing"].pc = "storing"
        /\ [x EXCEPT !.pc = "storing"].n = x.n
    BY <1>7, CallUpdates
  <2> QED
    BY <1>2, <1>5, <1>7, <2>1, ToolStep DEF Record
<1>8. ASSUME call' = [call EXCEPT ![a] = [c EXCEPT !.pc = "blaming"]], UNCHANGED recorded
      PROVE  Inv'
  <2>1. Call([c EXCEPT !.pc = "blaming"]) /\ [c EXCEPT !.pc = "blaming"].pc = "blaming"
    BY <1>3, CallUpdates
  <2> QED
    BY <1>2, <1>5, <1>8, <2>1, ToolStep
<1> QED
  BY <1>3, <1>4, <1>6, <1>7, <1>8

\* The steps of the blame, the cached ones included.
LEMMA InvBlame ==
  ASSUME Inv, NEW a \in Agents,
         Blames(a) \/ BlameRaises(a) \/ TracesAfter(a) \/ TracesBefore(a)
  PROVE  Inv'
<1>1. /\ call[a].pc \in {"blaming", "after", "before"}
      /\ UNCHANGED <<repo, turn, findings, reports, answered, failed>>
  BY DEF Blames, BlameRaises, TracesAfter, TracesBefore
<1>2. /\ spent' \in [turns : Nat, calls : Nat, reports : Nat, faults : Nat]
      /\ spent'.turns = spent.turns
  <2>1. spent \in [turns : Nat, calls : Nat, reports : Nat, faults : Nat]
    BY DEF Inv, Shapes
  <2>2. spent' = spent \/ spent' = [spent EXCEPT !.faults = @ + 1]
    BY DEF Blames, BlameRaises, TracesAfter, TracesBefore
  <2> QED
    BY <2>1, <2>2
<1>3. turn.stage = "graph" /\ call[a].pc # "storing" /\ Call(call[a])
  BY <1>1, CallingGraph DEF Inv, Shapes
<1>4. ASSUME NEW commit, NEW by, Resolves(a, commit, by)
      PROVE  Inv'
  <2> DEFINE x == [call[a] EXCEPT !.commit = commit, !.by = by]
  <2>1. Call(x) /\ Record(a, x)
    BY <1>3, <1>4, CallUpdates DEF Resolves
  <2> HIDE DEF x
  <2>2. /\ Call([x EXCEPT !.pc = "storing"]) /\ [x EXCEPT !.pc = "storing"].pc = "storing"
        /\ [x EXCEPT !.pc = "storing"].n = x.n
    BY <2>1, CallUpdates
  <2> QED
    BY <1>1, <1>2, <1>3, <2>1, <2>2, ToolStep DEF Record
<1>5. ASSUME NEW c, call' = [call EXCEPT ![a] = c], Call(c), UNCHANGED recorded,
             c.pc \in {"idle", "after", "before"}
      PROVE  Inv'
  BY <1>1, <1>2, <1>3, <1>5, ToolStep
<1>6. CASE Blames(a)
  <2>1. PICK commit : \/ \E by : Resolves(a, commit, by)
                      \/ /\ call' = [call EXCEPT ![a].pc = "after", ![a].commit = commit]
                         /\ UNCHANGED recorded
    BY <1>6 DEF Blames
  <2>2. CASE /\ call' = [call EXCEPT ![a].pc = "after", ![a].commit = commit]
             /\ UNCHANGED recorded
    <3>1. call' = [call EXCEPT ![a] = [call[a] EXCEPT !.pc = "after", !.commit = commit]]
      BY <2>2 DEF Inv, Shapes
    <3>2. /\ Call([call[a] EXCEPT !.pc = "after", !.commit = commit])
          /\ [call[a] EXCEPT !.pc = "after", !.commit = commit].pc = "after"
      BY <1>3, CommitUpdate
    <3> QED
      BY <2>2, <3>1, <3>2, <1>5
  <2> QED
    BY <2>1, <2>2, <1>4
<1>7. CASE BlameRaises(a)
  BY <1>7, <1>5, IdleCall DEF BlameRaises
<1>8. CASE TracesAfter(a) \/ TracesBefore(a)
  <2>1. \/ \E commit, by : Resolves(a, commit, by)
        \/ call' = [call EXCEPT ![a].pc = "before"] /\ UNCHANGED recorded
    BY <1>8 DEF TracesAfter, TracesBefore, Traced
  <2>2. CASE call' = [call EXCEPT ![a].pc = "before"] /\ UNCHANGED recorded
    <3>1. call' = [call EXCEPT ![a] = [call[a] EXCEPT !.pc = "before"]]
      BY <2>2
    <3>2. Call([call[a] EXCEPT !.pc = "before"]) /\ [call[a] EXCEPT !.pc = "before"].pc = "before"
      BY <1>3, CallUpdates
    <3> QED
      BY <2>2, <3>1, <3>2, <1>5
  <2> QED
    BY <2>1, <2>2, <1>4
<1> QED
  BY <1>6, <1>7, <1>8

\* The insert ends: with the row, or in failed.
LEMMA InvStores ==
  ASSUME Inv, NEW a \in Agents, Stores(a)
  PROVE  Inv'
<1>0. PICK n : n = call[a].n
  OBVIOUS
<1> DEFINE row == [turn |-> spent.turns, event |-> turn.event, n |-> n,
                   lines |-> call[a].lines, by |-> call[a].by, range |-> Scope]
<1>1. /\ call[a].pc = "storing" /\ call' = [call EXCEPT ![a] = Idle]
      /\ UNCHANGED <<repo, turn, recorded, reports>>
      /\ \/ /\ findings' = findings \cup {row} /\ answered' = answered \cup {n}
            /\ failed' = failed /\ spent' = spent
         \/ /\ spent' = [spent EXCEPT !.faults = @ + 1]
            /\ failed' = failed \cup {n} /\ findings' = findings /\ answered' = answered
  BY <1>0 DEF Stores, Row
<1>2. turn.stage = "graph"
  BY <1>1, CallingGraph
<1>3. /\ call'[a].pc = "idle" /\ \A b \in Agents \ {a} : call'[b] = call[b]
      /\ call' = [b \in Agents |-> call'[b]] /\ \A b \in Agents : Call(call'[b])
  BY <1>1, OneCall, IdleCall DEF Inv
<1>4. /\ spent' \in [turns : Nat, calls : Nat, reports : Nat, faults : Nat]
      /\ spent'.turns = spent.turns
  <2>1. spent \in [turns : Nat, calls : Nat, reports : Nat, faults : Nat]
    BY DEF Inv, Shapes
  <2> QED
    BY <1>1, <2>1
<1>5. row.n = n /\ row.event = turn.event /\ row.turn = spent.turns
  OBVIOUS
<1> HIDE DEF row
<1>6. Settled(n, turn.event, spent.turns)'
  BY <1>1, <1>4, <1>5 DEF Settled
<1>7. \A m, e, k : Settled(m, e, k) => Settled(m, e, k)'
  BY <1>1 DEF Settled
<1>8. \A m : OnItsWay(m) => OnItsWay(m)' \/ m = n
  BY <1>0, <1>3 DEF OnItsWay
<1>9. Shapes'
  BY <1>1, <1>3, <1>4 DEF Inv, Shapes
<1>10. Prepared'
  BY <1>1, <1>2 DEF Inv, Prepared
<1>11. Recorded' = Recorded /\ n \in Recorded
  BY <1>0, <1>1 DEF Recorded, Inv, Remembered
<1>12. Remembered'
  <2>1. answered' \subseteq Recorded
    BY <1>1, <1>11 DEF Inv, Remembered
  <2> QED
    BY <2>1, <1>3, <1>11 DEF Inv, Remembered
<1>13. Tracked'
  <2> SUFFICES ASSUME NEW m \in Recorded
               PROVE  Settled(m, turn.event, spent.turns)' \/ OnItsWay(m)'
    BY <1>11 DEF Tracked
  <2>1. Settled(m, turn.event, spent.turns) \/ OnItsWay(m)
    BY <1>2 DEF Inv, Tracked
  <2>2. CASE Settled(m, turn.event, spent.turns)
    BY <2>2, <1>1, <1>4, <1>7 DEF Settled
  <2>3. CASE OnItsWay(m)
    BY <2>3, <1>6, <1>8
  <2> QED
    BY <2>1, <2>2, <2>3
<1>14. Reported'
  <2> SUFFICES ASSUME NEW r \in reports, NEW m \in r.attached
               PROVE  \/ Settled(m, r.event, r.turn)'
                      \/ /\ turn'.stage = "graph" /\ r.event = turn'.event
                         /\ r.turn = spent'.turns /\ OnItsWay(m)'
    BY <1>1 DEF Inv, Reported
  <2>1. CASE Settled(m, r.event, r.turn)
    BY <2>1, <1>7
  <2>2. CASE r.event = turn.event /\ r.turn = spent.turns /\ OnItsWay(m)
    BY <2>2, <1>1, <1>2, <1>4, <1>6, <1>8 DEF Settled
  <2> QED
    BY <2>1, <2>2 DEF Inv, Reported
<1> QED
  BY <1>9, <1>10, <1>12, <1>13, <1>14 DEF Inv

\* A report takes what is recorded; the row carries it.
LEMMA InvReport ==
  ASSUME Inv, NEW a \in Agents, WritesReport(a) \/ Saves(a)
  PROVE  Inv'
<1>1. UNCHANGED <<repo, turn, recorded, findings, answered, failed>>
  BY DEF WritesReport, Saves
<1>2. turn.stage = "graph" /\ call[a].pc # "storing"
  BY CallingGraph DEF WritesReport, Saves
<1>3. /\ spent' \in [turns : Nat, calls : Nat, reports : Nat, faults : Nat]
      /\ spent'.turns = spent.turns
  <2>1. spent \in [turns : Nat, calls : Nat, reports : Nat, faults : Nat]
    BY DEF Inv, Shapes
  <2>2. \/ spent' = spent \/ spent' = [spent EXCEPT !.faults = @ + 1]
        \/ spent' = [spent EXCEPT !.reports = @ + 1]
    BY DEF WritesReport, Saves
  <2> QED
    BY <2>1, <2>2
<1>4. PICK c : /\ call' = [call EXCEPT ![a] = c] /\ Call(c) /\ c.pc # "storing"
               /\ c.pc = "saving" => c.attached = Recorded /\ c.known = answered
  <2>1. CASE WritesReport(a)
    <3> DEFINE c == [Idle EXCEPT !.pc = "saving", !.n = spent'.reports,
                                 !.attached = {recorded[i] : i \in DOMAIN recorded},
                                 !.known = answered]
               S == [pc : {"idle", "saving"}, n : Nat, lines : {<<>>}, commit : {0},
                     by : {"none"}, attached : {{}, Recorded}, known : {{}, answered}]
    <3>1. spent'.reports \in Nat
      BY <1>3
    <3>2. Idle \in S
      BY DEF Idle
    <3>3. c \in S /\ c.pc = "saving" /\ c.attached = Recorded /\ c.known = answered
      BY <3>1, <3>2 DEF Recorded
    <3>4. \A d \in S : Call(d)
      BY DEF Call
    <3>5. call' = [call EXCEPT ![a] = c]
      BY <2>1 DEF WritesReport
    <3> HIDE DEF c
    <3> QED
      BY <3>3, <3>4, <3>5
  <2>2. CASE Saves(a)
    BY <2>2, IdleCall DEF Saves
  <2> QED
    BY <2>1, <2>2
<1>5. /\ call'[a] = c /\ \A b \in Agents \ {a} : call'[b] = call[b]
      /\ call' = [b \in Agents |-> call'[b]] /\ \A b \in Agents : Call(call'[b])
  BY <1>4, OneCall DEF Inv
<1>6. Recorded' = Recorded
  BY <1>1 DEF Recorded
<1>7. Shapes'
  BY <1>1, <1>3, <1>5 DEF Inv, Shapes
<1>8. Prepared'
  BY <1>1, <1>2 DEF Inv, Prepared
<1>9. Remembered'
  BY <1>1, <1>4, <1>5, <1>6 DEF Inv, Remembered
<1>10. \A m : OnItsWay(m) => OnItsWay(m)'
  BY <1>2, <1>5 DEF OnItsWay
<1>11. \A m, e, k : Settled(m, e, k)' <=> Settled(m, e, k)
  BY <1>1 DEF Settled
<1>12. Tracked'
  BY <1>1, <1>3, <1>6, <1>10, <1>11 DEF Inv, Tracked, Settled
<1>13. Reported'
  <2> DEFINE Held(r) ==
        /\ r.known \subseteq r.attached
        /\ \A n \in r.attached :
             \/ Settled(n, r.event, r.turn)'
             \/ /\ turn'.stage = "graph" /\ r.event = turn'.event /\ r.turn = spent'.turns
                /\ OnItsWay(n)'
  <2>1. \A r \in reports : Held(r)
    BY <1>1, <1>3, <1>10, <1>11 DEF Inv, Reported
  <2>2. CASE WritesReport(a) \/ reports' = reports
    BY <2>1, <2>2 DEF Reported, WritesReport
  <2>3. CASE Saves(a) /\ reports' # reports
    <3> DEFINE row == Report(call[a])
    <3>1. call[a].pc = "saving" /\ reports' = reports \cup {row}
      BY <2>3 DEF Saves
    <3>2. call[a].known \subseteq call[a].attached /\ call[a].attached \subseteq Recorded
      BY <3>1 DEF Inv, Remembered
    <3>3. /\ row.known = call[a].known /\ row.attached = call[a].attached
          /\ row.event = turn.event /\ row.turn = spent.turns
      BY DEF Report
    <3>4. ASSUME NEW n \in call[a].attached
          PROVE  Settled(n, turn.event, spent.turns) \/ OnItsWay(n)
      BY <3>2, <1>2 DEF Inv, Tracked
    <3>5. PICK r : r = row
      OBVIOUS
    <3> HIDE DEF row
    <3>6. Held(r)
      <4>1. r.known \subseteq r.attached
        BY <3>2, <3>3, <3>5
      <4>2. ASSUME NEW n \in r.attached
            PROVE  \/ Settled(n, r.event, r.turn)'
                   \/ /\ turn'.stage = "graph" /\ r.event = turn'.event /\ r.turn = spent'.turns
                      /\ OnItsWay(n)'
        <5>1. Settled(n, r.event, r.turn) \/ OnItsWay(n)
          BY <3>3, <3>4, <3>5, <4>2
        <5>2. turn' = turn /\ spent'.turns = spent.turns
          BY <1>1, <1>3
        <5> QED
          BY <5>1, <5>2, <3>3, <3>5, <1>2, <1>10, <1>11
      <4> QED
        BY <4>1, <4>2
    <3> QED
      BY <2>1, <3>1, <3>5, <3>6 DEF Reported
  <2> QED
    BY <2>2, <2>3
<1> QED
  BY <1>7, <1>8, <1>9, <1>12, <1>13 DEF Inv

-----------------------------------------------------------------------------
(* The turn.                                                               *)

\* Steps that touch the clone and the turn, and no tool.
LEMMA PreparationStep ==
  ASSUME Inv, UNCHANGED <<toolVars, spent>>,
         NEW stage, NEW base, turn' = [turn EXCEPT !.stage = stage, !.mergeBase = base],
         turn.stage \notin {"idle", "graph"}, stage # "idle",
         repo' = [have |-> repo'.have, cut |-> repo'.cut, head |-> repo'.head],
         stage \in {"scope", "merge", "graph"} /\ turn.event.commit # 0 =>
           repo'.head = turn.event.commit
  PROVE  Inv'
<1>1. /\ turn'.event = turn.event /\ turn'.stage = stage
      /\ turn' = [stage |-> turn'.stage, event |-> turn'.event, mergeBase |-> turn'.mergeBase]
  <2>1. turn \in [stage : {turn.stage, stage}, event : {turn.event},
                  mergeBase : {turn.mergeBase, base}]
    BY DEF Inv, Shapes
  <2> QED
    BY <2>1
<1>2. (\A a \in Agents : call[a].pc = "idle") /\ recorded = <<>>
  BY DEF Inv, Prepared
<1>3. Shapes'
  BY <1>1 DEF Inv, Shapes, toolVars
<1>4. Prepared'
  BY <1>1, <1>2 DEF Prepared, toolVars
<1>5. Recorded' = {} /\ Recorded = {}
  BY <1>2 DEF Recorded, toolVars
<1>6. Remembered'
  BY <1>2, <1>5 DEF Inv, Remembered, toolVars
<1>7. \A n, e, k : Settled(n, e, k)' <=> Settled(n, e, k)
  BY DEF Settled, toolVars
<1>8. Tracked'
  BY <1>5 DEF Tracked
<1>9. Reported'
  BY <1>7 DEF Inv, Reported, toolVars
<1> QED
  BY <1>3, <1>4, <1>6, <1>8, <1>9 DEF Inv

LEMMA InvPreparation ==
  ASSUME Inv, \/ \E tip \in Main : Clones(tip)
              \/ ChecksOut \/ EnsureCommits \/ FindsMergeBase
  PROVE  Inv'
<1>0. /\ repo = [have |-> repo.have, cut |-> repo.cut, head |-> repo.head]
      /\ turn = [stage |-> turn.stage, event |-> turn.event, mergeBase |-> turn.mergeBase]
  BY DEF Inv, Shapes
<1>1. UNCHANGED <<toolVars, spent>>
  BY DEF Clones, ChecksOut, EnsureCommits, FindsMergeBase
<1>2. \A s : [turn EXCEPT !.stage = s] = [turn EXCEPT !.stage = s, !.mergeBase = turn.mergeBase]
  BY <1>0
<1>3. CASE \E tip \in Main : Clones(tip)
  <2>1. PICK tip \in Main : Clones(tip)
    BY <1>3
  <2>2. PICK s : /\ s = IF turn.event.commit # 0 THEN "checkout" ELSE "scope"
                 /\ turn' = [turn EXCEPT !.stage = s]
    BY <2>1 DEF Clones
  <2>3. /\ turn.stage = "clone"
        /\ repo' = [have |-> repo'.have, cut |-> repo'.cut, head |-> repo'.head]
    BY <2>1 DEF Clones
  <2>4. s # "idle" /\ (s \in {"scope", "merge", "graph"} => turn.event.commit = 0)
    BY <2>2
  <2> QED
    BY <1>1, <1>2, <2>2, <2>3, <2>4, PreparationStep
<1>4. CASE ChecksOut
  <2>1. /\ turn.stage = "checkout" /\ turn' = [turn EXCEPT !.stage = "scope"]
        /\ repo' = [Fetched(turn.event.commit, 2) EXCEPT !.head = turn.event.commit]
    BY <1>4 DEF ChecksOut
  <2>2. PICK f : f = Fetched(turn.event.commit, 2)
    OBVIOUS
  <2>3. f \in [have : {f.have}, cut : {f.cut}, head : {repo.head, turn.event.commit}]
    BY <1>0, <2>2 DEF Fetched
  <2>4. /\ repo' = [have |-> repo'.have, cut |-> repo'.cut, head |-> repo'.head]
        /\ repo'.head = turn.event.commit
    BY <2>1, <2>2, <2>3
  <2> QED
    BY <1>1, <1>2, <2>1, <2>4, PreparationStep
<1>5. CASE EnsureCommits
  <2>1. PICK s : /\ s \in {"merge", "graph"} /\ turn' = [turn EXCEPT !.stage = s]
                 /\ turn.stage = "scope"
    BY <1>5 DEF EnsureCommits
  <2>2. PICK got : repo' = [repo EXCEPT !.have = @ \cup got,
                                        !.cut  = @ \cup {c \in got : Parent[c] # 0}]
    BY <1>5 DEF EnsureCommits
  <2>3. /\ repo' = [have |-> repo'.have, cut |-> repo'.cut, head |-> repo'.head]
        /\ repo'.head = repo.head
    BY <1>0, <2>2
  <2>4. turn.event.commit # 0 => repo.head = turn.event.commit
    BY <2>1 DEF Inv, Prepared
  <2>5. turn' = [turn EXCEPT !.stage = s, !.mergeBase = turn.mergeBase]
    BY <1>2, <2>1
  <2>6. turn.stage \notin {"idle", "graph"} /\ s # "idle"
    BY <2>1
  <2> QED
    BY <1>1, <2>3, <2>4, <2>5, <2>6, PreparationStep
<1>6. CASE FindsMergeBase
  <2>1. PICK b : turn' = [turn EXCEPT !.stage = "graph", !.mergeBase = b] /\ turn.stage = "merge"
    BY <1>6 DEF FindsMergeBase
  <2>2. repo' = repo \/ \E tip \in Main : repo' = Unshallowed(tip)
    BY <1>6 DEF FindsMergeBase
  <2>3. /\ repo' = [have |-> repo'.have, cut |-> repo'.cut, head |-> repo'.head]
        /\ repo'.head = repo.head
    BY <1>0, <2>2 DEF Unshallowed
  <2>4. turn.event.commit # 0 => repo.head = turn.event.commit
    BY <2>1 DEF Inv, Prepared
  <2> QED
    BY <1>1, <2>1, <2>3, <2>4, PreparationStep
<1> QED
  BY <1>3, <1>4, <1>5, <1>6

LEMMA InvDeepens ==
  ASSUME Inv, NEW tip \in Main, AgentDeepens(tip)
  PROVE  Inv'
<1>1. repo' = [have |-> repo'.have, cut |-> repo'.cut, head |-> repo'.head]
      /\ repo'.head = repo.head
  <2>1. repo = [have |-> repo.have, cut |-> repo.cut, head |-> repo.head]
    BY DEF Inv, Shapes
  <2> QED
    BY <2>1 DEF AgentDeepens, Unshallowed
<1>2. UNCHANGED <<turn, toolVars, spent>>
  BY DEF AgentDeepens
<1>3. Shapes' /\ Prepared'
  BY <1>1, <1>2 DEF Inv, Shapes, Prepared, toolVars
<1>4. Recorded' = Recorded
  BY <1>2 DEF Recorded, toolVars
<1>5. Remembered'
  BY <1>2, <1>4 DEF Inv, Remembered, toolVars
<1>6. \A n, e, k : Settled(n, e, k)' <=> Settled(n, e, k)
  BY <1>2 DEF Settled, toolVars
<1>7. \A n : OnItsWay(n)' <=> OnItsWay(n)
  BY <1>2 DEF OnItsWay, toolVars
<1>8. Tracked'
  BY <1>2, <1>4, <1>6, <1>7 DEF Inv, Tracked, Settled, toolVars
<1>9. Reported'
  BY <1>2, <1>6, <1>7 DEF Inv, Reported, toolVars
<1> QED
  BY <1>3, <1>5, <1>8, <1>9 DEF Inv

\* A turn starts with a new set of tools: nothing recorded, nothing answered.
LEMMA InvBegins ==
  ASSUME Inv, NEW e \in Events, Begins(e)
  PROVE  Inv'
<1>1. /\ turn.stage = "idle" /\ spent' = [spent EXCEPT !.turns = @ + 1]
      /\ recorded' = <<>> /\ answered' = {}
      /\ UNCHANGED <<repo, call, findings, reports, failed>>
  BY DEF Begins
<1>2. PICK s : /\ turn' = [stage |-> s, event |-> e, mergeBase |-> 0]
               /\ s = IF e.action = "chat" THEN "graph"
                      ELSE IF repo.head = 0 THEN "clone"
                      ELSE IF e.commit # 0 THEN "checkout" ELSE "scope"
  BY DEF Begins
<1>3. s \in {"scope", "merge", "graph"} => e.commit = 0
  <2>1. e.action = "chat" => e.commit = 0
    BY ResultsAssumption
  <2> QED
    BY <1>2, <2>1
<1>4. \A a \in Agents : call[a].pc = "idle"
  BY <1>1 DEF Inv, Prepared
<1>5. /\ turn' = [stage |-> turn'.stage, event |-> turn'.event, mergeBase |-> turn'.mergeBase]
      /\ turn'.stage = s /\ turn'.event = e
  BY <1>2
<1>6. spent' \in [turns : Nat, calls : Nat, reports : Nat, faults : Nat]
  <2>1. spent \in [turns : Nat, calls : Nat, reports : Nat, faults : Nat]
    BY DEF Inv, Shapes
  <2> QED
    BY <1>1, <2>1
<1>7. Shapes'
  BY <1>1, <1>5, <1>6 DEF Inv, Shapes
<1>8. Prepared'
  BY <1>1, <1>3, <1>4, <1>5 DEF Prepared
<1>9. Recorded' = {}
  BY <1>1 DEF Recorded
<1>10. Remembered'
  BY <1>1, <1>4 DEF Remembered
<1>11. Tracked'
  BY <1>9 DEF Tracked
<1>12. \A n, ev, k : Settled(n, ev, k)' <=> Settled(n, ev, k)
  BY <1>1 DEF Settled
<1>13. Reported'
  BY <1>1, <1>12 DEF Inv, Reported
<1> QED
  BY <1>7, <1>8, <1>10, <1>11, <1>13 DEF Inv

\* The stream ends: nothing is on its way any more.
LEMMA InvFinishes ==
  ASSUME Inv, Finishes
  PROVE  Inv'
<1>1. /\ \A a \in Agents : call[a].pc = "idle"
      /\ turn' = [stage |-> "idle", event |-> NoEvent, mergeBase |-> 0]
      /\ UNCHANGED <<repo, toolVars, spent>>
  BY DEF Finishes, NoTurn
<1>2. /\ turn' = [stage |-> turn'.stage, event |-> turn'.event, mergeBase |-> turn'.mergeBase]
      /\ turn'.stage = "idle"
  BY <1>1
<1>3. Shapes' /\ Prepared' /\ Tracked'
  BY <1>1, <1>2 DEF Inv, Shapes, Prepared, Tracked, toolVars
<1>4. Recorded' = Recorded
  BY <1>1 DEF Recorded, toolVars
<1>5. Remembered'
  BY <1>1, <1>4 DEF Inv, Remembered, toolVars
<1>6. \A n, e, k : Settled(n, e, k)' <=> Settled(n, e, k)
  BY <1>1 DEF Settled, toolVars
<1>7. \A n : ~ OnItsWay(n)
  BY <1>1 DEF OnItsWay
<1>8. Reported'
  BY <1>1, <1>6, <1>7 DEF Inv, Reported, toolVars
<1> QED
  BY <1>3, <1>5, <1>8 DEF Inv

\* The turn is cut off: an insert on its way counts as failed, whether its row
\* is there or not, and a report on its way may still get its row.
LEMMA InvCutOff ==
  ASSUME Inv, CutOff
  PROVE  Inv'
<1> DEFINE inserts == {a \in Agents : call[a].pc = "storing"}
           saves == {a \in Agents : call[a].pc = "saving"}
<1>1. /\ spent' = [spent EXCEPT !.faults = @ + 1]
      /\ turn' = [stage |-> "idle", event |-> NoEvent, mergeBase |-> 0]
      /\ call' = [a \in Agents |-> Idle]
      /\ failed' = failed \cup {call[a].n : a \in inserts}
      /\ findings \subseteq findings'
      /\ UNCHANGED <<recorded, answered>>
  BY DEF CutOff, NoTurn
<1>2. PICK done \in SUBSET saves : reports' = reports \cup {Report(call[a]) : a \in done}
  BY DEF CutOff
<1>3. repo' = [have |-> repo'.have, cut |-> repo'.cut, head |-> repo'.head]
  <2>1. repo = [have |-> repo.have, cut |-> repo.cut, head |-> repo.head]
    BY DEF Inv, Shapes
  <2>2. PICK f : f = Fetched(turn.event.commit, 2)
    OBVIOUS
  <2>3. f = [have |-> f.have, cut |-> f.cut, head |-> f.head]
    BY <2>1, <2>2 DEF Fetched
  <2>4. repo' = [have |-> {}, cut |-> {}, head |-> 0] \/ repo' = repo \/ repo' = f
    BY <2>2 DEF CutOff
  <2> QED
    BY <2>1, <2>3, <2>4
<1>4. /\ turn' = [stage |-> turn'.stage, event |-> turn'.event, mergeBase |-> turn'.mergeBase]
      /\ turn'.stage = "idle"
  BY <1>1
<1>5. /\ spent' \in [turns : Nat, calls : Nat, reports : Nat, faults : Nat]
      /\ spent'.turns = spent.turns
  BY <1>1 DEF Inv, Shapes
<1>6. /\ call' = [a \in Agents |-> call'[a]]
      /\ \A a \in Agents : call'[a].pc = "idle" /\ Call(call'[a])
  BY <1>1, IdleCall
<1>7. Shapes'
  BY <1>1, <1>3, <1>4, <1>5, <1>6 DEF Inv, Shapes
<1>8. Prepared' /\ Tracked'
  BY <1>4, <1>6 DEF Prepared, Tracked
<1>9. Recorded' = Recorded
  BY <1>1 DEF Recorded
<1>10. Remembered'
  BY <1>1, <1>6, <1>9 DEF Inv, Remembered
<1>11. \A n, e, k : Settled(n, e, k) \/ OnItsWay(n) => Settled(n, e, k)'
  BY <1>1 DEF Settled, OnItsWay
<1>12. \A r \in reports : r.known \subseteq r.attached
                          /\ \A n \in r.attached : Settled(n, r.event, r.turn)'
  BY <1>11 DEF Inv, Reported
<1>13. ASSUME NEW a \in done, NEW r, r = Report(call[a])
       PROVE  r.known \subseteq r.attached
              /\ \A n \in r.attached : Settled(n, r.event, r.turn)'
  <2>1. call[a].pc = "saving" /\ a \in Agents
    OBVIOUS
  <2>2. /\ r.known = call[a].known /\ r.attached = call[a].attached
        /\ r.event = turn.event /\ r.turn = spent.turns
    BY <1>13 DEF Report
  <2>3. call[a].known \subseteq call[a].attached /\ call[a].attached \subseteq Recorded
    BY <2>1 DEF Inv, Remembered
  <2>4. turn.stage = "graph"
    BY <2>1, CallingGraph
  <2>5. \A n \in r.attached : Settled(n, r.event, r.turn) \/ OnItsWay(n)
    BY <2>2, <2>3, <2>4 DEF Inv, Tracked
  <2> QED
    BY <2>2, <2>3, <2>5, <1>11
<1>14. Reported'
  BY <1>2, <1>12, <1>13 DEF Reported
<1> QED
  BY <1>7, <1>8, <1>10, <1>14 DEF Inv

-----------------------------------------------------------------------------
LEMMA InvInit == Init => Inv
<1> SUFFICES ASSUME Init PROVE Inv
  OBVIOUS
<1>1. \A a \in Agents : call[a].pc = "idle" /\ Call(call[a])
  BY IdleCall DEF Init
<1>2. Shapes
  BY <1>1 DEF Init, Shapes, NoTurn
<1>3. turn.stage = "idle"
  BY DEF Init, NoTurn
<1> QED
  BY <1>1, <1>2, <1>3 DEF Init, Inv, Prepared, Remembered, Tracked, Reported

LEMMA InvStep == Inv /\ [Next]_vars => Inv'
<1> SUFFICES ASSUME Inv, [Next]_vars PROVE Inv'
  OBVIOUS
<1>1. CASE UNCHANGED vars
  BY <1>1 DEF Inv, Shapes, Prepared, Remembered, Tracked, Reported, Recorded, Settled, OnItsWay,
              vars, toolVars
<1>2. CASE Next
  BY <1>2, InvBegins, InvPreparation, InvDeepens, InvReports, InvBlame, InvStores, InvReport,
     InvFinishes, InvCutOff DEF Next
<1> QED
  BY <1>1, <1>2

\* What a turn has recorded, answered and reported, in every reachable state.
THEOREM InvThm == Spec => []Inv
<1> QED
  BY InvInit, InvStep, PTL DEF Spec

\* process_event checks the commit out on every path to the graph, whatever
\* clone the earlier turns, finished or cut off, left in the sandbox.
THEOREM ReadsEventCommitThm == Spec => []ReadsEventCommit
<1>1. Inv => ReadsEventCommit
  BY DEF Inv, Prepared, ReadsEventCommit
<1> QED
  BY <1>1, InvThm, PTL

\* report_finding records before it awaits its insert, so a report written by
\* any agent of the turn attaches every finding that was confirmed before.
THEOREM ReportKnowsConfirmedThm == Spec => []ReportKnowsConfirmed
<1>1. Inv => ReportKnowsConfirmed
  BY DEF Inv, Reported, ReportKnowsConfirmed
<1> QED
  BY <1>1, InvThm, PTL

\* A finding attached to a report has its row under the same Event and turn,
\* or its insert failed or is still awaited, in the report's own turn.
THEOREM AttachedIsStoredThm == Spec => []AttachedIsStored
<1>1. Inv => AttachedIsStored
  BY DEF Inv, Reported, Settled, OnItsWay, AttachedIsStored
<1> QED
  BY <1>1, InvThm, PTL

-----------------------------------------------------------------------------
(* The origin of findings: what git shows of a history.                    *)

LEMMA Least ==
  ASSUME NEW T, T \subseteq Nat, T # {}
  PROVE  \E x \in T : \A y \in T : x <= y
<1>1. PICK R : R = OpToRel(<, Nat)
  BY Zenon
<1>2. \A x, y \in Nat : x < y => <<x, y>> \in R
  BY <1>1, Zenon DEF OpToRel
<1>3. IsWellFoundedOn(R, Nat)
  BY <1>1, NatLessThanWellFounded, Zenon
<1>4. PICK x \in T : \A y \in T : ~(<<y, x>> \in R)
  BY <1>3, WFMin
<1>5. \A y \in T : y \in Nat
  OBVIOUS
<1>6. \A y \in T : ~(y < x)
  BY <1>2, <1>4, <1>5
<1> QED
  BY <1>5, <1>6

LEMMA Greatest ==
  ASSUME NEW T, T \subseteq Nat, T # {}, NEW b \in Nat, \A y \in T : y <= b
  PROVE  \E x \in T : \A y \in T : y <= x
<1>1. PICK U : U = {k \in Nat : \A y \in T : y <= k}
  OBVIOUS
<1>2. U \subseteq Nat /\ U # {}
  BY <1>1
<1>3. PICK x \in U : \A y \in U : x <= y
  BY <1>2, Least
<1>4. x \in Nat /\ \A y \in T : y \in Nat /\ y <= x
  BY <1>1, <1>3
<1>5. ASSUME x \notin T
      PROVE  FALSE
  <2>1. PICK y \in T : y \in Nat
    BY <1>4
  <2>2. x # 0
    BY <1>4, <1>5, <2>1
  <2>3. x - 1 \in Nat /\ \A z \in T : z <= x - 1
    BY <1>4, <1>5, <2>2
  <2>4. x - 1 \in U
    BY <1>1, <2>3
  <2> QED
    BY <1>3, <1>4, <2>4
<1> QED
  BY <1>4, <1>5

LEMMA SetInduction ==
  ASSUME NEW S, 0 \in S, \A n \in Nat : n \in S => n + 1 \in S
  PROVE  Nat \subseteq S
<1>1. SUFFICES ASSUME Nat \ S # {} PROVE FALSE
  OBVIOUS
<1>2. PICK x \in Nat \ S : \A y \in Nat \ S : x <= y
  BY <1>1, Least
<1>3. x # 0 /\ x - 1 \in Nat /\ ~(x <= x - 1)
  BY <1>2
<1> QED
  BY <1>2, <1>3

C0 == 0 .. Cardinality(Commits)

LEMMA CommitNumbers ==
  /\ Cardinality(Commits) \in Nat /\ Commits = 1 .. Cardinality(Commits)
  /\ C0 = Commits \cup {0} /\ C0 \subseteq Nat
  /\ \A x \in Commits : x \in C0 /\ Parent[x] \in C0 /\ Parent[x] < x
<1>1. PICK N \in Nat : N = Cardinality(Commits)
  BY ResultsAssumption, FS_CardinalityType
<1>2. Commits = 1 .. N /\ \A x \in 1 .. N : Parent[x] \in 0 .. (x - 1)
  BY <1>1, ResultsAssumption
<1>3. C0 = 0 .. N
  BY <1>1 DEF C0
<1>4. 0 .. N = (1 .. N) \cup {0} /\ 0 .. N \subseteq Nat
  OBVIOUS
<1>5. ASSUME NEW x \in 1 .. N
      PROVE  Parent[x] \in 0 .. N /\ Parent[x] < x
  BY <1>2
<1> QED
  BY <1>1, <1>2, <1>3, <1>4, <1>5

\* Induction from a commit's parent to the commit.
LEMMA CommitInduction ==
  ASSUME NEW S, 0 \in S, \A x \in Commits : Parent[x] \in S => x \in S
  PROVE  C0 \subseteq S
<1>1. SUFFICES ASSUME C0 \ S # {} PROVE FALSE
  OBVIOUS
<1>2. PICK x \in C0 \ S : \A y \in C0 \ S : x <= y
  BY <1>1, CommitNumbers, Least
<1>3. x \in Commits
  BY <1>2, CommitNumbers
<1>4. Parent[x] \in C0 /\ Parent[x] < x /\ x \in Nat /\ Parent[x] \in Nat
  BY <1>3, CommitNumbers
<1>5. Parent[x] \in S
  BY <1>2, <1>4
<1> QED
  BY <1>2, <1>3, <1>5

\* The walk along the parents exists.
LEMMA Walks ==
  ASSUME NEW cut
  PROVE  /\ Visible(0, cut) = {}
         /\ \A x \in Commits :
              Visible(x, cut) = {x} \cup (IF x \in cut THEN {} ELSE Visible(Parent[x], cut))
<1>1. PICK N \in Nat : N = Cardinality(Commits) /\ Commits = 1 .. N
  BY CommitNumbers
<1>2. \A x \in 1 .. N : Parent[x] \in 0 .. (x - 1)
  BY <1>1, ResultsAssumption
<1> DEFINE Step(g, x) == IF x = 0 THEN {} ELSE {x} \cup (IF x \in cut THEN {} ELSE g[Parent[x]])
<1> DEFINE Good == {m \in Nat : m <= N => \E g : \A x \in 0 .. m : g[x] = Step(g, x)}
<1>3. 0 \in Good
  <2>1. PICK g : g = [x \in {0} |-> {}]
    OBVIOUS
  <2>2. \A x \in 0 .. 0 : g[x] = Step(g, x)
    BY <2>1
  <2> QED
    BY <2>2
<1>4. ASSUME NEW m \in Nat, m \in Good
      PROVE  m + 1 \in Good
  <2>1. SUFFICES ASSUME m + 1 <= N
                 PROVE  \E g : \A x \in 0 .. m + 1 : g[x] = Step(g, x)
    <3> HIDE DEF Step
    <3>1. m + 1 \in Nat
      OBVIOUS
    <3> QED
      BY <3>1
  <2>2. PICK g : \A x \in 0 .. m : g[x] = Step(g, x)
    <3> HIDE DEF Step
    <3>1. m <= N
      BY <2>1
    <3> QED
      BY <1>4, <3>1
  <2>3. PICK f : f = [x \in 0 .. m + 1 |-> IF x = m + 1 THEN Step(g, x) ELSE g[x]]
    OBVIOUS
  <2>4. f[m + 1] = Step(g, m + 1) /\ \A x \in 0 .. m : f[x] = g[x]
    BY <2>3
  <2>5. ASSUME NEW x \in 0 .. m + 1
        PROVE  f[x] = Step(f, x)
    <3>1. x = 0 \/ (x \in 1 .. N /\ Parent[x] \in 0 .. m)
      BY <1>2, <2>1
    <3>2. Step(f, x) = Step(g, x)
      BY <2>4, <3>1
    <3>3. f[x] = Step(g, x)
      <4> HIDE DEF Step
      <4>1. x \in 0 .. m \/ x = m + 1
        OBVIOUS
      <4> QED
        BY <2>2, <2>4, <4>1
    <3> QED
      BY <3>2, <3>3
  <2> QED
    BY <2>5
<1>5. N \in Good
  <2> HIDE DEF Good
  <2> QED
    BY <1>3, <1>4, SetInduction
<1>6. PICK g : \A x \in 0 .. N : g[x] = Step(g, x)
  BY <1>5
<1>7. PICK f : f = [x \in 0 .. N |-> g[x]]
  OBVIOUS
<1>8. \A x \in 0 .. N : g[x] = Step(f, x)
  <2>1. \A x \in 0 .. N : x = 0 \/ Parent[x] \in 0 .. N
    BY <1>2
  <2>2. \A x \in 0 .. N : x # 0 => f[Parent[x]] = g[Parent[x]]
    BY <1>7, <2>1
  <2> QED
    BY <1>6, <2>2
<1>9. f = [x \in 0 .. N |-> Step(f, x)]
  <2> HIDE DEF Step
  <2> QED
    BY <1>7, <1>8
<1>10. \E w : w = [x \in 0 .. Cardinality(Commits) |->
                     IF x = 0 THEN {} ELSE {x} \cup (IF x \in cut THEN {} ELSE w[Parent[x]])]
  BY <1>1, <1>9
<1> DEFINE W == CHOOSE w : w = [x \in 0 .. Cardinality(Commits) |->
                     IF x = 0 THEN {} ELSE {x} \cup (IF x \in cut THEN {} ELSE w[Parent[x]])]
<1>11. W = [x \in 0 .. Cardinality(Commits) |->
              IF x = 0 THEN {} ELSE {x} \cup (IF x \in cut THEN {} ELSE W[Parent[x]])]
  BY <1>10, Zenon
<1>12. \A c : Visible(c, cut) = W[c]
  BY Zenon DEF Visible
<1> HIDE DEF W
<1>13. W[0] = {} /\ \A x \in 1 .. N : W[x] = {x} \cup (IF x \in cut THEN {} ELSE W[Parent[x]])
  <2>1. \A x \in 0 .. N :
          W[x] = IF x = 0 THEN {} ELSE {x} \cup (IF x \in cut THEN {} ELSE W[Parent[x]])
    BY <1>1, <1>11, Zenon
  <2>2. 0 \in 0 .. N /\ \A x \in 1 .. N : x \in 0 .. N /\ x # 0
    OBVIOUS
  <2> QED
    BY <2>1, <2>2
<1> QED
  BY <1>1, <1>12, <1>13

\* What is shown is history: commits no later than where the walk begins.
LEMMA ShownIsHistory ==
  ASSUME NEW cut
  PROVE  \A c \in C0 : /\ Visible(c, cut) \subseteq History(c) /\ Visible(c, cut) \subseteq Commits
                       /\ \A x \in Visible(c, cut) : x <= c
                       /\ c # 0 => c \in Visible(c, cut)
<1> DEFINE P(c) == /\ Visible(c, cut) \subseteq History(c) /\ Visible(c, cut) \subseteq Commits
                   /\ \A x \in Visible(c, cut) : x <= c
                   /\ c # 0 => c \in Visible(c, cut)
<1>1. PICK S : S = {c \in C0 : P(c)}
  OBVIOUS
<1>2. 0 \in S
  BY <1>1, Walks, CommitNumbers
<1>3. ASSUME NEW x \in Commits, Parent[x] \in S
      PROVE  x \in S
  <2>1. /\ Visible(x, cut) = {x} \cup (IF x \in cut THEN {} ELSE Visible(Parent[x], cut))
        /\ History(x) = {x} \cup History(Parent[x])
    BY Walks DEF History
  <2>2. x \in C0 /\ x \in Nat /\ Parent[x] \in Nat /\ Parent[x] < x /\ Commits \subseteq Nat
    BY CommitNumbers
  <2>3. P(Parent[x])
    BY <1>1, <1>3
  <2>4. Visible(x, cut) \subseteq History(x) /\ Visible(x, cut) \subseteq Commits /\ x \in Visible(x, cut)
    BY <2>1, <2>3
  <2>5. ASSUME NEW y \in Visible(x, cut)
        PROVE  y <= x
    <3>1. y = x \/ y \in Visible(Parent[x], cut)
      BY <2>1
    <3>2. y \in Nat
      BY <2>2, <2>4
    <3>3. y = x \/ y <= Parent[x]
      BY <2>3, <3>1
    <3> QED
      BY <2>2, <3>2, <3>3
  <2> QED
    BY <1>1, <2>2, <2>4, <2>5
<1> HIDE DEF P
<1>4. C0 \subseteq S
  BY <1>2, <1>3, CommitInduction
<1>5. \A c \in C0 : P(c)
  BY <1>1, <1>4
<1> QED
  BY <1>5 DEF P

LEMMA HistoryTransitive ==
  ASSUME NEW c \in C0, NEW d \in History(c)
  PROVE  History(d) \subseteq History(c)
<1>1. PICK S : S = {x \in C0 : \A y \in History(x) : History(y) \subseteq History(x)}
  OBVIOUS
<1>2. 0 \in S
  BY <1>1, Walks, CommitNumbers DEF History
<1>3. ASSUME NEW x \in Commits, Parent[x] \in S
      PROVE  x \in S
  <2>1. History(x) = {x} \cup History(Parent[x])
    BY Walks DEF History
  <2>2. x \in C0
    BY CommitNumbers
  <2> QED
    BY <1>1, <1>3, <2>1, <2>2
<1>4. C0 \subseteq S
  BY <1>2, <1>3, CommitInduction
<1> QED
  BY <1>1, <1>4

\* What the clone does not show is older than the end of what it shows.
LEMMA HiddenIsOlder ==
  ASSUME NEW cut, NEW c \in C0, NEW o \in History(c), o \notin Visible(c, cut)
  PROVE  \E m \in Visible(c, cut) : (\A y \in Visible(c, cut) : m <= y) /\ o \in History(m)
<1> DEFINE Q(x, p) == \E m \in Visible(x, cut) : (\A y \in Visible(x, cut) : m <= y) /\ p \in History(m)
<1>1. PICK S : S = {x \in C0 : \A p \in History(x) : p \in Visible(x, cut) \/ Q(x, p)}
  OBVIOUS
<1>2. 0 \in S
  BY <1>1, Walks, CommitNumbers DEF History
<1>3. ASSUME NEW x \in Commits, Parent[x] \in S
      PROVE  x \in S
  <2>1. /\ Visible(x, cut) = {x} \cup (IF x \in cut THEN {} ELSE Visible(Parent[x], cut))
        /\ History(x) = {x} \cup History(Parent[x])
    BY Walks DEF History
  <2>2. x \in C0 /\ x \in Nat /\ Parent[x] \in C0 /\ Parent[x] \in Nat /\ Parent[x] < x
    BY CommitNumbers
  <2>3. ASSUME NEW p \in History(x), p \notin Visible(x, cut)
        PROVE  Q(x, p)
    <3>1. CASE x \in cut
      <4>1. Visible(x, cut) = {x} /\ x <= x
        BY <2>1, <2>2, <3>1
      <4> QED
        BY <4>1
    <3>2. CASE x \notin cut
      <4>1. Visible(x, cut) = {x} \cup Visible(Parent[x], cut)
        BY <2>1, <3>2
      <4>2. p \in History(Parent[x]) /\ p \notin Visible(Parent[x], cut)
        BY <2>1, <2>3, <4>1
      <4>3. Q(Parent[x], p)
        BY <1>1, <1>3, <4>2
      <4>4. PICK m \in Visible(Parent[x], cut) :
              (\A y \in Visible(Parent[x], cut) : m <= y) /\ p \in History(m)
        BY <4>3
      <4>5. m \in Nat /\ m <= Parent[x]
        BY <2>2, ShownIsHistory, CommitNumbers
      <4>6. m <= x
        BY <2>2, <4>5
      <4> QED
        BY <4>1, <4>4, <4>6
    <3> QED
      BY <3>1, <3>2
  <2> HIDE DEF Q
  <2> QED
    BY <1>1, <2>2, <2>3
<1> HIDE DEF Q
<1>4. C0 \subseteq S
  BY <1>2, <1>3, CommitInduction
<1>5. Q(c, o)
  BY <1>1, <1>4
<1> QED
  BY <1>5 DEF Q

\* Blame of one line: the commit itself or the end of what is shown, and
\* never the checked out commit for an older line if its parent is shown.
LEMMA LineBlamed ==
  ASSUME repo.head \in Commits, NEW o \in History(repo.head)
  PROVE  /\ LineCommit(o) \in Visible(repo.head, repo.cut) /\ o \in History(LineCommit(o))
         /\ LineCommit(o) = repo.head /\ repo.head \notin repo.cut => o = repo.head
<1>0. PICK h \in Commits : h = repo.head
  OBVIOUS
<1>cut. PICK cut : cut = repo.cut
  OBVIOUS
<1>1. PICK V : V = Visible(h, cut)
  OBVIOUS
<1>2. h \in C0 /\ V \subseteq Commits /\ V \subseteq Nat /\ Commits \subseteq C0 /\ h \in V
  BY <1>1, ShownIsHistory, CommitNumbers
<1>3. CASE o \in V
  <2>1. LineCommit(o) = o
    BY <1>0, <1>cut, <1>1, <1>3 DEF LineCommit
  <2>2. o \in History(o)
    <3>1. o \in C0 /\ o # 0
      BY <1>2, <1>3, CommitNumbers
    <3> QED
      BY <3>1, ShownIsHistory DEF History
  <2> QED
    BY <1>0, <1>cut, <1>1, <1>3, <2>1, <2>2
<1>4. CASE o \notin V
  <2>1. PICK m \in V : (\A y \in V : m <= y) /\ o \in History(m)
    BY <1>0, <1>cut, <1>1, <1>2, <1>4, HiddenIsOlder
  <2>2. Min(V) = m
    <3>1. PICK q : q = Min(V)
      OBVIOUS
    <3>2. q \in V /\ \A y \in V : q <= y
      BY <2>1, <3>1 DEF Min
    <3>3. q <= m /\ m <= q /\ q \in Nat /\ m \in Nat
      BY <1>2, <2>1, <3>2
    <3> QED
      BY <3>1, <3>3
  <2>3. LineCommit(o) = m
    BY <1>0, <1>cut, <1>1, <1>4, <2>2 DEF LineCommit
  <2>4. ASSUME m = h, h \notin cut
        PROVE  FALSE
    <3>1. V = {h} \cup Visible(Parent[h], cut) /\ History(h) = {h} \cup History(Parent[h])
      BY <1>1, <2>4, Walks DEF History
    <3>2. o \in History(Parent[h])
      BY <1>0, <1>cut, <1>2, <1>4, <3>1
    <3>3. Parent[h] # 0
      BY <3>2, Walks DEF History
    <3>4. Parent[h] \in V /\ Parent[h] < h /\ h \in Nat /\ Parent[h] \in Nat
      BY <3>1, <3>3, ShownIsHistory, CommitNumbers
    <3> QED
      BY <2>1, <2>4, <3>4
  <2> QED
    BY <1>0, <1>cut, <1>1, <2>1, <2>3, <2>4
<1> QED
  BY <1>3, <1>4

\* Blame names the commit of one of the committed lines.
LEMMA BlameGives ==
  ASSUME repo.head \in Commits, NEW lines \in Seq(C0), BlameCommit(lines) # 0,
         \A i \in DOMAIN lines : lines[i] \in History(repo.head) \cup {0}
  PROVE  \E i \in DOMAIN lines : /\ lines[i] \in History(repo.head)
                                 /\ BlameCommit(lines) = LineCommit(lines[i])
<1>1. PICK l \in Nat : l = Len(lines) /\ DOMAIN lines = 1 .. l
  BY LenProperties
<1>2. PICK committed : committed = {i \in DOMAIN lines : lines[i] # 0}
  OBVIOUS
<1>3. PICK blamed : blamed = {LineCommit(lines[i]) : i \in committed}
  OBVIOUS
<1>4. PICK share : share = [c \in blamed |-> Cardinality({i \in committed : LineCommit(lines[i]) = c})]
  OBVIOUS
<1>5. PICK most : most = {c \in blamed : \A d \in blamed : share[d] <= share[c]}
  OBVIOUS
<1>6. blamed # {} /\ BlameCommit(lines) = Max(most)
  <2>1. PICK sh : sh = {c \in blamed : \A d \in blamed :
                          Cardinality({i \in committed : LineCommit(lines[i]) = d})
                            <= Cardinality({i \in committed : LineCommit(lines[i]) = c})}
    OBVIOUS
  <2>2. sh = most
    BY <1>4, <1>5, <2>1
  <2>3. BlameCommit(lines) = IF blamed = {} THEN 0 ELSE Max(sh)
    BY <1>2, <1>3, <2>1 DEF BlameCommit
  <2> QED
    BY <2>2, <2>3
<1>7. \A i \in committed : lines[i] \in History(repo.head) /\ LineCommit(lines[i]) \in Commits
  <2>1. \A i \in committed : lines[i] \in History(repo.head)
    BY <1>2
  <2>2. \A i \in committed : LineCommit(lines[i]) \in Visible(repo.head, repo.cut)
    BY <2>1, LineBlamed
  <2>3. Visible(repo.head, repo.cut) \subseteq Commits
    BY ShownIsHistory, CommitNumbers
  <2> QED
    BY <2>1, <2>2, <2>3
<1>8. \A c \in blamed : share[c] \in Nat /\ share[c] <= l
  <2>1. IsFiniteSet(1 .. l) /\ Cardinality(1 .. l) = l
    <3>1. 1 \in Int /\ l \in Int
      OBVIOUS
    <3>2. IsFiniteSet(1 .. l) /\ Cardinality(1 .. l) = IF 1 > l THEN 0 ELSE l - 1 + 1
      BY <3>1, FS_Interval
    <3> QED
      BY <3>2
  <2>2. ASSUME NEW c \in blamed
        PROVE  share[c] \in Nat /\ share[c] <= l
    <3>1. PICK T : T = {i \in committed : LineCommit(lines[i]) = c}
      OBVIOUS
    <3>2. T \subseteq 1 .. l
      BY <1>1, <1>2, <3>1
    <3>3. IsFiniteSet(T) /\ Cardinality(T) <= Cardinality(1 .. l)
      BY <2>1, <3>2, FS_Subset
    <3>4. Cardinality(T) \in Nat
      BY <3>3, FS_CardinalityType
    <3> QED
      BY <1>4, <2>1, <3>1, <3>3, <3>4
  <2> QED
    BY <2>2
<1>9. most # {}
  <2>1. PICK T : T = {share[c] : c \in blamed}
    OBVIOUS
  <2>2. T \subseteq Nat /\ T # {} /\ \A y \in T : y <= l
    BY <1>6, <1>8, <2>1
  <2>3. PICK x \in T : \A y \in T : y <= x
    BY <2>2, Greatest
  <2> QED
    BY <1>5, <2>1, <2>3
<1>10. Max(most) \in most
  <2>1. most \subseteq Nat /\ \A y \in most : y <= Cardinality(Commits)
    BY <1>3, <1>5, <1>7, CommitNumbers
  <2>2. PICK x \in most : \A y \in most : y <= x
    BY <1>9, <2>1, Greatest, CommitNumbers
  <2>3. \A y \in most : x >= y
    BY <2>1, <2>2
  <2> QED
    BY <2>2, <2>3 DEF Max
<1>11. PICK i \in committed : Max(most) = LineCommit(lines[i])
  BY <1>3, <1>5, <1>10
<1> QED
  BY <1>2, <1>6, <1>7, <1>11

-----------------------------------------------------------------------------
(* The inductive invariant behind VerdictSound.                            *)

\* The clone holds commits of the repository, only a commit with a parent is an
\* end of it, and past the checkout the Event's commit is not one.
Cloned ==
  /\ repo.have \subseteq Commits /\ \A c \in repo.cut : Parent[c] # 0
  /\ turn.stage = "checkout" => turn.event.commit # 0
  /\ turn.stage # "idle" => turn.event \in Events /\ turn.mergeBase \in C0
  /\ turn.stage \in {"scope", "merge", "graph"} /\ turn.event.commit # 0 =>
       turn.event.commit \in repo.have \ repo.cut

\* What the answer by about commit c says of a range.
Origin(c, by, ranges) ==
  \A rng \in ranges :
    /\ by = "earlier" => c \in History(TrueBefore(rng))
    /\ by = "this_event" /\ TrueBefore(rng) = Parent[rng.after] => c = rng.after

\* The same of a finding at some lines.
Fair(lines, by, ranges) ==
  \A rng \in ranges :
    /\ by = "earlier" => \E i \in DOMAIN lines : lines[i] \in History(TrueBefore(rng))
    /\ by = "this_event" /\ TrueBefore(rng) = Parent[rng.after] =>
         \E i \in DOMAIN lines : lines[i] = rng.after

\* Blame gave some of the lines to c: they are of c or, but for the Event's own
\* commit, of an ancestor that the clone does not show.
Under(lines, c, own) ==
  \E i \in DOMAIN lines : lines[i] \in History(c) /\ (c = own => lines[i] = c)

\* A tool call blames lines of the tree, asks for the origin of a commit that
\* the clone shows below the Event's, and stores an answer that is right.
Asking(c, ranges, own, seen, tree) ==
  /\ c.pc \in {"blaming", "after", "before"} =>
       c.lines \in Regions /\ \A i \in DOMAIN c.lines : c.lines[i] \in tree \cup {0}
  /\ c.pc \in {"after", "before"} => c.commit \in seen /\ Under(c.lines, c.commit, own)
  /\ c.pc = "storing" => Fair(c.lines, c.by, ranges)

Asks(c) ==
  Asking(c, Scope, turn.event.commit, Visible(turn.event.commit, repo.cut), History(repo.head))

\* The caches are of this turn, and right for its range.
Cached ==
  /\ turn.stage \notin {"idle", "graph"} => blameOf = <<>> /\ originOf = <<>>
  /\ turn.stage = "graph" =>
       /\ \A c \in DOMAIN originOf : Origin(c, originOf[c], Scope)
       /\ \A l \in DOMAIN blameOf : Fair(l, blameOf[l].by, Scope)

Verdicts == Cloned /\ Cached /\ (\A a \in Agents : Asks(call[a])) /\ VerdictSound

\* The range of an Event ends at its commit, which is checked out in a graph.
LEMMA Ranges ==
  ASSUME Inv, Verdicts, turn.stage = "graph", NEW rng \in Scope
  PROVE  /\ rng.after = turn.event.commit /\ repo.head = turn.event.commit
         /\ turn.event.commit \in Commits /\ turn.event.commit \in repo.have \ repo.cut
         /\ rng.before \in C0 /\ TrueBefore(rng) \in C0
<1>1. turn.event.commit # 0 /\ rng.after = turn.event.commit
      /\ rng.before \in {turn.mergeBase, turn.event.base, turn.event.before}
  BY DEF Scope, ScopeRange
<1>2. turn.event \in Events /\ turn.mergeBase \in C0
  BY DEF Verdicts, Cloned
<1>3. {turn.event.commit, turn.event.before, turn.event.base} \subseteq C0
  BY <1>2, ResultsAssumption, CommitNumbers
<1>4. turn.event.commit \in Commits /\ rng.before \in C0
  BY <1>1, <1>2, <1>3, CommitNumbers
<1>5. TrueBefore(rng) \in C0
  BY <1>1, <1>4, CommitNumbers DEF TrueBefore
<1> QED
  BY <1>1, <1>4, <1>5 DEF Inv, Prepared, Verdicts, Cloned

\* An answer that is right about the commit is right about the lines.
LEMMA OriginFair ==
  ASSUME NEW lines, NEW c, NEW by, NEW ranges, NEW own, Under(lines, c, own),
         Origin(c, by, ranges), \A rng \in ranges : rng.after = own /\ TrueBefore(rng) \in C0
  PROVE  Fair(lines, by, ranges)
<1>1. PICK i \in DOMAIN lines : lines[i] \in History(c) /\ (c = own => lines[i] = c)
  BY DEF Under
<1>2. ASSUME NEW rng \in ranges, by = "earlier"
      PROVE  lines[i] \in History(TrueBefore(rng))
  <2>1. c \in History(TrueBefore(rng)) /\ TrueBefore(rng) \in C0
    BY <1>2 DEF Origin
  <2> QED
    BY <1>1, <2>1, HistoryTransitive
<1>3. ASSUME NEW rng \in ranges, by = "this_event", TrueBefore(rng) = Parent[rng.after]
      PROVE  lines[i] = rng.after
  BY <1>1, <1>3 DEF Origin
<1> QED
  BY <1>2, <1>3 DEF Fair

-----------------------------------------------------------------------------
(* The tools.                                                              *)

LEMMA PcUpdate ==
  ASSUME NEW c, Call(c), NEW v, NEW d, d = [c EXCEPT !.pc = v]
  PROVE  Call(d) /\ d.pc = v /\ d.lines = c.lines /\ d.commit = c.commit /\ d.by = c.by
<1> DEFINE R == [pc : {c.pc, v}, n : Nat, lines : {c.lines}, commit : {c.commit},
                 by : {c.by}, attached : {c.attached}, known : {c.known}]
<1>1. c \in R
  BY DEF Call
<1>2. \A e \in R : Call(e)
  BY DEF Call
<1>3. d \in R /\ d.pc = v /\ d.lines = c.lines /\ d.commit = c.commit /\ d.by = c.by
  BY <1>1
<1> QED
  BY <1>2, <1>3

\* Two updates of a call in one.
WithOrigin(c, v, w) == [c EXCEPT !.commit = v, !.by = w]

LEMMA OriginUpdate ==
  ASSUME NEW c, Call(c), NEW v, NEW w
  PROVE  /\ Call(WithOrigin(c, v, w))
         /\ WithOrigin(c, v, w).lines = c.lines /\ WithOrigin(c, v, w).by = w
<1> DEFINE R == [pc : {c.pc}, n : Nat, lines : {c.lines}, commit : {c.commit, v},
                 by : {c.by, w}, attached : {c.attached}, known : {c.known}]
<1>1. c \in R
  BY DEF Call
<1>2. \A e \in R : Call(e)
  BY DEF Call
<1>3. /\ WithOrigin(c, v, w) \in R
      /\ WithOrigin(c, v, w).lines = c.lines /\ WithOrigin(c, v, w).by = w
  BY <1>1 DEF WithOrigin
<1> QED
  BY <1>2, <1>3

WithCommit(c, v, w) == [c EXCEPT !.pc = v, !.commit = w]

LEMMA AskUpdate ==
  ASSUME NEW c, Call(c), NEW v, NEW w
  PROVE  /\ Call(WithCommit(c, v, w))
         /\ WithCommit(c, v, w).pc = v /\ WithCommit(c, v, w).lines = c.lines /\ WithCommit(c, v, w).commit = w
<1> DEFINE R == [pc : {c.pc, v}, n : Nat, lines : {c.lines}, commit : {c.commit, w},
                 by : {c.by}, attached : {c.attached}, known : {c.known}]
<1>1. c \in R
  BY DEF Call
<1>2. \A e \in R : Call(e)
  BY DEF Call
<1>3. /\ WithCommit(c, v, w) \in R
      /\ WithCommit(c, v, w).pc = v /\ WithCommit(c, v, w).lines = c.lines /\ WithCommit(c, v, w).commit = w
  BY <1>1 DEF WithCommit
<1> QED
  BY <1>2, <1>3

LEMMA NewCall ==
  ASSUME NEW n \in Nat, NEW lines
  PROVE  /\ Call([Idle EXCEPT !.n = n, !.lines = lines])
         /\ [Idle EXCEPT !.n = n, !.lines = lines].lines = lines
         /\ [Idle EXCEPT !.n = n, !.lines = lines].by = "none"
<1> DEFINE S == [pc : {"idle"}, n : Nat, lines : {<<>>, lines}, commit : {0}, by : {"none"},
                 attached : {{}}, known : {{}}]
<1>1. Idle \in S
  BY DEF Idle
<1>2. /\ [Idle EXCEPT !.n = n, !.lines = lines] \in S
      /\ [Idle EXCEPT !.n = n, !.lines = lines].lines = lines
      /\ [Idle EXCEPT !.n = n, !.lines = lines].by = "none"
  BY <1>1
<1>3. \A d \in S : Call(d)
  BY DEF Call
<1> QED
  BY <1>2, <1>3

\* A step of one agent that leaves the clone alone.
LEMMA VerdictsTool ==
  ASSUME Inv, Verdicts, NEW a \in Agents, NEW c, call' = [call EXCEPT ![a] = c], Call(c),
         UNCHANGED <<repo, turn>>, Asks(c), Cached', VerdictSound'
  PROVE  Verdicts'
<1>1. call'[a] = c /\ \A b \in Agents \ {a} : call'[b] = call[b]
  BY OneCall DEF Inv
<1>2. Cloned'
  BY DEF Verdicts, Cloned
<1>3. Scope' = Scope
  BY DEF Scope
<1>4. \A d : Asks(d)' <=> Asks(d)
  BY <1>3 DEF Asks
<1>5. ASSUME NEW b \in Agents
      PROVE  Asks(call[b])'
  <2>1. PICK d : d = call'[b]
    OBVIOUS
  <2>2. Asks(d)
    BY <1>1, <2>1 DEF Verdicts
  <2> QED
    BY <1>3, <2>1, <2>2 DEF Asks
<1> QED
  BY <1>2, <1>5 DEF Verdicts

\* A finding is recorded with an origin that is right for it.
LEMMA VerdictsRecord ==
  ASSUME Inv, Verdicts, NEW a \in Agents, NEW x, Call(x), Record(a, x),
         UNCHANGED <<repo, turn>>, Fair(x.lines, x.by, Scope), Cached', VerdictSound'
  PROVE  Verdicts'
<1>1. PICK c : c = [x EXCEPT !.pc = "storing"]
  OBVIOUS
<1>2. Call(c) /\ c.pc = "storing" /\ c.lines = x.lines /\ c.by = x.by
  BY <1>1, PcUpdate
<1>3. Asks(c)
  BY <1>2 DEF Asks, Asking
<1>4. call' = [call EXCEPT ![a] = c]
  BY <1>1 DEF Record
<1> QED
  BY <1>2, <1>3, <1>4, VerdictsTool

LEMMA SoundFindings ==
  VerdictSound <=> \A f \in findings : Fair(f.lines, f.by, f.range)
BY DEF VerdictSound, Fair

LEMMA VerdictsReports ==
  ASSUME Inv, Verdicts, NEW a \in Agents, NEW lines \in Regions, Readable(lines), Reports(a, lines)
  PROVE  Verdicts'
<1>1. PICK c : c = [Idle EXCEPT !.n = spent'.calls, !.lines = lines]
  OBVIOUS
<1>2. spent'.calls \in Nat
  BY DEF Reports, Inv, Shapes
<1>3. Call(c) /\ c.lines = lines /\ c.by = "none"
  BY <1>1, <1>2, NewCall
<1>4. turn.stage = "graph" /\ UNCHANGED <<repo, turn, blameOf, originOf, findings>>
  BY DEF Reports
<1>5. Cached'
  <2>1. Scope' = Scope
    BY <1>4 DEF Scope
  <2> QED
    BY <1>4, <2>1 DEF Verdicts, Cached
<1>6. VerdictSound'
  BY <1>4 DEF Verdicts, VerdictSound
<1>7. CASE lines = <<>> /\ Record(a, c)
  <2>1. Fair(c.lines, c.by, Scope)
    BY <1>3 DEF Fair
  <2> QED
    BY <1>3, <1>4, <1>5, <1>6, <1>7, <2>1, VerdictsRecord
<1>8. CASE /\ lines \in DOMAIN blameOf
           /\ Record(a, [c EXCEPT !.commit = blameOf[lines].commit, !.by = blameOf[lines].by])
  <2>1. PICK x : x = [c EXCEPT !.commit = blameOf[lines].commit, !.by = blameOf[lines].by]
    OBVIOUS
  <2>2. Call(x) /\ x.lines = lines /\ x.by = blameOf[lines].by
    <3>1. PICK v, w : v = blameOf[lines].commit /\ w = blameOf[lines].by
      OBVIOUS
    <3>2. x = WithOrigin(c, v, w)
      BY <2>1, <3>1 DEF WithOrigin
    <3> QED
      BY <1>3, <3>1, <3>2, OriginUpdate
  <2>3. Fair(x.lines, x.by, Scope)
    BY <1>4, <1>8, <2>2 DEF Verdicts, Cached
  <2> QED
    BY <1>4, <1>5, <1>6, <1>8, <2>1, <2>2, <2>3, VerdictsRecord
<1>9. CASE call' = [call EXCEPT ![a] = [c EXCEPT !.pc = "blaming"]]
  <2>1. PICK x : x = [c EXCEPT !.pc = "blaming"]
    OBVIOUS
  <2>2. Call(x) /\ x.lines = lines /\ x.pc = "blaming"
    BY <1>3, <2>1, PcUpdate
  <2>3. Asks(x)
    BY <2>2 DEF Asks, Asking, Readable
  <2> QED
    BY <1>4, <1>5, <1>6, <1>9, <2>1, <2>2, <2>3, VerdictsTool
<1> QED
  BY <1>1, <1>7, <1>8, <1>9 DEF Reports

\* The blame of the lines is settled and goes into the cache.
LEMMA VerdictsResolves ==
  ASSUME Inv, Verdicts, NEW a \in Agents, NEW commit, NEW by, Resolves(a, commit, by),
         turn.stage = "graph", UNCHANGED <<repo, turn, findings>>,
         Fair(call[a].lines, by, Scope),
         \A c \in DOMAIN originOf' : Origin(c, originOf'[c], Scope)
  PROVE  Verdicts'
<1>1. PICK x : x = [call[a] EXCEPT !.commit = commit, !.by = by]
  OBVIOUS
<1>2. Call(call[a])
  BY DEF Inv, Shapes
<1>3. Call(x) /\ x.lines = call[a].lines /\ x.by = by
  <2>1. x = WithOrigin(call[a], commit, by)
    BY <1>1 DEF WithOrigin
  <2> QED
    BY <1>2, <2>1, OriginUpdate
<1>4. Record(a, x)
  BY <1>1 DEF Resolves
<1>5. Scope' = Scope
  BY DEF Scope
<1>6. PICK own : own = call[a].lines
  OBVIOUS
<1>7. blameOf' = [l \in DOMAIN blameOf \cup {own} |->
                    IF l = own THEN [commit |-> commit, by |-> by] ELSE blameOf[l]]
  BY <1>6 DEF Resolves
<1>8. ASSUME NEW l \in DOMAIN blameOf'
      PROVE  Fair(l, blameOf'[l].by, Scope)
  <2>1. CASE l = own
    <3>1. blameOf'[l].by = by
      BY <1>7, <2>1
    <3> QED
      BY <1>6, <2>1, <3>1
  <2>2. CASE l # own
    <3>1. l \in DOMAIN blameOf /\ blameOf'[l] = blameOf[l]
      BY <1>7, <1>8, <2>2
    <3> QED
      BY <3>1 DEF Verdicts, Cached
  <2> QED
    BY <2>1, <2>2
<1>9. Cached'
  BY <1>5, <1>8 DEF Cached
<1>10. VerdictSound'
  BY DEF Verdicts, VerdictSound
<1> QED
  BY <1>3, <1>4, <1>9, <1>10, VerdictsRecord

\* The origin of the blamed commit is settled and goes into the cache.
LEMMA VerdictsTraced ==
  ASSUME Inv, Verdicts, NEW a \in Agents, NEW by, Traced(a, by),
         turn.stage = "graph", UNCHANGED <<repo, turn, findings>>,
         call[a].pc \in {"after", "before"}, Origin(call[a].commit, by, Scope)
  PROVE  Verdicts'
<1>1. PICK own : own = call[a].commit
  OBVIOUS
<1>2. /\ originOf' = [c \in DOMAIN originOf \cup {own} |-> IF c = own THEN by ELSE originOf[c]]
      /\ Resolves(a, own, by)
  BY <1>1 DEF Traced
<1>3. ASSUME NEW c \in DOMAIN originOf'
      PROVE  Origin(c, originOf'[c], Scope)
  <2>1. CASE c = own
    BY <1>1, <1>2, <2>1
  <2>2. CASE c # own
    <3>1. c \in DOMAIN originOf /\ originOf'[c] = originOf[c]
      BY <1>2, <1>3, <2>2
    <3> QED
      BY <3>1 DEF Verdicts, Cached
  <2> QED
    BY <2>1, <2>2
<1>4. Under(call[a].lines, own, turn.event.commit)
  BY <1>1 DEF Verdicts, Asks, Asking
<1>5. \A rng \in Scope : rng.after = turn.event.commit /\ TrueBefore(rng) \in C0
  BY Ranges
<1>6. Fair(call[a].lines, by, Scope)
  BY <1>1, <1>4, <1>5, OriginFair
<1> QED
  BY <1>2, <1>3, <1>6, VerdictsResolves

\* What blame says, for an Event that has a range.
LEMMA BlameShown ==
  ASSUME Inv, Verdicts, NEW a \in Agents, call[a].pc = "blaming", Scope # {},
         BlameCommit(call[a].lines) # 0
  PROVE  /\ BlameCommit(call[a].lines) \in Visible(turn.event.commit, repo.cut)
         /\ Under(call[a].lines, BlameCommit(call[a].lines), turn.event.commit)
<1>1. turn.stage = "graph"
  BY CallingGraph
<1>2. PICK rng \in Scope : TRUE
  OBVIOUS
<1>3. /\ repo.head = turn.event.commit /\ repo.head \in Commits /\ repo.head \notin repo.cut
  BY <1>1, <1>2, Ranges
<1>4. PICK lines : lines = call[a].lines
  OBVIOUS
<1>5. lines \in Regions /\ \A i \in DOMAIN lines : lines[i] \in History(repo.head) \cup {0}
  BY <1>4 DEF Verdicts, Asks, Asking
<1>6. lines \in Seq(C0)
  BY <1>5, ResultsAssumption, CommitNumbers
<1>7. PICK i \in DOMAIN lines : /\ lines[i] \in History(repo.head)
                                /\ BlameCommit(lines) = LineCommit(lines[i])
  BY <1>3, <1>4, <1>5, <1>6, BlameGives
<1>8. PICK o, c : o = lines[i] /\ c = LineCommit(o)
  OBVIOUS
<1>9. c \in Visible(repo.head, repo.cut) /\ o \in History(c) /\ (c = repo.head => o = c)
  BY <1>3, <1>7, <1>8, LineBlamed
<1>10. Under(lines, c, repo.head)
  BY <1>8, <1>9 DEF Under
<1> QED
  BY <1>3, <1>4, <1>7, <1>8, <1>9, <1>10

LEMMA VerdictsBlames ==
  ASSUME Inv, Verdicts, NEW a \in Agents, Blames(a)
  PROVE  Verdicts'
<1>1. /\ call[a].pc = "blaming" /\ UNCHANGED <<repo, turn, originOf, findings>>
  BY DEF Blames
<1>2. turn.stage = "graph" /\ Call(call[a])
  BY <1>1, CallingGraph DEF Inv, Shapes
<1>3. \A c \in DOMAIN originOf' : Origin(c, originOf'[c], Scope)
  BY <1>1, <1>2 DEF Verdicts, Cached
<1>4. PICK commit \in {0, BlameCommit(call[a].lines)} :
        IF commit = 0 \/ Scope = {} THEN Resolves(a, commit, "none")
        ELSE IF commit \in DOMAIN originOf THEN Resolves(a, commit, originOf[commit])
        ELSE /\ call' = [call EXCEPT ![a].pc = "after", ![a].commit = commit]
             /\ UNCHANGED <<recorded, blameOf>>
  BY DEF Blames
<1>5. CASE commit = 0 \/ Scope = {}
  <2>1. Fair(call[a].lines, "none", Scope)
    BY DEF Fair
  <2> QED
    BY <1>1, <1>2, <1>3, <1>4, <1>5, <2>1, VerdictsResolves
<1>6. CASE commit # 0 /\ Scope # {}
  <2>1. commit \in Visible(turn.event.commit, repo.cut)
        /\ Under(call[a].lines, commit, turn.event.commit)
    BY <1>1, <1>4, <1>6, BlameShown
  <2>2. CASE commit \in DOMAIN originOf
    <3>1. PICK by : by = originOf[commit]
      OBVIOUS
    <3>2. Origin(commit, by, Scope)
      BY <1>2, <2>2, <3>1 DEF Verdicts, Cached
    <3>3. \A rng \in Scope : rng.after = turn.event.commit /\ TrueBefore(rng) \in C0
      BY <1>2, Ranges
    <3>4. Fair(call[a].lines, by, Scope)
      BY <2>1, <3>2, <3>3, OriginFair
    <3>5. Resolves(a, commit, by)
      BY <1>4, <1>6, <2>2, <3>1
    <3> QED
      BY <1>1, <1>2, <1>3, <3>4, <3>5, VerdictsResolves
  <2>3. CASE commit \notin DOMAIN originOf
    <3>1. /\ call' = [call EXCEPT ![a].pc = "after", ![a].commit = commit]
          /\ UNCHANGED <<recorded, blameOf>>
      BY <1>4, <1>6, <2>3
    <3>2. PICK x : x = [call[a] EXCEPT !.pc = "after", !.commit = commit]
      OBVIOUS
    <3>3. call' = [call EXCEPT ![a] = x]
      BY <3>1, <3>2 DEF Inv, Shapes
    <3>4. Call(x) /\ x.pc = "after" /\ x.lines = call[a].lines /\ x.commit = commit
      <4>1. x = WithCommit(call[a], "after", commit)
        BY <3>2 DEF WithCommit
      <4> QED
        BY <1>2, <4>1, AskUpdate
    <3>5. Asks(x)
      <4>1. Asks(call[a])
        BY DEF Verdicts
      <4> QED
        BY <1>1, <2>1, <3>4, <4>1 DEF Asks, Asking
    <3>6. Scope' = Scope
      BY <1>1 DEF Scope
    <3>7. Cached' /\ VerdictSound'
      BY <1>1, <1>2, <3>1, <3>6 DEF Verdicts, Cached, VerdictSound
    <3> QED
      BY <1>1, <3>3, <3>4, <3>5, <3>7, VerdictsTool
  <2> QED
    BY <2>2, <2>3
<1> QED
  BY <1>5, <1>6

\* The blamed commit is in the range's history, so git asks about its start.
LEMMA VerdictsAfter ==
  ASSUME Inv, Verdicts, NEW a \in Agents, TracesAfter(a)
  PROVE  Verdicts'
<1>1. call[a].pc = "after" /\ UNCHANGED <<repo, turn, findings>>
  BY DEF TracesAfter
<1>2. turn.stage = "graph" /\ Call(call[a]) /\ Asks(call[a])
  BY <1>1, CallingGraph DEF Inv, Shapes, Verdicts
<1>3. PICK rng \in Scope :
        IF rng.after \notin repo.have THEN Traced(a, "none")
        ELSE IF call[a].commit \in Visible(rng.after, repo.cut)
        THEN /\ call' = [call EXCEPT ![a].pc = "before"]
             /\ UNCHANGED <<recorded, blameOf, originOf>>
        ELSE Traced(a, "earlier")
  BY DEF TracesAfter
<1>4. rng.after = turn.event.commit /\ rng.after \in repo.have
  BY <1>2, Ranges
<1>5. call[a].commit \in Visible(rng.after, repo.cut)
  BY <1>1, <1>2, <1>4 DEF Asks, Asking
<1>6. /\ call' = [call EXCEPT ![a].pc = "before"]
      /\ UNCHANGED <<recorded, blameOf, originOf>>
  BY <1>3, <1>4, <1>5
<1>7. PICK x : x = [call[a] EXCEPT !.pc = "before"]
  OBVIOUS
<1>8. Call(x) /\ x.pc = "before" /\ x.lines = call[a].lines /\ x.commit = call[a].commit
  BY <1>2, <1>7, PcUpdate
<1>9. call' = [call EXCEPT ![a] = x]
  BY <1>6, <1>7
<1>10. Asks(x)
  BY <1>1, <1>2, <1>8 DEF Asks, Asking
<1>11. Scope' = Scope
  BY <1>1 DEF Scope
<1>12. Cached' /\ VerdictSound'
  BY <1>1, <1>2, <1>6, <1>11 DEF Verdicts, Cached, VerdictSound
<1> QED
  BY <1>1, <1>8, <1>9, <1>10, <1>12, VerdictsTool

\* A ref that the clone knows names the start of the range.
LEMMA KnownBefore ==
  ASSUME Inv, Verdicts, turn.stage = "graph", NEW rng \in Scope, Before(rng) # 0
  PROVE  Before(rng) = TrueBefore(rng)
<1>1. repo.have \subseteq Commits /\ 0 \notin Commits
  BY CommitNumbers DEF Verdicts, Cloned
<1> QED
  BY <1>1 DEF Before, TrueBefore

LEMMA VerdictsBefore ==
  ASSUME Inv, Verdicts, NEW a \in Agents, TracesBefore(a)
  PROVE  Verdicts'
<1>1. call[a].pc = "before" /\ UNCHANGED <<repo, turn, findings>>
  BY DEF TracesBefore
<1>2. turn.stage = "graph" /\ Asks(call[a])
  BY <1>1, CallingGraph DEF Verdicts
<1>3. PICK rng \in Scope :
        Traced(a, IF Before(rng) = 0 THEN "none"
                  ELSE IF call[a].commit \in Visible(Before(rng), repo.cut)
                  THEN "earlier" ELSE "this_event")
  BY DEF TracesBefore
<1>4. PICK by : /\ by = IF Before(rng) = 0 THEN "none"
                        ELSE IF call[a].commit \in Visible(Before(rng), repo.cut)
                        THEN "earlier" ELSE "this_event"
                /\ Traced(a, by)
  BY <1>3
<1>5. PICK c : c = call[a].commit
  OBVIOUS
<1>6. /\ rng.after = turn.event.commit /\ rng.after \in Commits
      /\ rng.after \notin repo.cut /\ TrueBefore(rng) \in C0
  BY <1>2, Ranges
<1>7. c \in Visible(rng.after, repo.cut)
  BY <1>1, <1>2, <1>5, <1>6 DEF Asks, Asking
<1>8. \A r \in Scope : r = rng
  BY DEF Scope, ScopeRange
<1>9. ASSUME by = "earlier"
      PROVE  c \in History(TrueBefore(rng))
  <2>1. Before(rng) # 0 /\ c \in Visible(Before(rng), repo.cut)
    BY <1>4, <1>5, <1>9
  <2>2. Before(rng) = TrueBefore(rng)
    BY <1>2, <2>1, KnownBefore
  <2> QED
    BY <1>6, <2>1, <2>2, ShownIsHistory
<1>10. ASSUME by = "this_event", TrueBefore(rng) = Parent[rng.after]
       PROVE  c = rng.after
  <2>1. Before(rng) # 0 /\ c \notin Visible(Before(rng), repo.cut)
    BY <1>4, <1>5, <1>10
  <2>2. Before(rng) = Parent[rng.after]
    BY <1>2, <1>10, <2>1, KnownBefore
  <2>3. Visible(rng.after, repo.cut) = {rng.after} \cup Visible(Parent[rng.after], repo.cut)
    BY <1>6, Walks
  <2> QED
    BY <1>7, <2>1, <2>2, <2>3
<1>11. Origin(c, by, Scope)
  BY <1>8, <1>9, <1>10 DEF Origin
<1> QED
  BY <1>1, <1>2, <1>4, <1>5, <1>11, VerdictsTraced

\* Steps that end a call, or begin a report.
LEMMA VerdictsOther ==
  ASSUME Inv, Verdicts, NEW a \in Agents,
         BlameRaises(a) \/ Stores(a) \/ WritesReport(a) \/ Saves(a)
  PROVE  Verdicts'
<1>1. /\ UNCHANGED <<repo, turn, blameOf, originOf>>
  BY DEF BlameRaises, Stores, WritesReport, Saves
<1>2. Scope' = Scope
  BY <1>1 DEF Scope
<1>3. Cached'
  BY <1>1, <1>2 DEF Verdicts, Cached
<1>4. PICK c : call' = [call EXCEPT ![a] = c] /\ Call(c) /\ c.pc \in {"idle", "saving"}
  <2>1. CASE WritesReport(a)
    <3>1. PICK n, attached, known :
            /\ n = spent'.reports
            /\ call' = [call EXCEPT ![a] = [Idle EXCEPT !.pc = "saving", !.n = n,
                                                        !.attached = attached, !.known = known]]
      BY <2>1 DEF WritesReport
    <3> DEFINE c == [Idle EXCEPT !.pc = "saving", !.n = n, !.attached = attached, !.known = known]
               S == [pc : {"idle", "saving"}, n : Nat, lines : {<<>>}, commit : {0},
                     by : {"none"}, attached : {{}, attached}, known : {{}, known}]
    <3>2. n \in Nat
      BY <2>1, <3>1 DEF WritesReport, Inv, Shapes
    <3>3. Idle \in S
      BY DEF Idle
    <3>4. c \in S /\ c.pc = "saving"
      BY <3>2, <3>3
    <3>5. \A d \in S : Call(d)
      BY DEF Call
    <3>6. call' = [call EXCEPT ![a] = c]
      BY <3>1
    <3> HIDE DEF c
    <3> QED
      BY <3>4, <3>5, <3>6
  <2>2. CASE BlameRaises(a) \/ Stores(a) \/ Saves(a)
    BY <2>2, IdleCall DEF BlameRaises, Stores, Saves
  <2> QED
    BY <2>1, <2>2
<1>5. Asks(c)
  BY <1>4 DEF Asks, Asking
<1>6. VerdictSound'
  <2>1. CASE findings' = findings
    BY <2>1 DEF Verdicts, VerdictSound
  <2>2. CASE findings' # findings
    <3>1. Stores(a)
      BY <2>2 DEF BlameRaises, WritesReport, Saves
    <3>2. PICK f : f = Row(call[a])
      OBVIOUS
    <3>3. call[a].pc = "storing" /\ findings' = findings \cup {f}
      BY <2>2, <3>1, <3>2 DEF Stores
    <3>4. f.lines = call[a].lines /\ f.by = call[a].by /\ f.range = Scope
      BY <3>2 DEF Row
    <3>5. Fair(f.lines, f.by, f.range)
      BY <3>3, <3>4 DEF Verdicts, Asks, Asking
    <3>6. \A g \in findings : Fair(g.lines, g.by, g.range)
      BY SoundFindings DEF Verdicts
    <3>7. \A g \in findings' : Fair(g.lines, g.by, g.range)
      BY <3>3, <3>5, <3>6
    <3> QED
      BY <3>7 DEF VerdictSound, Fair
  <2> QED
    BY <2>1, <2>2
<1> QED
  BY <1>1, <1>3, <1>4, <1>5, <1>6, VerdictsTool

-----------------------------------------------------------------------------
(* The clone.                                                              *)

LEMMA CommitsOfEvent ==
  ASSUME Verdicts, turn.stage # "idle"
  PROVE  {turn.event.commit, turn.event.before, turn.event.base} \subseteq C0
BY ResultsAssumption, CommitNumbers DEF Verdicts, Cloned

\* git fetch --depth 2 leaves the parent of the commit behind it.
LEMMA FetchedCommit ==
  ASSUME Inv, Verdicts, NEW c \in Commits, NEW r, r = Fetched(c, 2)
  PROVE  /\ r.have \subseteq Commits /\ c \in r.have \ r.cut
         /\ \A d \in r.cut : Parent[d] # 0
         /\ r = [have |-> r.have, cut |-> r.cut, head |-> r.head]
<1>1. repo = [have |-> repo.have, cut |-> repo.cut, head |-> repo.head]
      /\ repo.have \subseteq Commits /\ \A d \in repo.cut : Parent[d] # 0
  BY DEF Inv, Shapes, Verdicts, Cloned
<1>2. PICK p : p = Parent[c]
  OBVIOUS
<1>3. p \in C0 /\ p < c /\ c \in Nat /\ p \in Nat
  BY <1>2, CommitNumbers
<1>4. CASE p # 0
  <2>1. r = [repo EXCEPT !.have = @ \cup {c, p},
                         !.cut = (@ \ {c}) \cup (IF Parent[p] = 0 THEN {} ELSE {p})]
    BY <1>2, <1>4 DEF Fetched
  <2>2. /\ r.have = repo.have \cup {c, p}
        /\ r.cut = (repo.cut \ {c}) \cup (IF Parent[p] = 0 THEN {} ELSE {p})
        /\ r = [have |-> r.have, cut |-> r.cut, head |-> r.head]
    BY <1>1, <2>1
  <2>3. p \in Commits /\ p # c
    BY <1>3, <1>4, CommitNumbers
  <2> QED
    BY <1>1, <2>2, <2>3
<1>5. CASE p = 0
  <2>1. r = [repo EXCEPT !.have = @ \cup {c}, !.cut = @ \cup {}]
    BY <1>2, <1>5 DEF Fetched
  <2>2. /\ r.have = repo.have \cup {c} /\ r.cut = repo.cut
        /\ r = [have |-> r.have, cut |-> r.cut, head |-> r.head]
    BY <1>1, <2>1
  <2> QED
    BY <1>1, <1>2, <1>5, <2>2
<1> QED
  BY <1>4, <1>5

\* git fetch --unshallow leaves nothing out.
LEMMA UnshallowedHistory ==
  ASSUME Inv, Verdicts, NEW tip \in Main, NEW r, r = Unshallowed(tip)
  PROVE  /\ r.have \subseteq Commits /\ repo.have \subseteq r.have /\ r.cut = {}
         /\ r.head = repo.head
<1>1. repo = [have |-> repo.have, cut |-> repo.cut, head |-> repo.head]
      /\ repo.have \subseteq Commits /\ tip \in Commits
  BY ResultsAssumption DEF Inv, Shapes, Verdicts, Cloned
<1>2. r.have = UNION {History(c) : c \in repo.have \cup {tip}} /\ r.cut = {} /\ r.head = repo.head
  BY <1>1 DEF Unshallowed
<1>3. \A c \in Commits : History(c) \subseteq Commits /\ c \in History(c)
  BY ShownIsHistory, CommitNumbers DEF History
<1> QED
  BY <1>1, <1>2, <1>3

LEMMA MergeBaseCommit ==
  ASSUME NEW x \in C0, NEW y \in C0, NEW cut
  PROVE  MergeBase(x, y, cut) \in C0
<1>1. PICK T : T = Visible(x, cut) \cap Visible(y, cut)
  OBVIOUS
<1>2. T \subseteq Commits /\ T \subseteq Nat /\ \A z \in T : z <= Cardinality(Commits)
  BY <1>1, ShownIsHistory, CommitNumbers
<1>3. MergeBase(x, y, cut) = IF T = {} THEN 0 ELSE Max(T)
  BY <1>1 DEF MergeBase
<1>4. CASE T = {}
  BY <1>3, <1>4, CommitNumbers
<1>5. CASE T # {}
  <2>1. PICK z \in T : \A w \in T : w <= z
    BY <1>2, <1>5, Greatest, CommitNumbers
  <2>2. \A w \in T : z >= w
    BY <1>2, <2>1
  <2>3. Max(T) \in T
    BY <2>1, <2>2 DEF Max
  <2> QED
    BY <1>2, <1>3, <1>5, <2>3, CommitNumbers
<1> QED
  BY <1>4, <1>5

\* A step of the preparation: no tool is running and the caches are empty.
LEMMA VerdictsPrepares ==
  ASSUME Inv, Verdicts, turn.stage \notin {"idle", "graph"}, UNCHANGED toolVars, Cloned'
  PROVE  Verdicts'
<1>1. /\ \A a \in Agents : call[a].pc = "idle"
      /\ blameOf = <<>> /\ originOf = <<>> /\ DOMAIN blameOf = {} /\ DOMAIN originOf = {}
  BY DEF Inv, Prepared, Verdicts, Cached
<1>2. \A a \in Agents : Asks(call[a])'
  BY <1>1 DEF Asks, Asking, toolVars
<1>3. Cached' /\ VerdictSound'
  BY <1>1 DEF Verdicts, Cached, VerdictSound, toolVars
<1> QED
  BY <1>2, <1>3 DEF Verdicts

LEMMA TurnUpdate ==
  ASSUME Inv, NEW stage, turn' = [turn EXCEPT !.stage = stage]
  PROVE  turn'.stage = stage /\ turn'.event = turn.event /\ turn'.mergeBase = turn.mergeBase
<1>1. turn = [stage |-> turn.stage, event |-> turn.event, mergeBase |-> turn.mergeBase]
  BY DEF Inv, Shapes
<1> QED
  BY <1>1

LEMMA VerdictsClones ==
  ASSUME Inv, Verdicts, NEW tip \in Main, Clones(tip)
  PROVE  Verdicts'
<1>1. /\ turn.stage = "clone" /\ UNCHANGED toolVars
      /\ repo'.have = {tip} /\ repo'.cut = IF Parent[tip] = 0 THEN {} ELSE {tip}
  BY DEF Clones
<1>2. PICK s : /\ s = IF turn.event.commit # 0 THEN "checkout" ELSE "scope"
               /\ turn' = [turn EXCEPT !.stage = s]
  BY DEF Clones
<1>3. turn'.stage = s /\ turn'.event = turn.event /\ turn'.mergeBase = turn.mergeBase
  BY <1>2, TurnUpdate
<1>4. Cloned'
  BY <1>1, <1>2, <1>3, ResultsAssumption DEF Verdicts, Cloned
<1> QED
  BY <1>1, <1>4, VerdictsPrepares

LEMMA VerdictsChecksOut ==
  ASSUME Inv, Verdicts, ChecksOut
  PROVE  Verdicts'
<1>1. turn.stage = "checkout" /\ UNCHANGED toolVars
      /\ turn' = [turn EXCEPT !.stage = "scope"]
  BY DEF ChecksOut
<1>2. turn'.stage = "scope" /\ turn'.event = turn.event /\ turn'.mergeBase = turn.mergeBase
  BY <1>1, TurnUpdate
<1>3. PICK c : c = turn.event.commit
  OBVIOUS
<1>4. c \in Commits
  <2>1. c \in C0 /\ c # 0
    BY <1>1, <1>3, CommitsOfEvent DEF Verdicts, Cloned
  <2> QED
    BY <2>1, CommitNumbers
<1>5. PICK r : r = Fetched(c, 2) /\ repo' = [r EXCEPT !.head = c]
  BY <1>3 DEF ChecksOut
<1>6. /\ r.have \subseteq Commits /\ c \in r.have \ r.cut
      /\ \A d \in r.cut : Parent[d] # 0
      /\ r = [have |-> r.have, cut |-> r.cut, head |-> r.head]
  BY <1>4, <1>5, FetchedCommit
<1>7. repo'.have = r.have /\ repo'.cut = r.cut
  BY <1>5, <1>6
<1>8. Cloned'
  BY <1>1, <1>2, <1>3, <1>6, <1>7 DEF Verdicts, Cloned
<1> QED
  BY <1>1, <1>8, VerdictsPrepares

LEMMA VerdictsEnsures ==
  ASSUME Inv, Verdicts, EnsureCommits
  PROVE  Verdicts'
<1>1. turn.stage = "scope" /\ UNCHANGED toolVars
  BY DEF EnsureCommits
<1>2. PICK s : s \in {"merge", "graph"} /\ turn' = [turn EXCEPT !.stage = s]
  BY DEF EnsureCommits
<1>3. turn'.stage = s /\ turn'.event = turn.event /\ turn'.mergeBase = turn.mergeBase
  BY <1>2, TurnUpdate
<1>4. PICK got : /\ got \subseteq {turn.event.before, turn.event.base, turn.event.commit}
                                    \ (repo.have \cup {0})
                 /\ repo' = [repo EXCEPT !.have = @ \cup got,
                                         !.cut = @ \cup {c \in got : Parent[c] # 0}]
  BY DEF EnsureCommits
<1>5. repo'.have = repo.have \cup got /\ repo'.cut = repo.cut \cup {c \in got : Parent[c] # 0}
  <2>1. repo = [have |-> repo.have, cut |-> repo.cut, head |-> repo.head]
    BY DEF Inv, Shapes
  <2> QED
    BY <1>4, <2>1
<1>6. got \subseteq Commits
  <2>1. {turn.event.commit, turn.event.before, turn.event.base} \subseteq C0
    BY <1>1, CommitsOfEvent
  <2> QED
    BY <1>4, <2>1, CommitNumbers
<1>7. turn.event.commit # 0 => turn.event.commit \in repo'.have \ repo'.cut
  BY <1>1, <1>4, <1>5 DEF Verdicts, Cloned
<1>8. Cloned'
  BY <1>1, <1>2, <1>3, <1>5, <1>6, <1>7 DEF Verdicts, Cloned
<1> QED
  BY <1>1, <1>8, VerdictsPrepares

LEMMA VerdictsFinds ==
  ASSUME Inv, Verdicts, FindsMergeBase
  PROVE  Verdicts'
<1>1. turn.stage = "merge" /\ UNCHANGED toolVars
  BY DEF FindsMergeBase
<1>2. PICK base, head : base = turn.event.base /\ head = turn.event.commit
  OBVIOUS
<1>3. base \in C0 /\ head \in C0 /\ 0 \in C0
  BY <1>1, <1>2, CommitsOfEvent, CommitNumbers
<1>4. PICK b : /\ turn' = [turn EXCEPT !.stage = "graph", !.mergeBase = b]
               /\ b = 0 \/ b = MergeBase(base, head, repo.cut) \/ b = MergeBase(base, head, {})
  BY <1>2 DEF FindsMergeBase
<1>5. b \in C0
  BY <1>3, <1>4, MergeBaseCommit
<1>6. turn'.stage = "graph" /\ turn'.event = turn.event /\ turn'.mergeBase = b
  <2>1. turn = [stage |-> turn.stage, event |-> turn.event, mergeBase |-> turn.mergeBase]
    BY DEF Inv, Shapes
  <2> QED
    BY <1>4, <2>1
<1>7. repo' = repo \/ \E tip \in Main : repo' = Unshallowed(tip)
  BY DEF FindsMergeBase
<1>8. repo'.have \subseteq Commits /\ repo.have \subseteq repo'.have /\ repo'.cut \subseteq repo.cut
  <2>1. CASE repo' = repo
    BY <2>1 DEF Verdicts, Cloned
  <2>2. CASE \E tip \in Main : repo' = Unshallowed(tip)
    <3>1. PICK tip, r : tip \in Main /\ r = Unshallowed(tip) /\ repo' = r
      BY <2>2
    <3> QED
      BY <3>1, UnshallowedHistory
  <2> QED
    BY <1>7, <2>1, <2>2
<1>9. Cloned'
  BY <1>1, <1>5, <1>6, <1>8 DEF Verdicts, Cloned
<1> QED
  BY <1>1, <1>9, VerdictsPrepares

\* Deepening in mid-turn shows more of the history, and no other.
LEMMA VerdictsDeepens ==
  ASSUME Inv, Verdicts, NEW tip \in Main, AgentDeepens(tip)
  PROVE  Verdicts'
<1>1. turn.stage = "graph" /\ UNCHANGED <<turn, toolVars>> /\ repo' = Unshallowed(tip)
  BY DEF AgentDeepens
<1>2. PICK r : r = Unshallowed(tip) /\ repo' = r
  BY <1>1
<1>3. /\ repo'.have \subseteq Commits /\ repo.have \subseteq repo'.have /\ repo'.cut = {}
      /\ repo'.head = repo.head
  BY <1>2, UnshallowedHistory
<1>4. Cloned'
  BY <1>1, <1>3 DEF Verdicts, Cloned
<1>5. Scope' = Scope
  BY <1>1 DEF Scope
<1>6. Cached' /\ VerdictSound'
  BY <1>1, <1>5 DEF Verdicts, Cached, VerdictSound, toolVars
<1>7. turn.event.commit \in C0
  BY <1>1, CommitsOfEvent
<1>8. Visible(turn.event.commit, repo.cut) \subseteq Visible(turn.event.commit, repo'.cut)
  BY <1>3, <1>7, ShownIsHistory DEF History
<1>9. ASSUME NEW a \in Agents
      PROVE  Asks(call[a])'
  <2>1. PICK c : c = call[a]
    OBVIOUS
  <2>2. call'[a] = c /\ Asks(c)
    BY <1>1, <2>1 DEF Verdicts, toolVars
  <2>3. PICK ranges, own, seen, more, tree :
          /\ ranges = Scope /\ own = turn.event.commit /\ tree = History(repo.head)
          /\ seen = Visible(turn.event.commit, repo.cut)
          /\ more = Visible(turn.event.commit, repo'.cut)
    OBVIOUS
  <2>4. Asking(c, ranges, own, seen, tree) /\ seen \subseteq more
    BY <1>8, <2>2, <2>3 DEF Asks
  <2>5. Asking(c, ranges, own, more, tree)
    BY <2>4 DEF Asking
  <2> QED
    BY <1>1, <1>3, <1>5, <2>2, <2>3, <2>5 DEF Asks
<1> QED
  BY <1>4, <1>6, <1>9 DEF Verdicts

\* A turn begins with empty caches.
LEMMA VerdictsBegins ==
  ASSUME Inv, Verdicts, NEW e \in Events, Begins(e)
  PROVE  Verdicts'
<1>1. /\ turn.stage = "idle" /\ blameOf' = <<>> /\ originOf' = <<>>
      /\ UNCHANGED <<repo, call, findings>>
  BY DEF Begins
<1>2. PICK s : /\ turn' = [stage |-> s, event |-> e, mergeBase |-> 0]
               /\ s = IF e.action = "chat" THEN "graph"
                      ELSE IF repo.head = 0 THEN "clone"
                      ELSE IF e.commit # 0 THEN "checkout" ELSE "scope"
  BY DEF Begins
<1>3. turn'.stage = s /\ turn'.event = e /\ turn'.mergeBase = 0 /\ 0 \in C0
  BY <1>2, CommitNumbers
<1>4. (s \in {"scope", "merge", "graph"} => e.commit = 0) /\ (s = "checkout" => e.commit # 0)
  <2>1. e.action = "chat" => e.commit = 0
    BY ResultsAssumption
  <2> QED
    BY <1>2, <2>1
<1>5. Cloned'
  BY <1>1, <1>3, <1>4 DEF Verdicts, Cloned
<1>6. DOMAIN blameOf' = {} /\ DOMAIN originOf' = {}
  BY <1>1
<1>7. Cached' /\ VerdictSound'
  BY <1>1, <1>6 DEF Verdicts, Cached, VerdictSound
<1>8. \A a \in Agents : call'[a].pc = "idle"
  BY <1>1 DEF Inv, Prepared
<1>9. \A a \in Agents : Asks(call[a])'
  BY <1>8 DEF Asks, Asking
<1> QED
  BY <1>5, <1>7, <1>9 DEF Verdicts

LEMMA VerdictsFinishes ==
  ASSUME Inv, Verdicts, Finishes
  PROVE  Verdicts'
<1>1. /\ \A a \in Agents : call'[a].pc = "idle"
      /\ turn'.stage = "idle" /\ UNCHANGED <<repo, toolVars>>
  BY DEF Finishes, NoTurn, toolVars
<1>2. Cloned' /\ Cached' /\ VerdictSound'
  BY <1>1 DEF Verdicts, Cloned, Cached, VerdictSound, toolVars
<1>3. \A a \in Agents : Asks(call[a])'
  BY <1>1 DEF Asks, Asking
<1> QED
  BY <1>2, <1>3 DEF Verdicts

\* The rows of the inserts that were under way may still be committed.
LEMMA VerdictsCutOff ==
  ASSUME Inv, Verdicts, CutOff
  PROVE  Verdicts'
<1>1. turn.stage # "idle" /\ turn' = NoTurn /\ call' = [a \in Agents |-> Idle]
  BY DEF CutOff
<1>2. turn'.stage = "idle" /\ \A a \in Agents : call'[a].pc = "idle"
  BY <1>1 DEF NoTurn, Idle
<1>3. PICK done \in SUBSET {a \in Agents : call[a].pc = "storing"} :
        findings' = findings \cup {Row(call[a]) : a \in done}
  BY DEF CutOff
<1>4. repo'.have \subseteq Commits /\ \A c \in repo'.cut : Parent[c] # 0
  <2>1. CASE turn.stage = "checkout"
    <3>1. PICK c, r : c = turn.event.commit /\ r = Fetched(c, 2)
      OBVIOUS
    <3>2. c \in Commits
      <4>1. c \in C0 /\ c # 0
        BY <1>1, <2>1, <3>1, CommitsOfEvent DEF Verdicts, Cloned
      <4> QED
        BY <4>1, CommitNumbers
    <3>3. r.have \subseteq Commits /\ \A d \in r.cut : Parent[d] # 0
      BY <3>1, <3>2, FetchedCommit
    <3>4. repo' = repo \/ repo' = r
      BY <2>1, <3>1 DEF CutOff
    <3> QED
      BY <3>3, <3>4 DEF Verdicts, Cloned
  <2>2. CASE turn.stage # "checkout"
    <3>1. repo' = repo \/ repo' = [have |-> {}, cut |-> {}, head |-> 0]
      BY <2>2 DEF CutOff
    <3> QED
      BY <3>1 DEF Verdicts, Cloned
  <2> QED
    BY <2>1, <2>2
<1>5. Cloned' /\ Cached'
  BY <1>2, <1>4 DEF Cloned, Cached
<1>6. \A a \in Agents : Asks(call[a])'
  BY <1>2 DEF Asks, Asking
<1>7. ASSUME NEW a \in done, NEW f, f = Row(call[a])
      PROVE  Fair(f.lines, f.by, f.range)
  <2>1. f.lines = call[a].lines /\ f.by = call[a].by /\ f.range = Scope
    BY <1>7 DEF Row
  <2>2. a \in Agents /\ call[a].pc = "storing"
    OBVIOUS
  <2> QED
    BY <2>1, <2>2 DEF Verdicts, Asks, Asking
<1>8. \A f \in findings : Fair(f.lines, f.by, f.range)
  BY SoundFindings DEF Verdicts
<1>9. \A f \in findings' : Fair(f.lines, f.by, f.range)
  BY <1>3, <1>7, <1>8
<1>10. VerdictSound'
  BY <1>9 DEF VerdictSound, Fair
<1> QED
  BY <1>5, <1>6, <1>10 DEF Verdicts

LEMMA VerdictsInit == Init => Verdicts
<1> SUFFICES ASSUME Init PROVE Verdicts
  OBVIOUS
<1>1. turn.stage = "idle" /\ \A a \in Agents : call[a].pc = "idle"
  BY DEF Init, NoTurn, Idle
<1>2. Cloned /\ Cached /\ VerdictSound
  BY <1>1 DEF Init, Cloned, Cached, VerdictSound
<1> QED
  BY <1>1, <1>2 DEF Verdicts, Asks, Asking

LEMMA VerdictsStep == Inv /\ Verdicts /\ [Next]_vars => Verdicts'
<1> SUFFICES ASSUME Inv, Verdicts, [Next]_vars PROVE Verdicts'
  OBVIOUS
<1>1. CASE UNCHANGED vars
  <2>1. Scope' = Scope
    BY <1>1 DEF Scope, vars
  <2>2. \A a \in Agents : Asks(call[a])'
    BY <1>1, <2>1 DEF Verdicts, Asks, vars, toolVars
  <2> QED
    BY <1>1, <2>1, <2>2 DEF Verdicts, Cloned, Cached, VerdictSound, vars, toolVars
<1>2. CASE Next
  BY <1>2, VerdictsBegins, VerdictsClones, VerdictsDeepens, VerdictsChecksOut, VerdictsEnsures,
     VerdictsFinds, VerdictsReports, VerdictsBlames, VerdictsAfter, VerdictsBefore,
     VerdictsOther, VerdictsFinishes, VerdictsCutOff DEF Next
<1> QED
  BY <1>1, <1>2

\* resolve and _introduced_by mark a finding "earlier" only when one of its
\* lines is older than the Event's range and, for a range of one commit,
\* "this_event" only when one is that commit's, however shallow the clone, with
\* cached answers and fetches in mid-turn.
THEOREM VerdictSoundThm == Spec => []VerdictSound
<1>1. Init => Inv /\ Verdicts
  BY InvInit, VerdictsInit
<1>2. Inv /\ Verdicts /\ [Next]_vars => (Inv /\ Verdicts)'
  BY InvStep, VerdictsStep
<1>3. Verdicts => VerdictSound
  BY DEF Verdicts
<1> QED
  BY <1>1, <1>2, <1>3, PTL DEF Spec

=============================================================================
