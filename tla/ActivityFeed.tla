----------------------------- MODULE ActivityFeed -----------------------------
(***************************************************************************)
(* The activity of one agent instance: a turn (of an Event or of a chat)   *)
(* folds the chunks of its graph into frames (ActivityCollector), numbers, *)
(* persists and then publishes each frame (ActivityTurn.emit), and readers *)
(* replay what was published and follow the rest live, or read a finished  *)
(* turn back from hub.activity (service.activity).                         *)
(*                                                                         *)
(* The turns of an instance are serialized by its lock (TurnsSerialized of *)
(* RunnerService).  Frames keep their kind, task and status; what a work   *)
(* log frame says is left out.                                             *)
(***************************************************************************)
EXTENDS Integers, Sequences, FiniteSets, SequencesExt

CONSTANTS
  Events,     \* ids of the Events whose turns run here
  Tasks,      \* delegations of one turn
  Readers,    \* connections of GET /instances/{id}/activity
  MaxWork,    \* bound on the stream chunks of all turns, a turn itself counting for two
  MaxFaults,  \* bound on failing inserts into hub.activity
  None        \* a chat's event id; a reader's "live or latest"

ASSUME FeedAssumption ==
  /\ MaxWork \in Nat /\ MaxFaults \in Nat
  /\ None \notin Events \cup Tasks

VARIABLES
  turns,     \* ActivityTurn objects in the order they began
  journal,   \* rows of hub.activity in id order
  phase,     \* of the last turn: idle, opening, streaming, closing
  pending,   \* frames the turn still has to emit before it goes on
  sending,   \* the first of them is past its persist and not yet published
  tasks,     \* ActivityCollector._tasks
  reply,     \* ActivityCollector.reply is not empty
  chunks,    \* stream chunks taken in so far
  faults,    \* inserts that failed
  reader     \* the readers' streams

turnVars == <<turns, journal, phase, pending, sending, tasks, reply, chunks, faults>>
vars == <<turnVars, reader>>

End == [kind |-> "end", task |-> None, status |-> None]
Frame(kind, task, status) == [kind |-> kind, task |-> task, status |-> status]
Work(task) == Frame("work", task, None)

(* A reader's queue holds the copied buffer and, behind it, what was put   *)
(* since: stream() yields the copy before it looks into its queue.         *)
Closed == [pc |-> "off", want |-> None, turn |-> 0, queue |-> <<>>, got |-> <<>>]

Current == Len(turns)
WithinBound(ts, n) == 2 * Len(ts) + n <= MaxWork
Live == IF Current > 0 /\ ~turns[Current].done THEN Current ELSE 0
-----------------------------------------------------------------------------
(* ActivityCollector.frames: what a chunk becomes.                         *)
TaskStarted(t) == <<Frame("task_started", t, "queued")>>

\* mutant: "working" is announced with every progress event
TaskRunningAnnounced(t) == <<Frame("task_started", t, "working"), Work(t)>>

TaskRunning(t) ==
  (IF tasks[t] = "queued" THEN <<Frame("task_started", t, "working")>> ELSE <<>>)
    \o <<Work(t)>>

TaskEnded(t, status) ==
  <<Frame(IF status = "done" THEN "task_finished" ELSE "task_failed", t, status)>>

LeadUpdate == <<Work(None), Frame("node", None, "done")>>

(* The tool message of the task tool is the subagent's own report.         *)
TaskReport(t) == Frame("task_report", t, None)
-----------------------------------------------------------------------------
Init ==
  /\ turns = <<>> /\ journal = <<>> /\ phase = "idle"
  /\ pending = <<>> /\ sending = FALSE
  /\ tasks = [t \in Tasks |-> "none"] /\ reply = FALSE
  /\ chunks = 0 /\ faults = 0
  /\ reader = [r \in Readers |-> Closed]

(* _begin_turn and the frames before the try block.  The new turn takes    *)
(* the instance's place in the feed whatever became of the one before.     *)
Begin(event) ==
  /\ phase = "idle"
  /\ turns' = Append(turns, [event |-> event, done |-> FALSE, seq |-> 0, frames |-> <<>>])
  /\ WithinBound(turns', chunks)
  /\ phase' = "opening"
  /\ pending' = <<Frame("run_started", None, None)>>
                  \o (IF event = None THEN <<Frame("chat_user", None, None)>> ELSE <<>>)
  /\ tasks' = [t \in Tasks |-> "none"] /\ reply' = FALSE
  /\ UNCHANGED <<journal, chunks, sending, faults, reader>>

\* mutant: the work log is not written to the journal
PersistMilestones ==
  /\ pending # <<>> /\ ~sending
  /\ sending' = TRUE
  /\ turns' = [turns EXCEPT ![Current].seq = @ + 1]
  /\ journal' = IF Head(pending).kind = "work" THEN journal
                ELSE Append(journal, [id |-> Len(journal) + 1, turn |-> Current,
                                      event |-> turns[Current].event,
                                      seq |-> turns'[Current].seq, frame |-> Head(pending)])
  /\ UNCHANGED <<phase, pending, tasks, reply, chunks, faults, reader>>

(* emit, first half: the number is taken and the row inserted; a failed    *)
(* insert is logged.                                                       *)
Persist ==
  /\ pending # <<>> /\ ~sending
  /\ sending' = TRUE
  /\ turns' = [turns EXCEPT ![Current].seq = @ + 1]
  /\ \/ /\ journal' = Append(journal, [id |-> Len(journal) + 1, turn |-> Current,
                                       event |-> turns[Current].event,
                                       seq |-> turns'[Current].seq, frame |-> Head(pending)])
        /\ UNCHANGED faults
     \/ /\ faults < MaxFaults /\ faults' = faults + 1
        /\ UNCHANGED journal
  /\ UNCHANGED <<phase, pending, tasks, reply, chunks, reader>>

(* emit, second half: into the buffer and every subscriber's queue.        *)
Deliver(f, k) ==
  reader' = [r \in Readers |->
               IF reader[r].pc = "live" /\ reader[r].turn = k
               THEN [reader[r] EXCEPT !.queue = Append(@, f)] ELSE reader[r]]

Publish ==
  /\ sending
  /\ sending' = FALSE
  /\ turns' = [turns EXCEPT ![Current].frames = Append(@, Head(pending))]
  /\ Deliver(Head(pending), Current)
  /\ pending' = Tail(pending)
  /\ phase' = IF phase = "opening" /\ Tail(pending) = <<>> THEN "streaming" ELSE phase
  /\ UNCHANGED <<journal, tasks, reply, chunks, faults>>

(* A chunk of the graph's stream.  A delegation sends task_started, then   *)
(* task_running, then one terminal event (OneTerminal of Delegation).      *)
TakesChunk(fs) ==
  /\ phase = "streaming" /\ pending = <<>>
  /\ chunks' = chunks + 1 /\ WithinBound(turns, chunks')
  /\ pending' = fs
  /\ UNCHANGED <<turns, journal, phase, sending, faults, reader>>

TaskChunk(t) ==
  \/ /\ tasks[t] = "none"
     /\ TakesChunk(TaskStarted(t))
     /\ tasks' = [tasks EXCEPT ![t] = "queued"]
     /\ UNCHANGED reply
  \/ /\ tasks[t] \in {"queued", "working"}
     /\ TakesChunk(TaskRunning(t))
     /\ tasks' = [tasks EXCEPT ![t] = "working"]
     /\ UNCHANGED reply
  \/ /\ tasks[t] \in {"queued", "working"}
     /\ \E status \in {"done", "failed", "timeout"} :
          /\ TakesChunk(TaskEnded(t, status))
          /\ tasks' = [tasks EXCEPT ![t] = status]
     /\ UNCHANGED reply

(* An update of the lead's nodes: a reply, with text or without, or the    *)
(* results of tools.                                                       *)
LeadChunk ==
  /\ TakesChunk(LeadUpdate)
  /\ reply' \in {reply, TRUE}
  /\ UNCHANGED tasks

(* The task call has returned: after its terminal event, and once.         *)
ReportChunk(t) ==
  /\ tasks[t] \in {"done", "failed", "timeout"}
  /\ \A n \in DOMAIN turns[Current].frames : turns[Current].frames[n] # TaskReport(t)
  /\ TakesChunk(<<TaskReport(t), Frame("node", None, "done")>>)
  /\ UNCHANGED <<tasks, reply>>

IsChat == Current > 0 /\ turns[Current].event = None

(* The turn's work is over, well or badly, and its last frames follow.     *)
Concludes(fs) ==
  /\ phase = "streaming"
  /\ phase' = "closing"
  /\ pending' = fs /\ sending' = FALSE
  /\ UNCHANGED <<turns, journal, tasks, reply, chunks, faults, reader>>

Finishes ==
  /\ pending = <<>>
  /\ Concludes((IF IsChat /\ reply THEN <<Frame("chat_agent", None, None)>> ELSE <<>>)
                 \o <<Frame("run_finished", None, None)>>)

Fails ==
  /\ pending = <<>>
  /\ Concludes(<<Frame("run_failed", None, None)>>)

\* mutant: the handler speaks although the turn may have concluded
StoppedLate ==
  /\ ~IsChat /\ phase \in {"streaming", "closing"}
  /\ phase' = "closing"
  /\ pending' = <<Frame("run_failed", None, None)>> /\ sending' = FALSE
  /\ UNCHANGED <<turns, journal, tasks, reply, chunks, faults, reader>>

(* stop_instance cancels the Event's execution task wherever it is, in the *)
(* middle of an emit too; the handler then says so.                        *)
Stopped ==
  /\ ~IsChat
  /\ Concludes(<<Frame("run_failed", None, None)>>)

\* mutant: the turn is marked done without the end mark
CloseTurnSilently ==
  /\ phase' = "idle"
  /\ turns' = [turns EXCEPT ![Current].done = TRUE]
  /\ pending' = <<>> /\ sending' = FALSE
  /\ UNCHANGED <<journal, tasks, reply, chunks, faults, reader>>

(* turn.close() in the finally block.                                      *)
CloseTurn ==
  /\ phase' = "idle"
  /\ turns' = [turns EXCEPT ![Current].done = TRUE]
  /\ Deliver(End, Current)
  /\ pending' = <<>> /\ sending' = FALSE
  /\ UNCHANGED <<journal, tasks, reply, chunks, faults>>

Closes ==
  /\ phase = "closing" /\ pending = <<>>
  /\ CloseTurn

(* The chat's client goes away: the finally block closes the turn...       *)
ChatGone ==
  /\ IsChat /\ phase \in {"streaming", "closing"}
  /\ CloseTurn

(* ...but run_started and chat_user are emitted before the try.            *)
ChatGoneEarly ==
  /\ IsChat /\ phase = "opening"
  /\ phase' = "idle" /\ pending' = <<>> /\ sending' = FALSE
  /\ UNCHANGED <<turns, journal, tasks, reply, chunks, faults, reader>>
-----------------------------------------------------------------------------
\* mutant: the subscriber starts with an empty queue
OpensUnreplayed(r, want) ==
  /\ reader[r].pc = "off"
  /\ reader' = [reader EXCEPT ![r] =
       IF Live > 0 /\ want \in {None, turns[Live].event}
       THEN [Closed EXCEPT !.pc = "live", !.turn = Live]
       ELSE [Closed EXCEPT !.pc = "asks", !.want = want]]
  /\ UNCHANGED turnVars

(* service.activity: the live turn if it is the one asked for, subscribed  *)
(* to and copied at once; else the journal, which is read later.           *)
Opens(r, want) ==
  /\ reader[r].pc = "off"
  /\ reader' = [reader EXCEPT ![r] =
       IF Live > 0 /\ want \in {None, turns[Live].event}
       THEN [Closed EXCEPT !.pc = "live", !.turn = Live, !.queue = turns[Live].frames]
       ELSE [Closed EXCEPT !.pc = "asks", !.want = want]]
  /\ UNCHANGED turnVars

(* list_activity: rows of the Event asked for, or of the Event (or of the  *)
(* chats, whose id is NULL) the latest row belongs to, by seq, then id.    *)
Listed(want) ==
  LET event == IF want # None \/ journal = <<>> THEN want ELSE Last(journal).event
  IN  SortSeq(SelectSeq(journal, LAMBDA row : row.event = event),
              LAMBDA x, y : x.seq < y.seq \/ (x.seq = y.seq /\ x.id < y.id))

ReadsJournal(r) ==
  /\ reader[r].pc = "asks"
  /\ reader' = [reader EXCEPT ![r].pc = "rows", ![r].queue = Listed(reader[r].want)]
  /\ UNCHANGED turnVars

(* The rows are sent and the stream ends.                                  *)
RowsEnd(r) ==
  /\ reader[r].pc = "rows"
  /\ reader' = [reader EXCEPT ![r] = [Closed EXCEPT !.pc = "over"]]
  /\ UNCHANGED turnVars

(* stream(): the next frame, or the end mark, which closes the stream.     *)
Takes(r) ==
  LET next == Head(reader[r].queue)
  IN  /\ reader[r].pc = "live" /\ reader[r].queue # <<>>
      /\ \/ /\ next # End
            /\ reader' = [reader EXCEPT ![r].got = Append(@, next), ![r].queue = Tail(@)]
         \/ /\ next = End
            /\ reader' = [reader EXCEPT ![r] = [Closed EXCEPT !.pc = "over"]]
      /\ UNCHANGED turnVars

(* The reader disconnects and its queue leaves the subscribers.            *)
Leaves(r) ==
  /\ reader[r].pc \in {"asks", "rows", "live"}
  /\ reader' = [reader EXCEPT ![r] = [Closed EXCEPT !.pc = "over"]]
  /\ UNCHANGED turnVars

Next ==
  \/ \E event \in Events \cup {None} : Begin(event)
  \/ Persist \/ Publish \/ LeadChunk \/ Finishes \/ Fails \/ Stopped
  \/ Closes \/ ChatGone \/ ChatGoneEarly
  \/ \E t \in Tasks : TaskChunk(t) \/ ReportChunk(t)
  \/ \E r \in Readers :
       \/ \E want \in Events \cup {None} : Opens(r, want)
       \/ ReadsJournal(r) \/ Takes(r) \/ RowsEnd(r) \/ Leaves(r)

Spec == Init /\ [][Next]_vars

(* Coroutines that are ready run, a turn's work ends (its model calls and  *)
(* steps are limited), and a connected reader keeps reading.               *)
FairSpec ==
  /\ Spec
  /\ WF_vars(Persist) /\ WF_vars(Publish)
  /\ WF_vars(Finishes) /\ WF_vars(Closes)
  /\ \A r \in Readers : WF_vars(ReadsJournal(r)) /\ WF_vars(Takes(r)) /\ WF_vars(RowsEnd(r))
-----------------------------------------------------------------------------
(* What a queue holds before the end mark, which is the last put there.    *)
Frames(q) == IF q # <<>> /\ Last(q) = End THEN Front(q) ELSE q

(* A live reader misses nothing and sees nothing twice: what it has got    *)
(* and what waits for it are together the turn's frames in order, whenever *)
(* it subscribed (activity.py:280-298).                                    *)
LiveExact ==
  \A r \in Readers : reader[r].pc = "live" =>
    reader[r].got \o Frames(reader[r].queue) = turns[reader[r].turn].frames

(* Frame f is in journal j as number n of turn k.                          *)
Logged(j, k, n, f) ==
  \E i \in DOMAIN j : j[i].turn = k /\ j[i].seq = n /\ j[i].frame = f

(* The numbers of turn k that are not on their way any more.               *)
Numbered(k) == IF k = Current /\ sending THEN turns[k].seq - 1 ELSE turns[k].seq

(* A frame somebody saw live is in the journal for whoever comes later:    *)
(* the rows of a turn are in the order of their numbers, and while no      *)
(* insert fails the turn's buffer is what was numbered, but for a frame on *)
(* its way and the one frame a stop may cut off before it is published     *)
(* (activity.py:269-271).                                                  *)
LiveInJournal ==
  /\ \A i, j \in DOMAIN journal :
       i < j /\ journal[i].turn = journal[j].turn => journal[i].seq < journal[j].seq
  /\ faults = 0 => \A k \in DOMAIN turns :
       LET fs == turns[k].frames
           m  == Numbered(k)
       IN  \E cut \in 1 .. m + 1 :
             /\ Len(fs) = IF cut > m THEN m ELSE m - 1
             /\ \A n \in DOMAIN fs : Logged(journal, k, IF n < cut THEN n ELSE n + 1, fs[n])

Conclusion == {"run_finished", "run_failed"}

(* A turn says how it ended once, as its last frame; a chat whose client   *)
(* left may say nothing (service.py:249-277, 323-340).                     *)
ConcludedOnce ==
  \A k \in DOMAIN turns :
    LET fs == turns[k].frames
        ends == {n \in DOMAIN fs : fs[n].kind \in Conclusion}
    IN  /\ ends \subseteq {Len(fs)}
        /\ (turns[k].done /\ turns[k].event # None) => ends # {}

(* How far a frame of a delegation takes its story.                        *)
Stage(f) ==
  IF f = TaskReport(f.task) THEN 4
  ELSE IF f.status = "queued" THEN 1 ELSE IF f.status = "working" THEN 2 ELSE 3

Told(fs, t, stage) ==
  {n \in DOMAIN fs : fs[n].task = t /\ fs[n].kind # "work" /\ Stage(fs[n]) = stage}

(* The frames of a delegation tell its story in order: queued, working,    *)
(* its end, its report, each at most once, and none of them without the    *)
(* ones before, but for working (activity.py:165-248).                     *)
TaskStory ==
  \A k \in DOMAIN turns, t \in Tasks :
    LET told(stage) == Told(turns[k].frames, t, stage)
    IN  \A s \in 1 .. 4 : \A n \in told(s) :
          /\ \A later \in s .. 4 : \A m \in told(later) : n <= m
          /\ s > 1 => told(1) # {}
          /\ s = 4 => told(3) # {}

(* A turn nobody will close: its chat was cut off before its try block.    *)
Orphaned(k) == ~turns[k].done /\ (k < Current \/ phase = "idle")

(* A reader's stream ends ("done") once its turn has, unless the turn was  *)
(* orphaned (runner_api.py:192-206).                                       *)
StreamsEnd ==
  \A r \in Readers :
    (reader[r].pc \in {"live", "asks", "rows"})
      ~> (reader[r].pc = "over" \/ (reader[r].pc = "live" /\ Orphaned(reader[r].turn)))

(* What activity.py:281 says of a stream ("live до конца хода") and        *)
(* runner_api.py:195 of its end ("терминальный кадр — done"): every stream *)
(* of a reader that stays ends.  It does not hold: EndlessStream.cfg.      *)
EveryStreamEnds ==
  \A r \in Readers : reader[r].pc \in {"live", "asks", "rows"} ~> reader[r].pc = "over"

=============================================================================
