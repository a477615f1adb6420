------------------------------- MODULE Delivery -------------------------------
(***************************************************************************)
(* The way of an Event from the webhook to a processed row: Store.Ingest   *)
(* (one transaction), the outbox worker, the durable queue read with       *)
(* auto-ack, the runners, and the two ways back into the outbox            *)
(* (RequeueStale by heartbeat, RequeueInstance by the user's Resume).      *)
(*                                                                         *)
(* Runners are coarse here: a message is taken from the queue, admitted    *)
(* (claim + begin_event), and its turn ends in mark_processed or not.      *)
(* RunnerService has their inner steps.                                    *)
(***************************************************************************)
EXTENDS Integers, Sequences, FiniteSets

CONSTANTS
  Deliveries,   \* Events: one per (provider, delivery_id)
  Instances, Runners,
  Keys, KeyOf,  \* the dedup key of each Event (its commit, or its own)
  Handlers,     \* bound: messages that runners handle at once
  Slots,        \* RunnerService.slots
  BatchSize,    \* outboxBatchSize
  Faults,       \* what may fail
  MaxFaults,    \* bound: how many failures
  MaxResumes,   \* bound: presses of Resume
  None

FaultKinds == {"publish", "mark", "hub", "turn", "crash", "stop"}

ASSUME DeliveryAssumption ==
  /\ KeyOf \in [Deliveries -> Keys]
  /\ IsFiniteSet(Instances)
  /\ Slots \in Nat \ {0} /\ BatchSize \in Nat \ {0}
  /\ Faults \subseteq FaultKinds
  /\ MaxFaults \in Nat /\ MaxResumes \in Nat
  /\ None \notin Deliveries \cup Runners \cup Instances

VARIABLES
  events,      \* hub.events: deliveries that were journaled
  journal,     \* hub.instance_events.event_id per (instance, dedup key)
  processed,   \* those whose processed_at is set
  outbox,      \* hub.outbox
  published,   \* ids of outbox rows whose published_at is set
  batch,       \* OutboxService.drain: ids it still has to publish
  stage,       \* and what it does next with the first of them
  queue,       \* events.runners
  holder,      \* agent_instances.runner_id; None when the status is down
  up,          \* the runner is running
  handler,     \* messages in the hands of runners
  faults, resumes

hubVars == <<events, journal, outbox>>
workerVars == <<batch, stage>>
vars == <<hubVars, processed, published, workerVars, queue, holder, up, handler, faults,
          resumes>>

Row == [id : Nat, ev : Deliveries, ins : Instances]
Message == [ev : Deliveries, ins : Instances]
Idle == [pc |-> "none", run |-> None, ev |-> None, ins |-> None]
Busy == [pc : {"take", "turn"}, run : Runners, ev : Deliveries, ins : Instances]

TypeOK ==
  /\ events \subseteq Deliveries
  /\ journal \in [Instances \X Keys -> Deliveries \cup {None}]
  /\ processed \subseteq Instances \X Keys
  /\ outbox \subseteq Row
  /\ published \subseteq Nat
  /\ batch \subseteq Nat
  /\ stage \in {"publish", "mark"}
  /\ queue \in Seq(Message)
  /\ holder \in [Instances -> Runners \cup {None}]
  /\ up \in [Runners -> BOOLEAN]
  /\ handler \in [Handlers -> Busy \cup {Idle}]
  /\ faults \in Nat /\ resumes \in Nat

Init ==
  /\ events = {} /\ outbox = {} /\ published = {} /\ processed = {}
  /\ journal = [p \in Instances \X Keys |-> None]
  /\ batch = {} /\ stage = "publish"
  /\ queue = <<>>
  /\ holder = [i \in Instances |-> None]
  /\ up = [r \in Runners |-> TRUE]
  /\ handler = [h \in Handlers |-> Idle]
  /\ faults = 0 /\ resumes = 0

Fault(kind) ==
  /\ kind \in Faults
  /\ faults < MaxFaults
  /\ faults' = faults + 1

-----------------------------------------------------------------------------
(* The hub: ingest.                                                        *)

Ids == {m.id : m \in outbox}
Rows(e, i) == {m \in outbox : m.ev = e /\ m.ins = i}

\* An INSERT of one outbox row per message, with the next ids of the sequence.
Insert(msgs) ==
  \E id \in [msgs -> Cardinality(outbox) + 1 .. Cardinality(outbox) + Cardinality(msgs)] :
    /\ \A m, n \in msgs : id[m] = id[n] => m = n
    /\ outbox' = outbox \cup {[id |-> id[m], ev |-> m.ev, ins |-> m.ins] : m \in msgs}

\* One outbox row for the whole fan-out instead of one per instance.
FanOutOnce(e, targets) == {[ev |-> e, ins |-> i] : i \in {CHOOSE x \in targets : TRUE}}
FanOut(e, targets) == {[ev |-> e, ins |-> i] : i \in targets}

\* Ingest: a known delivery changes nothing; a new one is journaled, and for
\* every matched build's instance an instance_events row is added unless its
\* dedup key is taken, and an outbox row in any case.
Ingest(e, targets) ==
  /\ e \notin events
  /\ events' = events \cup {e}
  /\ journal' = [p \in Instances \X Keys |->
                   IF p[1] \in targets /\ p[2] = KeyOf[e] /\ journal[p] = None
                   THEN e ELSE journal[p]]
  /\ Insert(IF targets = {} THEN {} ELSE FanOut(e, targets))
  /\ UNCHANGED <<processed, published, workerVars, queue, holder, up, handler, faults, resumes>>

-----------------------------------------------------------------------------
(* The hub: the outbox worker.                                             *)

Unpublished == Ids \ published
FirstOf(S) == CHOOSE x \in S : \A y \in S : x <= y
RowOf(id) == CHOOSE m \in outbox : m.id = id
MessageOf(id) == [ev |-> RowOf(id).ev, ins |-> RowOf(id).ins]

\* SELECT ... WHERE published_at IS NULL ORDER BY id LIMIT BatchSize.
Poll ==
  /\ batch = {} /\ Unpublished # {}
  /\ batch' = {x \in Unpublished : Cardinality({y \in Unpublished : y < x}) < BatchSize}
  /\ stage' = "publish"
  /\ UNCHANGED <<hubVars, processed, published, queue, holder, up, handler, faults, resumes>>

\* Publish returns after the broker's confirm.
Publish ==
  /\ batch # {} /\ stage = "publish"
  /\ queue' = Append(queue, MessageOf(FirstOf(batch)))
  /\ stage' = "mark"
  /\ UNCHANGED <<hubVars, processed, published, batch, holder, up, handler, faults, resumes>>

\* It fails, or its confirm is lost: drain returns, the row stays unpublished.
PublishFails ==
  /\ batch # {} /\ stage = "publish"
  /\ Fault("publish")
  /\ queue' \in {queue, Append(queue, MessageOf(FirstOf(batch)))}
  /\ batch' = {}
  /\ UNCHANGED <<hubVars, processed, published, stage, holder, up, handler, resumes>>

\* The whole batch is marked with its first row.
MarkBatch(ids) == ids
MarkOne(ids) == {FirstOf(ids)}

MarkPublished ==
  /\ batch # {} /\ stage = "mark"
  /\ published' = published \cup MarkOne(batch)
  /\ batch' = batch \ MarkOne(batch)
  /\ stage' = "publish"
  /\ UNCHANGED <<hubVars, processed, queue, holder, up, handler, faults, resumes>>

MarkFails ==
  /\ batch # {} /\ stage = "mark"
  /\ Fault("mark")
  /\ batch' = {}
  /\ stage' = "publish"
  /\ UNCHANGED <<hubVars, processed, published, queue, holder, up, handler, resumes>>

\* The hub process restarts: the worker's position is lost, the rows are not.
HubRestart ==
  /\ batch # {}
  /\ Fault("hub")
  /\ batch' = {} /\ stage' = "publish"
  /\ UNCHANGED <<hubVars, processed, published, queue, holder, up, handler, resumes>>

-----------------------------------------------------------------------------
(* The runners.                                                            *)

Key(h) == <<handler[h].ins, KeyOf[handler[h].ev]>>
Finish(h) == handler' = [handler EXCEPT ![h] = Idle]
Raised(r) == {i \in Instances : holder[i] = r}

\* consume_events: auto-ack, the message leaves the queue when it is delivered.
Consume(h, r) ==
  /\ up[r] /\ queue # <<>> /\ handler[h] = Idle
  /\ handler' = [handler EXCEPT ![h] = [pc |-> "take", run |-> r, ev |-> Head(queue).ev,
                                        ins |-> Head(queue).ins]]
  /\ queue' = Tail(queue)
  /\ UNCHANGED <<hubVars, processed, published, workerVars, holder, up, faults, resumes>>

\* Held by another runner: forwarded, or dropped if that runner is gone.
Forward(h) ==
  LET r == holder[handler[h].ins] IN
  /\ handler[h].pc = "take"
  /\ r \notin {None, handler[h].run}
  /\ \/ up[r] /\ handler' = [handler EXCEPT ![h].run = r]
     \/ ~up[r] /\ Finish(h)
  /\ UNCHANGED <<hubVars, processed, published, workerVars, queue, holder, up, faults, resumes>>

\* _raise waits for a slot, claims the instance; begin_event drops a duplicate.
Admit(h) ==
  LET i == handler[h].ins  r == handler[h].run IN
  /\ handler[h].pc = "take"
  /\ holder[i] = r \/ (holder[i] = None /\ Cardinality(Raised(r)) < Slots)
  /\ holder' = [holder EXCEPT ![i] = r]
  /\ \/ Key(h) \in processed /\ Finish(h)
     \/ Key(h) \notin processed /\ handler' = [handler EXCEPT ![h].pc = "turn"]
  /\ UNCHANGED <<hubVars, processed, published, workerVars, queue, up, faults, resumes>>

TurnUnmarked(h) ==
  /\ handler[h].pc = "turn"
  /\ Finish(h)
  /\ UNCHANGED <<hubVars, processed, published, workerVars, queue, holder, up, faults, resumes>>

\* The turn ends without an exception and mark_processed follows.
TurnSucceeds(h) ==
  /\ handler[h].pc = "turn"
  /\ processed' = processed \cup {Key(h)}
  /\ Finish(h)
  /\ UNCHANGED <<hubVars, published, workerVars, queue, holder, up, faults, resumes>>

\* The turn raises (model, git, sandbox): logged, processed_at stays NULL.
TurnFails(h) ==
  /\ handler[h].pc = "turn"
  /\ Fault("turn")
  /\ Finish(h)
  /\ UNCHANGED <<hubVars, processed, published, workerVars, queue, holder, up, resumes>>

\* The idle timeout of an instance nobody uses.
Unload(i) ==
  /\ holder[i] # None /\ up[holder[i]]
  /\ \A h \in Handlers : ~(handler[h].pc = "turn" /\ handler[h].ins = i)
  /\ holder' = [holder EXCEPT ![i] = None]
  /\ UNCHANGED <<hubVars, processed, published, workerVars, queue, up, handler, faults, resumes>>

\* stop_instance cancels the turn and releases the instance.
StopInstance(i) ==
  /\ holder[i] # None /\ up[holder[i]]
  /\ Fault("stop")
  /\ handler' = [h \in Handlers |-> IF handler[h].pc = "turn" /\ handler[h].ins = i
                                    THEN Idle ELSE handler[h]]
  /\ holder' = [holder EXCEPT ![i] = None]
  /\ UNCHANGED <<hubVars, processed, published, workerVars, queue, up, resumes>>

Crash(r) ==
  /\ up[r]
  /\ Fault("crash")
  /\ up' = [up EXCEPT ![r] = FALSE]
  /\ handler' = [h \in Handlers |-> IF handler[h].run = r THEN Idle ELSE handler[h]]
  /\ UNCHANGED <<hubVars, processed, published, workerVars, queue, holder, resumes>>

\* register_runner: same name, same id, a fresh heartbeat; rows are kept.
Restart(r) ==
  /\ ~up[r]
  /\ up' = [up EXCEPT ![r] = TRUE]
  /\ UNCHANGED <<hubVars, processed, published, workerVars, queue, holder, handler, faults,
                 resumes>>

-----------------------------------------------------------------------------
(* Back into the outbox.                                                   *)

\* Unprocessed instance_events rows of the instances, each with the payload of
\* its first outbox row for that very instance (no such row, no message).
Unfinished(targets) ==
  {m \in Message : /\ m.ins \in targets
                   /\ \E k \in Keys : /\ journal[<<m.ins, k>>] = m.ev
                                      /\ <<m.ins, k>> \notin processed
                   /\ Rows(m.ev, m.ins) # {}}

\* RequeueStale, one statement: instances of runners without heartbeat go down
\* and their unfinished Events are inserted again.
RequeueStale ==
  LET stale == {i \in Instances : holder[i] # None /\ ~up[holder[i]]} IN
  /\ stale # {}
  /\ holder' = [i \in Instances |-> IF i \in stale THEN None ELSE holder[i]]
  /\ Insert(Unfinished(stale))
  /\ UNCHANGED <<events, journal, processed, published, workerVars, queue, up, handler, faults,
                 resumes>>

\* InstanceService.Resume.
RequeueInstance(i) ==
  /\ resumes < MaxResumes
  /\ Unfinished({i}) # {}
  /\ resumes' = resumes + 1
  /\ Insert(Unfinished({i}))
  /\ UNCHANGED <<events, journal, processed, published, workerVars, queue, holder, up, handler,
                 faults>>

-----------------------------------------------------------------------------

Worker == Poll \/ Publish \/ MarkPublished
Handle(h) == Forward(h) \/ Admit(h) \/ TurnSucceeds(h)

Next ==
  \/ \E e \in Deliveries, targets \in SUBSET Instances : Ingest(e, targets)
  \/ Worker \/ PublishFails \/ MarkFails \/ HubRestart
  \/ \E h \in Handlers : Handle(h) \/ TurnFails(h) \/ \E r \in Runners : Consume(h, r)
  \/ \E i \in Instances : Unload(i) \/ StopInstance(i) \/ RequeueInstance(i)
  \/ \E r \in Runners : Crash(r) \/ Restart(r)
  \/ RequeueStale

Spec == Init /\ [][Next]_vars

\* The worker polls every second, consumers drain the queue, turns end, idle
\* instances are unloaded, the hub watches heartbeats.  A user need not press
\* Resume and a dead runner need not come back.
Fairness ==
  /\ WF_vars(Worker)
  /\ WF_vars(\E h \in Handlers, r \in Runners : Consume(h, r))
  /\ \A h \in Handlers : SF_vars(Handle(h))
  /\ \A i \in Instances : WF_vars(Unload(i))
  /\ WF_vars(RequeueStale)

FairSpec == Spec /\ Fairness

-----------------------------------------------------------------------------
(* Properties.                                                             *)

Pending(i, k) == journal[<<i, k>>] # None /\ <<i, k>> \notin processed

\* Whatever failed, an unfinished Event can be published again: its row in
\* instance_events refers to an Event with an outbox row for that instance,
\* which is where RequeueStale and RequeueInstance copy the payload from.
Resumable ==
  \A i \in Instances, k \in Keys : Pending(i, k) => Rows(journal[<<i, k>>], i) # {}

\* An unfinished Event is somewhere from where it goes on by itself: in an
\* unpublished outbox row, in the queue, in the hands of a runner, or on an
\* instance of a dead runner, which RequeueStale will find.
InMotion ==
  \A i \in Instances, k \in Keys : Pending(i, k) =>
    \/ \E m \in outbox : m.ins = i /\ KeyOf[m.ev] = k /\ m.id \notin published
    \/ \E n \in 1 .. Len(queue) : queue[n].ins = i /\ KeyOf[queue[n].ev] = k
    \/ \E h \in Handlers : handler[h] # Idle /\ Key(h) = <<i, k>>
    \/ holder[i] # None /\ ~up[holder[i]]

\* Every Event that was ingested for an instance is processed in the end.
EventuallyProcessed ==
  \A i \in Instances, k \in Keys :
    journal[<<i, k>>] # None ~> <<i, k>> \in processed

=============================================================================
