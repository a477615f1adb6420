---------------------------- MODULE DeliveryProofs ----------------------------
(* Theorems about Delivery, for every number of Events, instances, runners, *)
(* handlers, faults and presses of Resume, and every batch size.            *)
EXTENDS Delivery, FiniteSetTheorems, TLAPS

-----------------------------------------------------------------------------
(* The inductive invariants.                                               *)

\* hub.outbox: the sequence numbers its rows without a gap.
Ledger ==
  /\ IsFiniteSet(outbox)
  /\ \A m \in outbox : m.id <= Cardinality(outbox)
  /\ \A m, n \in outbox : m.id = n.id => m = n

\* The worker marks, and holds in its batch, rows that exist.
Marks == published \subseteq Ids /\ batch \subseteq Ids \ published

\* An instance_events row refers to an Event with its key that was fanned out
\* to its instance.
Grounded ==
  \A i \in Instances, k \in Keys :
    journal[<<i, k>>] # None =>
      KeyOf[journal[<<i, k>>]] = k /\ Rows(journal[<<i, k>>], i) # {}

Base == TypeOK /\ Ledger /\ Marks /\ Grounded

\* Past the outbox: in the queue, with a runner, or done.
Carried(i, k) ==
  \/ <<i, k>> \in processed
  \/ \E n \in 1 .. Len(queue) : queue[n].ins = i /\ KeyOf[queue[n].ev] = k
  \/ \E h \in Handlers : handler[h] # Idle /\ Key(h) = <<i, k>>

Waiting(i, k) == \E m \in outbox : m.ins = i /\ KeyOf[m.ev] = k /\ m.id \notin published

\* Without faults of the runners nothing that left the outbox is dropped: a row
\* about to be marked has been handed on.
Moving ==
  /\ \A r \in Runners : up[r]
  /\ stage = "mark" /\ batch # {} =>
       Carried(MessageOf(FirstOf(batch)).ins, KeyOf[MessageOf(FirstOf(batch)).ev])
  /\ \A i \in Instances, k \in Keys : Pending(i, k) => Waiting(i, k) \/ Carried(i, k)

-----------------------------------------------------------------------------
(* Numbers and finite sets.                                                *)

\* FirstOf returns the least of a set of ids, the ORDER BY id of the worker.
LEMMA FirstIsLeast ==
  ASSUME NEW S \in SUBSET Nat, S # {}
  PROVE  FirstOf(S) \in S /\ \A y \in S : FirstOf(S) <= y
<1>1. \E x \in S : \A y \in S : ~ (<<y, x>> \in OpToRel(<, Nat))
  BY NatLessThanWellFounded, WFMin
<1>2. PICK x \in S : \A y \in S : ~ (<<y, x>> \in OpToRel(<, Nat))
  BY <1>1
<1>3. ASSUME NEW y \in S, y < x
      PROVE  FALSE
  <2>1. <<y, x>> \in Nat \X Nat /\ y < x
    BY <1>3
  <2>2. <<y, x>> \in OpToRel(<, Nat)
    BY <2>1 DEF OpToRel
  <2> QED
    BY <1>2, <2>2
<1>4. \A y \in S : x <= y
  BY <1>3
<1> QED
  BY <1>4 DEF FirstOf

\* A new row in the ledger has an id no earlier row had.
LEMMA InsertLemma ==
  ASSUME outbox \subseteq Row, Ledger,
         NEW msgs \in SUBSET Message, IsFiniteSet(msgs), Insert(msgs)
  PROVE  /\ outbox' \subseteq Row /\ Ledger'
         /\ outbox \subseteq outbox' /\ Ids \subseteq Ids'
         /\ \A m \in msgs : \E n \in outbox' : n.ev = m.ev /\ n.ins = m.ins /\ n.id \notin Ids
<1> DEFINE c == Cardinality(outbox)
           d == Cardinality(msgs)
<1>1. c \in Nat /\ d \in Nat
  BY FS_CardinalityType DEF Ledger
<1>2. PICK id \in [msgs -> c + 1 .. c + d] :
        /\ \A m, n \in msgs : id[m] = id[n] => m = n
        /\ outbox' = outbox \cup {[id |-> id[m], ev |-> m.ev, ins |-> m.ins] : m \in msgs}
  BY DEF Insert
<1> DEFINE RowFor(m) == [id |-> id[m], ev |-> m.ev, ins |-> m.ins]
           new == {RowFor(m) : m \in msgs}
           f == [m \in msgs |-> RowFor(m)]
<1>3. outbox' = outbox \cup new
  BY <1>2
<1>4. \A m \in msgs : id[m] \in Nat /\ id[m] > c /\ id[m] <= c + d
  BY <1>1, <1>2
<1>5. new \subseteq Row
  BY <1>4 DEF Row, Message
<1>6. \A m \in outbox : m.id \in Nat /\ m.id <= c
  BY DEF Ledger, Row
<1>7. \A n \in new : n.id > c /\ n.id <= c + d
  BY <1>4
<1>8. f \in Bijection(msgs, new)
  <2>1. f \in [msgs -> new]
    OBVIOUS
  <2>2. \A m, n \in msgs : f[m] = f[n] => m = n
    <3> SUFFICES ASSUME NEW m \in msgs, NEW n \in msgs, f[m] = f[n]
                 PROVE  m = n
      OBVIOUS
    <3>1. f[m].id = id[m] /\ f[n].id = id[n]
      OBVIOUS
    <3> QED
      BY <3>1, <1>2
  <2>3. \A n \in new : \E m \in msgs : f[m] = n
    OBVIOUS
  <2> QED
    BY <2>1, <2>2, <2>3 DEF Bijection, Injection, Surjection, IsInjective
<1>9. IsFiniteSet(new) /\ Cardinality(new) = d
  BY <1>8, FS_Bijection DEF ExistsBijection
<1>10. outbox \cap new = {}
  BY <1>1, <1>6, <1>7
<1>11. IsFiniteSet(outbox') /\ Cardinality(outbox') = c + d
  <2>1. IsFiniteSet(outbox)
    BY DEF Ledger
  <2>2. /\ IsFiniteSet(outbox \cup new)
        /\ Cardinality(outbox \cup new) = c + Cardinality(new) - Cardinality(outbox \cap new)
    BY <2>1, <1>9, FS_Union
  <2>3. Cardinality(outbox \cap new) = 0
    BY <1>10, FS_EmptySet
  <2> HIDE DEF c, d, new
  <2> QED
    BY <1>1, <1>3, <1>9, <2>2, <2>3
<1>12. \A m \in outbox' : m.id <= c + d
  BY <1>1, <1>3, <1>6, <1>7
<1>13. \A m, n \in new : m.id = n.id => m = n
  BY <1>2
<1>14. \A m, n \in outbox' : m.id = n.id => m = n
  BY <1>1, <1>3, <1>6, <1>7, <1>13 DEF Ledger
<1>15. Ledger'
  BY <1>11, <1>12, <1>14 DEF Ledger
<1>16. ASSUME NEW m \in msgs
       PROVE  \E n \in outbox' : n.ev = m.ev /\ n.ins = m.ins /\ n.id \notin Ids
  <2>1. RowFor(m) \in outbox'
    BY <1>3
  <2>2. RowFor(m).id \notin Ids
    BY <1>1, <1>4, <1>6 DEF Ids
  <2> QED
    BY <2>1, <2>2
<1> QED
  BY <1>3, <1>5, <1>15, <1>16 DEF Ids

\* The messages of one Event are as many as its targets.
LEMMA FanOutFinite ==
  ASSUME NEW e \in Deliveries, NEW targets \in SUBSET Instances
  PROVE  IsFiniteSet(FanOut(e, targets)) /\ FanOut(e, targets) \in SUBSET Message
<1> DEFINE f == [i \in targets |-> [ev |-> e, ins |-> i]]
<1>1. IsFiniteSet(targets)
  BY FS_Subset, DeliveryAssumption
<1>2. f \in Surjection(targets, FanOut(e, targets))
  BY DEF Surjection, FanOut
<1> QED
  BY <1>1, <1>2, FS_Surjection DEF FanOut, Message

\* What a requeue inserts again is found among the rows of the outbox.
LEMMA UnfinishedFinite ==
  ASSUME Ledger, outbox \subseteq Row, NEW targets
  PROVE  IsFiniteSet(Unfinished(targets)) /\ Unfinished(targets) \in SUBSET Message
<1> DEFINE f == [m \in outbox |-> [ev |-> m.ev, ins |-> m.ins]]
           all == {[ev |-> m.ev, ins |-> m.ins] : m \in outbox}
<1>1. f \in Surjection(outbox, all)
  BY DEF Surjection
<1>2. IsFiniteSet(all)
  BY <1>1, FS_Surjection DEF Ledger
<1>3. ASSUME NEW m \in Unfinished(targets)
      PROVE  m \in all
  <2>1. PICK n \in outbox : n.ev = m.ev /\ n.ins = m.ins
    BY DEF Unfinished, Rows
  <2>2. m = [ev |-> m.ev, ins |-> m.ins]
    BY DEF Unfinished, Message
  <2> QED
    BY <2>1, <2>2
<1>4. Unfinished(targets) \in SUBSET all
  BY <1>3
<1> QED
  BY <1>2, <1>4, FS_Subset DEF Unfinished

-----------------------------------------------------------------------------
(* Every Event that is journaled can be found again.                       *)

\* What a requeue does to the ledger keeps what the journal refers to.
LEMMA RequeueKeeps ==
  ASSUME Base, NEW targets, Insert(Unfinished(targets)), UNCHANGED <<journal, published, batch>>
  PROVE  outbox' \subseteq Row /\ Ledger' /\ Marks' /\ Grounded' /\ outbox \subseteq outbox'
<1>1. outbox \subseteq Row /\ Ledger
  BY DEF Base, TypeOK
<1>2. outbox' \subseteq Row /\ Ledger' /\ outbox \subseteq outbox' /\ Ids \subseteq Ids'
  BY <1>1, InsertLemma, UnfinishedFinite
<1>3. Marks'
  BY <1>2 DEF Base, Marks
<1>4. Grounded'
  BY <1>2 DEF Base, Grounded, Rows
<1> QED
  BY <1>2, <1>3, <1>4

\* Steps that write neither the journal nor the outbox.
LEMMA LedgerUntouched ==
  ASSUME Base, UNCHANGED <<journal, outbox>>
  PROVE  outbox' \subseteq Row /\ Ledger' /\ Grounded' /\ Ids' = Ids
BY DEF Base, TypeOK, Ledger, Grounded, Rows, Ids

\* A message of the outbox is a message of the queue.
LEMMA MessageType ==
  ASSUME outbox \subseteq Row, NEW id \in Ids
  PROVE  MessageOf(id) \in Message /\ RowOf(id) \in outbox /\ RowOf(id).id = id
<1>1. \E m \in outbox : m.id = id
  BY DEF Ids
<1>2. RowOf(id) \in outbox /\ RowOf(id).id = id
  BY <1>1 DEF RowOf
<1> QED
  BY <1>2 DEF MessageOf, Message, Row

LEMMA FirstInBatch ==
  ASSUME Base, batch # {}
  PROVE  FirstOf(batch) \in batch /\ FirstOf(batch) \in Ids
<1>1. batch \in SUBSET Nat
  BY DEF Base, TypeOK
<1> QED
  BY <1>1, FirstIsLeast DEF Base, Marks

LEMMA BaseInit == Init => Base
<1> SUFFICES ASSUME Init PROVE Base
  OBVIOUS
<1>1. TypeOK
  <2>1. journal \in [Instances \X Keys -> Deliveries \cup {None}]
    BY DEF Init
  <2>2. handler \in [Handlers -> Busy \cup {Idle}] /\ up \in [Runners -> BOOLEAN]
    BY DEF Init
  <2> QED
    BY <2>1, <2>2 DEF Init, TypeOK
<1>2. Ledger
  BY FS_EmptySet DEF Init, Ledger
<1>3. Marks
  BY DEF Init, Marks
<1>4. Grounded
  BY DEF Init, Grounded
<1> QED
  BY <1>1, <1>2, <1>3, <1>4 DEF Base

LEMMA BaseIngest ==
  ASSUME Base, NEW e \in Deliveries, NEW targets \in SUBSET Instances, Ingest(e, targets)
  PROVE  Base'
<1> DEFINE msgs == IF targets = {} THEN {} ELSE FanOut(e, targets)
<1>1. outbox \subseteq Row /\ Ledger /\ Insert(msgs)
  BY DEF Base, TypeOK, Ingest
<1>2. msgs = FanOut(e, targets) /\ IsFiniteSet(msgs) /\ msgs \in SUBSET Message
  BY FanOutFinite DEF FanOut
<1> HIDE DEF msgs
<1>3. /\ outbox' \subseteq Row /\ Ledger' /\ outbox \subseteq outbox' /\ Ids \subseteq Ids'
      /\ \A m \in msgs : \E n \in outbox' : n.ev = m.ev /\ n.ins = m.ins /\ n.id \notin Ids
  BY <1>1, <1>2, InsertLemma
<1>4. ASSUME NEW i \in targets
      PROVE  \E n \in outbox' : n.ev = e /\ n.ins = i
  <2>1. [ev |-> e, ins |-> i] \in msgs
    BY <1>2 DEF FanOut
  <2> QED
    BY <2>1, <1>3
<1>5. \A i \in Instances, k \in Keys :
        journal'[<<i, k>>] = IF i \in targets /\ k = KeyOf[e] /\ journal[<<i, k>>] = None
                             THEN e ELSE journal[<<i, k>>]
  BY DEF Ingest
<1>6. Grounded'
  <2> SUFFICES ASSUME NEW i \in Instances, NEW k \in Keys, journal'[<<i, k>>] # None
               PROVE  KeyOf[journal'[<<i, k>>]] = k
                      /\ {n \in outbox' : n.ev = journal'[<<i, k>>] /\ n.ins = i} # {}
    BY DEF Grounded, Rows
  <2>1. CASE i \in targets /\ k = KeyOf[e] /\ journal[<<i, k>>] = None
    BY <2>1, <1>4, <1>5
  <2>2. CASE ~(i \in targets /\ k = KeyOf[e] /\ journal[<<i, k>>] = None)
    <3>1. journal'[<<i, k>>] = journal[<<i, k>>]
      BY <2>2, <1>5
    <3> QED
      BY <3>1, <1>3 DEF Base, Grounded, Rows
  <2> QED
    BY <2>1, <2>2
<1>7. Marks'
  BY <1>3 DEF Base, Marks, Ingest, workerVars
<1>8. TypeOK'
  <2>1. journal' \in [Instances \X Keys -> Deliveries \cup {None}]
    BY DEF Base, TypeOK, Ingest
  <2> QED
    BY <1>3, <2>1 DEF Base, TypeOK, Ingest, workerVars
<1> QED
  BY <1>3, <1>6, <1>7, <1>8 DEF Base

LEMMA BaseWorker ==
  ASSUME Base, Worker \/ PublishFails \/ MarkFails \/ HubRestart
  PROVE  Base'
<1>1. UNCHANGED <<hubVars, processed, holder, up, handler, resumes>>
  BY DEF Worker, Poll, Publish, MarkPublished, PublishFails, MarkFails, HubRestart
<1>2. outbox' \subseteq Row /\ Ledger' /\ Grounded' /\ Ids' = Ids
  BY <1>1, LedgerUntouched DEF hubVars
<1>3. stage' \in {"publish", "mark"} /\ faults' \in Nat
  BY DEF Base, TypeOK, Worker, Poll, Publish, MarkPublished, PublishFails, MarkFails, HubRestart,
         Fault
<1>4. queue' \in Seq(Message)
  <2>1. ASSUME batch # {}
        PROVE  MessageOf(FirstOf(batch)) \in Message
    BY <2>1, FirstInBatch, MessageType DEF Base, TypeOK
  <2>2. queue \in Seq(Message)
    BY DEF Base, TypeOK
  <2> QED
    BY <2>1, <2>2 DEF Worker, Poll, Publish, MarkPublished, PublishFails, MarkFails, HubRestart
<1>5. Marks'
  <2>1. CASE Poll
    BY <2>1, <1>2 DEF Poll, Unpublished, Base, Marks
  <2>2. CASE Publish \/ PublishFails \/ MarkFails \/ HubRestart
    BY <2>2, <1>2 DEF Publish, PublishFails, MarkFails, HubRestart, Base, Marks
  <2>3. CASE MarkPublished
    BY <2>3, <1>2, FirstInBatch DEF MarkPublished, MarkOne, Base, Marks
  <2> QED
    BY <2>1, <2>2, <2>3 DEF Worker
<1>6. Ids \subseteq Nat
  BY DEF Base, TypeOK, Ids, Row
<1>7. published' \subseteq Nat /\ batch' \subseteq Nat
  BY <1>2, <1>5, <1>6 DEF Marks
<1> QED
  BY <1>1, <1>2, <1>3, <1>4, <1>5, <1>7 DEF Base, TypeOK, hubVars

\* The runners write neither the journal nor the outbox.
LEMMA BaseRunner ==
  ASSUME Base,
         \/ \E h \in Handlers : Handle(h) \/ TurnFails(h) \/ \E r \in Runners : Consume(h, r)
         \/ \E i \in Instances : Unload(i) \/ StopInstance(i)
         \/ \E r \in Runners : Crash(r) \/ Restart(r)
  PROVE  Base'
<1>1. UNCHANGED <<hubVars, published, workerVars, resumes>>
  BY DEF Handle, Forward, Admit, TurnSucceeds, TurnFails, Consume, Unload, StopInstance, Crash,
         Restart
<1>2. outbox' \subseteq Row /\ Ledger' /\ Grounded' /\ Ids' = Ids
  BY <1>1, LedgerUntouched DEF hubVars
<1>3. Marks'
  BY <1>1, <1>2 DEF Base, Marks, workerVars
<1>4. faults' \in Nat /\ up' \in [Runners -> BOOLEAN]
  <2>1. faults \in Nat /\ up \in [Runners -> BOOLEAN]
    BY DEF Base, TypeOK
  <2>2. faults' \in Nat
    BY <2>1 DEF Fault, Handle, Forward, Admit, TurnSucceeds, TurnFails, Consume, Unload,
                StopInstance, Crash, Restart
  <2>3. up' = up \/ \E r \in Runners, b \in BOOLEAN : up' = [up EXCEPT ![r] = b]
    BY DEF Handle, Forward, Admit, TurnSucceeds, TurnFails, Consume, Unload, StopInstance, Crash,
           Restart
  <2> QED
    BY <2>1, <2>2, <2>3
<1>5. ASSUME NEW h \in Handlers, handler[h].pc \in {"take", "turn"}
      PROVE  handler[h] \in Busy /\ Key(h) \in Instances \X Keys
  <2>1. handler[h] \in Busy
    BY <1>5 DEF Base, TypeOK, Idle
  <2> QED
    BY <2>1, DeliveryAssumption DEF Key, Busy
<1>6. Idle.pc = "none"
  BY DEF Idle
<1>7. processed' \subseteq Instances \X Keys
  BY <1>5 DEF Base, TypeOK, Handle, Forward, Admit, TurnSucceeds, TurnFails, Consume, Unload,
              StopInstance, Crash, Restart
<1>8. holder' \in [Instances -> Runners \cup {None}] /\ queue' \in Seq(Message)
      /\ handler' \in [Handlers -> Busy \cup {Idle}]
  <2>1. CASE \E h \in Handlers, r \in Runners : Consume(h, r)
    <3>1. PICK h \in Handlers, r \in Runners : Consume(h, r)
      BY <2>1
    <3>2. queue \in Seq(Message) /\ queue # <<>>
      BY <3>1 DEF Base, TypeOK, Consume
    <3>3. Head(queue) \in Message /\ queue' \in Seq(Message)
      BY <3>1, <3>2 DEF Consume
    <3>4. [pc |-> "take", run |-> r, ev |-> Head(queue).ev, ins |-> Head(queue).ins] \in Busy
      BY <3>3 DEF Message, Busy
    <3> QED
      BY <3>1, <3>3, <3>4 DEF Consume, Base, TypeOK
  <2>2. CASE \E h \in Handlers : Forward(h)
    <3>1. PICK h \in Handlers : Forward(h)
      BY <2>2
    <3>2. handler[h] \in Busy
      BY <3>1, <1>5 DEF Forward
    <3>3. holder[handler[h].ins] \in Runners \cup {None}
      BY <3>2 DEF Busy, Base, TypeOK
    <3>4. \A r \in Runners : [handler[h] EXCEPT !.run = r] \in Busy
      BY <3>2 DEF Busy
    <3> QED
      BY <3>1, <3>3, <3>4 DEF Forward, Finish, Base, TypeOK
  <2>3. CASE \E h \in Handlers : Admit(h)
    <3>1. PICK h \in Handlers : Admit(h)
      BY <2>3
    <3>2. handler[h] \in Busy
      BY <3>1, <1>5 DEF Admit
    <3>3. [handler[h] EXCEPT !.pc = "turn"] \in Busy /\ handler[h].run \in Runners
      BY <3>2 DEF Busy
    <3> QED
      BY <3>1, <3>3 DEF Admit, Finish, Base, TypeOK
  <2>4. CASE \E h \in Handlers : TurnSucceeds(h) \/ TurnFails(h)
    BY <2>4 DEF TurnSucceeds, TurnFails, Finish, Base, TypeOK
  <2>5. CASE \E i \in Instances : Unload(i) \/ StopInstance(i)
    BY <2>5 DEF Unload, StopInstance, Base, TypeOK
  <2>6. CASE \E r \in Runners : Crash(r) \/ Restart(r)
    BY <2>6 DEF Crash, Restart, Base, TypeOK
  <2> QED
    BY <2>1, <2>2, <2>3, <2>4, <2>5, <2>6 DEF Handle
<1> QED
  BY <1>1, <1>2, <1>3, <1>4, <1>7, <1>8 DEF Base, TypeOK, hubVars, workerVars

LEMMA BaseRequeue ==
  ASSUME Base, RequeueStale \/ \E i \in Instances : RequeueInstance(i)
  PROVE  Base'
<1>1. UNCHANGED <<events, journal, processed, published, workerVars, queue, up, handler, faults>>
  BY DEF RequeueStale, RequeueInstance
<1>2. PICK targets : Insert(Unfinished(targets))
  BY DEF RequeueStale, RequeueInstance
<1>3. outbox' \subseteq Row /\ Ledger' /\ Marks' /\ Grounded'
  BY <1>1, <1>2, RequeueKeeps DEF workerVars
<1>4. holder' \in [Instances -> Runners \cup {None}] /\ resumes' \in Nat
  <2>1. holder \in [Instances -> Runners \cup {None}] /\ resumes \in Nat
    BY DEF Base, TypeOK
  <2>2. CASE RequeueStale
    BY <2>1, <2>2 DEF RequeueStale
  <2>3. CASE \E i \in Instances : RequeueInstance(i)
    BY <2>1, <2>3 DEF RequeueInstance
  <2> QED
    BY <2>2, <2>3
<1> QED
  BY <1>1, <1>3, <1>4 DEF Base, TypeOK, workerVars

LEMMA BaseStep == Base /\ [Next]_vars => Base'
<1> SUFFICES ASSUME Base, [Next]_vars PROVE Base'
  OBVIOUS
<1>1. CASE UNCHANGED vars
  <2>1. outbox' \subseteq Row /\ Ledger' /\ Grounded' /\ Ids' = Ids
    BY <1>1, LedgerUntouched DEF vars, hubVars
  <2> QED
    BY <1>1, <2>1 DEF Base, TypeOK, Marks, vars, hubVars, workerVars
<1>2. CASE Next
  BY <1>2, BaseIngest, BaseWorker, BaseRunner, BaseRequeue DEF Next
<1> QED
  BY <1>1, <1>2

\* The journal, the ledger of the outbox and the worker's marks, in every
\* reachable state.
THEOREM BaseThm == Spec => []Base
<1> QED
  BY BaseInit, BaseStep, PTL DEF Spec

\* Store.Ingest journals an Event and inserts its outbox rows in one
\* transaction and no row is ever deleted: whatever fails later, RequeueStale
\* and Resume find the payload of every unfinished Event.
THEOREM ResumableThm == Spec => []Resumable
<1>1. Base => Resumable
  BY DEF Base, Grounded, Resumable, Pending
<1> QED
  BY <1>1, BaseThm, PTL

-----------------------------------------------------------------------------
(* Nothing is dropped between the outbox and the processed row, as long as  *)
(* no turn fails and no runner crashes or is told to stop.                  *)

Calm == Faults \cap {"turn", "crash", "stop"} = {}

\* The runner's steps hand a message on: from the queue to a handler, from
\* runner to runner, from the handler to its processed row.
LEMMA CarriedByRunner ==
  ASSUME Base, \A r \in Runners : up[r], NEW i \in Instances, NEW k \in Keys, Carried(i, k),
         \/ \E h \in Handlers : Handle(h) \/ \E r \in Runners : Consume(h, r)
  PROVE  Carried(i, k)'
<1>0. handler \in [Handlers -> Busy \cup {Idle}] /\ Idle.pc = "none"
      /\ queue \in Seq(Message) /\ processed \subseteq processed'
      /\ holder \in [Instances -> Runners \cup {None}]
  BY DEF Base, TypeOK, Idle, Handle, Forward, Admit, TurnSucceeds, Consume
<1>1. CASE \E h \in Handlers, r \in Runners : Consume(h, r)
  <2>1. PICK h \in Handlers, r \in Runners : Consume(h, r)
    BY <1>1
  <2> DEFINE new == [pc |-> "take", run |-> r, ev |-> Head(queue).ev, ins |-> Head(queue).ins]
  <2>2. /\ queue # <<>> /\ queue' = Tail(queue) /\ handler[h] = Idle
        /\ handler' = [handler EXCEPT ![h] = new]
    BY <2>1 DEF Consume
  <2>3. new # Idle /\ new.ev = queue[1].ev /\ new.ins = queue[1].ins
    BY <1>0, <2>2 DEF Idle
  <2> HIDE DEF new
  <2>4. handler'[h] = new /\ \A g \in Handlers \ {h} : handler'[g] = handler[g]
    BY <1>0, <2>2
  <2>5. CASE \E n \in 1 .. Len(queue) : queue[n].ins = i /\ KeyOf[queue[n].ev] = k
    <3>1. PICK n \in 1 .. Len(queue) : queue[n].ins = i /\ KeyOf[queue[n].ev] = k
      BY <2>5
    <3>2. CASE n = 1
      BY <3>1, <3>2, <2>3, <2>4 DEF Carried, Key
    <3>3. CASE n # 1
      <4>1. n - 1 \in 1 .. Len(queue') /\ queue'[n - 1] = queue[n]
        BY <1>0, <2>2, <3>1, <3>3
      <4> QED
        BY <4>1, <3>1 DEF Carried
    <3> QED
      BY <3>2, <3>3
  <2>6. CASE \E g \in Handlers : handler[g] # Idle /\ Key(g) = <<i, k>>
    BY <2>6, <2>2, <2>4 DEF Carried, Key
  <2> QED
    BY <1>0, <2>5, <2>6 DEF Carried
<1>2. CASE \E h \in Handlers : Handle(h)
  <2>1. PICK h \in Handlers : Handle(h)
    BY <1>2
  <2>2. handler[h] \in Busy /\ queue' = queue
    BY <2>1, <1>0 DEF Handle, Forward, Admit, TurnSucceeds
  <2>3. \A g \in Handlers \ {h} : handler'[g] = handler[g]
    BY <2>1, <1>0 DEF Handle, Forward, Admit, TurnSucceeds, Finish
  <2>4. \/ handler'[h] # Idle /\ handler'[h].ins = handler[h].ins /\ handler'[h].ev = handler[h].ev
        \/ Key(h) \in processed'
    <3>1. CASE Forward(h)
      <4>1. holder[handler[h].ins] \in Runners
        BY <3>1, <2>2, <1>0 DEF Forward, Busy
      <4>2. \A r \in Runners : /\ [handler[h] EXCEPT !.run = r].ins = handler[h].ins
                               /\ [handler[h] EXCEPT !.run = r].ev = handler[h].ev
                               /\ [handler[h] EXCEPT !.run = r].pc = handler[h].pc
        BY <2>2 DEF Busy
      <4>3. handler'[h] = [handler[h] EXCEPT !.run = holder[handler[h].ins]]
        BY <3>1, <4>1, <1>0 DEF Forward
      <4>4. handler[h].pc = "take"
        BY <3>1 DEF Forward
      <4>5. handler'[h].pc = "take" /\ handler'[h].ins = handler[h].ins
            /\ handler'[h].ev = handler[h].ev
        BY <4>1, <4>2, <4>3, <4>4
      <4> QED
        BY <4>5, <1>0
    <3>2. CASE Admit(h)
      <4>1. /\ [handler[h] EXCEPT !.pc = "turn"].ins = handler[h].ins
            /\ [handler[h] EXCEPT !.pc = "turn"].ev = handler[h].ev
            /\ [handler[h] EXCEPT !.pc = "turn"].pc = "turn"
        BY <2>2 DEF Busy
      <4>2. Key(h) \in processed' \/ handler'[h] = [handler[h] EXCEPT !.pc = "turn"]
        BY <3>2, <1>0 DEF Admit
      <4> QED
        BY <4>1, <4>2, <1>0
    <3>3. CASE TurnSucceeds(h)
      BY <3>3 DEF TurnSucceeds
    <3> QED
      BY <2>1, <3>1, <3>2, <3>3 DEF Handle
  <2>5. ASSUME NEW g \in Handlers, handler[g] # Idle, Key(g) = <<i, k>>
        PROVE  Carried(i, k)'
    <3>1. CASE g = h
      BY <3>1, <2>4, <2>5 DEF Carried, Key
    <3>2. CASE g # h
      BY <3>2, <2>3, <2>5 DEF Carried, Key
    <3> QED
      BY <3>1, <3>2
  <2> QED
    BY <1>0, <2>2, <2>5 DEF Carried
<1> QED
  BY <1>1, <1>2

LEMMA CarriedStays ==
  ASSUME Calm, Base, \A r \in Runners : up[r], [Next]_vars,
         NEW i \in Instances, NEW k \in Keys, Carried(i, k)
  PROVE  Carried(i, k)'
<1>1. CASE UNCHANGED <<processed, queue, handler>>
  BY <1>1 DEF Carried, Key
<1>2. CASE \E h \in Handlers : Handle(h) \/ \E r \in Runners : Consume(h, r)
  BY <1>2, CarriedByRunner
<1>3. CASE /\ \E m \in Message : queue' = Append(queue, m)
           /\ UNCHANGED <<processed, handler>>
  <2>1. PICK m \in Message : queue' = Append(queue, m)
    BY <1>3
  <2>2. \A n \in 1 .. Len(queue) : n \in 1 .. Len(queue') /\ queue'[n] = queue[n]
    BY <2>1 DEF Base, TypeOK
  <2> QED
    BY <1>3, <2>2 DEF Carried, Key
<1>4. CASE Publish \/ PublishFails
  <2>1. MessageOf(FirstOf(batch)) \in Message
    BY <1>4, FirstInBatch, MessageType DEF Publish, PublishFails, Base, TypeOK
  <2>2. queue' = queue \/ queue' = Append(queue, MessageOf(FirstOf(batch)))
    BY <1>4 DEF Publish, PublishFails
  <2>3. UNCHANGED <<processed, handler>>
    BY <1>4 DEF Publish, PublishFails
  <2> QED
    BY <2>1, <2>2, <2>3, <1>1, <1>3
<1>5. CASE \/ \E e \in Deliveries, targets \in SUBSET Instances : Ingest(e, targets)
           \/ Poll \/ MarkPublished \/ MarkFails \/ HubRestart \/ RequeueStale
           \/ \E j \in Instances : Unload(j) \/ RequeueInstance(j)
           \/ \E r \in Runners : Restart(r)
  BY <1>5, <1>1 DEF Ingest, Poll, MarkPublished, MarkFails, HubRestart, RequeueStale, Unload,
                    RequeueInstance, Restart
<1>6. CASE \/ \E h \in Handlers : TurnFails(h)
           \/ \E j \in Instances : StopInstance(j)
           \/ \E r \in Runners : Crash(r)
  BY <1>6 DEF Calm, Fault, TurnFails, StopInstance, Crash
<1>7. CASE UNCHANGED vars
  BY <1>7, <1>1 DEF vars
<1> QED
  BY <1>2, <1>4, <1>5, <1>6, <1>7 DEF Next, Worker

\* No row is rewritten: an id means the same row for ever.
LEMMA RowStays ==
  ASSUME Base, Ledger', outbox \subseteq outbox'
  PROVE  \A id \in Ids : (CHOOSE m \in outbox' : m.id = id) = RowOf(id)
<1> SUFFICES ASSUME NEW id \in Ids
             PROVE  (CHOOSE m \in outbox' : m.id = id) = RowOf(id)
  OBVIOUS
<1>1. RowOf(id) \in outbox /\ RowOf(id).id = id
  BY MessageType DEF Base, TypeOK
<1>2. \A m \in outbox' : m.id = id => m = RowOf(id)
  BY <1>1 DEF Ledger
<1> QED
  BY <1>1, <1>2

\* The row the worker is about to mark was handed on.
LEMMA HandedOn ==
  ASSUME Base, Moving, [Next]_vars, Base', outbox \subseteq outbox',
         \A i \in Instances, k \in Keys : Carried(i, k) => Carried(i, k)',
         stage' = "mark", batch' # {}
  PROVE  Carried(MessageOf(FirstOf(batch)).ins, KeyOf[MessageOf(FirstOf(batch)).ev])'
<1> DEFINE M == MessageOf(FirstOf(batch))
<1>1. batch' = batch /\ (stage = "mark" \/ Publish)
  BY DEF vars, Next, Worker, Poll, Publish, MarkPublished, PublishFails, MarkFails, HubRestart,
         Handle, Forward, Admit, TurnSucceeds, TurnFails, Consume, Unload, StopInstance, Crash,
         Restart, RequeueStale, RequeueInstance, Ingest, workerVars
<1>2. FirstOf(batch) \in Ids
  BY <1>1, FirstInBatch
<1>3. M \in Message /\ M.ins \in Instances /\ KeyOf[M.ev] \in Keys
  <2>1. M \in Message
    BY <1>2, MessageType DEF Base, TypeOK
  <2> QED
    BY <2>1, DeliveryAssumption DEF Message
<1>4. M' = M
  <2>1. Ledger'
    BY DEF Base
  <2>2. (CHOOSE m \in outbox' : m.id = FirstOf(batch)) = RowOf(FirstOf(batch))
    BY <1>2, <2>1, RowStays
  <2>3. RowOf(FirstOf(batch))' = RowOf(FirstOf(batch))
    BY <1>1, <2>2 DEF RowOf
  <2> QED
    BY <2>3 DEF MessageOf
<1>5. Carried(M.ins, KeyOf[M.ev])'
  <2>1. CASE stage = "mark"
    <3>1. Carried(M.ins, KeyOf[M.ev])
      BY <1>1, <2>1 DEF Moving
    <3>2. ASSUME NEW i \in Instances, NEW k \in Keys, i = M.ins, k = KeyOf[M.ev]
          PROVE  /\ Carried(i, k)'
                 /\ i = M'.ins /\ k = KeyOf[M'.ev]
      BY <3>1, <3>2, <1>4
    <3> HIDE DEF M
    <3> QED
      BY <1>3, <3>2 DEF Carried
  <2>2. CASE Publish
    <3>1. queue' = Append(queue, M) /\ queue \in Seq(Message)
      BY <2>2 DEF Publish, Base, TypeOK
    <3>2. Len(queue') \in 1 .. Len(queue') /\ queue'[Len(queue')] = M
      BY <3>1, <1>3
    <3> HIDE DEF M
    <3> QED
      BY <1>4, <3>2 DEF Carried
  <2> QED
    BY <1>1, <2>1, <2>2
<1> QED
  BY <1>5

LEMMA MovingStep == Calm /\ Base /\ Moving /\ [Next]_vars => Moving'
<1> SUFFICES ASSUME Calm, Base, Moving, [Next]_vars PROVE Moving'
  OBVIOUS
<1>1. Base'
  BY BaseStep
<1>2. \A r \in Runners : up[r]
  BY DEF Moving
<1>3. \A i \in Instances, k \in Keys : Carried(i, k) => Carried(i, k)'
  BY <1>2, CarriedStays
<1>4. \A r \in Runners : up'[r]
  <2>1. up' = up
    BY <1>2 DEF Calm, Fault, vars, Next, Worker, Poll, Publish, MarkPublished, PublishFails,
      MarkFails, HubRestart, Handle, Forward, Admit, TurnSucceeds, TurnFails, Consume, Unload,
      StopInstance, Crash, Restart, RequeueStale, RequeueInstance, Ingest
  <2> QED
    BY <1>2, <2>1
<1>5. \/ \E e \in Deliveries, targets \in SUBSET Instances : Ingest(e, targets)
      \/ /\ RequeueStale \/ \E i \in Instances : RequeueInstance(i)
         /\ UNCHANGED <<journal, published, batch>>
      \/ MarkPublished
      \/ UNCHANGED <<journal, outbox, published>>
  BY DEF vars, Next, Worker, Poll, Publish, PublishFails, MarkFails, HubRestart, Handle, Forward,
      Admit, TurnSucceeds, TurnFails, Consume, Unload, StopInstance, Crash, Restart, RequeueStale,
      RequeueInstance, hubVars, workerVars
<1>6. ASSUME NEW i \in Instances, NEW k \in Keys, journal'[<<i, k>>] # None,
             Carried(i, k)' \/ journal[<<i, k>>] = None \/ Waiting(i, k)
      PROVE  outbox \subseteq outbox' /\ (Waiting(i, k)' \/ Carried(i, k)')
  <2>1. CASE \E e \in Deliveries, targets \in SUBSET Instances : Ingest(e, targets)
    <3>1. PICK e \in Deliveries, targets \in SUBSET Instances : Ingest(e, targets)
      BY <2>1
    <3> DEFINE msgs == IF targets = {} THEN {} ELSE FanOut(e, targets)
    <3>2. outbox \subseteq Row /\ Ledger /\ Insert(msgs) /\ published' = published
      BY <3>1 DEF Base, TypeOK, Ingest
    <3>3. msgs = FanOut(e, targets) /\ IsFiniteSet(msgs) /\ msgs \in SUBSET Message
      BY FanOutFinite DEF FanOut
    <3> HIDE DEF msgs
    <3>4. /\ outbox \subseteq outbox'
          /\ \A m \in msgs : \E n \in outbox' : n.ev = m.ev /\ n.ins = m.ins /\ n.id \notin Ids
      BY <3>2, <3>3, InsertLemma
    <3>5. CASE journal[<<i, k>>] = None
      <4>1. i \in targets /\ k = KeyOf[e]
        BY <3>1, <3>5, <1>6 DEF Ingest
      <4>2. [ev |-> e, ins |-> i] \in msgs
        BY <3>3, <4>1 DEF FanOut
      <4>3. PICK n \in outbox' : n.ev = e /\ n.ins = i /\ n.id \notin Ids
        BY <3>4, <4>2
      <4> QED
        BY <3>2, <3>4, <4>1, <4>3 DEF Waiting, Base, Marks
    <3>6. CASE Waiting(i, k)
      BY <3>2, <3>4, <3>6 DEF Waiting
    <3> QED
      BY <1>6, <3>4, <3>5, <3>6
  <2>2. CASE /\ RequeueStale \/ \E j \in Instances : RequeueInstance(j)
             /\ UNCHANGED <<journal, published, batch>>
    <3>1. PICK targets : Insert(Unfinished(targets))
      BY <2>2 DEF RequeueStale, RequeueInstance
    <3>2. outbox \subseteq outbox'
      BY <2>2, <3>1, RequeueKeeps
    <3> QED
      BY <1>6, <2>2, <3>2 DEF Waiting
  <2>3. CASE MarkPublished
    <3>1. /\ batch # {} /\ stage = "mark" /\ UNCHANGED <<journal, outbox>>
          /\ published' = published \cup {FirstOf(batch)}
      BY <2>3 DEF MarkPublished, MarkOne, hubVars
    <3>2. CASE Waiting(i, k)
      <4>1. PICK m \in outbox : m.ins = i /\ KeyOf[m.ev] = k /\ m.id \notin published
        BY <3>2 DEF Waiting
      <4>2. CASE m.id # FirstOf(batch)
        BY <3>1, <4>1, <4>2 DEF Waiting
      <4>3. CASE m.id = FirstOf(batch)
        <5>1. m.id \in Ids
          BY DEF Ids
        <5>2. RowOf(m.id) \in outbox /\ RowOf(m.id).id = m.id
          BY <5>1, MessageType DEF Base, TypeOK
        <5>3. RowOf(m.id) = m
          BY <5>2 DEF Base, Ledger
        <5>4. MessageOf(m.id).ins = i /\ KeyOf[MessageOf(m.id).ev] = k
          BY <4>1, <5>3 DEF MessageOf
        <5>5. Carried(i, k)
          BY <3>1, <4>3, <5>4 DEF Moving
        <5> QED
          BY <3>1, <5>5, <1>3
      <4> QED
        BY <3>1, <4>2, <4>3
    <3> QED
      BY <1>6, <3>1, <3>2
  <2>4. CASE UNCHANGED <<journal, outbox, published>>
    BY <1>6, <2>4 DEF Waiting
  <2> QED
    BY <1>5, <2>1, <2>2, <2>3, <2>4
<1>7. \A i \in Instances, k \in Keys : Pending(i, k)' => Waiting(i, k)' \/ Carried(i, k)'
  <2> SUFFICES ASSUME NEW i \in Instances, NEW k \in Keys, Pending(i, k)'
               PROVE  Waiting(i, k)' \/ Carried(i, k)'
    OBVIOUS
  <2>1. journal'[<<i, k>>] # None
    BY DEF Pending
  <2>2. CASE <<i, k>> \in processed
    BY <2>2, <1>3 DEF Carried
  <2>3. CASE journal[<<i, k>>] = None
    BY <2>1, <2>3, <1>6
  <2>4. CASE Pending(i, k)
    BY <2>1, <2>4, <1>3, <1>6 DEF Moving
  <2> QED
    BY <2>2, <2>3, <2>4 DEF Pending
<1>8. outbox \subseteq outbox'
  <2>1. CASE \E e \in Deliveries, targets \in SUBSET Instances : Ingest(e, targets)
    BY <2>1 DEF Ingest, Insert
  <2>2. CASE RequeueStale \/ \E i \in Instances : RequeueInstance(i)
    BY <2>2 DEF RequeueStale, RequeueInstance, Insert
  <2>3. CASE MarkPublished \/ UNCHANGED <<journal, outbox, published>>
    BY <2>3 DEF MarkPublished, hubVars
  <2> QED
    BY <1>5, <2>1, <2>2, <2>3
<1>9. stage' = "mark" /\ batch' # {} =>
        Carried(MessageOf(FirstOf(batch)).ins, KeyOf[MessageOf(FirstOf(batch)).ev])'
  BY <1>1, <1>3, <1>8, HandedOn
<1> QED
  BY <1>4, <1>7, <1>9 DEF Moving

\* The worker marks a row only after the broker confirmed it, and the runners
\* hand a message on until its row is processed: whatever publish, mark or
\* restart of the hub fails, an unfinished Event is in an unpublished row, in
\* the queue or with a runner.  (A turn that fails, a stop and a crash do drop
\* it: auto-ack.)
THEOREM InMotionThm ==
  ASSUME Calm
  PROVE  Spec => []InMotion
<1>1. Init => Moving
  BY DEF Init, Moving, Pending
<1>2. Moving => InMotion
  BY DEF Moving, InMotion, Pending, Waiting, Carried
<1>3. Base /\ Moving /\ [Next]_vars => Moving'
  BY MovingStep
<1> QED
  BY <1>1, <1>2, <1>3, BaseThm, PTL DEF Spec

=============================================================================
