------------------------- MODULE RunnerServiceProofs -------------------------
(* Theorems about RunnerService, for every number of runners, instances,    *)
(* coroutines and slots.  In every environment: type correctness, the       *)
(* accounting of slots, and what LocalInstance.lock and the idle pass       *)
(* guarantee (TurnsSerialized, ReapsOnlyIdle).                              *)
(* With one slot, on runners that only idle passes stop: RaisedIsHeld,      *)
(* TurnHasSlot and SingleTurn.                                              *)
EXTENDS RunnerService, FiniteSetTheorems, TLAPS

-----------------------------------------------------------------------------
(* The inductive invariant behind type correctness: a coroutine that exists *)
(* has a runner and an instance, one that handles an Event has its key, and *)
(* a running row has a holder.                                              *)

WellFormed(c) ==
  \/ c = NoTask
  \/ /\ c.run \in Runners /\ c.ins \in Instances
     /\ c.kind \in {"event", "skip"} => c.key \in Keys
     /\ c.pc \in {"peek", "forward", "begin", "mark"} => c.kind \in {"event", "skip"}

HeldRows == \A i \in Instances : status[i] = "running" => holder[i] \in Runners

TypeInv == TypeOK /\ HeldRows /\ \A t \in Tasks : WellFormed(task[t])

\* The parts of TypeInv that the helpers touch.
TasksOK(f) == f \in [Tasks -> Coroutine] /\ \A t \in Tasks : WellFormed(f[t])
LocksOK == locked \in [Objects -> Tasks \cup {None}] /\ lockq \in [Objects -> Seq(Tasks)]

-----------------------------------------------------------------------------
(* What the shared pieces preserve.                                         *)

\* Writing one well-formed coroutine keeps all of them well-formed.
LEMMA BecomeOK ==
  ASSUME TypeInv, NEW t \in Tasks, NEW c \in Coroutine, WellFormed(c), Become(t, c)
  PROVE  TasksOK(task')
  BY DEF TypeInv, TypeOK, Become, TasksOK

\* The absent coroutine is one.
LEMMA NoTaskOK == NoTask \in Coroutine /\ WellFormed(NoTask)
  BY DEF NoTask, Coroutine, PCs, Kinds, WellFormed

\* A coroutine that ends leaves the absent one behind.
LEMMA FinishOK ==
  ASSUME TypeInv, NEW t \in Tasks, Finish(t)
  PROVE  TasksOK(task')
  BY BecomeOK, NoTaskOK DEF Finish

\* Moving a coroutine on to a pc that asks nothing of its kind.
LEMMA GotoOK ==
  ASSUME TypeInv, NEW t \in Tasks, NEW pc \in PCs, task[t] # NoTask,
         pc \in {"peek", "forward", "begin", "mark"} => task[t].kind \in {"event", "skip"},
         Goto(t, pc)
  PROVE  TasksOK(task')
<1>1. task[t] \in Coroutine /\ WellFormed(task[t])
  BY DEF TypeInv, TypeOK
<1>2. [task[t] EXCEPT !.pc = pc] \in Coroutine
  BY <1>1 DEF Coroutine
<1>3. WellFormed([task[t] EXCEPT !.pc = pc])
  BY <1>1 DEF Coroutine, WellFormed
<1> QED BY <1>2, <1>3, BecomeOK DEF Goto

\* A coroutine that is at some pc other than "none" exists.
LEMMA Exists ==
  ASSUME NEW t, task[t].pc # "none"
  PROVE  task[t] # NoTask
  BY DEF NoTask

\* asyncio.Lock.acquire.
LEMMA TakeLockOK ==
  ASSUME TypeInv, NEW t \in Tasks, NEW c \in Coroutine, WellFormed(c), c # NoTask,
         NEW o \in Objects \cup {None}, TakeLock(t, c, o, "context", "lock")
  PROVE  TasksOK(task') /\ LocksOK'
<1>0. lockq \in [Objects -> Seq(Tasks)] /\ locked \in [Objects -> Tasks \cup {None}]
  BY DEF TypeInv, TypeOK
<1>1. LocksOK'
  <2>1. CASE locked' = [locked EXCEPT ![o] = t] /\ lockq' = lockq
    BY <1>0, <2>1 DEF LocksOK
  <2>2. CASE lockq' = [lockq EXCEPT ![o] = Append(@, t)] /\ locked' = locked
    <3>1. o \in Objects => Append(lockq[o], t) \in Seq(Tasks)
      BY <1>0
    <3> QED BY <1>0, <2>2, <3>1 DEF LocksOK
  <2> QED BY <2>1, <2>2 DEF TakeLock
<1>2. \A pc \in {"context", "lock"} :
        /\ [c EXCEPT !.pc = pc, !.obj = o] \in Coroutine
        /\ WellFormed([c EXCEPT !.pc = pc, !.obj = o])
  BY DEF Coroutine, PCs, WellFormed
<1> QED BY <1>1, <1>2, BecomeOK DEF TakeLock

\* Fields of a coroutine that was assembled field by field.
LEMMA FieldsOK ==
  ASSUME NEW c \in Coroutine, WellFormed(c), c # NoTask, NEW o \in Objects,
         NEW pc \in PCs \ {"peek", "forward", "begin", "mark"}
  PROVE  /\ [c EXCEPT !.pc = pc, !.obj = o] \in Coroutine
         /\ WellFormed([c EXCEPT !.pc = pc, !.obj = o])
         /\ [c EXCEPT !.pc = pc] \in Coroutine
         /\ WellFormed([c EXCEPT !.pc = pc])
  BY DEF Coroutine, WellFormed

\* What _raise's caller does with the LocalInstance it got.
LEMMA AttachOK ==
  ASSUME TypeInv, NEW t \in Tasks, NEW c \in Coroutine, WellFormed(c), c # NoTask,
         NEW o \in Objects, Attach(t, c, o)
  PROVE  /\ TasksOK(task') /\ LocksOK'
         /\ idle' \in [Objects -> BOOLEAN]
         /\ hubCalls' \subseteq HubCall
<1>0. /\ LocksOK
      /\ idle \in [Objects -> BOOLEAN]
      /\ hubCalls \subseteq HubCall
  BY DEF TypeInv, TypeOK, LocksOK
<1>1. idle' \in [Objects -> BOOLEAN]
  BY <1>0 DEF Attach, Touch
<1>2. CASE /\ c.kind = "event"
           /\ Become(t, [c EXCEPT !.pc = "begin", !.obj = o])
           /\ UNCHANGED <<locked, lockq, hubCalls>>
  <2>1. /\ [c EXCEPT !.pc = "begin", !.obj = o] \in Coroutine
        /\ WellFormed([c EXCEPT !.pc = "begin", !.obj = o])
    BY <1>2 DEF Coroutine, PCs, WellFormed
  <2> QED BY <1>0, <1>1, <1>2, <2>1, BecomeOK DEF LocksOK
<1>3. CASE TakeLock(t, c, o, "context", "lock") /\ UNCHANGED hubCalls
  BY <1>0, <1>1, <1>3, TakeLockOK
<1>4. CASE /\ Become(t, [c EXCEPT !.pc = IF TermHeld(o) THEN "termwait" ELSE "term",
                                  !.obj = o])
           /\ UNCHANGED <<locked, lockq, hubCalls>>
  <2>1. (IF TermHeld(o) THEN "termwait" ELSE "term") \in PCs \ {"peek", "forward", "begin", "mark"}
    BY DEF PCs
  <2> QED BY <1>0, <1>1, <1>4, <2>1, FieldsOK, BecomeOK DEF LocksOK
<1>5. CASE /\ Finish(t)
           /\ hubCalls' \in {hubCalls, hubCalls \cup Answer(c)}
           /\ UNCHANGED <<locked, lockq>>
  <2>1. Answer(c) \subseteq HubCall
    BY DEF Answer, HubCall, WellFormed
  <2> QED BY <1>0, <1>1, <1>5, <2>1, FinishOK DEF LocksOK
<1> QED BY <1>2, <1>3, <1>4, <1>5 DEF Attach

\* _raise up to its first await.
LEMMA EnterRaiseOK ==
  ASSUME TypeInv, NEW t \in Tasks, NEW c \in Coroutine, WellFormed(c), c # NoTask,
         EnterRaise(t, c)
  PROVE  /\ TasksOK(task') /\ LocksOK'
         /\ idle' \in [Objects -> BOOLEAN]
         /\ hubCalls' \subseteq HubCall
         /\ free' \in [Runners -> Nat]
         /\ waitq' \in [Runners -> Seq(Tasks)]
<1> DEFINE o == local[c.run][c.ins]
<1>0. /\ LocksOK
      /\ idle \in [Objects -> BOOLEAN]
      /\ hubCalls \subseteq HubCall
      /\ free \in [Runners -> Nat]
      /\ waitq \in [Runners -> Seq(Tasks)]
      /\ c.run \in Runners /\ c.ins \in Instances
      /\ o \in Objects \cup {None}
  BY DEF TypeInv, TypeOK, LocksOK, WellFormed
<1>1. CASE o # None /\ Attach(t, c, o) /\ UNCHANGED semVars
  BY <1>0, <1>1, AttachOK DEF semVars
<1>2. CASE /\ SlotFree(c.run)
           /\ free' = [free EXCEPT ![c.run] = @ - 1]
           /\ Become(t, [c EXCEPT !.pc = "raise"])
           /\ UNCHANGED <<waitq, objVars, hubCalls>>
  <2>1. free' \in [Runners -> Nat]
    BY <1>0, <1>2 DEF SlotFree
  <2>2. [c EXCEPT !.pc = "raise"] \in Coroutine /\ WellFormed([c EXCEPT !.pc = "raise"])
    BY DEF Coroutine, PCs, WellFormed
  <2> QED BY <1>0, <1>2, <2>1, <2>2, BecomeOK DEF LocksOK, objVars
<1>3. CASE /\ waitq' = [waitq EXCEPT ![c.run] = Append(@, t)]
           /\ Become(t, [c EXCEPT !.pc = "slot"])
           /\ UNCHANGED <<free, objVars, hubCalls>>
  <2>1. Append(waitq[c.run], t) \in Seq(Tasks)
    BY <1>0
  <2>2. waitq' \in [Runners -> Seq(Tasks)]
    BY <1>0, <1>3, <2>1
  <2>3. [c EXCEPT !.pc = "slot"] \in Coroutine /\ WellFormed([c EXCEPT !.pc = "slot"])
    BY DEF Coroutine, PCs, WellFormed
  <2> QED BY <1>0, <1>3, <2>2, <2>3, BecomeOK DEF LocksOK, objVars
<1> QED BY <1>1, <1>2, <1>3 DEF EnterRaise

\* A fresh coroutine of the given kind.
LEMMA NewTaskOK ==
  ASSUME NEW kind \in Kinds, NEW r \in Runners, NEW i \in Instances, NEW k \in Keys \cup {None},
         kind \in {"event", "skip"} => k \in Keys
  PROVE  /\ NewTask(kind, r, i, k) \in Coroutine
         /\ WellFormed(NewTask(kind, r, i, k))
         /\ NewTask(kind, r, i, k) # NoTask
  BY RunnerAssumption DEF NewTask, Coroutine, PCs, WellFormed, NoTask, RunnerAssumption

\* handle_event up to its first await.
LEMMA HandleEventOK ==
  ASSUME TypeInv, NEW t \in Tasks, NEW r \in Runners, NEW i \in Instances, NEW k \in Keys,
         HandleEvent(t, r, i, k)
  PROVE  TasksOK(task') /\ idle' \in [Objects -> BOOLEAN]
<1>0. idle \in [Objects -> BOOLEAN] /\ local[r][i] \in Objects \cup {None}
  BY DEF TypeInv, TypeOK
<1>1. CASE Become(t, [NewTask("skip", r, i, k) EXCEPT !.pc = "begin"]) /\ UNCHANGED idle
  <2>1. /\ [NewTask("skip", r, i, k) EXCEPT !.pc = "begin"] \in Coroutine
        /\ WellFormed([NewTask("skip", r, i, k) EXCEPT !.pc = "begin"])
    BY DEF NewTask, Coroutine, PCs, Kinds, WellFormed
  <2> QED BY <1>0, <1>1, <2>1, BecomeOK
<1>2. CASE /\ local[r][i] # None
           /\ Become(t, [NewTask("event", r, i, k) EXCEPT !.pc = "begin", !.obj = local[r][i]])
           /\ Touch(local[r][i])
  <2>1. \A o \in Objects :
          /\ [NewTask("event", r, i, k) EXCEPT !.pc = "begin", !.obj = o] \in Coroutine
          /\ WellFormed([NewTask("event", r, i, k) EXCEPT !.pc = "begin", !.obj = o])
    BY DEF NewTask, Coroutine, PCs, Kinds, WellFormed
  <2> QED BY <1>0, <1>2, <2>1, BecomeOK DEF Touch
<1>3. CASE Become(t, [NewTask("event", r, i, k) EXCEPT !.pc = "peek"]) /\ UNCHANGED idle
  <2>1. /\ [NewTask("event", r, i, k) EXCEPT !.pc = "peek"] \in Coroutine
        /\ WellFormed([NewTask("event", r, i, k) EXCEPT !.pc = "peek"])
    BY DEF NewTask, Coroutine, PCs, Kinds, WellFormed
  <2> QED BY <1>0, <1>3, <2>1, BecomeOK
<1> QED BY <1>1, <1>2, <1>3 DEF HandleEvent

\* stop_instance up to its first await.
LEMMA StopInstanceOK ==
  ASSUME TypeInv, NEW t \in Tasks, NEW r \in Runners, NEW i \in Instances,
         NEW kind \in {"stop", "reap"}, NEW lk \in [Objects -> Tasks \cup {None}],
         StopInstance(t, r, i, kind, lk)
  PROVE  /\ TasksOK(task') /\ LocksOK'
         /\ local' \in [Runners -> [Instances -> Objects \cup {None}]]
<1> DEFINE o == local[r][i]
           ready == lk[o] = None /\ lockq[o] = <<>>
           c == [NewTask(kind, r, i, None) EXCEPT !.obj = o,
                                                 !.pc = IF ready THEN "release" ELSE "stoplock"]
<1>0. /\ o \in Objects
      /\ local \in [Runners -> [Instances -> Objects \cup {None}]]
      /\ lockq \in [Objects -> Seq(Tasks)]
      /\ task \in [Tasks -> Coroutine]
      /\ \A x \in Tasks : WellFormed(task[x])
  BY DEF TypeInv, TypeOK, StopInstance
<1>1. local' \in [Runners -> [Instances -> Objects \cup {None}]]
  BY <1>0 DEF StopInstance
<1>2. c \in Coroutine /\ WellFormed(c)
  BY <1>0, RunnerAssumption
  DEF NewTask, Coroutine, PCs, Kinds, WellFormed, RunnerAssumption
<1>3. ASSUME NEW x \in Tasks, At(x, "turn")
      PROVE  /\ [task[x] EXCEPT !.pc = "cancel"] \in Coroutine
             /\ WellFormed([task[x] EXCEPT !.pc = "cancel"])
  <2>1. task[x].pc # "none"
    BY <1>3 DEF At
  <2>2. task[x] # NoTask /\ task[x] \in Coroutine /\ WellFormed(task[x])
    BY <1>0, <2>1, Exists
  <2>3. "cancel" \in PCs \ {"peek", "forward", "begin", "mark"}
    BY DEF PCs
  <2> QED BY <1>0, <2>2, <2>3, FieldsOK
<1>4. TasksOK(task')
  <2> DEFINE victim(x) == x = lk[o] /\ At(x, "turn") /\ task[x].kind = "event"
             next(x) == IF x = t THEN c
                        ELSE IF victim(x) THEN [task[x] EXCEPT !.pc = "cancel"]
                        ELSE task[x]
  <2>1. task' = [x \in Tasks |-> next(x)]
    BY DEF StopInstance
  <2>2. ASSUME NEW x \in Tasks
        PROVE  next(x) \in Coroutine /\ WellFormed(next(x))
    <3>1. CASE x = t
      BY <1>2, <3>1
    <3>2. CASE x # t /\ victim(x)
      <4>1. At(x, "turn")
        BY <3>2
      <4> HIDE DEF c
      <4> QED BY <1>3, <3>2, <4>1
    <3>3. CASE x # t /\ ~victim(x)
      <4>1. next(x) = task[x]
        BY <3>3
      <4> HIDE DEF next
      <4> QED BY <1>0, <4>1
    <3> QED BY <3>1, <3>2, <3>3
  <2> HIDE DEF next
  <2> QED BY <2>1, <2>2 DEF TasksOK
<1>5. LocksOK'
  <2>1. Append(lockq[o], t) \in Seq(Tasks)
    BY <1>0
  <2>2. locked' \in [Objects -> Tasks \cup {None}]
    BY <1>0 DEF StopInstance
  <2>3. lockq' \in [Objects -> Seq(Tasks)]
    BY <1>0, <2>1 DEF StopInstance
  <2> QED BY <2>2, <2>3 DEF LocksOK
<1> QED BY <1>1, <1>4, <1>5

\* reap_idle from one await to the next.
LEMMA UnloadNextOK ==
  ASSUME TypeInv, NEW t \in Tasks, NEW r \in Runners, NEW s \in SUBSET (Instances \X Objects),
         NEW lk \in [Objects -> Tasks \cup {None}],
         UnloadNext(t, r, s, lk)
  PROVE  /\ TasksOK(task') /\ LocksOK'
         /\ local' \in [Runners -> [Instances -> Objects \cup {None}]]
         /\ sweep' \in [Runners -> SUBSET (Instances \X Objects)]
<1>0. /\ sweep \in [Runners -> SUBSET (Instances \X Objects)]
      /\ lockq \in [Objects -> Seq(Tasks)]
      /\ local \in [Runners -> [Instances -> Objects \cup {None}]]
  BY DEF TypeInv, TypeOK
<1>1. CASE \E p \in {q \in s : Unloadable(r, q, lk)} :
             /\ StopInstance(t, r, p[1], "reap", lk)
             /\ \E rest \in SUBSET (s \ {p}) : sweep' = [sweep EXCEPT ![r] = rest]
  <2>1. PICK p \in s : /\ StopInstance(t, r, p[1], "reap", lk)
                       /\ \E rest \in SUBSET (s \ {p}) : sweep' = [sweep EXCEPT ![r] = rest]
    BY <1>1
  <2>2. p[1] \in Instances
    BY <2>1
  <2>3. sweep' \in [Runners -> SUBSET (Instances \X Objects)]
    BY <1>0, <2>1
  <2> QED BY <2>1, <2>2, <2>3, StopInstanceOK
<1>2. CASE /\ Finish(t)
           /\ sweep' = [sweep EXCEPT ![r] = {}]
           /\ locked' = lk
           /\ UNCHANGED <<local, lockq>>
  <2>1. sweep' \in [Runners -> SUBSET (Instances \X Objects)]
    BY <1>0, <1>2
  <2> QED BY <1>0, <1>2, <2>1, FinishOK DEF LocksOK
<1> QED BY <1>1, <1>2 DEF UnloadNext

\* The rows, as far as TypeInv is about them.
RowsOK ==
  /\ status \in [Instances -> {"down", "running"}]
  /\ holder \in [Instances -> Runners \cup {None}]
  /\ HeldRows

\* A claim that takes effect.
LEMMA ClaimOK ==
  ASSUME TypeInv, NEW i \in Instances, NEW r \in Runners,
         status' = [status EXCEPT ![i] = "running"],
         holder' = [holder EXCEPT ![i] = r]
  PROVE  RowsOK'
  BY DEF TypeInv, TypeOK, HeldRows, RowsOK

\* A cancelled waiter leaves its queue.
LEMMA WithoutOK ==
  ASSUME NEW q \in Seq(Tasks), NEW t \in Tasks
  PROVE  Without(q, t) \in Seq(Tasks)
<1> DEFINE n == CHOOSE m \in 1 .. Len(q) : q[m] = t
           f == [m \in 1 .. Len(q) - 1 |-> IF m < n THEN q[m] ELSE q[m + 1]]
<1> HIDE DEF n
<1>1. ASSUME NEW m \in 1 .. Len(q) - 1
      PROVE  (IF m < n THEN q[m] ELSE q[m + 1]) \in Tasks
  OBVIOUS
<1>2. CASE Len(q) = 0
  <2>1. 1 .. Len(q) - 1 = 1 .. 0
    BY <1>2
  <2> QED BY <1>1, <2>1 DEF Without, n
<1>3. CASE Len(q) # 0
  <2>1. Len(q) - 1 \in Nat
    BY <1>3
  <2>2. f \in Seq(Tasks)
    BY <1>1, <2>1
  <2> QED BY <2>2 DEF Without, n
<1> QED BY <1>2, <1>3

-----------------------------------------------------------------------------
(* Type correctness, one step per action.                                   *)

\* The steps of the Event path up to the claim keep the types.
LEMMA EventStepsOK ==
  ASSUME TypeInv, NEW t \in Tasks,
         \/ PeekHolder(t) \/ Forward(t) \/ BeginEvent(t) \/ MarkProcessed(t)
  PROVE  TypeInv'
<1> USE DEF dbVars, semVars, objVars
<1>0. /\ task[t] \in Coroutine /\ WellFormed(task[t])
      /\ LocksOK /\ RowsOK
      /\ idle \in [Objects -> BOOLEAN]
      /\ processed \subseteq Instances \X Keys
      /\ up \in [Runners -> BOOLEAN]
  BY DEF TypeInv, TypeOK, LocksOK, RowsOK
<1>1. CASE PeekHolder(t)
  <2>0. task[t] # NoTask /\ task[t].run \in Runners /\ task[t].ins \in Instances
    BY <1>0, <1>1 DEF PeekHolder, At, WellFormed, NoTask
  <2>1. CASE /\ HeldByOther(task[t].run, task[t].ins)
             /\ Become(t, [task[t] EXCEPT !.pc = "forward", !.run = holder[task[t].ins]])
             /\ UNCHANGED <<semVars, objVars, hubCalls>>
    <3>1. holder[task[t].ins] \in Runners
      BY <1>0, <2>0, <2>1 DEF HeldByOther, RowsOK, HeldRows
    <3>2. \A h \in Runners :
            /\ [task[t] EXCEPT !.pc = "forward", !.run = h] \in Coroutine
            /\ WellFormed([task[t] EXCEPT !.pc = "forward", !.run = h])
      BY <1>0, <1>1, <2>0 DEF Coroutine, PCs, WellFormed, PeekHolder, At
    <3>3. TasksOK(task')
      BY <2>1, <3>1, <3>2, BecomeOK
    <3> QED BY <1>1, <2>1, <3>3 DEF PeekHolder, TypeInv, TypeOK, HeldRows, TasksOK
  <2>2. CASE EnterRaise(t, task[t])
    <3>1. /\ TasksOK(task') /\ LocksOK'
          /\ idle' \in [Objects -> BOOLEAN]
          /\ hubCalls' \subseteq HubCall
          /\ free' \in [Runners -> Nat]
          /\ waitq' \in [Runners -> Seq(Tasks)]
      BY <1>0, <2>0, <2>2, EnterRaiseOK
    <3> QED BY <1>1, <3>1 DEF PeekHolder, TypeInv, TypeOK, HeldRows, TasksOK, LocksOK
  <2> QED BY <1>1, <2>1, <2>2 DEF PeekHolder
<1>2. CASE Forward(t)
  <2>0. /\ task[t].run \in Runners /\ task[t].ins \in Instances /\ task[t].key \in Keys
    BY <1>0, <1>2 DEF Forward, At, WellFormed, NoTask
  <2>1. TasksOK(task') /\ idle' \in [Objects -> BOOLEAN]
    BY <1>0, <1>2, <2>0, HandleEventOK, FinishOK DEF Forward
  <2> QED BY <1>2, <2>1 DEF Forward, TypeInv, TypeOK, HeldRows, TasksOK
<1>3. CASE BeginEvent(t)
  <2>0. task[t] # NoTask /\ task[t].obj \in Objects \cup {None} /\ task[t].kind \in {"event", "skip"}
    BY <1>0, <1>3 DEF BeginEvent, At, WellFormed, NoTask, Coroutine
  <2>1. CASE Finish(t) /\ UNCHANGED <<locked, lockq>>
             /\ idle' = [o \in Objects |-> IF o = task[t].obj THEN FALSE ELSE idle[o]]
    <3>1. TasksOK(task') /\ idle' \in [Objects -> BOOLEAN]
      BY <1>0, <2>1, FinishOK
    <3> QED BY <1>3, <2>1, <3>1 DEF BeginEvent, TypeInv, TypeOK, HeldRows, TasksOK
  <2>2. CASE Goto(t, "mark") /\ UNCHANGED objVars
    <3>1. TasksOK(task')
      BY <2>0, <2>2, GotoOK DEF PCs
    <3> QED BY <1>3, <2>2, <3>1 DEF BeginEvent, TypeInv, TypeOK, HeldRows, TasksOK
  <2>3. CASE /\ TakeLock(t, task[t], task[t].obj, "context", "lock")
             /\ idle' = [idle EXCEPT ![task[t].obj] = @ /\ ~LockFree(task[t].obj)]
    <3>1. TasksOK(task') /\ LocksOK'
      BY <1>0, <2>0, <2>3, TakeLockOK
    <3>2. idle' \in [Objects -> BOOLEAN]
      <4>1. (idle[task[t].obj] /\ ~LockFree(task[t].obj)) \in BOOLEAN
        OBVIOUS
      <4> QED BY <1>0, <2>3, <4>1
    <3> QED BY <1>3, <2>3, <3>1, <3>2 DEF BeginEvent, TypeInv, TypeOK, HeldRows, TasksOK, LocksOK
  <2> QED BY <1>3, <2>1, <2>2, <2>3 DEF BeginEvent
<1>4. CASE MarkProcessed(t)
  <2>1. TasksOK(task')
    BY <1>4, FinishOK DEF MarkProcessed
  <2>2. <<task[t].ins, task[t].key>> \in Instances \X Keys
    BY <1>0, <1>4 DEF MarkProcessed, At, WellFormed, NoTask
  <2>3. /\ processed' \subseteq Instances \X Keys
        /\ locked' \in [Objects -> Tasks \cup {None}]
        /\ idle' \in [Objects -> BOOLEAN]
    BY <1>0, <1>4, <2>2 DEF MarkProcessed, LocksOK
  <2> QED BY <1>4, <2>1, <2>3 DEF MarkProcessed, TypeInv, TypeOK, HeldRows, TasksOK
<1> QED BY <1>1, <1>2, <1>3, <1>4

\* The steps of _raise keep the types.
LEMMA RaiseStepsOK ==
  ASSUME TypeInv, NEW t \in Tasks,
         \/ SlotGranted(t) \/ RaiseLocked(t) \/ ClaimInstance(t) \/ ClaimRefused(t)
         \/ ReadHolder(t)
  PROVE  TypeInv'
<1> USE DEF dbVars, semVars, objVars
<1>0. /\ task[t] \in Coroutine /\ WellFormed(task[t])
      /\ free \in [Runners -> Nat]
      /\ waitq \in [Runners -> Seq(Tasks)]
      /\ raising \in [Runners -> Tasks \cup {None}]
      /\ local \in [Runners -> [Instances -> Objects \cup {None}]]
      /\ holder \in [Instances -> Runners \cup {None}]
  BY DEF TypeInv, TypeOK
<1>0a. /\ task[t] # NoTask
       /\ task[t].run \in Runners /\ task[t].ins \in Instances
  BY <1>0 DEF SlotGranted, RaiseLocked, ClaimInstance, ClaimRefused, ReadHolder, At, WellFormed,
              NoTask
<1>1. CASE SlotGranted(t)
  <2>1. TasksOK(task')
    BY <1>0a, <1>1, GotoOK DEF SlotGranted, PCs
  <2>2. Tail(waitq[task[t].run]) \in Seq(Tasks)
    BY <1>0, <1>0a, <1>1 DEF SlotGranted
  <2>3. free' \in [Runners -> Nat] /\ waitq' \in [Runners -> Seq(Tasks)]
    BY <1>0, <1>0a, <1>1, <2>2 DEF SlotGranted
  <2> QED BY <1>1, <2>1, <2>3 DEF SlotGranted, TypeInv, TypeOK, HeldRows, TasksOK
<1>2. CASE RaiseLocked(t)
  <2> DEFINE r == task[t].run
             o == local[r][task[t].ins]
  <2>1. CASE o # None /\ Attach(t, task[t], o) /\ FreeSlot(r) /\ UNCHANGED raising
    <3>1. free' \in [Runners -> Nat]
      BY <1>0, <1>0a, <2>1 DEF FreeSlot
    <3>2. /\ TasksOK(task') /\ LocksOK'
          /\ idle' \in [Objects -> BOOLEAN]
          /\ hubCalls' \subseteq HubCall
      BY <1>0, <1>0a, <2>1, AttachOK
    <3> QED BY <1>2, <2>1, <3>1, <3>2 DEF RaiseLocked, TypeInv, TypeOK, HeldRows, TasksOK, LocksOK
  <2>2. CASE /\ raising' = [raising EXCEPT ![r] = t]
             /\ Goto(t, "claim")
             /\ UNCHANGED <<free, objVars, hubCalls>>
    <3>1. TasksOK(task')
      BY <1>0a, <2>2, GotoOK DEF PCs
    <3>2. raising' \in [Runners -> Tasks \cup {None}]
      BY <1>0, <2>2
    <3> QED BY <1>2, <2>2, <3>1, <3>2 DEF RaiseLocked, TypeInv, TypeOK, HeldRows, TasksOK
  <2> QED BY <1>2, <2>1, <2>2 DEF RaiseLocked
<1>3. CASE ClaimInstance(t)
  <2>1. NewObject \in Objects
    BY <1>3 DEF ClaimInstance, NewObject
  <2>2. RowsOK'
    BY <1>0a, <1>3, ClaimOK DEF ClaimInstance
  <2>3. /\ TasksOK(task') /\ LocksOK'
        /\ idle' \in [Objects -> BOOLEAN]
        /\ hubCalls' \subseteq HubCall
    BY <1>0, <1>0a, <1>3, <2>1, AttachOK DEF ClaimInstance
  <2>4. /\ raising' \in [Runners -> Tasks \cup {None}]
        /\ local' \in [Runners -> [Instances -> Objects \cup {None}]]
    BY <1>0, <1>0a, <1>3, <2>1 DEF ClaimInstance
  <2> QED BY <1>3, <2>2, <2>3, <2>4
      DEF ClaimInstance, TypeInv, TypeOK, RowsOK, TasksOK, LocksOK
<1>4. CASE ClaimRefused(t)
  <2>1. TasksOK(task')
    BY <1>0a, <1>4, GotoOK DEF ClaimRefused, PCs
  <2> QED BY <1>4, <2>1 DEF ClaimRefused, TypeInv, TypeOK, HeldRows, TasksOK
<1>5. CASE ReadHolder(t)
  <2>1. TasksOK(task')
    <3>1. CASE /\ task[t].kind = "event" /\ holder[task[t].ins] # None
               /\ Become(t, [task[t] EXCEPT !.pc = "forward", !.run = holder[task[t].ins]])
      <4>1. holder[task[t].ins] \in Runners
        BY <1>0, <1>0a, <3>1
      <4>2. \A h \in Runners :
              /\ [task[t] EXCEPT !.pc = "forward", !.run = h] \in Coroutine
              /\ WellFormed([task[t] EXCEPT !.pc = "forward", !.run = h])
        BY <1>0, <1>0a, <3>1 DEF Coroutine, PCs, WellFormed
      <4> QED BY <3>1, <4>1, <4>2, BecomeOK
    <3>2. CASE Finish(t)
      BY <3>2, FinishOK
    <3> QED BY <1>5, <3>1, <3>2 DEF ReadHolder
  <2>2. raising' \in [Runners -> Tasks \cup {None}] /\ free' \in [Runners -> Nat]
    BY <1>0, <1>0a, <1>5 DEF ReadHolder, FreeSlot
  <2> QED BY <1>5, <2>1, <2>2 DEF ReadHolder, TypeInv, TypeOK, HeldRows, TasksOK
<1> QED BY <1>1, <1>2, <1>3, <1>4, <1>5

\* The steps under LocalInstance.lock, of the console and of a release keep
\* the types.
LEMMA TurnStepsOK ==
  ASSUME TypeInv, NEW t \in Tasks,
         \/ LockGranted(t) \/ TurnStarts(t) \/ TurnCompletes(t) \/ TurnFails(t)
         \/ TermGranted(t) \/ TermDone(t) \/ ReleaseInstance(t)
  PROVE  TypeInv'
<1> USE DEF dbVars, semVars, objVars
<1>0. /\ task[t] \in Coroutine /\ WellFormed(task[t])
      /\ LocksOK /\ RowsOK
      /\ free \in [Runners -> Nat]
      /\ idle \in [Objects -> BOOLEAN]
      /\ sweep \in [Runners -> SUBSET (Instances \X Objects)]
  BY DEF TypeInv, TypeOK, LocksOK, RowsOK
<1>0a. /\ task[t] # NoTask
       /\ task[t].run \in Runners /\ task[t].ins \in Instances
  BY <1>0 DEF LockGranted, TurnStarts, TurnCompletes, TurnFails, TermGranted, TermDone,
              ReleaseInstance, At, WellFormed, NoTask
<1>1. CASE LockGranted(t)
  <2>1. TasksOK(task')
    BY <1>0a, <1>1, GotoOK DEF LockGranted, PCs
  <2>2. LocksOK'
    <3>1. task[t].obj \in Objects => Tail(lockq[task[t].obj]) \in Seq(Tasks)
      BY <1>0, <1>1 DEF LockGranted, LocksOK
    <3> QED BY <1>0, <1>1, <3>1 DEF LockGranted, LocksOK
  <2>3. idle' \in [Objects -> BOOLEAN]
    BY <1>0, <1>1 DEF LockGranted, Touch
  <2> QED BY <1>1, <2>1, <2>2, <2>3 DEF LockGranted, TypeInv, TypeOK, HeldRows, TasksOK, LocksOK
<1>2. CASE TurnStarts(t)
  <2>1. TasksOK(task')
    BY <1>0a, <1>2, GotoOK DEF TurnStarts, PCs
  <2> QED BY <1>2, <2>1 DEF TurnStarts, TypeInv, TypeOK, HeldRows, TasksOK
<1>3. CASE TurnCompletes(t)
  <2>1. TasksOK(task')
    BY <1>0a, <1>3, GotoOK, FinishOK DEF TurnCompletes, PCs
  <2>2. locked' \in [Objects -> Tasks \cup {None}] /\ idle' \in [Objects -> BOOLEAN]
    BY <1>0, <1>3 DEF TurnCompletes, Touch, LocksOK
  <2> QED BY <1>3, <2>1, <2>2 DEF TurnCompletes, TypeInv, TypeOK, HeldRows, TasksOK
<1>4. CASE TurnFails(t)
  <2>1. TasksOK(task')
    BY <1>4, FinishOK DEF TurnFails
  <2>2. locked' \in [Objects -> Tasks \cup {None}]
    BY <1>0, <1>4 DEF TurnFails, LocksOK
  <2> QED BY <1>4, <2>1, <2>2 DEF TurnFails, TypeInv, TypeOK, HeldRows, TasksOK
<1>5. CASE TermGranted(t)
  <2>1. TasksOK(task')
    BY <1>0a, <1>5, GotoOK DEF TermGranted, PCs
  <2>2. idle' \in [Objects -> BOOLEAN]
    BY <1>0, <1>5 DEF TermGranted, Touch
  <2> QED BY <1>5, <2>1, <2>2 DEF TermGranted, TypeInv, TypeOK, HeldRows, TasksOK
<1>6. CASE TermDone(t)
  <2>1. TasksOK(task') /\ idle' \in [Objects -> BOOLEAN]
    BY <1>0, <1>6, FinishOK DEF TermDone, Touch
  <2> QED BY <1>6, <2>1 DEF TermDone, TypeInv, TypeOK, HeldRows, TasksOK
<1>7. CASE ReleaseInstance(t)
  <2> DEFINE lk == [locked EXCEPT ![task[t].obj] = None]
  <2>1. lk \in [Objects -> Tasks \cup {None}]
    BY <1>0 DEF LocksOK
  <2>2. RowsOK' /\ free' \in [Runners -> Nat]
    BY <1>0, <1>0a, <1>7 DEF ReleaseInstance, Releases, RowsOK, HeldRows, FreeSlot
  <2>3. /\ TasksOK(task') /\ LocksOK'
        /\ local' \in [Runners -> [Instances -> Objects \cup {None}]]
        /\ sweep' \in [Runners -> SUBSET (Instances \X Objects)]
    <3>1. CASE Finish(t) /\ locked' = lk /\ UNCHANGED <<local, lockq, sweep>>
      BY <1>0, <2>1, <3>1, FinishOK DEF LocksOK, TypeInv, TypeOK
    <3>2. CASE UnloadNext(t, task[t].run, sweep[task[t].run], lk)
      BY <1>0, <1>0a, <2>1, <3>2, UnloadNextOK
    <3> QED BY <1>7, <3>1, <3>2 DEF ReleaseInstance
  <2> QED BY <1>7, <2>2, <2>3 DEF ReleaseInstance, TypeInv, TypeOK, RowsOK, TasksOK, LocksOK
<1> QED BY <1>1, <1>2, <1>3, <1>4, <1>5, <1>6, <1>7

\* A client that goes away and a store call that raises keep the types.
LEMMA FailureStepsOK ==
  ASSUME TypeInv, NEW t \in Tasks, ClientGone(t) \/ StoreError(t)
  PROVE  TypeInv'
<1> USE DEF dbVars, semVars, objVars
<1> DEFINE r == task[t].run
           o == task[t].obj
<1>0. /\ task[t] \in Coroutine /\ WellFormed(task[t])
      /\ LocksOK /\ RowsOK
      /\ processed \subseteq Instances \X Keys
      /\ free \in [Runners -> Nat]
      /\ waitq \in [Runners -> Seq(Tasks)]
      /\ raising \in [Runners -> Tasks \cup {None}]
      /\ sweep \in [Runners -> SUBSET (Instances \X Objects)]
      /\ leaked \in [Runners -> Nat]
  BY DEF TypeInv, TypeOK, LocksOK, RowsOK
<1>0a. task[t].run \in Runners /\ task[t].ins \in Instances
  BY <1>0 DEF ClientGone, StoreError, At, WellFormed, NoTask
<1>1. CASE ClientGone(t)
  <2>1. TasksOK(task')
    BY <1>1, FinishOK DEF ClientGone
  <2>2. RowsOK'
    <3>1. CASE UNCHANGED <<status, holder>>
      BY <1>0, <3>1 DEF RowsOK, HeldRows
    <3>2. CASE ClaimLands(t)
      BY <1>0a, <3>2, ClaimOK DEF ClaimLands
    <3> QED BY <1>1, <3>1, <3>2 DEF ClientGone
  <2>3. /\ waitq' \in [Runners -> Seq(Tasks)]
        /\ free' \in [Runners -> Nat]
        /\ raising' \in [Runners -> Tasks \cup {None}]
        /\ LocksOK'
    <3>1. CASE waitq' = [waitq EXCEPT ![r] = Without(@, t)] /\ UNCHANGED <<free, raising, locked, lockq>>
      <4>1. Without(waitq[r], t) \in Seq(Tasks)
        BY <1>0, <1>0a, WithoutOK
      <4> QED BY <1>0, <3>1, <4>1 DEF LocksOK
    <3>2. CASE /\ FreeSlot(r)
               /\ raising' = [raising EXCEPT ![r] = IF @ = t THEN None ELSE @]
               /\ UNCHANGED <<waitq, locked, lockq>>
      BY <1>0, <1>0a, <3>2 DEF FreeSlot, LocksOK
    <3>3. CASE lockq' = [lockq EXCEPT ![o] = Without(@, t)] /\ UNCHANGED <<semVars, raising, locked>>
      <4>1. o \in Objects => Without(lockq[o], t) \in Seq(Tasks)
        BY <1>0, WithoutOK DEF LocksOK
      <4> QED BY <1>0, <3>3, <4>1 DEF LocksOK
    <3>4. CASE locked' = [locked EXCEPT ![o] = None] /\ UNCHANGED <<semVars, raising, lockq>>
      BY <1>0, <3>4 DEF LocksOK
    <3>5. CASE UNCHANGED <<semVars, raising, locked, lockq>>
      BY <1>0, <3>5 DEF LocksOK
    <3> QED BY <1>1, <3>1, <3>2, <3>3, <3>4, <3>5 DEF ClientGone
  <2> QED BY <1>1, <2>1, <2>2, <2>3 DEF ClientGone, TypeInv, TypeOK, RowsOK, TasksOK, LocksOK
<1>2. CASE StoreError(t)
  <2>1. TasksOK(task')
    BY <1>2, FinishOK DEF StoreError
  <2>2. RowsOK'
    <3>1. CASE UNCHANGED <<status, holder>>
      BY <1>0, <3>1 DEF RowsOK, HeldRows
    <3>2. CASE ClaimLands(t)
      BY <1>0a, <3>2, ClaimOK DEF ClaimLands
    <3>3. CASE Releases(task[t].ins, r)
      BY <1>0, <1>0a, <3>3 DEF Releases, RowsOK, HeldRows
    <3> QED BY <1>2, <3>1, <3>2, <3>3 DEF StoreError
  <2>2a. processed' \subseteq Instances \X Keys
    <3>1. At(t, "mark") => <<task[t].ins, task[t].key>> \in Instances \X Keys
      BY <1>0, <1>0a DEF At, WellFormed, NoTask
    <3> QED BY <1>0, <1>2, <3>1 DEF StoreError
  <2>3. /\ free' \in [Runners -> Nat]
        /\ raising' \in [Runners -> Tasks \cup {None}]
        /\ locked' \in [Objects -> Tasks \cup {None}]
        /\ leaked' \in [Runners -> Nat]
    <3>1. CASE UNCHANGED <<free, raising, locked, leaked>>
      BY <1>0, <3>1 DEF LocksOK
    <3>2. CASE /\ FreeSlot(r)
               /\ raising' = [raising EXCEPT ![r] = None]
               /\ UNCHANGED <<locked, leaked>>
      BY <1>0, <1>0a, <3>2 DEF LocksOK, FreeSlot
    <3>3. CASE /\ locked' = [x \in Objects |-> IF x = o THEN None ELSE locked[x]]
               /\ UNCHANGED <<free, raising, leaked>>
      BY <1>0, <3>3 DEF LocksOK
    <3>4. CASE /\ locked' = [locked EXCEPT ![o] = None]
               /\ leaked' = [leaked EXCEPT ![r] = @ + 1]
               /\ UNCHANGED <<free, raising>>
      <4>1. leaked' \in [Runners -> Nat]
        BY <1>0, <1>0a, <3>4
      <4>2. locked' \in [Objects -> Tasks \cup {None}]
        BY <1>0, <3>4 DEF LocksOK
      <4> QED BY <1>0, <3>4, <4>1, <4>2
    <3> QED BY <1>2, <3>1, <3>2, <3>3, <3>4 DEF StoreError
  <2>4. sweep' \in [Runners -> SUBSET (Instances \X Objects)]
    BY <1>0, <1>2 DEF StoreError
  <2> QED BY <1>2, <2>1, <2>2, <2>2a, <2>3, <2>4
      DEF StoreError, TypeInv, TypeOK, RowsOK, TasksOK, LocksOK
<1> QED BY <1>1, <1>2

\* What the environment starts, and what the hub and the idle timer do.
LEMMA ArrivalStepsOK ==
  ASSUME TypeInv, NEW t \in Tasks, NEW r \in Runners, NEW i \in Instances,
         \/ \E k \in Keys : EventArrives(t, r, i, k)
         \/ \E kind \in {"chat", "terminal", "raise"} : Request(t, r, i, kind)
         \/ ApiStop(t, r, i) \/ ReapIdle(t, r)
  PROVE  TypeInv'
<1> USE DEF dbVars, semVars, objVars
<1>0. LocksOK /\ arrivals \in Nat
  BY DEF TypeInv, TypeOK, LocksOK
<1>1. ASSUME NEW k \in Keys, EventArrives(t, r, i, k)
      PROVE  TypeInv'
  <2>1. TasksOK(task') /\ idle' \in [Objects -> BOOLEAN]
    BY <1>1, HandleEventOK DEF EventArrives
  <2> QED BY <1>0, <1>1, <2>1 DEF EventArrives, Sent, TypeInv, TypeOK, HeldRows, TasksOK
<1>2. ASSUME NEW kind \in {"chat", "terminal", "raise"}, Request(t, r, i, kind)
      PROVE  TypeInv'
  <2> DEFINE c == NewTask(kind, r, i, None)
  <2>1. c \in Coroutine /\ WellFormed(c) /\ c # NoTask
    BY NewTaskOK DEF Kinds
  <2>2. EnterRaise(t, c)
    BY <1>2 DEF Request
  <2> HIDE DEF c
  <2>3. /\ TasksOK(task') /\ LocksOK'
        /\ idle' \in [Objects -> BOOLEAN]
        /\ hubCalls' \subseteq HubCall
        /\ free' \in [Runners -> Nat]
        /\ waitq' \in [Runners -> Seq(Tasks)]
    BY <2>1, <2>2, EnterRaiseOK
  <2> QED BY <1>0, <1>2, <2>3 DEF Request, Sent, TypeInv, TypeOK, HeldRows, TasksOK, LocksOK
<1>3. CASE ApiStop(t, r, i)
  <2>1. /\ TasksOK(task') /\ LocksOK'
        /\ local' \in [Runners -> [Instances -> Objects \cup {None}]]
    BY <1>0, <1>3, StopInstanceOK DEF ApiStop, LocksOK
  <2> QED BY <1>0, <1>3, <2>1 DEF ApiStop, Sent, TypeInv, TypeOK, HeldRows, TasksOK, LocksOK
<1>4. CASE ReapIdle(t, r)
  <2>1. /\ TasksOK(task') /\ LocksOK'
        /\ local' \in [Runners -> [Instances -> Objects \cup {None}]]
        /\ sweep' \in [Runners -> SUBSET (Instances \X Objects)]
    <3>1. Snapshot(r) \in SUBSET (Instances \X Objects)
      BY DEF Snapshot
    <3> QED BY <1>0, <1>4, <3>1, UnloadNextOK DEF ReapIdle, LocksOK
  <2> QED BY <1>4, <2>1 DEF ReapIdle, TypeInv, TypeOK, HeldRows, TasksOK, LocksOK
<1> QED BY <1>1, <1>2, <1>3, <1>4

\* The hub's updates, crashes, restarts and the idle timer keep the types.
LEMMA OutsideStepsOK ==
  ASSUME TypeInv,
         \/ \E i \in Instances : HubStop(i)
         \/ \E c \in hubCalls : HubUpdate(c) \/ \E t \in Tasks : HubStopAnswered(t, c)
         \/ \E r \in Runners : RequeueStale(r) \/ Crash(r) \/ Restart(r)
         \/ \E o \in Objects : IdleElapses(o)
  PROVE  TypeInv'
<1> USE DEF dbVars, semVars, objVars
<1>0. /\ LocksOK /\ RowsOK /\ TasksOK(task)
      /\ hubCalls \subseteq HubCall
      /\ arrivals \in Nat
      /\ up \in [Runners -> BOOLEAN]
      /\ free \in [Runners -> Nat]
      /\ waitq \in [Runners -> Seq(Tasks)]
      /\ raising \in [Runners -> Tasks \cup {None}]
      /\ local \in [Runners -> [Instances -> Objects \cup {None}]]
      /\ sweep \in [Runners -> SUBSET (Instances \X Objects)]
      /\ idle \in [Objects -> BOOLEAN]
      /\ leaked \in [Runners -> Nat]
  BY DEF TypeInv, TypeOK, LocksOK, RowsOK, TasksOK
<1>1. ASSUME NEW i \in Instances, HubStop(i)
      PROVE  TypeInv'
  <2>1. [op |-> "stop", ins |-> i, run |-> holder[i]] \in HubCall
    BY <1>0, <1>1 DEF HubStop, RowsOK, HeldRows, HubCall
  <2>2. hubCalls' \subseteq HubCall
    BY <1>0, <1>1, <2>1 DEF HubStop
  <2> QED BY <1>0, <1>1, <2>2 DEF HubStop, TypeInv, TypeOK, HeldRows
<1>2. ASSUME NEW c \in hubCalls, HubUpdate(c)
      PROVE  TypeInv'
  <2>1. c \in HubCall
    BY <1>0
  <2>2. RowsOK'
    BY <1>0, <1>2, <2>1 DEF HubUpdate, RowsOK, HeldRows, HubCall
  <2> QED BY <1>0, <1>2, <2>2 DEF HubUpdate, TypeInv, TypeOK, RowsOK
<1>3. ASSUME NEW c \in hubCalls, NEW t \in Tasks, HubStopAnswered(t, c)
      PROVE  TypeInv'
  <2>1. c.run \in Runners /\ c.ins \in Instances /\ [c EXCEPT !.op = "down"] \in HubCall
    BY <1>0 DEF HubCall
  <2>2. hubCalls' \subseteq HubCall
    BY <1>0, <1>3, <2>1 DEF HubStopAnswered
  <2>3. /\ TasksOK(task') /\ LocksOK'
        /\ local' \in [Runners -> [Instances -> Objects \cup {None}]]
    <3>1. CASE StopInstance(t, c.run, c.ins, "stop", locked)
      BY <1>0, <2>1, <3>1, StopInstanceOK DEF LocksOK
    <3>2. CASE UNCHANGED <<local, task, locked, lockq>>
      BY <1>0, <3>2 DEF LocksOK, TasksOK
    <3> QED BY <1>3, <3>1, <3>2 DEF HubStopAnswered
  <2> QED BY <1>3, <2>2, <2>3 DEF HubStopAnswered, TypeInv, TypeOK, HeldRows, TasksOK, LocksOK
<1>4. ASSUME NEW r \in Runners, RequeueStale(r)
      PROVE  TypeInv'
  <2>1. RowsOK'
    BY <1>0, <1>4 DEF RequeueStale, RowsOK, HeldRows
  <2> QED BY <1>4, <2>1 DEF RequeueStale, TypeInv, TypeOK, RowsOK
<1>5. ASSUME NEW r \in Runners, Crash(r)
      PROVE  TypeInv'
  <2>1. TasksOK(task')
    BY <1>0, <1>5, NoTaskOK DEF Crash, TasksOK
  <2>2. LocksOK'
    BY <1>0, <1>5 DEF Crash, LocksOK
  <2>3. local' \in [Runners -> [Instances -> Objects \cup {None}]]
    BY <1>0, <1>5 DEF Crash
  <2>4. /\ up' \in [Runners -> BOOLEAN]
        /\ idle' \in [Objects -> BOOLEAN]
        /\ sweep' \in [Runners -> SUBSET (Instances \X Objects)]
        /\ raising' \in [Runners -> Tasks \cup {None}]
    BY <1>0, <1>5 DEF Crash
  <2>5. /\ free' \in [Runners -> Nat]
        /\ waitq' \in [Runners -> Seq(Tasks)]
        /\ leaked' \in [Runners -> Nat]
    BY <1>0, <1>5, RunnerAssumption DEF Crash, RunnerAssumption
  <2> QED BY <1>5, <2>1, <2>2, <2>3, <2>4, <2>5
      DEF Crash, TypeInv, TypeOK, HeldRows, TasksOK, LocksOK
<1>6. ASSUME NEW r \in Runners, Restart(r)
      PROVE  TypeInv'
  <2>1. up' \in [Runners -> BOOLEAN]
    BY <1>0, <1>6 DEF Restart
  <2> QED BY <1>6, <2>1 DEF Restart, TypeInv, TypeOK, HeldRows
<1>7. ASSUME NEW o \in Objects, IdleElapses(o)
      PROVE  TypeInv'
  <2>1. idle' \in [Objects -> BOOLEAN]
    BY <1>0, <1>7 DEF IdleElapses
  <2> QED BY <1>7, <2>1 DEF IdleElapses, TypeInv, TypeOK, HeldRows
<1> QED BY <1>1, <1>2, <1>3, <1>4, <1>5, <1>6, <1>7

\* TypeInv holds before the first request.
LEMMA TypeInit == Init => TypeInv
  BY NoTaskOK, RunnerAssumption DEF Init, TypeInv, TypeOK, HeldRows, RunnerAssumption

\* Every step of runners, hub and environment preserves TypeInv.
LEMMA TypeStep == TypeInv /\ [Next]_vars => TypeInv'
<1> SUFFICES ASSUME TypeInv, [Next]_vars
             PROVE  TypeInv'
  OBVIOUS
<1>1. CASE UNCHANGED vars
  BY <1>1 DEF vars, dbVars, semVars, objVars, TypeInv, TypeOK, HeldRows
<1>2. CASE Next
  <2>1. CASE \E t \in Tasks : Step(t) \/ ClientGone(t) \/ StoreError(t)
    BY <2>1, EventStepsOK, RaiseStepsOK, TurnStepsOK, FailureStepsOK DEF Step
  <2>2. ASSUME NEW t \in Tasks, NEW r \in Runners, ReapIdle(t, r)
        PROVE  TypeInv'
    <3>1. PICK i \in Instances : TRUE
      BY <2>2 DEF ReapIdle, Snapshot
    <3> QED BY <2>2, <3>1, ArrivalStepsOK
  <2> QED BY <1>2, <2>1, <2>2, ArrivalStepsOK, OutsideStepsOK DEF Next
<1> QED BY <1>1, <1>2

\* Type correctness of the runner processes and of the rows they share, for
\* every number of runners, coroutines and slots and every environment.
THEOREM TypeCorrect == Spec => []TypeOK
<1>1. TypeInv => TypeOK
  BY DEF TypeInv
<1> QED BY <1>1, TypeInit, TypeStep, PTL DEF Spec

-----------------------------------------------------------------------------
(* SlotAccounting: no path through _raise, a hand-off, a cancellation, a     *)
(* stop, an idle pass or a crash loses a permit of RunnerService._free or    *)
(* gives one back twice.                                                     *)
(*                                                                           *)
(* SlotAccounting alone is not inductive: a claim that succeeds turns the    *)
(* permit of its coroutine into that of a raised instance, which balances    *)
(* only if the instance was not raised before.  That it was not is what      *)
(* _raise_lock is for.                                                       *)

Claiming(c) == c.pc \in {"claim", "refused"}

ClaimInv ==
  \A t \in Tasks : Claiming(task[t]) =>
    /\ raising[task[t].run] = t
    /\ local[task[t].run][task[t].ins] = None

SlotInv == TypeInv /\ ClaimInv /\ SlotAccounting

Owns(c, r) == c.run = r /\ c.pc \in SlotPCs

\* Permits of runner r that coroutine c owns, and that object o stands for.
Owned(c, r) == IF Owns(c, r) THEN 1 ELSE 0
Taken(o) == IF o # None THEN 1 ELSE 0

-----------------------------------------------------------------------------
(* Counting.                                                                 *)

\* Two finite sets that agree outside t.
LEMMA OneElement ==
  ASSUME NEW A, NEW B, NEW t, IsFiniteSet(A), \A x : x # t => (x \in A <=> x \in B)
  PROVE  /\ IsFiniteSet(B)
         /\ Cardinality(A) \in Nat /\ Cardinality(B) \in Nat
         /\ Cardinality(B) + (IF t \in A THEN 1 ELSE 0) = Cardinality(A) + (IF t \in B THEN 1 ELSE 0)
<1>0. Cardinality(A) \in Nat
  BY FS_CardinalityType
<1>1. CASE t \in A <=> t \in B
  <2>1. A = B
    BY <1>1
  <2> QED BY <1>0, <2>1 
<1>2. CASE t \in A /\ t \notin B
  <2>1. B = A \ {t}
    BY <1>2
  <2>2. IsFiniteSet(B) /\ Cardinality(B) = Cardinality(A) - 1
    BY <1>2, <2>1, FS_RemoveElement
  <2>3. Cardinality(B) \in Nat
    BY <2>2, FS_CardinalityType
  <2> QED BY <1>0, <1>2, <2>2, <2>3 
<1>3. CASE t \notin A /\ t \in B
  <2>1. B = A \cup {t}
    BY <1>3
  <2>2. IsFiniteSet(B) /\ Cardinality(B) = Cardinality(A) + 1
    BY <1>3, <2>1, FS_AddElement
  <2> QED BY <1>0, <1>3, <2>2 
<1> QED BY <1>1, <1>2, <1>3

\* The sets that SlotAccounting counts are finite.
LEMMA CountsFinite ==
  ASSUME NEW r \in Runners
  PROVE  /\ IsFiniteSet(Owners(r)) /\ Cardinality(Owners(r)) \in Nat
         /\ IsFiniteSet(Raised(r)) /\ Cardinality(Raised(r)) \in Nat
<1>1. Owners(r) \subseteq Tasks /\ Raised(r) \subseteq Instances
  BY DEF Owners, Raised
<1>2. IsFiniteSet(Tasks) /\ IsFiniteSet(Instances)
  BY RunnerAssumption DEF RunnerAssumption
<1>3. IsFiniteSet(Owners(r)) /\ IsFiniteSet(Raised(r))
  BY <1>1, <1>2, FS_Subset
<1> QED BY <1>3, FS_CardinalityType

\* A sum stays when what leaves one term enters another.
LEMMA Ledger ==
  ASSUME NEW f \in Nat, NEW fN \in Nat, NEW k \in Nat, NEW kN \in Nat,
         NEW m \in Nat, NEW mN \in Nat, NEW n \in Nat, NEW nN \in Nat,
         NEW a \in Nat, NEW aN \in Nat, NEW b \in Nat, NEW bN \in Nat,
         mN + a = m + aN, nN + b = n + bN, fN + kN + aN + bN = f + k + a + b
  PROVE  fN + mN + nN + kN = f + m + n + k
  OBVIOUS

\* The permits of runner q balance when a step changes who owns one only for
\* coroutine t and what is raised only for instance i, and the two sides of
\* the ledger move together.
LEMMA Balance ==
  ASSUME TypeInv, TypeInv', SlotAccounting,
         NEW q \in Runners, NEW t \in Tasks, NEW i \in Instances,
         \A x \in Tasks \ {t} : Owns(task'[x], q) <=> Owns(task[x], q),
         \A j \in Instances \ {i} : local'[q][j] = local[q][j],
         free'[q] + leaked'[q] + Owned(task'[t], q) + Taken(local'[q][i])
           = free[q] + leaked[q] + Owned(task[t], q) + Taken(local[q][i])
  PROVE  free'[q] + Cardinality(Owners(q)') + Cardinality(Raised(q)') + leaked'[q] = Slots
<1> DEFINE own == Owners(q)
           ownN == Owners(q)'
           up0 == Raised(q)
           upN == Raised(q)'
<1>0. /\ free[q] \in Nat /\ free'[q] \in Nat
      /\ leaked[q] \in Nat /\ leaked'[q] \in Nat
      /\ Slots \in Nat
  BY RunnerAssumption DEF TypeInv, TypeOK, RunnerAssumption
<1>1. /\ IsFiniteSet(own) /\ IsFiniteSet(up0)
  BY CountsFinite
<1>2. /\ \A x : x # t => (x \in own <=> x \in ownN)
      /\ t \in own <=> Owns(task[t], q)
      /\ t \in ownN <=> Owns(task'[t], q)
  BY DEF Owners, Owns
<1>3. /\ \A j : j # i => (j \in up0 <=> j \in upN)
      /\ i \in up0 <=> local[q][i] # None
      /\ i \in upN <=> local'[q][i] # None
  BY DEF Raised
<1>4. free[q] + Cardinality(own) + Cardinality(up0) + leaked[q] = Slots
  BY DEF SlotAccounting
<1> HIDE DEF own, ownN, up0, upN
<1> DEFINE a == IF t \in own THEN 1 ELSE 0
           aN == IF t \in ownN THEN 1 ELSE 0
           b == IF i \in up0 THEN 1 ELSE 0
           bN == IF i \in upN THEN 1 ELSE 0
           m == Cardinality(own)
           mN == Cardinality(ownN)
           n == Cardinality(up0)
           nN == Cardinality(upN)
<1>5. m \in Nat /\ mN \in Nat /\ mN + a = m + aN
  BY <1>1, <1>2, OneElement
<1>6. n \in Nat /\ nN \in Nat /\ nN + b = n + bN
  BY <1>1, <1>3, OneElement
<1>7. /\ a \in Nat /\ aN \in Nat /\ b \in Nat /\ bN \in Nat
      /\ a = Owned(task[t], q) /\ aN = Owned(task'[t], q)
      /\ b = Taken(local[q][i]) /\ bN = Taken(local'[q][i])
  BY <1>2, <1>3 DEF Owned, Taken
<1> HIDE DEF a, aN, b, bN, m, mN, n, nN
<1>8. free'[q] + leaked'[q] + aN + bN = free[q] + leaked[q] + a + b
  BY <1>7
<1>9. free'[q] + mN + nN + leaked'[q] = free[q] + m + n + leaked[q]
  BY <1>0, <1>5, <1>6, <1>7, <1>8, Ledger
<1> QED BY <1>4, <1>9 DEF ownN, upN, m, mN, n, nN

-----------------------------------------------------------------------------
(* The three shapes of a step, as far as permits are concerned.              *)

\* The claims in flight are not disturbed by a step that starts none, leaves
\* _raise_lock to its owner and registers no other instance.
LEMMA ClaimKept ==
  ASSUME ClaimInv,
         \A x \in Tasks : Claiming(task'[x]) =>
           /\ Claiming(task[x])
           /\ task'[x].run = task[x].run /\ task'[x].ins = task[x].ins
           /\ raising'[task[x].run] = raising[task[x].run]
           /\ local'[task[x].run][task[x].ins] \in {local[task[x].run][task[x].ins], None}
  PROVE  ClaimInv'
  BY DEF ClaimInv

\* A step that moves no permit.
LEMMA Neutral ==
  ASSUME TypeInv, ClaimInv, SlotAccounting,
         UNCHANGED <<free, leaked, local, raising>>,
         \A x \in Tasks : /\ \A q \in Runners : Owns(task'[x], q) <=> Owns(task[x], q)
                          /\ Claiming(task'[x]) =>
                               /\ Claiming(task[x])
                               /\ task'[x].run = task[x].run /\ task'[x].ins = task[x].ins
  PROVE  ClaimInv' /\ SlotAccounting'
<1>1. ClaimInv'
  BY ClaimKept
<1>2. \A q \in Runners : Owners(q)' = Owners(q) /\ Raised(q)' = Raised(q)
  BY DEF Owners, Owns, Raised
<1>3. SlotAccounting'
  BY <1>2 DEF SlotAccounting
<1> QED BY <1>1, <1>3

\* A step of coroutine t that settles on a pc where it owns no permit, from
\* one where it owned none.
Settles(t) == /\ \A x \in Tasks \ {t} : task'[x] = task[x]
              /\ task'[t].pc \notin SlotPCs

\* Such a step moves no permit.
LEMMA NeutralSettle ==
  ASSUME TypeInv, ClaimInv, SlotAccounting, NEW t \in Tasks,
         task[t].pc \notin SlotPCs, Settles(t), UNCHANGED <<free, leaked, local, raising>>
  PROVE  ClaimInv' /\ SlotAccounting'
<1>1. \A x \in Tasks : /\ \A q \in Runners : Owns(task'[x], q) <=> Owns(task[x], q)
                       /\ Claiming(task'[x]) =>
                            /\ Claiming(task[x])
                            /\ task'[x].run = task[x].run /\ task'[x].ins = task[x].ins
  BY DEF Settles, Owns, Claiming, SlotPCs
<1> QED BY <1>1, Neutral

\* A step that moves a permit of runner r.
LEMMA Move ==
  ASSUME TypeInv, TypeInv', SlotAccounting,
         NEW t \in Tasks, NEW r \in Runners, NEW i \in Instances,
         \A x \in Tasks \ {t}, q \in Runners : Owns(task'[x], q) <=> Owns(task[x], q),
         \A q \in Runners \ {r} : /\ free'[q] = free[q] /\ leaked'[q] = leaked[q]
                                  /\ local'[q] = local[q]
                                  /\ Owns(task'[t], q) <=> Owns(task[t], q),
         \A j \in Instances \ {i} : local'[r][j] = local[r][j],
         free'[r] + leaked'[r] + Owned(task'[t], r) + Taken(local'[r][i])
           = free[r] + leaked[r] + Owned(task[t], r) + Taken(local[r][i])
  PROVE  SlotAccounting'
<1> SUFFICES ASSUME NEW q \in Runners
             PROVE  free'[q] + Cardinality(Owners(q)') + Cardinality(Raised(q)') + leaked'[q] = Slots
  BY DEF SlotAccounting
<1>1. CASE q = r
  BY <1>1, Balance
<1>2. CASE q # r
  <2>1. Owners(q)' = Owners(q) /\ Raised(q)' = Raised(q)
    BY <1>2 DEF Owners, Owns, Raised
  <2> QED BY <1>2, <2>1 DEF SlotAccounting
<1> QED BY <1>1, <1>2

-----------------------------------------------------------------------------
(* What the shared pieces do to permits.                                     *)

\* A coroutine put at a pc without a permit settles.
LEMMA BecomeSettles ==
  ASSUME TypeInv, NEW t \in Tasks, NEW c, c.pc \notin SlotPCs, Become(t, c)
  PROVE  Settles(t)
  BY DEF TypeInv, TypeOK, Become, Settles

\* A coroutine that ends settles.
LEMMA FinishSettles ==
  ASSUME TypeInv, NEW t \in Tasks, Finish(t)
  PROVE  Settles(t) /\ task'[t] = NoTask
<1>1. NoTask.pc \notin SlotPCs
  BY DEF NoTask, SlotPCs
<1>2. Become(t, NoTask)
  BY DEF Finish
<1> QED BY <1>1, <1>2, BecomeSettles DEF Become, TypeInv, TypeOK

\* The caller of _raise settles on the LocalInstance it got.
LEMMA AttachSettles ==
  ASSUME TypeInv, NEW t \in Tasks, NEW c \in Coroutine, NEW o \in Objects, Attach(t, c, o)
  PROVE  Settles(t)
<1>1. ASSUME NEW pc \in {"begin", "context", "lock", "termwait", "term"},
             Become(t, [c EXCEPT !.pc = pc, !.obj = o])
      PROVE  Settles(t)
  <2>1. [c EXCEPT !.pc = pc, !.obj = o].pc \notin SlotPCs
    BY DEF Coroutine, SlotPCs
  <2> QED BY <1>1, <2>1, BecomeSettles
<1>2. CASE TakeLock(t, c, o, "context", "lock")
  BY <1>1, <1>2 DEF TakeLock
<1>3. CASE Become(t, [c EXCEPT !.pc = IF TermHeld(o) THEN "termwait" ELSE "term", !.obj = o])
  <2>1. (IF TermHeld(o) THEN "termwait" ELSE "term") \in {"termwait", "term"}
    OBVIOUS
  <2> QED BY <1>1, <1>3, <2>1
<1> QED BY <1>1, <1>2, <1>3, FinishSettles DEF Attach

\* handle_event's first stretch takes no permit.
LEMMA HandleEventSettles ==
  ASSUME TypeInv, NEW t \in Tasks, NEW r, NEW i, NEW k, HandleEvent(t, r, i, k)
  PROVE  Settles(t)
<1>1. ASSUME NEW c, c.pc \in {"begin", "peek"}, Become(t, c)
      PROVE  Settles(t)
  BY <1>1, BecomeSettles DEF SlotPCs
<1>2. CASE Become(t, [NewTask("skip", r, i, k) EXCEPT !.pc = "begin"])
  BY <1>1, <1>2 DEF NewTask
<1>3. CASE Become(t, [NewTask("event", r, i, k) EXCEPT !.pc = "begin", !.obj = local[r][i]])
  <2> DEFINE c == [NewTask("event", r, i, k) EXCEPT !.pc = "begin", !.obj = local[r][i]]
  <2>1. c.pc = "begin" /\ Become(t, c)
    BY <1>3 DEF NewTask
  <2> HIDE DEF c
  <2> QED BY <1>1, <2>1
<1>4. CASE Become(t, [NewTask("event", r, i, k) EXCEPT !.pc = "peek"])
  BY <1>1, <1>4 DEF NewTask
<1> QED BY <1>2, <1>3, <1>4 DEF HandleEvent

\* _raise's first stretch: it takes a permit for "raise" or none at all.
LEMMA EnterRaiseMoves ==
  ASSUME SlotInv, TypeInv', NEW t \in Tasks, task[t].pc \notin SlotPCs,
         NEW c \in Coroutine, WellFormed(c), c # NoTask,
         EnterRaise(t, c), UNCHANGED <<leaked, local, raising>>
  PROVE  ClaimInv' /\ SlotAccounting'
<1>0. /\ c.run \in Runners /\ c.ins \in Instances
      /\ local[c.run][c.ins] \in Objects \cup {None}
      /\ free \in [Runners -> Nat] /\ leaked \in [Runners -> Nat]
      /\ task \in [Tasks -> Coroutine]
      /\ TypeInv /\ ClaimInv /\ SlotAccounting
  <2>1. TypeInv /\ ClaimInv /\ SlotAccounting
    BY DEF SlotInv
  <2>2. /\ free \in [Runners -> Nat] /\ leaked \in [Runners -> Nat]
        /\ task \in [Tasks -> Coroutine]
        /\ local \in [Runners -> [Instances -> Objects \cup {None}]]
    BY <2>1 DEF TypeInv, TypeOK
  <2>3. c.run \in Runners /\ c.ins \in Instances
    BY DEF WellFormed
  <2>4. local[c.run][c.ins] \in Objects \cup {None}
    BY <2>2, <2>3
  <2> QED BY <2>1, <2>2, <2>3, <2>4
<1>1. CASE local[c.run][c.ins] # None /\ Attach(t, c, local[c.run][c.ins]) /\ UNCHANGED semVars
  <2>1. Settles(t)
    BY <1>0, <1>1, AttachSettles
  <2> QED BY <1>0, <1>1, <2>1, NeutralSettle DEF semVars
<1>2. CASE /\ SlotFree(c.run)
           /\ free' = [free EXCEPT ![c.run] = @ - 1]
           /\ Become(t, [c EXCEPT !.pc = "raise"])
  <2>1. /\ \A x \in Tasks \ {t} : task'[x] = task[x]
        /\ task'[t].pc = "raise" /\ task'[t].run = c.run
    BY <1>0, <1>2 DEF Become, Coroutine
  <2>2. ClaimInv'
    <3>1. \A x \in Tasks : Claiming(task'[x]) => task'[x] = task[x]
      BY <2>1 DEF Claiming
    <3> QED BY <1>0, <3>1, ClaimKept
  <2>3. \A x \in Tasks \ {t}, q \in Runners : Owns(task'[x], q) <=> Owns(task[x], q)
    BY <2>1
  <2>4. \A q \in Runners \ {c.run} : /\ free'[q] = free[q] /\ leaked'[q] = leaked[q]
                                     /\ local'[q] = local[q]
                                     /\ Owns(task'[t], q) <=> Owns(task[t], q)
    BY <1>0, <1>2, <2>1 DEF Owns
  <2>5. Owned(task'[t], c.run) = 1 /\ Owned(task[t], c.run) = 0
    BY <2>1 DEF Owned, Owns, SlotPCs
  <2>6. /\ free[c.run] \in Nat /\ leaked[c.run] \in Nat
        /\ free'[c.run] = free[c.run] - 1
        /\ Taken(local[c.run][c.ins]) \in Nat
    BY <1>0, <1>2 DEF Taken
  <2>7. free'[c.run] + leaked'[c.run] + Owned(task'[t], c.run) + Taken(local'[c.run][c.ins])
          = free[c.run] + leaked[c.run] + Owned(task[t], c.run) + Taken(local[c.run][c.ins])
    BY <2>5, <2>6
  <2>8. SlotAccounting'
    BY <1>0, <2>3, <2>4, <2>7, Move
  <2> QED BY <2>2, <2>8
<1>3. CASE /\ Become(t, [c EXCEPT !.pc = "slot"])
           /\ UNCHANGED <<free, objVars, hubCalls>>
  <2>1. [c EXCEPT !.pc = "slot"].pc \notin SlotPCs
    BY DEF Coroutine, SlotPCs
  <2>2. Settles(t)
    BY <1>0, <1>3, <2>1, BecomeSettles
  <2> QED BY <1>0, <1>3, <2>2, NeutralSettle
<1> QED BY <1>1, <1>2, <1>3 DEF EnterRaise

\* stop_instance's first stretch: the permit of the instance it pops becomes
\* its own.  t either starts, or is the idle pass that has just put back the
\* permit of the instance before (back = 1).
LEMMA StopMoves ==
  ASSUME SlotInv, TypeInv', NEW t \in Tasks, NEW r \in Runners, NEW i \in Instances,
         NEW kind, NEW lk, StopInstance(t, r, i, kind, lk),
         UNCHANGED <<leaked, raising>>,
         NEW back \in {0, 1}, Owned(task[t], r) = back,
         \A q \in Runners \ {r} : ~ Owns(task[t], q),
         ~ Claiming(task[t]),
         free' = [free EXCEPT ![r] = @ + back]
  PROVE  ClaimInv' /\ SlotAccounting'
<1> DEFINE o == local[r][i]
<1>0. /\ free \in [Runners -> Nat] /\ leaked \in [Runners -> Nat]
      /\ local \in [Runners -> [Instances -> Objects \cup {None}]]
      /\ task \in [Tasks -> Coroutine]
      /\ TypeInv /\ ClaimInv /\ SlotAccounting
  BY DEF SlotInv, TypeInv, TypeOK
<1>1. /\ o # None
      /\ local' = [local EXCEPT ![r][i] = None]
  BY DEF StopInstance
<1>2. task'[t].run = r /\ task'[t].pc \in {"release", "stoplock"}
  BY DEF StopInstance, NewTask
<1>3. ASSUME NEW x \in Tasks \ {t}
      PROVE  \/ task'[x] = task[x]
             \/ task[x].pc = "turn" /\ task'[x].pc = "cancel"
  <2> DEFINE victim == x = lk[o] /\ At(x, "turn") /\ task[x].kind = "event"
  <2>1. task'[x] = IF victim THEN [task[x] EXCEPT !.pc = "cancel"] ELSE task[x]
    BY DEF StopInstance
  <2>2. CASE victim
    BY <1>0, <2>1, <2>2 DEF At, Coroutine
  <2>3. CASE ~victim
    BY <2>1, <2>3
  <2> QED BY <2>2, <2>3
<1>4. ClaimInv'
  <2>1. \A x \in Tasks : Claiming(task'[x]) => Claiming(task[x]) /\ task'[x] = task[x]
    BY <1>2, <1>3 DEF Claiming
  <2>2. \A q \in Runners, j \in Instances : local'[q][j] \in {local[q][j], None}
    BY <1>0, <1>1
  <2>3. \A x \in Tasks : Claiming(task[x]) => task[x].run \in Runners /\ task[x].ins \in Instances
    BY <1>0 DEF Claiming, TypeInv, WellFormed, NoTask
  <2> QED BY <1>0, <2>1, <2>2, <2>3, ClaimKept
<1>5. \A x \in Tasks \ {t}, q \in Runners : Owns(task'[x], q) <=> Owns(task[x], q)
  <2> SUFFICES ASSUME NEW x \in Tasks \ {t}, NEW q \in Runners
               PROVE  Owns(task'[x], q) <=> Owns(task[x], q)
    OBVIOUS
  <2>1. CASE task'[x] = task[x]
    BY <2>1
  <2>2. CASE task[x].pc = "turn" /\ task'[x].pc = "cancel"
    BY <2>2 DEF Owns, SlotPCs
  <2> QED BY <1>3, <2>1, <2>2
<1>6. \A q \in Runners \ {r} : /\ free'[q] = free[q] /\ leaked'[q] = leaked[q]
                               /\ local'[q] = local[q]
                               /\ Owns(task'[t], q) <=> Owns(task[t], q)
  BY <1>0, <1>1, <1>2 DEF Owns
<1>7. \A j \in Instances \ {i} : local'[r][j] = local[r][j]
  BY <1>0, <1>1
<1>8. /\ Owned(task'[t], r) = 1
      /\ Taken(local'[r][i]) = 0 /\ Taken(local[r][i]) = 1
  BY <1>0, <1>1, <1>2 DEF Owned, Owns, Taken, SlotPCs
<1>9. free[r] \in Nat /\ leaked[r] \in Nat /\ free'[r] = free[r] + back
  BY <1>0
<1>10. free'[r] + leaked'[r] + Owned(task'[t], r) + Taken(local'[r][i])
         = free[r] + leaked[r] + Owned(task[t], r) + Taken(local[r][i])
  BY <1>8, <1>9
<1>11. SlotAccounting'
  BY <1>0, <1>5, <1>6, <1>7, <1>10, Move
<1> QED BY <1>4, <1>11

\* A coroutine that owned a permit puts it back, or loses it (leaked).
LEMMA GivesBack ==
  ASSUME SlotInv, TypeInv', NEW t \in Tasks, task[t].pc \in SlotPCs, Settles(t),
         \/ free' = [free EXCEPT ![task[t].run] = @ + 1] /\ UNCHANGED leaked
         \/ leaked' = [leaked EXCEPT ![task[t].run] = @ + 1] /\ UNCHANGED free,
         UNCHANGED local,
         \A x \in Tasks \ {t} : Claiming(task[x]) => raising'[task[x].run] = raising[task[x].run]
  PROVE  ClaimInv' /\ SlotAccounting'
<1> DEFINE r == task[t].run
           i == task[t].ins
<1>0. /\ free \in [Runners -> Nat] /\ leaked \in [Runners -> Nat]
      /\ TypeInv /\ ClaimInv /\ SlotAccounting
  BY DEF SlotInv, TypeInv, TypeOK
<1>1. r \in Runners /\ i \in Instances
  BY <1>0 DEF TypeInv, WellFormed, NoTask, SlotPCs
<1>2. ClaimInv'
  <2>1. \A x \in Tasks : Claiming(task'[x]) => x # t /\ task'[x] = task[x]
    BY DEF Settles, Claiming, SlotPCs
  <2> QED BY <1>0, <2>1, ClaimKept
<1>3. \A x \in Tasks \ {t}, q \in Runners : Owns(task'[x], q) <=> Owns(task[x], q)
  BY DEF Settles
<1>4. \A q \in Runners \ {r} : /\ free'[q] = free[q] /\ leaked'[q] = leaked[q]
                               /\ local'[q] = local[q]
                               /\ Owns(task'[t], q) <=> Owns(task[t], q)
  BY <1>0 DEF Settles, Owns
<1>5. Owned(task[t], r) = 1 /\ Owned(task'[t], r) = 0 /\ Taken(local[r][i]) \in Nat
  BY DEF Owned, Owns, Settles, Taken
<1>6. /\ free[r] \in Nat /\ leaked[r] \in Nat
      /\ \/ free'[r] = free[r] + 1 /\ leaked'[r] = leaked[r]
         \/ leaked'[r] = leaked[r] + 1 /\ free'[r] = free[r]
  BY <1>0, <1>1
<1>7. free'[r] + leaked'[r] + Owned(task'[t], r) + Taken(local'[r][i])
        = free[r] + leaked[r] + Owned(task[t], r) + Taken(local[r][i])
  BY <1>5, <1>6
<1>8. SlotAccounting'
  BY <1>0, <1>1, <1>3, <1>4, <1>7, Move
<1> QED BY <1>2, <1>8

\* Only the owner of _raise_lock has a claim in flight on its runner.
LEMMA RaiseLockExcludes ==
  ASSUME SlotInv, NEW t \in Tasks, NEW x \in Tasks \ {t}, Claiming(task[x]),
         \/ Claiming(task[t]) /\ task[t].run = task[x].run
         \/ raising[task[x].run] = None
         \/ raising[task[x].run] = t
  PROVE  FALSE
  BY RunnerAssumption DEF SlotInv, ClaimInv, RunnerAssumption

-----------------------------------------------------------------------------
(* One step per action.                                                      *)

\* The Event path, turns and console commands move no permit but _raise's.
LEMMA EventStepsSlots ==
  ASSUME SlotInv, TypeInv', NEW t \in Tasks,
         \/ PeekHolder(t) \/ Forward(t) \/ BeginEvent(t) \/ MarkProcessed(t)
         \/ TurnStarts(t) \/ TurnCompletes(t) \/ TurnFails(t) \/ TermGranted(t) \/ TermDone(t)
  PROVE  ClaimInv' /\ SlotAccounting'
<1> USE DEF dbVars, semVars, objVars
<1>0. /\ TypeInv /\ ClaimInv /\ SlotAccounting
      /\ task \in [Tasks -> Coroutine] /\ task[t] \in Coroutine /\ WellFormed(task[t])
  BY DEF SlotInv, TypeInv, TypeOK
<1>0a. task[t].pc \notin SlotPCs /\ task[t] # NoTask
  <2>1. task[t].pc \in {"peek", "forward", "begin", "mark", "context", "turn", "cancel",
                        "termwait", "term"}
    BY DEF PeekHolder, Forward, BeginEvent, MarkProcessed, TurnStarts, TurnCompletes, TurnFails,
           TermGranted, TermDone, At
  <2> QED BY <2>1 DEF SlotPCs, NoTask
<1>0b. ASSUME NEW pc \in PCs \ SlotPCs, Goto(t, pc)
       PROVE  Settles(t)
  <2>1. [task[t] EXCEPT !.pc = pc].pc \notin SlotPCs
    BY <1>0 DEF Coroutine
  <2> QED BY <1>0, <1>0b, <2>1, BecomeSettles DEF Goto
<1>1. CASE PeekHolder(t)
  <2>1. CASE /\ Become(t, [task[t] EXCEPT !.pc = "forward", !.run = holder[task[t].ins]])
             /\ UNCHANGED <<semVars, objVars, hubCalls>>
    <3>1. [task[t] EXCEPT !.pc = "forward", !.run = holder[task[t].ins]].pc \notin SlotPCs
      BY <1>0 DEF Coroutine, SlotPCs
    <3>2. Settles(t)
      BY <1>0, <2>1, <3>1, BecomeSettles
    <3> QED BY <1>0, <1>0a, <1>1, <2>1, <3>2, NeutralSettle DEF PeekHolder
  <2>2. CASE EnterRaise(t, task[t])
    BY <1>0, <1>0a, <1>1, <2>2, EnterRaiseMoves DEF PeekHolder
  <2> QED BY <1>1, <2>1, <2>2 DEF PeekHolder
<1>2. CASE Forward(t)
  <2>1. Settles(t)
    BY <1>0, <1>2, HandleEventSettles, FinishSettles DEF Forward
  <2> QED BY <1>0, <1>0a, <1>2, <2>1, NeutralSettle DEF Forward
<1>3. CASE BeginEvent(t)
  <2>1. Settles(t)
    <3>1. CASE Finish(t)
      BY <1>0, <3>1, FinishSettles
    <3>2. CASE Goto(t, "mark")
      BY <1>0b, <3>2 DEF PCs, SlotPCs
    <3>3. CASE TakeLock(t, task[t], task[t].obj, "context", "lock")
      <4>1. \A pc \in {"context", "lock"} :
              [task[t] EXCEPT !.pc = pc, !.obj = task[t].obj].pc \notin SlotPCs
        BY <1>0 DEF Coroutine, SlotPCs
      <4> QED BY <1>0, <3>3, <4>1, BecomeSettles DEF TakeLock
    <3> QED BY <1>3, <3>1, <3>2, <3>3 DEF BeginEvent
  <2> QED BY <1>0, <1>0a, <1>3, <2>1, NeutralSettle DEF BeginEvent
<1>4. CASE MarkProcessed(t)
  <2>1. Settles(t)
    BY <1>0, <1>4, FinishSettles DEF MarkProcessed
  <2> QED BY <1>0, <1>0a, <1>4, <2>1, NeutralSettle DEF MarkProcessed
<1>5. CASE TurnStarts(t)
  <2>1. Settles(t)
    BY <1>0b, <1>5 DEF TurnStarts, PCs, SlotPCs
  <2> QED BY <1>0, <1>0a, <1>5, <2>1, NeutralSettle DEF TurnStarts
<1>6. CASE TurnCompletes(t)
  <2>1. Settles(t)
    BY <1>0, <1>0b, <1>6, FinishSettles DEF TurnCompletes, PCs, SlotPCs
  <2> QED BY <1>0, <1>0a, <1>6, <2>1, NeutralSettle DEF TurnCompletes
<1>7. CASE TurnFails(t)
  <2>1. Settles(t)
    BY <1>0, <1>7, FinishSettles DEF TurnFails
  <2> QED BY <1>0, <1>0a, <1>7, <2>1, NeutralSettle DEF TurnFails
<1>8. CASE TermGranted(t)
  <2>1. Settles(t)
    BY <1>0b, <1>8 DEF TermGranted, PCs, SlotPCs
  <2> QED BY <1>0, <1>0a, <1>8, <2>1, NeutralSettle DEF TermGranted
<1>9. CASE TermDone(t)
  <2>1. Settles(t)
    BY <1>0, <1>9, FinishSettles DEF TermDone
  <2> QED BY <1>0, <1>0a, <1>9, <2>1, NeutralSettle DEF TermDone
<1> QED BY <1>1, <1>2, <1>3, <1>4, <1>5, <1>6, <1>7, <1>8, <1>9

\* _raise moves the permit it acquired to the instance it raised, or back.
LEMMA RaiseStepsSlots ==
  ASSUME SlotInv, TypeInv', NEW t \in Tasks,
         \/ SlotGranted(t) \/ RaiseLocked(t) \/ ClaimInstance(t) \/ ClaimRefused(t)
         \/ ReadHolder(t)
  PROVE  ClaimInv' /\ SlotAccounting'
<1> USE DEF dbVars, semVars, objVars
<1> DEFINE r == task[t].run
           i == task[t].ins
<1>0. /\ TypeInv /\ ClaimInv /\ SlotAccounting
      /\ task \in [Tasks -> Coroutine] /\ task[t] \in Coroutine /\ WellFormed(task[t])
      /\ free \in [Runners -> Nat] /\ leaked \in [Runners -> Nat]
      /\ local \in [Runners -> [Instances -> Objects \cup {None}]]
      /\ raising \in [Runners -> Tasks \cup {None}]
  BY DEF SlotInv, TypeInv, TypeOK
<1>0a. task[t].pc \in {"slot", "raise", "claim", "refused"}
  BY DEF SlotGranted, RaiseLocked, ClaimInstance, ClaimRefused, ReadHolder, At
<1>0b. r \in Runners /\ i \in Instances
  BY <1>0, <1>0a DEF WellFormed, NoTask
<1>1. CASE SlotGranted(t)
  <2>1. /\ \A x \in Tasks \ {t} : task'[x] = task[x]
        /\ task'[t].pc = "raise" /\ task'[t].run = r /\ task[t].pc = "slot"
    BY <1>0, <1>1 DEF SlotGranted, Goto, Become, Coroutine, At
  <2>2. ClaimInv'
    <3>1. \A x \in Tasks : Claiming(task'[x]) => task'[x] = task[x]
      BY <2>1 DEF Claiming
    <3> QED BY <1>0, <1>1, <3>1, ClaimKept DEF SlotGranted
  <2>3. \A x \in Tasks \ {t}, q \in Runners : Owns(task'[x], q) <=> Owns(task[x], q)
    BY <2>1
  <2>4. \A q \in Runners \ {r} : /\ free'[q] = free[q] /\ leaked'[q] = leaked[q]
                                 /\ local'[q] = local[q]
                                 /\ Owns(task'[t], q) <=> Owns(task[t], q)
    BY <1>0, <1>1, <2>1 DEF SlotGranted, Owns
  <2>5. /\ Owned(task'[t], r) = 1 /\ Owned(task[t], r) = 0
        /\ Taken(local[r][i]) \in Nat
    BY <2>1 DEF Owned, Owns, SlotPCs, Taken
  <2>6. /\ free[r] \in Nat /\ leaked[r] \in Nat
        /\ free'[r] = free[r] - 1
        /\ leaked'[r] = leaked[r] /\ local' = local
    BY <1>0, <1>0b, <1>1 DEF SlotGranted
  <2>7. free'[r] + leaked'[r] + Owned(task'[t], r) + Taken(local'[r][i])
          = free[r] + leaked[r] + Owned(task[t], r) + Taken(local[r][i])
    BY <2>5, <2>6
  <2>8. SlotAccounting'
    BY <1>0, <1>0b, <2>3, <2>4, <2>6, <2>7, Move
  <2> QED BY <2>2, <2>8
<1>2. CASE RaiseLocked(t)
  <2>0. task[t].pc = "raise" /\ raising[r] = None
    BY <1>2 DEF RaiseLocked, At
  <2>1. CASE local[r][i] # None /\ Attach(t, task[t], local[r][i]) /\ FreeSlot(r) /\ UNCHANGED raising
    <3>1. Settles(t)
      BY <1>0, <1>0b, <2>1, AttachSettles
    <3> QED BY <1>2, <2>0, <2>1, <3>1, GivesBack DEF RaiseLocked, FreeSlot, SlotPCs
  <2>2. CASE /\ local[r][i] = None
             /\ raising' = [raising EXCEPT ![r] = t]
             /\ Goto(t, "claim")
             /\ UNCHANGED <<free, objVars, hubCalls>>
    <3>1. /\ \A x \in Tasks \ {t} : task'[x] = task[x]
          /\ task'[t].pc = "claim" /\ task'[t].run = r /\ task'[t].ins = i
      BY <1>0, <2>2 DEF Goto, Become, Coroutine
    <3>2. ClaimInv'
      <4>1. raising'[r] = t /\ local' = local
        BY <1>0, <1>0b, <1>2, <2>2 DEF RaiseLocked
      <4>2. ASSUME NEW x \in Tasks \ {t}, Claiming(task'[x])
            PROVE  /\ raising'[task'[x].run] = x
                   /\ local'[task'[x].run][task'[x].ins] = None
        <5>1. Claiming(task[x]) /\ task'[x] = task[x]
          BY <3>1, <4>2
        <5>2. task[x].run # r
          BY <2>0, <5>1, RaiseLockExcludes
        <5> QED BY <1>0, <2>2, <4>1, <5>1, <5>2 DEF ClaimInv
      <4> QED BY <2>2, <3>1, <4>1, <4>2 DEF ClaimInv
    <3>3. \A q \in Runners : Owners(q)' = Owners(q) /\ Raised(q)' = Raised(q)
      <4>1. \A x \in Tasks, q \in Runners : Owns(task'[x], q) <=> Owns(task[x], q)
        BY <2>0, <3>1 DEF Owns, SlotPCs
      <4> QED BY <1>2, <4>1 DEF RaiseLocked, Owners, Owns, Raised
    <3>4. SlotAccounting'
      BY <1>0, <1>2, <2>2, <3>3 DEF RaiseLocked, SlotAccounting
    <3> QED BY <3>2, <3>4
  <2> QED BY <1>2, <2>1, <2>2 DEF RaiseLocked
<1>3. CASE ClaimInstance(t)
  <2>0. task[t].pc = "claim" /\ NewObject \in Objects /\ NewObject # None
    BY <1>3, RunnerAssumption DEF ClaimInstance, At, NewObject, RunnerAssumption
  <2>1. local[r][i] = None /\ Claiming(task[t])
    BY <1>0, <2>0 DEF ClaimInv, Claiming
  <2>2. Settles(t)
    BY <1>0, <1>3, <2>0, AttachSettles DEF ClaimInstance
  <2>3. ClaimInv'
    <3>1. ASSUME NEW x \in Tasks, Claiming(task'[x])
          PROVE  /\ Claiming(task[x]) /\ task'[x] = task[x]
                 /\ raising'[task[x].run] = raising[task[x].run]
                 /\ local'[task[x].run][task[x].ins] = local[task[x].run][task[x].ins]
      <4>1. x # t /\ task'[x] = task[x]
        BY <2>2, <3>1 DEF Settles, Claiming, SlotPCs
      <4>2. Claiming(task[x])
        BY <3>1, <4>1
      <4>3. task[x].run # r
        BY <2>1, <4>1, <4>2, RaiseLockExcludes
      <4> QED BY <1>0, <1>3, <4>1, <4>2, <4>3 DEF ClaimInstance
    <3> QED BY <1>0, <3>1, ClaimKept
  <2>4. \A x \in Tasks \ {t}, q \in Runners : Owns(task'[x], q) <=> Owns(task[x], q)
    BY <2>2 DEF Settles
  <2>5. \A q \in Runners \ {r} : /\ free'[q] = free[q] /\ leaked'[q] = leaked[q]
                                 /\ local'[q] = local[q]
                                 /\ Owns(task'[t], q) <=> Owns(task[t], q)
    BY <1>0, <1>3, <2>2 DEF ClaimInstance, Owns, Settles
  <2>6. \A j \in Instances \ {i} : local'[r][j] = local[r][j]
    BY <1>0, <1>0b, <1>3 DEF ClaimInstance
  <2>7. /\ Owned(task'[t], r) = 0 /\ Owned(task[t], r) = 1
        /\ Taken(local[r][i]) = 0
    BY <2>0, <2>1, <2>2 DEF Owned, Owns, SlotPCs, Settles, Taken
  <2>8. Taken(local'[r][i]) = 1
    BY <1>0, <1>0b, <1>3, <2>0 DEF ClaimInstance, Taken
  <2>9. /\ free[r] \in Nat /\ leaked[r] \in Nat
        /\ free'[r] = free[r] /\ leaked'[r] = leaked[r]
    BY <1>0, <1>0b, <1>3 DEF ClaimInstance
  <2>10. free'[r] + leaked'[r] + Owned(task'[t], r) + Taken(local'[r][i])
           = free[r] + leaked[r] + Owned(task[t], r) + Taken(local[r][i])
    BY <2>7, <2>8, <2>9
  <2>11. SlotAccounting'
    <3> HIDE DEF r, i
    <3> QED BY <1>0, <1>0b, <2>4, <2>5, <2>6, <2>10, Move
  <2> QED BY <2>3, <2>11
<1>4. CASE ClaimRefused(t)
  <2>1. /\ \A x \in Tasks \ {t} : task'[x] = task[x]
        /\ task'[t].pc = "refused" /\ task[t].pc = "claim"
        /\ task'[t].run = r /\ task'[t].ins = i
    BY <1>0, <1>4 DEF ClaimRefused, Goto, Become, Coroutine, At
  <2>2. \A x \in Tasks : /\ \A q \in Runners : Owns(task'[x], q) <=> Owns(task[x], q)
                         /\ Claiming(task'[x]) =>
                              /\ Claiming(task[x])
                              /\ task'[x].run = task[x].run /\ task'[x].ins = task[x].ins
    BY <2>1 DEF Owns, Claiming, SlotPCs
  <2> QED BY <1>0, <1>4, <2>2, Neutral DEF ClaimRefused
<1>5. CASE ReadHolder(t)
  <2>0. task[t].pc = "refused"
    BY <1>5 DEF ReadHolder, At
  <2>1. Settles(t)
    <3>1. CASE Become(t, [task[t] EXCEPT !.pc = "forward", !.run = holder[i]])
      <4>1. [task[t] EXCEPT !.pc = "forward", !.run = holder[i]].pc \notin SlotPCs
        BY <1>0 DEF Coroutine, SlotPCs
      <4> QED BY <1>0, <3>1, <4>1, BecomeSettles
    <3> QED BY <1>0, <1>5, <3>1, FinishSettles DEF ReadHolder
  <2>2. \A x \in Tasks \ {t} : Claiming(task[x]) => raising'[task[x].run] = raising[task[x].run]
    <3> SUFFICES ASSUME NEW x \in Tasks \ {t}, Claiming(task[x])
                 PROVE  raising'[task[x].run] = raising[task[x].run]
      OBVIOUS
    <3>1. Claiming(task[t])
      BY <2>0 DEF Claiming
    <3>2. task[x].run # r
      BY <3>1, RaiseLockExcludes
    <3> QED BY <1>0, <1>5, <3>2 DEF ReadHolder
  <2> QED BY <1>5, <2>0, <2>1, <2>2, GivesBack DEF ReadHolder, FreeSlot, SlotPCs
<1> QED BY <1>1, <1>2, <1>3, <1>4, <1>5

\* The end of a stop puts the permit back; an idle pass goes on from there.
LEMMA ReleaseStepsSlots ==
  ASSUME SlotInv, TypeInv', NEW t \in Tasks, LockGranted(t) \/ ReleaseInstance(t)
  PROVE  ClaimInv' /\ SlotAccounting'
<1> USE DEF dbVars, semVars, objVars
<1> DEFINE r == task[t].run
<1>0. /\ TypeInv /\ ClaimInv /\ SlotAccounting
      /\ task \in [Tasks -> Coroutine] /\ task[t] \in Coroutine /\ WellFormed(task[t])
      /\ sweep \in [Runners -> SUBSET (Instances \X Objects)]
  BY DEF SlotInv, TypeInv, TypeOK
<1>0a. task[t].pc \in {"lock", "stoplock", "release"}
  BY DEF LockGranted, ReleaseInstance, At
<1>0b. r \in Runners
  BY <1>0, <1>0a DEF WellFormed, NoTask
<1>1. CASE LockGranted(t)
  <2>1. /\ \A x \in Tasks \ {t} : task'[x] = task[x]
        /\ \/ task[t].pc = "lock" /\ task'[t].pc = "context"
           \/ task[t].pc = "stoplock" /\ task'[t].pc = "release"
        /\ task'[t].run = r /\ task'[t].ins = task[t].ins
    BY <1>0, <1>1 DEF LockGranted, Goto, Become, Coroutine, At
  <2>2. \A x \in Tasks : /\ \A q \in Runners : Owns(task'[x], q) <=> Owns(task[x], q)
                         /\ Claiming(task'[x]) =>
                              /\ Claiming(task[x])
                              /\ task'[x].run = task[x].run /\ task'[x].ins = task[x].ins
    BY <2>1 DEF Owns, Claiming, SlotPCs
  <2> QED BY <1>0, <1>1, <2>2, Neutral DEF LockGranted
<1>2. CASE ReleaseInstance(t)
  <2> DEFINE lk == [locked EXCEPT ![task[t].obj] = None]
  <2>0. task[t].pc = "release" /\ UNCHANGED <<raising, leaked>> /\ FreeSlot(r)
    BY <1>2 DEF ReleaseInstance, At
  <2>1. CASE Finish(t) /\ UNCHANGED local
    <3>1. Settles(t)
      BY <1>0, <2>1, FinishSettles
    <3> QED BY <2>0, <2>1, <3>1, GivesBack DEF FreeSlot, SlotPCs
  <2>2. ASSUME NEW p \in sweep[r], StopInstance(t, r, p[1], "reap", lk)
        PROVE  ClaimInv' /\ SlotAccounting'
    <3>1. p[1] \in Instances
      BY <1>0, <1>0b, <2>2
    <3>2. Owned(task[t], r) = 1 /\ ~ Claiming(task[t]) /\ \A q \in Runners \ {r} : ~ Owns(task[t], q)
      BY <2>0 DEF Owned, Owns, Claiming, SlotPCs
    <3>3. free' = [free EXCEPT ![r] = @ + 1]
      BY <2>0 DEF FreeSlot
    <3> HIDE DEF r, lk
    <3> QED BY <1>0b, <2>0, <2>2, <3>1, <3>2, <3>3, StopMoves
  <2> QED BY <1>2, <2>1, <2>2 DEF ReleaseInstance, UnloadNext
<1> QED BY <1>1, <1>2

\* A client that goes away, or a store call that raises, puts the permit back;
\* only a release that raises loses it.
LEMMA FailureStepsSlots ==
  ASSUME SlotInv, TypeInv', NEW t \in Tasks, ClientGone(t) \/ StoreError(t)
  PROVE  ClaimInv' /\ SlotAccounting'
<1> USE DEF dbVars, semVars, objVars
<1> DEFINE r == task[t].run
<1>0. /\ TypeInv /\ ClaimInv /\ SlotAccounting
      /\ raising \in [Runners -> Tasks \cup {None}]
  BY DEF SlotInv, TypeInv, TypeOK
<1>1. Settles(t) /\ UNCHANGED local
  BY <1>0, FinishSettles DEF ClientGone, StoreError
<1>2. CASE task[t].pc \notin SlotPCs /\ UNCHANGED <<free, leaked, raising>>
  BY <1>0, <1>1, <1>2, NeutralSettle
<1>3. CASE /\ task[t].pc \in {"raise", "claim", "refused"}
           /\ FreeSlot(r) /\ UNCHANGED leaked
           /\ raising' = [raising EXCEPT ![r] = IF @ = t THEN None ELSE @]
  <2>1. \A x \in Tasks \ {t} : Claiming(task[x]) => raising'[task[x].run] = raising[task[x].run]
    <3> SUFFICES ASSUME NEW x \in Tasks \ {t}, Claiming(task[x])
                 PROVE  raising'[task[x].run] = raising[task[x].run]
      OBVIOUS
    <3>1. raising[task[x].run] # t
      BY RaiseLockExcludes
    <3> QED BY <1>0, <1>3, <3>1
  <2> QED BY <1>1, <1>3, <2>1, GivesBack DEF FreeSlot, SlotPCs
<1>4. CASE /\ task[t].pc \in {"claim", "refused"}
           /\ FreeSlot(r) /\ UNCHANGED leaked
           /\ raising' = [raising EXCEPT ![r] = None]
  <2>1. \A x \in Tasks \ {t} : Claiming(task[x]) => raising'[task[x].run] = raising[task[x].run]
    <3> SUFFICES ASSUME NEW x \in Tasks \ {t}, Claiming(task[x])
                 PROVE  raising'[task[x].run] = raising[task[x].run]
      OBVIOUS
    <3>1. Claiming(task[t])
      BY <1>4 DEF Claiming
    <3>2. task[x].run # r
      BY <3>1, RaiseLockExcludes
    <3> QED BY <1>0, <1>4, <3>2
  <2> QED BY <1>1, <1>4, <2>1, GivesBack DEF FreeSlot, SlotPCs
<1>5. CASE /\ task[t].pc = "release"
           /\ leaked' = [leaked EXCEPT ![r] = @ + 1]
           /\ UNCHANGED <<free, raising>>
  BY <1>1, <1>5, GivesBack DEF SlotPCs
<1>6. CASE ClientGone(t)
  BY <1>2, <1>3, <1>6 DEF ClientGone, At, SlotPCs
<1>7. CASE StoreError(t)
  BY <1>2, <1>4, <1>5, <1>7 DEF StoreError, At, SlotPCs
<1> QED BY <1>6, <1>7

\* Arrivals take a permit through _raise; stops and idle passes take over the
\* permit of the instance they pop.
LEMMA ArrivalStepsSlots ==
  ASSUME SlotInv, TypeInv', NEW t \in Tasks, NEW r \in Runners, NEW i \in Instances,
         \/ \E k \in Keys : EventArrives(t, r, i, k)
         \/ \E kind \in {"chat", "terminal", "raise"} : Request(t, r, i, kind)
         \/ ApiStop(t, r, i) \/ ReapIdle(t, r)
         \/ \E c \in hubCalls : HubStopAnswered(t, c)
  PROVE  ClaimInv' /\ SlotAccounting'
<1> USE DEF dbVars, semVars, objVars
<1>0. /\ TypeInv /\ ClaimInv /\ SlotAccounting
      /\ free \in [Runners -> Nat]
      /\ hubCalls \subseteq HubCall
      /\ task \in [Tasks -> Coroutine]
  BY DEF SlotInv, TypeInv, TypeOK
<1>1. ASSUME task[t] = NoTask
      PROVE  /\ task[t].pc \notin SlotPCs /\ ~ Claiming(task[t])
             /\ \A q : ~ Owns(task[t], q)
             /\ \A q : Owned(task[t], q) = 0
  BY <1>1 DEF NoTask, SlotPCs, Claiming, Owns, Owned
<1>2. ASSUME NEW q \in Runners, NEW j \in Instances, NEW kind, task[t] = NoTask,
             StopInstance(t, q, j, kind, locked), UNCHANGED <<free, leaked, raising>>
      PROVE  ClaimInv' /\ SlotAccounting'
  <2> DEFINE back == 0
  <2>1. free' = [free EXCEPT ![q] = @ + back]
    BY <1>0, <1>2
  <2>2. /\ back \in {0, 1} /\ Owned(task[t], q) = back
        /\ ~ Claiming(task[t]) /\ \A p \in Runners \ {q} : ~ Owns(task[t], p)
    BY <1>1, <1>2
  <2> HIDE DEF back
  <2> QED BY <1>2, <2>1, <2>2, StopMoves
<1>3. ASSUME NEW k \in Keys, EventArrives(t, r, i, k)
      PROVE  ClaimInv' /\ SlotAccounting'
  <2>1. Settles(t)
    BY <1>0, <1>3, HandleEventSettles DEF EventArrives
  <2> QED BY <1>0, <1>1, <1>3, <2>1, NeutralSettle DEF EventArrives, Sent
<1>4. ASSUME NEW kind \in {"chat", "terminal", "raise"}, Request(t, r, i, kind)
      PROVE  ClaimInv' /\ SlotAccounting'
  <2> DEFINE c == NewTask(kind, r, i, None)
  <2>1. c \in Coroutine /\ WellFormed(c) /\ c # NoTask
    BY NewTaskOK DEF Kinds
  <2>2. EnterRaise(t, c)
    BY <1>4 DEF Request
  <2> HIDE DEF c
  <2> QED BY <1>1, <1>4, <2>1, <2>2, EnterRaiseMoves DEF Request, Sent
<1>5. CASE ApiStop(t, r, i)
  BY <1>2, <1>5 DEF ApiStop, Sent
<1>6. CASE ReapIdle(t, r)
  <2>1. CASE \E p \in Snapshot(r) : StopInstance(t, r, p[1], "reap", locked)
    BY <1>2, <1>6, <2>1 DEF ReapIdle, Snapshot
  <2>2. {p \in Snapshot(r) : Unloadable(r, p, locked)} # {}
    BY <1>6 DEF ReapIdle
  <2>3. UnloadNext(t, r, Snapshot(r), locked)
    BY <1>6 DEF ReapIdle
  <2> QED BY <2>1, <2>2, <2>3 DEF UnloadNext
<1>7. ASSUME NEW c \in hubCalls, HubStopAnswered(t, c)
      PROVE  ClaimInv' /\ SlotAccounting'
  <2>1. CASE task[t] = NoTask /\ StopInstance(t, c.run, c.ins, "stop", locked)
    <3>1. c.run \in Runners /\ c.ins \in Instances
      BY <1>0 DEF HubCall
    <3> QED BY <1>2, <1>7, <2>1, <3>1 DEF HubStopAnswered
  <2>2. CASE UNCHANGED <<local, task, locked, lockq>>
    BY <1>0, <1>7, <2>2, Neutral DEF HubStopAnswered
  <2> QED BY <1>7, <2>1, <2>2 DEF HubStopAnswered
<1> QED BY <1>3, <1>4, <1>5, <1>6, <1>7

\* The hub, the idle timer and a restart move no permit; a crash resets all.
LEMMA OutsideStepsSlots ==
  ASSUME SlotInv, TypeInv',
         \/ \E i \in Instances : HubStop(i)
         \/ \E c \in hubCalls : HubUpdate(c)
         \/ \E r \in Runners : RequeueStale(r) \/ Crash(r) \/ Restart(r)
         \/ \E o \in Objects : IdleElapses(o)
  PROVE  ClaimInv' /\ SlotAccounting'
<1> USE DEF dbVars, semVars, objVars
<1>0. /\ TypeInv /\ ClaimInv /\ SlotAccounting
      /\ task \in [Tasks -> Coroutine]
      /\ free \in [Runners -> Nat] /\ leaked \in [Runners -> Nat]
      /\ local \in [Runners -> [Instances -> Objects \cup {None}]]
      /\ raising \in [Runners -> Tasks \cup {None}]
      /\ Slots \in Nat
  BY RunnerAssumption DEF SlotInv, TypeInv, TypeOK, RunnerAssumption
<1>1. CASE UNCHANGED <<free, leaked, local, raising, task>>
  BY <1>0, <1>1, Neutral
<1>2. ASSUME NEW r \in Runners, Crash(r)
      PROVE  ClaimInv' /\ SlotAccounting'
  <2>1. \A x \in Tasks : task'[x] = IF OnRunner(x, r) THEN NoTask ELSE task[x]
    BY <1>2 DEF Crash
  <2>2. ClaimInv'
    <3>1. ASSUME NEW x \in Tasks, Claiming(task'[x])
          PROVE  task'[x] = task[x] /\ task[x].run # r
      BY <2>1, <3>1 DEF Claiming, NoTask, OnRunner
    <3> QED BY <1>0, <1>2, <3>1, ClaimKept DEF Crash
  <2>3. SlotAccounting'
    <3> SUFFICES ASSUME NEW q \in Runners
                 PROVE  free'[q] + Cardinality(Owners(q)') + Cardinality(Raised(q)') + leaked'[q]
                          = Slots
      BY DEF SlotAccounting
    <3>1. CASE q = r
      <4>1. Owners(q)' = {}
        BY <2>1, <3>1 DEF Owners, OnRunner, NoTask, SlotPCs
      <4>2. Raised(q)' = {}
        BY <1>0, <1>2, <3>1 DEF Crash, Raised
      <4>3. free'[q] = Slots /\ leaked'[q] = 0
        BY <1>0, <1>2, <3>1 DEF Crash
      <4>4. Cardinality({}) = 0
        BY FS_EmptySet
      <4> QED BY <1>0, <4>1, <4>2, <4>3, <4>4
    <3>2. CASE q # r
      <4>1. ASSUME NEW x \in Tasks
            PROVE  Owns(task'[x], q) <=> Owns(task[x], q)
        BY <2>1, <3>2 DEF Owns, OnRunner, NoTask, SlotPCs
      <4>2. Owners(q)' = Owners(q)
        BY <4>1 DEF Owners, Owns
      <4>3. Raised(q)' = Raised(q) /\ free'[q] = free[q] /\ leaked'[q] = leaked[q]
        BY <1>0, <1>2, <3>2 DEF Crash, Raised
      <4> QED BY <1>0, <4>2, <4>3 DEF SlotAccounting
    <3> QED BY <3>1, <3>2
  <2> QED BY <2>2, <2>3
<1>3. ASSUME NEW i \in Instances, HubStop(i)
      PROVE  ClaimInv' /\ SlotAccounting'
  BY <1>1, <1>3 DEF HubStop
<1>4. ASSUME NEW c \in hubCalls, HubUpdate(c)
      PROVE  ClaimInv' /\ SlotAccounting'
  BY <1>1, <1>4 DEF HubUpdate
<1>5. ASSUME NEW r \in Runners, RequeueStale(r) \/ Restart(r)
      PROVE  ClaimInv' /\ SlotAccounting'
  BY <1>1, <1>5 DEF RequeueStale, Restart
<1>6. ASSUME NEW o \in Objects, IdleElapses(o)
      PROVE  ClaimInv' /\ SlotAccounting'
  BY <1>1, <1>6 DEF IdleElapses
<1> QED BY <1>2, <1>3, <1>4, <1>5, <1>6

-----------------------------------------------------------------------------

\* Initially every permit is free.
LEMMA SlotInit == Init => SlotInv
<1> SUFFICES ASSUME Init PROVE SlotInv
  OBVIOUS
<1>1. TypeInv
  BY TypeInit
<1>2. ClaimInv
  BY DEF Init, ClaimInv, Claiming, NoTask
<1>3. ASSUME NEW r \in Runners
      PROVE  Owners(r) = {} /\ Raised(r) = {} /\ free[r] = Slots /\ leaked[r] = 0
  BY DEF Init, Owners, Raised, NoTask, SlotPCs
<1>4. Cardinality({}) = 0 /\ Slots \in Nat
  BY FS_EmptySet, RunnerAssumption DEF RunnerAssumption
<1>5. SlotAccounting
  BY <1>3, <1>4 DEF SlotAccounting
<1> QED BY <1>1, <1>2, <1>5 DEF SlotInv

\* SlotInv is inductive.
LEMMA SlotStep == SlotInv /\ [Next]_vars => SlotInv'
<1> SUFFICES ASSUME SlotInv, [Next]_vars
             PROVE  SlotInv'
  OBVIOUS
<1>0. TypeInv /\ ClaimInv /\ SlotAccounting
  BY DEF SlotInv
<1>1. TypeInv'
  BY <1>0, TypeStep
<1>2. ClaimInv' /\ SlotAccounting'
  <2>1. CASE UNCHANGED vars
    BY <1>0, <2>1, Neutral DEF vars, dbVars, semVars, objVars
  <2>2. CASE \E t \in Tasks : Step(t) \/ ClientGone(t) \/ StoreError(t)
    BY <1>1, <2>2, EventStepsSlots, RaiseStepsSlots, ReleaseStepsSlots, FailureStepsSlots DEF Step
  <2>3. ASSUME NEW t \in Tasks, NEW r \in Runners, ReapIdle(t, r)
        PROVE  ClaimInv' /\ SlotAccounting'
    <3>1. PICK i \in Instances : TRUE
      BY <2>3 DEF ReapIdle, Snapshot
    <3> QED BY <1>1, <2>3, <3>1, ArrivalStepsSlots
  <2>4. ASSUME NEW c \in hubCalls, NEW t \in Tasks, HubStopAnswered(t, c)
        PROVE  ClaimInv' /\ SlotAccounting'
    <3>1. c.run \in Runners /\ c.ins \in Instances
      BY <1>0 DEF TypeInv, TypeOK, HubCall
    <3> QED BY <1>1, <2>4, <3>1, ArrivalStepsSlots
  <2>5. ASSUME NEW t \in Tasks, NEW r \in Runners, NEW i \in Instances,
               \/ \E k \in Keys : EventArrives(t, r, i, k)
               \/ \E kind \in {"chat", "terminal", "raise"} : Request(t, r, i, kind)
               \/ ApiStop(t, r, i)
        PROVE  ClaimInv' /\ SlotAccounting'
    BY <1>1, <2>5, ArrivalStepsSlots
  <2>6. CASE \/ \E i \in Instances : HubStop(i)
             \/ \E c \in hubCalls : HubUpdate(c)
             \/ \E r \in Runners : RequeueStale(r) \/ Crash(r) \/ Restart(r)
             \/ \E o \in Objects : IdleElapses(o)
    BY <1>1, <2>6, OutsideStepsSlots
  <2> QED BY <2>1, <2>2, <2>3, <2>4, <2>5, <2>6 DEF Next
<1> QED BY <1>1, <1>2 DEF SlotInv

\* On every runner the permits of RunnerService._free are accounted for in
\* every state: free, owned by a coroutine, standing for a raised instance, or
\* lost by a release_instance that raised.
THEOREM SlotsAccounted == Spec => []SlotAccounting
<1>1. SlotInv => SlotAccounting
  BY DEF SlotInv
<1> QED BY <1>1, SlotInit, SlotStep, PTL DEF Spec

-----------------------------------------------------------------------------
(* The inductive invariant.  A crash drops the locks of the objects of one   *)
(* runner, so TurnsSerialized needs that no two runners, nor two instances,  *)
(* ever share a LocalInstance.                                               *)

\* A coroutine that has no LocalInstance yet.
EarlyPCs == {"peek", "forward", "slot", "raise", "claim", "refused"}

\* A coroutine that has yet to raise its instance, or skips its Event, has no
\* LocalInstance.
Plain(c) == c.pc \in EarlyPCs \/ c.kind = "skip" => c.obj = None

\* A LocalInstance belongs to one runner and one instance, for life.
OneOwner ==
  /\ \A r, q \in Runners, i, j \in Instances :
       local[r][i] # None /\ local[r][i] = local[q][j] => r = q /\ i = j
  /\ \A t \in Tasks, r \in Runners, i \in Instances :
       task[t].obj # None /\ task[t].obj = local[r][i] => task[t].run = r /\ task[t].ins = i
  /\ \A t, x \in Tasks :
       task[t].obj # None /\ task[t].obj = task[x].obj
         => task[t].run = task[x].run /\ task[t].ins = task[x].ins

\* The idle pass holds one object for an instance.
SweepOnce ==
  \A r \in Runners, i \in Instances, o, p \in Objects :
    <<i, o>> \in sweep[r] /\ <<i, p>> \in sweep[r] => o = p

TurnInv ==
  /\ TypeInv /\ OneOwner /\ SweepOnce /\ TurnsSerialized
  /\ \A t \in Tasks : Plain(task[t])

-----------------------------------------------------------------------------
(* What the step of one coroutine must respect.                              *)

In(c, o) == c.pc \in LockPCs /\ c.obj = o

\* The body of ReapsOnlyIdle.
ReapStep ==
  \A t \in Tasks :
    LET o == task[t]'.obj  p == <<task[t]'.ins, o>> IN
    /\ task[t]'.kind = "reap" /\ o # task[t].obj
    /\ p \in Sweeping(t, task[t]'.run)
    => idle[o] /\ locked[o] = None /\ ~TermHeld(o)

Good == TurnInv' /\ ReapStep

\* Coroutine c becomes d: its LocalInstance is dropped, kept, or that of its
\* instance.
Keeps(c, d) ==
  \/ d.obj = None
  \/ d.obj = c.obj /\ d.run = c.run /\ d.ins = c.ins
  \/ d.run \in Runners /\ d.ins \in Instances /\ d.obj = local[d.run][d.ins]

\* Coroutine t, as d, is inside exactly the lock it owns, and the locks of
\* the others are left alone.
LockShape(t, d) ==
  \A o \in Objects : /\ In(d, o) <=> locked'[o] = t
                     /\ \A x \in Tasks \ {t} : locked'[o] = x <=> locked[o] = x

Fine(t, d) ==
  /\ Plain(d) /\ Keeps(task[t], d) /\ LockShape(t, d)
  /\ d.kind = "reap" => d.obj = task[t].obj

-----------------------------------------------------------------------------

\* TurnsSerialized, coroutine by coroutine.
LEMMA SerializedIff ==
  TurnsSerialized <=> \A o \in Objects, t \in Tasks : In(task[t], o) <=> locked[o] = t
<1>1. ASSUME TurnsSerialized, NEW o \in Objects, NEW t \in Tasks
      PROVE  In(task[t], o) <=> locked[o] = t
  <2>1. Inside(o) = {x \in Tasks : locked[o] = x}
    BY <1>1 DEF TurnsSerialized
  <2>2. t \in Inside(o) <=> locked[o] = t
    BY <2>1
  <2> QED BY <2>2 DEF Inside, In
<1>2. ASSUME \A o \in Objects, t \in Tasks : In(task[t], o) <=> locked[o] = t
      PROVE  TurnsSerialized
  BY <1>2 DEF TurnsSerialized, Inside, In
<1> QED BY <1>1, <1>2

\* The same in the next state.
LEMMA SerializedNext ==
  ASSUME \A o \in Objects, t \in Tasks : In(task'[t], o) <=> locked'[o] = t
  PROVE  TurnsSerialized'
  BY DEF TurnsSerialized, Inside, In

\* No step that hands out only what an instance has can make two share it.
LEMMA OwnersKept ==
  ASSUME OneOwner,
         \A x \in Tasks : Keeps(task[x], task'[x]),
         \A r \in Runners, i \in Instances : local'[r][i] \in {local[r][i], None}
  PROVE  OneOwner'
<1>1. \A r, q \in Runners, i, j \in Instances :
        local'[r][i] # None /\ local'[r][i] = local'[q][j] => r = q /\ i = j
  BY DEF OneOwner
<1>2. ASSUME NEW t \in Tasks, NEW r \in Runners, NEW i \in Instances,
             task'[t].obj # None, task'[t].obj = local'[r][i]
      PROVE  task'[t].run = r /\ task'[t].ins = i
  <2>1. local[r][i] = task'[t].obj
    BY <1>2
  <2>2. CASE task'[t].obj = task[t].obj /\ task'[t].run = task[t].run /\ task'[t].ins = task[t].ins
    BY <1>2, <2>1, <2>2 DEF OneOwner
  <2>3. CASE /\ task'[t].run \in Runners /\ task'[t].ins \in Instances
             /\ task'[t].obj = local[task'[t].run][task'[t].ins]
    BY <1>2, <2>1, <2>3 DEF OneOwner
  <2> QED BY <1>2, <2>2, <2>3 DEF Keeps
<1>3. ASSUME NEW t \in Tasks, NEW x \in Tasks, task'[t].obj # None, task'[t].obj = task'[x].obj
      PROVE  task'[t].run = task'[x].run /\ task'[t].ins = task'[x].ins
  <2> DEFINE Old(y) == task'[y].obj = task[y].obj /\ task'[y].run = task[y].run /\ task'[y].ins = task[y].ins
             New(y) == /\ task'[y].run \in Runners /\ task'[y].ins \in Instances
                       /\ task'[y].obj = local[task'[y].run][task'[y].ins]
  <2>1. (Old(t) \/ New(t)) /\ (Old(x) \/ New(x))
    BY <1>3 DEF Keeps
  <2>2. CASE Old(t) /\ Old(x)
    BY <1>3, <2>2 DEF OneOwner
  <2>3. CASE Old(t) /\ New(x)
    <3>1. /\ task[t].obj # None /\ task[t].obj = local[task'[x].run][task'[x].ins]
          /\ task'[x].run \in Runners /\ task'[x].ins \in Instances
      BY <1>3, <2>3
    <3>2. task[t].run = task'[x].run /\ task[t].ins = task'[x].ins
      BY <3>1 DEF OneOwner
    <3> QED BY <2>3, <3>2
  <2>4. CASE New(t) /\ Old(x)
    <3>1. /\ task[x].obj # None /\ task[x].obj = local[task'[t].run][task'[t].ins]
          /\ task'[t].run \in Runners /\ task'[t].ins \in Instances
      BY <1>3, <2>4
    <3>2. task[x].run = task'[t].run /\ task[x].ins = task'[t].ins
      BY <3>1 DEF OneOwner
    <3> QED BY <2>4, <3>2
  <2>5. CASE New(t) /\ New(x)
    <3> DEFINE r == task'[t].run
               i == task'[t].ins
               q == task'[x].run
               j == task'[x].ins
    <3>1. /\ r \in Runners /\ q \in Runners /\ i \in Instances /\ j \in Instances
          /\ local[r][i] # None /\ local[r][i] = local[q][j]
      BY <1>3, <2>5
    <3> HIDE DEF r, i, q, j
    <3>2. r = q /\ i = j
      BY <3>1 DEF OneOwner
    <3> QED BY <3>2 DEF r, i, q, j
  <2> QED BY <2>1, <2>2, <2>3, <2>4, <2>5
<1> QED BY <1>1, <1>2, <1>3 DEF OneOwner

\* The step of a coroutine that stops nothing.
LEMMA FineOK ==
  ASSUME TurnInv, TypeInv', NEW t \in Tasks, NEW d, Become(t, d), Fine(t, d),
         UNCHANGED local, SweepOnce'
  PROVE  Good
<1>0. task'[t] = d /\ \A x \in Tasks \ {t} : task'[x] = task[x]
  BY DEF TurnInv, TypeInv, TypeOK, Become
<1>1. \A x \in Tasks : Keeps(task[x], task'[x]) /\ Plain(task'[x])
  BY <1>0 DEF Fine, Keeps, TurnInv
<1>2. OneOwner'
  BY <1>1, OwnersKept DEF TurnInv
<1>3. TurnsSerialized'
  <2>1. \A o \in Objects, x \in Tasks : In(task[x], o) <=> locked[o] = x
    BY SerializedIff DEF TurnInv
  <2>2. \A o \in Objects, x \in Tasks : In(task'[x], o) <=> locked'[o] = x
    BY <1>0, <2>1 DEF Fine, LockShape
  <2> QED BY <2>2, SerializedNext
<1>4. ReapStep
  BY <1>0 DEF ReapStep, Fine
<1> QED BY <1>1, <1>2, <1>3, <1>4 DEF Good, TurnInv

-----------------------------------------------------------------------------
(* The shapes of a step with respect to the locks.                           *)

\* What TurnInv says of one coroutine.
LEMMA TurnFacts ==
  ASSUME TurnInv, NEW t \in Tasks
  PROVE  /\ TypeInv /\ OneOwner /\ SweepOnce
         /\ task[t] \in Coroutine /\ WellFormed(task[t]) /\ Plain(task[t])
         /\ locked \in [Objects -> Tasks \cup {None}]
         /\ \A o \in Objects, x \in Tasks : In(task[x], o) <=> locked[o] = x
         /\ None \notin Tasks /\ None \notin Keys /\ None \notin Objects
<1>1. TypeInv /\ OneOwner /\ SweepOnce /\ TurnsSerialized /\ Plain(task[t])
  BY DEF TurnInv
<1>2. task[t] \in Coroutine /\ WellFormed(task[t]) /\ locked \in [Objects -> Tasks \cup {None}]
  BY <1>1 DEF TypeInv, TypeOK
<1>3. None \notin Tasks /\ None \notin Keys /\ None \notin Objects
  BY RunnerAssumption DEF RunnerAssumption
<1> QED BY <1>1, <1>2, <1>3, SerializedIff

\* Outside before and after.
LEMMA StaysOut ==
  ASSUME TurnInv, NEW t \in Tasks, NEW d, UNCHANGED locked,
         task[t].pc \notin LockPCs, d.pc \notin LockPCs \/ d.obj = None
  PROVE  LockShape(t, d)
<1>1. \A o \in Objects : ~ In(task[t], o) /\ ~ In(d, o)
  BY RunnerAssumption DEF In, RunnerAssumption
<1> QED BY <1>1, TurnFacts DEF LockShape

\* Inside before and after.
LEMMA StaysIn ==
  ASSUME TurnInv, NEW t \in Tasks, NEW d, UNCHANGED locked,
         task[t].pc \in LockPCs, d.pc \in LockPCs, d.obj = task[t].obj
  PROVE  LockShape(t, d)
<1>1. \A o \in Objects : In(d, o) <=> In(task[t], o)
  BY DEF In
<1> QED BY <1>1, TurnFacts DEF LockShape

\* The lock is left.
LEMMA Leaves ==
  ASSUME TurnInv, NEW t \in Tasks, NEW d, task[t].pc \in LockPCs, d.pc \notin LockPCs,
         \/ locked' = [o \in Objects |-> IF o = task[t].obj THEN None ELSE locked[o]]
         \/ locked' = [locked EXCEPT ![task[t].obj] = None]
  PROVE  LockShape(t, d)
<1> SUFFICES ASSUME NEW o \in Objects
             PROVE  /\ In(d, o) <=> locked'[o] = t
                    /\ \A x \in Tasks \ {t} : locked'[o] = x <=> locked[o] = x
  BY DEF LockShape
<1>0. ~ In(d, o)
  BY DEF In
<1>1. /\ locked'[o] = IF o = task[t].obj THEN None ELSE locked[o]
      /\ None \notin Tasks
      /\ In(task[t], o) <=> locked[o] = t
  BY TurnFacts
<1>2. CASE o = task[t].obj
  <2>1. locked[o] = t
    BY <1>1, <1>2 DEF In
  <2> QED BY <1>0, <1>1, <1>2, <2>1
<1>3. CASE o # task[t].obj
  BY <1>0, <1>1, <1>3 DEF In
<1> QED BY <1>2, <1>3

\* The lock is taken when it is free.
LEMMA Enters ==
  ASSUME TurnInv, NEW t \in Tasks, NEW d, task[t].pc \notin LockPCs, d.pc \in LockPCs,
         locked[d.obj] = None, locked' = [locked EXCEPT ![d.obj] = t]
  PROVE  LockShape(t, d)
<1> SUFFICES ASSUME NEW o \in Objects
             PROVE  /\ In(d, o) <=> locked'[o] = t
                    /\ \A x \in Tasks \ {t} : locked'[o] = x <=> locked[o] = x
  BY DEF LockShape
<1>1. /\ locked'[o] = IF o = d.obj THEN t ELSE locked[o]
      /\ None \notin Tasks
      /\ locked[o] # t
      /\ In(d, o) <=> o = d.obj
  BY TurnFacts DEF In
<1> QED BY <1>1

\* Fields of a coroutine that moved.
LEMMA Moved ==
  ASSUME NEW c \in Coroutine, NEW pc, NEW o
  PROVE  /\ [c EXCEPT !.pc = pc].pc = pc /\ [c EXCEPT !.pc = pc].obj = c.obj
         /\ [c EXCEPT !.pc = pc].kind = c.kind /\ [c EXCEPT !.pc = pc].key = c.key
         /\ [c EXCEPT !.pc = pc].run = c.run /\ [c EXCEPT !.pc = pc].ins = c.ins
         /\ [c EXCEPT !.pc = pc, !.obj = o].pc = pc /\ [c EXCEPT !.pc = pc, !.obj = o].obj = o
         /\ [c EXCEPT !.pc = pc, !.obj = o].kind = c.kind /\ [c EXCEPT !.pc = pc, !.obj = o].key = c.key
         /\ [c EXCEPT !.pc = pc, !.obj = o].run = c.run /\ [c EXCEPT !.pc = pc, !.obj = o].ins = c.ins
  BY DEF Coroutine

\* A coroutine that ends.
LEMMA FinishFine ==
  ASSUME TurnInv, NEW t \in Tasks, Finish(t), LockShape(t, NoTask)
  PROVE  Become(t, NoTask) /\ Fine(t, NoTask)
<1>1. NoTask.pc = "none" /\ NoTask.obj = None /\ NoTask.kind = "none"
  BY DEF NoTask
<1> QED BY <1>1 DEF Finish, Fine, Plain, Keeps, EarlyPCs

\* A coroutine that ends outside the locks, and one that leaves its lock.
LEMMA EndsOK ==
  ASSUME TurnInv, TypeInv', NEW t \in Tasks, Finish(t),
         UNCHANGED local, SweepOnce',
         \/ task[t].pc \notin LockPCs /\ UNCHANGED locked
         \/ task[t].pc \in LockPCs /\
              \/ locked' = [o \in Objects |-> IF o = task[t].obj THEN None ELSE locked[o]]
              \/ locked' = [locked EXCEPT ![task[t].obj] = None]
  PROVE  Good
<1>1. NoTask.pc \notin LockPCs
  BY DEF NoTask, LockPCs
<1>2. LockShape(t, NoTask)
  BY <1>1, StaysOut, Leaves
<1>3. Become(t, NoTask) /\ Fine(t, NoTask)
  BY <1>2, FinishFine
<1> QED BY <1>3, FineOK

\* A coroutine that goes on with the LocalInstance it has, or without.
LEMMA GoesOK ==
  ASSUME TurnInv, TypeInv', NEW t \in Tasks, NEW pc, Goto(t, pc),
         UNCHANGED <<local, sweep>>,
         pc \in EarlyPCs => task[t].obj = None,
         LockShape(t, [task[t] EXCEPT !.pc = pc])
  PROVE  Good
<1> DEFINE d == [task[t] EXCEPT !.pc = pc]
<1>0. task[t] \in Coroutine /\ Plain(task[t])
  BY TurnFacts
<1>1. /\ d.pc = pc /\ d.obj = task[t].obj /\ d.kind = task[t].kind
      /\ d.run = task[t].run /\ d.ins = task[t].ins
  BY <1>0, Moved
<1>2. Become(t, d) /\ LockShape(t, d)
  BY DEF Goto
<1> HIDE DEF d
<1>3. Plain(d) /\ Keeps(task[t], d) /\ (d.kind = "reap" => d.obj = task[t].obj)
  BY <1>0, <1>1 DEF Plain, Keeps
<1>4. SweepOnce'
  BY TurnFacts DEF SweepOnce
<1> QED BY <1>2, <1>3, <1>4, FineOK DEF Fine

-----------------------------------------------------------------------------
(* The shared pieces.                                                        *)

\* asyncio.Lock.acquire: the coroutine is inside, or waits outside.
LEMMA TakeLockShape ==
  ASSUME TurnInv, NEW t \in Tasks, task[t].pc \notin LockPCs, NEW c \in Coroutine, NEW o,
         TakeLock(t, c, o, "context", "lock")
  PROVE  \E pc \in {"context", "lock"} :
           /\ Become(t, [c EXCEPT !.pc = pc, !.obj = o])
           /\ LockShape(t, [c EXCEPT !.pc = pc, !.obj = o])
<1>1. CASE /\ LockFree(o) /\ locked' = [locked EXCEPT ![o] = t]
           /\ Become(t, [c EXCEPT !.pc = "context", !.obj = o])
  <2> DEFINE d == [c EXCEPT !.pc = "context", !.obj = o]
  <2>1. d.pc = "context" /\ d.obj = o /\ Become(t, d)
    BY <1>1, Moved
  <2> HIDE DEF d
  <2>2. LockShape(t, d)
    BY <1>1, <2>1, Enters DEF LockPCs, LockFree
  <2> QED BY <2>1, <2>2 DEF d
<1>2. CASE Become(t, [c EXCEPT !.pc = "lock", !.obj = o]) /\ UNCHANGED locked
  <2> DEFINE d == [c EXCEPT !.pc = "lock", !.obj = o]
  <2>1. d.pc = "lock" /\ Become(t, d)
    BY <1>2, Moved
  <2> HIDE DEF d
  <2>2. LockShape(t, d)
    BY <1>2, <2>1, StaysOut DEF LockPCs
  <2> QED BY <2>1, <2>2 DEF d
<1> QED BY <1>1, <1>2 DEF TakeLock

\* _raise returned: the coroutine ends, or goes on with the LocalInstance.
LEMMA AttachShape ==
  ASSUME TurnInv, NEW t \in Tasks, task[t].pc \notin LockPCs,
         NEW c \in Coroutine, Plain(c), NEW o \in Objects, Attach(t, c, o)
  PROVE  \E d : /\ Become(t, d) /\ LockShape(t, d) /\ Plain(d)
                /\ d.kind # "reap"
                /\ \/ d.obj = None
                   \/ d.obj = o /\ d.run = c.run /\ d.ins = c.ins
<1>1. ASSUME NEW pc \in {"begin", "context", "lock", "termwait", "term"},
             Become(t, [c EXCEPT !.pc = pc, !.obj = o]),
             LockShape(t, [c EXCEPT !.pc = pc, !.obj = o]),
             c.kind \notin {"skip", "reap"}
      PROVE  \E d : /\ Become(t, d) /\ LockShape(t, d) /\ Plain(d)
                    /\ d.kind # "reap"
                    /\ \/ d.obj = None
                       \/ d.obj = o /\ d.run = c.run /\ d.ins = c.ins
  <2> DEFINE d == [c EXCEPT !.pc = pc, !.obj = o]
  <2>1. /\ d.pc = pc /\ d.obj = o /\ d.kind = c.kind
        /\ d.run = c.run /\ d.ins = c.ins
    BY Moved
  <2>2. Become(t, d) /\ LockShape(t, d)
    BY <1>1
  <2> HIDE DEF d
  <2>3. Plain(d)
    BY <1>1, <2>1 DEF Plain, EarlyPCs
  <2> QED BY <1>1, <2>1, <2>2, <2>3
<1>2. ASSUME NEW pc \in {"begin", "termwait", "term"}, UNCHANGED locked
      PROVE  LockShape(t, [c EXCEPT !.pc = pc, !.obj = o])
  <2>1. [c EXCEPT !.pc = pc, !.obj = o].pc \notin LockPCs
    BY Moved DEF LockPCs
  <2> QED BY <1>2, <2>1, StaysOut
<1>3. CASE c.kind = "event" /\ Become(t, [c EXCEPT !.pc = "begin", !.obj = o]) /\ UNCHANGED locked
  <2>1. LockShape(t, [c EXCEPT !.pc = "begin", !.obj = o])
    BY <1>2, <1>3
  <2> QED BY <1>1, <1>3, <2>1
<1>4. CASE c.kind = "chat" /\ TakeLock(t, c, o, "context", "lock")
  BY <1>1, <1>4, TakeLockShape
<1>5. CASE /\ c.kind = "terminal" /\ UNCHANGED locked
           /\ Become(t, [c EXCEPT !.pc = IF TermHeld(o) THEN "termwait" ELSE "term", !.obj = o])
  <2> DEFINE pc == IF TermHeld(o) THEN "termwait" ELSE "term"
  <2>1. pc \in {"termwait", "term"} /\ Become(t, [c EXCEPT !.pc = pc, !.obj = o])
    BY <1>5
  <2> HIDE DEF pc
  <2>2. LockShape(t, [c EXCEPT !.pc = pc, !.obj = o])
    BY <1>2, <1>5, <2>1
  <2> QED BY <1>1, <1>5, <2>1, <2>2
<1>6. CASE Finish(t) /\ UNCHANGED locked
  <2>1. LockShape(t, NoTask)
    BY <1>6, StaysOut DEF NoTask, LockPCs
  <2>2. Become(t, NoTask) /\ Fine(t, NoTask) /\ NoTask.obj = None /\ NoTask.kind # "reap"
    BY <1>6, <2>1, FinishFine DEF NoTask
  <2> QED BY <2>1, <2>2 DEF Fine
<1> QED BY <1>3, <1>4, <1>5, <1>6 DEF Attach

\* The LocalInstance of an instance that is up.
LEMMA AttachUp ==
  ASSUME TurnInv, TypeInv', NEW t \in Tasks, task[t].pc \notin LockPCs,
         NEW c \in Coroutine, Plain(c), c.run \in Runners, c.ins \in Instances,
         local[c.run][c.ins] # None, Attach(t, c, local[c.run][c.ins]),
         UNCHANGED <<local, sweep>>
  PROVE  Good
<1> DEFINE o == local[c.run][c.ins]
<1>1. o \in Objects
  BY DEF TurnInv, TypeInv, TypeOK
<1>2. PICK d : /\ Become(t, d) /\ LockShape(t, d) /\ Plain(d)
               /\ d.kind # "reap"
               /\ \/ d.obj = None
                  \/ d.obj = o /\ d.run = c.run /\ d.ins = c.ins
  BY <1>1, AttachShape
<1>3. Keeps(task[t], d)
  BY <1>2 DEF Keeps
<1>4. SweepOnce'
  BY TurnFacts DEF SweepOnce
<1> QED BY <1>2, <1>3, <1>4, FineOK DEF Fine

\* _raise up to its first await.
LEMMA EnterRaiseTurn ==
  ASSUME TurnInv, TypeInv', NEW t \in Tasks, task[t].pc \notin LockPCs,
         NEW c \in Coroutine, Plain(c), c.run \in Runners, c.ins \in Instances,
         c.obj = None, c.kind # "reap",
         EnterRaise(t, c), UNCHANGED <<local, sweep>>
  PROVE  Good
<1>1. CASE local[c.run][c.ins] # None /\ Attach(t, c, local[c.run][c.ins])
  BY <1>1, AttachUp
<1>2. ASSUME NEW pc \in {"raise", "slot"}, Become(t, [c EXCEPT !.pc = pc]), UNCHANGED objVars
      PROVE  Good
  <2> DEFINE d == [c EXCEPT !.pc = pc]
  <2>1. d.pc = pc /\ d.obj = None /\ d.kind = c.kind
    BY Moved
  <2>2. Become(t, d) /\ UNCHANGED locked
    BY <1>2 DEF objVars
  <2> HIDE DEF d
  <2>3. LockShape(t, d)
    BY <2>1, <2>2, StaysOut
  <2>4. Plain(d) /\ Keeps(task[t], d)
    BY <1>2, <2>1 DEF Plain, Keeps
  <2>5. SweepOnce'
    BY TurnFacts DEF SweepOnce
  <2> QED BY <2>1, <2>2, <2>3, <2>4, <2>5, FineOK DEF Fine
<1> QED BY <1>1, <1>2 DEF EnterRaise

\* handle_event up to its first await.
LEMMA HandleEventTurn ==
  ASSUME TurnInv, TypeInv', NEW t \in Tasks, task[t].pc \notin LockPCs,
         NEW r \in Runners, NEW i \in Instances, NEW k \in Keys,
         HandleEvent(t, r, i, k), UNCHANGED <<local, sweep, locked>>
  PROVE  Good
<1>1. ASSUME NEW d, Become(t, d), d.pc \in {"begin", "peek"}, d.kind \in {"event", "skip"},
             d.obj = None \/ (d.kind = "event" /\ d.pc = "begin" /\ d.run = r /\ d.ins = i
                              /\ d.obj = local[r][i])
      PROVE  Good
  <2>1. LockShape(t, d)
    BY <1>1, StaysOut DEF LockPCs
  <2>2. Plain(d) /\ Keeps(task[t], d)
    BY <1>1 DEF Plain, Keeps, EarlyPCs
  <2>3. SweepOnce'
    BY TurnFacts DEF SweepOnce
  <2> QED BY <1>1, <2>1, <2>2, <2>3, FineOK DEF Fine
<1>2. CASE Become(t, [NewTask("skip", r, i, k) EXCEPT !.pc = "begin"])
  <2> DEFINE d == [NewTask("skip", r, i, k) EXCEPT !.pc = "begin"]
  <2>1. d.pc = "begin" /\ d.kind = "skip" /\ d.obj = None /\ Become(t, d)
    BY <1>2 DEF NewTask
  <2> HIDE DEF d
  <2> QED BY <1>1, <2>1
<1>3. CASE Become(t, [NewTask("event", r, i, k) EXCEPT !.pc = "begin", !.obj = local[r][i]])
  <2> DEFINE d == [NewTask("event", r, i, k) EXCEPT !.pc = "begin", !.obj = local[r][i]]
  <2>1. /\ d.pc = "begin" /\ d.kind = "event" /\ d.obj = local[r][i] /\ d.run = r /\ d.ins = i
        /\ Become(t, d)
    BY <1>3 DEF NewTask
  <2> HIDE DEF d
  <2> QED BY <1>1, <2>1
<1>4. CASE Become(t, [NewTask("event", r, i, k) EXCEPT !.pc = "peek"])
  <2> DEFINE d == [NewTask("event", r, i, k) EXCEPT !.pc = "peek"]
  <2>1. d.pc = "peek" /\ d.kind = "event" /\ d.obj = None /\ Become(t, d)
    BY <1>4 DEF NewTask
  <2> HIDE DEF d
  <2> QED BY <1>1, <2>1
<1> QED BY <1>2, <1>3, <1>4 DEF HandleEvent

\* stop_instance up to its first await: it takes the lock of the object that it
\* pops, or queues for it; lk is locked without what t itself owns.
LEMMA StopTurn ==
  ASSUME TurnInv, TypeInv', NEW t \in Tasks, NEW r \in Runners, NEW i \in Instances,
         NEW kind \in {"stop", "reap"}, NEW lk \in [Objects -> Tasks \cup {None}],
         StopInstance(t, r, i, kind, lk),
         \A o \in Objects : lk[o] = IF In(task[t], o) THEN None ELSE locked[o],
         SweepOnce',
         kind = "reap" /\ local[r][i] # task[t].obj /\ <<i, local[r][i]>> \in Sweeping(t, r)
           => idle[local[r][i]] /\ locked[local[r][i]] = None /\ ~TermHeld(local[r][i])
  PROVE  Good
<1> DEFINE o == local[r][i]
           ready == lk[o] = None /\ lockq[o] = <<>>
           c == [NewTask(kind, r, i, None) EXCEPT !.obj = o,
                                                 !.pc = IF ready THEN "release" ELSE "stoplock"]
           victim(x) == x = lk[o] /\ At(x, "turn") /\ task[x].kind = "event"
<1>0. /\ o \in Objects /\ o # None
      /\ task \in [Tasks -> Coroutine]
      /\ local \in [Runners -> [Instances -> Objects \cup {None}]]
  BY DEF TurnInv, TypeInv, TypeOK, StopInstance
<1>1. /\ c.obj = o /\ c.run = r /\ c.ins = i /\ c.kind = kind
      /\ c.pc = IF ready THEN "release" ELSE "stoplock"
  BY DEF NewTask
<1>2. task'[t] = c
  BY DEF StopInstance
<1>3. ASSUME NEW x \in Tasks \ {t}
      PROVE  /\ task'[x].obj = task[x].obj /\ task'[x].run = task[x].run /\ task'[x].ins = task[x].ins
             /\ task'[x].kind = task[x].kind
             /\ \/ task'[x].pc = task[x].pc
                \/ task'[x].pc = "cancel" /\ task[x].pc = "turn"
  <2>1. task'[x] = IF victim(x) THEN [task[x] EXCEPT !.pc = "cancel"] ELSE task[x]
    BY DEF StopInstance
  <2>2. CASE victim(x)
    <3>1. task[x].pc = "turn" /\ task'[x] = [task[x] EXCEPT !.pc = "cancel"]
      BY <2>1, <2>2 DEF At
    <3> HIDE DEF victim
    <3>2. task[x] \in Coroutine
      BY <1>0
    <3> QED BY <3>1, <3>2, Moved
  <2>3. CASE ~victim(x)
    BY <2>1, <2>3
  <2> QED BY <2>2, <2>3
<1>4. /\ locked' = IF ready THEN [lk EXCEPT ![o] = t] ELSE lk
      /\ local' = [local EXCEPT ![r][i] = None]
  BY DEF StopInstance
<1>4a. ready => lk[o] = None
  OBVIOUS
<1> HIDE DEF c, ready
<1>5. OneOwner'
  <2>1. \A x \in Tasks : Keeps(task[x], task'[x])
    BY <1>1, <1>2, <1>3 DEF Keeps
  <2>2. \A q \in Runners, j \in Instances : local'[q][j] \in {local[q][j], None}
    BY <1>0, <1>4
  <2> QED BY <2>1, <2>2, OwnersKept DEF TurnInv
<1>6. TurnsSerialized'
  <2> SUFFICES ASSUME NEW p \in Objects, NEW x \in Tasks
               PROVE  In(task'[x], p) <=> locked'[p] = x
    BY SerializedNext
  <2>0. (In(task[x], p) <=> locked[p] = x) /\ (In(task[t], p) <=> locked[p] = t) /\ None \notin Tasks
    BY TurnFacts
  <2>1. locked'[p] = IF ready /\ p = o THEN t ELSE lk[p]
    BY <1>4
  <2>2. lk[p] = IF In(task[t], p) THEN None ELSE locked[p]
    OBVIOUS
  <2>3. CASE x = t
    <3>1. In(task'[t], p) <=> ready /\ p = o
      BY <1>1, <1>2 DEF In, LockPCs
    <3>2. lk[p] # t
      BY <2>0, <2>2
    <3> QED BY <2>1, <2>3, <3>1, <3>2
  <2>4. CASE x # t
    <3>1. In(task'[x], p) <=> In(task[x], p)
      BY <1>3, <2>4 DEF In, LockPCs
    <3>2. lk[p] = x <=> locked[p] = x
      BY <2>0, <2>2, <2>4
    <3>3. locked'[p] = x <=> lk[p] = x
      BY <1>4a, <2>0, <2>1, <2>4
    <3> QED BY <3>1, <3>2, <3>3, <2>0
  <2> QED BY <2>3, <2>4
<1>7. \A x \in Tasks : Plain(task'[x])
  <2>1. Plain(task'[t])
    BY <1>1, <1>2 DEF Plain, EarlyPCs
  <2>2. \A x \in Tasks \ {t} : Plain(task'[x])
    BY <1>3 DEF Plain, EarlyPCs, TurnInv
  <2> QED BY <2>1, <2>2
<1>8. ReapStep
  <2> SUFFICES ASSUME NEW x \in Tasks, task'[x].kind = "reap", task'[x].obj # task[x].obj,
                      <<task'[x].ins, task'[x].obj>> \in Sweeping(x, task'[x].run)
               PROVE  idle[task'[x].obj] /\ locked[task'[x].obj] = None /\ ~TermHeld(task'[x].obj)
    BY DEF ReapStep
  <2>1. x = t
    BY <1>3
  <2> QED BY <1>1, <1>2, <2>1
<1> QED BY <1>5, <1>6, <1>7, <1>8 DEF Good, TurnInv

\* A part of an idle pass's pairs has one object for an instance too.
LEMMA SweepKept ==
  ASSUME TurnInv, NEW r \in Runners, NEW s, sweep' = [sweep EXCEPT ![r] = s],
         s \subseteq sweep[r] \/ s \subseteq Snapshot(r)
  PROVE  SweepOnce'
<1>0. SweepOnce /\ sweep \in [Runners -> SUBSET (Instances \X Objects)]
  BY DEF TurnInv, TypeInv, TypeOK
<1>1. \A j \in Instances, o, p \in Objects : <<j, o>> \in Snapshot(r) /\ <<j, p>> \in Snapshot(r) => o = p
  BY DEF Snapshot
<1>2. \A j \in Instances, o, p \in Objects : <<j, o>> \in s /\ <<j, p>> \in s => o = p
  BY <1>0, <1>1 DEF SweepOnce
<1>3. \A q \in Runners : sweep'[q] = IF q = r THEN s ELSE sweep[q]
  BY <1>0
<1> QED BY <1>0, <1>2, <1>3 DEF SweepOnce

\* reap_idle from one await to the next, over the pairs s of its list.
LEMMA UnloadTurn ==
  ASSUME TurnInv, TypeInv', NEW t \in Tasks, NEW r \in Runners,
         NEW s \in SUBSET (Instances \X Objects), NEW lk \in [Objects -> Tasks \cup {None}],
         UnloadNext(t, r, s, lk), s = Sweeping(t, r),
         \/ task[t].pc \notin LockPCs /\ lk = locked
         \/ task[t].pc \in LockPCs /\ lk = [locked EXCEPT ![task[t].obj] = None]
  PROVE  Good
<1>0. s = sweep[r] \/ s = Snapshot(r)
  BY DEF Sweeping
<1>1. \A o \in Objects : lk[o] = IF In(task[t], o) THEN None ELSE locked[o]
  <2> SUFFICES ASSUME NEW o \in Objects
               PROVE  lk[o] = IF In(task[t], o) THEN None ELSE locked[o]
    OBVIOUS
  <2>1. locked \in [Objects -> Tasks \cup {None}]
    BY TurnFacts
  <2> QED BY <2>1 DEF In
<1>2. CASE \E p \in {q \in s : Unloadable(r, q, lk)} :
             /\ StopInstance(t, r, p[1], "reap", lk)
             /\ \E rest \in SUBSET (s \ {p}) : sweep' = [sweep EXCEPT ![r] = rest]
  <2>1. PICK p \in s : /\ Unloadable(r, p, lk)
                       /\ StopInstance(t, r, p[1], "reap", lk)
                       /\ \E rest \in SUBSET (s \ {p}) : sweep' = [sweep EXCEPT ![r] = rest]
    BY <1>2
  <2> DEFINE i == p[1]
             o == local[r][i]
  <2>2. i \in Instances /\ p[2] \in Objects /\ p = <<i, p[2]>> /\ o \in Objects
    BY <2>1 DEF StopInstance, TurnInv, TypeInv, TypeOK
  <2>3. PICK rest \in SUBSET (s \ {p}) : sweep' = [sweep EXCEPT ![r] = rest]
    BY <2>1
  <2>4. SweepOnce'
    BY <1>0, <2>3, SweepKept
  <2>5. ASSUME o # task[t].obj, <<i, o>> \in s
        PROVE  idle[o] /\ locked[o] = None /\ ~TermHeld(o)
    <3>1. o = p[2]
      <4>1. CASE s = sweep[r]
        BY <2>2, <2>5, <4>1, TurnFacts DEF SweepOnce
      <4>2. CASE s = Snapshot(r)
        BY <2>2, <4>2 DEF Snapshot
      <4> QED BY <1>0, <4>1, <4>2
    <3>2. lk[o] = None /\ ~TermHeld(o) /\ idle[o]
      BY <2>1, <3>1 DEF Unloadable
    <3>3. ~ In(task[t], o)
      BY <2>5 DEF In
    <3>4. locked[o] = None
      BY <1>1, <2>2, <3>2, <3>3
    <3> QED BY <3>2, <3>4
  <2>6. StopInstance(t, r, i, "reap", lk)
    BY <2>1
  <2> HIDE DEF i
  <2> QED BY <1>1, <2>2, <2>4, <2>5, <2>6, StopTurn
<1>3. CASE Finish(t) /\ sweep' = [sweep EXCEPT ![r] = {}] /\ locked' = lk /\ UNCHANGED local
  <2>1. SweepOnce'
    BY <1>3, SweepKept
  <2> QED BY <1>3, <2>1, EndsOK
<1> QED BY <1>2, <1>3 DEF UnloadNext

-----------------------------------------------------------------------------
(* One step per action.                                                      *)

\* handle_event and the dedup check.
LEMMA EventStepsTurn ==
  ASSUME TurnInv, TypeInv', NEW t \in Tasks,
         \/ PeekHolder(t) \/ Forward(t) \/ BeginEvent(t) \/ MarkProcessed(t)
  PROVE  Good
<1> USE DEF dbVars, semVars, objVars
<1>0. /\ task[t] \in Coroutine /\ WellFormed(task[t]) /\ Plain(task[t]) /\ SweepOnce
      /\ task[t] # NoTask /\ task[t].run \in Runners /\ task[t].ins \in Instances
      /\ task[t].kind \in {"event", "skip"} /\ task[t].key \in Keys
  <2>1. task[t] \in Coroutine /\ WellFormed(task[t]) /\ Plain(task[t]) /\ SweepOnce
    BY TurnFacts
  <2>2. task[t].pc \in {"peek", "forward", "begin", "mark"}
    BY DEF PeekHolder, Forward, BeginEvent, MarkProcessed, At
  <2>3. task[t] # NoTask
    BY <2>2 DEF NoTask
  <2> QED BY <2>1, <2>2, <2>3 DEF WellFormed
<1>0a. UNCHANGED sweep => SweepOnce'
  BY <1>0 DEF SweepOnce
<1>1. CASE PeekHolder(t)
  <2>0. task[t].pc = "peek" /\ task[t].obj = None /\ task[t].pc \notin LockPCs
    BY <1>0, <1>1 DEF PeekHolder, At, Plain, EarlyPCs, LockPCs
  <2>1. CASE /\ Become(t, [task[t] EXCEPT !.pc = "forward", !.run = holder[task[t].ins]])
             /\ UNCHANGED <<semVars, objVars, hubCalls>>
    <3> DEFINE d == [task[t] EXCEPT !.pc = "forward", !.run = holder[task[t].ins]]
    <3>1. d.pc = "forward" /\ d.obj = None /\ d.kind = task[t].kind
      BY <1>0, <2>0 DEF Coroutine
    <3>2. Become(t, d) /\ UNCHANGED locked
      BY <2>1
    <3> HIDE DEF d
    <3>3. LockShape(t, d)
      BY <2>0, <3>1, <3>2, StaysOut
    <3>4. Plain(d) /\ Keeps(task[t], d)
      BY <1>0, <3>1 DEF Plain, Keeps
    <3> QED BY <1>0, <1>0a, <1>1, <2>0, <3>1, <3>2, <3>3, <3>4, FineOK DEF Fine, PeekHolder
  <2>2. CASE EnterRaise(t, task[t])
    BY <1>0, <1>1, <2>0, <2>2, EnterRaiseTurn DEF PeekHolder
  <2> QED BY <1>1, <2>1, <2>2 DEF PeekHolder
<1>2. CASE Forward(t)
  <2>0. task[t].pc \notin LockPCs /\ UNCHANGED <<local, sweep, locked>>
    BY <1>2 DEF Forward, At, LockPCs
  <2> QED BY <1>0, <1>0a, <1>2, <2>0, HandleEventTurn, EndsOK DEF Forward
<1>3. CASE BeginEvent(t)
  <2>0. task[t].pc = "begin" /\ task[t].pc \notin LockPCs /\ UNCHANGED <<local, sweep>>
    BY <1>3 DEF BeginEvent, At, LockPCs
  <2>1. CASE Finish(t) /\ UNCHANGED <<locked, lockq>>
    BY <1>0a, <2>0, <2>1, EndsOK
  <2>2. CASE ~Duplicate(t) /\ task[t].kind = "skip" /\ Goto(t, "mark") /\ UNCHANGED objVars
    <3>1. [task[t] EXCEPT !.pc = "mark"].obj = None
      BY <1>0, <2>2, Moved DEF Plain
    <3>2. LockShape(t, [task[t] EXCEPT !.pc = "mark"])
      BY <2>0, <2>2, <3>1, StaysOut
    <3> QED BY <2>0, <2>2, <3>2, GoesOK DEF EarlyPCs
  <2>3. CASE ~Duplicate(t) /\ TakeLock(t, task[t], task[t].obj, "context", "lock")
             /\ task[t].kind = "event"
    <3>1. PICK pc \in {"context", "lock"} :
            /\ Become(t, [task[t] EXCEPT !.pc = pc, !.obj = task[t].obj])
            /\ LockShape(t, [task[t] EXCEPT !.pc = pc, !.obj = task[t].obj])
      BY <1>0, <2>0, <2>3, TakeLockShape
    <3> DEFINE d == [task[t] EXCEPT !.pc = pc, !.obj = task[t].obj]
    <3>2. /\ d.pc = pc /\ d.obj = task[t].obj /\ d.kind = task[t].kind
          /\ d.run = task[t].run /\ d.ins = task[t].ins
      BY <1>0, Moved
    <3>3. Become(t, d) /\ LockShape(t, d)
      BY <3>1
    <3> HIDE DEF d
    <3>4. Plain(d) /\ Keeps(task[t], d) /\ (d.kind = "reap" => d.obj = task[t].obj)
      BY <1>0, <2>3, <3>2 DEF Plain, Keeps, EarlyPCs
    <3> QED BY <1>0a, <2>0, <3>3, <3>4, FineOK DEF Fine
  <2> QED BY <1>3, <2>1, <2>2, <2>3 DEF BeginEvent
<1>4. CASE MarkProcessed(t)
  <2>1. /\ task[t].pc \in LockPCs /\ Finish(t) /\ UNCHANGED <<local, sweep>>
        /\ locked' = [o \in Objects |-> IF o = task[t].obj THEN None ELSE locked[o]]
    BY <1>4 DEF MarkProcessed, At, LockPCs
  <2> QED BY <1>0a, <2>1, EndsOK
<1> QED BY <1>1, <1>2, <1>3, <1>4

\* _raise; a successful claim brings an object that nobody has seen.
LEMMA RaiseStepsTurn ==
  ASSUME TurnInv, TypeInv', NEW t \in Tasks,
         \/ SlotGranted(t) \/ RaiseLocked(t) \/ ClaimInstance(t) \/ ClaimRefused(t)
         \/ ReadHolder(t)
  PROVE  Good
<1> USE DEF dbVars, semVars, objVars
<1> DEFINE r == task[t].run
           i == task[t].ins
<1>0. /\ task[t] \in Coroutine /\ WellFormed(task[t]) /\ Plain(task[t]) /\ SweepOnce
      /\ task[t].pc \in EarlyPCs /\ task[t].pc \notin LockPCs /\ task[t].obj = None
      /\ r \in Runners /\ i \in Instances
  <2>1. task[t] \in Coroutine /\ WellFormed(task[t]) /\ Plain(task[t]) /\ SweepOnce
    BY TurnFacts
  <2>2. task[t].pc \in {"slot", "raise", "claim", "refused"}
    BY DEF SlotGranted, RaiseLocked, ClaimInstance, ClaimRefused, ReadHolder, At
  <2>3. task[t] # NoTask
    BY <2>2 DEF NoTask
  <2> QED BY <2>1, <2>2, <2>3 DEF WellFormed, Plain, EarlyPCs, LockPCs
<1>0a. UNCHANGED sweep => SweepOnce'
  BY <1>0 DEF SweepOnce
<1>1. ASSUME NEW pc \in {"raise", "claim", "refused"}, Goto(t, pc),
             UNCHANGED <<local, sweep, locked>>
      PROVE  Good
  <2>1. [task[t] EXCEPT !.pc = pc].pc \notin LockPCs
    BY <1>0, Moved DEF LockPCs
  <2>2. LockShape(t, [task[t] EXCEPT !.pc = pc])
    BY <1>0, <1>1, <2>1, StaysOut
  <2> QED BY <1>0, <1>1, <2>1, <2>2, GoesOK
<1>2. CASE SlotGranted(t)
  BY <1>1, <1>2 DEF SlotGranted
<1>3. CASE RaiseLocked(t)
  <2>1. CASE local[r][i] # None /\ Attach(t, task[t], local[r][i])
    <3>1. UNCHANGED <<local, sweep>>
      BY <1>3 DEF RaiseLocked
    <3> QED BY <1>0, <2>1, <3>1, AttachUp
  <2>2. CASE Goto(t, "claim") /\ UNCHANGED objVars
    BY <1>1, <1>3, <2>2 DEF RaiseLocked
  <2> QED BY <1>3, <2>1, <2>2 DEF RaiseLocked
<1>4. CASE ClaimRefused(t)
  BY <1>1, <1>4 DEF ClaimRefused
<1>5. CASE ReadHolder(t)
  <2>0. UNCHANGED <<local, sweep, locked>>
    BY <1>5 DEF ReadHolder
  <2>1. CASE Become(t, [task[t] EXCEPT !.pc = "forward", !.run = holder[i]])
    <3> DEFINE d == [task[t] EXCEPT !.pc = "forward", !.run = holder[i]]
    <3>1. d.pc = "forward" /\ d.obj = None /\ d.kind = task[t].kind
      BY <1>0 DEF Coroutine
    <3>2. Become(t, d)
      BY <2>1
    <3> HIDE DEF d
    <3>3. LockShape(t, d)
      BY <1>0, <2>0, <3>1, StaysOut
    <3>4. Plain(d) /\ Keeps(task[t], d)
      BY <1>0, <3>1 DEF Plain, Keeps
    <3> QED BY <1>0, <1>0a, <2>0, <3>1, <3>2, <3>3, <3>4, FineOK DEF Fine
  <2>2. CASE Finish(t)
    BY <1>0, <1>0a, <2>0, <2>2, EndsOK
  <2> QED BY <1>5, <2>1, <2>2 DEF ReadHolder
<1>6. CASE ClaimInstance(t)
  <2> DEFINE o == NewObject
  <2>1. /\ o \in Objects /\ Unused(o) /\ Attach(t, task[t], o)
        /\ local' = [local EXCEPT ![r][i] = o]
        /\ UNCHANGED sweep
    BY <1>6 DEF ClaimInstance, NewObject
  <2> HIDE DEF o
  <2>2. PICK d : /\ Become(t, d) /\ LockShape(t, d) /\ Plain(d)
                 /\ d.kind # "reap"
                 /\ \/ d.obj = None
                    \/ d.obj = o /\ d.run = r /\ d.ins = i
    BY <1>0, <2>1, AttachShape
  <2>3. task'[t] = d /\ \A x \in Tasks \ {t} : task'[x] = task[x]
    BY <2>2 DEF TurnInv, TypeInv, TypeOK, Become
  <2>4. /\ local'[r][i] = o
        /\ \A q \in Runners, j \in Instances : <<q, j>> # <<r, i>> => local'[q][j] = local[q][j]
    BY <1>0, <2>1 DEF TurnInv, TypeInv, TypeOK
  <2>5. /\ \A q \in Runners, j \in Instances : local[q][j] # o
        /\ \A x \in Tasks : task[x].obj # o
    BY <2>1 DEF Unused
  <2>6. OneOwner'
    <3>0. OneOwner
      BY DEF TurnInv
    <3>1. ASSUME NEW q \in Runners, NEW p \in Runners, NEW j \in Instances, NEW k \in Instances,
                 local'[q][j] # None, local'[q][j] = local'[p][k]
          PROVE  q = p /\ j = k
      BY <2>4, <2>5, <3>0, <3>1 DEF OneOwner
    <3>2. ASSUME NEW x \in Tasks, NEW q \in Runners, NEW j \in Instances,
                 task'[x].obj # None, task'[x].obj = local'[q][j]
          PROVE  task'[x].run = q /\ task'[x].ins = j
      BY <2>2, <2>3, <2>4, <2>5, <3>0, <3>2 DEF OneOwner
    <3>3. ASSUME NEW x \in Tasks, NEW y \in Tasks, task'[x].obj # None, task'[x].obj = task'[y].obj
          PROVE  task'[x].run = task'[y].run /\ task'[x].ins = task'[y].ins
      BY <2>2, <2>3, <2>5, <3>0, <3>3 DEF OneOwner
    <3> QED BY <3>1, <3>2, <3>3 DEF OneOwner
  <2>7. TurnsSerialized'
    <3>1. \A p \in Objects, x \in Tasks : In(task[x], p) <=> locked[p] = x
      BY TurnFacts
    <3>2. \A p \in Objects, x \in Tasks : In(task'[x], p) <=> locked'[p] = x
      BY <2>2, <2>3, <3>1 DEF LockShape
    <3> QED BY <3>2, SerializedNext
  <2>8. ReapStep
    BY <2>2, <2>3 DEF ReapStep
  <2>9. \A x \in Tasks : Plain(task'[x])
    BY <2>2, <2>3 DEF TurnInv
  <2> QED BY <1>0a, <2>1, <2>6, <2>7, <2>8, <2>9 DEF Good, TurnInv
<1> QED BY <1>2, <1>3, <1>4, <1>5, <1>6

\* Turns, console commands and releases.
LEMMA TurnStepsTurn ==
  ASSUME TurnInv, TypeInv', NEW t \in Tasks,
         \/ LockGranted(t) \/ TurnStarts(t) \/ TurnCompletes(t) \/ TurnFails(t)
         \/ TermGranted(t) \/ TermDone(t) \/ ReleaseInstance(t)
  PROVE  Good
<1> USE DEF dbVars, semVars, objVars
<1>0. /\ task[t] \in Coroutine /\ WellFormed(task[t]) /\ Plain(task[t]) /\ SweepOnce
      /\ locked \in [Objects -> Tasks \cup {None}]
      /\ sweep \in [Runners -> SUBSET (Instances \X Objects)]
  BY TurnFacts DEF TurnInv, TypeInv, TypeOK
<1>0a. UNCHANGED sweep => SweepOnce'
  BY <1>0 DEF SweepOnce
<1>1. CASE LockGranted(t)
  <2>0. /\ task[t].pc \in {"lock", "stoplock"} /\ task[t].pc \notin LockPCs
        /\ locked[task[t].obj] = None /\ locked' = [locked EXCEPT ![task[t].obj] = t]
        /\ UNCHANGED <<local, sweep>>
    BY <1>1 DEF LockGranted, LockPCs
  <2>1. ASSUME NEW pc \in {"context", "release"}, Goto(t, pc),
               pc = "context" => task[t].pc = "lock"
        PROVE  Good
    <3> DEFINE d == [task[t] EXCEPT !.pc = pc]
    <3>1. d.pc = pc /\ d.obj = task[t].obj
      BY <1>0, Moved
    <3> HIDE DEF d
    <3>2. LockShape(t, d)
      BY <2>0, <2>1, <3>1, Enters DEF LockPCs
    <3> QED BY <2>0, <2>1, <3>2, GoesOK DEF d, EarlyPCs
  <2> QED BY <1>1, <2>1 DEF LockGranted, At
<1>2. ASSUME NEW pc \in {"turn", "mark"}, Goto(t, pc), task[t].pc \in {"context", "turn", "cancel"},
             UNCHANGED <<local, sweep, locked>>
      PROVE  Good
  <2> DEFINE d == [task[t] EXCEPT !.pc = pc]
  <2>1. d.pc = pc /\ d.obj = task[t].obj
    BY <1>0, Moved
  <2> HIDE DEF d
  <2>2. LockShape(t, d)
    BY <1>2, <2>1, StaysIn DEF LockPCs
  <2> QED BY <1>2, <2>2, GoesOK DEF d, EarlyPCs
<1>3. CASE TurnStarts(t)
  BY <1>2, <1>3 DEF TurnStarts, At
<1>4. ASSUME Finish(t), task[t].pc \in LockPCs, locked' = [locked EXCEPT ![task[t].obj] = None],
             UNCHANGED <<local, sweep>>
      PROVE  Good
  BY <1>0a, <1>4, EndsOK
<1>5. CASE TurnCompletes(t)
  <2>1. CASE Goto(t, "mark") /\ UNCHANGED <<locked, idle>>
    BY <1>2, <1>5, <2>1 DEF TurnCompletes
  <2>2. CASE Finish(t) /\ locked' = [locked EXCEPT ![task[t].obj] = None]
    BY <1>4, <1>5, <2>2 DEF TurnCompletes, LockPCs
  <2> QED BY <1>5, <2>1, <2>2 DEF TurnCompletes
<1>6. CASE TurnFails(t)
  BY <1>4, <1>6 DEF TurnFails, LockPCs
<1>7. CASE TermGranted(t)
  <2>1. [task[t] EXCEPT !.pc = "term"].pc \notin LockPCs /\ task[t].pc \notin LockPCs
    BY <1>0, <1>7, Moved DEF TermGranted, At, LockPCs
  <2>2. LockShape(t, [task[t] EXCEPT !.pc = "term"])
    BY <1>7, <2>1, StaysOut DEF TermGranted
  <2> QED BY <1>7, <2>2, GoesOK DEF TermGranted, EarlyPCs
<1>8. CASE TermDone(t)
  <2>1. task[t].pc \notin LockPCs /\ Finish(t) /\ UNCHANGED <<local, sweep, locked>>
    BY <1>8 DEF TermDone, At, LockPCs
  <2> QED BY <1>0a, <2>1, EndsOK
<1>9. CASE ReleaseInstance(t)
  <2> DEFINE lk == [locked EXCEPT ![task[t].obj] = None]
             r == task[t].run
  <2>0. task[t].pc \in LockPCs /\ r \in Runners
    BY <1>0, <1>9 DEF ReleaseInstance, At, LockPCs, WellFormed, NoTask
  <2>1. CASE Finish(t) /\ locked' = lk /\ UNCHANGED <<local, lockq, sweep>>
    BY <1>4, <2>0, <2>1
  <2>2. CASE task[t].kind = "reap" /\ UnloadNext(t, r, sweep[r], lk)
    <3>1. lk \in [Objects -> Tasks \cup {None}] /\ sweep[r] \in SUBSET (Instances \X Objects)
      BY <1>0, <2>0
    <3>2. sweep[r] = Sweeping(t, r)
      BY <2>2 DEF Sweeping
    <3>3. lk = [locked EXCEPT ![task[t].obj] = None]
      OBVIOUS
    <3> HIDE DEF lk, r
    <3> QED BY <2>0, <2>2, <3>1, <3>2, <3>3, UnloadTurn
  <2> QED BY <1>9, <2>1, <2>2 DEF ReleaseInstance
<1> QED BY <1>1, <1>3, <1>5, <1>6, <1>7, <1>8, <1>9

\* A client that goes away and a call that raises leave the lock they are in.
LEMMA FailureStepsTurn ==
  ASSUME TurnInv, TypeInv', NEW t \in Tasks, ClientGone(t) \/ StoreError(t)
  PROVE  Good
<1>0. SweepOnce'
  <2>1. SweepOnce /\ \A q \in Runners : sweep'[q] = sweep[q] \/ sweep'[q] = {}
    BY TurnFacts DEF ClientGone, StoreError
  <2> QED BY <2>1 DEF SweepOnce
<1>1. /\ Finish(t) /\ UNCHANGED local
      /\ \/ task[t].pc \notin LockPCs /\ UNCHANGED locked
         \/ task[t].pc \in LockPCs /\ locked' = [locked EXCEPT ![task[t].obj] = None]
         \/ task[t].pc \in LockPCs
              /\ locked' = [o \in Objects |-> IF o = task[t].obj THEN None ELSE locked[o]]
  BY DEF ClientGone, StoreError, At, LockPCs
<1> QED BY <1>0, <1>1, EndsOK

\* Arrivals, stops and idle passes.
LEMMA ArrivalStepsTurn ==
  ASSUME TurnInv, TypeInv', NEW t \in Tasks,
         \/ \E r \in Runners, i \in Instances, k \in Keys : EventArrives(t, r, i, k)
         \/ \E r \in Runners, i \in Instances, kind \in {"chat", "terminal", "raise"} :
              Request(t, r, i, kind)
         \/ \E r \in Runners, i \in Instances : ApiStop(t, r, i)
         \/ \E r \in Runners : ReapIdle(t, r)
         \/ \E c \in hubCalls : HubStopAnswered(t, c) /\ task' # task
  PROVE  Good
<1> USE DEF dbVars, semVars, objVars
<1>0. /\ TypeInv /\ SweepOnce /\ locked \in [Objects -> Tasks \cup {None}] /\ task[t] = NoTask
      /\ hubCalls \subseteq HubCall
  <2>1. TypeInv /\ SweepOnce /\ locked \in [Objects -> Tasks \cup {None}] /\ hubCalls \subseteq HubCall
    BY TurnFacts DEF TypeInv, TypeOK
  <2>2. task[t] = NoTask
    BY DEF EventArrives, Request, ApiStop, ReapIdle, HubStopAnswered, Sent
  <2> QED BY <2>1, <2>2
<1>1. /\ task[t].pc = "none" /\ task[t].kind = "none" /\ task[t].pc \notin LockPCs
      /\ \A o : ~ In(task[t], o)
  BY <1>0 DEF NoTask, LockPCs, In
<1>2. ASSUME NEW r \in Runners, NEW i \in Instances, StopInstance(t, r, i, "stop", locked),
             UNCHANGED sweep
      PROVE  Good
  <2>1. SweepOnce' /\ \A o \in Objects : locked[o] = IF In(task[t], o) THEN None ELSE locked[o]
    BY <1>0, <1>1, <1>2 DEF SweepOnce
  <2> QED BY <1>0, <1>2, <2>1, StopTurn
<1>3. ASSUME NEW r \in Runners, NEW i \in Instances, NEW k \in Keys, EventArrives(t, r, i, k)
      PROVE  Good
  BY <1>1, <1>3, HandleEventTurn DEF EventArrives
<1>4. ASSUME NEW r \in Runners, NEW i \in Instances, NEW kind \in {"chat", "terminal", "raise"},
             Request(t, r, i, kind)
      PROVE  Good
  <2> DEFINE c == NewTask(kind, r, i, None)
  <2>1. c \in Coroutine
    BY NewTaskOK DEF Kinds
  <2>2. /\ c.run = r /\ c.ins = i /\ c.obj = None /\ c.kind = kind
        /\ EnterRaise(t, c) /\ UNCHANGED <<local, sweep>>
    BY <1>4 DEF NewTask, Request
  <2> HIDE DEF c
  <2>3. Plain(c)
    BY <2>2 DEF Plain
  <2> QED BY <1>1, <2>1, <2>2, <2>3, EnterRaiseTurn
<1>5. ASSUME NEW r \in Runners, NEW i \in Instances, ApiStop(t, r, i)
      PROVE  Good
  BY <1>2, <1>5 DEF ApiStop
<1>6. ASSUME NEW r \in Runners, ReapIdle(t, r)
      PROVE  Good
  <2>1. UnloadNext(t, r, Snapshot(r), locked)
    BY <1>6 DEF ReapIdle
  <2>2. Snapshot(r) \in SUBSET (Instances \X Objects) /\ Snapshot(r) = Sweeping(t, r)
    BY <1>1 DEF Snapshot, Sweeping
  <2> QED BY <1>0, <1>1, <2>1, <2>2, UnloadTurn
<1>7. ASSUME NEW c \in hubCalls, HubStopAnswered(t, c), task' # task
      PROVE  Good
  <2>1. c.run \in Runners /\ c.ins \in Instances
    BY <1>0 DEF HubCall
  <2>2. StopInstance(t, c.run, c.ins, "stop", locked) /\ UNCHANGED sweep
    BY <1>7 DEF HubStopAnswered
  <2> QED BY <1>2, <2>1, <2>2
<1> QED BY <1>3, <1>4, <1>5, <1>6, <1>7

\* A step that leaves coroutines, locks and instances of the runners alone.
LEMMA IdleTurn ==
  ASSUME TurnInv, TypeInv', UNCHANGED <<task, local, sweep, locked>>
  PROVE  Good
<1>1. TurnInv'
  <2>1. OneOwner' /\ SweepOnce'
    BY DEF TurnInv, OneOwner, SweepOnce
  <2>2. TurnsSerialized'
    BY SerializedIff, SerializedNext DEF TurnInv
  <2> QED BY <2>1, <2>2 DEF TurnInv
<1>2. ReapStep
  BY DEF ReapStep
<1> QED BY <1>1, <1>2 DEF Good

\* A crash drops the coroutines of its runner and the locks they are in, and
\* no lock of another runner.
LEMMA CrashTurn ==
  ASSUME TurnInv, TypeInv', NEW r \in Runners, Crash(r)
  PROVE  Good
<1>0. /\ OneOwner /\ SweepOnce
      /\ task' = [t \in Tasks |-> IF OnRunner(t, r) THEN NoTask ELSE task[t]]
      /\ local' = [local EXCEPT ![r] = [i \in Instances |-> None]]
      /\ locked' = [o \in Objects |-> IF o \in ObjectsOf(r) THEN None ELSE locked[o]]
      /\ sweep' = [sweep EXCEPT ![r] = {}]
  BY DEF TurnInv, Crash
<1>1. /\ NoTask.pc = "none" /\ NoTask.obj = None /\ NoTask.kind = "none"
      /\ NoTask.pc \notin LockPCs /\ Plain(NoTask)
  BY DEF NoTask, LockPCs, Plain
<1>2. \A x \in Tasks : task'[x] = IF OnRunner(x, r) THEN NoTask ELSE task[x]
  BY <1>0
<1>3. OneOwner'
  <2>1. \A x \in Tasks : Keeps(task[x], task'[x])
    BY <1>1, <1>2 DEF Keeps
  <2>2. \A q \in Runners, j \in Instances : local'[q][j] \in {local[q][j], None}
    BY <1>0 DEF TurnInv, TypeInv, TypeOK
  <2> QED BY <1>0, <2>1, <2>2, OwnersKept
<1>4. SweepOnce'
  <2>1. \A q \in Runners : sweep'[q] = sweep[q] \/ sweep'[q] = {}
    BY <1>0 DEF TurnInv, TypeInv, TypeOK
  <2> QED BY <1>0, <2>1 DEF SweepOnce
<1>5. TurnsSerialized'
  <2> SUFFICES ASSUME NEW p \in Objects, NEW x \in Tasks
               PROVE  In(task'[x], p) <=> locked'[p] = x
    BY SerializedNext
  <2>0. (In(task[x], p) <=> locked[p] = x) /\ None \notin Tasks /\ None \notin Objects
    BY TurnFacts
  <2>1. locked'[p] = IF p \in ObjectsOf(r) THEN None ELSE locked[p]
    BY <1>0
  <2>2. CASE OnRunner(x, r)
    <3>1. ~ In(task'[x], p)
      BY <1>1, <1>2, <2>2 DEF In
    <3>2. locked[p] = x => p \in ObjectsOf(r)
      BY <2>0, <2>2 DEF In, ObjectsOf
    <3> QED BY <2>0, <2>1, <3>1, <3>2
  <2>3. CASE ~ OnRunner(x, r)
    <3>1. ASSUME In(task[x], p), p \in ObjectsOf(r)
          PROVE  FALSE
      <4>1. task[x].obj = p /\ task[x].obj # None /\ task[x].run # r
        BY <2>0, <2>3, <3>1 DEF In, OnRunner, LockPCs
      <4>2. CASE \E i \in Instances : local[r][i] = p
        BY <1>0, <4>1, <4>2 DEF OneOwner
      <4>3. CASE \E y \in Tasks : OnRunner(y, r) /\ task[y].obj = p
        BY <1>0, <4>1, <4>3 DEF OneOwner, OnRunner
      <4> QED BY <3>1, <4>2, <4>3 DEF ObjectsOf
    <3>2. task'[x] = task[x]
      BY <1>2, <2>3
    <3> QED BY <2>0, <2>1, <3>1, <3>2
  <2> QED BY <2>2, <2>3
<1>6. \A x \in Tasks : Plain(task'[x])
  BY <1>1, <1>2 DEF TurnInv
<1>7. ReapStep
  BY <1>1, <1>2 DEF ReapStep
<1> QED BY <1>3, <1>4, <1>5, <1>6, <1>7 DEF Good, TurnInv

\* Every step of runners, hub and environment.
LEMMA TurnStep == TurnInv /\ [Next]_vars => Good
<1> SUFFICES ASSUME TurnInv, [Next]_vars
             PROVE  Good
  OBVIOUS
<1>0. TypeInv'
  BY TypeStep DEF TurnInv
<1>1. CASE UNCHANGED <<task, local, sweep, locked>>
  BY <1>0, <1>1, IdleTurn
<1>2. CASE UNCHANGED vars
  BY <1>1, <1>2 DEF vars, dbVars, objVars
<1>3. CASE \E t \in Tasks : Step(t) \/ ClientGone(t) \/ StoreError(t)
  BY <1>0, <1>3, EventStepsTurn, RaiseStepsTurn, TurnStepsTurn, FailureStepsTurn DEF Step
<1>4. ASSUME NEW t \in Tasks,
             \/ \E r \in Runners, i \in Instances, k \in Keys : EventArrives(t, r, i, k)
             \/ \E r \in Runners, i \in Instances, kind \in {"chat", "terminal", "raise"} :
                  Request(t, r, i, kind)
             \/ \E r \in Runners, i \in Instances : ApiStop(t, r, i)
             \/ \E r \in Runners : ReapIdle(t, r)
      PROVE  Good
  BY <1>0, <1>4, ArrivalStepsTurn
<1>5. ASSUME NEW c \in hubCalls, NEW t \in Tasks, HubStopAnswered(t, c)
      PROVE  Good
  <2>1. CASE task' # task
    BY <1>0, <1>5, <2>1, ArrivalStepsTurn
  <2>2. CASE UNCHANGED <<local, task, locked, lockq>>
    BY <1>1, <1>5, <2>2 DEF HubStopAnswered, dbVars
  <2>3. CASE StopInstance(t, c.run, c.ins, "stop", locked) /\ task[t] = NoTask
    <3>1. task'[t].kind = "stop" /\ NoTask.kind = "none"
      BY <2>3 DEF StopInstance, NewTask, NoTask
    <3> QED BY <2>1, <2>3, <3>1
  <2> QED BY <1>5, <2>2, <2>3 DEF HubStopAnswered
<1>6. CASE \/ \E i \in Instances : HubStop(i)
           \/ \E c \in hubCalls : HubUpdate(c)
           \/ \E r \in Runners : RequeueStale(r) \/ Restart(r)
           \/ \E o \in Objects : IdleElapses(o)
  <2>1. UNCHANGED <<task, local, sweep, locked>>
    BY <1>6 DEF HubStop, HubUpdate, RequeueStale, Restart, IdleElapses, dbVars, objVars
  <2> QED BY <1>1, <2>1
<1>7. CASE \E r \in Runners : Crash(r)
  BY <1>0, <1>7, CrashTurn
<1> QED BY <1>2, <1>3, <1>4, <1>5, <1>6, <1>7 DEF Next

\* Initially nobody is in a lock.
LEMMA TurnInit == Init => TurnInv
<1> SUFFICES ASSUME Init PROVE TurnInv
  OBVIOUS
<1>1. TypeInv
  BY TypeInit
<1>2. \A t \in Tasks : task[t] = NoTask /\ task[t].obj = None /\ task[t].pc = "none"
                       /\ task[t].kind = "none"
  BY DEF Init, NoTask
<1>3. OneOwner /\ SweepOnce
  BY <1>2 DEF Init, OneOwner, SweepOnce
<1>4. TurnsSerialized
  BY <1>2, RunnerAssumption DEF Init, TurnsSerialized, Inside, LockPCs, RunnerAssumption
<1>5. \A t \in Tasks : Plain(task[t])
  BY <1>2 DEF Plain
<1> QED BY <1>1, <1>3, <1>4, <1>5 DEF TurnInv

\* TurnInv holds throughout.
LEMMA TurnAlways == Spec => []TurnInv
<1>1. TurnInv /\ [Next]_vars => TurnInv'
  BY TurnStep DEF Good
<1> QED BY <1>1, TurnInit, PTL DEF Spec

-----------------------------------------------------------------------------
(* The theorems.                                                             *)

\* "async with instance.lock" admits one coroutine: the turns of one
\* LocalInstance and its release never overlap, whatever is cancelled,
\* stopped, handed over or crashes.
THEOREM Serialized == Spec => []TurnsSerialized
<1>1. TurnInv => TurnsSerialized
  BY DEF TurnInv
<1> QED BY <1>1, TurnAlways, PTL

\* reap_idle unloads what is idle: a LocalInstance of its list that it pops is
\* past the timeout and runs no turn and no console command at that moment,
\* however long the stops before it were awaited.
THEOREM ReapsIdle == Spec => ReapsOnlyIdle
<1>1. TurnInv /\ [Next]_vars => [ReapStep]_vars
  BY TurnStep DEF Good
<1> QED BY <1>1, TurnAlways, PTL DEF Spec, ReapsOnlyIdle, ReapStep

-----------------------------------------------------------------------------
(* One slot.  A runner with one slot that nobody but its own idle pass stops *)
(* and whose heartbeats arrive keeps the row of its instance, so an instance *)
(* runs one turn in the whole system.  With more slots, or under stops by    *)
(* the API or the hub, TLC shows that it need not (SingleTurnTwoSlots).      *)

OneSlot == Slots = 1 /\ Env \cap {"stop", "hub", "partition"} = {}

\* Coroutines that stand in the queue of a LocalInstance's lock.
Waits(c, o) == c.pc \in {"lock", "stoplock"} /\ c.obj = o
Stops(c, o) == c.pc = "stoplock" /\ c.obj = o

\* Queue q holds the coroutines W, each once, and those of L stand last.
LineUp(q, W, L) ==
  /\ q \in Seq(Tasks)
  /\ \A m, n \in 1 .. Len(q) : q[m] = q[n] => m = n
  /\ W = {q[n] : n \in 1 .. Len(q)}
  /\ \A x \in L : Len(q) > 0 /\ q[Len(q)] = x

Waiting(o) == {x \in Tasks : Waits(task[x], o)}
Stopping(o) == {x \in Tasks : Stops(task[x], o)}

Queued == \A o \in Objects : LineUp(lockq[o], Waiting(o), Stopping(o))

\* No call of the hub is under way and no idle pass has a second instance.
Quiet == hubCalls = {} /\ \A r \in Runners : sweep[r] = {}

\* Only a process that is up has coroutines and instances.
Lives(c) == c.pc \notin {"none", "forward"}
Alive ==
  /\ \A x \in Tasks : Lives(task[x]) => up[task[x].run]
  /\ \A r \in Runners, i \in Instances : local[r][i] # None => up[r]

\* The row of an instance names the runner that raised it until its
\* LocalInstance has been stopped.
Held(r, i) == status[i] = "running" /\ holder[i] = r
StoppedBy(c, r, i) == c.pc = "stoplock" /\ c.run = r /\ c.ins = i
Kept(r, i) == local[r][i] # None \/ \E x \in Tasks : StoppedBy(task[x], r, i)
Rows == \A r \in Runners, i \in Instances : Kept(r, i) => Held(r, i)

\* An Event between _raise and the lock has a LocalInstance that is raised and
\* not idle; a turn, and whoever waits to run one, has one that is raised or
\* whose stop still waits.
TurnSeats == {"lock", "context", "turn", "cancel"}
Fresh(c) == c.pc = "begin" /\ c.kind = "event" =>
  c.obj # None /\ local[c.run][c.ins] = c.obj /\ ~ idle[c.obj]
Seated(c) == c.pc \in TurnSeats =>
  /\ c.obj # None
  /\ local[c.run][c.ins] = c.obj \/ \E x \in Tasks : Stops(task[x], c.obj)
Popped(c) == c.pc = "stoplock" => c.obj # None
Seats == \A x \in Tasks : Fresh(task[x]) /\ Seated(task[x]) /\ Popped(task[x])

Alone == Queued /\ Quiet /\ Alive /\ Rows /\ Seats

-----------------------------------------------------------------------------
(* One permit: what is raised and who owns it.                               *)

\* A set of at most one element.
LEMMA AtMostOne ==
  ASSUME NEW A, IsFiniteSet(A), Cardinality(A) <= 1, NEW x \in A, NEW y \in A
  PROVE  x = y
<1> SUFFICES ASSUME x # y PROVE FALSE
  OBVIOUS
<1>1. IsFiniteSet(A \ {x}) /\ Cardinality(A \ {x}) = Cardinality(A) - 1
  BY FS_RemoveElement
<1>2. Cardinality(A) \in Nat /\ Cardinality(A \ {x}) \in Nat
  BY <1>1, FS_CardinalityType
<1>3. Cardinality(A \ {x}) = 0
  BY <1>1, <1>2
<1>4. A \ {x} = {}
  BY <1>1, <1>3, FS_EmptySet
<1> QED BY <1>4

\* An element is counted.
LEMMA AtLeastOne ==
  ASSUME NEW A, IsFiniteSet(A), NEW x \in A
  PROVE  Cardinality(A) >= 1
<1>1. Cardinality(A) \in Nat /\ (Cardinality(A) = 0 <=> A = {})
  BY FS_CardinalityType, FS_EmptySet
<1> QED BY <1>1

\* With one slot the permit has one owner, or one instance is raised.
LEMMA OneTenant ==
  ASSUME OneSlot, SlotInv, NEW r \in Runners
  PROVE  /\ \A x, y \in Tasks : Owns(task[x], r) /\ Owns(task[y], r) => x = y
         /\ \A x \in Tasks, i \in Instances : Owns(task[x], r) => local[r][i] = None
         /\ \A i, j \in Instances : local[r][i] # None /\ local[r][j] # None => i = j
<1> DEFINE own == Owners(r)
           raised == Raised(r)
<1>1. /\ IsFiniteSet(own) /\ Cardinality(own) \in Nat
      /\ IsFiniteSet(raised) /\ Cardinality(raised) \in Nat
  BY CountsFinite
<1>2. Cardinality(own) + Cardinality(raised) <= 1
  <2>1. free[r] \in Nat /\ leaked[r] \in Nat
    BY DEF SlotInv, TypeInv, TypeOK
  <2>2. free[r] + Cardinality(own) + Cardinality(raised) + leaked[r] = 1
    BY DEF SlotInv, SlotAccounting, OneSlot
  <2> HIDE DEF own, raised
  <2> QED BY <1>1, <2>1, <2>2
<1>3. /\ \A x \in Tasks : Owns(task[x], r) <=> x \in own
      /\ \A i \in Instances : local[r][i] # None <=> i \in raised
  BY DEF Owners, Owns, Raised
<1> HIDE DEF own, raised
<1>4. \A x, y \in own : x = y
  <2>1. Cardinality(own) <= 1
    BY <1>1, <1>2
  <2> QED BY <1>1, <2>1, AtMostOne
<1>5. \A i, j \in raised : i = j
  <2>1. Cardinality(raised) <= 1
    BY <1>1, <1>2
  <2> QED BY <1>1, <2>1, AtMostOne
<1>6. ASSUME NEW x \in own, NEW i \in raised
      PROVE  FALSE
  <2>1. Cardinality(own) >= 1 /\ Cardinality(raised) >= 1
    BY <1>1, AtLeastOne
  <2> QED BY <1>1, <1>2, <2>1
<1> QED BY <1>3, <1>4, <1>5, <1>6

\* Nobody waits to stop a LocalInstance that is raised.
LEMMA RaisedUnstopped ==
  ASSUME OneSlot, SlotInv, TurnInv, NEW r \in Runners, NEW i \in Instances,
         local[r][i] # None
  PROVE  Stopping(local[r][i]) = {}
<1> SUFFICES ASSUME NEW x \in Tasks, task[x].pc = "stoplock", task[x].obj = local[r][i]
             PROVE  FALSE
  BY DEF Stopping, Stops
<1>1. task[x].run = r
  BY DEF TurnInv, OneOwner
<1>2. Owns(task[x], r)
  BY <1>1 DEF Owns, SlotPCs
<1> QED BY <1>2, OneTenant

-----------------------------------------------------------------------------
(* The queue of a lock.                                                      *)

\* A queue without some of those that stand last.
LEMMA LineUpFewer ==
  ASSUME NEW q, NEW W, NEW L, NEW K, LineUp(q, W, L), K \subseteq L
  PROVE  LineUp(q, W, K)
  BY DEF LineUp

\* A coroutine joins at the end.
LEMMA LineUpAppend ==
  ASSUME NEW q, NEW W, NEW L, LineUp(q, W, L), NEW t \in Tasks, t \notin W
  PROVE  LineUp(Append(q, t), W \cup {t}, {t})
<1> DEFINE p == Append(q, t)
<1>0. q \in Seq(Tasks) /\ W = {q[n] : n \in 1 .. Len(q)}
      /\ \A m, n \in 1 .. Len(q) : q[m] = q[n] => m = n
  BY DEF LineUp
<1>1. /\ p \in Seq(Tasks) /\ Len(p) = Len(q) + 1 /\ Len(q) \in Nat
      /\ \A n \in 1 .. Len(q) : p[n] = q[n]
      /\ p[Len(q) + 1] = t
  BY <1>0
<1> HIDE DEF p
<1>2. \A n \in 1 .. Len(q) : p[n] # t
  BY <1>0, <1>1
<1>3. \A m, n \in 1 .. Len(p) : p[m] = p[n] => m = n
  BY <1>0, <1>1, <1>2
<1>4. W \cup {t} = {p[n] : n \in 1 .. Len(p)}
  <2>1. \A x \in W \cup {t} : \E n \in 1 .. Len(p) : x = p[n]
    BY <1>0, <1>1
  <2>2. \A n \in 1 .. Len(p) : p[n] \in W \cup {t}
    BY <1>0, <1>1
  <2> QED BY <2>1, <2>2
<1>5. Len(p) > 0 /\ p[Len(p)] = t
  BY <1>1
<1> QED BY <1>1, <1>3, <1>4, <1>5 DEF LineUp, p

\* The first one leaves.
LEMMA LineUpTail ==
  ASSUME NEW q, NEW W, NEW L, LineUp(q, W, L), q # <<>>
  PROVE  LineUp(Tail(q), W \ {Head(q)}, L \ {Head(q)})
<1> DEFINE p == Tail(q)
           h == Head(q)
<1>0. q \in Seq(Tasks) /\ W = {q[n] : n \in 1 .. Len(q)}
      /\ (\A m, n \in 1 .. Len(q) : q[m] = q[n] => m = n)
      /\ \A x \in L : Len(q) > 0 /\ q[Len(q)] = x
  BY DEF LineUp
<1>1. /\ p \in Seq(Tasks) /\ Len(p) = Len(q) - 1 /\ Len(q) \in Nat /\ Len(q) > 0
      /\ \A n \in 1 .. Len(p) : p[n] = q[n + 1]
      /\ h = q[1]
  BY <1>0
<1> HIDE DEF p, h
<1>2. \A m, n \in 1 .. Len(p) : p[m] = p[n] => m = n
  BY <1>0, <1>1
<1>3. W \ {h} = {p[n] : n \in 1 .. Len(p)}
  <2>1. ASSUME NEW x \in W \ {h}
        PROVE  \E n \in 1 .. Len(p) : x = p[n]
    <3>1. PICK n \in 1 .. Len(q) : x = q[n]
      BY <1>0
    <3>2. n # 1
      BY <1>1, <3>1
    <3>3. n - 1 \in 1 .. Len(p) /\ p[n - 1] = q[(n - 1) + 1] /\ (n - 1) + 1 = n
      BY <1>1, <3>2
    <3> QED BY <3>1, <3>3
  <2>2. ASSUME NEW n \in 1 .. Len(p)
        PROVE  p[n] \in W \ {h}
    <3>1. n + 1 \in 1 .. Len(q) /\ 1 \in 1 .. Len(q) /\ n + 1 # 1
      BY <1>1
    <3>2. q[n + 1] # q[1] /\ q[n + 1] \in W
      BY <1>0, <3>1
    <3> QED BY <1>1, <3>2
  <2> QED BY <2>1, <2>2
<1>4. ASSUME NEW x \in L \ {h}
      PROVE  Len(p) > 0 /\ p[Len(p)] = x
  <2>1. q[Len(q)] = x /\ x # q[1]
    BY <1>0, <1>1
  <2>2. Len(q) # 1
    BY <2>1
  <2>3. Len(p) > 0 /\ Len(p) \in 1 .. Len(p) /\ Len(p) + 1 = Len(q)
    BY <1>1, <2>2
  <2> QED BY <1>1, <2>1, <2>3
<1> QED BY <1>1, <1>2, <1>3, <1>4 DEF LineUp, p, h

\* One that does not stand last leaves.
LEMMA LineUpWithout ==
  ASSUME NEW q, NEW W, NEW L, LineUp(q, W, L), NEW t \in W, t \notin L
  PROVE  LineUp(Without(q, t), W \ {t}, L)
<1> DEFINE k == CHOOSE m \in 1 .. Len(q) : q[m] = t
           p == Without(q, t)
<1>0. q \in Seq(Tasks) /\ W = {q[n] : n \in 1 .. Len(q)}
      /\ (\A m, n \in 1 .. Len(q) : q[m] = q[n] => m = n)
      /\ \A x \in L : Len(q) > 0 /\ q[Len(q)] = x
  BY DEF LineUp
<1>1. k \in 1 .. Len(q) /\ q[k] = t
  <2>1. \E m \in 1 .. Len(q) : q[m] = t
    BY <1>0
  <2> QED BY <2>1
<1>2. p = [m \in 1 .. Len(q) - 1 |-> IF m < k THEN q[m] ELSE q[m + 1]]
  BY DEF Without
<1>2a. t \in Tasks
  BY <1>0, <1>1
<1> HIDE DEF k, p
<1>3. /\ p \in Seq(Tasks) /\ Len(p) = Len(q) - 1 /\ Len(q) \in Nat /\ Len(q) > 0
      /\ \A m \in 1 .. Len(p) : p[m] = IF m < k THEN q[m] ELSE q[m + 1]
  <2>1. p \in Seq(Tasks)
    BY <1>0, <1>2a, WithoutOK DEF p
  <2>2. Len(q) \in Nat /\ Len(q) > 0
    BY <1>0, <1>1
  <2>3. Len(q) - 1 \in Nat
    BY <2>2
  <2>4. Len(p) = Len(q) - 1
    BY <1>2, <2>1, <2>3
  <2> QED BY <1>2, <2>1, <2>2, <2>4
<1>4. \A m, n \in 1 .. Len(p) : p[m] = p[n] => m = n
  BY <1>0, <1>1, <1>3
<1>5. W \ {t} = {p[n] : n \in 1 .. Len(p)}
  <2>1. ASSUME NEW x \in W \ {t}
        PROVE  \E n \in 1 .. Len(p) : x = p[n]
    <3>1. PICK n \in 1 .. Len(q) : x = q[n]
      BY <1>0
    <3>2. n # k
      BY <1>1, <3>1
    <3>3. CASE n < k
      <4>1. n \in 1 .. Len(p) /\ p[n] = q[n]
        BY <1>1, <1>3, <3>3
      <4> QED BY <3>1, <4>1
    <3>4. CASE n > k
      <4>1. n - 1 \in 1 .. Len(p) /\ ~(n - 1 < k) /\ (n - 1) + 1 = n
        BY <1>1, <1>3, <3>4
      <4>2. p[n - 1] = q[n]
        BY <1>3, <4>1
      <4> QED BY <3>1, <4>1, <4>2
    <3> QED BY <1>1, <3>2, <3>3, <3>4
  <2>2. ASSUME NEW n \in 1 .. Len(p)
        PROVE  p[n] \in W \ {t}
    <3>1. CASE n < k
      <4>1. n \in 1 .. Len(q) /\ p[n] = q[n] /\ n # k
        BY <1>3, <3>1
      <4> QED BY <1>0, <1>1, <4>1
    <3>2. CASE ~(n < k)
      <4>1. n + 1 \in 1 .. Len(q) /\ p[n] = q[n + 1] /\ n + 1 # k
        BY <1>1, <1>3, <3>2
      <4> QED BY <1>0, <1>1, <4>1
    <3> QED BY <3>1, <3>2
  <2> QED BY <2>1, <2>2
<1>6. ASSUME NEW x \in L
      PROVE  Len(p) > 0 /\ p[Len(p)] = x
  <2>1. q[Len(q)] = x /\ x # t
    BY <1>0
  <2>2. k < Len(q)
    BY <1>1, <1>3, <2>1
  <2>3. Len(p) > 0 /\ Len(p) \in 1 .. Len(p) /\ Len(p) + 1 = Len(q) /\ ~(Len(p) < k)
    BY <1>1, <1>3, <2>2
  <2>4. p[Len(p)] = q[Len(p) + 1]
    BY <1>3, <2>3
  <2> QED BY <2>1, <2>3, <2>4
<1> QED BY <1>3, <1>4, <1>5, <1>6 DEF LineUp, p

-----------------------------------------------------------------------------
(* The step of one coroutine.                                                *)

\* What the step of coroutine t, which becomes d, does to the queues.
QueueTo(t, d) ==
  \A o \in Objects :
    \/ lockq'[o] = lockq[o] /\ (Waits(d, o) <=> Waits(task[t], o))
    \/ /\ ~ Waits(task[t], o) /\ Waits(d, o) /\ Stopping(o) = {}
       /\ lockq'[o] = Append(lockq[o], t)
    \/ /\ Waits(task[t], o) /\ ~ Waits(d, o)
       /\ lockq[o] # <<>> /\ Head(lockq[o]) = t /\ lockq'[o] = Tail(lockq[o])
    \/ /\ Waits(task[t], o) /\ ~ Waits(d, o) /\ ~ Stops(task[t], o)
       /\ lockq'[o] = Without(lockq[o], t)

\* Where it leaves d.
Sits(t, d) ==
  /\ d.pc # "stoplock"
  /\ Lives(d) => up[d.run]
  /\ d.pc = "begin" /\ d.kind = "event" =>
       d.obj # None /\ local'[d.run][d.ins] = d.obj /\ ~ idle'[d.obj]
  /\ d.pc \in TurnSeats =>
       /\ d.obj # None
       /\ local'[d.run][d.ins] = d.obj \/ \E x \in Tasks \ {t} : Stops(task[x], d.obj)

\* What it does to the instances and to their rows: a live runner raises one
\* whose row it holds, and no row of a runner that keeps it changes hands.
Around ==
  /\ up' = up
  /\ \A r \in Runners : sweep'[r] = {}
  /\ \A r \in Runners, i \in Instances :
       /\ \/ local'[r][i] = local[r][i]
          \/ local[r][i] = None /\ up[r] /\ status'[i] = "running" /\ holder'[i] = r
       /\ Kept(r, i) /\ Held(r, i) => status'[i] = "running" /\ holder'[i] = r

Calm == hubCalls' = {} /\ \A o \in Objects : idle'[o] => idle[o]

\* A stop that got its lock leaves no turn behind, nor anybody who waits.
LeavesNobody(t) ==
  task[t].pc = "stoplock" =>
    \A x \in Tasks : ~ (task[x].pc \in TurnSeats /\ task[x].obj = task[t].obj)

\* The queues are those of the coroutines that wait.
LEMMA QueuedKept ==
  ASSUME Queued, NEW t \in Tasks, NEW d, d.pc # "stoplock",
         task'[t] = d, \A x \in Tasks \ {t} : task'[x] = task[x], QueueTo(t, d)
  PROVE  Queued'
<1> SUFFICES ASSUME NEW o \in Objects
             PROVE  LineUp(lockq'[o], Waiting(o)', Stopping(o)')
  BY DEF Queued
<1> DEFINE W == Waiting(o)
           L == Stopping(o)
           WN == Waiting(o)'
           LN == Stopping(o)'
           q == lockq[o]
           qN == lockq'[o]
<1>1. LineUp(q, W, L)
  BY DEF Queued
<1>2. LN \subseteq L \ {t} /\ t \notin LN
  BY DEF Stopping, Stops
<1>3. /\ Waits(d, o) => WN = W \cup {t}
      /\ ~ Waits(d, o) => WN = W \ {t}
      /\ t \in W <=> Waits(task[t], o)
      /\ t \in L <=> Stops(task[t], o)
  BY DEF Waiting, Stopping
<1>4. \/ qN = q /\ (Waits(d, o) <=> Waits(task[t], o))
      \/ ~ Waits(task[t], o) /\ Waits(d, o) /\ L = {} /\ qN = Append(q, t)
      \/ /\ Waits(task[t], o) /\ ~ Waits(d, o)
         /\ q # <<>> /\ Head(q) = t /\ qN = Tail(q)
      \/ Waits(task[t], o) /\ ~ Waits(d, o) /\ ~ Stops(task[t], o) /\ qN = Without(q, t)
  BY DEF QueueTo
<1> HIDE DEF W, L, WN, LN, q, qN
<1>5. CASE qN = q /\ (Waits(d, o) <=> Waits(task[t], o))
  <2>1. WN = W /\ LN \subseteq L
    BY <1>2, <1>3, <1>5
  <2> QED BY <1>1, <1>5, <2>1, LineUpFewer DEF qN, WN, LN
<1>6. CASE ~ Waits(task[t], o) /\ Waits(d, o) /\ L = {} /\ qN = Append(q, t)
  <2>1. LineUp(qN, WN, {t})
    BY <1>1, <1>3, <1>6, LineUpAppend
  <2> QED BY <1>2, <1>6, <2>1, LineUpFewer DEF qN, WN, LN
<1>7. CASE /\ Waits(task[t], o) /\ ~ Waits(d, o)
           /\ q # <<>> /\ Head(q) = t /\ qN = Tail(q)
  <2>1. LineUp(qN, WN, L \ {t})
    BY <1>1, <1>3, <1>7, LineUpTail
  <2> QED BY <1>2, <2>1, LineUpFewer DEF qN, WN, LN
<1>8. CASE Waits(task[t], o) /\ ~ Waits(d, o) /\ ~ Stops(task[t], o) /\ qN = Without(q, t)
  <2>1. LineUp(qN, WN, L)
    BY <1>1, <1>3, <1>8, LineUpWithout
  <2> QED BY <1>2, <2>1, LineUpFewer DEF qN, WN, LN
<1> QED BY <1>4, <1>5, <1>6, <1>7, <1>8

\* What the invariants say of a coroutine that runs or waits on a runner.
LEMMA Placed ==
  ASSUME TurnInv, NEW x \in Tasks, task[x].pc # "none"
  PROVE  /\ task[x].run \in Runners /\ task[x].ins \in Instances
         /\ task[x].obj \in Objects \cup {None}
<1>1. task[x] # NoTask
  BY Exists
<1>2. WellFormed(task[x]) /\ task[x] \in Coroutine
  BY TurnFacts
<1> QED BY <1>1, <1>2 DEF WellFormed, Coroutine

\* The step of a coroutine that starts no stop.
LEMMA BecomeAlone ==
  ASSUME TurnInv, Alone, NEW t \in Tasks, NEW d, Become(t, d),
         QueueTo(t, d), Sits(t, d), Around, Calm, LeavesNobody(t)
  PROVE  Alone'
<1>0. task'[t] = d /\ \A x \in Tasks \ {t} : task'[x] = task[x]
  BY DEF TurnInv, TypeInv, TypeOK, Become
<1>0a. d.pc # "stoplock"
  BY DEF Sits
<1>1. Queued'
  BY <1>0, <1>0a, QueuedKept DEF Alone
<1>2. Quiet'
  BY DEF Around, Calm, Quiet
<1>3. Alive'
  <2>1. \A x \in Tasks : Lives(task'[x]) => up'[task'[x].run]
    BY <1>0 DEF Alone, Alive, Around, Sits
  <2>2. \A r \in Runners, i \in Instances : local'[r][i] # None => up'[r]
    BY DEF Alone, Alive, Around
  <2> QED BY <2>1, <2>2 DEF Alive
<1>4. Rows'
  <2> SUFFICES ASSUME NEW r \in Runners, NEW i \in Instances, Kept(r, i)'
               PROVE  status'[i] = "running" /\ holder'[i] = r
    BY DEF Rows, Held
  <2>1. CASE Kept(r, i)
    BY <2>1 DEF Around, Alone, Rows
  <2>2. CASE ~ Kept(r, i)
    <3>1. ~ \E x \in Tasks : StoppedBy(task'[x], r, i)
      BY <1>0, <1>0a, <2>2 DEF Kept, StoppedBy
    <3>2. local[r][i] = None /\ local'[r][i] # None
      BY <2>2, <3>1 DEF Kept
    <3> QED BY <3>2 DEF Around
  <2> QED BY <2>1, <2>2
<1>5. Seats'
  <2> SUFFICES ASSUME NEW x \in Tasks
               PROVE  Fresh(task[x])' /\ Seated(task[x])'
    <3>1. \A x \in Tasks : Popped(task'[x])
      BY <1>0, <1>0a DEF Alone, Seats, Popped
    <3> QED BY <3>1 DEF Seats, Popped
  <2>1. CASE x = t
    <3>1. Fresh(task[x])'
      BY <1>0, <2>1 DEF Fresh, Sits
    <3>2. ASSUME task'[x].pc \in TurnSeats
          PROVE  /\ task'[x].obj # None
                 /\ \/ local'[task'[x].run][task'[x].ins] = task'[x].obj
                    \/ \E y \in Tasks : Stops(task'[y], task'[x].obj)
      <4>1. /\ d.obj # None
            /\ local'[d.run][d.ins] = d.obj \/ \E y \in Tasks \ {t} : Stops(task[y], d.obj)
        BY <1>0, <2>1, <3>2 DEF Sits
      <4> QED BY <1>0, <2>1, <4>1
    <3> QED BY <3>1, <3>2 DEF Seated
  <2>2. CASE x # t
    <3>0. task'[x] = task[x] /\ Fresh(task[x]) /\ Seated(task[x])
      BY <1>0, <2>2 DEF Alone, Seats
    <3>1. ASSUME task[x].pc # "none", task[x].obj # None,
                 local[task[x].run][task[x].ins] = task[x].obj
          PROVE  local'[task[x].run][task[x].ins] = task[x].obj /\ task[x].obj \in Objects
      BY <3>1, Placed DEF Around
    <3>2. Fresh(task[x])'
      <4>1. ASSUME task[x].pc = "begin", task[x].kind = "event"
            PROVE  /\ task[x].obj # None /\ local'[task[x].run][task[x].ins] = task[x].obj
                   /\ ~ idle'[task[x].obj]
        <5>1. /\ task[x].obj # None /\ local[task[x].run][task[x].ins] = task[x].obj
              /\ ~ idle[task[x].obj]
          BY <3>0, <4>1 DEF Fresh
        <5>2. local'[task[x].run][task[x].ins] = task[x].obj /\ task[x].obj \in Objects
          BY <3>1, <4>1, <5>1
        <5> QED BY <5>1, <5>2 DEF Calm
      <4> QED BY <3>0, <4>1 DEF Fresh
    <3>3. ASSUME task[x].pc \in TurnSeats
          PROVE  /\ task[x].obj # None
                 /\ \/ local'[task[x].run][task[x].ins] = task[x].obj
                    \/ \E y \in Tasks : Stops(task'[y], task[x].obj)
      <4>1. task[x].pc # "none" /\ task[x].obj # None
        BY <3>0, <3>3 DEF Seated, TurnSeats
      <4>2. CASE local[task[x].run][task[x].ins] = task[x].obj
        BY <3>1, <4>1, <4>2
      <4>3. CASE \E y \in Tasks : Stops(task[y], task[x].obj)
        <5>1. PICK y \in Tasks : Stops(task[y], task[x].obj)
          BY <4>3
        <5>2. y # t
          BY <3>3, <5>1 DEF LeavesNobody, Stops
        <5> QED BY <1>0, <4>1, <5>1, <5>2
      <4> QED BY <3>0, <3>3, <4>1, <4>2, <4>3 DEF Seated
    <3> QED BY <3>0, <3>2, <3>3 DEF Seated
  <2> QED BY <2>1, <2>2
<1> QED BY <1>1, <1>2, <1>3, <1>4, <1>5 DEF Alone

-----------------------------------------------------------------------------
(* The shared pieces.                                                        *)

\* A coroutine that waits in no queue of a lock, before and after.
LEMMA NoQueue ==
  ASSUME NEW t \in Tasks, NEW d, UNCHANGED lockq,
         task[t].pc \notin {"lock", "stoplock"}, d.pc \notin {"lock", "stoplock"}
  PROVE  QueueTo(t, d) /\ LeavesNobody(t)
  BY DEF QueueTo, Waits, LeavesNobody

\* Instances and rows left alone.
LEMMA AroundSame ==
  ASSUME Alone, UNCHANGED <<up, sweep, local, status, holder>>
  PROVE  Around
  BY DEF Alone, Quiet, Around, Held

\* A claim takes no row from a runner that keeps its instance.
LEMMA ClaimKeepsRows ==
  ASSUME TypeInv, NEW i \in Instances, NEW r \in Runners, Claimable(i, r),
         status' = [status EXCEPT ![i] = "running"], holder' = [holder EXCEPT ![i] = r],
         NEW q \in Runners, NEW j \in Instances, Held(q, j)
  PROVE  status'[j] = "running" /\ holder'[j] = q
<1>1. /\ status'[j] = IF j = i THEN "running" ELSE status[j]
      /\ holder'[j] = IF j = i THEN r ELSE holder[j]
  BY DEF TypeInv, TypeOK
<1>2. j = i => q = r
  BY DEF Held, Claimable
<1> QED BY <1>1, <1>2 DEF Held

\* A coroutine that ends while it waits for no lock.
LEMMA FinishAlone ==
  ASSUME TurnInv, Alone, NEW t \in Tasks, Finish(t), UNCHANGED lockq,
         task[t].pc \notin {"lock", "stoplock"}, Around, Calm
  PROVE  Alone'
<1>1. NoTask.pc = "none"
  BY DEF NoTask
<1>2. Sits(t, NoTask)
  BY <1>1 DEF Sits, Lives, TurnSeats
<1>3. QueueTo(t, NoTask) /\ LeavesNobody(t)
  BY <1>1, NoQueue
<1> QED BY <1>2, <1>3, BecomeAlone DEF Finish

\* A coroutine that stands where no LocalInstance matters.
LEMMA StandsAlone ==
  ASSUME TurnInv, Alone, NEW t \in Tasks, NEW d, Become(t, d), UNCHANGED lockq,
         task[t].pc \notin {"lock", "stoplock"},
         d.pc \notin {"lock", "stoplock"} \cup TurnSeats,
         d.pc = "begin" => d.kind # "event",
         Lives(d) => up[d.run], Around, Calm
  PROVE  Alone'
<1>1. Sits(t, d)
  BY DEF Sits
<1>2. QueueTo(t, d) /\ LeavesNobody(t)
  BY NoQueue
<1> QED BY <1>1, <1>2, BecomeAlone

\* asyncio.Lock.acquire on a LocalInstance that is raised.
LEMMA TakeLockAlone ==
  ASSUME TurnInv, Alone, NEW t \in Tasks, task[t].pc \notin {"lock", "stoplock"},
         NEW c \in Coroutine, NEW o \in Objects, up[c.run],
         local'[c.run][c.ins] = o, Stopping(o) = {},
         TakeLock(t, c, o, "context", "lock"), Around, Calm
  PROVE  Alone'
<1>0. lockq \in [Objects -> Seq(Tasks)] /\ o # None
  BY RunnerAssumption DEF TurnInv, TypeInv, TypeOK, RunnerAssumption
<1>1. CASE Become(t, [c EXCEPT !.pc = "context", !.obj = o]) /\ UNCHANGED lockq
  <2> DEFINE d == [c EXCEPT !.pc = "context", !.obj = o]
  <2>1. d.pc = "context" /\ d.obj = o /\ d.run = c.run /\ d.ins = c.ins /\ Become(t, d)
    BY <1>1, Moved
  <2> HIDE DEF d
  <2>2. Sits(t, d)
    BY <1>0, <2>1 DEF Sits
  <2>3. QueueTo(t, d) /\ LeavesNobody(t)
    BY <1>1, <2>1, NoQueue
  <2> QED BY <2>1, <2>2, <2>3, BecomeAlone
<1>2. CASE /\ lockq' = [lockq EXCEPT ![o] = Append(@, t)]
           /\ Become(t, [c EXCEPT !.pc = "lock", !.obj = o])
  <2> DEFINE d == [c EXCEPT !.pc = "lock", !.obj = o]
  <2>1. d.pc = "lock" /\ d.obj = o /\ d.run = c.run /\ d.ins = c.ins /\ Become(t, d)
    BY <1>2, Moved
  <2> HIDE DEF d
  <2>2. Sits(t, d)
    BY <1>0, <2>1 DEF Sits
  <2>3. ASSUME NEW p \in Objects
        PROVE  \/ lockq'[p] = lockq[p] /\ (Waits(d, p) <=> Waits(task[t], p))
               \/ /\ ~ Waits(task[t], p) /\ Waits(d, p) /\ Stopping(p) = {}
                  /\ lockq'[p] = Append(lockq[p], t)
    <3>1. lockq'[p] = IF p = o THEN Append(lockq[p], t) ELSE lockq[p]
      BY <1>0, <1>2
    <3>2. ~ Waits(task[t], p) /\ (Waits(d, p) <=> p = o)
      BY <2>1 DEF Waits
    <3> QED BY <3>1, <3>2
  <2>4. QueueTo(t, d) /\ LeavesNobody(t)
    BY <2>3 DEF QueueTo, LeavesNobody
  <2> QED BY <2>1, <2>2, <2>4, BecomeAlone
<1> QED BY <1>1, <1>2 DEF TakeLock

\* _raise returned a LocalInstance that is raised.
LEMMA AttachAlone ==
  ASSUME OneSlot, TurnInv, Alone, NEW t \in Tasks, task[t].pc \notin {"lock", "stoplock"},
         NEW c \in Coroutine, NEW o \in Objects, up[c.run],
         local'[c.run][c.ins] = o, Stopping(o) = {}, Attach(t, c, o), Around
  PROVE  Alone'
<1>0. /\ idle \in [Objects -> BOOLEAN] /\ o # None /\ hubCalls = {}
      /\ idle' = [idle EXCEPT ![o] = FALSE]
  BY RunnerAssumption DEF TurnInv, TypeInv, TypeOK, RunnerAssumption, Attach, Touch, Alone, Quiet
<1>1. Answer(c) = {}
  BY DEF Answer, OneSlot
<1>2. Calm /\ ~ idle'[o]
  <2>1. hubCalls' = {}
    BY <1>0, <1>1 DEF Attach
  <2> QED BY <1>0, <2>1 DEF Calm
<1>3. CASE c.kind = "event" /\ Become(t, [c EXCEPT !.pc = "begin", !.obj = o]) /\ UNCHANGED lockq
  <2> DEFINE d == [c EXCEPT !.pc = "begin", !.obj = o]
  <2>1. d.pc = "begin" /\ d.obj = o /\ d.run = c.run /\ d.ins = c.ins /\ Become(t, d)
    BY <1>3, Moved
  <2> HIDE DEF d
  <2>2. Sits(t, d)
    BY <1>0, <1>2, <2>1 DEF Sits, TurnSeats
  <2>3. QueueTo(t, d) /\ LeavesNobody(t)
    BY <1>3, <2>1, NoQueue
  <2> QED BY <1>2, <2>1, <2>2, <2>3, BecomeAlone
<1>4. CASE TakeLock(t, c, o, "context", "lock")
  BY <1>2, <1>4, TakeLockAlone
<1>5. CASE /\ Become(t, [c EXCEPT !.pc = IF TermHeld(o) THEN "termwait" ELSE "term",
                                  !.obj = o])
           /\ UNCHANGED lockq
  <2> DEFINE pc == IF TermHeld(o) THEN "termwait" ELSE "term"
             d == [c EXCEPT !.pc = pc, !.obj = o]
  <2>1. pc \in {"termwait", "term"} /\ Become(t, d)
    BY <1>5
  <2> HIDE DEF pc
  <2>2. d.pc = pc /\ d.run = c.run
    BY Moved
  <2> HIDE DEF d
  <2> QED BY <1>2, <1>5, <2>1, <2>2, StandsAlone DEF TurnSeats
<1>6. CASE Finish(t) /\ UNCHANGED lockq
  BY <1>2, <1>6, FinishAlone
<1> QED BY <1>3, <1>4, <1>5, <1>6 DEF Attach

\* _raise up to its first await.
LEMMA EnterRaiseAlone ==
  ASSUME OneSlot, SlotInv, TurnInv, Alone, NEW t \in Tasks,
         task[t].pc \notin {"lock", "stoplock"},
         NEW c \in Coroutine, c.run \in Runners, c.ins \in Instances, up[c.run],
         EnterRaise(t, c), UNCHANGED <<up, sweep, local, status, holder>>
  PROVE  Alone'
<1>0. Around
  BY AroundSame
<1>1. CASE local[c.run][c.ins] # None /\ Attach(t, c, local[c.run][c.ins])
  <2>1. local[c.run][c.ins] \in Objects
    BY <1>1 DEF TurnInv, TypeInv, TypeOK
  <2>2. Stopping(local[c.run][c.ins]) = {}
    BY <1>1, RaisedUnstopped
  <2> QED BY <1>0, <1>1, <2>1, <2>2, AttachAlone
<1>2. ASSUME NEW pc \in {"raise", "slot"}, Become(t, [c EXCEPT !.pc = pc]),
             UNCHANGED <<objVars, hubCalls>>
      PROVE  Alone'
  <2> DEFINE d == [c EXCEPT !.pc = pc]
  <2>1. d.pc = pc /\ d.run = c.run /\ Become(t, d)
    BY <1>2, Moved
  <2> HIDE DEF d
  <2>2. Calm
    BY <1>2 DEF Calm, objVars, Alone, Quiet
  <2> QED BY <1>0, <1>2, <2>1, <2>2, StandsAlone DEF TurnSeats, objVars
<1> QED BY <1>1, <1>2 DEF EnterRaise

\* handle_event up to its first await.
LEMMA HandleEventAlone ==
  ASSUME TurnInv, Alone, NEW t \in Tasks, task[t].pc \notin {"lock", "stoplock"},
         NEW r \in Runners, NEW i \in Instances, NEW k \in Keys, up[r],
         HandleEvent(t, r, i, k),
         UNCHANGED <<up, sweep, local, status, holder, lockq, hubCalls>>
  PROVE  Alone'
<1>0. Around /\ hubCalls' = {}
  BY AroundSame DEF Alone, Quiet
<1>1. CASE Become(t, [NewTask("skip", r, i, k) EXCEPT !.pc = "begin"]) /\ UNCHANGED idle
  <2> DEFINE d == [NewTask("skip", r, i, k) EXCEPT !.pc = "begin"]
  <2>1. d.pc = "begin" /\ d.kind = "skip" /\ d.run = r /\ Become(t, d) /\ Calm
    BY <1>0, <1>1 DEF NewTask, Calm
  <2> HIDE DEF d
  <2> QED BY <1>0, <2>1, StandsAlone DEF TurnSeats
<1>2. CASE /\ local[r][i] # None
           /\ Become(t, [NewTask("event", r, i, k) EXCEPT !.pc = "begin", !.obj = local[r][i]])
           /\ Touch(local[r][i])
  <2> DEFINE d == [NewTask("event", r, i, k) EXCEPT !.pc = "begin", !.obj = local[r][i]]
  <2>1. /\ d.pc = "begin" /\ d.run = r /\ d.ins = i /\ d.obj = local[r][i] /\ Become(t, d)
    BY <1>2 DEF NewTask
  <2> HIDE DEF d
  <2>2. local[r][i] \in Objects /\ idle \in [Objects -> BOOLEAN]
    BY <1>2 DEF TurnInv, TypeInv, TypeOK
  <2>3. Calm /\ ~ idle'[d.obj]
    BY <1>0, <1>2, <2>1, <2>2 DEF Touch, Calm
  <2>4. Sits(t, d)
    BY <1>2, <2>1, <2>3 DEF Sits, TurnSeats
  <2>5. QueueTo(t, d) /\ LeavesNobody(t)
    BY <2>1, NoQueue
  <2> QED BY <1>0, <2>1, <2>3, <2>4, <2>5, BecomeAlone
<1>3. CASE Become(t, [NewTask("event", r, i, k) EXCEPT !.pc = "peek"]) /\ UNCHANGED idle
  <2> DEFINE d == [NewTask("event", r, i, k) EXCEPT !.pc = "peek"]
  <2>1. d.pc = "peek" /\ d.run = r /\ Become(t, d) /\ Calm
    BY <1>0, <1>3 DEF NewTask, Calm
  <2> HIDE DEF d
  <2> QED BY <1>0, <2>1, StandsAlone DEF TurnSeats
<1> QED BY <1>1, <1>2, <1>3 DEF HandleEvent

\* Moving on, outside the lock and its queue.
LEMMA GotoAlone ==
  ASSUME TurnInv, Alone, NEW t \in Tasks, NEW pc, Goto(t, pc), Lives(task[t]),
         task[t].pc \notin {"lock", "stoplock"},
         pc \notin {"lock", "stoplock", "begin"} \cup TurnSeats,
         UNCHANGED <<up, sweep, local, status, holder, lockq, hubCalls>>,
         \A o \in Objects : idle'[o] => idle[o]
  PROVE  Alone'
<1> DEFINE d == [task[t] EXCEPT !.pc = pc]
<1>1. d.pc = pc /\ d.run = task[t].run /\ Become(t, d)
  BY TurnFacts, Moved DEF Goto
<1> HIDE DEF d
<1>2. up[d.run] /\ Around /\ Calm
  BY <1>1, AroundSame DEF Alone, Alive, Calm, Quiet
<1> QED BY <1>1, <1>2, StandsAlone

-----------------------------------------------------------------------------
(* One step per action.                                                      *)

\* handle_event and the dedup check.
LEMMA EventStepsAlone ==
  ASSUME OneSlot, SlotInv, TurnInv, Alone, NEW t \in Tasks,
         \/ PeekHolder(t) \/ Forward(t) \/ BeginEvent(t) \/ MarkProcessed(t)
  PROVE  Alone'
<1> USE DEF dbVars, semVars, objVars
<1>0. /\ task[t] \in Coroutine /\ WellFormed(task[t])
      /\ task[t].run \in Runners /\ task[t].ins \in Instances
      /\ task[t].kind \in {"event", "skip"} /\ task[t].key \in Keys
      /\ task[t].pc \notin {"lock", "stoplock"}
      /\ task[t].pc # "forward" => Lives(task[t]) /\ up[task[t].run]
      /\ idle \in [Objects -> BOOLEAN] /\ hubCalls = {}
  <2>1. task[t] \in Coroutine /\ WellFormed(task[t]) /\ idle \in [Objects -> BOOLEAN]
    BY TurnFacts DEF TypeInv, TypeOK
  <2>2. task[t].pc \in {"peek", "forward", "begin", "mark"}
    BY DEF PeekHolder, Forward, BeginEvent, MarkProcessed, At
  <2>3. task[t] # NoTask
    BY <2>2 DEF NoTask
  <2> QED BY <2>1, <2>2, <2>3 DEF WellFormed, Alone, Alive, Lives, Quiet
<1>1. CASE PeekHolder(t)
  <2>0. UNCHANGED <<up, sweep, local, status, holder>> /\ task[t].pc = "peek"
    BY <1>1 DEF PeekHolder, At
  <2>1. CASE /\ Become(t, [task[t] EXCEPT !.pc = "forward", !.run = holder[task[t].ins]])
             /\ UNCHANGED <<semVars, objVars, hubCalls>>
    <3> DEFINE d == [task[t] EXCEPT !.pc = "forward", !.run = holder[task[t].ins]]
    <3>1. d.pc = "forward" /\ Become(t, d)
      BY <1>0, <2>1 DEF Coroutine
    <3> HIDE DEF d
    <3>2. Around /\ Calm
      BY <1>0, <2>0, <2>1, AroundSame DEF Calm
    <3> QED BY <1>0, <2>1, <3>1, <3>2, StandsAlone DEF Lives, TurnSeats
  <2>2. CASE EnterRaise(t, task[t])
    BY <1>0, <2>0, <2>2, EnterRaiseAlone
  <2> QED BY <1>1, <2>1, <2>2 DEF PeekHolder
<1>2. CASE Forward(t)
  <2>0. UNCHANGED <<up, sweep, local, status, holder, lockq, hubCalls>>
    BY <1>2 DEF Forward
  <2>1. CASE up[task[t].run] /\ HandleEvent(t, task[t].run, task[t].ins, task[t].key)
    BY <1>0, <2>0, <2>1, HandleEventAlone
  <2>2. CASE Finish(t) /\ UNCHANGED idle
    <3>1. Around /\ Calm
      BY <1>0, <2>0, <2>2, AroundSame DEF Calm
    <3> QED BY <1>0, <2>0, <2>2, <3>1, FinishAlone
  <2> QED BY <1>2, <2>1, <2>2 DEF Forward
<1>3. CASE BeginEvent(t)
  <2>0. UNCHANGED <<up, sweep, local, status, holder, hubCalls>> /\ task[t].pc = "begin"
    BY <1>3 DEF BeginEvent, At
  <2>0a. Around
    BY <2>0, AroundSame
  <2>1. CASE Finish(t) /\ UNCHANGED <<locked, lockq>>
             /\ idle' = [o \in Objects |-> IF o = task[t].obj THEN FALSE ELSE idle[o]]
    <3>1. Calm
      BY <1>0, <2>0, <2>1 DEF Calm
    <3> QED BY <1>0, <2>0a, <2>1, <3>1, FinishAlone
  <2>2. CASE Goto(t, "mark") /\ UNCHANGED objVars
    BY <1>0, <2>0, <2>2, GotoAlone DEF TurnSeats
  <2>3. CASE /\ task[t].kind = "event"
             /\ TakeLock(t, task[t], task[t].obj, "context", "lock")
             /\ idle' = [idle EXCEPT ![task[t].obj] = @ /\ ~LockFree(task[t].obj)]
    <3> DEFINE o == task[t].obj
    <3>1. local[task[t].run][task[t].ins] = o /\ o # None /\ o \in Objects
      BY <1>0, <2>0, <2>3, Placed DEF Alone, Seats, Fresh
    <3>2. Stopping(o) = {}
      BY <1>0, <3>1, RaisedUnstopped
    <3>3. Calm
      BY <1>0, <2>0, <2>3, <3>1 DEF Calm
    <3> QED BY <1>0, <2>0, <2>0a, <2>3, <3>1, <3>2, <3>3, TakeLockAlone
  <2> QED BY <1>3, <2>1, <2>2, <2>3 DEF BeginEvent
<1>4. CASE MarkProcessed(t)
  <2>0. /\ UNCHANGED <<up, sweep, local, status, holder, lockq, hubCalls>> /\ Finish(t)
        /\ idle' = [o \in Objects |-> IF o = task[t].obj THEN FALSE ELSE idle[o]]
    BY <1>4 DEF MarkProcessed
  <2>1. Around /\ Calm
    BY <1>0, <2>0, AroundSame DEF Calm
  <2> QED BY <1>0, <2>0, <2>1, FinishAlone
<1> QED BY <1>1, <1>2, <1>3, <1>4

\* _raise; a claim that succeeds makes its runner the holder.
LEMMA RaiseStepsAlone ==
  ASSUME OneSlot, SlotInv, TurnInv, Alone, NEW t \in Tasks,
         \/ SlotGranted(t) \/ RaiseLocked(t) \/ ClaimInstance(t) \/ ClaimRefused(t)
         \/ ReadHolder(t)
  PROVE  Alone'
<1> USE DEF dbVars, semVars, objVars
<1> DEFINE r == task[t].run
           i == task[t].ins
<1>0. /\ task[t] \in Coroutine /\ r \in Runners /\ i \in Instances
      /\ task[t].pc \notin {"lock", "stoplock"} /\ Lives(task[t]) /\ up[r]
      /\ hubCalls = {}
  <2>1. task[t].pc \in {"slot", "raise", "claim", "refused"}
    BY DEF SlotGranted, RaiseLocked, ClaimInstance, ClaimRefused, ReadHolder, At
  <2>2. task[t].pc # "none" /\ Lives(task[t])
    BY <2>1 DEF Lives
  <2> QED BY <2>1, <2>2, Placed, TurnFacts DEF Alone, Alive, Quiet
<1>1. CASE SlotGranted(t)
  BY <1>0, <1>1, GotoAlone DEF SlotGranted, TurnSeats
<1>2. CASE RaiseLocked(t)
  <2>0. UNCHANGED <<up, sweep, local, status, holder>>
    BY <1>2 DEF RaiseLocked
  <2>1. CASE local[r][i] # None /\ Attach(t, task[t], local[r][i])
    <3>1. local[r][i] \in Objects
      BY <1>0, <2>1 DEF TurnInv, TypeInv, TypeOK
    <3>2. Stopping(local[r][i]) = {} /\ Around
      BY <1>0, <2>0, <2>1, RaisedUnstopped, AroundSame
    <3>3. local'[r][i] = local[r][i]
      BY <2>0
    <3> HIDE DEF r, i
    <3> QED BY <1>0, <2>1, <3>1, <3>2, <3>3, AttachAlone DEF r, i
  <2>2. CASE Goto(t, "claim") /\ UNCHANGED <<objVars, hubCalls>>
    BY <1>0, <2>0, <2>2, GotoAlone DEF TurnSeats
  <2> QED BY <1>2, <2>1, <2>2 DEF RaiseLocked
<1>3. CASE ClaimRefused(t)
  BY <1>0, <1>3, GotoAlone DEF ClaimRefused, TurnSeats
<1>4. CASE ReadHolder(t)
  <2>0. UNCHANGED <<up, sweep, local, status, holder, objVars, hubCalls>>
    BY <1>4 DEF ReadHolder
  <2>0a. Around /\ Calm
    BY <1>0, <2>0, AroundSame DEF Calm
  <2>1. CASE Become(t, [task[t] EXCEPT !.pc = "forward", !.run = holder[i]])
    <3> DEFINE d == [task[t] EXCEPT !.pc = "forward", !.run = holder[i]]
    <3>1. d.pc = "forward" /\ Become(t, d)
      BY <1>0, <2>1 DEF Coroutine
    <3> HIDE DEF d
    <3> QED BY <1>0, <2>0, <2>0a, <3>1, StandsAlone DEF Lives, TurnSeats
  <2>2. CASE Finish(t)
    BY <1>0, <2>0, <2>0a, <2>2, FinishAlone
  <2> QED BY <1>4, <2>1, <2>2 DEF ReadHolder
<1>5. CASE ClaimInstance(t)
  <2> DEFINE o == NewObject
  <2>1. /\ o \in Objects /\ Unused(o) /\ Attach(t, task[t], o)
        /\ local' = [local EXCEPT ![r][i] = o]
        /\ status' = [status EXCEPT ![i] = "running"]
        /\ holder' = [holder EXCEPT ![i] = r]
        /\ Claimable(i, r) /\ task[t].pc = "claim"
        /\ UNCHANGED <<up, sweep>>
    BY <1>5 DEF ClaimInstance, NewObject, At
  <2> HIDE DEF o
  <2>2. Stopping(o) = {}
    BY <2>1 DEF Unused, Stopping, Stops
  <2>3. local[r][i] = None
    BY <2>1 DEF SlotInv, ClaimInv, Claiming
  <2>4. /\ local'[r][i] = o
        /\ \A q \in Runners, j \in Instances : local'[q][j] = local[q][j] \/ (q = r /\ j = i)
        /\ status'[i] = "running" /\ holder'[i] = r
    BY <1>0, <2>1 DEF TurnInv, TypeInv, TypeOK
  <2>5. \A q \in Runners, j \in Instances : Held(q, j) => status'[j] = "running" /\ holder'[j] = q
    <3>1. TypeInv
      BY DEF TurnInv
    <3> QED BY <1>0, <2>1, <3>1, ClaimKeepsRows
  <2>6. Around
    BY <1>0, <2>1, <2>3, <2>4, <2>5 DEF Around, Alone, Quiet
  <2> QED BY <1>0, <2>1, <2>2, <2>4, <2>6, AttachAlone
<1> QED BY <1>1, <1>2, <1>3, <1>4, <1>5

\* A lock that its waiter gets: a stop that gets it stood last, so nobody is
\* left who waits.
LEMMA GrantedAlone ==
  ASSUME TurnInv, Alone, NEW t \in Tasks, LockGranted(t)
  PROVE  Alone'
<1> DEFINE o == task[t].obj
<1>0. /\ task[t].pc \in {"lock", "stoplock"}
      /\ locked[o] = None /\ lockq[o] # <<>> /\ Head(lockq[o]) = t
      /\ lockq' = [lockq EXCEPT ![o] = Tail(@)]
      /\ UNCHANGED <<up, sweep, local, status, holder, hubCalls>>
  BY DEF LockGranted, dbVars
<1>1. /\ task[t] \in Coroutine /\ o \in Objects /\ None \notin Tasks
      /\ lockq \in [Objects -> Seq(Tasks)] /\ idle \in [Objects -> BOOLEAN]
      /\ up[task[t].run] /\ hubCalls = {}
  <2>1. task[t].pc # "none" /\ Lives(task[t])
    BY <1>0 DEF Lives
  <2>2. o # None
    BY <1>0 DEF Alone, Seats, Seated, TurnSeats, Popped
  <2>3. o \in Objects \cup {None} /\ task[t] \in Coroutine
    BY <2>1, Placed, TurnFacts
  <2>4. lockq \in [Objects -> Seq(Tasks)] /\ idle \in [Objects -> BOOLEAN] /\ None \notin Tasks
    BY RunnerAssumption DEF TurnInv, TypeInv, TypeOK, RunnerAssumption
  <2> QED BY <2>1, <2>2, <2>3, <2>4 DEF Alone, Alive, Quiet
<1>2. Around
  BY <1>0, AroundSame
<1>3. ASSUME NEW d, d.obj = o, d.pc \in {"context", "release"}
      PROVE  QueueTo(t, d)
  <2> SUFFICES ASSUME NEW p \in Objects
               PROVE  \/ lockq'[p] = lockq[p] /\ (Waits(d, p) <=> Waits(task[t], p))
                      \/ /\ Waits(task[t], p) /\ ~ Waits(d, p)
                         /\ lockq[p] # <<>> /\ Head(lockq[p]) = t /\ lockq'[p] = Tail(lockq[p])
    BY DEF QueueTo
  <2>1. lockq'[p] = IF p = o THEN Tail(lockq[p]) ELSE lockq[p]
    BY <1>0, <1>1
  <2>2. ~ Waits(d, p) /\ (Waits(task[t], p) <=> p = o)
    BY <1>0, <1>3 DEF Waits
  <2> QED BY <1>0, <2>1, <2>2
<1>4. CASE At(t, "lock") /\ Goto(t, "context") /\ Touch(o)
  <2> DEFINE d == [task[t] EXCEPT !.pc = "context"]
  <2>1. /\ d.pc = "context" /\ d.obj = o /\ d.run = task[t].run /\ d.ins = task[t].ins
        /\ Become(t, d) /\ task[t].pc = "lock"
    BY <1>1, <1>4, Moved DEF Goto, At
  <2> HIDE DEF d
  <2>2. Calm
    BY <1>0, <1>1, <1>4 DEF Calm, Touch
  <2>3. /\ o # None
        /\ \/ local[task[t].run][task[t].ins] = o
           \/ \E x \in Tasks : Stops(task[x], o)
    BY <2>1 DEF Alone, Seats, Seated, TurnSeats
  <2>4. ~ Stops(task[t], o)
    BY <2>1 DEF Stops
  <2>5. Sits(t, d)
    BY <1>0, <1>1, <2>1, <2>3, <2>4 DEF Sits, TurnSeats
  <2>6. LeavesNobody(t)
    BY <2>1 DEF LeavesNobody
  <2> QED BY <1>2, <1>3, <2>1, <2>2, <2>5, <2>6, BecomeAlone
<1>5. CASE At(t, "stoplock") /\ Goto(t, "release") /\ UNCHANGED idle
  <2> DEFINE d == [task[t] EXCEPT !.pc = "release"]
  <2>1. /\ d.pc = "release" /\ d.obj = o /\ d.run = task[t].run
        /\ Become(t, d) /\ task[t].pc = "stoplock"
    BY <1>1, <1>5, Moved DEF Goto, At
  <2> HIDE DEF d
  <2>2. Calm
    BY <1>0, <1>1, <1>5 DEF Calm
  <2>3. Sits(t, d)
    BY <1>1, <2>1 DEF Sits, TurnSeats
  <2>4. ASSUME NEW x \in Tasks, task[x].pc \in TurnSeats, task[x].obj = o
        PROVE  FALSE
    <3>1. LineUp(lockq[o], Waiting(o), Stopping(o)) /\ t \in Stopping(o)
      BY <1>1, <2>1 DEF Alone, Queued, Stopping, Stops
    <3>2. CASE task[x].pc = "lock"
      <4> DEFINE q == lockq[o]
      <4>1. q[Len(q)] = t /\ Len(q) > 0 /\ q \in Seq(Tasks)
        BY <3>1 DEF LineUp
      <4>2. q[1] = t
        BY <1>0, <4>1
      <4>3. Len(q) = 1
        <5>1. 1 \in 1 .. Len(q) /\ Len(q) \in 1 .. Len(q)
          BY <4>1
        <5>2. \A m, n \in 1 .. Len(q) : q[m] = q[n] => m = n
          BY <3>1 DEF LineUp
        <5> QED BY <4>1, <4>2, <5>1, <5>2
      <4>4. x \in Waiting(o)
        BY <2>4, <3>2 DEF Waiting, Waits
      <4>5. PICK n \in 1 .. Len(q) : q[n] = x
        BY <3>1, <4>4 DEF LineUp
      <4> HIDE DEF q
      <4>6. x = t
        BY <4>2, <4>3, <4>5
      <4> QED BY <2>1, <3>2, <4>6
    <3>3. CASE task[x].pc # "lock"
      <4>1. In(task[x], o)
        BY <2>4, <3>3 DEF In, TurnSeats, LockPCs
      <4>2. locked[o] = x
        BY <1>1, <4>1, TurnFacts
      <4> QED BY <1>0, <1>1, <4>2
    <3> QED BY <3>2, <3>3
  <2>5. LeavesNobody(t)
    BY <2>4 DEF LeavesNobody
  <2> QED BY <1>2, <1>3, <2>1, <2>2, <2>3, <2>5, BecomeAlone
<1> QED BY <1>4, <1>5 DEF LockGranted

\* The release of the instance an idle pass stopped: its runner owns the one
\* permit, so it keeps no other instance and gives up no row but that one.
LEMMA ReleaseKeepsRows ==
  ASSUME OneSlot, SlotInv, TurnInv, NEW t \in Tasks, task[t].pc = "release",
         Releases(task[t].ins, task[t].run),
         NEW q \in Runners, NEW j \in Instances, Kept(q, j), Held(q, j)
  PROVE  status'[j] = "running" /\ holder'[j] = q
<1> DEFINE r == task[t].run
           i == task[t].ins
           mine == status[i] = "running" /\ holder[i] = r
<1>0. r \in Runners /\ i \in Instances /\ TypeInv
  BY Placed DEF TurnInv
<1>1. Owns(task[t], r)
  BY DEF Owns, SlotPCs
<1>2. ~ Kept(r, j)
  <2> SUFFICES ASSUME Kept(r, j)
               PROVE  FALSE
    OBVIOUS
  <2>1. local[r][j] = None
    BY <1>0, <1>1, OneTenant
  <2>2. PICK x \in Tasks : StoppedBy(task[x], r, j)
    BY <2>1 DEF Kept
  <2>3. Owns(task[x], r) /\ task[x].pc = "stoplock"
    BY <2>2 DEF StoppedBy, Owns, SlotPCs
  <2>4. x = t
    <3> HIDE DEF r
    <3> QED BY <1>0, <1>1, <2>3, OneTenant DEF r
  <2> QED BY <2>3, <2>4
<1>3. q # r
  BY <1>2
<1>4. ~ (j = i /\ mine)
  BY <1>3 DEF Held
<1>5. status'[j] = status[j] /\ holder'[j] = holder[j]
  <2>1. /\ status' = [status EXCEPT ![i] = IF mine THEN "down" ELSE @]
        /\ holder' = [holder EXCEPT ![i] = IF mine THEN None ELSE @]
    BY DEF Releases
  <2> HIDE DEF mine, i
  <2> QED BY <1>0, <1>4, <2>1 DEF TypeInv, TypeOK
<1> QED BY <1>5 DEF Held

\* Turns, console commands, and the release of an instance.
LEMMA TurnStepsAlone ==
  ASSUME OneSlot, SlotInv, TurnInv, Alone, NEW t \in Tasks,
         \/ TurnStarts(t) \/ TurnCompletes(t) \/ TurnFails(t)
         \/ TermGranted(t) \/ TermDone(t) \/ ReleaseInstance(t)
  PROVE  Alone'
<1> USE DEF dbVars, semVars, objVars
<1>0. /\ task[t] \in Coroutine /\ Lives(task[t]) /\ up[task[t].run]
      /\ task[t].run \in Runners /\ task[t].ins \in Instances
      /\ task[t].pc \notin {"lock", "stoplock"}
      /\ idle \in [Objects -> BOOLEAN] /\ hubCalls = {}
  <2>1. task[t].pc \in {"context", "turn", "cancel", "termwait", "term", "release"}
    BY DEF TurnStarts, TurnCompletes, TurnFails, TermGranted, TermDone, ReleaseInstance, At
  <2>2. task[t].pc # "none" /\ Lives(task[t])
    BY <2>1 DEF Lives
  <2>3. idle \in [Objects -> BOOLEAN] /\ hubCalls = {}
    BY DEF TurnInv, TypeInv, TypeOK, Alone, Quiet
  <2> QED BY <2>1, <2>2, <2>3, Placed, TurnFacts DEF Alone, Alive
<1>1. ASSUME Finish(t), UNCHANGED <<up, sweep, local, status, holder, lockq, hubCalls>>,
             \A o \in Objects : idle'[o] => idle[o]
      PROVE  Alone'
  <2>1. Around /\ Calm
    BY <1>0, <1>1, AroundSame DEF Calm
  <2> QED BY <1>0, <1>1, <2>1, FinishAlone
<1>2. CASE TurnStarts(t)
  <2> DEFINE d == [task[t] EXCEPT !.pc = "turn"]
  <2>1. /\ d.pc = "turn" /\ d.obj = task[t].obj /\ d.run = task[t].run /\ d.ins = task[t].ins
        /\ Become(t, d) /\ task[t].pc = "context"
        /\ UNCHANGED <<up, sweep, local, status, holder, lockq, hubCalls, idle>>
    BY <1>0, <1>2, Moved DEF TurnStarts, Goto, At
  <2> HIDE DEF d
  <2>2. Around /\ Calm
    BY <1>0, <2>1, AroundSame DEF Calm
  <2>3. /\ d.obj # None
        /\ \/ local[d.run][d.ins] = d.obj
           \/ \E x \in Tasks \ {t} : Stops(task[x], d.obj)
    BY <2>1 DEF Alone, Seats, Seated, TurnSeats, Stops
  <2>4. Sits(t, d)
    BY <1>0, <2>1, <2>3 DEF Sits
  <2>5. QueueTo(t, d) /\ LeavesNobody(t)
    BY <2>1, NoQueue
  <2> QED BY <2>1, <2>2, <2>4, <2>5, BecomeAlone
<1>3. CASE TurnCompletes(t)
  <2>1. CASE Goto(t, "mark") /\ UNCHANGED <<locked, idle>>
    BY <1>0, <1>3, <2>1, GotoAlone DEF TurnCompletes, TurnSeats
  <2>2. CASE Finish(t) /\ Touch(task[t].obj)
    BY <1>0, <1>1, <1>3, <2>2 DEF TurnCompletes, Touch
  <2> QED BY <1>3, <2>1, <2>2 DEF TurnCompletes
<1>4. CASE TurnFails(t)
  BY <1>1, <1>4 DEF TurnFails
<1>5. CASE TermGranted(t)
  <2>1. \A o \in Objects : idle'[o] => idle[o]
    BY <1>0, <1>5 DEF TermGranted, Touch
  <2> QED BY <1>0, <1>5, <2>1, GotoAlone DEF TermGranted, TurnSeats
<1>6. CASE TermDone(t)
  <2>1. \A o \in Objects : idle'[o] => idle[o]
    BY <1>0, <1>6 DEF TermDone, Touch
  <2> QED BY <1>1, <1>6, <2>1 DEF TermDone
<1>7. CASE ReleaseInstance(t)
  <2> DEFINE r == task[t].run
  <2>0. task[t].pc = "release" /\ UNCHANGED <<up, hubCalls, idle>> /\ Releases(task[t].ins, r)
    BY <1>7 DEF ReleaseInstance, At
  <2>1. Finish(t) /\ UNCHANGED <<local, lockq>> /\ \A q \in Runners : sweep'[q] = {}
    <3>1. sweep[r] = {} /\ \A q \in Runners : sweep[q] = {}
      BY <1>0 DEF Alone, Quiet
    <3>2. CASE Finish(t) /\ UNCHANGED <<local, lockq, sweep>>
      BY <3>1, <3>2
    <3>3. CASE UnloadNext(t, r, sweep[r], [locked EXCEPT ![task[t].obj] = None])
      <4>1. Finish(t) /\ UNCHANGED <<local, lockq>> /\ sweep' = [sweep EXCEPT ![r] = {}]
        BY <3>1, <3>3 DEF UnloadNext
      <4> QED BY <3>1, <4>1 DEF TurnInv, TypeInv, TypeOK
    <3> QED BY <1>7, <3>2, <3>3 DEF ReleaseInstance
  <2>2. Around
    BY <2>0, <2>1, ReleaseKeepsRows DEF Around
  <2>3. Calm
    BY <1>0, <2>0 DEF Calm
  <2> QED BY <1>0, <2>1, <2>2, <2>3, FinishAlone
<1> QED BY <1>2, <1>3, <1>4, <1>5, <1>6, <1>7

\* A client that goes away and a call that raises.
LEMMA FailureStepsAlone ==
  ASSUME OneSlot, SlotInv, TurnInv, Alone, NEW t \in Tasks, ClientGone(t) \/ StoreError(t)
  PROVE  Alone'
<1>0. /\ Finish(t) /\ UNCHANGED <<up, local, idle, hubCalls>>
      /\ \/ UNCHANGED <<status, holder>> \/ ClaimLands(t)
         \/ task[t].pc = "release" /\ Releases(task[t].ins, task[t].run)
      /\ \A q \in Runners : sweep'[q] = {}
  BY DEF ClientGone, StoreError, Alone, Quiet, At, dbVars
<1>1. ASSUME ClaimLands(t), NEW q \in Runners, NEW j \in Instances, Held(q, j)
      PROVE  status'[j] = "running" /\ holder'[j] = q
  <2>1. /\ Claimable(task[t].ins, task[t].run) /\ task[t].pc # "none"
        /\ status' = [status EXCEPT ![task[t].ins] = "running"]
        /\ holder' = [holder EXCEPT ![task[t].ins] = task[t].run]
    BY <1>1 DEF ClaimLands, At
  <2>2. task[t].run \in Runners /\ task[t].ins \in Instances /\ TypeInv
    BY <2>1, Placed DEF TurnInv
  <2> QED BY <1>1, <2>1, <2>2, ClaimKeepsRows
<1>2. Around
  <2>1. ASSUME NEW q \in Runners, NEW j \in Instances, Kept(q, j), Held(q, j)
        PROVE  status'[j] = "running" /\ holder'[j] = q
    BY <1>0, <1>1, <2>1, ReleaseKeepsRows DEF Held
  <2> QED BY <1>0, <2>1 DEF Around
<1>3. Calm
  BY <1>0 DEF Calm, Alone, Quiet
<1>4. CASE task[t].pc \notin {"lock", "stoplock"} /\ UNCHANGED lockq
  BY <1>0, <1>2, <1>3, <1>4, FinishAlone
<1>5. CASE task[t].pc = "lock" /\ lockq' = [lockq EXCEPT ![task[t].obj] = Without(@, t)]
  <2> DEFINE o == task[t].obj
  <2>1. o \in Objects /\ lockq \in [Objects -> Seq(Tasks)]
    <3>1. task[t].pc # "none" /\ o # None
      BY <1>5 DEF Alone, Seats, Seated, TurnSeats
    <3> QED BY <3>1, Placed DEF TurnInv, TypeInv, TypeOK
  <2>2. NoTask.pc = "none"
    BY DEF NoTask
  <2>3. Sits(t, NoTask)
    BY <2>2 DEF Sits, Lives, TurnSeats
  <2>4. ASSUME NEW p \in Objects
        PROVE  \/ lockq'[p] = lockq[p] /\ (Waits(NoTask, p) <=> Waits(task[t], p))
               \/ /\ Waits(task[t], p) /\ ~ Waits(NoTask, p) /\ ~ Stops(task[t], p)
                  /\ lockq'[p] = Without(lockq[p], t)
    <3>1. lockq'[p] = IF p = o THEN Without(lockq[p], t) ELSE lockq[p]
      BY <1>5, <2>1
    <3>2. ~ Waits(NoTask, p) /\ ~ Stops(task[t], p) /\ (Waits(task[t], p) <=> p = o)
      BY <1>5, <2>2 DEF Waits, Stops
    <3> QED BY <3>1, <3>2
  <2>5. QueueTo(t, NoTask) /\ LeavesNobody(t)
    BY <1>5, <2>4 DEF QueueTo, LeavesNobody
  <2> QED BY <1>0, <1>2, <1>3, <2>3, <2>5, BecomeAlone DEF Finish
<1>6. \/ task[t].pc \notin {"lock", "stoplock"} /\ UNCHANGED lockq
      \/ task[t].pc = "lock" /\ lockq' = [lockq EXCEPT ![task[t].obj] = Without(@, t)]
  BY DEF ClientGone, StoreError, At
<1> QED BY <1>4, <1>5, <1>6

\* An idle pass stops the one instance of its runner: nobody is in its lock,
\* an Event that is about to ask for it would have made it not idle, and
\* whoever stands in its queue goes first.
LEMMA ReapAlone ==
  ASSUME OneSlot, SlotInv, TurnInv, Alone, NEW t \in Tasks, NEW r \in Runners, ReapIdle(t, r)
  PROVE  Alone'
<1> USE DEF dbVars, semVars
<1>0. /\ up[r] /\ task[t] = NoTask /\ UNCHANGED <<up, idle, hubCalls, status, holder>>
      /\ UnloadNext(t, r, Snapshot(r), locked)
      /\ \E p \in Snapshot(r) : Unloadable(r, p, locked)
  BY DEF ReapIdle
<1>1. PICK p \in Snapshot(r) :
        /\ Unloadable(r, p, locked)
        /\ StopInstance(t, r, p[1], "reap", locked)
        /\ \E rest \in SUBSET (Snapshot(r) \ {p}) : sweep' = [sweep EXCEPT ![r] = rest]
  BY <1>0 DEF UnloadNext
<1> DEFINE i == p[1]
           o == local[r][i]
           ready == locked[o] = None /\ lockq[o] = <<>>
           c == [NewTask("reap", r, i, None) EXCEPT !.obj = o,
                                                   !.pc = IF ready THEN "release" ELSE "stoplock"]
           victim(x) == x = locked[o] /\ At(x, "turn") /\ task[x].kind = "event"
<1>2. /\ i \in Instances /\ p[2] = o /\ o \in Objects /\ o # None
      /\ idle[o] /\ locked[o] = None
  BY <1>1 DEF Snapshot, Unloadable, StopInstance
<1>3. /\ task \in [Tasks -> Coroutine] /\ lockq \in [Objects -> Seq(Tasks)]
      /\ local \in [Runners -> [Instances -> Objects \cup {None}]]
      /\ sweep \in [Runners -> SUBSET (Instances \X Objects)]
      /\ None \notin Tasks
  BY RunnerAssumption DEF TurnInv, TypeInv, TypeOK, RunnerAssumption
<1>4. /\ c.obj = o /\ c.run = r /\ c.ins = i /\ c.kind = "reap"
      /\ c.pc = IF ready THEN "release" ELSE "stoplock"
  BY DEF NewTask
<1>5. task'[t] = c /\ \A x \in Tasks \ {t} : task'[x] = task[x]
  <2>1. \A x \in Tasks : ~ victim(x)
    BY <1>2, <1>3
  <2>2. task' = [x \in Tasks |-> IF x = t THEN c
                                 ELSE IF victim(x) THEN [task[x] EXCEPT !.pc = "cancel"]
                                 ELSE task[x]]
    BY <1>1 DEF StopInstance
  <2> HIDE DEF victim, c
  <2> QED BY <2>1, <2>2
<1>6. /\ local' = [local EXCEPT ![r][i] = None]
      /\ lockq' = IF ready THEN lockq ELSE [lockq EXCEPT ![o] = Append(@, t)]
  BY <1>1 DEF StopInstance
<1>7. /\ Stopping(o) = {} /\ task[t].pc = "none" /\ hubCalls = {}
  BY <1>0, <1>2, RaisedUnstopped DEF NoTask, Alone, Quiet
<1>8. /\ local'[r][i] = None
      /\ \A q \in Runners, j \in Instances : local'[q][j] = local[q][j] \/ (q = r /\ j = i)
  BY <1>2, <1>3, <1>6
<1>9. /\ ready => lockq'[o] = lockq[o] /\ lockq[o] = <<>>
      /\ ~ ready => lockq'[o] = Append(lockq[o], t)
      /\ \A x \in Objects \ {o} : lockq'[x] = lockq[x]
  BY <1>2, <1>3, <1>6
<1> HIDE DEF c, ready, i, o
<1>10. Queued'
  <2> SUFFICES ASSUME NEW x \in Objects
               PROVE  LineUp(lockq'[x], Waiting(x)', Stopping(x)')
    BY DEF Queued
  <2>0. LineUp(lockq[x], Waiting(x), Stopping(x)) /\ t \notin Waiting(x)
    BY <1>7 DEF Alone, Queued, Waiting, Waits
  <2>1. CASE x = o /\ ~ ready
    <3>1. Waiting(x)' = Waiting(x) \cup {t} /\ Stopping(x)' = {t}
      BY <1>4, <1>5, <1>7, <2>1 DEF Waiting, Waits, Stopping, Stops
    <3>2. LineUp(Append(lockq[x], t), Waiting(x) \cup {t}, {t})
      BY <2>0, LineUpAppend
    <3> QED BY <1>9, <2>1, <3>1, <3>2
  <2>2. CASE x # o \/ ready
    <3>1. Waiting(x)' = Waiting(x) /\ Stopping(x)' = Stopping(x)
      BY <1>4, <1>5, <1>7, <2>2 DEF Waiting, Waits, Stopping, Stops
    <3> QED BY <1>9, <2>0, <2>2, <3>1
  <2> QED BY <2>1, <2>2
<1>11. Quiet'
  <2>1. PICK rest \in SUBSET (Snapshot(r) \ {p}) : sweep' = [sweep EXCEPT ![r] = rest]
    BY <1>1
  <2>2. \A s \in Snapshot(r) : s = p
    <3>1. SUFFICES ASSUME NEW s \in Snapshot(r)
                   PROVE  s = p
      OBVIOUS
    <3>2. /\ s[1] \in Instances /\ local[r][s[1]] = s[2] /\ s[2] \in Objects /\ s = <<s[1], s[2]>>
          /\ local[r][p[1]] = p[2] /\ p[2] \in Objects /\ p = <<p[1], p[2]>> /\ p[1] \in Instances
      BY DEF Snapshot
    <3>3. local[r][s[1]] # None /\ local[r][p[1]] # None
      BY <3>2, RunnerAssumption DEF RunnerAssumption
    <3>4. s[1] = p[1]
      BY <3>2, <3>3, OneTenant
    <3> QED BY <3>2, <3>4
  <2>3. rest = {}
    BY <2>2
  <2>4. \A q \in Runners : sweep'[q] = {}
    BY <1>3, <2>1, <2>3 DEF Alone, Quiet
  <2> QED BY <1>0, <1>7, <2>4 DEF Quiet
<1>12. Alive'
  <2>1. \A x \in Tasks : Lives(task'[x]) => up'[task'[x].run]
    BY <1>0, <1>4, <1>5 DEF Alone, Alive
  <2>2. \A q \in Runners, j \in Instances : local'[q][j] # None => up'[q]
    BY <1>0, <1>8 DEF Alone, Alive
  <2> QED BY <2>1, <2>2 DEF Alive
<1>13. Rows'
  <2> SUFFICES ASSUME NEW q \in Runners, NEW j \in Instances, Kept(q, j)'
               PROVE  Held(q, j)
    BY <1>0 DEF Rows, Held
  <2>1. Kept(q, j)
    <3>1. CASE q = r /\ j = i
      BY <1>2, <3>1 DEF Kept, o
    <3>2. CASE ~ (q = r /\ j = i)
      <4>1. ~ StoppedBy(task'[t], q, j)
        BY <1>4, <1>5, <3>2 DEF StoppedBy
      <4> QED BY <1>5, <1>8, <3>2, <4>1 DEF Kept
    <3> QED BY <3>1, <3>2
  <2> QED BY <2>1 DEF Alone, Rows
<1>14. Seats'
  <2> SUFFICES ASSUME NEW x \in Tasks
               PROVE  Fresh(task[x])' /\ Seated(task[x])' /\ Popped(task[x])'
    BY DEF Seats
  <2>1. CASE x = t
    BY <1>2, <1>4, <1>5, <2>1 DEF Fresh, Seated, Popped, TurnSeats
  <2>2. CASE x # t
    <3>0. task'[x] = task[x] /\ Fresh(task[x]) /\ Seated(task[x]) /\ Popped(task[x])
      BY <1>5, <2>2 DEF Alone, Seats
    <3>1. ASSUME task[x].pc # "none", local[task[x].run][task[x].ins] = task[x].obj
          PROVE  \/ local'[task[x].run][task[x].ins] = task[x].obj
                 \/ task[x].obj = o
      BY <1>8, <3>1, Placed DEF o
    <3>2. Fresh(task[x])'
      BY <1>0, <1>2, <3>0, <3>1 DEF Fresh
    <3>3. ASSUME task[x].pc \in TurnSeats
          PROVE  /\ task[x].obj # None
                 /\ \/ local'[task[x].run][task[x].ins] = task[x].obj
                    \/ \E y \in Tasks : Stops(task'[y], task[x].obj)
      <4>1. /\ task[x].pc # "none" /\ task[x].obj # None
            /\ \/ local[task[x].run][task[x].ins] = task[x].obj
               \/ \E y \in Tasks : Stops(task[y], task[x].obj)
        BY <3>0, <3>3 DEF Seated, TurnSeats
      <4>2. CASE local[task[x].run][task[x].ins] = task[x].obj /\ task[x].obj = o
        <5>1. CASE ready
          <6>1. task[x].pc # "lock"
            <7>1. LineUp(lockq[o], Waiting(o), Stopping(o)) /\ lockq[o] = <<>>
              BY <1>2, <1>9, <5>1 DEF Alone, Queued
            <7>2. Waiting(o) = {}
              BY <7>1 DEF LineUp
            <7> QED BY <4>2, <7>2 DEF Waiting, Waits
          <6>2. In(task[x], o)
            BY <3>3, <4>2, <6>1 DEF In, TurnSeats, LockPCs
          <6>3. locked[o] = x
            BY <1>2, <6>2, TurnFacts
          <6> QED BY <1>2, <1>3, <6>3
        <5>2. CASE ~ ready
          BY <1>4, <1>5, <4>1, <4>2, <5>2 DEF Stops
        <5> QED BY <5>1, <5>2
      <4>3. CASE local[task[x].run][task[x].ins] = task[x].obj /\ task[x].obj # o
        BY <3>1, <4>1, <4>3
      <4>4. CASE \E y \in Tasks : Stops(task[y], task[x].obj)
        <5>1. PICK y \in Tasks : Stops(task[y], task[x].obj)
          BY <4>4
        <5>2. y # t
          BY <1>7, <5>1 DEF Stops
        <5> QED BY <1>5, <4>1, <5>1, <5>2
      <4> QED BY <4>1, <4>2, <4>3, <4>4
    <3> QED BY <3>0, <3>2, <3>3 DEF Seated, Popped
  <2> QED BY <2>1, <2>2
<1> QED BY <1>10, <1>11, <1>12, <1>13, <1>14 DEF Alone

\* Arrivals and idle passes; nothing else stops an instance here.
LEMMA ArrivalStepsAlone ==
  ASSUME OneSlot, SlotInv, TurnInv, Alone, NEW t \in Tasks,
         NEW r \in Runners, NEW i \in Instances,
         \/ \E k \in Keys : EventArrives(t, r, i, k)
         \/ \E kind \in {"chat", "terminal", "raise"} : Request(t, r, i, kind)
         \/ ApiStop(t, r, i)
  PROVE  Alone'
<1> USE DEF dbVars, semVars
<1>0. ~ ApiStop(t, r, i)
  BY DEF ApiStop, OneSlot
<1>1. task[t].pc \notin {"lock", "stoplock"} /\ up[r]
  BY <1>0 DEF EventArrives, Request, Sent, NoTask
<1>2. CASE \E k \in Keys : EventArrives(t, r, i, k)
  BY <1>1, <1>2, HandleEventAlone DEF EventArrives
<1>3. ASSUME NEW kind \in {"chat", "terminal", "raise"}, Request(t, r, i, kind)
      PROVE  Alone'
  <2> DEFINE c == NewTask(kind, r, i, None)
  <2>1. c \in Coroutine /\ c.run = r /\ c.ins = i
    BY NewTaskOK DEF Kinds, NewTask
  <2>2. EnterRaise(t, c) /\ UNCHANGED <<up, sweep, local, status, holder>>
    BY <1>3 DEF Request
  <2> HIDE DEF c
  <2> QED BY <1>1, <2>1, <2>2, EnterRaiseAlone
<1> QED BY <1>0, <1>2, <1>3

\* A crash empties the process: the queues it drops are those of its own
\* coroutines, and it keeps no row.
LEMMA CrashAlone ==
  ASSUME TurnInv, Alone, NEW r \in Runners, Crash(r)
  PROVE  Alone'
<1>0. /\ up' = [up EXCEPT ![r] = FALSE]
      /\ task' = [t \in Tasks |-> IF OnRunner(t, r) THEN NoTask ELSE task[t]]
      /\ local' = [local EXCEPT ![r] = [i \in Instances |-> None]]
      /\ lockq' = [o \in Objects |-> IF o \in ObjectsOf(r) THEN <<>> ELSE lockq[o]]
      /\ idle' = [o \in Objects |-> IF o \in ObjectsOf(r) THEN FALSE ELSE idle[o]]
      /\ sweep' = [sweep EXCEPT ![r] = {}]
      /\ UNCHANGED <<status, holder, hubCalls>>
  BY DEF Crash, dbVars
<1>1. /\ NoTask.pc = "none" /\ OneOwner /\ None \notin Objects
      /\ local \in [Runners -> [Instances -> Objects \cup {None}]]
      /\ up \in [Runners -> BOOLEAN] /\ sweep \in [Runners -> SUBSET (Instances \X Objects)]
  BY RunnerAssumption DEF NoTask, TurnInv, TypeInv, TypeOK, RunnerAssumption
<1>2. \A x \in Tasks : task'[x] = IF OnRunner(x, r) THEN NoTask ELSE task[x]
  BY <1>0
<1>3. /\ \A q \in Runners \ {r} : local'[q] = local[q] /\ up'[q] = up[q]
      /\ \A i \in Instances : local'[r][i] = None
      /\ \A q \in Runners : sweep'[q] \subseteq sweep[q]
  BY <1>0, <1>1
<1>4. ASSUME NEW x \in Tasks, task[x].obj \in ObjectsOf(r)
      PROVE  task[x].run = r
  <2>1. task[x].obj \in Objects /\ task[x].obj # None
    BY <1>1, <1>4 DEF ObjectsOf
  <2>2. CASE \E i \in Instances : local[r][i] = task[x].obj
    BY <1>1, <2>1, <2>2 DEF OneOwner
  <2>3. CASE \E y \in Tasks : OnRunner(y, r) /\ task[y].obj = task[x].obj
    BY <1>1, <2>1, <2>3 DEF OneOwner, OnRunner
  <2> QED BY <1>4, <2>2, <2>3 DEF ObjectsOf
<1>5. ASSUME NEW x \in Tasks, task'[x].pc \notin {"none", "forward"}
      PROVE  /\ task'[x] = task[x] /\ task[x].run # r /\ task[x].run \in Runners
             /\ task[x].ins \in Instances
  <2>1. task'[x] = task[x] /\ ~ OnRunner(x, r)
    BY <1>1, <1>2, <1>5
  <2> QED BY <1>5, <2>1, Placed DEF OnRunner
<1>6. Queued'
  <2> SUFFICES ASSUME NEW o \in Objects
               PROVE  LineUp(lockq'[o], Waiting(o)', Stopping(o)')
    BY DEF Queued
  <2>0. LineUp(lockq[o], Waiting(o), Stopping(o))
    BY DEF Alone, Queued
  <2>1. CASE o \in ObjectsOf(r)
    <3>1. \A x \in Tasks : ~ Waits(task'[x], o) /\ ~ Stops(task'[x], o)
      BY <1>4, <1>5, <2>1 DEF Waits, Stops
    <3>2. Waiting(o)' = {} /\ Stopping(o)' = {} /\ lockq'[o] = <<>>
      BY <1>0, <2>1, <3>1 DEF Waiting, Stopping
    <3>3. LineUp(<<>>, {}, {})
      BY DEF LineUp
    <3> QED BY <3>2, <3>3
  <2>2. CASE o \notin ObjectsOf(r)
    <3>1. ASSUME NEW x \in Tasks
          PROVE  /\ Waits(task'[x], o) <=> Waits(task[x], o)
                 /\ Stops(task'[x], o) <=> Stops(task[x], o)
      <4>1. CASE OnRunner(x, r)
        BY <1>1, <1>2, <2>2, <4>1 DEF ObjectsOf, Waits, Stops
      <4>2. CASE ~ OnRunner(x, r)
        BY <1>2, <4>2
      <4> QED BY <4>1, <4>2
    <3>2. Waiting(o)' = Waiting(o) /\ Stopping(o)' = Stopping(o) /\ lockq'[o] = lockq[o]
      BY <1>0, <2>2, <3>1 DEF Waiting, Stopping
    <3> QED BY <2>0, <3>2
  <2> QED BY <2>1, <2>2
<1>7. Quiet'
  BY <1>0, <1>3 DEF Alone, Quiet
<1>8. Alive'
  <2>1. \A x \in Tasks : Lives(task'[x]) => up'[task'[x].run]
    BY <1>3, <1>5 DEF Alone, Alive, Lives
  <2>2. \A q \in Runners, i \in Instances : local'[q][i] # None => up'[q]
    BY <1>3 DEF Alone, Alive
  <2> QED BY <2>1, <2>2 DEF Alive
<1>9. Rows'
  <2> SUFFICES ASSUME NEW q \in Runners, NEW i \in Instances, Kept(q, i)'
               PROVE  Held(q, i)
    BY <1>0 DEF Rows, Held
  <2>1. Kept(q, i)
    BY <1>3, <1>5 DEF Kept, StoppedBy
  <2> QED BY <2>1 DEF Alone, Rows
<1>10. Seats'
  <2> SUFFICES ASSUME NEW x \in Tasks
               PROVE  Fresh(task[x])' /\ Seated(task[x])' /\ Popped(task[x])'
    BY DEF Seats
  <2>1. CASE task'[x].pc \in {"none", "forward"}
    BY <2>1 DEF Fresh, Seated, Popped, TurnSeats
  <2>2. CASE task'[x].pc \notin {"none", "forward"}
    <3>0. /\ task'[x] = task[x] /\ task[x].run # r
          /\ local'[task[x].run][task[x].ins] = local[task[x].run][task[x].ins]
          /\ Fresh(task[x]) /\ Seated(task[x]) /\ Popped(task[x])
      BY <1>3, <1>5, <2>2 DEF Alone, Seats
    <3>1. Fresh(task[x])'
      <4>1. ASSUME task[x].pc = "begin", task[x].kind = "event"
            PROVE  ~ idle'[task[x].obj]
        <5>1. ~ idle[task[x].obj] /\ task[x].obj # None
          BY <3>0, <4>1 DEF Fresh
        <5>2. task[x].obj \in Objects
          BY <4>1, <5>1, Placed
        <5> QED BY <1>0, <5>1, <5>2
      <4> QED BY <3>0, <4>1 DEF Fresh
    <3>2. ASSUME task[x].pc \in TurnSeats, NEW y \in Tasks, Stops(task[y], task[x].obj)
          PROVE  Stops(task'[y], task[x].obj)
      <4>1. task[y].obj # None /\ task[y].obj = task[x].obj
        BY <3>0, <3>2 DEF Seated, Stops
      <4>2. task[y].run # r
        BY <1>1, <3>0, <4>1 DEF OneOwner
      <4> QED BY <1>2, <3>2, <4>2 DEF OnRunner
    <3>3. Seated(task[x])'
      BY <3>0, <3>2 DEF Seated
    <3> QED BY <3>0, <3>1, <3>3 DEF Popped
  <2> QED BY <2>1, <2>2
<1> QED BY <1>6, <1>7, <1>8, <1>9, <1>10 DEF Alone

\* A step that leaves coroutines, queues and instances alone: rows of runners
\* that are down are freed, a runner comes up, an object becomes idle that no
\* Event is about to use.
LEMMA StillAlone ==
  ASSUME TurnInv, Alone, UNCHANGED <<task, lockq, local, sweep, hubCalls>>,
         \A r \in Runners : up[r] => up'[r],
         \A r \in Runners, i \in Instances :
           Held(r, i) /\ up[r] => status'[i] = "running" /\ holder'[i] = r,
         \A x \in Tasks : task[x].pc = "begin" /\ idle'[task[x].obj] => idle[task[x].obj]
  PROVE  Alone'
<1>1. Queued'
  BY DEF Alone, Queued, Waiting, Stopping
<1>2. Quiet'
  BY DEF Alone, Quiet
<1>3. Alive'
  <2>1. ASSUME NEW x \in Tasks, Lives(task[x])
        PROVE  up'[task[x].run]
    <3>1. task[x].run \in Runners /\ up[task[x].run]
      BY <2>1, Placed DEF Lives, Alone, Alive
    <3> QED BY <3>1
  <2> QED BY <2>1 DEF Alone, Alive
<1>4. Rows'
  <2> SUFFICES ASSUME NEW r \in Runners, NEW i \in Instances, Kept(r, i)
               PROVE  status'[i] = "running" /\ holder'[i] = r
    BY DEF Rows, Held, Kept
  <2>1. up[r]
    BY DEF Kept, StoppedBy, Alone, Alive, Lives
  <2> QED BY <2>1 DEF Alone, Rows
<1>5. Seats'
  BY DEF Alone, Seats, Fresh, Seated, Popped
<1> QED BY <1>1, <1>2, <1>3, <1>4, <1>5 DEF Alone

\* The hub is silent, and frees only the rows of runners that are down.
LEMMA OutsideStepsAlone ==
  ASSUME OneSlot, TurnInv, Alone,
         \/ \E i \in Instances : HubStop(i)
         \/ \E c \in hubCalls : HubUpdate(c) \/ \E t \in Tasks : HubStopAnswered(t, c)
         \/ \E r \in Runners : RequeueStale(r) \/ Restart(r)
         \/ \E o \in Objects : IdleElapses(o)
  PROVE  Alone'
<1> USE DEF dbVars, semVars, objVars
<1>0. hubCalls = {} /\ \A i \in Instances : ~ HubStop(i)
  BY DEF OneSlot, HubStop, Alone, Quiet
<1>1. ASSUME NEW r \in Runners, RequeueStale(r)
      PROVE  Alone'
  <2>1. /\ ~ up[r]
        /\ status' = [i \in Instances |-> IF holder[i] = r THEN "down" ELSE status[i]]
        /\ holder' = [i \in Instances |-> IF holder[i] = r THEN None ELSE holder[i]]
        /\ UNCHANGED <<task, lockq, local, sweep, hubCalls, up, idle>>
    BY <1>1 DEF RequeueStale, Stale, OneSlot
  <2>2. \A q \in Runners, i \in Instances :
          Held(q, i) /\ up[q] => status'[i] = "running" /\ holder'[i] = q
    BY <2>1 DEF Held
  <2> QED BY <2>1, <2>2, StillAlone
<1>2. ASSUME NEW r \in Runners, Restart(r)
      PROVE  Alone'
  <2>1. /\ up' = [up EXCEPT ![r] = TRUE] /\ up \in [Runners -> BOOLEAN]
        /\ UNCHANGED <<task, lockq, local, sweep, hubCalls, idle, status, holder>>
    BY <1>2 DEF Restart, TurnInv, TypeInv, TypeOK
  <2>2. \A q \in Runners, i \in Instances :
          Held(q, i) /\ up[q] => status'[i] = "running" /\ holder'[i] = q
    BY <2>1 DEF Held
  <2> QED BY <2>1, <2>2, StillAlone
<1>3. ASSUME NEW o \in Objects, IdleElapses(o)
      PROVE  Alone'
  <2>1. /\ idle' = [idle EXCEPT ![o] = TRUE] /\ idle \in [Objects -> BOOLEAN]
        /\ \A x \in Tasks : task[x].obj = o => task[x].pc # "begin"
        /\ UNCHANGED <<task, lockq, local, sweep, hubCalls, up, status, holder>>
    BY <1>3 DEF IdleElapses, TurnInv, TypeInv, TypeOK
  <2>2. \A q \in Runners, i \in Instances :
          Held(q, i) /\ up[q] => status'[i] = "running" /\ holder'[i] = q
    BY <2>1 DEF Held
  <2>3. \A x \in Tasks : task[x].pc = "begin" /\ idle'[task[x].obj] => idle[task[x].obj]
    BY <2>1
  <2> QED BY <2>1, <2>2, <2>3, StillAlone
<1> QED BY <1>0, <1>1, <1>2, <1>3

-----------------------------------------------------------------------------

AloneInv == SlotInv /\ TurnInv /\ Alone

\* Initially nothing is raised and nobody waits.
LEMMA AloneInit == Init => AloneInv
<1> SUFFICES ASSUME Init PROVE Alone
  BY SlotInit, TurnInit DEF AloneInv
<1>1. \A x \in Tasks : task[x].pc = "none"
  BY DEF Init, NoTask
<1>2. Queued
  <2>1. ASSUME NEW o \in Objects
        PROVE  lockq[o] = <<>> /\ Waiting(o) = {} /\ Stopping(o) = {}
    BY <1>1 DEF Init, Waiting, Waits, Stopping, Stops
  <2>2. LineUp(<<>>, {}, {})
    BY DEF LineUp
  <2> QED BY <2>1, <2>2 DEF Queued
<1>3. Quiet /\ Alive
  BY <1>1 DEF Init, Quiet, Alive, Lives
<1>4. Rows
  BY <1>1 DEF Init, Rows, Kept, StoppedBy
<1>5. Seats
  BY <1>1 DEF Seats, Fresh, Seated, Popped, TurnSeats
<1> QED BY <1>2, <1>3, <1>4, <1>5 DEF Alone

\* With one slot, AloneInv is inductive.
LEMMA AloneStep ==
  ASSUME OneSlot
  PROVE  AloneInv /\ [Next]_vars => AloneInv'
<1> SUFFICES ASSUME AloneInv, [Next]_vars
             PROVE  AloneInv'
  OBVIOUS
<1>0. SlotInv /\ TurnInv /\ Alone
  BY DEF AloneInv
<1>1. SlotInv' /\ TurnInv'
  BY <1>0, SlotStep, TurnStep DEF Good
<1>2. Alone'
  <2>1. CASE UNCHANGED vars
    <3>1. /\ UNCHANGED <<task, lockq, local, sweep, hubCalls, up, idle, status, holder>>
          /\ \A r \in Runners, i \in Instances :
               Held(r, i) /\ up[r] => status'[i] = "running" /\ holder'[i] = r
      BY <2>1 DEF vars, dbVars, objVars, Held
    <3> QED BY <1>0, <3>1, StillAlone
  <2>2. CASE \E t \in Tasks : Step(t) \/ ClientGone(t) \/ StoreError(t)
    BY <1>0, <2>2, EventStepsAlone, RaiseStepsAlone, GrantedAlone, TurnStepsAlone,
       FailureStepsAlone DEF Step
  <2>3. ASSUME NEW t \in Tasks, NEW r \in Runners, NEW i \in Instances,
               \/ \E k \in Keys : EventArrives(t, r, i, k)
               \/ \E kind \in {"chat", "terminal", "raise"} : Request(t, r, i, kind)
               \/ ApiStop(t, r, i)
        PROVE  Alone'
    BY <1>0, <2>3, ArrivalStepsAlone
  <2>4. ASSUME NEW t \in Tasks, NEW r \in Runners, ReapIdle(t, r)
        PROVE  Alone'
    BY <1>0, <2>4, ReapAlone
  <2>5. CASE \/ \E i \in Instances : HubStop(i)
             \/ \E c \in hubCalls : HubUpdate(c) \/ \E t \in Tasks : HubStopAnswered(t, c)
             \/ \E r \in Runners : RequeueStale(r) \/ Restart(r)
             \/ \E o \in Objects : IdleElapses(o)
    BY <1>0, <2>5, OutsideStepsAlone
  <2>6. CASE \E r \in Runners : Crash(r)
    BY <1>0, <2>6, CrashAlone
  <2> QED BY <2>1, <2>2, <2>3, <2>4, <2>5, <2>6 DEF Next
<1> QED BY <1>1, <1>2 DEF AloneInv

\* What AloneInv says of the turns.
LEMMA AloneTurns ==
  ASSUME OneSlot, AloneInv
  PROVE  RaisedIsHeld /\ TurnHasSlot /\ SingleTurn
<1>0. SlotInv /\ TurnInv /\ Alone
  BY DEF AloneInv
<1>1. RaisedIsHeld
  BY <1>0 DEF RaisedIsHeld, Raised, Alone, Rows, Kept, Held
<1>2. TurnHasSlot
  BY <1>0 DEF TurnHasSlot, At, Alone, Seats, Seated, Stops, TurnPCs, TurnSeats
<1>3. ASSUME NEW x \in Tasks, task[x].pc \in TurnPCs
      PROVE  /\ task[x].run \in Runners /\ task[x].ins \in Instances /\ task[x].obj \in Objects
             /\ Held(task[x].run, task[x].ins)
             /\ locked[task[x].obj] = x
             /\ \/ local[task[x].run][task[x].ins] = task[x].obj
                \/ \E y \in Tasks : Stops(task[y], task[x].obj) /\ Owns(task[y], task[x].run)
  <2>1. /\ task[x].obj # None
        /\ \/ local[task[x].run][task[x].ins] = task[x].obj
           \/ \E y \in Tasks : Stops(task[y], task[x].obj)
        /\ task[x].pc # "none" /\ task[x].pc \in LockPCs
    BY <1>0, <1>3 DEF Alone, Seats, Seated, TurnPCs, TurnSeats, LockPCs
  <2>2. task[x].run \in Runners /\ task[x].ins \in Instances /\ task[x].obj \in Objects
    BY <1>0, <2>1, Placed
  <2>3. locked[task[x].obj] = x
    BY <1>0, <2>1, <2>2, TurnFacts DEF In
  <2>4. CASE local[task[x].run][task[x].ins] = task[x].obj
    BY <1>0, <2>1, <2>2, <2>3, <2>4 DEF Alone, Rows, Kept
  <2>5. ASSUME NEW y \in Tasks, Stops(task[y], task[x].obj)
        PROVE  Owns(task[y], task[x].run) /\ Held(task[x].run, task[x].ins)
    <3>1. /\ task[y].run = task[x].run /\ task[y].ins = task[x].ins
          /\ task[y].pc = "stoplock"
      BY <1>0, <2>1, <2>5 DEF TurnInv, OneOwner, Stops
    <3>2. StoppedBy(task[y], task[x].run, task[x].ins)
      BY <3>1 DEF StoppedBy
    <3> QED BY <1>0, <2>2, <3>1, <3>2 DEF Alone, Rows, Kept, Owns, SlotPCs
  <2> QED BY <2>1, <2>2, <2>3, <2>4, <2>5
<1>4. ASSUME NEW i \in Instances, NEW x \in Turns(i), NEW y \in Turns(i)
      PROVE  x = y
  <2> DEFINE r == task[x].run
  <2>1. /\ x \in Tasks /\ task[x].ins = i /\ task[x].pc \in TurnPCs
        /\ y \in Tasks /\ task[y].ins = i /\ task[y].pc \in TurnPCs
    BY DEF Turns
  <2>2. task[y].run = r /\ r \in Runners
    BY <1>3, <2>1 DEF Held
  <2> HIDE DEF r
  <2>3. /\ \/ local[r][i] = task[x].obj
           \/ \E z \in Tasks : Stops(task[z], task[x].obj) /\ Owns(task[z], r)
        /\ \/ local[r][i] = task[y].obj
           \/ \E z \in Tasks : Stops(task[z], task[y].obj) /\ Owns(task[z], r)
        /\ task[x].obj \in Objects /\ task[y].obj \in Objects
    BY <1>3, <2>1, <2>2 DEF r
  <2>4. task[x].obj # None /\ task[y].obj # None
    BY <2>3, RunnerAssumption DEF RunnerAssumption
  <2>5. task[x].obj = task[y].obj
    BY <1>0, <2>2, <2>3, <2>4, OneTenant DEF Stops
  <2> QED BY <1>3, <2>1, <2>5
<1>5. SingleTurn
  <2> SUFFICES ASSUME NEW i \in Instances
               PROVE  Cardinality(Turns(i)) <= 1
    BY DEF SingleTurn
  <2>1. CASE Turns(i) = {}
    BY <2>1, FS_EmptySet
  <2>2. CASE Turns(i) # {}
    <3>1. PICK x : x \in Turns(i)
      BY <2>2
    <3>2. Turns(i) = {x}
      BY <1>4, <3>1
    <3>3. Cardinality({x}) = 1
      BY FS_Singleton
    <3> QED BY <3>2, <3>3
  <2> QED BY <2>1, <2>2
<1> QED BY <1>1, <1>2, <1>5

\* AloneInv holds throughout.
LEMMA AloneAlways ==
  ASSUME OneSlot
  PROVE  Spec => []AloneInv
<1>1. AloneInv /\ [Next]_vars => AloneInv'
  BY AloneStep
<1> QED BY <1>1, AloneInit, PTL DEF Spec

\* A runner with one slot that only its own idle pass stops, and whose
\* heartbeats arrive, is the holder in the row of every instance it keeps in
\* its slot: no crash or restart of others, no failed call, cancelled chat or
\* idle pass gives the row away, so a claim by another runner fails.
THEOREM HoldsItsRow ==
  ASSUME OneSlot
  PROVE  Spec => []RaisedIsHeld
<1>1. AloneInv => RaisedIsHeld
  BY AloneTurns
<1> QED BY <1>1, AloneAlways, PTL

\* There, a turn runs on a LocalInstance that is raised, or whose stop still
\* waits behind it for the lock: it never outlives the slot it was given.
THEOREM TurnInSlot ==
  ASSUME OneSlot
  PROVE  Spec => []TurnHasSlot
<1>1. AloneInv => TurnHasSlot
  BY AloneTurns
<1> QED BY <1>1, AloneAlways, PTL

\* There, an instance, hence its checkpoint thread, runs at most one turn in
\* the whole system, whatever the number of runners, instances, Events,
\* crashes and failures.  (Two slots are enough to break it: see the run
\* SingleTurnTwoSlots.)
THEOREM OneTurn ==
  ASSUME OneSlot
  PROVE  Spec => []SingleTurn
<1>1. AloneInv => SingleTurn
  BY AloneTurns
<1> QED BY <1>1, AloneAlways, PTL

=============================================================================
