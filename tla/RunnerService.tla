---------------------------- MODULE RunnerService ----------------------------
(***************************************************************************)
(* The runner processes (agent/core/runner/service.py) over the rows of    *)
(* hub.agent_instances and hub.instance_events that they share             *)
(* (agent/infra/db/hub_store.py).                                          *)
(*                                                                         *)
(* A runner is one asyncio process: a coroutine runs without interruption  *)
(* from one await that suspends to the next, so an action here is exactly  *)
(* such a stretch, and a coroutine's pc names the await it is parked on.   *)
(* Every store call is one SQL statement, hence one atomic action.         *)
(*                                                                         *)
(* The broker is the environment: the outbox publishes at least once, the  *)
(* hub re-publishes, runners forward, so any Event may reach any live      *)
(* runner again at any time.                                               *)
(***************************************************************************)
EXTENDS Integers, Sequences, FiniteSets

CONSTANTS
  Runners,      \* rows of hub.runners, one process each
  Instances,    \* rows of hub.agent_instances
  Keys,         \* dedup keys of the Events
  Skipped,      \* the keys of Events that have no code target
  Tasks,        \* coroutines: how many may be in flight at once
  Objects,      \* identities of LocalInstance objects
  Slots,        \* RunnerService.slots
  MaxArrivals,  \* bound: requests and messages the environment sends
  Env,          \* what the environment does besides sending Events
  None

EnvKinds == {"stop", "operator", "hub", "fault", "crash", "partition", "longturn"}

ASSUME RunnerAssumption ==
  /\ Slots \in Nat \ {0}
  /\ MaxArrivals \in Nat
  /\ IsFiniteSet(Tasks) /\ IsFiniteSet(Instances)
  /\ Skipped \subseteq Keys
  /\ Env \subseteq EnvKinds
  /\ None \notin Runners \cup Instances \cup Keys \cup Tasks \cup Objects

VARIABLES
  status, holder,   \* agent_instances.status, .runner_id
  processed,        \* rows of instance_events whose processed_at is set
  hubCalls,         \* UPDATEs of the hub that wait for a runner's reply
  up,               \* the process is running
  free, waitq,      \* RunnerService._free: permits and FIFO of waiters
  raising,          \* RunnerService._raise_lock: its owner
  local,            \* RunnerService._instances
  sweep,            \* idle pairs that reap_idle's list(...) still holds
  locked, lockq,    \* LocalInstance.lock: owner and FIFO of waiters
  idle,             \* LocalInstance.last_activity is older than the timeout
  task,             \* the coroutines
  arrivals,         \* requests and messages sent so far
  leaked            \* history: permits lost by a stop that failed

dbVars   == <<status, holder, processed>>
semVars  == <<free, waitq>>
objVars  == <<locked, lockq, idle>>
vars == <<dbVars, hubCalls, up, semVars, raising, local, sweep, objVars, task,
          arrivals, leaked>>

PCs == {"none", "peek", "forward", "slot", "raise", "claim", "refused", "begin", "lock",
        "context", "turn", "cancel", "mark", "termwait", "term", "stoplock",
        "release"}
Kinds == {"none", "event", "skip", "chat", "terminal", "raise", "stop", "reap"}

\* Coroutines that own a permit of _free: the raises past acquire(), and the
\* stops, which took over the permit of the instance they popped.
SlotPCs == {"raise", "claim", "refused", "stoplock", "release"}
\* Coroutines inside `async with instance.lock`.
LockPCs == {"context", "turn", "cancel", "mark", "release"}
\* Coroutines running a turn on the instance's checkpoint thread.
TurnPCs == {"context", "turn", "cancel"}

Coroutine == [pc : PCs, kind : Kinds, run : Runners \cup {None},
              ins : Instances \cup {None}, key : Keys \cup {None},
              obj : Objects \cup {None}]
NoTask == [pc |-> "none", kind |-> "none", run |-> None, ins |-> None,
           key |-> None, obj |-> None]
NewTask(kind, r, i, k) == [pc |-> "none", kind |-> kind, run |-> r, ins |-> i,
                           key |-> k, obj |-> None]

HubCall == [op : {"stop", "running", "down"}, ins : Instances, run : Runners]

TypeOK ==
  /\ status \in [Instances -> {"down", "running"}]
  /\ holder \in [Instances -> Runners \cup {None}]
  /\ processed \subseteq Instances \X Keys
  /\ hubCalls \subseteq HubCall
  /\ up \in [Runners -> BOOLEAN]
  /\ free \in [Runners -> Nat]
  /\ waitq \in [Runners -> Seq(Tasks)]
  /\ raising \in [Runners -> Tasks \cup {None}]
  /\ local \in [Runners -> [Instances -> Objects \cup {None}]]
  /\ sweep \in [Runners -> SUBSET (Instances \X Objects)]
  /\ locked \in [Objects -> Tasks \cup {None}]
  /\ lockq \in [Objects -> Seq(Tasks)]
  /\ idle \in [Objects -> BOOLEAN]
  /\ task \in [Tasks -> Coroutine]
  /\ arrivals \in Nat
  /\ leaked \in [Runners -> Nat]

Init ==
  /\ status = [i \in Instances |-> "down"]
  /\ holder = [i \in Instances |-> None]
  /\ processed = {}
  /\ hubCalls = {}
  /\ up = [r \in Runners |-> TRUE]
  /\ free = [r \in Runners |-> Slots]
  /\ waitq = [r \in Runners |-> <<>>]
  /\ raising = [r \in Runners |-> None]
  /\ local = [r \in Runners |-> [i \in Instances |-> None]]
  /\ sweep = [r \in Runners |-> {}]
  /\ locked = [o \in Objects |-> None]
  /\ lockq = [o \in Objects |-> <<>>]
  /\ idle = [o \in Objects |-> FALSE]
  /\ task = [t \in Tasks |-> NoTask]
  /\ arrivals = 0
  /\ leaked = [r \in Runners |-> 0]

-----------------------------------------------------------------------------
(* Pieces shared by the handlers.                                          *)

At(t, pc) == task[t].pc = pc
Become(t, c) == task' = [task EXCEPT ![t] = c]
Finish(t) == Become(t, NoTask)
Goto(t, pc) == Become(t, [task[t] EXCEPT !.pc = pc])

\* A request or a message the environment sends to a live runner r.
Sent(t, r) ==
  /\ up[r]
  /\ task[t] = NoTask
  /\ arrivals < MaxArrivals
  /\ arrivals' = arrivals + 1

HeldByOther(r, i) == status[i] = "running" /\ holder[i] # r

\* asyncio.Lock.acquire: immediate only if nobody owns it and nobody waits.
LockFree(o) == locked[o] = None /\ lockq[o] = <<>>
TakeNoLock(t, c, o, inside, waiting) ==
  Become(t, [c EXCEPT !.pc = inside, !.obj = o]) /\ UNCHANGED <<locked, lockq>>
TakeLock(t, c, o, inside, waiting) ==
  \/ /\ LockFree(o)
     /\ locked' = [locked EXCEPT ![o] = t]
     /\ Become(t, [c EXCEPT !.pc = inside, !.obj = o])
     /\ UNCHANGED lockq
  \/ /\ ~LockFree(o)
     /\ lockq' = [lockq EXCEPT ![o] = Append(@, t)]
     /\ Become(t, [c EXCEPT !.pc = waiting, !.obj = o])
     /\ UNCHANGED locked

\* LocalInstance.term_lock is owned by the console command that runs.
TermHeld(o) == \E x \in Tasks : At(x, "term") /\ task[x].obj = o

Touch(o) == idle' = [idle EXCEPT ![o] = FALSE]

\* A hub raise that was answered "running" makes the hub record it.
Answer(c) == IF "hub" \in Env THEN {[op |-> "running", ins |-> c.ins, run |-> c.run]}
                                ELSE {}

\* _raise returned the LocalInstance o to coroutine t: what t does up to its
\* next await.  A raise is answered "running" (or too late, then "queued").
Attach(t, c, o) ==
  /\ Touch(o)
  /\ \/ /\ c.kind = "event"
        /\ Become(t, [c EXCEPT !.pc = "begin", !.obj = o])
        /\ UNCHANGED <<locked, lockq, hubCalls>>
     \/ /\ c.kind = "chat"
        /\ TakeLock(t, c, o, "context", "lock")
        /\ UNCHANGED hubCalls
     \/ /\ c.kind = "terminal"
        /\ Become(t, [c EXCEPT !.pc = IF TermHeld(o) THEN "termwait" ELSE "term",
                               !.obj = o])
        /\ UNCHANGED <<locked, lockq, hubCalls>>
     \/ /\ c.kind = "raise"
        /\ Finish(t)
        /\ hubCalls' \in {hubCalls, hubCalls \cup Answer(c)}
        /\ UNCHANGED <<locked, lockq>>

SlotUncounted(r) == waitq[r] = <<>>
SlotFree(r) == free[r] > 0 /\ waitq[r] = <<>>

\* _raise up to its first suspension: an instance that is up is returned at
\* once, otherwise a permit is taken or queued for, before _raise_lock.
EnterRaise(t, c) ==
  LET o == local[c.run][c.ins] IN
  \/ /\ o # None
     /\ Attach(t, c, o)
     /\ UNCHANGED semVars
  \/ /\ o = None /\ SlotFree(c.run)
     /\ free' = [free EXCEPT ![c.run] = @ - 1]
     /\ Become(t, [c EXCEPT !.pc = "raise"])
     /\ UNCHANGED <<waitq, objVars, hubCalls>>
  \/ /\ o = None /\ ~SlotFree(c.run)
     /\ waitq' = [waitq EXCEPT ![c.run] = Append(@, t)]
     /\ Become(t, [c EXCEPT !.pc = "slot"])
     /\ UNCHANGED <<free, objVars, hubCalls>>

FreeNoSlot(r) == r \in Runners /\ UNCHANGED free
FreeSlot(r) == free' = [free EXCEPT ![r] = @ + 1]

-----------------------------------------------------------------------------
(* handle_event: Events from the queue or forwarded by another runner.     *)

HandleEvent(t, r, i, k) ==
  \/ /\ k \in Skipped
     /\ Become(t, [NewTask("skip", r, i, k) EXCEPT !.pc = "begin"])
     /\ UNCHANGED idle
  \/ /\ k \notin Skipped /\ local[r][i] # None
     /\ Become(t, [NewTask("event", r, i, k) EXCEPT !.pc = "begin", !.obj = local[r][i]])
     /\ Touch(local[r][i])
  \/ /\ k \notin Skipped /\ local[r][i] = None
     /\ Become(t, [NewTask("event", r, i, k) EXCEPT !.pc = "peek"])
     /\ UNCHANGED idle

EventArrives(t, r, i, k) ==
  /\ Sent(t, r)
  /\ HandleEvent(t, r, i, k)
  /\ UNCHANGED <<dbVars, hubCalls, up, semVars, raising, local, sweep, locked, lockq, leaked>>

\* peek_holder, before waiting for a slot.
PeekHolder(t) ==
  /\ At(t, "peek")
  /\ \/ /\ HeldByOther(task[t].run, task[t].ins)
        /\ Become(t, [task[t] EXCEPT !.pc = "forward", !.run = holder[task[t].ins]])
        /\ UNCHANGED <<semVars, objVars, hubCalls>>
     \/ /\ ~HeldByOther(task[t].run, task[t].ins)
        /\ EnterRaise(t, task[t])
  /\ UNCHANGED <<dbVars, up, raising, local, sweep, arrivals, leaked>>

\* _hand_off: the holder handles the Event, or cannot be reached and it is
\* dropped.  While the request is in flight, run is its destination.
Forward(t) ==
  /\ At(t, "forward")
  /\ \/ /\ up[task[t].run]
        /\ HandleEvent(t, task[t].run, task[t].ins, task[t].key)
     \/ /\ Finish(t)
        /\ UNCHANGED idle
  /\ UNCHANGED <<dbVars, hubCalls, up, semVars, raising, local, sweep, locked, lockq,
                 arrivals, leaked>>

\* begin_event: the dedup check, made before the instance lock is asked for.
Duplicate(t) == <<task[t].ins, task[t].key>> \in processed

BeginEvent(t) ==
  /\ At(t, "begin")
  /\ \/ /\ Duplicate(t)
        /\ Finish(t)
        /\ idle' = [o \in Objects |-> IF o = task[t].obj THEN FALSE ELSE idle[o]]
        /\ UNCHANGED <<locked, lockq>>
     \/ /\ ~Duplicate(t)
        /\ task[t].kind = "skip"
        /\ Goto(t, "mark")
        /\ UNCHANGED objVars
     \/ /\ ~Duplicate(t)
        /\ task[t].kind = "event"
        /\ TakeLock(t, task[t], task[t].obj, "context", "lock")
        /\ idle' = [idle EXCEPT ![task[t].obj] = @ /\ ~LockFree(task[t].obj)]
  /\ UNCHANGED <<dbVars, hubCalls, up, semVars, raising, local, sweep, arrivals, leaked>>

MarkProcessed(t) ==
  /\ At(t, "mark")
  /\ processed' = processed \cup {<<task[t].ins, task[t].key>>}
  /\ locked' = [o \in Objects |-> IF o = task[t].obj THEN None ELSE locked[o]]
  /\ idle' = [o \in Objects |-> IF o = task[t].obj THEN FALSE ELSE idle[o]]
  /\ Finish(t)
  /\ UNCHANGED <<status, holder, hubCalls, up, semVars, raising, local, sweep, lockq,
                 arrivals, leaked>>

-----------------------------------------------------------------------------
(* _raise: slots, the raise lock and the claim.                            *)

\* Semaphore.release wakes the first waiter; a newcomer never overtakes it.
SlotGranted(t) ==
  LET r == task[t].run IN
  /\ At(t, "slot")
  /\ free[r] > 0 /\ waitq[r] # <<>> /\ Head(waitq[r]) = t
  /\ free' = [free EXCEPT ![r] = @ - 1]
  /\ waitq' = [waitq EXCEPT ![r] = Tail(@)]
  /\ Goto(t, "raise")
  /\ UNCHANGED <<dbVars, hubCalls, up, raising, local, sweep, objVars, arrivals, leaked>>

\* async with _raise_lock: look again, the instance may have come up meanwhile.
RaiseLocked(t) ==
  LET r == task[t].run  o == local[r][task[t].ins] IN
  /\ At(t, "raise")
  /\ raising[r] = None
  /\ \/ /\ o # None
        /\ Attach(t, task[t], o)
        /\ FreeSlot(r)
        /\ UNCHANGED raising
     \/ /\ o = None
        /\ raising' = [raising EXCEPT ![r] = t]
        /\ Goto(t, "claim")
        /\ UNCHANGED <<free, objVars, hubCalls>>
  /\ UNCHANGED <<dbVars, up, waitq, local, sweep, arrivals, leaked>>

Unused(o) ==
  /\ \A r \in Runners : /\ \A i \in Instances : local[r][i] # o
                        /\ \A i \in Instances : <<i, o>> \notin sweep[r]
  /\ \A t \in Tasks : task[t].obj # o

NewObject == CHOOSE o \in Objects : Unused(o)

ClaimableByAll(i, r) == status[i] = "down" \/ holder[i] \in {r} \cup Runners
Claimable(i, r) == status[i] = "down" \/ holder[i] = r

\* claim_instance succeeds: UPDATE ... WHERE status = 'down' OR runner_id = me,
\* then the LocalInstance is registered.
ClaimInstance(t) ==
  LET r == task[t].run  i == task[t].ins  o == NewObject IN
  /\ At(t, "claim")
  /\ Claimable(i, r)
  /\ \E x \in Objects : Unused(x)
  /\ status' = [status EXCEPT ![i] = "running"]
  /\ holder' = [holder EXCEPT ![i] = r]
  /\ raising' = [raising EXCEPT ![r] = None]
  /\ local' = [local EXCEPT ![r][i] = o]
  /\ Attach(t, task[t], o)
  /\ UNCHANGED <<processed, up, semVars, sweep, arrivals, leaked>>

ClaimRefused(t) ==
  /\ At(t, "claim")
  /\ ~Claimable(task[t].ins, task[t].run)
  /\ Goto(t, "refused")
  /\ UNCHANGED <<dbVars, hubCalls, up, semVars, raising, local, sweep, objVars, arrivals,
                 leaked>>

\* After a refused claim a second statement reads the holder's address; the row
\* may have changed in between, and without an address the Event is dropped.
ReadHolder(t) ==
  LET r == task[t].run  i == task[t].ins IN
  /\ At(t, "refused")
  /\ raising' = [raising EXCEPT ![r] = None]
  /\ FreeSlot(r)
  /\ \/ /\ task[t].kind = "event" /\ holder[i] # None
        /\ Become(t, [task[t] EXCEPT !.pc = "forward", !.run = holder[i]])
     \/ /\ task[t].kind # "event" \/ holder[i] = None
        /\ Finish(t)
  /\ UNCHANGED <<dbVars, hubCalls, up, waitq, local, sweep, objVars, arrivals, leaked>>

-----------------------------------------------------------------------------
(* The turn, under LocalInstance.lock.                                     *)

\* The first waiter of a released lock resumes.
LockGranted(t) ==
  LET o == task[t].obj IN
  /\ task[t].pc \in {"lock", "stoplock"}
  /\ locked[o] = None /\ lockq[o] # <<>> /\ Head(lockq[o]) = t
  /\ locked' = [locked EXCEPT ![o] = t]
  /\ lockq' = [lockq EXCEPT ![o] = Tail(@)]
  /\ \/ At(t, "lock") /\ Goto(t, "context") /\ Touch(o)
     \/ At(t, "stoplock") /\ Goto(t, "release") /\ UNCHANGED idle
  /\ UNCHANGED <<dbVars, hubCalls, up, semVars, raising, local, sweep, arrivals, leaked>>

\* load_context returns and the turn starts; turn_task is set from here on.
TurnStarts(t) ==
  /\ At(t, "context")
  /\ Goto(t, "turn")
  /\ UNCHANGED <<dbVars, hubCalls, up, semVars, raising, local, sweep, objVars, arrivals,
                 leaked>>

\* A cancellation that comes after the last step of the turn changes nothing.
TurnCompletes(t) ==
  /\ task[t].pc \in {"turn", "cancel"}
  /\ \/ /\ task[t].kind = "event"
        /\ Goto(t, "mark")
        /\ UNCHANGED <<locked, idle>>
     \/ /\ task[t].kind = "chat"
        /\ locked' = [locked EXCEPT ![task[t].obj] = None]
        /\ Touch(task[t].obj)
        /\ Finish(t)
  /\ UNCHANGED <<dbVars, hubCalls, up, semVars, raising, local, sweep, lockq, arrivals, leaked>>

TurnFailsLocked(t) ==
  /\ task[t].pc \in {"turn", "cancel"}
  /\ Finish(t)
  /\ UNCHANGED <<dbVars, hubCalls, up, semVars, raising, local, sweep, objVars, arrivals, leaked>>

\* The turn raised, found no sandbox, or was cancelled by a stop: processed_at
\* stays NULL and last_activity is not refreshed.
TurnFails(t) ==
  /\ task[t].pc \in {"turn", "cancel"}
  /\ locked' = [locked EXCEPT ![task[t].obj] = None]
  /\ Finish(t)
  /\ UNCHANGED <<dbVars, hubCalls, up, semVars, raising, local, sweep, lockq, idle, arrivals,
                 leaked>>

-----------------------------------------------------------------------------
(* chat, terminal and raise requests.                                      *)

Request(t, r, i, kind) ==
  /\ "operator" \in Env \/ (kind = "raise" /\ "hub" \in Env)
  /\ Sent(t, r)
  /\ EnterRaise(t, NewTask(kind, r, i, None))
  /\ UNCHANGED <<dbVars, up, raising, local, sweep, leaked>>

\* term_lock passes to a waiter (asyncio's FIFO order is one of those allowed).
TermGranted(t) ==
  /\ At(t, "termwait")
  /\ ~TermHeld(task[t].obj)
  /\ Goto(t, "term")
  /\ Touch(task[t].obj)
  /\ UNCHANGED <<dbVars, hubCalls, up, semVars, raising, local, sweep, locked, lockq,
                 arrivals, leaked>>

TermDone(t) ==
  /\ At(t, "term")
  /\ Touch(task[t].obj)
  /\ Finish(t)
  /\ UNCHANGED <<dbVars, hubCalls, up, semVars, raising, local, sweep, locked, lockq,
                 arrivals, leaked>>

\* A cancelled waiter leaves its queue, where it stands once.
Without(q, t) ==
  LET n == CHOOSE m \in 1 .. Len(q) : q[m] = t
  IN  [m \in 1 .. Len(q) - 1 |-> IF m < n THEN q[m] ELSE q[m + 1]]

\* The UPDATE of a claim whose coroutine does not learn of it.
ClaimLands(t) ==
  /\ At(t, "claim") /\ Claimable(task[t].ins, task[t].run)
  /\ status' = [status EXCEPT ![task[t].ins] = "running"]
  /\ holder' = [holder EXCEPT ![task[t].ins] = task[t].run]

\* The client of a chat or of the console closed the stream: the coroutine is
\* cancelled at its await.
ClientGone(t) ==
  LET r == task[t].run  o == task[t].obj IN
  /\ task[t].kind \in {"chat", "terminal"}
  /\ UNCHANGED <<status, holder>> \/ ClaimLands(t)
  /\ \/ /\ At(t, "slot")
        /\ waitq' = [waitq EXCEPT ![r] = Without(@, t)]
        /\ UNCHANGED <<free, raising, locked, lockq>>
     \/ /\ task[t].pc \in {"raise", "claim", "refused"}
        /\ FreeSlot(r)
        /\ raising' = [raising EXCEPT ![r] = IF @ = t THEN None ELSE @]
        /\ UNCHANGED <<waitq, locked, lockq>>
     \/ /\ At(t, "lock")
        /\ lockq' = [lockq EXCEPT ![o] = Without(@, t)]
        /\ UNCHANGED <<semVars, raising, locked>>
     \/ /\ task[t].pc \in {"context", "turn"}
        /\ locked' = [locked EXCEPT ![o] = None]
        /\ UNCHANGED <<semVars, raising, lockq>>
     \/ /\ task[t].pc \in {"termwait", "term"}
        /\ UNCHANGED <<semVars, raising, locked, lockq>>
  /\ Finish(t)
  /\ UNCHANGED <<processed, hubCalls, up, local, sweep, idle, arrivals, leaked>>

-----------------------------------------------------------------------------
(* stop_instance: by the API, by the hub, by reap_idle.                    *)

\* Pop the instance, cancel the turn if turn_task is set, then take the lock
\* or queue for it behind whoever waits on this LocalInstance.  lk is locked,
\* less the lock the caller has just left.
StopInstance(t, r, i, kind, lk) ==
  LET o == local[r][i]
      ready == lk[o] = None /\ lockq[o] = <<>>
      c == [NewTask(kind, r, i, None) EXCEPT !.obj = o,
                                              !.pc = IF ready THEN "release" ELSE "stoplock"]
      victim(x) == x = lk[o] /\ At(x, "turn") /\ task[x].kind = "event"
  IN
  /\ o # None
  /\ local' = [local EXCEPT ![r][i] = None]
  /\ task' = [x \in Tasks |-> IF x = t THEN c
                              ELSE IF victim(x) THEN [task[x] EXCEPT !.pc = "cancel"]
                              ELSE task[x]]
  /\ locked' = IF ready THEN [lk EXCEPT ![o] = t] ELSE lk
  /\ lockq' = IF ready THEN lockq ELSE [lockq EXCEPT ![o] = Append(@, t)]

ApiStop(t, r, i) ==
  /\ "stop" \in Env
  /\ Sent(t, r)
  /\ StopInstance(t, r, i, "stop", locked)
  /\ UNCHANGED <<dbVars, hubCalls, up, semVars, raising, sweep, idle, leaked>>

\* reap_idle: list(...) pairs an id with the LocalInstance seen then, `now` is
\* read once (pairs that were not idle at that time never qualify), the checks
\* look at that object, stop_instance pops whatever the id maps to by now.
Snapshot(r) == {p \in Instances \X Objects : local[r][p[1]] = p[2] /\ idle[p[2]]}
UnloadableBusy(r, p, lk) == idle[p[2]] /\ local[r][p[1]] # None /\ lk = lk
Unloadable(r, p, lk) == /\ lk[p[2]] = None /\ ~TermHeld(p[2]) /\ idle[p[2]]
                        /\ local[r][p[1]] # None

\* Coroutine t goes on through the pairs s: those before the next one that is
\* unloaded failed the checks, those after it stay while its stop is awaited.
UnloadNext(t, r, s, lk) ==
  LET ready == {p \in s : Unloadable(r, p, lk)} IN
  \/ \E p \in ready :
       /\ StopInstance(t, r, p[1], "reap", lk)
       /\ \E rest \in SUBSET (s \ {p}) : /\ ready \ {p} \subseteq rest
                                         /\ sweep' = [sweep EXCEPT ![r] = rest]
  \/ /\ ready = {}
     /\ Finish(t)
     /\ sweep' = [sweep EXCEPT ![r] = {}]
     /\ locked' = lk
     /\ UNCHANGED <<local, lockq>>

ReapIdle(t, r) ==
  /\ up[r]
  /\ task[t] = NoTask
  /\ \A x \in Tasks : ~(task[x].kind = "reap" /\ task[x].run = r)
  /\ \E p \in Snapshot(r) : Unloadable(r, p, locked)
  /\ UnloadNext(t, r, Snapshot(r), locked)
  /\ UNCHANGED <<dbVars, hubCalls, up, semVars, raising, idle, arrivals, leaked>>

\* The UPDATE of release_instance, a compare-and-set on my runner_id.
Releases(i, r) ==
  LET mine == status[i] = "running" /\ holder[i] = r IN
  /\ status' = [status EXCEPT ![i] = IF mine THEN "down" ELSE @]
  /\ holder' = [holder EXCEPT ![i] = IF mine THEN None ELSE @]

\* release_instance under the lock, then the permit; the idle pass resumes with
\* its next instance.
ReleaseInstance(t) ==
  LET r == task[t].run
      lk == [locked EXCEPT ![task[t].obj] = None]
  IN
  /\ At(t, "release")
  /\ Releases(task[t].ins, r)
  /\ FreeSlot(r)
  /\ \/ /\ task[t].kind = "stop"
        /\ Finish(t)
        /\ locked' = lk
        /\ UNCHANGED <<local, lockq, sweep>>
     \/ /\ task[t].kind = "reap"
        /\ UnloadNext(t, r, sweep[r], lk)
  /\ UNCHANGED <<processed, hubCalls, up, waitq, raising, idle, arrivals, leaked>>

\* An instance nobody touched for the idle timeout.  begin_event and an idle
\* pass are taken to be shorter than it (15 minutes); a turn need not be.
IdleElapses(o) ==
  /\ ~idle[o]
  /\ \E r \in Runners, i \in Instances : local[r][i] = o
  /\ \A r \in Runners, i \in Instances : <<i, o>> \notin sweep[r]
  /\ \A t \in Tasks : task[t].obj = o => /\ "longturn" \in Env
                                          /\ task[t].pc # "begin"
  /\ idle' = [idle EXCEPT ![o] = TRUE]
  /\ UNCHANGED <<dbVars, hubCalls, up, semVars, raising, local, sweep, locked, lockq, task,
                 arrivals, leaked>>

-----------------------------------------------------------------------------
(* What the hub does to the same rows.                                     *)

\* InstanceService.Stop: asks the holder it read to stop, then sets the row
\* down whatever the runner answered, if it did, and whoever holds it by then.
HubStop(i) ==
  /\ "hub" \in Env
  /\ status[i] = "running"
  /\ hubCalls' = hubCalls \cup {[op |-> "stop", ins |-> i, run |-> holder[i]]}
  /\ arrivals < MaxArrivals /\ arrivals' = arrivals + 1
  /\ UNCHANGED <<dbVars, up, semVars, raising, local, sweep, objVars, task, leaked>>

HubStopAnswered(t, c) ==
  /\ c \in hubCalls /\ c.op = "stop"
  /\ hubCalls' = (hubCalls \ {c}) \cup {[c EXCEPT !.op = "down"]}
  /\ \/ up[c.run] /\ task[t] = NoTask /\ StopInstance(t, c.run, c.ins, "stop", locked)
     \/ UNCHANGED <<local, task, locked, lockq>>
  /\ UNCHANGED <<dbVars, up, semVars, raising, sweep, idle, arrivals, leaked>>

HubUpdate(c) ==
  /\ c \in hubCalls /\ c.op # "stop"
  /\ hubCalls' = hubCalls \ {c}
  /\ status' = [status EXCEPT ![c.ins] = c.op]
  /\ holder' = [holder EXCEPT ![c.ins] = IF c.op = "running" THEN c.run ELSE None]
  /\ UNCHANGED <<processed, up, semVars, raising, local, sweep, objVars, task, arrivals, leaked>>

\* A process that is up misses heartbeats only when it is cut off from the
\* database for longer than the hub's heartbeat timeout.
StaleAlways(r) == r \in Runners
Stale(r) == ~up[r] \/ "partition" \in Env

\* RequeueStale: the rows of a runner without heartbeat go down.
RequeueStale(r) ==
  /\ Stale(r)
  /\ \E i \in Instances : status[i] = "running" /\ holder[i] = r
  /\ status' = [i \in Instances |-> IF holder[i] = r THEN "down" ELSE status[i]]
  /\ holder' = [i \in Instances |-> IF holder[i] = r THEN None ELSE holder[i]]
  /\ UNCHANGED <<processed, hubCalls, up, semVars, raising, local, sweep, objVars, task,
                 arrivals, leaked>>

-----------------------------------------------------------------------------
(* Failures.                                                               *)

\* A store call (or a console command) raises; its UPDATE may have landed all the
\* same.  _raise gives its permit back in its finally; stop_instance has none, so
\* the popped instance's permit is gone.
StoreError(t) ==
  LET r == task[t].run IN
  /\ "fault" \in Env
  /\ \/ /\ task[t].pc \in {"peek", "begin", "term"}
        /\ UNCHANGED <<free, raising, locked, leaked, dbVars>>
     \/ /\ task[t].pc \in {"claim", "refused"}
        /\ FreeSlot(r)
        /\ raising' = [raising EXCEPT ![r] = None]
        /\ UNCHANGED <<locked, leaked, processed>>
        /\ UNCHANGED <<status, holder>> \/ ClaimLands(t)
     \/ /\ task[t].pc \in {"context", "mark"}
        /\ locked' = [o \in Objects |-> IF o = task[t].obj THEN None ELSE locked[o]]
        /\ \/ UNCHANGED processed
           \/ /\ At(t, "mark")
              /\ processed' = processed \cup {<<task[t].ins, task[t].key>>}
        /\ UNCHANGED <<free, raising, leaked, status, holder>>
     \/ /\ At(t, "release")
        /\ locked' = [locked EXCEPT ![task[t].obj] = None]
        /\ leaked' = [leaked EXCEPT ![r] = @ + 1]
        /\ UNCHANGED <<status, holder>> \/ Releases(task[t].ins, r)
        /\ UNCHANGED <<free, raising, processed>>
  /\ sweep' = [q \in Runners |-> IF task[t].kind = "reap" /\ q = r THEN {} ELSE sweep[q]]
  /\ Finish(t)
  /\ UNCHANGED <<hubCalls, up, waitq, local, lockq, idle, arrivals>>

OnRunner(t, r) == task[t].run = r /\ task[t].pc # "forward"
ObjectsOf(r) == {o \in Objects : \/ \E i \in Instances : local[r][i] = o
                                 \/ \E t \in Tasks : OnRunner(t, r) /\ task[t].obj = o}

\* The process dies: its memory is gone, the rows stay as they are.
Crash(r) ==
  /\ "crash" \in Env
  /\ up[r]
  /\ up' = [up EXCEPT ![r] = FALSE]
  /\ task' = [t \in Tasks |-> IF OnRunner(t, r) THEN NoTask ELSE task[t]]
  /\ local' = [local EXCEPT ![r] = [i \in Instances |-> None]]
  /\ locked' = [o \in Objects |-> IF o \in ObjectsOf(r) THEN None ELSE locked[o]]
  /\ lockq' = [o \in Objects |-> IF o \in ObjectsOf(r) THEN <<>> ELSE lockq[o]]
  /\ idle' = [o \in Objects |-> IF o \in ObjectsOf(r) THEN FALSE ELSE idle[o]]
  /\ free' = [free EXCEPT ![r] = Slots]
  /\ waitq' = [waitq EXCEPT ![r] = <<>>]
  /\ raising' = [raising EXCEPT ![r] = None]
  /\ sweep' = [sweep EXCEPT ![r] = {}]
  /\ leaked' = [leaked EXCEPT ![r] = 0]
  /\ UNCHANGED <<dbVars, hubCalls, arrivals>>

\* start(): the upsert by name returns the same runner_id.
Restart(r) ==
  /\ ~up[r]
  /\ up' = [up EXCEPT ![r] = TRUE]
  /\ UNCHANGED <<dbVars, hubCalls, semVars, raising, local, sweep, objVars, task, arrivals,
                 leaked>>

-----------------------------------------------------------------------------

\* Steps a coroutine takes by itself once the call it awaits returns.
Step(t) ==
  \/ PeekHolder(t) \/ Forward(t) \/ BeginEvent(t) \/ MarkProcessed(t)
  \/ SlotGranted(t) \/ RaiseLocked(t) \/ ClaimInstance(t) \/ ClaimRefused(t)
  \/ ReadHolder(t) \/ LockGranted(t) \/ TurnStarts(t) \/ TurnCompletes(t)
  \/ TurnFails(t) \/ TermGranted(t) \/ TermDone(t) \/ ReleaseInstance(t)

Next ==
  \/ \E t \in Tasks : Step(t) \/ ClientGone(t) \/ StoreError(t)
  \/ \E t \in Tasks, r \in Runners, i \in Instances :
       \/ \E k \in Keys : EventArrives(t, r, i, k)
       \/ \E kind \in {"chat", "terminal", "raise"} : Request(t, r, i, kind)
       \/ ApiStop(t, r, i)
  \/ \E t \in Tasks, r \in Runners : ReapIdle(t, r)
  \/ \E i \in Instances : HubStop(i)
  \/ \E c \in hubCalls : HubUpdate(c) \/ \E t \in Tasks : HubStopAnswered(t, c)
  \/ \E r \in Runners : RequeueStale(r) \/ Crash(r) \/ Restart(r)
  \/ \E o \in Objects : IdleElapses(o)

Spec == Init /\ [][Next]_vars

\* Every await returns (PostgreSQL, the model provider and the sandbox answer
\* or time out, asyncio is fair); idle_loop scans for ever and an instance
\* that is left alone reaches its idle timeout.
Fairness ==
  /\ \A t \in Tasks : WF_vars(Step(t))
  /\ \A r \in Runners : WF_vars(\E t \in Tasks : ReapIdle(t, r))
  /\ \A o \in Objects : WF_vars(IdleElapses(o))

FairSpec == Spec /\ Fairness

-----------------------------------------------------------------------------
(* Properties.                                                             *)

Owners(r) == {t \in Tasks : task[t].run = r /\ task[t].pc \in SlotPCs}
Raised(r) == {i \in Instances : local[r][i] # None}

\* Every permit of RunnerService._free is accounted for: it is free, or a
\* coroutine between acquire() and release() owns it, or a raised instance
\* does.  No path of _raise, hand-off, cancellation or stop_instance loses or
\* doubles one; only a release_instance that raised (leaked) takes one away.
SlotAccounting ==
  \A r \in Runners :
    free[r] + Cardinality(Owners(r)) + Cardinality(Raised(r)) + leaked[r] = Slots

Inside(o) == {t \in Tasks : task[t].pc \in LockPCs /\ task[t].obj = o}

\* "async with instance.lock" admits one coroutine: turns of one LocalInstance
\* and its release never overlap, through hand-over, cancellation and stop.
TurnsSerialized ==
  \A o \in Objects : Inside(o) = {t \in Tasks : locked[o] = t}

Turns(i) == {t \in Tasks : task[t].ins = i /\ task[t].pc \in TurnPCs}

\* An instance, hence its checkpoint thread, runs at most one turn in the
\* whole system, across runners and across LocalInstance objects.
SingleTurn == \A i \in Instances : Cardinality(Turns(i)) <= 1

\* A turn runs in a slot: its LocalInstance is raised on its runner, or a stop
\* that popped it still waits for the turn before it gives the slot back.
TurnHasSlot ==
  \A t \in Tasks : task[t].pc \in TurnPCs =>
    \/ local[task[t].run][task[t].ins] = task[t].obj
    \/ \E x \in Tasks : At(x, "stoplock") /\ task[x].obj = task[t].obj

\* A runner that keeps an instance in a slot is the holder in its row, so a
\* claim by another runner fails and Events are forwarded here.
RaisedIsHeld ==
  \A r \in Runners : \A i \in Raised(r) : status[i] = "running" /\ holder[i] = r

\* What openspec/specs/runner/spec.md:34 promises ("однократную обработку События
\* на Экземпляр"): no turn of an Event runs once the Event is marked processed.
\* It does not hold: ProcessedTwice.cfg.
ProcessedOnce ==
  \A t \in Tasks :
    task[t].kind = "event" /\ task[t].pc \in TurnPCs
      => <<task[t].ins, task[t].key>> \notin processed

\* What service.py:407 says of an idle pass ("выгрузить Экземпляры без активности
\* дольше idle-таймаута"): what it stops is past the idle timeout.  It does not
\* hold: UnloadsFresh.cfg.
UnloadsIdle ==
  \A t \in Tasks : task[t].kind = "reap" => idle[task[t].obj]

\* What openspec/specs/runner/spec.md:62 says of an unloaded instance ("слот освобождается"): a runner
\* that keeps no instance and raises or stops none has all its slots.  It does
\* not hold: LostSlot.cfg.
SlotsReturn ==
  \A r \in Runners : Owners(r) = {} /\ Raised(r) = {} => free[r] = Slots

\* The pairs a coroutine's idle pass goes through from here.
Sweeping(t, r) == IF task[t].kind = "reap" THEN sweep[r] ELSE Snapshot(r)

\* reap_idle unloads what is idle: a LocalInstance of its snapshot that it pops
\* is past the timeout and runs no turn and no console command, however long
\* the stops before it were awaited.  (stop_instance goes by the id: an object
\* raised under it since, after a stop by the API, is popped unexamined.)
ReapsOnlyIdle ==
  [][\A t \in Tasks :
       LET o == task[t]'.obj  p == <<task[t]'.ins, o>> IN
       /\ task[t]'.kind = "reap" /\ o # task[t].obj
       /\ p \in Sweeping(t, task[t]'.run)
       => idle[o] /\ locked[o] = None /\ ~TermHeld(o)]_vars

\* Every Event a runner accepted, and every stop, comes to an end: nobody
\* waits for ever for a slot, the raise lock or an instance's lock.
EventSettles == \A t \in Tasks : task[t].pc # "none" ~> task[t].pc = "none"

=============================================================================
