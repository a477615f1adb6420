------------------------------ MODULE Delegation ------------------------------
(***************************************************************************)
(* The task tool of the lead agent.  One reply of the lead may call it     *)
(* several times; the calls run concurrently, each waits for a slot of the *)
(* turn's SubagentCapacity (an asyncio.Semaphore behind a bounded, timed   *)
(* queue), runs its subagent under a timeout, and ends in exactly one      *)
(* terminal event and, unless the turn is cancelled, one tool message.     *)
(*                                                                         *)
(* A coroutine suspended in acquire() is a waiter with a future; setting   *)
(* or cancelling the future and the coroutine's next step are different    *)
(* moments, and everything else may happen between them.                   *)
(***************************************************************************)
EXTENDS Integers, Sequences, FiniteSets, SequencesExt

CONSTANTS
  Tasks,          \* tool call ids of the turn's delegations
  MaxConcurrent,  \* SubagentLimitMiddleware: delegations per lead reply
  RunLimits,      \* values of max_running to try
  MaxQueued,
  MaxProgress     \* bound on the progress events of one delegation

ASSUME DelegationAssumption ==
  /\ MaxConcurrent \in Nat \ {0} /\ RunLimits \subseteq Nat \ {0}
  /\ MaxQueued \in Nat /\ MaxProgress \in Nat
  /\ IsFiniteSet(Tasks)

VARIABLES
  maxRunning,  \* max_running of the turn's SubagentCapacity
  turn,        \* "open", or "cancelled" by a stop of the instance
  pc,          \* new, called, waiting, running, over
  value,       \* the semaphore's free permits
  waiters,     \* the semaphore's waiters, oldest first
  future,      \* the waiter's future: none, pending, granted, cancelled
  queued,      \* SubagentCapacity._queued
  cut,         \* why the coroutine will be interrupted: none, timeout, turn
  events,      \* custom-stream events of each delegation
  reply        \* status of the tool message the lead gets, or "none"

vars == <<maxRunning, turn, pc, value, waiters, future, queued, cut, events, reply>>
sem == <<value, waiters, future, queued>>

Terminal == {"completed", "failed", "timed_out", "cancelled"}
-----------------------------------------------------------------------------
(* asyncio.Semaphore.locked: no permit, or somebody is already waiting.    *)
Locked == value = 0 \/ \E i \in DOMAIN waiters : future[waiters[i]] # "cancelled"

(* Semaphore._wake_up_next: of the futures in line that are pending, the   *)
(* oldest, most of them if so many wait, are granted a free permit each.   *)
Grant(free, most, line, fut) ==
  LET pending == {i \in DOMAIN line : fut[line[i]] = "pending"}
      n == IF most < Cardinality(pending) THEN most ELSE Cardinality(pending)
  IN  \E woken \in SUBSET pending :
        /\ Cardinality(woken) = n
        /\ \A i \in woken, j \in pending : j < i => j \in woken
        /\ value' = free - n
        /\ future' = [s \in Tasks |->
                        IF \E i \in woken : line[i] = s THEN "granted" ELSE fut[s]]

(* Semaphore.release: one permit, one waiter.                              *)
Release ==
  /\ Grant(value + 1, 1, waiters, future)
  /\ UNCHANGED <<waiters, queued>>

(* The terminal event, and the tool message unless the call is re-raised   *)
(* as cancelled.                                                           *)
Ends(t, status) ==
  /\ pc' = [pc EXCEPT ![t] = "over"]
  /\ cut' = [cut EXCEPT ![t] = "none"]
  /\ events' = [events EXCEPT ![t] = Append(@, status)]
  /\ reply' = [reply EXCEPT ![t] = IF status = "cancelled" THEN @ ELSE status]
-----------------------------------------------------------------------------
\* mutant: the semaphore is made one short
InitOneShort ==
  /\ maxRunning \in RunLimits /\ value = maxRunning - 1
  /\ turn = "open" /\ waiters = <<>> /\ queued = 0
  /\ pc = [t \in Tasks |-> "new"]
  /\ future = [t \in Tasks |-> "none"]
  /\ cut = [t \in Tasks |-> "none"]
  /\ events = [t \in Tasks |-> <<>>]
  /\ reply = [t \in Tasks |-> "none"]

Init ==
  /\ maxRunning \in RunLimits /\ value = maxRunning
  /\ turn = "open" /\ waiters = <<>> /\ queued = 0
  /\ pc = [t \in Tasks |-> "new"]
  /\ future = [t \in Tasks |-> "none"]
  /\ cut = [t \in Tasks |-> "none"]
  /\ events = [t \in Tasks |-> <<>>]
  /\ reply = [t \in Tasks |-> "none"]

(* A lead reply calls the tool; the next one comes when all have replied.  *)
LeadDelegates(batch) ==
  /\ turn = "open" /\ batch # {} /\ Cardinality(batch) <= MaxConcurrent
  /\ \A t \in Tasks : pc[t] \in {"new", "over"}
  /\ \A t \in batch : pc[t] = "new"
  /\ pc' = [t \in Tasks |-> IF t \in batch THEN "called" ELSE pc[t]]
  /\ UNCHANGED <<maxRunning, turn, sem, cut, events, reply>>

(* slot() with no permit and a full queue: SubagentCapacityRejected.  The   *)
(* registry has one type, which any name resolves to                       *)
(* (resolve_subagent_config), so every call comes this far.                *)
Rejected(t) ==
  /\ pc[t] = "called" /\ Locked /\ queued >= MaxQueued
  /\ pc' = [pc EXCEPT ![t] = "over"]
  /\ events' = [events EXCEPT ![t] = <<"started", "failed">>]
  /\ reply' = [reply EXCEPT ![t] = "failed"]
  /\ UNCHANGED <<maxRunning, turn, sem, cut>>

(* slot() with a free permit: acquire() does not suspend.                  *)
AcquiresNow(t) ==
  /\ pc[t] = "called" /\ ~Locked
  /\ value' = value - 1
  /\ pc' = [pc EXCEPT ![t] = "running"]
  /\ events' = [events EXCEPT ![t] = <<"started">>]
  /\ UNCHANGED <<maxRunning, turn, waiters, future, queued, cut, reply>>

\* mutant: the newest waits at the head of the line
WaitsFirst(t) ==
  /\ pc[t] = "called" /\ Locked /\ queued < MaxQueued
  /\ queued' = queued + 1
  /\ waiters' = <<t>> \o waiters
  /\ future' = [future EXCEPT ![t] = "pending"]
  /\ pc' = [pc EXCEPT ![t] = "waiting"]
  /\ events' = [events EXCEPT ![t] = <<"started">>]
  /\ UNCHANGED <<maxRunning, turn, value, cut, reply>>

Waits(t) ==
  /\ pc[t] = "called" /\ Locked /\ queued < MaxQueued
  /\ queued' = queued + 1
  /\ waiters' = Append(waiters, t)
  /\ future' = [future EXCEPT ![t] = "pending"]
  /\ pc' = [pc EXCEPT ![t] = "waiting"]
  /\ events' = [events EXCEPT ![t] = <<"started">>]
  /\ UNCHANGED <<maxRunning, turn, value, cut, reply>>

LeavesLine(t) ==
  \E n \in DOMAIN waiters : waiters[n] = t /\ waiters' = RemoveAt(waiters, n)

\* mutant: a grant that a cancellation overtook keeps its permit
WaiterKeepsGrant(t) ==
  /\ pc[t] = "waiting" /\ future[t] # "pending"
  /\ queued' = queued - 1
  /\ LeavesLine(t)
  /\ Grant(value, value, waiters', [future EXCEPT ![t] = "none"])
  /\ CASE cut[t] = "none" ->
            pc' = [pc EXCEPT ![t] = "running"] /\ UNCHANGED <<cut, events, reply>>
       [] cut[t] = "timeout" -> Ends(t, "failed")
       [] cut[t] = "turn" -> Ends(t, "cancelled")
  /\ UNCHANGED <<maxRunning, turn>>

(* The waiter's coroutine runs again.  A grant that a cancellation         *)
(* overtook gives its permit back; either way the permits that are free    *)
(* wake the next in line, and _queued goes down.                           *)
WaiterResumes(t) ==
  /\ pc[t] = "waiting" /\ future[t] # "pending"
  /\ queued' = queued - 1
  /\ LeavesLine(t)
  /\ LET back == IF cut[t] # "none" /\ future[t] = "granted" THEN 1 ELSE 0
     IN  Grant(value + back, value + back, waiters', [future EXCEPT ![t] = "none"])
  /\ CASE cut[t] = "none" ->
            pc' = [pc EXCEPT ![t] = "running"] /\ UNCHANGED <<cut, events, reply>>
       [] cut[t] = "timeout" -> Ends(t, "failed")
       [] cut[t] = "turn" -> Ends(t, "cancelled")
  /\ UNCHANGED <<maxRunning, turn>>

Cancelled(fut) == IF fut = "pending" THEN "cancelled" ELSE fut

\* mutant: only the wait for a slot is timed
QueueTimeoutOnly(t) ==
  /\ pc[t] = "waiting" /\ cut[t] = "none"
  /\ cut' = [cut EXCEPT ![t] = "timeout"]
  /\ future' = [future EXCEPT ![t] = Cancelled(@)]
  /\ UNCHANGED <<maxRunning, turn, pc, value, waiters, queued, events, reply>>

(* queue_timeout_seconds, or the execution timeout of wait_for, elapses.   *)
TimeoutElapses(t) ==
  /\ pc[t] \in {"waiting", "running"} /\ cut[t] = "none"
  /\ cut' = [cut EXCEPT ![t] = "timeout"]
  /\ future' = [future EXCEPT ![t] = Cancelled(@)]
  /\ UNCHANGED <<maxRunning, turn, pc, value, waiters, queued, events, reply>>

Progress(t) ==
  /\ pc[t] = "running" /\ cut[t] = "none" /\ Len(events[t]) <= MaxProgress
  /\ events' = [events EXCEPT ![t] = Append(@, "running")]
  /\ UNCHANGED <<maxRunning, turn, pc, sem, cut, reply>>

(* arun returns the subagent's result and the slot is released.            *)
RunReturns(t, status) ==
  /\ pc[t] = "running" /\ cut[t] = "none"
  /\ Release
  /\ Ends(t, status)
  /\ UNCHANGED <<maxRunning, turn>>

\* mutant: an interrupted run sends no terminal event of its own
RunUnwindsSilently(t) ==
  /\ pc[t] = "running" /\ cut[t] # "none"
  /\ Release
  /\ pc' = [pc EXCEPT ![t] = "over"] /\ cut' = [cut EXCEPT ![t] = "none"]
  /\ reply' = [reply EXCEPT ![t] = IF cut[t] = "timeout" THEN "timed_out" ELSE @]
  /\ UNCHANGED <<maxRunning, turn, events>>

(* The interrupted arun has unwound; the slot is released on the way out.  *)
RunUnwinds(t) ==
  /\ pc[t] = "running" /\ cut[t] # "none"
  /\ Release
  /\ Ends(t, IF cut[t] = "timeout" THEN "timed_out" ELSE "cancelled")
  /\ UNCHANGED <<maxRunning, turn>>

(* stop_instance cancels the turn: every suspended call is interrupted and *)
(* a call whose coroutine has not run yet never does.                      *)
TurnCancelled ==
  /\ turn = "open" /\ turn' = "cancelled"
  /\ pc' = [t \in Tasks |-> IF pc[t] = "called" THEN "over" ELSE pc[t]]
  /\ cut' = [t \in Tasks |-> IF pc[t] \in {"waiting", "running"} THEN "turn" ELSE cut[t]]
  /\ future' = [t \in Tasks |-> Cancelled(future[t])]
  /\ UNCHANGED <<maxRunning, value, waiters, queued, events, reply>>

Next ==
  \/ \E batch \in SUBSET Tasks : LeadDelegates(batch)
  \/ \E t \in Tasks :
       \/ Rejected(t) \/ AcquiresNow(t) \/ Waits(t)
       \/ WaiterResumes(t) \/ TimeoutElapses(t) \/ Progress(t) \/ RunUnwinds(t)
       \/ \E status \in {"completed", "failed"} : RunReturns(t, status)
  \/ TurnCancelled

Spec == Init /\ [][Next]_vars

(* The event loop runs every ready coroutine and fires every timer.  That  *)
(* a subagent returns by itself is not assumed.                            *)
FairSpec ==
  /\ Spec
  /\ \A t \in Tasks :
       /\ WF_vars(Rejected(t) \/ AcquiresNow(t) \/ Waits(t))
       /\ WF_vars(WaiterResumes(t)) /\ WF_vars(RunUnwinds(t))
       /\ WF_vars(TimeoutElapses(t))
-----------------------------------------------------------------------------
Holding == {t \in Tasks : pc[t] = "running" \/ future[t] = "granted"}

(* Every variable keeps its type, and _queued is the number of suspended   *)
(* acquire() calls, at most max_queued (capacity.py:41-53).                *)
TypeOK ==
  /\ maxRunning \in RunLimits /\ turn \in {"open", "cancelled"}
  /\ pc \in [Tasks -> {"new", "called", "waiting", "running", "over"}]
  /\ value \in 0..maxRunning
  /\ future \in [Tasks -> {"none", "pending", "granted", "cancelled"}]
  /\ cut \in [Tasks -> {"none", "timeout", "turn"}]
  /\ reply \in [Tasks -> Terminal \cup {"none"}]
  /\ waiters \in Seq(Tasks) /\ ToSet(waiters) = {t \in Tasks : pc[t] = "waiting"}
  /\ queued = Len(waiters) /\ queued <= MaxQueued

(* No permit is lost or made up: timeouts, cancellations and grants that   *)
(* meet leave as many permits as there are slots (capacity.py:46-56).      *)
PermitsConserved == value + Cardinality(Holding) = maxRunning

(* Every delegation that started ends its event stream with exactly one    *)
(* terminal event, nothing follows it, and the lead is told the same       *)
(* status, or nothing when it was cancelled (task.py:124-190).             *)
OneTerminal ==
  \A t \in Tasks :
    LET last == Len(events[t])
    IN  /\ {n \in DOMAIN events[t] : events[t][n] \in Terminal}
             = IF pc[t] = "over" /\ last > 0 THEN {last} ELSE {}
        /\ pc[t] = "over" /\ last > 0 =>
             ((reply[t] = events[t][last]) <=> (events[t][last] # "cancelled"))

(* _lead_features gives the lead's limit and the capacity one number       *)
(* (graph.py:168-190): then no delegation of the lead ever waits for a     *)
(* slot or is refused one.                                                 *)
LeadNeverQueues ==
  MaxConcurrent <= maxRunning =>
    \A t \in Tasks : pc[t] # "waiting" /\ (pc[t] = "called" => ~Locked)

Lined == {t \in Tasks : future[t] = "pending"}

(* Who is ahead of whom in line.                                           *)
Ahead ==
  {p \in Lined \X Lined :
     \E i, j \in DOMAIN waiters : i < j /\ waiters[i] = p[1] /\ waiters[j] = p[2]}

(* SubagentCapacity implements the admission pool it is documented to be.  *)
Pool == INSTANCE AdmissionPool
          WITH Clients <- Tasks, LineBound <- MaxQueued, limit <- maxRunning,
               holders <- Holding, line <- Lined, ahead <- Ahead

ImplementsPool == Pool!Spec

(* Every call of the task tool ends, a subagent that hangs included: the   *)
(* queue and the execution are both timed (task.py:126-145).               *)
DelegationEnds == \A t \in Tasks : (pc[t] = "called") ~> (pc[t] = "over")
=============================================================================
