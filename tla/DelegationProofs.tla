--------------------------- MODULE DelegationProofs ---------------------------
(* Theorems about Delegation, for every number of delegations, every limit  *)
(* and every length of the queue; Delegation implements AdmissionPool.      *)
EXTENDS Delegation, FiniteSetTheorems, SequenceTheorems, TLAPS

-----------------------------------------------------------------------------
(* The inductive invariant.                                                *)

\* A waiter stands in line once.  A future is what a suspended acquire() has;
\* it is cancelled only together with its coroutine's interruption.
Line ==
  /\ \A i, j \in DOMAIN waiters : waiters[i] = waiters[j] => i = j
  /\ \A t \in Tasks :
       /\ future[t] # "none" <=> pc[t] = "waiting"
       /\ future[t] = "cancelled" => cut[t] # "none"
       /\ future[t] = "pending" => cut[t] = "none"
       /\ cut[t] # "none" => pc[t] \in {"waiting", "running"}

EventKinds == {"started", "running"} \cup Terminal

Ended(e) == {n \in DOMAIN e : e[n] \in Terminal}

\* Events e and reply r are those of a delegation at p.
Tells(p, e, r) ==
  /\ e \in Seq(EventKinds)
  /\ p \in {"new", "called"} => e = <<>>
  /\ p \in {"waiting", "running"} => Len(e) > 0
  /\ p # "over" => Ended(e) = {} /\ r = "none"
  /\ p = "over" => /\ Ended(e) = IF Len(e) > 0 THEN {Len(e)} ELSE {}
                   /\ Len(e) > 0 => ((r = e[Len(e)]) <=> (e[Len(e)] # "cancelled"))

\* The events of a delegation follow its steps.
Story(t) == Tells(pc[t], events[t], reply[t])

\* The delegations of one lead reply, and that they do not queue when the
\* capacity is no smaller than the lead's limit.
Active == {t \in Tasks : pc[t] \in {"called", "waiting", "running"}}
Lead ==
  /\ Cardinality(Active) <= MaxConcurrent
  /\ MaxConcurrent <= maxRunning => \A t \in Tasks : pc[t] # "waiting"

Inv ==
  /\ TypeOK /\ events = [t \in Tasks |-> events[t]]
  /\ Line /\ PermitsConserved
  /\ \A t \in Tasks : Story(t)
  /\ Lead

-----------------------------------------------------------------------------
(* Lines.                                                                  *)

Before(s, a, b) == \E i, j \in DOMAIN s : i < j /\ s[i] = a /\ s[j] = b

\* A waiter that leaves the line shifts the ones behind it.
LEMMA RemoveAtLemma ==
  ASSUME NEW s \in Seq(Tasks), NEW n \in DOMAIN s
  PROVE  /\ RemoveAt(s, n) \in Seq(Tasks) /\ Len(RemoveAt(s, n)) = Len(s) - 1
         /\ \A i \in 1 .. Len(s) - 1 : RemoveAt(s, n)[i] = IF i < n THEN s[i] ELSE s[i + 1]
<1> DEFINE front == SubSeq(s, 1, n - 1)
           rear == SubSeq(s, n + 1, Len(s))
<1>1. Len(s) \in Nat /\ n \in 1 .. Len(s) /\ DOMAIN s = 1 .. Len(s)
  OBVIOUS
<1>2. front \in Seq(Tasks) /\ Len(front) = n - 1 /\ \A i \in 1 .. n - 1 : front[i] = s[i]
  BY <1>1
<1>3. /\ rear \in Seq(Tasks) /\ Len(rear) = Len(s) - n
      /\ \A i \in 1 .. Len(s) - n : rear[i] = s[n + i]
  BY <1>1
<1>4. RemoveAt(s, n) = front \o rear
  BY DEF RemoveAt
<1> HIDE DEF front, rear
<1>5. RemoveAt(s, n) \in Seq(Tasks) /\ Len(RemoveAt(s, n)) = Len(s) - 1
  <2>1. front \o rear \in Seq(Tasks) /\ Len(front \o rear) = Len(front) + Len(rear)
    BY <1>2, <1>3, ConcatProperties
  <2> QED
    BY <1>1, <1>2, <1>3, <1>4, <2>1
<1>6. ASSUME NEW i \in 1 .. Len(s) - 1
      PROVE  RemoveAt(s, n)[i] = IF i < n THEN s[i] ELSE s[i + 1]
  <2>1. CASE i < n
    <3>1. i \in 1 .. n - 1
      BY <1>1, <2>1
    <3> QED
      BY <2>1, <3>1, <1>1, <1>2, <1>3, <1>4
  <2>2. CASE ~(i < n)
    <3>1. i - (n - 1) \in 1 .. Len(s) - n /\ n + (i - (n - 1)) = i + 1
      BY <1>1, <2>2
    <3>2. (front \o rear)[i] = rear[i - (n - 1)]
      BY <1>1, <1>2, <1>3, <2>2, <3>1
    <3> QED
      BY <1>3, <1>4, <2>2, <3>1, <3>2
  <2> QED
    BY <2>1, <2>2
<1> QED
  BY <1>5, <1>6

LEMMA LeftLine ==
  ASSUME NEW s \in Seq(Tasks), NEW n \in DOMAIN s, NEW r, r = RemoveAt(s, n),
         \A i, j \in DOMAIN s : s[i] = s[j] => i = j
  PROVE  /\ r \in Seq(Tasks) /\ Len(r) = Len(s) - 1
         /\ \A i, j \in DOMAIN r : r[i] = r[j] => i = j
         /\ ToSet(r) = ToSet(s) \ {s[n]}
         /\ \A a, b \in Tasks \ {s[n]} : Before(r, a, b) <=> Before(s, a, b)
<1>1. /\ r \in Seq(Tasks) /\ Len(r) = Len(s) - 1
      /\ \A i \in 1 .. Len(s) - 1 : r[i] = IF i < n THEN s[i] ELSE s[i + 1]
  BY RemoveAtLemma
<1>2. Len(s) \in Nat /\ n \in 1 .. Len(s) /\ DOMAIN s = 1 .. Len(s) /\ DOMAIN r = 1 .. Len(s) - 1
  BY <1>1
<1> DEFINE to(i) == IF i < n THEN i ELSE i + 1
           from(i) == IF i < n THEN i ELSE i - 1
<1>3. \A i \in DOMAIN r : to(i) \in DOMAIN s /\ to(i) # n /\ r[i] = s[to(i)]
  BY <1>1, <1>2
<1>4. \A i \in DOMAIN s \ {n} : from(i) \in DOMAIN r /\ to(from(i)) = i
  BY <1>2
<1>5. \A i, j \in DOMAIN r : (i < j <=> to(i) < to(j)) /\ (to(i) = to(j) => i = j)
  BY <1>2
<1>6. \A i, j \in DOMAIN s \ {n} : i < j => from(i) < from(j)
  BY <1>2
<1> HIDE DEF to, from
<1>7. \A i, j \in DOMAIN r : r[i] = r[j] => i = j
  BY <1>3, <1>5
<1>8. ToSet(r) = ToSet(s) \ {s[n]}
  <2>1. \A x \in ToSet(r) : x \in ToSet(s) /\ x # s[n]
    BY <1>2, <1>3 DEF ToSet
  <2>2. \A x \in ToSet(s) \ {s[n]} : x \in ToSet(r)
    BY <1>3, <1>4 DEF ToSet
  <2> QED
    BY <2>1, <2>2
<1>9. ASSUME NEW a \in Tasks \ {s[n]}, NEW b \in Tasks \ {s[n]}
      PROVE  Before(r, a, b) <=> Before(s, a, b)
  <2>1. Before(r, a, b) => Before(s, a, b)
    BY <1>3, <1>5 DEF Before
  <2>2. ASSUME Before(s, a, b)
        PROVE  Before(r, a, b)
    <3>1. PICK i, j \in DOMAIN s : i < j /\ s[i] = a /\ s[j] = b
      BY <2>2 DEF Before
    <3>2. i # n /\ j # n
      BY <3>1
    <3>3. from(i) < from(j) /\ r[from(i)] = a /\ r[from(j)] = b
      BY <3>1, <3>2, <1>3, <1>4, <1>6
    <3> QED
      BY <3>2, <3>3, <1>4 DEF Before
  <2> QED
    BY <2>1, <2>2
<1> QED
  BY <1>1, <1>7, <1>8, <1>9

\* What a wake-up grants: permits there are, to the front of the line.
Granted(up, free, line, fut) ==
  /\ up \subseteq {line[i] : i \in DOMAIN line} /\ Cardinality(up) \in 0 .. free
  /\ value' = free - Cardinality(up)
  /\ \A s \in up : fut[s] = "pending"
  /\ future' = [s \in Tasks |-> IF s \in up THEN "granted" ELSE fut[s]]
  /\ \A a, b \in Tasks : Before(line, a, b) /\ b \in up /\ fut[a] = "pending" => a \in up

LEMMA GrantLemma ==
  ASSUME NEW free \in Nat, NEW most \in Nat, most <= free,
         NEW line \in Seq(Tasks), \A i, j \in DOMAIN line : line[i] = line[j] => i = j,
         NEW fut, Grant(free, most, line, fut)
  PROVE  \E up : Granted(up, free, line, fut)
<1> DEFINE pending == {i \in DOMAIN line : fut[line[i]] = "pending"}
           m == IF most < Cardinality(pending) THEN most ELSE Cardinality(pending)
<1>1. PICK woken \in SUBSET pending :
        /\ Cardinality(woken) = m
        /\ \A i \in woken, j \in pending : j < i => j \in woken
        /\ value' = free - m
        /\ future' = [s \in Tasks |->
                        IF \E i \in woken : line[i] = s THEN "granted" ELSE fut[s]]
  BY DEF Grant
<1> DEFINE up == {line[i] : i \in woken}
           f == [i \in woken |-> line[i]]
<1>2. DOMAIN line = 1 .. Len(line) /\ Len(line) \in Nat
  OBVIOUS
<1>3. IsFiniteSet(DOMAIN line)
  BY <1>2, FS_Interval
<1>4. IsFiniteSet(pending) /\ IsFiniteSet(woken)
  <2>1. pending \in SUBSET DOMAIN line /\ woken \in SUBSET DOMAIN line
    OBVIOUS
  <2> QED
    BY <1>3, <2>1, FS_Subset
<1>5. Cardinality(pending) \in Nat
  BY <1>4, FS_CardinalityType
<1>6. f \in Bijection(woken, up)
  <2>1. f \in [woken -> up] /\ \A s \in up : \E i \in woken : f[i] = s
    OBVIOUS
  <2>2. \A i, j \in woken : f[i] = f[j] => i = j
    OBVIOUS
  <2> QED
    BY <2>1, <2>2 DEF Bijection, Injection, Surjection, IsInjective
<1>7. IsFiniteSet(up) /\ Cardinality(up) = m
  BY <1>1, <1>4, <1>6, FS_Bijection DEF ExistsBijection
<1>8. m \in 0 .. free
  BY <1>5
<1>9. ASSUME NEW a \in Tasks, NEW b \in Tasks, Before(line, a, b), b \in up, fut[a] = "pending"
      PROVE  a \in up
  <2>1. PICK i, j \in DOMAIN line : i < j /\ line[i] = a /\ line[j] = b
    BY <1>9 DEF Before
  <2>2. PICK k \in woken : line[k] = b
    BY <1>9
  <2>3. j = k /\ i \in pending
    BY <2>1, <2>2, <1>9
  <2>4. i \in woken
    BY <1>1, <2>1, <2>3
  <2> QED
    BY <2>1, <2>4
<1>10. \A s \in Tasks : (\E i \in woken : line[i] = s) <=> s \in up
  OBVIOUS
<1>11. future' = [s \in Tasks |-> IF s \in up THEN "granted" ELSE fut[s]]
  BY <1>1, <1>10
<1>12. up \subseteq {line[i] : i \in DOMAIN line} /\ \A s \in up : fut[s] = "pending"
  OBVIOUS
<1> HIDE DEF m, up, pending
<1> QED
  BY <1>1, <1>7, <1>8, <1>9, <1>11, <1>12 DEF Granted

-----------------------------------------------------------------------------
(* Permits.                                                                *)

LEMMA Finite ==
  ASSUME NEW S \in SUBSET Tasks
  PROVE  IsFiniteSet(S) /\ Cardinality(S) \in Nat
BY FS_Subset, FS_CardinalityType, DelegationAssumption

\* A holder that leaves gives its permit back, and whoever moves up takes one.
LEMMA Conserve ==
  ASSUME PermitsConserved, value \in Nat, maxRunning \in Nat, maxRunning' = maxRunning,
         NEW gone \in SUBSET Holding, NEW up \in SUBSET Tasks, up \cap Holding = {},
         value' = value + Cardinality(gone) - Cardinality(up),
         Holding' = (Holding \ gone) \cup up
  PROVE  PermitsConserved'
<1> DEFINE rest == Holding \ gone
<1>1. Holding \in SUBSET Tasks /\ rest \in SUBSET Tasks /\ gone \in SUBSET Tasks
  BY DEF Holding
<1>2. /\ IsFiniteSet(rest) /\ IsFiniteSet(gone) /\ IsFiniteSet(up)
      /\ Cardinality(rest) \in Nat /\ Cardinality(gone) \in Nat /\ Cardinality(up) \in Nat
  BY <1>1, Finite
<1>3. Cardinality(rest \cup up) = Cardinality(rest) + Cardinality(up)
  <2>1. rest \cap up = {}
    OBVIOUS
  <2>2. Cardinality(rest \cap up) = 0
    BY <2>1, FS_EmptySet
  <2>3. Cardinality(rest \cup up) = Cardinality(rest) + Cardinality(up) - Cardinality(rest \cap up)
    BY <1>2, FS_Union
  <2> HIDE DEF rest
  <2> QED
    BY <1>2, <2>2, <2>3
<1>4. Cardinality(Holding) = Cardinality(rest) + Cardinality(gone)
  <2>1. rest \cap gone = {} /\ rest \cup gone = Holding
    OBVIOUS
  <2>2. Cardinality(rest \cap gone) = 0
    BY <2>1, FS_EmptySet
  <2>3. Cardinality(rest \cup gone)
          = Cardinality(rest) + Cardinality(gone) - Cardinality(rest \cap gone)
    BY <1>2, FS_Union
  <2>4. Cardinality(Holding) = Cardinality(rest \cup gone)
    BY <2>1
  <2> HIDE DEF rest
  <2> QED
    BY <1>2, <2>2, <2>3, <2>4
<1>5. Cardinality(Holding') = Cardinality(rest) + Cardinality(up)
  BY <1>3
<1> HIDE DEF rest
<1> QED
  BY <1>2, <1>4, <1>5 DEF PermitsConserved

\* Free permits are never more than there are slots.
LEMMA PermitsBound ==
  ASSUME PermitsConserved', value' \in Nat, maxRunning' \in Nat
  PROVE  value' \in 0 .. maxRunning' /\ Cardinality(Holding') \in Nat
         /\ Cardinality(Holding') <= maxRunning'
<1>1. Holding' \in SUBSET Tasks
  BY DEF Holding
<1>2. Cardinality(Holding') \in Nat
  BY <1>1, Finite
<1>3. value' + Cardinality(Holding') = maxRunning'
  BY DEF PermitsConserved
<1> QED
  BY <1>2, <1>3

\* Whoever waits with a pending future, in line.
LEMMA LinedWait ==
  ASSUME Inv
  PROVE  /\ Lined \subseteq {waiters[i] : i \in DOMAIN waiters}
         /\ \A t \in Lined : pc[t] = "waiting" /\ cut[t] = "none"
         /\ Lined \cap Holding = {}
         /\ value \in Nat /\ maxRunning \in Nat \ {0}
         /\ waiters \in Seq(Tasks) /\ \A i, j \in DOMAIN waiters : waiters[i] = waiters[j] => i = j
<1>1. \A t \in Lined : pc[t] = "waiting" /\ cut[t] = "none"
  BY DEF Inv, Line, Lined
<1>2. Lined \subseteq {waiters[i] : i \in DOMAIN waiters}
  BY <1>1 DEF Inv, TypeOK, ToSet, Lined
<1>3. value \in Nat /\ maxRunning \in Nat \ {0} /\ waiters \in Seq(Tasks)
  BY DelegationAssumption DEF Inv, TypeOK
<1> QED
  BY <1>1, <1>2, <1>3 DEF Inv, Line, Lined, Holding

\* The slot of a run is released.
LEMMA ReleaseEffect ==
  ASSUME Inv, NEW t \in Tasks, pc[t] = "running", Release, NEW status, Ends(t, status)
  PROVE  \E up \in SUBSET Lined :
           /\ value' = value + Cardinality({t}) - Cardinality(up) /\ value' \in Nat
           /\ future' = [s \in Tasks |-> IF s \in up THEN "granted" ELSE future[s]]
           /\ \A p \in Ahead : p[2] \in up => p[1] \in up
           /\ Holding' = (Holding \ {t}) \cup up /\ Lined' = Lined \ up /\ t \in Holding
           /\ UNCHANGED <<waiters, queued>>
<1>1. /\ value \in Nat /\ waiters \in Seq(Tasks)
      /\ \A i, j \in DOMAIN waiters : waiters[i] = waiters[j] => i = j
  BY LinedWait
<1>2. Grant(value + 1, 1, waiters, future) /\ UNCHANGED <<waiters, queued>>
  BY DEF Release
<1>3. PICK up : Granted(up, value + 1, waiters, future)
  <2>1. value + 1 \in Nat /\ 1 \in Nat /\ 1 <= value + 1
    BY <1>1
  <2> QED
    BY <1>1, <1>2, <2>1, GrantLemma
<1>4. up \in SUBSET Lined
  BY <1>1, <1>3 DEF Lined, Granted
<1>5. \A p \in Ahead : p[2] \in up => p[1] \in up
  BY <1>3 DEF Ahead, Before, Lined, Granted
<1>6. Cardinality({t}) = 1
  BY FS_Singleton
<1>7. /\ pc' = [pc EXCEPT ![t] = "over"]
      /\ pc \in [Tasks -> {"new", "called", "waiting", "running", "over"}]
  BY DEF Ends, Inv, TypeOK
<1>8. t \in Holding /\ t \notin Lined /\ future[t] = "none"
  BY DEF Holding, Lined, Inv, Line
<1>9. Lined' = Lined \ up
  BY <1>3 DEF Lined, Granted
<1>10. Holding' = (Holding \ {t}) \cup up
  BY <1>3, <1>4, <1>7, <1>8 DEF Holding, Lined, Granted
<1>11. /\ value' = value + Cardinality({t}) - Cardinality(up) /\ value' \in Nat
       /\ future' = [s \in Tasks |-> IF s \in up THEN "granted" ELSE future[s]]
  BY <1>1, <1>3, <1>6 DEF Granted
<1> WITNESS up \in SUBSET Lined
<1> QED
  BY <1>2, <1>5, <1>8, <1>9, <1>10, <1>11

\* A waiter's coroutine runs again.
LEMMA ResumeEffect ==
  ASSUME Inv, NEW t \in Tasks, WaiterResumes(t)
  PROVE  \E up \in SUBSET Lined, gone \in SUBSET {t} :
           /\ gone \subseteq Holding /\ t \notin Lined
           /\ value' = value + Cardinality(gone) - Cardinality(up) /\ value' \in Nat
           /\ future' = [s \in Tasks |-> IF s \in up THEN "granted"
                                         ELSE IF s = t THEN "none" ELSE future[s]]
           /\ \A p \in Ahead : p[2] \in up => p[1] \in up
           /\ Holding' = (Holding \ gone) \cup up /\ Lined' = Lined \ up
           /\ waiters' \in Seq(Tasks) /\ Len(waiters') = Len(waiters) - 1
           /\ \A i, j \in DOMAIN waiters' : waiters'[i] = waiters'[j] => i = j
           /\ ToSet(waiters') = ToSet(waiters) \ {t}
           /\ \A a, b \in Tasks \ {t} : Before(waiters', a, b) <=> Before(waiters, a, b)
<1> DEFINE back == IF cut[t] # "none" /\ future[t] = "granted" THEN 1 ELSE 0
           gone == IF cut[t] # "none" /\ future[t] = "granted" THEN {t} ELSE {}
           fut == [future EXCEPT ![t] = "none"]
<1>1. /\ pc[t] = "waiting" /\ future[t] # "pending"
      /\ Grant(value + back, value + back, waiters', fut)
  BY DEF WaiterResumes
<1>2. /\ value \in Nat /\ waiters \in Seq(Tasks)
      /\ \A i, j \in DOMAIN waiters : waiters[i] = waiters[j] => i = j
  BY LinedWait
<1>3. PICK n \in DOMAIN waiters : waiters[n] = t /\ waiters' = RemoveAt(waiters, n)
  BY DEF WaiterResumes, LeavesLine
<1>4. /\ waiters' \in Seq(Tasks) /\ Len(waiters') = Len(waiters) - 1
      /\ \A i, j \in DOMAIN waiters' : waiters'[i] = waiters'[j] => i = j
      /\ ToSet(waiters') = ToSet(waiters) \ {t}
      /\ \A a, b \in Tasks \ {t} : Before(waiters', a, b) <=> Before(waiters, a, b)
  BY <1>2, <1>3, LeftLine
<1>5. Cardinality(gone) = back /\ value + back \in Nat /\ back \in Nat
  <2>1. Cardinality({t}) = 1 /\ Cardinality({}) = 0
    BY FS_Singleton, FS_EmptySet
  <2> QED
    BY <1>2, <2>1
<1> HIDE DEF back
<1>6. PICK up : Granted(up, value + back, waiters', fut)
  <2>1. value + back <= value + back
    BY <1>5
  <2> HIDE DEF fut
  <2> QED
    BY <1>1, <1>4, <1>5, <2>1, GrantLemma
<1>7. future \in [Tasks -> {"none", "pending", "granted", "cancelled"}]
  BY DEF Inv, TypeOK
<1>8. fut[t] = "none" /\ \A s \in Tasks \ {t} : fut[s] = future[s]
  BY <1>7
<1>9. up \in SUBSET Lined /\ t \notin up /\ t \notin Lined
  BY <1>1, <1>4, <1>6, <1>8 DEF Lined, Granted
<1>10. future' = [s \in Tasks |-> IF s \in up THEN "granted"
                                  ELSE IF s = t THEN "none" ELSE future[s]]
  BY <1>6, <1>8 DEF Granted
<1> HIDE DEF fut
<1>11. \A p \in Ahead : p[2] \in up => p[1] \in up
  <2> SUFFICES ASSUME NEW p \in Ahead, p[2] \in up PROVE p[1] \in up
    OBVIOUS
  <2>1. p[1] \in Lined /\ p[2] \in Lined /\ Before(waiters, p[1], p[2])
    BY DEF Ahead, Before
  <2>2. p[1] \in Tasks \ {t} /\ p[2] \in Tasks \ {t} /\ fut[p[1]] = "pending"
    BY <2>1, <1>8, <1>9 DEF Lined
  <2> QED
    BY <2>1, <2>2, <1>4, <1>6 DEF Granted
<1>12. Lined' = Lined \ up
  BY <1>1, <1>9, <1>10 DEF Lined
<1>13. pc \in [Tasks -> {"new", "called", "waiting", "running", "over"}]
  BY DEF Inv, TypeOK
<1>14. future[t] \in {"granted", "cancelled"} /\ (future[t] = "cancelled" => cut[t] # "none")
  BY <1>1, <1>7 DEF Inv, Line
<1>15. cut[t] \in {"none", "timeout", "turn"}
  BY DEF Inv, TypeOK
<1>16. /\ \A s \in Tasks \ {t} : pc'[s] = pc[s]
       /\ pc'[t] = IF cut[t] = "none" THEN "running" ELSE "over"
  <2>1. CASE cut[t] = "none"
    BY <2>1, <1>13 DEF WaiterResumes
  <2>2. CASE cut[t] = "timeout"
    BY <2>2, <1>13 DEF WaiterResumes, Ends
  <2>3. CASE cut[t] = "turn"
    BY <2>3, <1>13 DEF WaiterResumes, Ends
  <2> QED
    BY <1>15, <2>1, <2>2, <2>3
<1>17. gone \subseteq Holding /\ gone \in SUBSET {t}
  BY DEF Holding
<1>18. Holding' = (Holding \ gone) \cup up
  <2>1. ASSUME NEW s \in Tasks, s # t
        PROVE  s \in Holding' <=> s \in (Holding \ gone) \cup up
    BY <2>1, <1>9, <1>10, <1>16, <1>17 DEF Holding, Lined
  <2>2. t \in Holding' <=> cut[t] = "none"
    BY <1>9, <1>10, <1>16 DEF Holding
  <2>3. t \in (Holding \ gone) \cup up <=> cut[t] = "none"
    BY <1>1, <1>9, <1>14 DEF Holding
  <2>4. Holding \subseteq Tasks /\ Holding' \subseteq Tasks /\ up \subseteq Tasks
    BY <1>9 DEF Holding, Lined
  <2> QED
    BY <2>1, <2>2, <2>3, <2>4
<1> HIDE DEF gone
<1>19. value' = value + Cardinality(gone) - Cardinality(up) /\ value' \in Nat
  BY <1>2, <1>5, <1>6 DEF Granted
<1>20. up \in SUBSET Lined
  BY <1>9
<1>21. gone \in SUBSET {t}
  BY <1>17
<1> WITNESS up \in SUBSET Lined, gone \in SUBSET {t}
<1> QED
  BY <1>4, <1>9, <1>10, <1>11, <1>12, <1>17, <1>18, <1>19

-----------------------------------------------------------------------------
(* Events.                                                                 *)

PCs == {"new", "called", "waiting", "running", "over"}

LEMMA Types ==
  ASSUME Inv
  PROVE  /\ pc \in [Tasks -> PCs] /\ cut \in [Tasks -> {"none", "timeout", "turn"}]
         /\ future \in [Tasks -> {"none", "pending", "granted", "cancelled"}]
         /\ reply \in [Tasks -> Terminal \cup {"none"}]
         /\ events = [t \in Tasks |-> events[t]]
         /\ \A t \in Tasks : Story(t) /\ events[t] \in Seq(EventKinds)
BY DEF Inv, TypeOK, PCs, Story, Tells

\* Steps that send no event and no reply.
LEMMA Quiet ==
  ASSUME NEW p, NEW q, NEW e, NEW r, Tells(p, e, r),
         \/ p = q
         \/ p = "new" /\ q = "called"
         \/ p = "waiting" /\ q = "running"
         \/ p = "called" /\ q = "over"
  PROVE  Tells(q, e, r)
<1>1. CASE p = q
  BY <1>1
<1>2. CASE p = "new" /\ q = "called"
  BY <1>2 DEF Tells
<1>3. CASE p = "waiting" /\ q = "running"
  BY <1>3 DEF Tells
<1>4. CASE p = "called" /\ q = "over"
  <2>1. e = <<>> /\ Len(e) = 0 /\ Ended(e) = {} /\ e \in Seq(EventKinds)
    BY <1>4 DEF Tells
  <2> QED
    BY <1>4, <2>1 DEF Tells
<1> QED
  BY <1>1, <1>2, <1>3, <1>4

\* The first event, of a call that gets a slot or waits for one.
LEMMA StartsStory ==
  ASSUME Inv, NEW t \in Tasks, pc[t] = "called", NEW next \in {"running", "waiting"},
         pc' = [pc EXCEPT ![t] = next], events' = [events EXCEPT ![t] = <<"started">>],
         reply' = reply
  PROVE  events' = [s \in Tasks |-> events'[s]] /\ \A s \in Tasks : Story(s)'
<1>1. \A s \in Tasks : Tells(pc[s], events[s], reply[s])
  BY Types DEF Story
<1>2. /\ pc'[t] = next /\ events'[t] = <<"started">> /\ reply'[t] = "none"
      /\ events' = [s \in Tasks |-> events'[s]]
      /\ \A s \in Tasks \ {t} : events'[s] = events[s] /\ pc'[s] = pc[s] /\ reply'[s] = reply[s]
  <2>1. reply[t] = "none"
    BY <1>1 DEF Tells
  <2> QED
    BY <2>1, Types
<1>3. <<"started">> \in Seq(EventKinds) /\ Len(<<"started">>) = 1
  BY DEF EventKinds
<1>4. Ended(<<"started">>) = {}
  BY DEF Ended, Terminal
<1>5. Tells(next, <<"started">>, "none")
  <2>1. Len(<<"started">>) > 0
    BY <1>3
  <2>2. next # "over" /\ next \notin {"new", "called"}
    OBVIOUS
  <2> QED
    BY <1>3, <1>4, <2>1, <2>2 DEF Tells
<1>6. \A s \in Tasks : Tells(pc'[s], events'[s], reply'[s])
  BY <1>1, <1>2, <1>5
<1> QED
  BY <1>2, <1>6 DEF Story

\* The last event.
LEMMA EndsStory ==
  ASSUME Inv, NEW t \in Tasks, pc[t] \in {"waiting", "running"}, NEW status \in Terminal,
         Ends(t, status)
  PROVE  /\ events' = [s \in Tasks |-> events'[s]] /\ \A s \in Tasks : Story(s)'
         /\ reply' \in [Tasks -> Terminal \cup {"none"}]
         /\ pc' = [pc EXCEPT ![t] = "over"] /\ cut' = [cut EXCEPT ![t] = "none"]
<1>1. \A s \in Tasks : Tells(pc[s], events[s], reply[s])
  BY Types DEF Story
<1>2. reply[t] = "none" /\ Ended(events[t]) = {} /\ events[t] \in Seq(EventKinds)
  BY <1>1 DEF Tells
<1>3. /\ events' = [events EXCEPT ![t] = Append(@, status)]
      /\ reply' = [reply EXCEPT ![t] = IF status = "cancelled" THEN @ ELSE status]
      /\ pc' = [pc EXCEPT ![t] = "over"] /\ cut' = [cut EXCEPT ![t] = "none"]
  BY DEF Ends
<1>4. /\ events' = [s \in Tasks |-> events'[s]] /\ events'[t] = Append(events[t], status)
      /\ reply'[t] = IF status = "cancelled" THEN "none" ELSE status
      /\ reply' \in [Tasks -> Terminal \cup {"none"}]
      /\ pc'[t] = "over"
      /\ \A s \in Tasks \ {t} : events'[s] = events[s] /\ pc'[s] = pc[s] /\ reply'[s] = reply[s]
  BY <1>2, <1>3, Types
<1>5. PICK e : e = events'[t]
  OBVIOUS
<1>6. PICK n \in Nat : n = Len(events[t])
  BY <1>2
<1>7. /\ e \in Seq(EventKinds) /\ Len(e) = n + 1
      /\ e[n + 1] = status /\ \A i \in 1 .. n : e[i] = events[t][i]
  BY <1>2, <1>4, <1>5, <1>6 DEF EventKinds
<1>8. \A i \in 1 .. n : e[i] \notin Terminal
  BY <1>2, <1>6, <1>7 DEF Ended
<1>9. DOMAIN e = 1 .. n + 1
  BY <1>7
<1>10. Ended(e) = {n + 1}
  BY <1>6, <1>7, <1>8, <1>9 DEF Ended
<1>11. (reply'[t] = status) <=> (status # "cancelled")
  BY <1>4 DEF Terminal
<1>12. Tells("over", e, reply'[t])
  BY <1>6, <1>7, <1>10, <1>11 DEF Tells
<1>13. \A s \in Tasks : Tells(pc'[s], events'[s], reply'[s])
  BY <1>1, <1>4, <1>5, <1>12
<1> QED
  BY <1>3, <1>4, <1>13 DEF Story

\* Only a lead reply makes more delegations active, and only Waits queues one.
LEMMA LeadKept ==
  ASSUME Inv, maxRunning' = maxRunning,
         \A s \in Tasks : pc'[s] \in {"called", "waiting", "running"} =>
                            pc[s] \in {"called", "waiting", "running"},
         MaxConcurrent <= maxRunning =>
           \A s \in Tasks : pc'[s] = "waiting" => pc[s] = "waiting"
  PROVE  Lead'
<1>1. Active' \in SUBSET Active /\ Active \in SUBSET Tasks
  BY DEF Active
<1>2. Cardinality(Active') <= Cardinality(Active)
  BY <1>1, Finite, FS_Subset
<1>3. Cardinality(Active) \in Nat /\ Cardinality(Active') \in Nat
  BY <1>1, Finite
<1>4. Cardinality(Active)' = Cardinality(Active')
  OBVIOUS
<1>5. Cardinality(Active') <= MaxConcurrent
  BY <1>2, <1>3, DelegationAssumption DEF Inv, Lead
<1> QED
  BY <1>5 DEF Inv, Lead

\* A free permit for every delegation of a lead whose limit is the capacity.
LEMMA RoomForLead ==
  ASSUME Inv, MaxConcurrent <= maxRunning, NEW t \in Tasks, pc[t] = "called"
  PROVE  ~Locked
<1>1. \A s \in Tasks : pc[s] # "waiting"
  BY DEF Inv, Lead
<1>2. ToSet(waiters) = {} /\ waiters \in Seq(Tasks)
  BY <1>1 DEF Inv, TypeOK
<1>3. DOMAIN waiters = {}
  BY <1>2 DEF ToSet
<1>4. Holding \cup {t} \in SUBSET Active /\ t \notin Holding /\ Active \in SUBSET Tasks
  BY <1>1 DEF Holding, Active, Inv, Line
<1>5. /\ IsFiniteSet(Holding) /\ Cardinality(Holding) \in Nat
      /\ IsFiniteSet(Active) /\ Cardinality(Active) \in Nat
  <2>1. Holding \in SUBSET Tasks
    BY DEF Holding
  <2> QED
    BY <1>4, <2>1, Finite
<1>6. Cardinality(Holding \cup {t}) = Cardinality(Holding) + 1
  BY <1>4, <1>5, FS_AddElement
<1>7. Cardinality(Holding \cup {t}) <= Cardinality(Active)
  BY <1>4, <1>5, FS_Subset
<1>8. Cardinality(Active) <= MaxConcurrent /\ value + Cardinality(Holding) = maxRunning
  BY DEF Inv, Lead, PermitsConserved
<1>9. value \in Nat /\ maxRunning \in Nat
  BY LinedWait
<1>10. value # 0
  BY <1>5, <1>6, <1>7, <1>8, <1>9, DelegationAssumption
<1> QED
  BY <1>3, <1>10 DEF Locked

-----------------------------------------------------------------------------
(* One lemma per action.                                                   *)

LEMMA InvLead ==
  ASSUME Inv, NEW batch \in SUBSET Tasks, LeadDelegates(batch)
  PROVE  Inv'
<1>1. /\ Cardinality(batch) <= MaxConcurrent
      /\ \A t \in Tasks : pc[t] \in {"new", "over"} /\ (t \in batch => pc[t] = "new")
      /\ pc' = [t \in Tasks |-> IF t \in batch THEN "called" ELSE pc[t]]
      /\ UNCHANGED <<maxRunning, turn, value, waiters, future, queued, cut, events, reply>>
  BY DEF LeadDelegates, sem
<1>2. pc' \in [Tasks -> PCs] /\ \A t \in Tasks : pc'[t] \in {"called", "new", "over"}
  BY <1>1, Types DEF PCs
<1>3. {t \in Tasks : pc'[t] = "waiting"} = {t \in Tasks : pc[t] = "waiting"}
  BY <1>1, <1>2
<1>4. TypeOK'
  BY <1>1, <1>2, <1>3 DEF Inv, TypeOK, PCs
<1>5. Line'
  BY <1>1, <1>2 DEF Inv, Line
<1>6. Holding' = Holding
  BY <1>1, <1>2 DEF Holding
<1>7. PermitsConserved'
  BY <1>1, <1>6 DEF Inv, PermitsConserved
<1>8. \A t \in Tasks : Story(t)'
  <2>1. ASSUME NEW t \in Tasks
        PROVE  Tells(pc'[t], events'[t], reply'[t])
    <3>1. Tells(pc[t], events[t], reply[t]) /\ events'[t] = events[t] /\ reply'[t] = reply[t]
      BY <1>1, Types DEF Story
    <3>2. pc'[t] = IF t \in batch THEN "called" ELSE pc[t]
      BY <1>1
    <3>3. t \in batch => pc[t] = "new"
      BY <1>1
    <3> QED
      BY <3>1, <3>2, <3>3, Quiet
  <2> QED
    BY <2>1 DEF Story
<1>9. Active' = batch
  BY <1>1 DEF Active
<1>10. Lead'
  BY <1>1, <1>2, <1>9 DEF Lead
<1> QED
  BY <1>1, <1>4, <1>5, <1>7, <1>8, <1>10 DEF Inv

LEMMA InvRejected ==
  ASSUME Inv, NEW t \in Tasks, Rejected(t)
  PROVE  Inv'
<1>1. /\ pc[t] = "called" /\ pc' = [pc EXCEPT ![t] = "over"]
      /\ events' = [events EXCEPT ![t] = <<"started", "failed">>]
      /\ reply' = [reply EXCEPT ![t] = "failed"]
      /\ UNCHANGED <<maxRunning, turn, value, waiters, future, queued, cut>>
  BY DEF Rejected, sem
<1>2. /\ pc' \in [Tasks -> PCs] /\ pc'[t] = "over" /\ \A s \in Tasks \ {t} : pc'[s] = pc[s]
      /\ reply' \in [Tasks -> Terminal \cup {"none"}] /\ reply'[t] = "failed"
      /\ events' = [s \in Tasks |-> events'[s]] /\ events'[t] = <<"started", "failed">>
      /\ \A s \in Tasks \ {t} : reply'[s] = reply[s] /\ events'[s] = events[s]
  BY <1>1, Types DEF PCs, Terminal
<1>3. {s \in Tasks : pc'[s] = "waiting"} = {s \in Tasks : pc[s] = "waiting"}
  BY <1>1, <1>2
<1>4. TypeOK'
  BY <1>1, <1>2, <1>3 DEF Inv, TypeOK, PCs
<1>5. Line'
  <2>1. cut[t] = "none" /\ future[t] = "none"
    BY <1>1 DEF Inv, Line
  <2> QED
    BY <1>1, <1>2, <2>1 DEF Inv, Line
<1>6. Holding' = Holding
  BY <1>1, <1>2 DEF Holding
<1>7. PermitsConserved'
  BY <1>1, <1>6 DEF Inv, PermitsConserved
<1>8. Tells("over", <<"started", "failed">>, "failed")
  <2>1. PICK e : e = <<"started", "failed">>
    OBVIOUS
  <2>2. e \in Seq(EventKinds) /\ Len(e) = 2 /\ DOMAIN e = {1, 2} /\ e[1] = "started" /\ e[2] = "failed"
    BY <2>1 DEF EventKinds, Terminal
  <2>3. Ended(e) = {2}
    BY <2>2 DEF Ended, Terminal
  <2> QED
    BY <2>1, <2>2, <2>3 DEF Tells
<1>9. \A s \in Tasks : Story(s)'
  <2>1. \A s \in Tasks : Tells(pc[s], events[s], reply[s])
    BY Types DEF Story
  <2>2. \A s \in Tasks : Tells(pc'[s], events'[s], reply'[s])
    BY <1>2, <1>8, <2>1
  <2> QED
    BY <2>2 DEF Story
<1>10. Lead'
  BY <1>1, <1>2, LeadKept
<1> QED
  BY <1>2, <1>4, <1>5, <1>7, <1>9, <1>10 DEF Inv

LEMMA AcquireEffect ==
  ASSUME Inv, NEW t \in Tasks, AcquiresNow(t)
  PROVE  /\ Holding' = Holding \cup {t} /\ t \notin Holding /\ t \notin Lined
         /\ Lined = {} /\ Lined' = Lined /\ Ahead' = Ahead
         /\ value' = value + Cardinality({}) - Cardinality({t}) /\ value' \in Nat
         /\ Cardinality(Holding) < maxRunning
<1>1. /\ pc[t] = "called" /\ ~Locked /\ value' = value - 1
      /\ pc' = [pc EXCEPT ![t] = "running"] /\ UNCHANGED <<waiters, future>>
  BY DEF AcquiresNow
<1>2. value \in Nat /\ Lined \subseteq {waiters[i] : i \in DOMAIN waiters} /\ maxRunning \in Nat
  BY LinedWait
<1>3. value # 0 /\ Lined = {}
  BY <1>1, <1>2 DEF Locked, Lined
<1>4. Cardinality({t}) = 1 /\ Cardinality({}) = 0
  BY FS_Singleton, FS_EmptySet
<1>5. t \notin Holding /\ t \notin Lined
  BY <1>1 DEF Holding, Lined, Inv, Line
<1>6. Holding' = Holding \cup {t}
  BY <1>1, Types DEF Holding
<1>7. Lined' = Lined /\ Ahead' = Ahead
  BY <1>1 DEF Lined, Ahead
<1>8. Holding \in SUBSET Tasks
  BY DEF Holding
<1>9. Cardinality(Holding) \in Nat /\ value + Cardinality(Holding) = maxRunning
  BY <1>8, Finite DEF Inv, PermitsConserved
<1> QED
  BY <1>1, <1>2, <1>3, <1>4, <1>5, <1>6, <1>7, <1>9

LEMMA InvAcquires ==
  ASSUME Inv, NEW t \in Tasks, AcquiresNow(t)
  PROVE  Inv'
<1>1. /\ pc[t] = "called" /\ pc' = [pc EXCEPT ![t] = "running"]
      /\ events' = [events EXCEPT ![t] = <<"started">>]
      /\ UNCHANGED <<maxRunning, turn, waiters, future, queued, cut, reply>>
  BY DEF AcquiresNow
<1>2. pc' \in [Tasks -> PCs] /\ pc'[t] = "running" /\ \A s \in Tasks \ {t} : pc'[s] = pc[s]
  BY <1>1, Types DEF PCs
<1>3. {s \in Tasks : pc'[s] = "waiting"} = {s \in Tasks : pc[s] = "waiting"}
  BY <1>1, <1>2
<1>4. value' \in 0 .. maxRunning'
  <2>1. value \in 0 .. maxRunning /\ maxRunning \in Nat
    BY LinedWait DEF Inv, TypeOK
  <2>2. value' = value - 1 /\ value' \in Nat
    BY AcquireEffect DEF AcquiresNow
  <2> QED
    BY <1>1, <2>1, <2>2
<1>5. TypeOK'
  BY <1>1, <1>2, <1>3, <1>4 DEF Inv, TypeOK, PCs
<1>6. Line'
  BY <1>1, <1>2 DEF Inv, Line
<1>7. PermitsConserved'
  <2>1. /\ {} \in SUBSET Holding /\ {t} \in SUBSET Tasks /\ {t} \cap Holding = {}
        /\ Holding' = (Holding \ {}) \cup {t}
        /\ value' = value + Cardinality({}) - Cardinality({t})
    BY AcquireEffect
  <2>2. PermitsConserved /\ value \in Nat /\ maxRunning \in Nat /\ maxRunning' = maxRunning
    BY <1>1, LinedWait DEF Inv
  <2> QED
    BY <2>1, <2>2, Conserve
<1>8. events' = [s \in Tasks |-> events'[s]] /\ \A s \in Tasks : Story(s)'
  BY <1>1, StartsStory
<1>9. Lead'
  BY <1>1, <1>2, LeadKept
<1> QED
  BY <1>5, <1>6, <1>7, <1>8, <1>9 DEF Inv

LEMMA InvWaits ==
  ASSUME Inv, NEW t \in Tasks, Waits(t)
  PROVE  Inv'
<1>1. /\ pc[t] = "called" /\ Locked /\ queued < MaxQueued /\ queued' = queued + 1
      /\ waiters' = Append(waiters, t) /\ future' = [future EXCEPT ![t] = "pending"]
      /\ pc' = [pc EXCEPT ![t] = "waiting"] /\ events' = [events EXCEPT ![t] = <<"started">>]
      /\ UNCHANGED <<maxRunning, turn, value, cut, reply>>
  BY DEF Waits
<1>2. /\ pc' \in [Tasks -> PCs] /\ pc'[t] = "waiting" /\ \A s \in Tasks \ {t} : pc'[s] = pc[s]
      /\ future' \in [Tasks -> {"none", "pending", "granted", "cancelled"}]
      /\ future'[t] = "pending" /\ \A s \in Tasks \ {t} : future'[s] = future[s]
  BY <1>1, Types DEF PCs
<1>3. waiters \in Seq(Tasks) /\ t \notin ToSet(waiters) /\ queued = Len(waiters)
  BY <1>1 DEF Inv, TypeOK
<1>4. /\ waiters' \in Seq(Tasks) /\ Len(waiters') = Len(waiters) + 1
      /\ DOMAIN waiters' = 1 .. Len(waiters) + 1 /\ DOMAIN waiters = 1 .. Len(waiters)
      /\ Len(waiters) \in Nat /\ waiters'[Len(waiters) + 1] = t
      /\ \A i \in 1 .. Len(waiters) : waiters'[i] = waiters[i] /\ waiters[i] # t
  BY <1>1, <1>3 DEF ToSet
<1>5. ToSet(waiters') = ToSet(waiters) \cup {t}
  BY <1>4 DEF ToSet
<1>6. {s \in Tasks : pc'[s] = "waiting"} = {s \in Tasks : pc[s] = "waiting"} \cup {t}
  BY <1>2
<1>7. TypeOK'
  <2>1. ToSet(waiters') = {s \in Tasks : pc'[s] = "waiting"}
    BY <1>5, <1>6 DEF Inv, TypeOK
  <2>2. queued' = Len(waiters') /\ queued' <= MaxQueued
    BY <1>1, <1>3, <1>4, DelegationAssumption
  <2> QED
    BY <1>1, <1>2, <1>4, <2>1, <2>2 DEF Inv, TypeOK, PCs
<1>8. Line'
  <2>1. \A i, j \in DOMAIN waiters' : waiters'[i] = waiters'[j] => i = j
    BY <1>4 DEF Inv, Line
  <2>2. cut'[t] = "none"
    BY <1>1 DEF Inv, Line
  <2> QED
    BY <1>1, <1>2, <2>1, <2>2 DEF Inv, Line
<1>9. Holding' = Holding
  BY <1>1, <1>2 DEF Holding, Inv, Line
<1>10. PermitsConserved'
  BY <1>1, <1>9 DEF Inv, PermitsConserved
<1>11. events' = [s \in Tasks |-> events'[s]] /\ \A s \in Tasks : Story(s)'
  BY <1>1, StartsStory
<1>12. Lead'
  <2>1. ~(MaxConcurrent <= maxRunning)
    BY <1>1, RoomForLead
  <2> QED
    BY <1>1, <1>2, <2>1, LeadKept
<1> QED
  BY <1>7, <1>8, <1>10, <1>11, <1>12 DEF Inv

\* Whoever ends gives its slot back; the rest of the state keeps its shape.
LEMMA InvEnds ==
  ASSUME Inv, NEW t \in Tasks, pc[t] = "running", Release,
         NEW status \in Terminal, Ends(t, status), UNCHANGED <<maxRunning, turn>>
  PROVE  Inv'
<1>1. PICK up \in SUBSET Lined :
        /\ value' = value + Cardinality({t}) - Cardinality(up) /\ value' \in Nat
        /\ future' = [s \in Tasks |-> IF s \in up THEN "granted" ELSE future[s]]
        /\ Holding' = (Holding \ {t}) \cup up /\ t \in Holding
        /\ UNCHANGED <<waiters, queued>>
  BY ReleaseEffect
<1>2. /\ events' = [s \in Tasks |-> events'[s]] /\ \A s \in Tasks : Story(s)'
      /\ reply' \in [Tasks -> Terminal \cup {"none"}]
      /\ pc' = [pc EXCEPT ![t] = "over"] /\ cut' = [cut EXCEPT ![t] = "none"]
  BY EndsStory
<1>3. /\ pc' \in [Tasks -> PCs] /\ pc'[t] = "over" /\ \A s \in Tasks \ {t} : pc'[s] = pc[s]
      /\ cut' \in [Tasks -> {"none", "timeout", "turn"}] /\ cut'[t] = "none"
      /\ \A s \in Tasks \ {t} : cut'[s] = cut[s]
      /\ future' \in [Tasks -> {"none", "pending", "granted", "cancelled"}]
      /\ \A s \in Tasks : future'[s] = IF s \in up THEN "granted" ELSE future[s]
  BY <1>1, <1>2, Types DEF PCs
<1>4. {s \in Tasks : pc'[s] = "waiting"} = {s \in Tasks : pc[s] = "waiting"}
  BY <1>3
<1>5. PermitsConserved'
  <2>1. {t} \in SUBSET Holding /\ up \in SUBSET Tasks /\ up \cap Holding = {}
    BY <1>1, LinedWait DEF Lined
  <2>2. PermitsConserved /\ value \in Nat /\ maxRunning \in Nat /\ maxRunning' = maxRunning
    BY LinedWait DEF Inv
  <2> QED
    BY <1>1, <2>1, <2>2, Conserve
<1>6. value' \in 0 .. maxRunning'
  BY <1>1, <1>5, LinedWait, PermitsBound
<1>7. TypeOK'
  BY <1>1, <1>2, <1>3, <1>4, <1>6 DEF Inv, TypeOK, PCs
<1>8. Line'
  <2>1. \A s \in up : pc[s] = "waiting" /\ s # t /\ s \in Tasks
    BY <1>1, LinedWait DEF Lined
  <2>2. future[t] = "none"
    BY DEF Inv, Line
  <2> QED
    BY <1>1, <1>3, <2>1, <2>2 DEF Inv, Line, Lined
<1>9. Lead'
  BY <1>3, LeadKept
<1> QED
  BY <1>2, <1>5, <1>7, <1>8, <1>9 DEF Inv

LEMMA InvReturns ==
  ASSUME Inv, NEW t \in Tasks, NEW status \in {"completed", "failed"}, RunReturns(t, status)
  PROVE  Inv'
<1>1. status \in Terminal
  BY DEF Terminal
<1> QED
  BY <1>1, InvEnds DEF RunReturns

LEMMA InvUnwinds ==
  ASSUME Inv, NEW t \in Tasks, RunUnwinds(t)
  PROVE  Inv'
<1>1. PICK status : status = IF cut[t] = "timeout" THEN "timed_out" ELSE "cancelled"
  OBVIOUS
<1>2. status \in Terminal /\ Ends(t, status)
  BY <1>1 DEF Terminal, RunUnwinds
<1> QED
  BY <1>2, InvEnds DEF RunUnwinds

LEMMA InvResumes ==
  ASSUME Inv, NEW t \in Tasks, WaiterResumes(t)
  PROVE  Inv'
<1>1. PICK up \in SUBSET Lined, gone \in SUBSET {t} :
        /\ gone \subseteq Holding /\ t \notin Lined
        /\ value' = value + Cardinality(gone) - Cardinality(up) /\ value' \in Nat
        /\ future' = [s \in Tasks |-> IF s \in up THEN "granted"
                                      ELSE IF s = t THEN "none" ELSE future[s]]
        /\ Holding' = (Holding \ gone) \cup up
        /\ waiters' \in Seq(Tasks) /\ Len(waiters') = Len(waiters) - 1
        /\ \A i, j \in DOMAIN waiters' : waiters'[i] = waiters'[j] => i = j
        /\ ToSet(waiters') = ToSet(waiters) \ {t}
  BY ResumeEffect
<1>2. /\ pc[t] = "waiting" /\ queued' = queued - 1 /\ UNCHANGED <<maxRunning, turn>>
  BY DEF WaiterResumes
<1> DEFINE Resumed ==
             /\ events' = [s \in Tasks |-> events'[s]] /\ \A s \in Tasks : Story(s)'
             /\ reply' \in [Tasks -> Terminal \cup {"none"}]
             /\ pc' \in [Tasks -> PCs] /\ pc'[t] \in {"running", "over"}
             /\ cut' \in [Tasks -> {"none", "timeout", "turn"}] /\ cut'[t] = "none"
             /\ \A s \in Tasks \ {t} : cut'[s] = cut[s] /\ pc'[s] = pc[s]
<1>3. Resumed
  <2>1. CASE cut[t] = "none"
    <3>1. pc' = [pc EXCEPT ![t] = "running"] /\ UNCHANGED <<cut, events, reply>>
      BY <2>1 DEF WaiterResumes
    <3>2. ASSUME NEW s \in Tasks
          PROVE  Tells(pc'[s], events'[s], reply'[s])
      <4>1. pc'[s] = IF s = t THEN "running" ELSE pc[s]
        BY <3>1, Types
      <4>2. Tells(pc[s], events[s], reply[s])
        BY Types DEF Story
      <4>3. events'[s] = events[s] /\ reply'[s] = reply[s]
        BY <3>1
      <4>4. pc[s] = pc'[s] \/ (pc[s] = "waiting" /\ pc'[s] = "running")
        BY <1>2, <4>1
      <4> QED
        BY <4>2, <4>3, <4>4, Quiet
    <3> QED
      BY <2>1, <3>1, <3>2, Types DEF Story, PCs
  <2>2. ASSUME NEW status \in Terminal, Ends(t, status)
        PROVE  Resumed
    <3>1. /\ events' = [s \in Tasks |-> events'[s]] /\ \A s \in Tasks : Story(s)'
          /\ reply' \in [Tasks -> Terminal \cup {"none"}]
          /\ pc' = [pc EXCEPT ![t] = "over"] /\ cut' = [cut EXCEPT ![t] = "none"]
      BY <1>2, <2>2, EndsStory
    <3>2. /\ pc' \in [Tasks -> PCs] /\ pc'[t] = "over"
          /\ cut' \in [Tasks -> {"none", "timeout", "turn"}] /\ cut'[t] = "none"
          /\ \A s \in Tasks \ {t} : cut'[s] = cut[s] /\ pc'[s] = pc[s]
      BY <3>1, Types DEF PCs
    <3> QED
      BY <3>1, <3>2
  <2>3. CASE cut[t] = "timeout"
    <3>1. Ends(t, "failed") /\ "failed" \in Terminal
      BY <2>3 DEF WaiterResumes, Terminal
    <3> HIDE DEF Resumed
    <3> QED
      BY <2>2, <3>1
  <2>4. CASE cut[t] = "turn"
    <3>1. Ends(t, "cancelled") /\ "cancelled" \in Terminal
      BY <2>4 DEF WaiterResumes, Terminal
    <3> HIDE DEF Resumed
    <3> QED
      BY <2>2, <3>1
  <2> QED
    BY <2>1, <2>3, <2>4, Types
<1>4. {s \in Tasks : pc'[s] = "waiting"} = {s \in Tasks : pc[s] = "waiting"} \ {t}
  BY <1>3
<1>5. PermitsConserved'
  <2>1. gone \in SUBSET Holding /\ up \in SUBSET Tasks /\ up \cap Holding = {}
    BY <1>1, LinedWait DEF Lined
  <2>2. PermitsConserved /\ value \in Nat /\ maxRunning \in Nat /\ maxRunning' = maxRunning
    BY <1>2, LinedWait DEF Inv
  <2> QED
    BY <1>1, <2>1, <2>2, Conserve
<1>6. value' \in 0 .. maxRunning'
  BY <1>1, <1>2, <1>5, LinedWait, PermitsBound
<1>7. TypeOK'
  <2>1. ToSet(waiters') = {s \in Tasks : pc'[s] = "waiting"}
    BY <1>1, <1>4 DEF Inv, TypeOK
  <2>2. queued' = Len(waiters') /\ queued' <= MaxQueued
    <3>1. queued = Len(waiters) /\ queued <= MaxQueued /\ waiters \in Seq(Tasks)
      BY DEF Inv, TypeOK
    <3>2. Len(waiters) \in Nat
      BY <3>1
    <3> QED
      BY <1>1, <1>2, <3>1, <3>2, DelegationAssumption
  <2>3. future' \in [Tasks -> {"none", "pending", "granted", "cancelled"}]
    BY <1>1, Types
  <2> QED
    BY <1>1, <1>2, <1>3, <1>6, <2>1, <2>2, <2>3 DEF Inv, TypeOK, PCs
<1>8. Line'
  <2>1. \A s \in up : pc[s] = "waiting" /\ s # t /\ s \in Tasks
    BY <1>1, LinedWait DEF Lined
  <2>2. \A s \in Tasks : future'[s] = IF s \in up THEN "granted"
                                      ELSE IF s = t THEN "none" ELSE future[s]
    BY <1>1
  <2>3. future'[t] = "none" /\ pc'[t] # "waiting" /\ cut'[t] = "none"
    BY <1>3, <2>1, <2>2
  <2> QED
    BY <1>1, <1>3, <2>1, <2>2, <2>3 DEF Inv, Line, Lined
<1>9. Lead'
  BY <1>2, <1>3, LeadKept
<1> QED
  BY <1>3, <1>5, <1>7, <1>8, <1>9 DEF Inv

LEMMA InvTimeout ==
  ASSUME Inv, NEW t \in Tasks, TimeoutElapses(t)
  PROVE  Inv'
<1>1. /\ pc[t] \in {"waiting", "running"} /\ cut[t] = "none"
      /\ cut' = [cut EXCEPT ![t] = "timeout"]
      /\ future' = [future EXCEPT ![t] = Cancelled(future[t])]
      /\ UNCHANGED <<maxRunning, turn, pc, value, waiters, queued, events, reply>>
  BY DEF TimeoutElapses
<1>2. /\ cut' \in [Tasks -> {"none", "timeout", "turn"}] /\ cut'[t] = "timeout"
      /\ \A s \in Tasks \ {t} : cut'[s] = cut[s] /\ future'[s] = future[s]
      /\ future' \in [Tasks -> {"none", "pending", "granted", "cancelled"}]
      /\ future'[t] = IF future[t] = "pending" THEN "cancelled" ELSE future[t]
  BY <1>1, Types DEF Cancelled
<1>3. TypeOK'
  BY <1>1, <1>2 DEF Inv, TypeOK
<1>4. Line'
  BY <1>1, <1>2 DEF Inv, Line
<1>5. Holding' = Holding
  BY <1>1, <1>2 DEF Holding
<1>6. PermitsConserved'
  BY <1>1, <1>5 DEF Inv, PermitsConserved
<1>7. \A s \in Tasks : Story(s)'
  BY <1>1, Types DEF Story
<1>8. Lead'
  BY <1>1, LeadKept
<1> QED
  BY <1>1, <1>3, <1>4, <1>6, <1>7, <1>8 DEF Inv

LEMMA InvCancelled ==
  ASSUME Inv, TurnCancelled
  PROVE  Inv'
<1>1. /\ turn' = "cancelled"
      /\ pc' = [t \in Tasks |-> IF pc[t] = "called" THEN "over" ELSE pc[t]]
      /\ cut' = [t \in Tasks |-> IF pc[t] \in {"waiting", "running"} THEN "turn" ELSE cut[t]]
      /\ future' = [t \in Tasks |-> Cancelled(future[t])]
      /\ UNCHANGED <<maxRunning, value, waiters, queued, events, reply>>
  BY DEF TurnCancelled
<1>2. /\ cut' \in [Tasks -> {"none", "timeout", "turn"}]
      /\ future' \in [Tasks -> {"none", "pending", "granted", "cancelled"}]
      /\ pc' \in [Tasks -> PCs]
  BY <1>1, Types DEF Cancelled, PCs
<1>3. \A t \in Tasks :
        /\ pc'[t] = IF pc[t] = "called" THEN "over" ELSE pc[t]
        /\ cut'[t] = IF pc[t] \in {"waiting", "running"} THEN "turn" ELSE cut[t]
        /\ future'[t] = IF future[t] = "pending" THEN "cancelled" ELSE future[t]
  BY <1>1 DEF Cancelled
<1>4. {s \in Tasks : pc'[s] = "waiting"} = {s \in Tasks : pc[s] = "waiting"}
  BY <1>3
<1>5. TypeOK'
  BY <1>1, <1>2, <1>4 DEF Inv, TypeOK, PCs
<1>6. Line'
  <2>1. ASSUME NEW t \in Tasks
        PROVE  /\ future'[t] # "none" <=> pc'[t] = "waiting"
               /\ future'[t] = "cancelled" => cut'[t] # "none"
               /\ future'[t] = "pending" => cut'[t] = "none"
               /\ cut'[t] # "none" => pc'[t] \in {"waiting", "running"}
    BY <1>3 DEF Inv, Line
  <2> QED
    BY <1>1, <2>1 DEF Inv, Line
<1>7. Holding' = Holding
  BY <1>3 DEF Holding
<1>8. PermitsConserved'
  BY <1>1, <1>7 DEF Inv, PermitsConserved
<1>9. \A s \in Tasks : Story(s)'
  <2>1. ASSUME NEW s \in Tasks
        PROVE  Tells(pc'[s], events'[s], reply'[s])
    <3>1. Tells(pc[s], events[s], reply[s]) /\ events' = events /\ reply' = reply
      BY <1>1, Types DEF Story
    <3>2. pc'[s] = IF pc[s] = "called" THEN "over" ELSE pc[s]
      BY <1>3
    <3> QED
      BY <3>1, <3>2, Quiet
  <2> QED
    BY <2>1 DEF Story
<1>10. Lead'
  BY <1>1, <1>3, LeadKept
<1> QED
  BY <1>1, <1>5, <1>6, <1>8, <1>9, <1>10 DEF Inv

LEMMA InvProgress ==
  ASSUME Inv, NEW t \in Tasks, Progress(t)
  PROVE  Inv'
<1>1. /\ pc[t] = "running" /\ events' = [events EXCEPT ![t] = Append(events[t], "running")]
      /\ UNCHANGED <<maxRunning, turn, pc, value, waiters, future, queued, cut, reply>>
  BY DEF Progress, sem
<1>2. /\ events'[t] = Append(events[t], "running")
      /\ \A s \in Tasks \ {t} : events'[s] = events[s]
      /\ events' = [s \in Tasks |-> events'[s]]
  BY <1>1, Types
<1>3. \A s \in Tasks : Tells(pc[s], events[s], reply[s])
  BY Types DEF Story
<1>4. reply[t] = "none" /\ Ended(events[t]) = {} /\ events[t] \in Seq(EventKinds)
  BY <1>1, <1>3 DEF Tells
<1>5. PICK e : e = events'[t]
  OBVIOUS
<1>6. PICK n \in Nat : n = Len(events[t])
  BY <1>4
<1>7. /\ e \in Seq(EventKinds) /\ Len(e) = n + 1
      /\ e[n + 1] = "running" /\ \A i \in 1 .. n : e[i] = events[t][i]
  BY <1>2, <1>4, <1>5, <1>6 DEF EventKinds
<1>8. \A i \in 1 .. n + 1 : e[i] \notin Terminal
  BY <1>4, <1>6, <1>7 DEF Ended, Terminal
<1>9. Ended(e) = {}
  BY <1>7, <1>8 DEF Ended
<1>10. Tells("running", e, "none")
  BY <1>7, <1>9 DEF Tells
<1>11. \A s \in Tasks : Story(s)'
  <2>1. \A s \in Tasks : Tells(pc'[s], events'[s], reply'[s])
    BY <1>1, <1>2, <1>3, <1>4, <1>5, <1>10
  <2> QED
    BY <2>1 DEF Story
<1>12. TypeOK' /\ Line' /\ PermitsConserved'
  BY <1>1 DEF Inv, TypeOK, Line, PermitsConserved, Holding
<1>13. Lead'
  BY <1>1, LeadKept
<1> QED
  BY <1>2, <1>11, <1>12, <1>13 DEF Inv

-----------------------------------------------------------------------------
(* The invariant holds.                                                    *)

LEMMA InvInit ==
  ASSUME Init
  PROVE  Inv
<1>1. /\ maxRunning \in Nat \ {0} /\ maxRunning \in RunLimits /\ value = maxRunning
      /\ waiters = <<>> /\ queued = 0 /\ turn = "open"
      /\ pc = [t \in Tasks |-> "new"] /\ future = [t \in Tasks |-> "none"]
      /\ cut = [t \in Tasks |-> "none"] /\ events = [t \in Tasks |-> <<>>]
      /\ reply = [t \in Tasks |-> "none"]
  BY DelegationAssumption DEF Init
<1>2. waiters \in Seq(Tasks) /\ Len(waiters) = 0 /\ DOMAIN waiters = {} /\ ToSet(waiters) = {}
  BY <1>1 DEF ToSet
<1>3. TypeOK
  BY <1>1, <1>2, DelegationAssumption DEF TypeOK, Terminal
<1>4. Line
  BY <1>1, <1>2 DEF Line
<1>5. Holding = {} /\ Active = {}
  BY <1>1 DEF Holding, Active
<1>6. PermitsConserved /\ Lead
  <2>1. Cardinality({}) = 0
    BY FS_EmptySet
  <2> QED
    BY <1>1, <1>5, <2>1, DelegationAssumption DEF PermitsConserved, Lead
<1>7. Tells("new", <<>>, "none")
  BY DEF Tells, Ended
<1>8. \A t \in Tasks : Story(t)
  BY <1>1, <1>7 DEF Story
<1> QED
  BY <1>1, <1>3, <1>4, <1>6, <1>8 DEF Inv

LEMMA InvStep ==
  ASSUME Inv, [Next]_vars
  PROVE  Inv'
<1>1. ASSUME NEW batch \in SUBSET Tasks, LeadDelegates(batch)
      PROVE  Inv'
  BY <1>1, InvLead
<1>2. ASSUME NEW t \in Tasks, Rejected(t)
      PROVE  Inv'
  BY <1>2, InvRejected
<1>3. ASSUME NEW t \in Tasks, AcquiresNow(t)
      PROVE  Inv'
  BY <1>3, InvAcquires
<1>4. ASSUME NEW t \in Tasks, Waits(t)
      PROVE  Inv'
  BY <1>4, InvWaits
<1>5. ASSUME NEW t \in Tasks, WaiterResumes(t)
      PROVE  Inv'
  BY <1>5, InvResumes
<1>6. ASSUME NEW t \in Tasks, TimeoutElapses(t)
      PROVE  Inv'
  BY <1>6, InvTimeout
<1>7. ASSUME NEW t \in Tasks, Progress(t)
      PROVE  Inv'
  BY <1>7, InvProgress
<1>8. ASSUME NEW t \in Tasks, RunUnwinds(t)
      PROVE  Inv'
  BY <1>8, InvUnwinds
<1>9. ASSUME NEW t \in Tasks, NEW status \in {"completed", "failed"}, RunReturns(t, status)
      PROVE  Inv'
  BY <1>9, InvReturns
<1>10. CASE TurnCancelled
  BY <1>10, InvCancelled
<1>11. CASE UNCHANGED vars
  BY <1>11 DEF vars, Inv, TypeOK, Line, PermitsConserved, Holding, Story, Lead, Active
<1> QED
  BY <1>1, <1>2, <1>3, <1>4, <1>5, <1>6, <1>7, <1>8, <1>9, <1>10, <1>11 DEF Next

(* The inductive invariant holds in every reachable state.                 *)
THEOREM InvThm == Spec => []Inv
<1>1. Init => Inv
  BY InvInit
<1>2. Inv /\ [Next]_vars => Inv'
  BY InvStep
<1> QED
  BY <1>1, <1>2, PTL DEF Spec

(* SubagentCapacity (capacity.py:46-56) loses and makes up no permit:      *)
(* whatever timeouts, cancellations and grants meet, the free permits and  *)
(* the slots held or granted add up to max_running.                        *)
THEOREM PermitsThm == Spec => []PermitsConserved
<1>1. Inv => PermitsConserved
  BY DEF Inv
<1> QED
  BY <1>1, InvThm, PTL

(* A delegation that started ends its event stream with one terminal event *)
(* that nothing follows, and the lead's tool message has the same status,  *)
(* or there is none when it was cancelled (task.py:124-190).               *)
THEOREM OneTerminalThm == Spec => []OneTerminal
<1>1. Inv => OneTerminal
  <2>1. ASSUME Inv, NEW t \in Tasks
        PROVE  /\ Ended(events[t])
                    = IF pc[t] = "over" /\ Len(events[t]) > 0 THEN {Len(events[t])} ELSE {}
               /\ pc[t] = "over" /\ Len(events[t]) > 0 =>
                    ((reply[t] = events[t][Len(events[t])])
                       <=> (events[t][Len(events[t])] # "cancelled"))
    <3>1. Tells(pc[t], events[t], reply[t])
      BY <2>1, Types DEF Story
    <3>2. CASE pc[t] = "over"
      BY <3>1, <3>2 DEF Tells
    <3>3. CASE pc[t] # "over"
      BY <3>1, <3>3 DEF Tells
    <3> QED
      BY <3>2, <3>3
  <2> QED
    BY <2>1 DEF OneTerminal, Ended
<1> QED
  BY <1>1, InvThm, PTL

(* When the capacity is no smaller than the lead's own limit, which is how *)
(* _lead_features sets them (graph.py:168-190), no delegation waits for a  *)
(* slot and none is refused one.                                           *)
THEOREM LeadNeverQueuesThm == Spec => []LeadNeverQueues
<1>1. Inv => LeadNeverQueues
  <2>1. ASSUME Inv, MaxConcurrent <= maxRunning, NEW t \in Tasks
        PROVE  pc[t] # "waiting" /\ (pc[t] = "called" => ~Locked)
    <3>1. pc[t] # "waiting"
      BY <2>1 DEF Inv, Lead
    <3>2. pc[t] = "called" => ~Locked
      BY <2>1, RoomForLead
    <3> QED
      BY <3>1, <3>2
  <2> QED
    BY <2>1 DEF LeadNeverQueues
<1> QED
  BY <1>1, InvThm, PTL

-----------------------------------------------------------------------------
(* SubagentCapacity implements the admission pool.                         *)

LEMMA SameCardinality ==
  ASSUME NEW S
  PROVE  Pool!Cardinality(S) = Cardinality(S)
BY DEF Pool!Cardinality, Cardinality

\* Whoever stays in line stays in order.
LEMMA AheadKept ==
  ASSUME NEW quit, Lined' = Lined \ quit,
         \A a, b \in Lined \ quit : Before(waiters', a, b) <=> Before(waiters, a, b)
  PROVE  Pool!LeavesLine(quit)
<1>1. Ahead = {p \in Lined \X Lined : Before(waiters, p[1], p[2])}
  BY DEF Ahead, Before
<1>2. Ahead' = {p \in Lined' \X Lined' : Before(waiters', p[1], p[2])}
  BY DEF Ahead, Before
<1>3. Ahead' = Ahead \cap ((Lined \ quit) \X (Lined \ quit))
  BY <1>1, <1>2
<1> QED
  BY <1>3 DEF Pool!LeavesLine

\* A slot is free again, or a waiter takes the one it was granted.
LEMMA PoolMoves ==
  ASSUME Inv, Inv', maxRunning' = maxRunning, NEW t \in Tasks,
         NEW gone \in SUBSET {t}, gone \subseteq Holding, NEW up \in SUBSET Lined,
         \A p \in Ahead : p[2] \in up => p[1] \in up,
         Holding' = (Holding \ gone) \cup up, Lined' = Lined \ up,
         \A a, b \in Lined \ up : Before(waiters', a, b) <=> Before(waiters, a, b)
  PROVE  Pool!Next
<1>1. Cardinality(gone) <= 1
  <2>1. gone = {} \/ gone = {t}
    OBVIOUS
  <2>2. Cardinality({}) = 0 /\ Cardinality({t}) = 1
    BY FS_EmptySet, FS_Singleton
  <2>3. Cardinality(gone) = 0 \/ Cardinality(gone) = 1
    BY <2>1, <2>2
  <2> QED
    BY <2>3
<1>2. \A c \in up, d \in Lined : <<d, c>> \in Ahead => d \in up
  OBVIOUS
<1>3. Cardinality(Holding') <= maxRunning
  <2>1. maxRunning \in Nat
    BY LinedWait
  <2>2. value' \in Nat /\ PermitsConserved'
    BY <2>1 DEF Inv, TypeOK
  <2> QED
    BY <2>1, <2>2, PermitsBound
<1>4. Pool!LeavesLine(up)
  BY AheadKept
<1>5. Pool!MoveUp(gone, up)
  BY <1>1, <1>2, <1>3, <1>4, SameCardinality DEF Pool!MoveUp
<1>6. gone \in SUBSET Holding
  OBVIOUS
<1> QED
  BY <1>5, <1>6 DEF Pool!Next

LEMMA PoolEnter ==
  ASSUME Inv, NEW t \in Tasks, AcquiresNow(t)
  PROVE  Pool!Next
<1>1. maxRunning' = maxRunning
  BY DEF AcquiresNow
<1>2. Pool!Enter(t)
  BY <1>1, AcquireEffect, SameCardinality DEF Pool!Enter
<1> QED
  BY <1>2 DEF Pool!Next

LEMMA PoolQueue ==
  ASSUME Inv, NEW t \in Tasks, Waits(t)
  PROVE  Pool!Next
<1>1. /\ pc[t] = "called" /\ queued < MaxQueued /\ maxRunning' = maxRunning
      /\ waiters' = Append(waiters, t) /\ future' = [future EXCEPT ![t] = "pending"]
      /\ pc' = [pc EXCEPT ![t] = "waiting"]
  BY DEF Waits
<1>2. /\ \A s \in Tasks : pc'[s] = IF s = t THEN "waiting" ELSE pc[s]
      /\ \A s \in Tasks : future'[s] = IF s = t THEN "pending" ELSE future[s]
      /\ future[t] = "none"
  BY <1>1, Types DEF Inv, Line
<1>3. t \notin Holding \cup Lined /\ Holding' = Holding /\ Lined' = Lined \cup {t}
  BY <1>1, <1>2 DEF Holding, Lined
<1>4. waiters \in Seq(Tasks) /\ queued = Len(waiters) /\ t \notin ToSet(waiters)
  BY <1>1 DEF Inv, TypeOK
<1>5. PICK n \in Nat : n = Len(waiters) /\ DOMAIN waiters = 1 .. n
  BY <1>4
<1>6. /\ DOMAIN waiters' = 1 .. n + 1 /\ waiters'[n + 1] = t
      /\ \A i \in 1 .. n : waiters'[i] = waiters[i] /\ waiters[i] # t
  BY <1>1, <1>4, <1>5 DEF ToSet
<1>7. Cardinality(Lined) < MaxQueued
  <2>1. Lined \subseteq {waiters[i] : i \in 1 .. n}
    BY <1>5, LinedWait
  <2> DEFINE f == [i \in 1 .. n |-> waiters[i]]
  <2>2. f \in Surjection(1 .. n, {waiters[i] : i \in 1 .. n})
    BY DEF Surjection
  <2>3. IsFiniteSet(1 .. n) /\ Cardinality(1 .. n) = n
    BY FS_Interval
  <2>4. /\ IsFiniteSet({waiters[i] : i \in 1 .. n})
        /\ Cardinality({waiters[i] : i \in 1 .. n}) <= n
    BY <2>2, <2>3, FS_Surjection
  <2>5. Cardinality(Lined) <= Cardinality({waiters[i] : i \in 1 .. n})
    BY <2>1, <2>4, FS_Subset
  <2>6. Lined \in SUBSET Tasks
    BY DEF Lined
  <2>7. Cardinality(Lined) \in Nat /\ Cardinality({waiters[i] : i \in 1 .. n}) \in Nat
    BY <2>4, <2>6, Finite, FS_CardinalityType
  <2> QED
    BY <1>1, <1>4, <1>5, <2>4, <2>5, <2>7, DelegationAssumption
<1>8. ASSUME NEW a \in Lined', NEW b \in Lined'
      PROVE  Before(waiters', a, b) <=> \/ a \in Lined /\ b \in Lined /\ Before(waiters, a, b)
                                        \/ a \in Lined /\ b = t
  <2>1. ASSUME a \in Lined, b \in Lined
        PROVE  Before(waiters', a, b) <=> Before(waiters, a, b)
    BY <1>3, <1>5, <1>6, <2>1 DEF Before
  <2>2. ASSUME a \in Lined
        PROVE  Before(waiters', a, t)
    <3>1. PICK i \in 1 .. n : waiters[i] = a
      BY <1>5, <2>2, LinedWait
    <3>2. i < n + 1 /\ i \in 1 .. n + 1 /\ n + 1 \in 1 .. n + 1
      OBVIOUS
    <3> QED
      BY <1>6, <3>1, <3>2 DEF Before
  <2>3. ~Before(waiters', t, b)
    <3>1. SUFFICES ASSUME NEW i \in DOMAIN waiters', NEW j \in DOMAIN waiters',
                          i < j, waiters'[i] = t
                   PROVE  FALSE
      BY DEF Before
    <3>2. i \in 1 .. n
      BY <1>6, <3>1
    <3> QED
      BY <1>6, <3>1, <3>2
  <2> QED
    BY <1>3, <2>1, <2>2, <2>3
<1>9. Ahead' = Ahead \cup (Lined \X {t})
  <2>1. Ahead = {p \in Lined \X Lined : Before(waiters, p[1], p[2])}
    BY DEF Ahead, Before
  <2>2. Ahead' = {p \in Lined' \X Lined' : Before(waiters', p[1], p[2])}
    BY DEF Ahead, Before
  <2> QED
    BY <1>3, <1>8, <2>1, <2>2
<1>10. Pool!Queue(t)
  BY <1>1, <1>3, <1>7, <1>9, SameCardinality DEF Pool!Queue
<1> QED
  BY <1>10 DEF Pool!Next

LEMMA PoolGivesUp ==
  ASSUME NEW quit \in SUBSET Lined, Lined' = Lined \ quit, Holding' = Holding,
         UNCHANGED <<maxRunning, waiters>>
  PROVE  Pool!Next
<1>1. \A a, b \in Lined \ quit : Before(waiters', a, b) <=> Before(waiters, a, b)
  BY DEF Before
<1>2. Pool!GiveUp(quit)
  BY <1>1, AheadKept DEF Pool!GiveUp
<1> QED
  BY <1>2 DEF Pool!Next

LEMMA PoolRelease ==
  ASSUME Inv, Inv', NEW t \in Tasks, pc[t] = "running", Release,
         NEW status, Ends(t, status), maxRunning' = maxRunning
  PROVE  Pool!Next
<1>1. PICK up \in SUBSET Lined :
        /\ \A p \in Ahead : p[2] \in up => p[1] \in up
        /\ Holding' = (Holding \ {t}) \cup up /\ Lined' = Lined \ up /\ t \in Holding
        /\ UNCHANGED <<waiters, queued>>
  BY ReleaseEffect
<1>2. \A a, b \in Lined \ up : Before(waiters', a, b) <=> Before(waiters, a, b)
  BY <1>1 DEF Before
<1>3. {t} \in SUBSET {t} /\ {t} \subseteq Holding
  BY <1>1
<1> QED
  BY <1>1, <1>2, <1>3, PoolMoves

LEMMA PoolResumes ==
  ASSUME Inv, Inv', NEW t \in Tasks, WaiterResumes(t)
  PROVE  Pool!Next
<1>1. PICK up \in SUBSET Lined, gone \in SUBSET {t} :
        /\ gone \subseteq Holding /\ t \notin Lined
        /\ value' = value + Cardinality(gone) - Cardinality(up) /\ value' \in Nat
        /\ future' = [s \in Tasks |-> IF s \in up THEN "granted"
                                      ELSE IF s = t THEN "none" ELSE future[s]]
        /\ \A p \in Ahead : p[2] \in up => p[1] \in up
        /\ Holding' = (Holding \ gone) \cup up /\ Lined' = Lined \ up
        /\ waiters' \in Seq(Tasks) /\ Len(waiters') = Len(waiters) - 1
        /\ \A i, j \in DOMAIN waiters' : waiters'[i] = waiters'[j] => i = j
        /\ ToSet(waiters') = ToSet(waiters) \ {t}
        /\ \A a, b \in Tasks \ {t} : Before(waiters', a, b) <=> Before(waiters, a, b)
  BY ResumeEffect
<1>2. \A a, b \in Lined \ up : Before(waiters', a, b) <=> Before(waiters, a, b)
  BY <1>1 DEF Lined
<1>3. maxRunning' = maxRunning
  BY DEF WaiterResumes
<1> QED
  BY <1>1, <1>2, <1>3, PoolMoves

LEMMA PoolTimeout ==
  ASSUME Inv, NEW t \in Tasks, TimeoutElapses(t)
  PROVE  Pool!Next
<1>1. /\ future' = [future EXCEPT ![t] = Cancelled(future[t])]
      /\ UNCHANGED <<maxRunning, pc, waiters>>
  BY DEF TimeoutElapses
<1>2. \A s \in Tasks : future'[s] = IF s = t /\ future[s] = "pending" THEN "cancelled" ELSE future[s]
  BY <1>1, Types DEF Cancelled
<1>3. Lined' = Lined \ ({t} \cap Lined) /\ Holding' = Holding
  BY <1>1, <1>2 DEF Lined, Holding
<1>4. {t} \cap Lined \in SUBSET Lined
  OBVIOUS
<1> QED
  BY <1>1, <1>3, <1>4, PoolGivesUp

LEMMA PoolCancelled ==
  ASSUME Inv, TurnCancelled
  PROVE  Pool!Next
<1>1. /\ future' = [t \in Tasks |-> Cancelled(future[t])]
      /\ pc' = [t \in Tasks |-> IF pc[t] = "called" THEN "over" ELSE pc[t]]
      /\ UNCHANGED <<maxRunning, waiters>>
  BY DEF TurnCancelled
<1>2. \A s \in Tasks : future'[s] = IF future[s] = "pending" THEN "cancelled" ELSE future[s]
  BY <1>1 DEF Cancelled
<1>3. Lined' = Lined \ Lined /\ Holding' = Holding
  BY <1>1, <1>2 DEF Lined, Holding
<1>4. Lined \in SUBSET Lined
  OBVIOUS
<1> QED
  BY <1>1, <1>3, <1>4, PoolGivesUp

\* Steps the pool does not see.
LEMMA PoolStutter ==
  ASSUME Holding' = Holding, UNCHANGED <<maxRunning, waiters, future>>
  PROVE  UNCHANGED <<maxRunning, Holding, Lined, Ahead>>
BY DEF Lined, Ahead

LEMMA PoolStep ==
  ASSUME Inv, Inv', [Next]_vars
  PROVE  [Pool!Next]_<<maxRunning, Holding, Lined, Ahead>>
<1>1. ASSUME NEW batch \in SUBSET Tasks, LeadDelegates(batch)
      PROVE  UNCHANGED <<maxRunning, Holding, Lined, Ahead>>
  <2>1. /\ \A t \in Tasks : pc[t] \in {"new", "over"}
        /\ pc' = [t \in Tasks |-> IF t \in batch THEN "called" ELSE pc[t]]
        /\ UNCHANGED <<maxRunning, waiters, future>>
    BY <1>1 DEF LeadDelegates, sem
  <2>2. Holding' = Holding
    BY <2>1 DEF Holding
  <2> QED
    BY <2>1, <2>2, PoolStutter
<1>2. ASSUME NEW t \in Tasks, Rejected(t)
      PROVE  UNCHANGED <<maxRunning, Holding, Lined, Ahead>>
  <2>1. /\ pc[t] = "called" /\ \A s \in Tasks : pc'[s] = IF s = t THEN "over" ELSE pc[s]
        /\ UNCHANGED <<maxRunning, waiters, future>>
    BY <1>2, Types DEF Rejected, sem
  <2>2. Holding' = Holding
    BY <2>1 DEF Holding
  <2> QED
    BY <2>1, <2>2, PoolStutter
<1>3. ASSUME NEW t \in Tasks, Progress(t)
      PROVE  UNCHANGED <<maxRunning, Holding, Lined, Ahead>>
  <2>1. UNCHANGED <<maxRunning, waiters, future, pc>>
    BY <1>3 DEF Progress, sem
  <2>2. Holding' = Holding
    BY <2>1 DEF Holding
  <2> QED
    BY <2>1, <2>2, PoolStutter
<1>4. ASSUME UNCHANGED vars
      PROVE  UNCHANGED <<maxRunning, Holding, Lined, Ahead>>
  <2>1. UNCHANGED <<maxRunning, waiters, future, pc>>
    BY <1>4 DEF vars
  <2>2. Holding' = Holding
    BY <2>1 DEF Holding
  <2> QED
    BY <2>1, <2>2, PoolStutter
<1>5. ASSUME NEW t \in Tasks, AcquiresNow(t) \/ Waits(t)
      PROVE  Pool!Next
  BY <1>5, PoolEnter, PoolQueue
<1>6. ASSUME NEW t \in Tasks, WaiterResumes(t) \/ TimeoutElapses(t)
      PROVE  Pool!Next
  BY <1>6, PoolResumes, PoolTimeout
<1>7. ASSUME NEW t \in Tasks, RunUnwinds(t)
      PROVE  Pool!Next
  <2>1. PICK status : status = IF cut[t] = "timeout" THEN "timed_out" ELSE "cancelled"
    OBVIOUS
  <2>2. pc[t] = "running" /\ Release /\ Ends(t, status) /\ maxRunning' = maxRunning
    BY <1>7, <2>1 DEF RunUnwinds
  <2> QED
    BY <2>2, PoolRelease
<1>8. ASSUME NEW t \in Tasks, NEW status \in {"completed", "failed"}, RunReturns(t, status)
      PROVE  Pool!Next
  <2>1. pc[t] = "running" /\ Release /\ Ends(t, status) /\ maxRunning' = maxRunning
    BY <1>8 DEF RunReturns
  <2> QED
    BY <2>1, PoolRelease
<1>9. TurnCancelled => Pool!Next
  BY PoolCancelled
<1> QED
  BY <1>1, <1>2, <1>3, <1>4, <1>5, <1>6, <1>7, <1>8, <1>9 DEF Next

LEMMA PoolInit ==
  ASSUME Init
  PROVE  Pool!Init
<1>1. /\ maxRunning \in Nat \ {0} /\ pc = [t \in Tasks |-> "new"]
      /\ future = [t \in Tasks |-> "none"]
  BY DelegationAssumption DEF Init
<1>2. Holding = {} /\ Lined = {}
  BY <1>1 DEF Holding, Lined
<1>3. Ahead = {}
  BY <1>2 DEF Ahead
<1> QED
  BY <1>1, <1>2, <1>3 DEF Pool!Init

(* SubagentCapacity implements the pool it is documented to be ("FIFO      *)
(* admission", capacity.py:1): at most max_running hold a slot, at most    *)
(* max_queued wait, and slots are given in the order of the line, however  *)
(* grants, timeouts and cancellations interleave.                          *)
THEOREM ImplementsPoolThm == Spec => ImplementsPool
<1>1. Init => Pool!Init
  BY PoolInit
<1>2. Inv /\ Inv' /\ [Next]_vars => [Pool!Next]_<<maxRunning, Holding, Lined, Ahead>>
  BY PoolStep
<1> QED
  BY <1>1, <1>2, InvThm, PTL DEF Spec, ImplementsPool, Pool!Spec

=============================================================================
