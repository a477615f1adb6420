-------------------------- MODULE ProvisioningProofs --------------------------
(* Theorems about Provisioning, for every number of requests, instances,   *)
(* sandboxes, tokens and failures.                                         *)
EXTENDS Provisioning, TLAPS

-----------------------------------------------------------------------------
(* The inductive invariant.                                                *)

RequestPCs == {"free", "call", "refresh", "persist", "retry", "read", "create", "insert",
               "link", "publish", "delete", "bury"}

Request == [pc : RequestPCs, kind : {"none", "manual", "full", "chat", "box", "kill", "login"},
            old : Nat, new : Nat, todo : Seq(InstanceSet), for : SUBSET InstanceSet,
            box : 0..MaxBoxes]

TurnState == [pc : {"away", "asked", "connecting"}, box : 0..MaxBoxes]

TypeOK ==
  /\ issued \in Nat /\ valid \subseteq Nat /\ stored \in Nat /\ lost \subseteq Nat
  /\ row \in [Boxes -> {"none", "alive", "dead"}] /\ running \subseteq Boxes
  /\ link \in [InstanceSet -> 0..MaxBoxes]
  /\ manual \in BOOLEAN
  /\ req \in [Requests -> Request]
  /\ turn \in [InstanceSet -> TurnState]
  /\ created \in 0..MaxBoxes /\ spilt \subseteq Boxes /\ faults \in Nat

\* Tokens are numbered as they are issued.
Tokens == stored \in 1..issued /\ \A t \in valid : t \in 1..issued

\* One request.  The token it may spend was issued; the one it has yet to
\* write is honoured and not in the row.  Its sandbox has no row before the
\* insert and is buried only when deleted.
RequestOK(q) ==
  /\ q.pc \in {"call", "refresh"} => q.old <= issued
  /\ q.pc = "persist" => q.new \in valid /\ q.new # stored
  /\ q.pc \in {"insert", "link", "delete", "bury"} => q.box \in 1..created
  /\ q.pc = "insert" => row[q.box] = "none"
  /\ q.pc \in {"link", "delete", "bury"} => row[q.box] # "none"
  /\ q.pc = "bury" => q.box \notin running
  /\ q.pc \in {"read", "link"} => q.todo # <<>>
  /\ q.pc \in {"create", "insert"} /\ q.kind # "box" => q.todo # <<>>

\* Two requests: a token that one has yet to write is known to no other, and a
\* sandbox is inserted by one of them.
Apart ==
  \A r, s \in Requests :
    \/ r = s
    \/ /\ ~(req[r].pc = "persist" /\ req[s].pc = "persist" /\ req[r].new = req[s].new)
       /\ ~(req[r].pc = "persist" /\ req[s].pc \in {"call", "refresh"} /\ req[r].new = req[s].old)
       /\ ~(req[r].pc = "insert" /\ req[s].pc = "insert" /\ req[r].box = req[s].box)

\* Sandboxes are numbered as they are created; what instances are linked to,
\* or a runner connects to, has a row.
Rows ==
  /\ \A b \in Boxes : b > created => b \notin running /\ row[b] = "none"
  /\ \A i \in InstanceSet : link[i] # 0 => row[link[i]] # "none"
  /\ \A i \in InstanceSet :
       turn[i].pc = "connecting" => turn[i].box \in Boxes /\ row[turn[i].box] # "none"

Inv ==
  /\ TypeOK /\ Tokens
  /\ \A r \in Requests : RequestOK(req[r])
  /\ Apart /\ Rows
  /\ Reclaimable /\ TokenKept

-----------------------------------------------------------------------------
(* Steps of one request.                                                   *)

\* Only request r changes, and it keeps its type.
Moves(r) == req' \in [Requests -> Request] /\ \A s \in Requests \ {r} : req'[s] = req[s]

\* A step that touches neither tokens nor sandboxes keeps the invariant, if
\* the request leaves no write undone, what it goes on to is in order, and the
\* token it may spend is not one that another has yet to write.
LEMMA Quiet ==
  ASSUME Inv, NEW r \in Requests, Moves(r),
         UNCHANGED <<tokenVars, row, running, link, created, spilt>>,
         turn' \in [InstanceSet -> TurnState],
         \A i \in InstanceSet : turn'[i].pc = "connecting" => turn'[i] = turn[i],
         manual' \in BOOLEAN, faults' \in Nat,
         req[r].pc \notin {"persist", "insert"},
         req'[r].pc \notin {"persist", "insert"},
         req'[r].pc \in {"call", "refresh"} =>
           \A s \in Requests \ {r} : req[s].pc = "persist" => req[s].new # req'[r].old,
         RequestOK(req[r])'
  PROVE  Inv'
<1>1. TypeOK'
  BY DEF Inv, TypeOK, Moves, tokenVars
<1>2. Tokens' /\ Rows'
  BY DEF Inv, Tokens, Rows, tokenVars
<1>3. \A s \in Requests : RequestOK(req[s])'
  <2> TAKE s \in Requests
  <2>1. CASE s # r
    BY <2>1 DEF Inv, RequestOK, Moves, tokenVars
  <2> QED BY <2>1
<1>4. Apart'
  <2> SUFFICES ASSUME NEW s \in Requests, NEW t \in Requests, s # t
               PROVE  /\ ~(req'[s].pc = "persist" /\ req'[t].pc = "persist" /\ req'[s].new = req'[t].new)
                      /\ ~(/\ req'[s].pc = "persist" /\ req'[t].pc \in {"call", "refresh"}
                           /\ req'[s].new = req'[t].old)
                      /\ ~(req'[s].pc = "insert" /\ req'[t].pc = "insert" /\ req'[s].box = req'[t].box)
    BY DEF Apart
  <2>1. CASE s = r
    BY <2>1
  <2>2. CASE s # r /\ t = r
    BY <2>2 DEF Moves
  <2>3. CASE s # r /\ t # r
    BY <2>3 DEF Inv, Apart, Moves
  <2> QED BY <2>1, <2>2, <2>3
<1>5. Reclaimable' /\ TokenKept'
  BY DEF Inv, Tokens, Reclaimable, TokenKept, Moves, tokenVars
<1> QED BY <1>1, <1>2, <1>3, <1>4, <1>5 DEF Inv

\* The absent request is in order.
LEMMA FreeOK == Free \in Request /\ RequestOK(Free) /\ Free.pc = "free"
  BY ProvisioningAssumption DEF Free, Request, RequestPCs, RequestOK, ProvisioningAssumption

\* A request that becomes q.
LEMMA Becomes ==
  ASSUME TypeOK, NEW r \in Requests, NEW q \in Request, req' = [req EXCEPT ![r] = q]
  PROVE  Moves(r) /\ req'[r] = q
  BY DEF TypeOK, Moves

LEMMA EndsMoves ==
  ASSUME TypeOK, NEW r \in Requests, Ends(r)
  PROVE  Moves(r) /\ req'[r] = Free
  BY FreeOK DEF TypeOK, Ends, Moves

\* Goes changes the place of the request and nothing else of it.
LEMMA GoesMoves ==
  ASSUME TypeOK, NEW r \in Requests, NEW pc \in RequestPCs, Goes(r, pc)
  PROVE  Moves(r) /\ req'[r] = [req[r] EXCEPT !.pc = pc]
<1>1. [req[r] EXCEPT !.pc = pc] \in Request
  BY DEF TypeOK, Request
<1>2. req' = [req EXCEPT ![r] = [req[r] EXCEPT !.pc = pc]]
  BY DEF Goes
<1> QED BY <1>1, <1>2, Becomes

\* A request that ends keeps the invariant, unless it held a write.
LEMMA EndsOK ==
  ASSUME Inv, NEW r \in Requests, Ends(r),
         UNCHANGED <<tokenVars, row, running, link, created, spilt, turn>>,
         manual' \in BOOLEAN, faults' \in Nat,
         req[r].pc \notin {"persist", "insert"}
  PROVE  Inv'
<1>1. Moves(r) /\ req'[r] = Free
  BY EndsMoves DEF Inv
<1>2. RequestOK(req[r])'
  BY <1>1 DEF RequestOK, Free
<1>3. turn' \in [InstanceSet -> TurnState]
  BY DEF Inv, TypeOK
<1> QED BY <1>1, <1>2, <1>3, Quiet DEF Free

\* Requests that are dropped leave the others as they are, and what they had
\* not written is booked.
LEMMA DropsOK ==
  ASSUME Inv, NEW rs \in SUBSET Requests, Drops(rs)
  PROVE  Inv'
<1> DEFINE dead == {req[r].old : r \in {q \in rs : req[q].pc = "persist"}} \ {0}
           gone == {req[r].box : r \in {q \in rs : req[q].pc = "insert"}}
<1>0. /\ TypeOK /\ faults' = faults + 1
      /\ req' = [r \in Requests |-> IF r \in rs THEN Free ELSE req[r]]
      /\ lost' = lost \cup dead /\ spilt' = spilt \cup gone
      /\ UNCHANGED <<issued, valid, stored, row, running, link, created, manual, turn>>
  BY DEF Inv, Drops, Fault
<1>1. dead \subseteq Nat
  BY <1>0 DEF TypeOK, Request
<1>2. gone \subseteq Boxes
  BY <1>0, ProvisioningAssumption DEF Inv, RequestOK, TypeOK, Boxes, ProvisioningAssumption
<1>3. \A s \in Requests :
        \/ s \in rs /\ req'[s] = Free /\ req'[s].pc = "free"
        \/ s \notin rs /\ req'[s] = req[s]
  BY <1>0, FreeOK
<1>4. \A s \in rs :
        /\ req[s].pc = "persist" /\ req[s].old # 0 => req[s].old \in dead
        /\ req[s].pc = "insert" => req[s].box \in gone
  OBVIOUS
<1> HIDE DEF dead, gone
<1>5. req' \in [Requests -> Request]
  BY <1>0, FreeOK DEF TypeOK
<1>6. TypeOK'
  BY <1>0, <1>1, <1>2, <1>5 DEF TypeOK
<1>7. \A s \in Requests : RequestOK(req[s])'
  BY <1>0, <1>3 DEF Inv, RequestOK
<1>8. Apart' /\ Rows' /\ Tokens'
  BY <1>0, <1>3 DEF Inv, Apart, Rows, Tokens
<1>9. Reclaimable'
  BY <1>0, <1>3, <1>4 DEF Inv, Reclaimable
<1>10. TokenKept'
  <2>1. stored # 0
    BY DEF Inv, Tokens
  <2> QED BY <1>0, <1>3, <1>4, <2>1 DEF Inv, TokenKept
<1> QED BY <1>6, <1>7, <1>8, <1>9, <1>10 DEF Inv

-----------------------------------------------------------------------------
(* One lemma per action.                                                   *)

\* A trigger reads the token from the row.
LEMMA TriggersOK ==
  ASSUME Inv, NEW r \in Requests, NEW kind \in {"manual", "full"}, Triggers(r, kind)
  PROVE  Inv'
<1>1. PICK pc \in {"call", Onward(Instances)} :
        req' = [req EXCEPT ![r] = [Free EXCEPT !.pc = pc, !.kind = kind, !.old = stored,
                                               !.todo = Instances, !.for = InstanceSet]]
  BY DEF Triggers
<1> DEFINE q == [Free EXCEPT !.pc = pc, !.kind = kind, !.old = stored,
                              !.todo = Instances, !.for = InstanceSet]
<1>2. Instances \in Seq(InstanceSet)
  BY ProvisioningAssumption DEF ProvisioningAssumption, InstanceSet
<1>3. pc \in {"call", "read", "publish"} /\ (pc = "read" => Instances # <<>>)
  BY DEF Onward
<1>4. q \in Request
  BY <1>2, <1>3, FreeOK DEF Inv, TypeOK, Free, Request, RequestPCs
<1>5. Moves(r) /\ req'[r] = q
  BY <1>1, <1>4, Becomes DEF Inv
<1>6. q.pc = pc /\ q.old = stored /\ q.todo = Instances
  BY DEF Free
<1> HIDE DEF q
<1>7. RequestOK(req[r])'
  <2>1. stored <= issued'
    BY DEF Triggers, tokenVars, Inv, Tokens, TypeOK
  <2> QED BY <1>3, <1>5, <1>6, <2>1 DEF RequestOK
<1>8. \A s \in Requests : req[s].pc = "persist" => req[s].new # stored
  BY DEF Inv, RequestOK
<1> QED BY <1>3, <1>5, <1>6, <1>7, <1>8, Quiet DEF Triggers, boxVars, Inv, TypeOK

\* A chat goes to its instance.
LEMMA ChatsOK ==
  ASSUME Inv, NEW r \in Requests, NEW i \in InstanceSet, Chats(r, i)
  PROVE  Inv'
<1>0. PICK pc \in {"read", "publish"} :
        req' = [req EXCEPT ![r] = [Free EXCEPT !.pc = pc, !.kind = "chat", !.todo = <<i>>, !.for = {i}]]
  BY DEF Chats
<1> DEFINE q == [Free EXCEPT !.pc = pc, !.kind = "chat", !.todo = <<i>>, !.for = {i}]
<1>1. <<i>> \in Seq(InstanceSet) /\ {i} \in SUBSET InstanceSet
  OBVIOUS
<1>2. q \in Request
  BY <1>1, FreeOK DEF Request, RequestPCs
<1>3. Moves(r) /\ req'[r] = q
  BY <1>0, <1>2, Becomes DEF Inv
<1>4. q.pc = pc /\ q.todo # <<>>
  BY DEF Free
<1> HIDE DEF q
<1>5. RequestOK(req[r])'
  BY <1>3, <1>4 DEF RequestOK
<1> QED BY <1>3, <1>4, <1>5, Quiet DEF Chats, boxVars, Inv, TypeOK

\* A sandbox by itself replaces none.
LEMMA AddsBoxOK ==
  ASSUME Inv, NEW r \in Requests, AddsBox(r)
  PROVE  Inv'
<1> DEFINE q == [Free EXCEPT !.pc = "create", !.kind = "box"]
<1>2. q \in Request
  BY FreeOK DEF Free, Request, RequestPCs
<1>3. Moves(r) /\ req'[r] = q
  BY <1>2, Becomes DEF Inv, AddsBox
<1>4. q.pc = "create" /\ q.kind = "box"
  BY DEF Free
<1> HIDE DEF q
<1>5. RequestOK(req[r])'
  BY <1>3, <1>4 DEF RequestOK
<1> QED BY <1>3, <1>4, <1>5, Quiet DEF AddsBox, boxVars, Inv, TypeOK

\* Only a sandbox with a row is killed.
LEMMA KillsOK ==
  ASSUME Inv, NEW r \in Requests, NEW b \in Boxes, Kills(r, b)
  PROVE  Inv'
<1> DEFINE q == [Free EXCEPT !.pc = "delete", !.kind = "kill", !.box = b]
<1>1. b \in 0..MaxBoxes
  BY ProvisioningAssumption DEF Boxes, ProvisioningAssumption
<1>2. q \in Request
  BY <1>1, FreeOK DEF Request, RequestPCs
<1>3. Moves(r) /\ req'[r] = q
  BY <1>2, Becomes DEF Inv, Kills
<1>4. q.pc = "delete" /\ q.box = b
  BY DEF Free
<1> HIDE DEF q
<1>5. RequestOK(req[r])'
  BY <1>3, <1>4, ProvisioningAssumption
     DEF RequestOK, Kills, boxVars, Inv, TypeOK, Rows, Boxes, ProvisioningAssumption
<1> QED BY <1>3, <1>4, <1>5, Quiet DEF Kills, boxVars, Inv, TypeOK

\* The provider's answer is no write.
LEMMA CallsOK ==
  ASSUME Inv, NEW r \in Requests, CallsProvider(r) \/ Retries(r)
  PROVE  Inv'
<1>0. TypeOK /\ RequestOK(req[r]) /\ req[r] \in Request
  BY DEF Inv, TypeOK
<1>1. PICK pc \in {"read", "publish", "refresh"} :
        /\ Goes(r, pc)
        /\ pc = "read" => req[r].todo # <<>>
        /\ pc = "refresh" => req[r].pc = "call"
  BY DEF CallsProvider, Retries, Onward
<1>2. Moves(r) /\ req'[r] = [req[r] EXCEPT !.pc = pc]
  BY <1>0, <1>1, GoesMoves DEF RequestPCs
<1>3. req'[r].pc = pc /\ req'[r].todo = req[r].todo /\ req'[r].old = req[r].old
  BY <1>0, <1>2 DEF Request
<1>4. RequestOK(req[r])'
  BY <1>0, <1>1, <1>3 DEF RequestOK, CallsProvider, Retries, tokenVars
<1>5. pc = "refresh" =>
        \A s \in Requests \ {r} : req[s].pc = "persist" => req[s].new # req'[r].old
  BY <1>1, <1>3 DEF Inv, Apart
<1> QED BY <1>0, <1>1, <1>2, <1>3, <1>4, <1>5, Quiet DEF CallsProvider, Retries, boxVars, TypeOK

\* A request gets a token that was just issued: none other knows it.
LEMMA TokenIssued ==
  ASSUME Inv, NEW r \in Requests, NEW q \in Request, q.pc = "persist", q.new = issued',
         req' = [req EXCEPT ![r] = q], issued' = issued + 1,
         valid' \subseteq valid \cup {issued'}, issued' \in valid',
         \A s \in Requests \ {r} : req[s].pc = "persist" => req[s].new \in valid',
         req[r].pc # "insert", TokenKept',
         UNCHANGED <<stored, lost, boxVars, manual, turn, faults>>
  PROVE  Inv'
<1>0. TypeOK /\ Tokens /\ issued \in Nat
  BY DEF Inv, TypeOK
<1>1. Moves(r) /\ req'[r] = q
  BY <1>0, Becomes
<1>2. valid' \subseteq Nat
  BY <1>0 DEF TypeOK
<1>3. TypeOK'
  BY <1>0, <1>1, <1>2 DEF TypeOK, Moves, boxVars
<1>4. Tokens'
  BY <1>0 DEF Tokens
<1>5. \A s \in Requests : RequestOK(req[s])'
  <2> TAKE s \in Requests
  <2>1. CASE s = r
    BY <1>0, <1>1, <2>1 DEF RequestOK, Tokens
  <2>2. CASE s # r
    <3>1. req'[s] = req[s] /\ RequestOK(req[s]) /\ req[s] \in Request
      BY <1>0, <1>1, <2>2 DEF Inv, Moves, TypeOK
    <3>2. req[s].old <= issued => req[s].old <= issued'
      BY <1>0, <3>1 DEF Request
    <3> QED BY <2>2, <3>1, <3>2 DEF RequestOK, boxVars
  <2> QED BY <2>1, <2>2
<1>6. Apart'
  <2>1. \A s \in Requests \ {r} :
          /\ req'[s] = req[s]
          /\ req[s].pc = "persist" => req[s].new # issued'
          /\ req[s].pc \in {"call", "refresh"} => req[s].old # issued'
    <3> TAKE s \in Requests \ {r}
    <3>1. req'[s] = req[s] /\ RequestOK(req[s]) /\ req[s] \in Request
      BY <1>0, <1>1 DEF Inv, Moves, TypeOK
    <3>2. \A t \in valid : t # issued'
      BY <1>0 DEF Tokens
    <3> QED BY <1>0, <3>1, <3>2 DEF RequestOK, Request
  <2> QED BY <1>1, <2>1 DEF Inv, Apart
<1>7. Rows' /\ Reclaimable'
  BY <1>1 DEF Inv, Rows, Reclaimable, Moves, boxVars
<1> QED BY <1>3, <1>4, <1>5, <1>6, <1>7 DEF Inv

\* A refresh spends a token that no other request waits to write.
LEMMA RefreshesOK ==
  ASSUME Inv, NEW r \in Requests, Refreshes(r)
  PROVE  Inv'
<1>0. TypeOK /\ req[r] \in Request /\ req[r].pc = "refresh" /\ issued \in Nat
  BY DEF Inv, TypeOK, Refreshes
<1>1. CASE req[r].old \notin valid
  BY <1>0, <1>1, EndsOK DEF Refreshes, tokenVars, boxVars, TypeOK
<1>2. CASE req[r].old \in valid
  <2> DEFINE q == [req[r] EXCEPT !.pc = "persist", !.new = issued']
  <2>1. /\ issued' = issued + 1 /\ valid' = (valid \ {req[r].old}) \cup {issued'}
        /\ req' = [req EXCEPT ![r] = q]
        /\ UNCHANGED <<stored, lost, boxVars, manual, turn, faults>>
    BY <1>2 DEF Refreshes
  <2>2. q \in Request
    <3>1. issued' \in Nat /\ "persist" \in RequestPCs
      BY <1>0, <2>1 DEF RequestPCs
    <3> QED BY <1>0, <3>1 DEF Request
  <2>3. q.pc = "persist" /\ q.new = issued' /\ q.old = req[r].old
    BY <1>0 DEF Request
  <2> HIDE DEF q
  <2>4. \A s \in Requests \ {r} : req[s].pc = "persist" => req[s].new \in valid'
    BY <1>0, <2>1 DEF Inv, RequestOK, Apart
  <2>5. Moves(r) /\ req'[r] = q
    BY <1>0, <2>1, <2>2, Becomes
  <2>6. TokenKept'
    <3>1. CASE stored = req[r].old
      BY <2>1, <2>3, <2>5, <3>1 DEF TokenKept
    <3>2. CASE stored # req[r].old
      BY <1>0, <2>1, <2>5, <3>2 DEF Inv, TokenKept, Moves
    <3> QED BY <3>1, <3>2
  <2> QED BY <1>0, <2>1, <2>2, <2>3, <2>4, <2>6, TokenIssued
<1> QED BY <1>1, <1>2

\* A login brings a token beside the others.
LEMMA LogsInOK ==
  ASSUME Inv, NEW r \in Requests, LogsIn(r)
  PROVE  Inv'
<1> DEFINE q == [Free EXCEPT !.pc = "persist", !.kind = "login", !.new = issued']
<1>0. /\ TypeOK /\ issued \in Nat /\ req[r].pc = "free"
      /\ issued' = issued + 1 /\ valid' = valid \cup {issued'}
      /\ req' = [req EXCEPT ![r] = q]
      /\ UNCHANGED <<stored, lost, boxVars, manual, turn, faults>>
  BY DEF Inv, TypeOK, LogsIn
<1>1. q \in Request
  <2>1. issued' \in Nat
    BY <1>0
  <2> QED BY <2>1, FreeOK DEF Free, Request, RequestPCs
<1>2. q.pc = "persist" /\ q.new = issued'
  BY DEF Free
<1> HIDE DEF q
<1>3. \A s \in Requests \ {r} : req[s].pc = "persist" => req[s].new \in valid'
  BY <1>0 DEF Inv, RequestOK
<1>4. Moves(r)
  BY <1>0, <1>1, Becomes
<1>5. TokenKept'
  BY <1>0, <1>4 DEF Inv, TokenKept, Moves
<1> QED BY <1>0, <1>1, <1>2, <1>3, <1>5, TokenIssued

\* A token that is honoured reaches the row.
LEMMA PersistsOK ==
  ASSUME Inv, NEW r \in Requests, Persists(r)
  PROVE  Inv'
<1>0. /\ TypeOK /\ req[r] \in Request /\ RequestOK(req[r]) /\ req[r].pc = "persist"
      /\ stored' = req[r].new /\ UNCHANGED <<issued, valid, lost, boxVars, manual, turn, faults>>
  BY DEF Inv, TypeOK, Persists
<1>1. Moves(r) /\ req'[r].pc \in {"retry", "free"}
  <2>1. CASE Ends(r)
    BY <1>0, <2>1, EndsMoves, FreeOK
  <2>2. CASE Goes(r, "retry")
    <3>1. Moves(r) /\ req'[r] = [req[r] EXCEPT !.pc = "retry"]
      BY <1>0, <2>2, GoesMoves DEF RequestPCs
    <3> QED BY <1>0, <3>1 DEF Request
  <2> QED BY <2>1, <2>2 DEF Persists
<1>2. stored' \in valid /\ stored' \in Nat
  BY <1>0 DEF RequestOK, Request
<1>3. TypeOK'
  BY <1>0, <1>1, <1>2 DEF TypeOK, Moves, boxVars
<1>4. \A s \in Requests : RequestOK(req[s])'
  <2> TAKE s \in Requests
  <2>1. CASE s = r
    BY <1>1, <2>1 DEF RequestOK
  <2>2. CASE s # r
    <3>1. req'[s] = req[s] /\ (req[s].pc = "persist" => req[s].new # req[r].new)
      BY <1>0, <1>1, <2>2 DEF Inv, Apart, Moves
    <3> QED BY <1>0, <3>1 DEF Inv, RequestOK, boxVars
  <2> QED BY <2>1, <2>2
<1>5. Apart'
  <2>1. \A s \in Requests \ {r} : req'[s] = req[s]
    BY <1>1 DEF Moves
  <2> QED BY <1>1, <2>1 DEF Inv, Apart
<1>6. Rows' /\ Reclaimable'
  BY <1>0, <1>1 DEF Inv, Rows, Reclaimable, Moves, boxVars
<1>7. Tokens' /\ TokenKept'
  BY <1>0, <1>2 DEF Inv, Tokens, TokenKept
<1> QED BY <1>3, <1>4, <1>5, <1>6, <1>7 DEF Inv

\* The request goes on to the Event, or to the next instance, which it has.
GoesOn(r) == req'[r].pc = "publish" \/ (req'[r].pc = "read" /\ req'[r].todo # <<>>)

\* The request that has provided for its instance goes on.
LEMMA NextInstanceMoves ==
  ASSUME TypeOK, NEW r \in Requests, req[r].todo # <<>>, NextInstance(r)
  PROVE  Moves(r) /\ GoesOn(r)
<1> DEFINE rest == Tail(req[r].todo)
           q == [req[r] EXCEPT !.todo = rest, !.box = 0, !.pc = Onward(rest)]
<1>1. req[r] \in Request /\ rest \in Seq(InstanceSet)
  BY DEF TypeOK, Request
<1>2. Onward(rest) \in RequestPCs /\ 0 \in 0..MaxBoxes
  BY ProvisioningAssumption DEF Onward, RequestPCs, ProvisioningAssumption
<1>3. req' = [req EXCEPT ![r] = q]
  BY DEF NextInstance
<1>4. q \in Request
  BY <1>1, <1>2 DEF Request
<1>5. q.pc = Onward(rest) /\ q.todo = rest
  BY <1>1 DEF Request
<1> HIDE DEF q
<1>6. Moves(r) /\ req'[r] = q
  BY <1>3, <1>4, Becomes
<1>7. Onward(rest) = "publish" \/ (Onward(rest) = "read" /\ rest # <<>>)
  BY DEF Onward
<1> HIDE DEF rest
<1> QED BY <1>5, <1>6, <1>7 DEF GoesOn

\* An instance has its live sandbox, or a request goes on to create one.
LEMMA ReadsOK ==
  ASSUME Inv, NEW r \in Requests, Reads(r)
  PROVE  Inv'
<1>0. /\ TypeOK /\ req[r] \in Request /\ RequestOK(req[r]) /\ req[r].pc = "read"
      /\ req[r].todo # <<>>
      /\ UNCHANGED <<tokenVars, boxVars, manual, turn, faults>>
  BY DEF Inv, TypeOK, Reads, RequestOK
<1>1. CASE NextInstance(r)
  <2>1. Moves(r) /\ GoesOn(r)
    BY <1>0, <1>1, NextInstanceMoves
  <2>2. RequestOK(req[r])'
    BY <2>1 DEF RequestOK, GoesOn
  <2> QED BY <1>0, <2>1, <2>2, Quiet DEF boxVars, TypeOK, GoesOn
<1>2. CASE Goes(r, "create")
  <2>1. Moves(r) /\ req'[r] = [req[r] EXCEPT !.pc = "create"]
    BY <1>0, <1>2, GoesMoves DEF RequestPCs
  <2>2. req'[r].pc = "create" /\ req'[r].todo = req[r].todo
    BY <1>0, <2>1 DEF Request
  <2>3. RequestOK(req[r])'
    BY <1>0, <2>2 DEF RequestOK
  <2> QED BY <1>0, <2>1, <2>2, <2>3, Quiet DEF boxVars, TypeOK
<1> QED BY <1>1, <1>2 DEF Reads

\* A new sandbox has a number of its own, and one request to write its row.
LEMMA CreatesOK ==
  ASSUME Inv, NEW r \in Requests, Creates(r)
  PROVE  Inv'
<1>1. /\ TypeOK /\ req[r] \in Request /\ RequestOK(req[r]) /\ req[r].pc = "create"
      /\ UNCHANGED <<tokenVars, row, link, spilt, manual, turn, faults>>
      /\ created \in 0..MaxBoxes /\ MaxBoxes \in Nat
      /\ created < MaxBoxes /\ created' = created + 1
      /\ running' = running \cup {created'}
      /\ req' = [req EXCEPT ![r].pc = "insert", ![r].box = created']
  BY ProvisioningAssumption DEF Inv, TypeOK, Creates, ProvisioningAssumption
<1> DEFINE q == [req[r] EXCEPT !.pc = "insert", !.box = created']
<1>2. created' \in Boxes /\ created' \in 0..MaxBoxes /\ created' > created
  BY <1>1 DEF Boxes
<1>3. q \in Request
  BY <1>1, <1>2 DEF Request, RequestPCs
<1>4. /\ q.pc = "insert" /\ q.box = created' /\ q.todo = req[r].todo
      /\ q.kind = req[r].kind
  BY <1>1 DEF Request
<1>5. req' = [req EXCEPT ![r] = q]
  BY <1>1
<1> HIDE DEF q
<1>6. Moves(r) /\ req'[r] = q
  BY <1>1, <1>3, <1>5, Becomes
<1>7. TypeOK'
  BY <1>1, <1>2, <1>6 DEF TypeOK, Moves, tokenVars
<1>8. row[created'] = "none"
  BY <1>2 DEF Inv, Rows
<1>9. \A s \in Requests : RequestOK(req[s])'
  <2> TAKE s \in Requests
  <2>1. CASE s = r
    BY <1>1, <1>2, <1>4, <1>6, <1>8, <2>1 DEF RequestOK, Boxes
  <2>2. CASE s # r
    <3>1. req'[s] = req[s] /\ RequestOK(req[s])
      BY <1>6, <2>2 DEF Inv, Moves
    <3>2. req[s].box \in 1..created => req[s].box \in 1..created' /\ req[s].box # created'
      BY <1>1
    <3>3. running' = running \cup {created'} /\ UNCHANGED <<issued, valid, stored, row>>
      BY <1>1 DEF tokenVars
    <3>4. req[s].pc = "bury" => req[s].box \notin running'
      BY <3>1, <3>2, <3>3 DEF RequestOK
    <3> QED BY <3>1, <3>2, <3>3, <3>4 DEF RequestOK
  <2> QED BY <2>1, <2>2
<1>10. Apart'
  <2>1. created' \notin 1..created
    BY <1>1
  <2>2. \A s \in Requests \ {r} : req'[s] = req[s] /\ (req[s].pc = "insert" => req[s].box # created')
    BY <1>6, <2>1 DEF Inv, Moves, RequestOK
  <2>3. req'[r].pc = "insert" /\ req'[r].box = created'
    BY <1>4, <1>6
  <2> QED BY <2>2, <2>3 DEF Inv, Apart
<1>11. Rows'
  <2>1. \A b \in Boxes : b > created' => b > created /\ b # created'
    BY <1>1 DEF Boxes
  <2> QED BY <1>1, <2>1 DEF Inv, Rows
<1>12. Reclaimable'
  BY <1>1, <1>4, <1>6 DEF Inv, Reclaimable, Moves
<1>13. TokenKept' /\ Tokens'
  BY <1>1, <1>6 DEF Inv, Tokens, TokenKept, Moves, tokenVars
<1> QED BY <1>7, <1>9, <1>10, <1>11, <1>12, <1>13 DEF Inv

\* The row is written by the request that created the sandbox, and only by it.
LEMMA InsertsOK ==
  ASSUME Inv, NEW r \in Requests, Inserts(r)
  PROVE  Inv'
<1> DEFINE b == req[r].box
<1>0. /\ TypeOK /\ req[r] \in Request /\ RequestOK(req[r]) /\ req[r].pc = "insert"
      /\ UNCHANGED <<tokenVars, running, link, created, spilt, manual, turn, faults>>
      /\ row' = [row EXCEPT ![b] = "alive"]
      /\ IF req[r].kind = "box" THEN Ends(r) ELSE Goes(r, "link")
      /\ created \in 0..MaxBoxes /\ MaxBoxes \in Nat
  BY ProvisioningAssumption DEF Inv, TypeOK, Inserts, ProvisioningAssumption
<1>1. b \in Boxes /\ row[b] = "none" /\ b <= created
  BY <1>0 DEF RequestOK, Boxes
<1>2. \A s \in Requests \ {r} : ~(req[s].pc = "insert" /\ req[s].box = b)
  BY <1>0 DEF Inv, Apart
<1> HIDE DEF b
<1>3. /\ row' \in [Boxes -> {"none", "alive", "dead"}] /\ row'[b] = "alive"
      /\ \A c \in Boxes \ {b} : row'[c] = row[c]
  BY <1>0, <1>1 DEF TypeOK
<1>4. Moves(r) /\ RequestOK(req[r])' /\ req'[r].pc \in {"free", "link"}
  <2>1. CASE req[r].kind = "box"
    BY <1>0, <2>1, EndsMoves, FreeOK DEF RequestOK
  <2>2. CASE req[r].kind # "box"
    <3>1. Moves(r) /\ req'[r] = [req[r] EXCEPT !.pc = "link"]
      BY <1>0, <2>2, GoesMoves DEF RequestPCs
    <3>2. /\ req'[r].pc = "link" /\ req'[r].box = b /\ req'[r].todo = req[r].todo
      BY <1>0, <3>1 DEF Request, b
    <3>3. req[r].box = b
      BY DEF b
    <3> QED BY <1>0, <1>3, <2>2, <3>1, <3>2, <3>3 DEF RequestOK
  <2> QED BY <2>1, <2>2
<1>5. TypeOK'
  BY <1>0, <1>3, <1>4 DEF TypeOK, Moves, tokenVars
<1>6. \A s \in Requests : RequestOK(req[s])'
  <2> TAKE s \in Requests
  <2>1. CASE s # r
    <3>1. req'[s] = req[s] /\ RequestOK(req[s]) /\ req[s] \in Request
      BY <1>0, <1>4, <2>1 DEF Inv, Moves, TypeOK
    <3>2. req[s].box \in 1..created => req[s].box \in Boxes
      BY <1>0 DEF Boxes
    <3> QED BY <1>0, <1>2, <1>3, <2>1, <3>1, <3>2 DEF RequestOK, tokenVars
  <2> QED BY <1>4, <2>1
<1>7. Apart'
  BY <1>4 DEF Inv, Apart, Moves
<1>8. Rows'
  <2>1. \A i \in InstanceSet : link[i] # 0 => link[i] \in Boxes
    BY <1>0 DEF TypeOK, Boxes
  <2>2. \A c \in Boxes : c > created => c # b
    BY <1>0, <1>1 DEF Boxes
  <2> QED BY <1>0, <1>1, <1>3, <2>1, <2>2 DEF Inv, Rows
<1>9. Reclaimable'
  <2> SUFFICES ASSUME NEW c \in running'
               PROVE  \/ row'[c] = "alive"
                      \/ \E s \in Requests : req'[s].pc = "insert" /\ req'[s].box = c
                      \/ c \in spilt'
    BY DEF Reclaimable
  <2>1. CASE c # b
    <3>1. c \in running /\ row'[c] = row[c] /\ spilt' = spilt
      BY <1>0, <1>3, <2>1 DEF TypeOK
    <3>2. \A s \in Requests : req[s].pc = "insert" /\ req[s].box = c => s # r /\ req'[s] = req[s]
      BY <1>4, <2>1 DEF Moves, b
    <3> QED BY <3>1, <3>2 DEF Inv, Reclaimable
  <2> QED BY <1>3, <2>1
<1>10. TokenKept' /\ Tokens'
  BY <1>0, <1>4 DEF Inv, Tokens, TokenKept, Moves, tokenVars
<1> QED BY <1>5, <1>6, <1>7, <1>8, <1>9, <1>10 DEF Inv

\* An instance is linked to a sandbox that has its row.
LEMMA LinksOK ==
  ASSUME Inv, NEW r \in Requests, Links(r)
  PROVE  Inv'
<1>0. /\ TypeOK /\ req[r] \in Request /\ RequestOK(req[r]) /\ req[r].pc = "link"
      /\ link' = [link EXCEPT ![Head(req[r].todo)] = req[r].box] /\ NextInstance(r)
      /\ UNCHANGED <<tokenVars, row, running, created, spilt, manual, turn, faults>>
      /\ req[r].todo # <<>> /\ row[req[r].box] # "none"
  BY DEF Inv, TypeOK, Links, RequestOK
<1>1. Head(req[r].todo) \in InstanceSet /\ req[r].box \in 0..MaxBoxes
  BY <1>0 DEF Request
<1>2. /\ link' \in [InstanceSet -> 0..MaxBoxes]
      /\ \A i \in InstanceSet : link'[i] = link[i] \/ link'[i] = req[r].box
  BY <1>0, <1>1 DEF TypeOK
<1>3. Moves(r) /\ GoesOn(r)
  BY <1>0, NextInstanceMoves
<1>4. TypeOK'
  BY <1>0, <1>2, <1>3 DEF TypeOK, Moves, tokenVars
<1>5. \A s \in Requests : RequestOK(req[s])'
  <2> TAKE s \in Requests
  <2>1. CASE s # r
    BY <1>0, <1>3, <2>1 DEF Inv, RequestOK, Moves, tokenVars
  <2>2. CASE s = r
    BY <1>3, <2>2 DEF RequestOK, GoesOn
  <2> QED BY <2>1, <2>2
<1>6. Apart'
  BY <1>3 DEF Inv, Apart, Moves, GoesOn
<1>7. Rows'
  BY <1>0, <1>2 DEF Inv, Rows
<1>8. Reclaimable' /\ TokenKept' /\ Tokens'
  BY <1>0, <1>3 DEF Inv, Tokens, Reclaimable, TokenKept, Moves, tokenVars
<1> QED BY <1>4, <1>5, <1>6, <1>7, <1>8 DEF Inv

\* So it is when the user links it.
LEMMA RelinksOK ==
  ASSUME Inv, NEW i \in InstanceSet, NEW b \in Boxes, Relinks(i, b)
  PROVE  Inv'
<1>0. /\ TypeOK /\ row[b] # "none" /\ b \in 0..MaxBoxes /\ link' = [link EXCEPT ![i] = b]
      /\ UNCHANGED <<tokenVars, row, running, created, spilt, manual, req, turn, faults>>
  BY ProvisioningAssumption DEF Inv, Relinks, Boxes, ProvisioningAssumption
<1>1. /\ link' \in [InstanceSet -> 0..MaxBoxes]
      /\ \A j \in InstanceSet : link'[j] = link[j] \/ link'[j] = b
  BY <1>0 DEF TypeOK
<1>2. TypeOK'
  BY <1>0, <1>1 DEF TypeOK, tokenVars
<1>3. \A s \in Requests : RequestOK(req[s])'
  BY <1>0 DEF Inv, RequestOK, tokenVars
<1>4. Rows'
  BY <1>0, <1>1 DEF Inv, Rows
<1>5. Apart' /\ Tokens' /\ Reclaimable' /\ TokenKept'
  BY <1>0 DEF Inv, Apart, Tokens, Reclaimable, TokenKept, Tokens, tokenVars
<1> QED BY <1>2, <1>3, <1>4, <1>5 DEF Inv

\* The Event or the raise asks for turns, and lets none into a sandbox.
LEMMA PublishesOK ==
  ASSUME Inv, NEW r \in Requests, Publishes(r)
  PROVE  Inv'
<1>0. /\ TypeOK /\ req[r].pc = "publish"
      /\ UNCHANGED <<tokenVars, boxVars, faults>>
  BY DEF Inv, Publishes
<1>1. Moves(r) /\ req'[r] = Free /\ req'[r].pc = "free"
  BY <1>0, EndsMoves, FreeOK DEF Publishes
<1>2. RequestOK(req[r])'
  BY <1>1 DEF RequestOK
<1>3. turn' \in [InstanceSet -> TurnState]
      /\ \A i \in InstanceSet : turn'[i].pc = "connecting" => turn'[i] = turn[i]
  <2>1. CASE UNCHANGED turn
    BY <1>0, <2>1 DEF TypeOK
  <2>2. CASE Asked(req[r].for)
    <3>1. \A i \in InstanceSet : turn[i] \in TurnState
      BY <1>0 DEF TypeOK
    <3>2. \A t \in TurnState : /\ [t EXCEPT !.pc = "asked"] \in TurnState
                               /\ [t EXCEPT !.pc = "asked"].pc = "asked"
      BY DEF TurnState
    <3>3. \A i \in InstanceSet : turn'[i] = turn[i] \/ turn'[i] = [turn[i] EXCEPT !.pc = "asked"]
      BY <2>2 DEF Asked
    <3>4. turn' = [i \in InstanceSet |-> turn'[i]]
      BY <2>2 DEF Asked
    <3>5. \A i \in InstanceSet : turn'[i] \in TurnState
      BY <3>1, <3>2, <3>3
    <3>6. turn' \in [InstanceSet -> TurnState]
      BY <3>4, <3>5
    <3>7. \A i \in InstanceSet : turn'[i].pc = "connecting" => turn'[i] = turn[i]
      BY <3>1, <3>2, <3>3
    <3> QED BY <3>6, <3>7
  <2> QED BY <2>1, <2>2 DEF Publishes
<1>4. manual' \in BOOLEAN
  BY DEF Publishes
<1> QED BY <1>0, <1>1, <1>2, <1>3, <1>4, Quiet DEF boxVars, TypeOK

\* A kill deletes a container that has its row.
LEMMA DeletesOK ==
  ASSUME Inv, NEW r \in Requests, Deletes(r)
  PROVE  Inv'
<1>0. /\ TypeOK /\ req[r] \in Request /\ RequestOK(req[r]) /\ req[r].pc = "delete"
      /\ running' = running \ {req[r].box} /\ Goes(r, "bury")
      /\ UNCHANGED <<tokenVars, row, link, created, spilt, manual, turn, faults>>
  BY DEF Inv, TypeOK, Deletes
<1>1. Moves(r) /\ req'[r] = [req[r] EXCEPT !.pc = "bury"]
  BY <1>0, GoesMoves DEF RequestPCs
<1>2. req'[r].pc = "bury" /\ req'[r].box = req[r].box
  BY <1>0, <1>1 DEF Request
<1>3. TypeOK'
  BY <1>0, <1>1 DEF TypeOK, Moves, tokenVars
<1>4. \A s \in Requests : RequestOK(req[s])'
  <2> TAKE s \in Requests
  <2>1. CASE s = r
    BY <1>0, <1>2, <2>1 DEF RequestOK
  <2>2. CASE s # r
    BY <1>0, <1>1, <2>2 DEF Inv, RequestOK, Moves, tokenVars
  <2> QED BY <2>1, <2>2
<1>5. Apart'
  <2>1. \A s \in Requests \ {r} : req'[s] = req[s]
    BY <1>1 DEF Moves
  <2> QED BY <1>2, <2>1 DEF Inv, Apart
<1>6. Rows'
  BY <1>0 DEF Inv, Rows
<1>7. Reclaimable' /\ TokenKept' /\ Tokens'
  BY <1>0, <1>1 DEF Inv, Tokens, Reclaimable, TokenKept, Moves, tokenVars
<1> QED BY <1>3, <1>4, <1>5, <1>6, <1>7 DEF Inv

\* What holds when the row of b, which has one, becomes dead: no request waits
\* to write it.
LEMMA RowDies ==
  ASSUME Inv, NEW b \in Boxes, row[b] # "none", row' = [row EXCEPT ![b] = "dead"]
  PROVE  /\ row' \in [Boxes -> {"none", "alive", "dead"}]
         /\ row'[b] = "dead" /\ \A c \in Boxes \ {b} : row'[c] = row[c]
         /\ \A c \in Boxes : row[c] \in {"none", "dead"} => row'[c] = row[c]
         /\ \A c \in Boxes : row[c] # "none" => row'[c] # "none"
  BY DEF Inv, TypeOK

\* The requests stay in order when a row dies.
LEMMA RowDiesRequests ==
  ASSUME Inv, NEW b \in Boxes, row[b] # "none", row' = [row EXCEPT ![b] = "dead"],
         UNCHANGED <<tokenVars, running, created>>,
         NEW s \in Requests, req'[s] = req[s]
  PROVE  RequestOK(req[s])'
<1>1. RequestOK(req[s]) /\ req[s] \in Request /\ created \in 0..MaxBoxes /\ MaxBoxes \in Nat
  BY ProvisioningAssumption DEF Inv, TypeOK, ProvisioningAssumption
<1>2. req[s].box \in 1..created => req[s].box \in Boxes
  BY <1>1 DEF Boxes
<1> QED BY <1>1, <1>2, RowDies DEF RequestOK, tokenVars

\* Numbers, links and connections keep their rows when one dies.
LEMMA RowDiesRows ==
  ASSUME Inv, NEW b \in Boxes, row[b] # "none", row' = [row EXCEPT ![b] = "dead"],
         UNCHANGED <<running, link, created>>,
         \A i \in InstanceSet : turn'[i].pc = "connecting" => turn'[i] = turn[i]
  PROVE  Rows'
<1>1. created \in 0..MaxBoxes /\ \A i \in InstanceSet : link[i] # 0 => link[i] \in Boxes
  BY DEF Inv, TypeOK, Boxes
<1> QED BY <1>1, RowDies DEF Inv, Rows

\* A row is buried when its container is gone.
LEMMA BuriesOK ==
  ASSUME Inv, NEW r \in Requests, Buries(r)
  PROVE  Inv'
<1> DEFINE b == req[r].box
<1>0. /\ TypeOK /\ req[r] \in Request /\ RequestOK(req[r]) /\ req[r].pc = "bury"
      /\ UNCHANGED <<tokenVars, running, link, created, spilt, manual, turn, faults>>
      /\ row' = [row EXCEPT ![b] = "dead"]
      /\ created \in 0..MaxBoxes /\ MaxBoxes \in Nat
  BY ProvisioningAssumption DEF Inv, TypeOK, Buries, ProvisioningAssumption
<1>1. b \in Boxes /\ row[b] # "none" /\ b \notin running
  BY <1>0 DEF RequestOK, Boxes
<1> HIDE DEF b
<1>2. Moves(r) /\ req'[r] = Free /\ req'[r].pc = "free"
  BY <1>0, EndsMoves, FreeOK DEF Buries
<1>3. TypeOK'
  BY <1>0, <1>1, <1>2, RowDies DEF TypeOK, Moves, tokenVars
<1>4. \A s \in Requests : RequestOK(req[s])'
  <2> TAKE s \in Requests
  <2>1. CASE s = r
    BY <1>2, <2>1 DEF RequestOK
  <2>2. CASE s # r
    BY <1>0, <1>1, <1>2, <2>2, RowDiesRequests DEF Moves
  <2> QED BY <2>1, <2>2
<1>5. Apart'
  BY <1>2 DEF Inv, Apart, Moves
<1>6. Rows'
  BY <1>0, <1>1, RowDiesRows
<1>7. Reclaimable'
  <2>1. \A c \in running : c \in Boxes \ {b} /\ row'[c] = row[c]
    BY <1>0, <1>1, RowDies DEF TypeOK
  <2> QED BY <1>0, <1>2, <2>1 DEF Inv, Reclaimable, Moves
<1>8. TokenKept' /\ Tokens'
  BY <1>0, <1>2 DEF Inv, Tokens, TokenKept, Moves, tokenVars
<1> QED BY <1>3, <1>4, <1>5, <1>6, <1>7, <1>8 DEF Inv

\* A container that dies leaves its row behind.
LEMMA DiesOK ==
  ASSUME Inv, NEW b \in Boxes, Dies(b)
  PROVE  Inv'
<1>0. /\ running' = running \ {b} /\ faults' = faults + 1
      /\ UNCHANGED <<tokenVars, row, link, created, spilt, manual, req, turn>>
  BY DEF Dies, Fault
<1>1. TypeOK'
  BY <1>0 DEF Inv, TypeOK, tokenVars
<1>2. \A r \in Requests : RequestOK(req[r])'
  BY <1>0 DEF Inv, RequestOK, tokenVars
<1>3. Apart' /\ Rows' /\ Reclaimable' /\ TokenKept' /\ Tokens'
  BY <1>0 DEF Inv, Apart, Rows, Reclaimable, TokenKept, Tokens, tokenVars
<1> QED BY <1>1, <1>2, <1>3 DEF Inv

\* A runner's step that touches no row.
LEMMA TurnOK ==
  ASSUME Inv, UNCHANGED <<tokenVars, boxVars, manual, req, faults>>,
         turn' \in [InstanceSet -> TurnState],
         \A i \in InstanceSet :
           turn'[i].pc = "connecting" => turn'[i].box \in Boxes /\ row[turn'[i].box] # "none"
  PROVE  Inv'
<1>1. TypeOK'
  BY DEF Inv, TypeOK, tokenVars, boxVars
<1>2. \A r \in Requests : RequestOK(req[r])'
  BY DEF Inv, RequestOK, tokenVars, boxVars
<1>3. Rows'
  BY DEF Inv, Rows, boxVars
<1>4. Apart' /\ Reclaimable' /\ TokenKept' /\ Tokens'
  BY DEF Inv, Apart, Reclaimable, TokenKept, Tokens, tokenVars, boxVars
<1> QED BY <1>1, <1>2, <1>3, <1>4 DEF Inv

\* A claim hands out the sandbox of a live row.
LEMMA ClaimsOK ==
  ASSUME Inv, NEW i \in InstanceSet, Claims(i)
  PROVE  Inv'
<1> DEFINE t == IF Live(link[i]) THEN [pc |-> "connecting", box |-> link[i]] ELSE Away
<1>0. /\ turn \in [InstanceSet -> TurnState] /\ link[i] \in 0..MaxBoxes /\ MaxBoxes \in Nat
      /\ turn' = [turn EXCEPT ![i] = t]
  BY ProvisioningAssumption DEF Inv, TypeOK, Claims, ProvisioningAssumption
<1>1. t \in TurnState
  BY <1>0 DEF TurnState, Away
<1>2. t.pc = "connecting" => t.box \in Boxes /\ row[t.box] # "none"
  BY <1>0 DEF Live, Away, Boxes
<1> HIDE DEF t
<1>3. turn' \in [InstanceSet -> TurnState]
  BY <1>0, <1>1
<1>4. \A j \in InstanceSet : turn'[j] = t \/ turn'[j] = turn[j]
  BY <1>0
<1> QED BY <1>2, <1>3, <1>4, TurnOK DEF Claims, Inv, Rows

\* A failed connection buries a row, whose container is gone or given up.
LEMMA ConnectsOK ==
  ASSUME Inv, NEW i \in InstanceSet, Connects(i)
  PROVE  Inv'
<1> DEFINE b == turn[i].box
<1>0. /\ TypeOK /\ turn \in [InstanceSet -> TurnState] /\ turn[i] \in TurnState
      /\ turn[i].pc = "connecting" /\ b \in Boxes /\ row[b] # "none"
      /\ UNCHANGED <<tokenVars, running, link, created, manual, req>>
  BY DEF Inv, TypeOK, Connects, Rows
<1> HIDE DEF b
<1>1. turn' = [turn EXCEPT ![i] = Away] /\ Away \in TurnState /\ Away.pc = "away"
  BY ProvisioningAssumption DEF Connects, Away, TurnState, ProvisioningAssumption
<1>2. turn' \in [InstanceSet -> TurnState]
  BY <1>0, <1>1
<1>3. \A j \in InstanceSet : turn'[j].pc = "connecting" => turn'[j] = turn[j]
  BY <1>0, <1>1
<1>4. CASE UNCHANGED <<row, spilt>>
  <2>1. faults' \in Nat
    BY <1>0, <1>4 DEF Connects, Fault, TypeOK
  <2>2. TypeOK' /\ Rows'
    BY <1>0, <1>2, <1>3, <1>4, <2>1 DEF Inv, TypeOK, Rows, tokenVars
  <2>3. \A s \in Requests : RequestOK(req[s])'
    BY <1>0, <1>4 DEF Inv, RequestOK, tokenVars
  <2>4. Apart' /\ Tokens' /\ Reclaimable' /\ TokenKept'
    BY <1>0, <1>4 DEF Inv, Apart, Tokens, Reclaimable, TokenKept, Tokens, tokenVars
  <2> QED BY <2>2, <2>3, <2>4 DEF Inv
<1>5. CASE /\ row' = [row EXCEPT ![b] = "dead"]
           /\ \/ b \notin running /\ UNCHANGED <<spilt, faults>>
              \/ b \in running /\ Fault /\ spilt' = spilt \cup {b}
  <2>1. faults' \in Nat /\ spilt' \subseteq Boxes /\ spilt \subseteq spilt'
    BY <1>0, <1>5 DEF TypeOK, Fault
  <2>2. TypeOK'
    BY <1>0, <1>2, <1>5, <2>1, RowDies DEF TypeOK, tokenVars
  <2>3. \A s \in Requests : RequestOK(req[s])'
    BY <1>0, <1>5, RowDiesRequests
  <2>4. Rows'
    BY <1>0, <1>3, <1>5, RowDiesRows
  <2>5. Reclaimable'
    <3> SUFFICES ASSUME NEW c \in running
                 PROVE  \/ row'[c] = "alive"
                        \/ \E s \in Requests : req'[s].pc = "insert" /\ req'[s].box = c
                        \/ c \in spilt'
      BY <1>0 DEF Reclaimable
    <3>1. CASE c = b
      BY <1>5, <3>1
    <3>2. CASE c # b
      <4>1. row'[c] = row[c]
        BY <1>0, <1>5, <3>2, RowDies DEF TypeOK
      <4> QED BY <1>0, <2>1, <4>1 DEF Inv, Reclaimable
    <3> QED BY <3>1, <3>2
  <2>6. Apart' /\ Tokens' /\ TokenKept'
    BY <1>0 DEF Inv, Apart, Tokens, TokenKept, tokenVars
  <2> QED BY <2>2, <2>3, <2>4, <2>5, <2>6 DEF Inv
<1> QED BY <1>4, <1>5 DEF Connects, b

-----------------------------------------------------------------------------
(* The theorems.                                                           *)

\* The invariant holds at the start.
LEMMA InvInit == Init => Inv
<1> SUFFICES ASSUME Init PROVE Inv
  OBVIOUS
<1>0. Away \in TurnState /\ Away.pc = "away" /\ 0 \in 0..MaxBoxes
  BY ProvisioningAssumption DEF Away, TurnState, ProvisioningAssumption
<1>1. TypeOK
  <2>1. req \in [Requests -> Request] /\ turn \in [InstanceSet -> TurnState]
    BY <1>0, FreeOK DEF Init
  <2>2. link \in [InstanceSet -> 0..MaxBoxes] /\ row \in [Boxes -> {"none", "alive", "dead"}]
    BY <1>0 DEF Init
  <2>3. issued \in Nat /\ valid \subseteq Nat /\ stored \in Nat /\ lost \subseteq Nat
    BY DEF Init
  <2>4. running \subseteq Boxes /\ spilt \subseteq Boxes /\ faults \in Nat /\ manual \in BOOLEAN
    BY DEF Init
  <2> QED BY <1>0, <2>1, <2>2, <2>3, <2>4 DEF Init, TypeOK
<1>2. issued = 1 /\ valid = {1} /\ stored = 1 /\ running = {} /\ \A b \in Boxes : row[b] = "none"
  BY DEF Init
<1>3. \A r \in Requests : req[r] = Free /\ req[r].pc = "free"
  BY FreeOK DEF Init
<1>4. (\A r \in Requests : RequestOK(req[r])) /\ Apart
  BY <1>3, FreeOK DEF Apart
<1>5. Rows
  BY <1>0, <1>2 DEF Init, Rows
<1>6. Tokens /\ Reclaimable /\ TokenKept
  BY <1>2 DEF Tokens, Reclaimable, TokenKept
<1> QED BY <1>1, <1>4, <1>5, <1>6 DEF Inv

\* Every step keeps it.
LEMMA InvStep == Inv /\ [Next]_vars => Inv'
<1> SUFFICES ASSUME Inv, [Next]_vars PROVE Inv'
  OBVIOUS
<1>1. CASE UNCHANGED vars
  <2>1. /\ UNCHANGED <<tokenVars, boxVars, manual, req, faults, turn>>
        /\ turn \in [InstanceSet -> TurnState]
    BY <1>1 DEF vars, Inv, TypeOK
  <2> QED BY <2>1, TurnOK DEF Inv, Rows
<1>2. ASSUME NEW r \in Requests,
             \/ \E kind \in {"manual", "full"} : Triggers(r, kind)
             \/ \E i \in InstanceSet : Chats(r, i)
             \/ AddsBox(r) \/ LogsIn(r) \/ CallsProvider(r) \/ Refreshes(r) \/ Persists(r) \/ Retries(r)
      PROVE  Inv'
  BY <1>2, TriggersOK, ChatsOK, AddsBoxOK, LogsInOK, CallsOK, RefreshesOK, PersistsOK
<1>3. ASSUME NEW r \in Requests,
             \/ Reads(r) \/ Creates(r) \/ Inserts(r) \/ Links(r) \/ Publishes(r)
             \/ \E b \in Boxes : Kills(r, b)
             \/ Deletes(r) \/ Buries(r)
      PROVE  Inv'
  BY <1>3, ReadsOK, CreatesOK, InsertsOK, LinksOK, PublishesOK, KillsOK, DeletesOK, BuriesOK
<1>4. CASE HubRestarts \/ (\E r \in Requests : Fails(r))
  BY <1>4, DropsOK DEF HubRestarts, Fails
<1>5. CASE (\E b \in Boxes : Dies(b)) \/ (\E i \in InstanceSet, b \in Boxes : Relinks(i, b))
  BY <1>5, DiesOK, RelinksOK
<1>6. CASE \E i \in InstanceSet : Claims(i) \/ Connects(i)
  BY <1>6, ClaimsOK, ConnectsOK
<1> QED BY <1>1, <1>2, <1>3, <1>4, <1>5, <1>6 DEF Next

\* The invariant holds throughout.
THEOREM InvThm == Spec => []Inv
  BY InvInit, InvStep, PTL DEF Spec

\* The refresh token in the database is one the provider honours, or the
\* request that spent it is about to write its successor, or that request
\* ended in between: for any number of refreshes and logins of one identity
\* at a time, and whatever answers are lost (auth.go CallWithToken,
\* HandleCallback).
THEOREM TokenKeptThm == Spec => []TokenKept
<1>1. Inv => TokenKept
  BY DEF Inv
<1> QED BY <1>1, InvThm, PTL

\* Every container that runs has a live row, or a request about to write its
\* row, or is one whose request ended in between or that a runner gave up:
\* for any number of requests that create, link and kill sandboxes, and
\* whatever answers are lost (sandbox.go).
THEOREM ReclaimableThm == Spec => []Reclaimable
<1>1. Inv => Reclaimable
  BY DEF Inv
<1> QED BY <1>1, InvThm, PTL
=============================================================================
