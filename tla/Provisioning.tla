----------------------------- MODULE Provisioning -----------------------------
(***************************************************************************)
(* What the hub does before a turn can run (RepositoryService.Trigger,     *)
(* InstanceService.ensureRunning): it asks the provider for the branch     *)
(* head with the user's token, refreshing the token on a 401, makes sure   *)
(* that the instance has a live sandbox, creating one in OpenSandbox where *)
(* there is none, and only then publishes the Event or raises the          *)
(* instance.  Beside it the user logs in again, links and kills sandboxes, *)
(* containers die, and a runner that cannot connect marks the sandbox      *)
(* dead.                                                                   *)
(*                                                                         *)
(* Requests run in goroutines of their own and take no lock; an action is  *)
(* one call to the database, the provider or OpenSandbox, at the moment it *)
(* takes effect.  The caller may never learn of it: a request may end in   *)
(* an error before and after every one of them (Fails), so that a call     *)
(* whose answer is lost, late, undecodable or of no use is the action      *)
(* followed by Fails, and one that failed is Fails alone.                  *)
(*                                                                         *)
(* A token is the refresh token, numbered as the provider issues them.     *)
(* The provider honours one once and answers it with its successor; one    *)
(* that a new login brings leaves the others valid.                        *)
(***************************************************************************)
EXTENDS Integers, Sequences, FiniteSets

CONSTANTS
  Requests,   \* HTTP requests the hub serves at one time
  Instances,  \* the instances a trigger provisions, in the builds' order
  MaxBoxes,   \* bound on the sandboxes created
  MaxTokens,  \* bound on the tokens issued
  MaxFaults   \* bound on failures

ASSUME ProvisioningAssumption ==
  /\ Instances \in Seq(Nat) /\ \A m, n \in DOMAIN Instances : Instances[m] = Instances[n] => m = n
  /\ MaxBoxes \in Nat /\ MaxTokens \in Nat \ {0} /\ MaxFaults \in Nat

InstanceSet == {Instances[n] : n \in DOMAIN Instances}
Boxes == 1..MaxBoxes

VARIABLES
  issued,   \* tokens the provider has issued
  valid,    \* those it honours
  stored,   \* the token in the identities row
  lost,     \* history: tokens spent by a request that ended before it wrote
            \* the successor
  row,      \* status of each row of hub.sandbox_instances
  running,  \* containers that exist in OpenSandbox
  link,     \* agent_instances.sandbox_instance_id, 0 for none
  manual,   \* the manual Event of this commit is in the journal
  req,      \* the requests
  turn,     \* per instance, a turn's way into the sandbox
  created,  \* sandboxes created so far
  spilt,    \* history: containers whose request ended before it wrote their
            \* row, or that a runner gave up alive
  faults

tokenVars == <<issued, valid, stored, lost>>
boxVars == <<row, running, link, created, spilt>>
vars == <<tokenVars, boxVars, manual, req, turn, faults>>

Free == [pc |-> "free", kind |-> "none", old |-> 0, new |-> 0, todo |-> <<>>, for |-> {}, box |-> 0]
Away == [pc |-> "away", box |-> 0]

Goes(r, pc) == req' = [req EXCEPT ![r].pc = pc]
Ends(r) == req' = [req EXCEPT ![r] = Free]
Fault == faults < MaxFaults /\ faults' = faults + 1

Init ==
  /\ issued = 1 /\ valid = {1} /\ stored = 1 /\ lost = {}
  /\ row = [b \in Boxes |-> "none"] /\ running = {}
  /\ link = [i \in InstanceSet |-> 0]
  /\ manual = FALSE
  /\ req = [r \in Requests |-> Free]
  /\ turn = [i \in InstanceSet |-> Away]
  /\ created = 0 /\ spilt = {} /\ faults = 0

(* Requests rs end where they stand, and what they hold and have not       *)
(* written is forgotten: the successor of a spent token, a container's id. *)
Drops(rs) ==
  /\ Fault
  /\ req' = [r \in Requests |-> IF r \in rs THEN Free ELSE req[r]]
  /\ lost' = lost \cup ({req[r].old : r \in {q \in rs : req[q].pc = "persist"}} \ {0})
  /\ spilt' = spilt \cup {req[r].box : r \in {q \in rs : req[q].pc = "insert"}}
  /\ UNCHANGED <<issued, valid, stored, row, running, link, created, manual, turn>>

(* A request ends with an error: a refusal, a timeout, an answer that does *)
(* not come or does not decode, a statement that fails, a client that left *)
(* and took the context with it.                                           *)
Fails(r) == req[r].pc # "free" /\ Drops({r})

(* The hub's process ends, and with it every request.                      *)
HubRestarts == (\E r \in Requests : req[r].pc # "free") /\ Drops(Requests)

(* With the branch head known, every matched instance gets its sandbox, if *)
(* there is one.                                                           *)
Onward(todo) == IF todo = <<>> THEN "publish" ELSE "read"

(* POST /trigger without a commit reads the identity, if the repository    *)
(* has one, for the branch head; a chat or raise starts at its instance,   *)
(* and does not look at the sandbox of one that is running.                *)
Triggers(r, kind) ==
  /\ req[r].pc = "free"
  /\ \E pc \in {"call", Onward(Instances)} :
       req' = [req EXCEPT ![r] = [Free EXCEPT !.pc = pc, !.kind = kind, !.old = stored,
                                              !.todo = Instances, !.for = InstanceSet]]
  /\ UNCHANGED <<tokenVars, boxVars, manual, turn, faults>>

Chats(r, i) ==
  /\ req[r].pc = "free"
  /\ \E pc \in {"read", "publish"} :
       req' = [req EXCEPT ![r] = [Free EXCEPT !.pc = pc, !.kind = "chat", !.todo = <<i>>, !.for = {i}]]
  /\ UNCHANGED <<tokenVars, boxVars, manual, turn, faults>>

(* POST /sandbox-instances: Create alone.                                  *)
AddsBox(r) ==
  /\ req[r].pc = "free"
  /\ req' = [req EXCEPT ![r] = [Free EXCEPT !.pc = "create", !.kind = "box"]]
  /\ UNCHANGED <<tokenVars, boxVars, manual, turn, faults>>
-----------------------------------------------------------------------------
(* CallWithToken: the provider answers, or says that the access token has  *)
(* expired.                                                                *)
CallsProvider(r) ==
  /\ req[r].pc = "call"
  /\ Goes(r, Onward(req[r].todo)) \/ Goes(r, "refresh")
  /\ UNCHANGED <<tokenVars, boxVars, manual, turn, faults>>

(* OAuth.Refresh spends the refresh token; a spent one is refused and the  *)
(* request answers with the 401.                                           *)
Refreshes(r) ==
  /\ req[r].pc = "refresh"
  /\ \/ /\ req[r].old \in valid /\ issued < MaxTokens
        /\ issued' = issued + 1
        /\ valid' = (valid \ {req[r].old}) \cup {issued'}
        /\ req' = [req EXCEPT ![r].pc = "persist", ![r].new = issued']
     \/ req[r].old \notin valid /\ Ends(r) /\ UNCHANGED <<issued, valid>>
  /\ UNCHANGED <<stored, lost, boxVars, manual, turn, faults>>

(* HandleCallback of the identity's user, who logs in once more.           *)
LogsIn(r) ==
  /\ req[r].pc = "free" /\ issued < MaxTokens
  /\ issued' = issued + 1
  /\ valid' = valid \cup {issued'}
  /\ req' = [req EXCEPT ![r] = [Free EXCEPT !.pc = "persist", !.kind = "login", !.new = issued']]
  /\ UNCHANGED <<stored, lost, boxVars, manual, turn, faults>>

\* mutant: the access token is written back and the refresh token is not
PersistsAccessOnly(r) ==
  /\ req[r].pc = "persist"
  /\ IF req[r].kind = "login" THEN Ends(r) ELSE Goes(r, "retry")
  /\ UNCHANGED <<tokenVars, boxVars, manual, turn, faults>>

(* UpdateIdentityTokens, from a refresh or a login.                        *)
Persists(r) ==
  /\ req[r].pc = "persist"
  /\ stored' = req[r].new
  /\ IF req[r].kind = "login" THEN Ends(r) ELSE Goes(r, "retry")
  /\ UNCHANGED <<issued, valid, lost, boxVars, manual, turn, faults>>

(* The call is repeated once.                                              *)
Retries(r) ==
  /\ req[r].pc = "retry"
  /\ Goes(r, Onward(req[r].todo))
  /\ UNCHANGED <<tokenVars, boxVars, manual, turn, faults>>
-----------------------------------------------------------------------------
(* SandboxService.Ensure, for one instance after the other.                *)
Live(b) == b # 0 /\ row[b] = "alive"

(* The instance is provided for: the next one, or the Event or the raise.  *)
NextInstance(r) ==
  LET rest == Tail(req[r].todo)
  IN  req' = [req EXCEPT ![r].todo = rest, ![r].box = 0, ![r].pc = Onward(rest)]

Reads(r) ==
  /\ req[r].pc = "read"
  /\ IF Live(link[Head(req[r].todo)]) THEN NextInstance(r) ELSE Goes(r, "create")
  /\ UNCHANGED <<tokenVars, boxVars, manual, turn, faults>>

(* Client.CreateSandbox.                                                   *)
Creates(r) ==
  /\ req[r].pc = "create" /\ created < MaxBoxes
  /\ created' = created + 1
  /\ running' = running \cup {created'}
  /\ req' = [req EXCEPT ![r].pc = "insert", ![r].box = created']
  /\ UNCHANGED <<tokenVars, row, link, spilt, manual, turn, faults>>

(* Store.CreateSandboxInstance.                                            *)
Inserts(r) ==
  /\ req[r].pc = "insert"
  /\ row' = [row EXCEPT ![req[r].box] = "alive"]
  /\ IF req[r].kind = "box" THEN Ends(r) ELSE Goes(r, "link")
  /\ UNCHANGED <<tokenVars, running, link, created, spilt, manual, turn, faults>>

(* Store.LinkInstanceSandbox.                                              *)
Links(r) ==
  /\ req[r].pc = "link"
  /\ link' = [link EXCEPT ![Head(req[r].todo)] = req[r].box]
  /\ NextInstance(r)
  /\ UNCHANGED <<tokenVars, row, running, created, spilt, manual, turn, faults>>

(* POST /instances/{id}/sandbox: the user links the instance to any        *)
(* sandbox that has a row, whatever it was linked to.                      *)
Relinks(i, b) ==
  /\ row[b] # "none"
  /\ link' = [link EXCEPT ![i] = b]
  /\ UNCHANGED <<tokenVars, row, running, created, spilt, manual, req, turn, faults>>

(* FanOut, which finds a second manual run of the commit in the journal;   *)
(* or the raise.  A turn then comes to the runner.                         *)
Asked(is) ==
  turn' = [i \in InstanceSet |->
             IF i \in is /\ turn[i].pc = "away" THEN [turn[i] EXCEPT !.pc = "asked"] ELSE turn[i]]

Publishes(r) ==
  /\ req[r].pc = "publish"
  /\ IF req[r].kind = "manual" /\ manual THEN UNCHANGED turn ELSE Asked(req[r].for)
  /\ manual' = (manual \/ req[r].kind = "manual")
  /\ Ends(r)
  /\ UNCHANGED <<tokenVars, boxVars, faults>>
-----------------------------------------------------------------------------
\* mutant: the row is dead before the container is deleted
KillsRowFirst(r, b) ==
  /\ req[r].pc = "free" /\ row[b] = "alive"
  /\ row' = [row EXCEPT ![b] = "dead"]
  /\ req' = [req EXCEPT ![r] = [Free EXCEPT !.pc = "delete", !.kind = "kill", !.box = b]]
  /\ UNCHANGED <<tokenVars, running, link, created, spilt, manual, turn, faults>>

(* SandboxService.Kill.                                                    *)
Kills(r, b) ==
  /\ req[r].pc = "free" /\ row[b] = "alive"
  /\ req' = [req EXCEPT ![r] = [Free EXCEPT !.pc = "delete", !.kind = "kill", !.box = b]]
  /\ UNCHANGED <<tokenVars, boxVars, manual, turn, faults>>

Deletes(r) ==
  /\ req[r].pc = "delete"
  /\ running' = running \ {req[r].box}
  /\ Goes(r, "bury")
  /\ UNCHANGED <<tokenVars, row, link, created, spilt, manual, turn, faults>>

Buries(r) ==
  /\ req[r].pc = "bury"
  /\ row' = [row EXCEPT ![req[r].box] = "dead"]
  /\ Ends(r)
  /\ UNCHANGED <<tokenVars, running, link, created, spilt, manual, turn, faults>>

(* The container goes with its Docker host.                                *)
Dies(b) ==
  /\ b \in running /\ Fault
  /\ running' = running \ {b}
  /\ UNCHANGED <<tokenVars, row, link, created, spilt, manual, req, turn>>
-----------------------------------------------------------------------------
(* connect_hub_sandbox, with the row as the claim read it.                 *)
Claims(i) ==
  /\ turn[i].pc = "asked"
  /\ turn' = [turn EXCEPT ![i] = IF Live(link[i]) THEN [pc |-> "connecting", box |-> link[i]]
                                 ELSE Away]
  /\ UNCHANGED <<tokenVars, boxVars, manual, req, faults>>

(* The turn goes on inside.  A connection that fails, because the          *)
(* container is gone or for any other reason, marks the row dead, unless   *)
(* the runner ends or cannot write it.                                     *)
Connects(i) ==
  LET b == turn[i].box
  IN  /\ turn[i].pc = "connecting"
      /\ turn' = [turn EXCEPT ![i] = Away]
      /\ \/ b \in running /\ UNCHANGED <<row, spilt, faults>>
         \/ /\ row' = [row EXCEPT ![b] = "dead"]
            /\ \/ b \notin running /\ UNCHANGED <<spilt, faults>>
               \/ b \in running /\ Fault /\ spilt' = spilt \cup {b}
         \/ Fault /\ UNCHANGED <<row, spilt>>
      /\ UNCHANGED <<tokenVars, running, link, created, manual, req>>

Next ==
  \/ \E r \in Requests :
       \/ \E kind \in {"manual", "full"} : Triggers(r, kind)
       \/ \E i \in InstanceSet : Chats(r, i)
       \/ AddsBox(r) \/ LogsIn(r)
       \/ CallsProvider(r) \/ Refreshes(r) \/ Persists(r) \/ Retries(r)
       \/ Reads(r) \/ Creates(r) \/ Inserts(r) \/ Links(r) \/ Publishes(r)
       \/ \E b \in Boxes : Kills(r, b)
       \/ Deletes(r) \/ Buries(r)
       \/ Fails(r)
  \/ HubRestarts
  \/ \E b \in Boxes : Dies(b)
  \/ \E i \in InstanceSet, b \in Boxes : Relinks(i, b)
  \/ \E i \in InstanceSet : Claims(i) \/ Connects(i)

Spec == Init /\ [][Next]_vars
-----------------------------------------------------------------------------
(* However refreshes and logins of one identity interleave, no write puts  *)
(* a spent refresh token into the row: the one stored is honoured, or a    *)
(* request that spent it is about to write its successor, or such a        *)
(* request ended between the two, by a lost answer of the provider, an     *)
(* encryption error, a failed write or the hub's end (auth.go:66-67,       *)
(* 140-151).                                                               *)
TokenKept ==
  \/ stored \in valid
  \/ \E r \in Requests : req[r].pc = "persist" /\ req[r].old = stored
  \/ stored \in lost

(* Every container that runs can still be found and killed by the user,    *)
(* whoever provisions, links and kills at the same time: it has a row that *)
(* is alive, or the request that created it is about to write the row.     *)
(* The exceptions are those whose request ended between the two (the       *)
(* answer of OpenSandbox was lost, the row could not be written, the hub   *)
(* ended) and a live container that a runner failed to reach (sandbox.go:  *)
(* 42-49, 88-113, sandboxes.py:35-38).                                     *)
Reclaimable ==
  \A b \in running :
    \/ row[b] = "alive"
    \/ \E r \in Requests : req[r].pc = "insert" /\ req[r].box = b
    \/ b \in spilt
=============================================================================
