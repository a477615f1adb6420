---------------------------- MODULE AdmissionPool ----------------------------
(***************************************************************************)
(* What SubagentCapacity promises ("FIFO admission: bounded concurrency and*)
(* a bounded queue", capacity.py:1): at most Limit delegations hold a      *)
(* place, at most LineBound wait in line, and places are given in the      *)
(* order of the line.  Nothing is said of semaphores, futures or wake-ups. *)
(***************************************************************************)
EXTENDS Integers, FiniteSets

CONSTANTS Clients, LineBound

VARIABLES
  limit,
  holders,  \* who has a place
  line,     \* who waits for one
  ahead     \* pairs of the line: the first came before the second

Init ==
  /\ limit \in Nat \ {0}
  /\ holders = {}
  /\ line = {} /\ ahead = {}

(* Straight in, past nobody.                                               *)
Enter(c) ==
  /\ c \notin holders \cup line
  /\ line = {} /\ Cardinality(holders) < limit
  /\ holders' = holders \cup {c}
  /\ UNCHANGED <<limit, line, ahead>>

Queue(c) ==
  /\ c \notin holders \cup line
  /\ Cardinality(line) < LineBound
  /\ line' = line \cup {c}
  /\ ahead' = ahead \cup (line \X {c})
  /\ UNCHANGED <<limit, holders>>

LeavesLine(clients) ==
  /\ line' = line \ clients
  /\ ahead' = ahead \cap ((line \ clients) \X (line \ clients))

(* At most one holder leaves and the front of the line moves up.           *)
MoveUp(gone, up) ==
  /\ Cardinality(gone) <= 1
  /\ \A c \in up, d \in line : <<d, c>> \in ahead => d \in up
  /\ holders' = (holders \ gone) \cup up
  /\ Cardinality(holders') <= limit
  /\ LeavesLine(up)
  /\ UNCHANGED limit

(* A wait times out or the turn is cancelled: whoever waits gives up.      *)
GiveUp(quitters) ==
  /\ LeavesLine(quitters)
  /\ UNCHANGED <<limit, holders>>

Next ==
  \/ \E c \in Clients : Enter(c) \/ Queue(c)
  \/ \E gone \in SUBSET holders, up \in SUBSET line : MoveUp(gone, up)
  \/ \E quitters \in SUBSET line : GiveUp(quitters)

Spec == Init /\ [][Next]_<<limit, holders, line, ahead>>
=============================================================================
