-------------------------- MODULE ActivityFeedProofs --------------------------
(* Theorems about ActivityFeed, for every set of Events, delegations and     *)
(* readers and every number of turns, chunks and failed inserts.             *)
EXTENDS ActivityFeed, SequenceTheorems, TLAPS

-----------------------------------------------------------------------------
(* The inductive invariant.                                                *)

Kinds == {"run_started", "chat_user", "task_started", "work", "task_finished",
          "task_failed", "task_report", "node", "chat_agent"} \cup Conclusion
Statuses == {None, "queued", "working", "done", "failed", "timeout"}
FrameSet == [kind : Kinds, task : Tasks \cup {None}, status : Statuses]
TurnSet == [event : Events \cup {None}, done : BOOLEAN, seq : Nat, frames : Seq(FrameSet)]

\* A turn that has not ended is the last one, and is not done; whatever is
\* still to be emitted belongs to it.
Turning ==
  /\ turns \in Seq(TurnSet)
  /\ phase \in {"idle", "opening", "streaming", "closing"}
  /\ pending \in Seq(FrameSet) /\ sending \in BOOLEAN
  /\ sending => pending # <<>>
  /\ phase = "idle" => pending = <<>>
  /\ phase # "idle" => Len(turns) > 0 /\ turns[Len(turns)].done = FALSE

Ends(fs) == {n \in DOMAIN fs : fs[n].kind \in Conclusion}

\* A turn concludes in its last frame or not at all, and a done turn of an
\* Event has concluded.
Concluded(fs, done, event) ==
  /\ Ends(fs) \subseteq {Len(fs)}
  /\ done = TRUE /\ event # None => Ends(fs) # {}

\* What the turn has said and is about to say concludes when it closes.
Saying(ph, fs, p) ==
  /\ ph \in {"opening", "streaming"} => Ends(fs \o p) = {}
  /\ ph = "closing" => Ends(fs \o p) = {Len(fs \o p)}

Concluding ==
  /\ \A k \in DOMAIN turns : Concluded(turns[k].frames, turns[k].done, turns[k].event)
  /\ phase # "idle" => Saying(phase, turns[Len(turns)].frames, pending)

\* What a live reader has got and what waits for it: its turn's frames, and
\* the end mark behind them when the turn is done.
Follows(got, queue, fs, done) ==
  /\ got \in Seq(FrameSet) /\ queue \in Seq(FrameSet \cup {End})
  /\ \/ got \o queue = fs
     \/ done = TRUE /\ queue # <<>> /\ got \o queue = Append(fs, End)

ReaderShape(rd) ==
  rd \in [pc : {rd.pc}, want : {rd.want}, turn : {rd.turn}, queue : {rd.queue}, got : {rd.got}]

FollowsTurn(rd, ts) ==
  rd.pc = "live" =>
    /\ rd.turn \in DOMAIN ts
    /\ Follows(rd.got, rd.queue, ts[rd.turn].frames, ts[rd.turn].done)

Reading ==
  /\ reader = [r \in Readers |-> reader[r]]
  /\ \A r \in Readers : ReaderShape(reader[r]) /\ FollowsTurn(reader[r], turns)

Inv == Turning /\ Concluding /\ Reading

-----------------------------------------------------------------------------
(* Sequences.                                                              *)

\* The head moves from the front of one sequence to the back of another.
LEMMA Moves ==
  ASSUME NEW S, NEW s \in Seq(S), NEW t \in Seq(S), t # <<>>
  PROVE  /\ Append(s, Head(t)) \o Tail(t) = s \o t
         /\ Head(t) \in S /\ Tail(t) \in Seq(S)
<1>1. Head(t) \in S /\ Tail(t) \in Seq(S) /\ Len(Tail(t)) = Len(t) - 1 /\ Len(t) > 0
  OBVIOUS
<1>2. PICK m \in Nat, n \in Nat : m = Len(s) /\ n = Len(t) /\ n > 0
  <2>1. Len(s) \in Nat /\ Len(t) \in Nat
    OBVIOUS
  <2> QED
    BY <1>1, <2>1
<1> DEFINE a == Append(s, Head(t)) \o Tail(t)
           b == s \o t
<1>3. a \in Seq(S) /\ Len(a) = m + n
  <2>1. Append(s, Head(t)) \in Seq(S) /\ Len(Append(s, Head(t))) = m + 1
    BY <1>1, <1>2
  <2> QED
    BY <1>1, <1>2, <2>1
<1>4. b \in Seq(S) /\ Len(b) = m + n
  BY <1>2
<1>5. ASSUME NEW i \in 1 .. m + n
      PROVE  a[i] = b[i]
  <2>1. /\ Append(s, Head(t)) \in Seq(S) /\ Len(Append(s, Head(t))) = m + 1
        /\ Append(s, Head(t))[m + 1] = t[1]
        /\ \A j \in 1 .. m : Append(s, Head(t))[j] = s[j]
    BY <1>1, <1>2
  <2>2. CASE i <= m
    BY <1>1, <1>2, <2>1, <2>2
  <2>3. CASE i = m + 1
    BY <1>1, <1>2, <2>1, <2>3
  <2>4. CASE i > m + 1
    <3>1. a[i] = Tail(t)[i - (m + 1)]
      BY <1>1, <1>2, <2>1, <2>4
    <3>2. Tail(t)[i - (m + 1)] = t[i - m]
      BY <1>1, <1>2, <2>4
    <3>3. b[i] = t[i - m]
      BY <1>1, <1>2, <2>4
    <3> QED
      BY <3>1, <3>2, <3>3
  <2> QED
    BY <1>2, <2>2, <2>3, <2>4
<1>6. a = b
  <2> HIDE DEF a, b
  <2> QED
    BY <1>3, <1>4, <1>5, SeqEqual
<1> QED
  BY <1>1, <1>6

LEMMA AppendBehind ==
  ASSUME NEW S, NEW s \in Seq(S), NEW t \in Seq(S), NEW x \in S
  PROVE  s \o Append(t, x) = Append(s \o t, x)
<1>1. PICK m \in Nat, n \in Nat : m = Len(s) /\ n = Len(t)
  OBVIOUS
<1> DEFINE a == s \o Append(t, x)
           b == Append(s \o t, x)
<1>2. /\ Append(t, x) \in Seq(S) /\ Len(Append(t, x)) = n + 1 /\ Append(t, x)[n + 1] = x
      /\ \A i \in 1 .. n : Append(t, x)[i] = t[i]
  BY <1>1
<1>3. s \o t \in Seq(S) /\ Len(s \o t) = m + n
  BY <1>1
<1>4. a \in Seq(S) /\ Len(a) = m + n + 1
  BY <1>1, <1>2
<1>5. b \in Seq(S) /\ Len(b) = m + n + 1 /\ b[m + n + 1] = x
  BY <1>1, <1>3
<1>6. ASSUME NEW i \in 1 .. m + n + 1
      PROVE  a[i] = b[i]
  <2>1. CASE i <= m
    BY <1>1, <1>2, <1>3, <2>1
  <2>2. CASE i > m /\ i <= m + n
    <3>1. a[i] = Append(t, x)[i - m] /\ i - m \in 1 .. n
      BY <1>1, <1>2, <2>2
    <3>2. b[i] = (s \o t)[i] /\ (s \o t)[i] = t[i - m]
      BY <1>1, <1>3, <2>2
    <3> QED
      BY <1>2, <3>1, <3>2
  <2>3. CASE i = m + n + 1
    <3>1. a[i] = Append(t, x)[i - m] /\ i - m = n + 1
      BY <1>1, <1>2, <2>3
    <3> QED
      BY <1>2, <1>5, <2>3, <3>1
  <2>4. i <= m \/ (i > m /\ i <= m + n) \/ i = m + n + 1
    OBVIOUS
  <2> QED
    BY <2>1, <2>2, <2>3, <2>4
<1> HIDE DEF a, b
<1>7. a = b
  BY <1>4, <1>5, <1>6, SeqEqual
<1> QED
  BY <1>7 DEF a, b

LEMMA EmptyBehind ==
  ASSUME NEW S, NEW s \in Seq(S)
  PROVE  s \o <<>> = s /\ <<>> \o s = s
BY ConcatEmptySeq

-----------------------------------------------------------------------------
(* What a reader follows.                                                  *)

LEMMA EndIsNoFrame == End \notin FrameSet
BY DEF End, FrameSet, Kinds, Conclusion

LEMMA FollowsPublish ==
  ASSUME NEW got, NEW queue, NEW fs \in Seq(FrameSet), NEW f \in FrameSet,
         Follows(got, queue, fs, FALSE)
  PROVE  Follows(got, Append(queue, f), Append(fs, f), FALSE)
<1> DEFINE S == FrameSet \cup {End}
<1>1. got \in Seq(FrameSet) /\ queue \in Seq(S) /\ got \o queue = fs
  BY DEF Follows
<1>2. got \in Seq(S) /\ f \in S
  BY <1>1, SeqMonotonic
<1>3. got \o Append(queue, f) = Append(fs, f)
  BY <1>1, <1>2, AppendBehind
<1>4. Append(queue, f) \in Seq(S)
  BY <1>1, <1>2
<1> QED
  BY <1>1, <1>3, <1>4 DEF Follows

LEMMA FollowsEnd ==
  ASSUME NEW got, NEW queue, NEW fs \in Seq(FrameSet), Follows(got, queue, fs, FALSE)
  PROVE  Follows(got, Append(queue, End), fs, TRUE)
<1> DEFINE S == FrameSet \cup {End}
<1>1. got \in Seq(FrameSet) /\ queue \in Seq(S) /\ got \o queue = fs
  BY DEF Follows
<1>2. got \in Seq(S) /\ End \in S
  BY <1>1, SeqMonotonic
<1>3. got \o Append(queue, End) = Append(fs, End)
  BY <1>1, <1>2, AppendBehind
<1>4. Append(queue, End) \in Seq(S) /\ Append(queue, End) # <<>>
  <2>1. Append(queue, End) \in Seq(S) /\ Len(Append(queue, End)) = Len(queue) + 1
    BY <1>1, <1>2
  <2>2. Len(queue) \in Nat /\ Len(<<>>) = 0
    BY <1>1, EmptySeq
  <2> QED
    BY <2>1, <2>2
<1> QED
  BY <1>1, <1>3, <1>4 DEF Follows

LEMMA FollowsTake ==
  ASSUME NEW got, NEW queue, NEW fs \in Seq(FrameSet), NEW done,
         Follows(got, queue, fs, done), queue # <<>>, Head(queue) # End
  PROVE  Follows(Append(got, Head(queue)), Tail(queue), fs, done)
<1> DEFINE S == FrameSet \cup {End}
<1>1. got \in Seq(FrameSet) /\ queue \in Seq(S)
  BY DEF Follows
<1>2. got \in Seq(S) /\ fs \in Seq(S)
  BY <1>1, SeqMonotonic
<1>3. /\ Append(got, Head(queue)) \o Tail(queue) = got \o queue
      /\ Head(queue) \in S /\ Tail(queue) \in Seq(S)
  BY <1>1, <1>2, Moves
<1>4. Head(queue) \in FrameSet
  BY <1>3
<1>5. Append(got, Head(queue)) \in Seq(FrameSet)
  BY <1>1, <1>4
<1>6. CASE got \o queue = fs
  BY <1>3, <1>5, <1>6 DEF Follows
<1>7. CASE done = TRUE /\ got \o queue = Append(fs, End)
  <2>1. Tail(queue) # <<>>
    <3>1. SUFFICES ASSUME Tail(queue) = <<>>
                   PROVE  FALSE
      OBVIOUS
    <3>2. PICK m \in Nat, n \in Nat : m = Len(got) /\ n = Len(fs)
      BY <1>1
    <3>3. Len(queue) = 1 /\ queue[1] = Head(queue)
      <4>1. PICK t : t = Tail(queue) /\ Len(t) = Len(queue) - 1 /\ Len(queue) \in Nat
        <5>1. Len(Tail(queue)) = Len(queue) - 1 /\ Len(queue) \in Nat
          BY <1>1
        <5> QED
          BY <5>1, Zenon
      <4>2. Head(queue) = queue[1]
        BY <1>1
      <4>3. Len(t) = 0
        BY <3>1, <4>1, EmptySeq
      <4> QED
        BY <4>1, <4>2, <4>3
    <3>4. Len(got \o queue) = m + 1 /\ (got \o queue)[m + 1] = queue[1]
      <4>1. /\ Len(got \o queue) = m + 1
            /\ \A i \in 1 .. m + 1 : (got \o queue)[i] = IF i <= m THEN got[i] ELSE queue[i - m]
        BY <1>1, <1>2, <3>2, <3>3, ConcatProperties
      <4>2. m + 1 \in 1 .. m + 1 /\ ~(m + 1 <= m) /\ (m + 1) - m = 1
        OBVIOUS
      <4> QED
        BY <4>1, <4>2
    <3>5. Len(Append(fs, End)) = n + 1 /\ Append(fs, End)[n + 1] = End
      BY <3>2
    <3>6. m + 1 = n + 1
      BY <1>7, <3>4, <3>5
    <3> QED
      BY <1>7, <3>3, <3>4, <3>5, <3>6
  <2> QED
    BY <1>3, <1>5, <1>7, <2>1 DEF Follows
<1> QED
  BY <1>6, <1>7 DEF Follows

LEMMA FollowsOpen ==
  ASSUME NEW fs \in Seq(FrameSet)
  PROVE  Follows(<<>>, fs, fs, FALSE)
<1>1. fs \in Seq(FrameSet \cup {End})
  BY SeqMonotonic
<1>2. <<>> \o fs = fs /\ <<>> \in Seq(FrameSet)
  BY EmptyBehind, EmptySeq
<1> QED
  BY <1>1, <1>2 DEF Follows

LEMMA FollowsExact ==
  ASSUME NEW got, NEW queue, NEW fs \in Seq(FrameSet), NEW done, Follows(got, queue, fs, done)
  PROVE  got \o Frames(queue) = fs
<1> DEFINE S == FrameSet \cup {End}
<1>1. got \in Seq(FrameSet) /\ queue \in Seq(S)
  BY DEF Follows
<1>2. got \in Seq(S) /\ fs \in Seq(S)
  BY <1>1, SeqMonotonic
<1>3. PICK m \in Nat, n \in Nat : m = Len(got) /\ n = Len(queue)
  BY <1>1
<1>4. /\ got \o queue \in Seq(S) /\ Len(got \o queue) = m + n
      /\ \A i \in 1 .. m + n : (got \o queue)[i] = IF i <= m THEN got[i] ELSE queue[i - m]
  BY <1>1, <1>2, <1>3, ConcatProperties
<1>5. CASE got \o queue = fs
  <2>1. ASSUME n > 0
        PROVE  queue[n] # End
    <3>1. m + n \in 1 .. m + n /\ ~(m + n <= m) /\ m + n - m = n
      BY <2>1
    <3>2. fs[m + n] = queue[n]
      BY <1>4, <1>5, <3>1
    <3>3. fs[m + n] \in FrameSet
      BY <1>4, <1>5, <3>1
    <3> QED
      BY <3>2, <3>3, EndIsNoFrame
  <2>2. Frames(queue) = queue
    BY <1>1, <1>3, <2>1 DEF Frames, Last
  <2> QED
    BY <1>5, <2>2
<1>6. CASE queue # <<>> /\ got \o queue = Append(fs, End)
  <2>1. n > 0
    BY <1>1, <1>3, <1>6
  <2>2. Len(fs) = m + n - 1 /\ Append(fs, End)[m + n] = End
        /\ \A i \in 1 .. m + n - 1 : Append(fs, End)[i] = fs[i]
    <3>1. PICK q \in Nat : q = Len(fs)
      OBVIOUS
    <3>2. /\ Len(Append(fs, End)) = q + 1 /\ Append(fs, End)[q + 1] = End
          /\ \A i \in 1 .. q : Append(fs, End)[i] = fs[i]
      BY <3>1
    <3>3. q + 1 = m + n
      BY <1>4, <1>6, <3>2
    <3> QED
      BY <3>1, <3>2, <3>3
  <2>3. queue[n] = End
    <3>1. m + n \in 1 .. m + n /\ ~(m + n <= m) /\ m + n - m = n
      BY <2>1
    <3> QED
      BY <1>4, <1>6, <2>2, <3>1
  <2>4. Frames(queue) = SubSeq(queue, 1, n - 1)
    BY <1>1, <1>3, <1>6, <2>3 DEF Frames, Last, Front
  <2>5. /\ SubSeq(queue, 1, n - 1) \in Seq(S) /\ Len(SubSeq(queue, 1, n - 1)) = n - 1
        /\ \A i \in 1 .. n - 1 : SubSeq(queue, 1, n - 1)[i] = queue[i]
    BY <1>1, <1>3, <2>1
  <2> DEFINE q == SubSeq(queue, 1, n - 1)
  <2>6. q \in Seq(S) /\ Len(q) = n - 1 /\ \A i \in 1 .. n - 1 : q[i] = queue[i]
    BY <2>5
  <2> HIDE DEF q, S
  <2>7. /\ got \o q \in Seq(S) /\ Len(got \o q) = m + (n - 1)
        /\ \A i \in 1 .. m + (n - 1) : (got \o q)[i] = IF i <= m THEN got[i] ELSE q[i - m]
    <3>1. /\ got \o q \in Seq(S) /\ Len(got \o q) = Len(got) + Len(q)
          /\ \A i \in 1 .. Len(got) + Len(q) :
               (got \o q)[i] = IF i <= Len(got) THEN got[i] ELSE q[i - Len(got)]
      BY <1>2, <2>6, ConcatProperties
    <3> QED
      BY <1>3, <2>6, <3>1
  <2>8. ASSUME NEW i \in 1 .. m + (n - 1)
        PROVE  (got \o q)[i] = fs[i]
    <3>1. i \in 1 .. m + n /\ i \in 1 .. m + n - 1
      BY <2>1
    <3>2. fs[i] = IF i <= m THEN got[i] ELSE queue[i - m]
      BY <1>4, <1>6, <2>2, <3>1
    <3>3. ~(i <= m) => i - m \in 1 .. n - 1
      BY <2>1
    <3> QED
      BY <2>6, <2>7, <3>2, <3>3
  <2>9. Len(got \o q) = Len(fs)
    BY <2>1, <2>2, <2>7
  <2>10. got \o q = fs
    BY <1>2, <2>7, <2>8, <2>9, SeqEqual
  <2> QED
    BY <2>4, <2>10 DEF q
<1> QED
  BY <1>5, <1>6 DEF Follows

-----------------------------------------------------------------------------
(* How a turn ends.                                                        *)

LEMMA EndsOfConcat ==
  ASSUME NEW fs \in Seq(FrameSet), NEW p \in Seq(FrameSet)
  PROVE  /\ \A n \in 1 .. Len(fs) : n \in Ends(fs \o p) <=> n \in Ends(fs)
         /\ \A n \in 1 .. Len(p) : Len(fs) + n \in Ends(fs \o p) <=> n \in Ends(p)
         /\ Ends(fs) \subseteq 1 .. Len(fs) /\ Ends(p) \subseteq 1 .. Len(p)
         /\ Ends(fs \o p) \subseteq 1 .. Len(fs) + Len(p)
         /\ Len(fs \o p) = Len(fs) + Len(p) /\ Len(fs) \in Nat /\ Len(p) \in Nat
<1>1. /\ fs \o p \in Seq(FrameSet) /\ Len(fs \o p) = Len(fs) + Len(p)
      /\ \A i \in 1 .. Len(fs) + Len(p) :
           (fs \o p)[i] = IF i <= Len(fs) THEN fs[i] ELSE p[i - Len(fs)]
  BY ConcatProperties
<1>2. PICK m \in Nat, n \in Nat : m = Len(fs) /\ n = Len(p)
  OBVIOUS
<1>3. DOMAIN fs = 1 .. m /\ DOMAIN p = 1 .. n /\ DOMAIN (fs \o p) = 1 .. m + n
  BY <1>1, <1>2
<1>4. \A i \in 1 .. m : i \in 1 .. m + n /\ (fs \o p)[i] = fs[i]
  BY <1>1, <1>2
<1>5. \A i \in 1 .. n : m + i \in 1 .. m + n /\ (fs \o p)[m + i] = p[i]
  BY <1>1, <1>2
<1> QED
  BY <1>1, <1>2, <1>3, <1>4, <1>5 DEF Ends

\* What has been said of it when so much of it is still to be said.
LEMMA SaidOfIt ==
  ASSUME NEW fs \in Seq(FrameSet), NEW p \in Seq(FrameSet),
         NEW ph \in {"opening", "streaming", "closing"}, Saying(ph, fs, p)
  PROVE  /\ Ends(fs) \subseteq {Len(fs)}
         /\ ph # "closing" => Ends(fs) = {}
         /\ ph = "closing" /\ p = <<>> => Ends(fs) # {}
<1>1. PICK m \in Nat, n \in Nat : m = Len(fs) /\ n = Len(p)
  OBVIOUS
<1>2. /\ \A i \in 1 .. m : i \in Ends(fs \o p) <=> i \in Ends(fs)
      /\ Ends(fs) \subseteq 1 .. m /\ Len(fs \o p) = m + n
  BY <1>1, EndsOfConcat
<1>3. CASE ph # "closing"
  <2>1. Ends(fs \o p) = {}
    BY <1>3 DEF Saying
  <2>2. Ends(fs) = {}
    BY <1>2, <2>1
  <2> QED
    BY <1>3, <2>2
<1>4. CASE ph = "closing"
  <2>1. Ends(fs \o p) = {m + n}
    BY <1>2, <1>4 DEF Saying
  <2>2. Ends(fs) \subseteq {m}
    BY <1>2, <2>1
  <2>3. ASSUME p = <<>>
        PROVE  Ends(fs) # {}
    <3>1. fs \o p = fs
      BY <2>3, EmptyBehind
    <3> QED
      BY <2>1, <3>1
  <2> QED
    BY <1>1, <1>4, <2>2, <2>3
<1> QED
  BY <1>3, <1>4

\* The turn takes its next frames, or its last ones.
LEMMA SaysNext ==
  ASSUME NEW fs \in Seq(FrameSet), NEW p \in Seq(FrameSet), Ends(fs) = {}
  PROVE  /\ \A ph \in {"opening", "streaming"} : Ends(p) = {} => Saying(ph, fs, p)
         /\ Ends(p) = {Len(p)} => Saying("closing", fs, p)
<1>1. PICK m \in Nat, n \in Nat : m = Len(fs) /\ n = Len(p)
  OBVIOUS
<1>2. /\ \A i \in 1 .. m : i \in Ends(fs \o p) <=> i \in Ends(fs)
      /\ \A i \in 1 .. n : m + i \in Ends(fs \o p) <=> i \in Ends(p)
      /\ Ends(p) \subseteq 1 .. n /\ Ends(fs \o p) \subseteq 1 .. m + n /\ Len(fs \o p) = m + n
  BY <1>1, EndsOfConcat
<1>3. \A i \in 1 .. m + n : i \in 1 .. m \/ (i - m \in 1 .. n /\ m + (i - m) = i)
  OBVIOUS
<1>4. \A i \in Ends(fs \o p) : i - m \in Ends(p) /\ m + (i - m) = i
  BY <1>2, <1>3
<1>5. Ends(p) = {} => Ends(fs \o p) = {}
  BY <1>4
<1>6. Ends(p) = {n} => Ends(fs \o p) = {m + n}
  <2>1. SUFFICES ASSUME Ends(p) = {n}
                 PROVE  Ends(fs \o p) = {m + n}
    OBVIOUS
  <2>2. m + n \in Ends(fs \o p)
    BY <1>2, <2>1
  <2>3. \A i \in Ends(fs \o p) : i = m + n
    BY <1>4, <2>1
  <2> QED
    BY <2>2, <2>3
<1> QED
  BY <1>1, <1>2, <1>5, <1>6 DEF Saying

\* Frames of a chunk, and the last frames.
LEMMA Conclusions ==
  /\ \A f, g \in FrameSet :
       /\ <<f>> \in Seq(FrameSet) /\ <<f, g>> \in Seq(FrameSet)
       /\ f.kind \notin Conclusion => Ends(<<f>>) = {}
       /\ f.kind \notin Conclusion /\ g.kind \notin Conclusion => Ends(<<f, g>>) = {}
       /\ f.kind \in Conclusion => Ends(<<f>>) = {Len(<<f>>)}
       /\ f.kind \notin Conclusion /\ g.kind \in Conclusion => Ends(<<f, g>>) = {Len(<<f, g>>)}
  /\ Ends(<<>>) = {}
<1>1. Ends(<<>>) = {}
  BY DEF Ends
<1>2. SUFFICES ASSUME NEW f \in FrameSet, NEW g \in FrameSet
               PROVE  /\ <<f>> \in Seq(FrameSet) /\ <<f, g>> \in Seq(FrameSet)
                      /\ f.kind \notin Conclusion => Ends(<<f>>) = {}
                      /\ f.kind \notin Conclusion /\ g.kind \notin Conclusion => Ends(<<f, g>>) = {}
                      /\ f.kind \in Conclusion => Ends(<<f>>) = {Len(<<f>>)}
                      /\ f.kind \notin Conclusion /\ g.kind \in Conclusion =>
                           Ends(<<f, g>>) = {Len(<<f, g>>)}
  BY <1>1
<1>3. PICK one \in Seq(FrameSet) : one = <<f>> /\ DOMAIN one = {1} /\ Len(one) = 1 /\ one[1] = f
  <2>1. <<f>> \in Seq(FrameSet) /\ DOMAIN <<f>> = {1} /\ Len(<<f>>) = 1 /\ <<f>>[1] = f
    OBVIOUS
  <2> QED
    BY <2>1, Zenon
<1>4. PICK two \in Seq(FrameSet) :
        two = <<f, g>> /\ DOMAIN two = {1, 2} /\ Len(two) = 2 /\ two[1] = f /\ two[2] = g
  <2>1. /\ <<f, g>> \in Seq(FrameSet) /\ DOMAIN <<f, g>> = {1, 2} /\ Len(<<f, g>>) = 2
        /\ <<f, g>>[1] = f /\ <<f, g>>[2] = g
    OBVIOUS
  <2> QED
    BY <2>1, Zenon
<1>5. /\ f.kind \notin Conclusion => Ends(one) = {}
      /\ f.kind \in Conclusion => Ends(one) = {1}
  BY <1>3 DEF Ends
<1>6. /\ f.kind \notin Conclusion /\ g.kind \notin Conclusion => Ends(two) = {}
      /\ f.kind \notin Conclusion /\ g.kind \in Conclusion => Ends(two) = {2}
  BY <1>4 DEF Ends
<1> QED
  BY <1>3, <1>4, <1>5, <1>6

-----------------------------------------------------------------------------
(* One lemma per kind of step.                                             *)

LEMMA TurnFields ==
  ASSUME Inv
  PROVE  /\ Len(turns) \in Nat /\ DOMAIN turns = 1 .. Len(turns)
         /\ \A k \in DOMAIN turns :
              /\ turns[k] \in TurnSet /\ turns[k].frames \in Seq(FrameSet)
              /\ turns[k].done \in BOOLEAN /\ turns[k].seq \in Nat
              /\ turns[k].event \in Events \cup {None}
         /\ phase # "idle" => Len(turns) \in DOMAIN turns
<1>1. turns \in Seq(TurnSet)
  BY DEF Inv, Turning
<1>2. Len(turns) \in Nat /\ DOMAIN turns = 1 .. Len(turns) /\ \A k \in DOMAIN turns : turns[k] \in TurnSet
  BY <1>1
<1>3. \A x \in TurnSet : /\ x.frames \in Seq(FrameSet) /\ x.done \in BOOLEAN /\ x.seq \in Nat
                         /\ x.event \in Events \cup {None}
  BY DEF TurnSet
<1>4. phase # "idle" => Len(turns) \in DOMAIN turns
  BY <1>2 DEF Inv, Turning
<1> QED
  BY <1>2, <1>3, <1>4

\* Readers do not notice a step that changes no frames.
LEMMA ReadersKept ==
  ASSUME Inv, reader' = reader,
         \A k \in DOMAIN turns : /\ k \in DOMAIN turns' /\ turns'[k].frames = turns[k].frames
                                 /\ turns'[k].done = turns[k].done
  PROVE  Reading'
<1>1. ASSUME NEW r \in Readers
      PROVE  ReaderShape(reader'[r]) /\ FollowsTurn(reader'[r], turns')
  <2>1. ReaderShape(reader[r]) /\ FollowsTurn(reader[r], turns) /\ reader'[r] = reader[r]
    BY DEF Inv, Reading
  <2> QED
    BY <2>1 DEF FollowsTurn
<1>2. reader' = [r \in Readers |-> reader'[r]]
  BY DEF Inv, Reading
<1> QED
  BY <1>1, <1>2 DEF Reading

LEMMA InvChunk ==
  ASSUME Inv, NEW fs \in Seq(FrameSet), Ends(fs) = {}, TakesChunk(fs)
  PROVE  Inv'
<1>1. /\ phase = "streaming" /\ pending = <<>> /\ pending' = fs
      /\ UNCHANGED <<turns, phase, sending, reader>>
  BY DEF TakesChunk
<1>2. Len(turns) \in DOMAIN turns /\ turns[Len(turns)].frames \in Seq(FrameSet)
  BY <1>1, TurnFields
<1>3. Turning'
  BY <1>1 DEF Inv, Turning
<1>4. Saying("streaming", turns[Len(turns)].frames, <<>>)
  BY <1>1 DEF Inv, Concluding
<1>5. Ends(turns[Len(turns)].frames) = {}
  BY <1>2, <1>4, SaidOfIt, EmptySeq
<1>6. Saying("streaming", turns[Len(turns)].frames, fs)
  BY <1>2, <1>5, SaysNext
<1>7. Concluding'
  BY <1>1, <1>6 DEF Inv, Concluding
<1>8. Reading'
  BY <1>1, ReadersKept
<1> QED
  BY <1>3, <1>7, <1>8 DEF Inv

LEMMA InvConcludes ==
  ASSUME Inv, NEW fs \in Seq(FrameSet), Ends(fs) = {Len(fs)}, Concludes(fs)
  PROVE  Inv'
<1>1. /\ phase = "streaming" /\ pending' = fs /\ phase' = "closing" /\ sending' = FALSE
      /\ UNCHANGED <<turns, reader>>
  BY DEF Concludes
<1>2. /\ Len(turns) \in DOMAIN turns /\ turns[Len(turns)].frames \in Seq(FrameSet)
      /\ pending \in Seq(FrameSet)
  BY <1>1, TurnFields DEF Inv, Turning
<1>3. Turning'
  BY <1>1 DEF Inv, Turning
<1>4. Saying("streaming", turns[Len(turns)].frames, pending)
  BY <1>1 DEF Inv, Concluding
<1>5. Ends(turns[Len(turns)].frames) = {}
  BY <1>2, <1>4, SaidOfIt
<1>6. Saying("closing", turns[Len(turns)].frames, fs)
  BY <1>2, <1>5, SaysNext
<1>7. Concluding'
  BY <1>1, <1>6 DEF Inv, Concluding
<1>8. Reading'
  BY <1>1, ReadersKept
<1> QED
  BY <1>3, <1>7, <1>8 DEF Inv

LEMMA Pairs ==
  ASSUME NEW f \in FrameSet, NEW g \in FrameSet
  PROVE  <<f>> \o <<g>> = <<f, g>> /\ <<>> \o <<g>> = <<g>>
<1>1. PICK a \in Seq(FrameSet) : a = <<f>> /\ Len(a) = 1 /\ a[1] = f
  <2>1. <<f>> \in Seq(FrameSet) /\ Len(<<f>>) = 1 /\ <<f>>[1] = f
    OBVIOUS
  <2> QED
    BY <2>1, Zenon
<1>2. PICK b \in Seq(FrameSet) : b = <<g>> /\ Len(b) = 1 /\ b[1] = g
  <2>1. <<g>> \in Seq(FrameSet) /\ Len(<<g>>) = 1 /\ <<g>>[1] = g
    OBVIOUS
  <2> QED
    BY <2>1, Zenon
<1>3. PICK c \in Seq(FrameSet) : c = <<f, g>> /\ Len(c) = 2 /\ c[1] = f /\ c[2] = g
  <2>1. /\ <<f, g>> \in Seq(FrameSet) /\ Len(<<f, g>>) = 2
        /\ <<f, g>>[1] = f /\ <<f, g>>[2] = g
    OBVIOUS
  <2> QED
    BY <2>1, Zenon
<1>4. /\ a \o b \in Seq(FrameSet) /\ Len(a \o b) = 2
      /\ \A i \in 1 .. 2 : (a \o b)[i] = IF i <= 1 THEN a[i] ELSE b[i - 1]
  <2>1. /\ a \o b \in Seq(FrameSet) /\ Len(a \o b) = Len(a) + Len(b)
        /\ \A i \in 1 .. Len(a) + Len(b) :
             (a \o b)[i] = IF i <= Len(a) THEN a[i] ELSE b[i - Len(a)]
    BY ConcatProperties
  <2> QED
    BY <1>1, <1>2, <2>1
<1>5. \A i \in 1 .. 2 : (a \o b)[i] = c[i]
  BY <1>1, <1>2, <1>3, <1>4
<1>6. a \o b = c
  BY <1>3, <1>4, <1>5, SeqEqual
<1>7. <<>> \o b = b
  BY EmptyBehind
<1> QED
  BY <1>1, <1>2, <1>3, <1>6, <1>7

LEMMA FrameIn ==
  /\ \A kind \in Kinds, t \in Tasks \cup {None}, st \in Statuses :
       Frame(kind, t, st) \in FrameSet /\ Frame(kind, t, st).kind = kind
  /\ \A t \in Tasks \cup {None} : Work(t) \in FrameSet /\ Work(t).kind = "work"
BY DEF Frame, Work, FrameSet, Kinds, Statuses

LEMMA ChunkFrames ==
  /\ LeadUpdate \in Seq(FrameSet) /\ Ends(LeadUpdate) = {}
  /\ \A t \in Tasks :
       /\ TaskStarted(t) \in Seq(FrameSet) /\ Ends(TaskStarted(t)) = {}
       /\ TaskRunning(t) \in Seq(FrameSet) /\ Ends(TaskRunning(t)) = {}
       /\ \A st \in {"done", "failed", "timeout"} :
            TaskEnded(t, st) \in Seq(FrameSet) /\ Ends(TaskEnded(t, st)) = {}
       /\ LET fs == <<TaskReport(t), Frame("node", None, "done")>>
          IN  fs \in Seq(FrameSet) /\ Ends(fs) = {}
<1>1. /\ {"task_started", "task_report", "task_finished", "task_failed", "node", "work"} \subseteq Kinds
      /\ {"task_started", "task_report", "task_finished", "task_failed", "node", "work"}
           \cap Conclusion = {}
      /\ {None, "queued", "working", "done", "failed", "timeout"} \subseteq Statuses
  BY DEF Kinds, Conclusion, Statuses
<1>2. LeadUpdate \in Seq(FrameSet) /\ Ends(LeadUpdate) = {}
  <2>1. PICK f \in FrameSet : f = Work(None) /\ f.kind \notin Conclusion
    BY <1>1, FrameIn
  <2>2. PICK g \in FrameSet : g = Frame("node", None, "done") /\ g.kind \notin Conclusion
    <3>1. "node" \in Kinds /\ "node" \notin Conclusion /\ None \in Tasks \cup {None} /\ "done" \in Statuses
      BY <1>1
    <3> QED
      BY <3>1, FrameIn
  <2>3. LeadUpdate = <<f, g>>
    BY <2>1, <2>2 DEF LeadUpdate
  <2> QED
    BY <2>1, <2>2, <2>3, Conclusions
<1>3. ASSUME NEW t \in Tasks
      PROVE  TaskStarted(t) \in Seq(FrameSet) /\ Ends(TaskStarted(t)) = {}
  <2>1. PICK f \in FrameSet : f = Frame("task_started", t, "queued") /\ f.kind \notin Conclusion
    BY <1>1, FrameIn
  <2>2. TaskStarted(t) = <<f>>
    BY <2>1 DEF TaskStarted
  <2> QED
    BY <2>1, <2>2, Conclusions
<1>4. ASSUME NEW t \in Tasks
      PROVE  TaskRunning(t) \in Seq(FrameSet) /\ Ends(TaskRunning(t)) = {}
  <2>1. PICK f \in FrameSet : f = Frame("task_started", t, "working") /\ f.kind \notin Conclusion
    BY <1>1, FrameIn
  <2>2. PICK w \in FrameSet : w = Work(t) /\ w.kind \notin Conclusion
    BY <1>1, FrameIn
  <2>3. TaskRunning(t) = IF tasks[t] = "queued" THEN <<f, w>> ELSE <<w>>
    <3>1. <<f>> \o <<w>> = <<f, w>> /\ <<>> \o <<w>> = <<w>>
      BY Pairs
    <3> QED
      BY <2>1, <2>2, <3>1 DEF TaskRunning
  <2> QED
    BY <2>1, <2>2, <2>3, Conclusions
<1>5. ASSUME NEW t \in Tasks, NEW st \in {"done", "failed", "timeout"}
      PROVE  TaskEnded(t, st) \in Seq(FrameSet) /\ Ends(TaskEnded(t, st)) = {}
  <2>1. PICK kind : kind = IF st = "done" THEN "task_finished" ELSE "task_failed"
    OBVIOUS
  <2>2. PICK f \in FrameSet : f = Frame(kind, t, st) /\ f.kind \notin Conclusion
    <3>1. kind \in Kinds /\ kind \notin Conclusion /\ st \in Statuses /\ t \in Tasks \cup {None}
      BY <1>1, <2>1
    <3> QED
      BY <3>1, FrameIn
  <2>3. TaskEnded(t, st) = <<f>>
    BY <2>1, <2>2 DEF TaskEnded
  <2> QED
    BY <2>2, <2>3, Conclusions
<1>6. ASSUME NEW t \in Tasks
      PROVE  LET fs == <<TaskReport(t), Frame("node", None, "done")>>
             IN  fs \in Seq(FrameSet) /\ Ends(fs) = {}
  <2>1. PICK f \in FrameSet : f = TaskReport(t) /\ f.kind \notin Conclusion
    BY <1>1, FrameIn DEF TaskReport
  <2>2. PICK g \in FrameSet : g = Frame("node", None, "done") /\ g.kind \notin Conclusion
    <3>1. "node" \in Kinds /\ "node" \notin Conclusion /\ None \in Tasks \cup {None} /\ "done" \in Statuses
      BY <1>1
    <3> QED
      BY <3>1, FrameIn
  <2> QED
    BY <2>1, <2>2, Conclusions
<1> QED
  BY <1>2, <1>3, <1>4, <1>5, <1>6

LEMMA InvChunks ==
  ASSUME Inv, LeadChunk \/ \E t \in Tasks : TaskChunk(t) \/ ReportChunk(t)
  PROVE  Inv'
<1>1. CASE LeadChunk
  BY <1>1, ChunkFrames, InvChunk DEF LeadChunk
<1>2. ASSUME NEW t \in Tasks, TaskChunk(t)
      PROVE  Inv'
  <2>1. \/ TakesChunk(TaskStarted(t)) \/ TakesChunk(TaskRunning(t))
        \/ \E st \in {"done", "failed", "timeout"} : TakesChunk(TaskEnded(t, st))
    BY <1>2 DEF TaskChunk
  <2> QED
    BY <2>1, ChunkFrames, InvChunk
<1>3. ASSUME NEW t \in Tasks, ReportChunk(t)
      PROVE  Inv'
  BY <1>3, ChunkFrames, InvChunk DEF ReportChunk
<1> QED
  BY <1>1, <1>2, <1>3

LEMMA InvEnding ==
  ASSUME Inv, Finishes \/ Fails \/ Stopped
  PROVE  Inv'
<1>1. PICK a \in FrameSet : a = Frame("chat_agent", None, None) /\ a.kind \notin Conclusion
  BY FrameIn DEF Kinds, Statuses, Conclusion
<1>2. PICK b \in FrameSet : b = Frame("run_finished", None, None) /\ b.kind \in Conclusion
  BY FrameIn DEF Kinds, Statuses, Conclusion
<1>3. PICK c \in FrameSet : c = Frame("run_failed", None, None) /\ c.kind \in Conclusion
  BY FrameIn DEF Kinds, Statuses, Conclusion
<1>4. <<a>> \o <<b>> = <<a, b>> /\ <<>> \o <<b>> = <<b>>
  BY Pairs
<1>5. Concludes(<<a, b>>) \/ Concludes(<<b>>) \/ Concludes(<<c>>)
  <2>1. CASE Finishes /\ IsChat /\ reply
    BY <1>1, <1>2, <1>4, <2>1 DEF Finishes
  <2>2. CASE Finishes /\ ~(IsChat /\ reply)
    BY <1>2, <1>4, <2>2 DEF Finishes
  <2>3. CASE Fails \/ Stopped
    BY <1>3, <2>3 DEF Fails, Stopped
  <2> QED
    BY <2>1, <2>2, <2>3
<1> QED
  BY <1>1, <1>2, <1>3, <1>5, Conclusions, InvConcludes

LEMMA InvBegin ==
  ASSUME Inv, NEW event \in Events \cup {None}, Begin(event)
  PROVE  Inv'
<1>1. PICK turn \in TurnSet :
        /\ turn.event = event /\ turn.done = FALSE /\ turn.seq = 0 /\ turn.frames = <<>>
        /\ turns' = Append(turns, turn)
  <2>1. PICK turn : turn = [event |-> event, done |-> FALSE, seq |-> 0, frames |-> <<>>]
    OBVIOUS
  <2>2. turn \in TurnSet /\ turn.event = event /\ turn.done = FALSE /\ turn.seq = 0 /\ turn.frames = <<>>
    BY <2>1, EmptySeq DEF TurnSet
  <2> QED
    BY <2>1, <2>2 DEF Begin
<1>2. PICK n \in Nat : n = Len(turns) /\ DOMAIN turns = 1 .. n
  BY TurnFields
<1>3. /\ turns' \in Seq(TurnSet) /\ Len(turns') = n + 1 /\ DOMAIN turns' = 1 .. n + 1
      /\ turns'[n + 1] = turn /\ \A k \in 1 .. n : turns'[k] = turns[k]
  BY <1>1, <1>2 DEF Inv, Turning
<1>4. PICK p \in Seq(FrameSet) : pending' = p /\ Ends(p) = {}
  <2>1. PICK f \in FrameSet : f = Frame("run_started", None, None) /\ f.kind \notin Conclusion
    BY FrameIn DEF Kinds, Statuses, Conclusion
  <2>2. PICK g \in FrameSet : g = Frame("chat_user", None, None) /\ g.kind \notin Conclusion
    BY FrameIn DEF Kinds, Statuses, Conclusion
  <2>3. <<f>> \o <<g>> = <<f, g>> /\ <<f>> \o <<>> = <<f>>
    <3>1. <<f>> \in Seq(FrameSet)
      OBVIOUS
    <3> QED
      BY <3>1, Pairs, EmptyBehind
  <2>4. pending' = <<f, g>> \/ pending' = <<f>>
    BY <2>1, <2>2, <2>3 DEF Begin
  <2> QED
    BY <2>1, <2>2, <2>4, Conclusions
<1>5. phase = "idle" /\ phase' = "opening" /\ sending' = sending /\ reader' = reader
  BY DEF Begin
<1>6. Turning'
  <2>1. sending = FALSE
    BY <1>5 DEF Inv, Turning
  <2>2. sending' = FALSE /\ phase' = "opening"
    BY <1>5, <2>1
  <2>3. Len(turns') > 0 /\ turns'[Len(turns')].done = FALSE
    BY <1>1, <1>2, <1>3
  <2> QED
    BY <1>3, <1>4, <2>2, <2>3 DEF Turning
<1>7. Ends(turn.frames) = {}
  BY <1>1, Conclusions
<1>8. Saying("opening", turn.frames, p)
  BY <1>1, <1>4, <1>7, SaysNext, EmptySeq
<1>9. Concluding'
  <2>1. \A k \in 1 .. n : Concluded(turns'[k].frames, turns'[k].done, turns'[k].event)
    BY <1>2, <1>3 DEF Inv, Concluding
  <2>2. Concluded(turn.frames, turn.done, turn.event)
    BY <1>1, <1>7 DEF Concluded
  <2>3. \A k \in DOMAIN turns' : k \in 1 .. n \/ k = n + 1
    BY <1>3
  <2> QED
    BY <1>3, <1>4, <1>5, <1>8, <2>1, <2>2, <2>3 DEF Concluding
<1>10. Reading'
  BY <1>2, <1>3, <1>5, ReadersKept
<1> QED
  BY <1>6, <1>9, <1>10 DEF Inv

\* Turns that differ in one field of one turn.
LEMMA TurnExcept ==
  ASSUME Inv, NEW k \in DOMAIN turns, NEW turn \in TurnSet, turns' = [turns EXCEPT ![k] = turn]
  PROVE  /\ turns' \in Seq(TurnSet) /\ Len(turns') = Len(turns) /\ DOMAIN turns' = DOMAIN turns
         /\ turns'[k] = turn /\ \A j \in DOMAIN turns \ {k} : turns'[j] = turns[j]
BY DEF Inv, Turning

\* What emit's first half does to the turns...
LEMMA PersistTurns ==
  ASSUME Inv, Persist
  PROVE  \E n \in DOMAIN turns :
           /\ n = Len(turns) /\ Len(turns') = n /\ DOMAIN turns' = DOMAIN turns
           /\ turns' \in Seq(TurnSet) /\ phase # "idle"
           /\ turns'[n].seq = turns[n].seq + 1
           /\ \A j \in DOMAIN turns \ {n} : turns'[j] = turns[j]
           /\ \A j \in DOMAIN turns : /\ turns'[j].frames = turns[j].frames
                                      /\ turns'[j].done = turns[j].done
                                      /\ turns'[j].event = turns[j].event
<1>1. pending # <<>> /\ turns' = [turns EXCEPT ![Len(turns)].seq = @ + 1]
  BY DEF Persist, Current
<1>2. phase # "idle"
  BY <1>1 DEF Inv, Turning
<1>3. PICK n \in DOMAIN turns : n = Len(turns)
  BY <1>2, TurnFields
<1>4. PICK turn \in TurnSet :
        /\ turn = [turns[n] EXCEPT !.seq = @ + 1] /\ turn.seq = turns[n].seq + 1
        /\ turn.frames = turns[n].frames /\ turn.done = turns[n].done /\ turn.event = turns[n].event
  <2>1. PICK old \in TurnSet : old = turns[n]
    BY TurnFields
  <2>2. PICK turn : turn = [old EXCEPT !.seq = @ + 1]
    OBVIOUS
  <2>3. turn \in TurnSet
    BY <2>2 DEF TurnSet
  <2>4. /\ turn.frames = old.frames /\ turn.done = old.done /\ turn.event = old.event
        /\ turn.seq = old.seq + 1
    BY <2>2 DEF TurnSet
  <2> QED
    BY <2>1, <2>2, <2>3, <2>4
<1>5. turns' = [turns EXCEPT ![n] = turn]
  BY <1>1, <1>3, <1>4
<1>6. /\ turns' \in Seq(TurnSet) /\ Len(turns') = Len(turns) /\ DOMAIN turns' = DOMAIN turns
      /\ turns'[n] = turn /\ \A j \in DOMAIN turns \ {n} : turns'[j] = turns[j]
  BY <1>5, TurnExcept
<1>7. \A j \in DOMAIN turns : /\ turns'[j].frames = turns[j].frames /\ turns'[j].done = turns[j].done
                              /\ turns'[j].event = turns[j].event
  BY <1>4, <1>6
<1>8. turns'[n].seq = turns[n].seq + 1
  BY <1>4, <1>6
<1> QED
  BY <1>2, <1>3, <1>6, <1>7, <1>8

LEMMA InvPersist ==
  ASSUME Inv, Persist
  PROVE  Inv'
<1>1. pending # <<>> /\ sending' = TRUE /\ UNCHANGED <<phase, pending, reader>>
  BY DEF Persist
<1>2. PICK n \in DOMAIN turns :
        /\ n = Len(turns) /\ Len(turns') = n /\ DOMAIN turns' = DOMAIN turns
        /\ turns' \in Seq(TurnSet) /\ phase # "idle"
        /\ \A j \in DOMAIN turns : /\ turns'[j].frames = turns[j].frames
                                   /\ turns'[j].done = turns[j].done
                                   /\ turns'[j].event = turns[j].event
  BY PersistTurns
<1>3. Turning'
  BY <1>1, <1>2 DEF Inv, Turning
<1>4. Concluding'
  BY <1>1, <1>2 DEF Inv, Concluding
<1>5. Reading'
  BY <1>1, <1>2, ReadersKept
<1> QED
  BY <1>3, <1>4, <1>5 DEF Inv

\* The readers of the turn that is not done get a frame, or the end mark.
LEMMA Delivered ==
  ASSUME Inv, NEW n \in DOMAIN turns, turns[n].done = FALSE, NEW f, Deliver(f, n),
         NEW turn \in TurnSet, turns' = [turns EXCEPT ![n] = turn],
         \/ f \in FrameSet /\ turn.frames = Append(turns[n].frames, f) /\ turn.done = FALSE
         \/ f = End /\ turn.frames = turns[n].frames /\ turn.done = TRUE
  PROVE  Reading'
<1>1. /\ DOMAIN turns' = DOMAIN turns /\ turns'[n] = turn
      /\ \A j \in DOMAIN turns \ {n} : turns'[j] = turns[j]
  BY TurnExcept
<1>2. reader' = [r \in Readers |-> reader'[r]]
  BY DEF Deliver
<1>3. ASSUME NEW r \in Readers, reader[r].pc = "live", reader[r].turn = n
      PROVE  ReaderShape(reader'[r]) /\ FollowsTurn(reader'[r], turns')
  <2>1. PICK rd : rd = reader[r] /\ ReaderShape(rd)
    BY DEF Inv, Reading
  <2>2. reader'[r] = [rd EXCEPT !.queue = Append(rd.queue, f)]
    BY <1>3, <2>1 DEF Deliver
  <2>3. PICK new : new = reader'[r] /\ new.pc = "live" /\ new.turn = n
                   /\ new.got = rd.got /\ new.queue = Append(rd.queue, f) /\ ReaderShape(new)
    BY <1>3, <2>1, <2>2 DEF ReaderShape
  <2>4. Follows(rd.got, rd.queue, turns[n].frames, FALSE) /\ turns[n].frames \in Seq(FrameSet)
    <3>1. FollowsTurn(rd, turns)
      BY <2>1 DEF Inv, Reading
    <3> QED
      BY <1>3, <2>1, <3>1, TurnFields DEF FollowsTurn
  <2>5. Follows(new.got, new.queue, turn.frames, turn.done)
    <3>1. CASE f \in FrameSet /\ turn.frames = Append(turns[n].frames, f) /\ turn.done = FALSE
      BY <2>3, <2>4, <3>1, FollowsPublish
    <3>2. CASE f = End /\ turn.frames = turns[n].frames /\ turn.done = TRUE
      BY <2>3, <2>4, <3>2, FollowsEnd
    <3> QED
      BY <3>1, <3>2
  <2> QED
    BY <1>1, <2>3, <2>5 DEF FollowsTurn
<1>4. ASSUME NEW r \in Readers, ~(reader[r].pc = "live" /\ reader[r].turn = n)
      PROVE  ReaderShape(reader'[r]) /\ FollowsTurn(reader'[r], turns')
  <2>1. reader'[r] = reader[r]
    BY <1>4 DEF Deliver
  <2>2. ReaderShape(reader[r]) /\ FollowsTurn(reader[r], turns)
    BY DEF Inv, Reading
  <2> QED
    BY <1>1, <1>4, <2>1, <2>2 DEF FollowsTurn
<1> QED
  BY <1>2, <1>3, <1>4 DEF Reading

\* ...and what its second half does: a frame moves from pending to the turn.
LEMMA PublishTurns ==
  ASSUME Inv, Publish
  PROVE  \E n \in DOMAIN turns, fs \in Seq(FrameSet), turn \in TurnSet :
           /\ n = Len(turns) /\ n > 0 /\ Len(turns') = n /\ DOMAIN turns' = DOMAIN turns
           /\ turns[n].done = FALSE /\ turns[n].frames \in Seq(FrameSet)
           /\ fs = Append(turns[n].frames, Head(pending))
           /\ fs \o Tail(pending) = turns[n].frames \o pending
           /\ turn.frames = fs /\ turn.done = FALSE /\ turn.event = turns[n].event
           /\ turn.seq = turns[n].seq
           /\ turns' = [turns EXCEPT ![n] = turn] /\ turns' \in Seq(TurnSet)
           /\ turns'[n] = turn /\ \A j \in DOMAIN turns \ {n} : turns'[j] = turns[j]
<1>1. sending /\ turns' = [turns EXCEPT ![Len(turns)].frames = Append(@, Head(pending))]
  BY DEF Publish, Current
<1>2. pending # <<>> /\ pending \in Seq(FrameSet) /\ phase # "idle"
  BY <1>1 DEF Inv, Turning
<1>3. PICK n \in DOMAIN turns : n = Len(turns) /\ n > 0 /\ turns[n].done = FALSE
  BY <1>2, TurnFields DEF Inv, Turning
<1>4. turns[n] \in TurnSet /\ turns[n].frames \in Seq(FrameSet)
  BY TurnFields
<1>5. PICK fs \in Seq(FrameSet) :
        /\ fs = Append(turns[n].frames, Head(pending))
        /\ fs \o Tail(pending) = turns[n].frames \o pending
  <2>1. Head(pending) \in FrameSet
    BY <1>2, HeadTailProperties
  <2>2. Append(turns[n].frames, Head(pending)) \in Seq(FrameSet)
    BY <1>4, <2>1
  <2>3. Append(turns[n].frames, Head(pending)) \o Tail(pending) = turns[n].frames \o pending
    BY <1>2, <1>4, Moves
  <2> QED
    BY <2>2, <2>3, Zenon
<1>6. PICK turn \in TurnSet :
        /\ turn = [turns[n] EXCEPT !.frames = fs]
        /\ turn.frames = fs /\ turn.done = FALSE /\ turn.event = turns[n].event
        /\ turn.seq = turns[n].seq
  <2>1. PICK old \in TurnSet : old = turns[n] /\ old.done = FALSE
    BY <1>3, <1>4
  <2>2. PICK turn : turn = [old EXCEPT !.frames = fs]
    OBVIOUS
  <2>3. turn \in TurnSet
    BY <2>2 DEF TurnSet
  <2>4. turn.frames = fs /\ turn.done = old.done /\ turn.event = old.event /\ turn.seq = old.seq
    BY <2>2 DEF TurnSet
  <2> QED
    BY <2>1, <2>2, <2>3, <2>4
<1>7. turns' = [turns EXCEPT ![n] = turn]
  BY <1>1, <1>3, <1>5, <1>6
<1>8. /\ turns' \in Seq(TurnSet) /\ Len(turns') = n /\ DOMAIN turns' = DOMAIN turns
      /\ turns'[n] = turn /\ \A j \in DOMAIN turns \ {n} : turns'[j] = turns[j]
  BY <1>3, <1>7, TurnExcept
<1> QED
  BY <1>3, <1>4, <1>5, <1>6, <1>7, <1>8

LEMMA InvPublish ==
  ASSUME Inv, Publish
  PROVE  Inv'
<1>1. /\ sending /\ sending' = FALSE /\ pending' = Tail(pending)
      /\ Deliver(Head(pending), Len(turns))
      /\ phase' = IF phase = "opening" /\ Tail(pending) = <<>> THEN "streaming" ELSE phase
  BY DEF Publish, Current
<1>2. pending # <<>> /\ pending \in Seq(FrameSet) /\ phase # "idle"
  BY <1>1 DEF Inv, Turning
<1>3. PICK n \in DOMAIN turns, fs \in Seq(FrameSet), turn \in TurnSet :
        /\ n = Len(turns) /\ n > 0 /\ Len(turns') = n /\ DOMAIN turns' = DOMAIN turns
        /\ turns[n].done = FALSE /\ turns[n].frames \in Seq(FrameSet)
        /\ fs = Append(turns[n].frames, Head(pending))
        /\ fs \o Tail(pending) = turns[n].frames \o pending
        /\ turn.frames = fs /\ turn.done = FALSE /\ turn.event = turns[n].event
        /\ turn.seq = turns[n].seq
        /\ turns' = [turns EXCEPT ![n] = turn] /\ turns' \in Seq(TurnSet)
        /\ turns'[n] = turn /\ \A j \in DOMAIN turns \ {n} : turns'[j] = turns[j]
  BY PublishTurns
<1>6. Head(pending) \in FrameSet /\ Tail(pending) \in Seq(FrameSet)
  BY <1>2, HeadTailProperties
<1>10. /\ phase' # "idle" /\ phase' \in {"opening", "streaming", "closing"}
       /\ (phase' = "closing" <=> phase = "closing")
  BY <1>1, <1>2 DEF Inv, Turning
<1>11. Turning'
  BY <1>1, <1>3, <1>6, <1>10 DEF Turning
<1>12. Saying(phase', fs, Tail(pending))
  <2>1. Saying(phase, turns[n].frames, pending)
    BY <1>2, <1>3 DEF Inv, Concluding
  <2> QED
    BY <1>2, <1>3, <1>10, <2>1 DEF Saying, Inv, Turning
<1>13. Ends(fs) \subseteq {Len(fs)}
  BY <1>6, <1>10, <1>12, SaidOfIt
<1>14. Concluding'
  <2>1. Concluded(turn.frames, turn.done, turn.event)
    BY <1>3, <1>13 DEF Concluded
  <2> QED
    BY <1>1, <1>3, <1>12, <2>1 DEF Inv, Concluding
<1>15. Reading'
  <2>1. /\ Deliver(Head(pending), n) /\ turn.done = FALSE
        /\ turn.frames = Append(turns[n].frames, Head(pending))
    BY <1>1, <1>3
  <2> QED
    BY <1>3, <1>6, <2>1, Delivered
<1> QED
  BY <1>11, <1>14, <1>15 DEF Inv

\* What turn.close() does to the turns.
LEMMA CloseTurns ==
  ASSUME Inv, CloseTurn, phase # "idle"
  PROVE  \E n \in DOMAIN turns, turn \in TurnSet :
           /\ n = Len(turns) /\ turns[n].done = FALSE
           /\ Len(turns') = n /\ DOMAIN turns' = DOMAIN turns
           /\ turn.frames = turns[n].frames /\ turn.done = TRUE /\ turn.event = turns[n].event
           /\ turn.seq = turns[n].seq
           /\ turns' = [turns EXCEPT ![n] = turn] /\ turns' \in Seq(TurnSet)
           /\ turns'[n] = turn /\ \A j \in DOMAIN turns \ {n} : turns'[j] = turns[j]
<1>1. turns' = [turns EXCEPT ![Len(turns)].done = TRUE]
  BY DEF CloseTurn, Current
<1>2. PICK n \in DOMAIN turns : n = Len(turns) /\ turns[n].done = FALSE
  BY TurnFields DEF Inv, Turning
<1>3. PICK turn \in TurnSet :
        /\ turn = [turns[n] EXCEPT !.done = TRUE]
        /\ turn.frames = turns[n].frames /\ turn.done = TRUE /\ turn.event = turns[n].event
        /\ turn.seq = turns[n].seq
  <2>1. PICK old \in TurnSet : old = turns[n]
    BY TurnFields
  <2>2. PICK turn : turn = [old EXCEPT !.done = TRUE]
    OBVIOUS
  <2>3. turn \in TurnSet
    BY <2>2 DEF TurnSet
  <2>4. turn.frames = old.frames /\ turn.done = TRUE /\ turn.event = old.event /\ turn.seq = old.seq
    BY <2>2 DEF TurnSet
  <2> QED
    BY <2>1, <2>2, <2>3, <2>4
<1>4. turns' = [turns EXCEPT ![n] = turn]
  BY <1>1, <1>2, <1>3
<1>5. /\ turns' \in Seq(TurnSet) /\ Len(turns') = n /\ DOMAIN turns' = DOMAIN turns
      /\ turns'[n] = turn /\ \A j \in DOMAIN turns \ {n} : turns'[j] = turns[j]
  BY <1>2, <1>4, TurnExcept
<1> QED
  BY <1>2, <1>3, <1>4, <1>5

LEMMA InvClose ==
  ASSUME Inv, CloseTurn, phase \in {"streaming", "closing"},
         IsChat \/ (phase = "closing" /\ pending = <<>>)
  PROVE  Inv'
<1>1. /\ sending' = FALSE /\ pending' = <<>> /\ phase' = "idle"
      /\ Deliver(End, Len(turns))
  BY DEF CloseTurn, Current
<1>2. PICK n \in DOMAIN turns, turn \in TurnSet :
        /\ n = Len(turns) /\ turns[n].done = FALSE
        /\ Len(turns') = n /\ DOMAIN turns' = DOMAIN turns
        /\ turn.frames = turns[n].frames /\ turn.done = TRUE /\ turn.event = turns[n].event
        /\ turn.seq = turns[n].seq
        /\ turns' = [turns EXCEPT ![n] = turn] /\ turns' \in Seq(TurnSet)
        /\ turns'[n] = turn /\ \A j \in DOMAIN turns \ {n} : turns'[j] = turns[j]
  BY CloseTurns
<1>3. turns[n].frames \in Seq(FrameSet) /\ pending \in Seq(FrameSet)
  BY TurnFields DEF Inv, Turning
<1>4. Turning'
  BY <1>1, <1>2, EmptySeq DEF Turning
<1>5. Saying(phase, turns[n].frames, pending)
  BY <1>2 DEF Inv, Concluding
<1>6. /\ Ends(turns[n].frames) \subseteq {Len(turns[n].frames)}
      /\ phase = "closing" /\ pending = <<>> => Ends(turns[n].frames) # {}
  BY <1>3, <1>5, SaidOfIt
<1>7. turns[n].event # None => phase = "closing" /\ pending = <<>>
  BY <1>2 DEF IsChat, Current
<1>8. Concluded(turn.frames, turn.done, turn.event)
  BY <1>2, <1>6, <1>7 DEF Concluded
<1>9. Concluding'
  BY <1>1, <1>2, <1>8 DEF Inv, Concluding
<1>10. Reading'
  BY <1>1, <1>2, Delivered
<1> QED
  BY <1>4, <1>9, <1>10 DEF Inv

LEMMA InvCloses ==
  ASSUME Inv, Closes \/ ChatGone
  PROVE  Inv'
BY InvClose DEF Closes, ChatGone

LEMMA InvGoneEarly ==
  ASSUME Inv, ChatGoneEarly
  PROVE  Inv'
<1>1. phase' = "idle" /\ pending' = <<>> /\ sending' = FALSE /\ UNCHANGED <<turns, reader>>
  BY DEF ChatGoneEarly
<1>2. Turning'
  BY <1>1, EmptySeq DEF Inv, Turning
<1>3. Concluding'
  BY <1>1 DEF Inv, Concluding
<1>4. Reading'
  BY <1>1, ReadersKept
<1> QED
  BY <1>2, <1>3, <1>4 DEF Inv

\* A reader's step changes that reader alone.
LEMMA OneReader ==
  ASSUME Inv, NEW r \in Readers, NEW rd, ReaderShape(rd), FollowsTurn(rd, turns),
         reader' = [reader EXCEPT ![r] = rd], UNCHANGED turnVars
  PROVE  Inv'
<1>1. UNCHANGED <<turns, phase, pending, sending>>
  BY DEF turnVars
<1>2. Turning' /\ Concluding'
  BY <1>1 DEF Inv, Turning, Concluding
<1>3. /\ reader' = [s \in Readers |-> reader'[s]]
      /\ \A s \in Readers : reader'[s] = IF s = r THEN rd ELSE reader[s]
  BY DEF Inv, Reading
<1>4. \A s \in Readers : ReaderShape(reader'[s]) /\ FollowsTurn(reader'[s], turns')
  BY <1>1, <1>3 DEF Inv, Reading
<1>5. Reading'
  BY <1>3, <1>4 DEF Reading
<1> QED
  BY <1>2, <1>5 DEF Inv

LEMMA NotLive ==
  ASSUME NEW rd, ReaderShape(rd), rd.pc # "live"
  PROVE  FollowsTurn(rd, turns)
BY DEF FollowsTurn

LEMMA InvOpens ==
  ASSUME Inv, NEW r \in Readers, NEW want, Opens(r, want)
  PROVE  Inv'
<1>1. CASE Live > 0 /\ want \in {None, turns[Live].event}
  <2>1. Live \in DOMAIN turns /\ turns[Live].done = FALSE
    <3>1. Len(turns) \in Nat /\ DOMAIN turns = 1 .. Len(turns)
      BY TurnFields
    <3>2. Live = Len(turns) /\ Len(turns) > 0 /\ ~turns[Len(turns)].done
      BY <1>1 DEF Live, Current
    <3>3. Len(turns) \in DOMAIN turns
      BY <3>1, <3>2
    <3> QED
      BY <3>2, <3>3, TurnFields
  <2>2. PICK k \in DOMAIN turns : k = Live
    BY <2>1
  <2>3. PICK rd : rd = [Closed EXCEPT !.pc = "live", !.turn = k, !.queue = turns[k].frames]
    OBVIOUS
  <2>4. reader' = [reader EXCEPT ![r] = rd] /\ UNCHANGED turnVars
    BY <1>1, <2>2, <2>3 DEF Opens
  <2>5. ReaderShape(rd) /\ rd.turn = k /\ rd.queue = turns[k].frames /\ rd.got = <<>>
    BY <2>3 DEF ReaderShape, Closed
  <2>6. Follows(<<>>, turns[k].frames, turns[k].frames, turns[k].done)
    BY <2>1, <2>2, TurnFields, FollowsOpen
  <2> QED
    BY <2>4, <2>5, <2>6, OneReader DEF FollowsTurn
<1>2. CASE ~(Live > 0 /\ want \in {None, turns[Live].event})
  <2>1. PICK rd : rd = [Closed EXCEPT !.pc = "asks", !.want = want]
    OBVIOUS
  <2>2. reader' = [reader EXCEPT ![r] = rd] /\ UNCHANGED turnVars
    BY <1>2, <2>1 DEF Opens
  <2>3. ReaderShape(rd) /\ rd.pc # "live"
    BY <2>1 DEF ReaderShape, Closed
  <2> QED
    BY <2>2, <2>3, OneReader, NotLive
<1> QED
  BY <1>1, <1>2

LEMMA InvReader ==
  ASSUME Inv, NEW r \in Readers, ReadsJournal(r) \/ Takes(r) \/ RowsEnd(r) \/ Leaves(r)
  PROVE  Inv'
<1>1. PICK old : old = reader[r] /\ ReaderShape(old) /\ FollowsTurn(old, turns)
  BY DEF Inv, Reading
<1>2. UNCHANGED turnVars
  BY DEF ReadsJournal, Takes, RowsEnd, Leaves
<1>3. CASE reader' = [reader EXCEPT ![r] = [Closed EXCEPT !.pc = "over"]]
  <2>1. PICK rd : rd = [Closed EXCEPT !.pc = "over"]
    OBVIOUS
  <2>2. reader' = [reader EXCEPT ![r] = rd]
    BY <1>3, <2>1
  <2>3. ReaderShape(rd) /\ rd.pc # "live"
    BY <2>1 DEF ReaderShape, Closed
  <2> QED
    BY <1>2, <2>2, <2>3, OneReader, NotLive
<1>4. CASE ReadsJournal(r)
  <2>1. PICK rows : rows = Listed(old.want)
    OBVIOUS
  <2>2. PICK rd : rd = [old EXCEPT !.pc = "rows", !.queue = rows]
    OBVIOUS
  <2>3. reader' = [reader EXCEPT ![r].pc = "rows", ![r].queue = rows]
    BY <1>1, <1>4, <2>1 DEF ReadsJournal
  <2>4. reader' = [reader EXCEPT ![r] = rd]
    <3>1. reader = [s \in Readers |-> reader[s]]
      BY DEF Inv, Reading
    <3> QED
      BY <1>1, <2>2, <2>3, <3>1
  <2>5. ReaderShape(rd) /\ rd.pc # "live"
    BY <1>1, <2>2 DEF ReaderShape
  <2> QED
    BY <1>2, <2>4, <2>5, OneReader, NotLive
<1>5. CASE /\ Takes(r) /\ Head(old.queue) # End
           /\ reader' = [reader EXCEPT ![r].got = Append(@, Head(old.queue)), ![r].queue = Tail(@)]
  <2>1. old.pc = "live" /\ old.queue # <<>>
    BY <1>1, <1>5 DEF Takes
  <2>2. PICK rd : rd = [old EXCEPT !.got = Append(old.got, Head(old.queue)),
                                   !.queue = Tail(old.queue)]
    OBVIOUS
  <2>3. reader' = [reader EXCEPT ![r] = rd]
    <3>1. reader = [s \in Readers |-> reader[s]]
      BY DEF Inv, Reading
    <3> QED
      BY <1>1, <1>5, <2>2, <3>1 DEF ReaderShape
  <2>4. /\ ReaderShape(rd) /\ rd.turn = old.turn
        /\ rd.queue = Tail(old.queue) /\ rd.got = Append(old.got, Head(old.queue))
    BY <1>1, <2>2 DEF ReaderShape
  <2>5. /\ old.turn \in DOMAIN turns
        /\ Follows(old.got, old.queue, turns[old.turn].frames, turns[old.turn].done)
    BY <1>1, <2>1 DEF FollowsTurn
  <2>6. Follows(rd.got, rd.queue, turns[old.turn].frames, turns[old.turn].done)
    BY <1>5, <2>1, <2>4, <2>5, TurnFields, FollowsTake
  <2>7. FollowsTurn(rd, turns)
    BY <2>4, <2>5, <2>6 DEF FollowsTurn
  <2> QED
    BY <1>2, <2>3, <2>4, <2>7, OneReader
<1>6. RowsEnd(r) \/ Leaves(r) => reader' = [reader EXCEPT ![r] = [Closed EXCEPT !.pc = "over"]]
  BY DEF RowsEnd, Leaves
<1>7. Takes(r) => \/ reader' = [reader EXCEPT ![r] = [Closed EXCEPT !.pc = "over"]]
                  \/ /\ Head(old.queue) # End
                     /\ reader' = [reader EXCEPT ![r].got = Append(@, Head(old.queue)),
                                                 ![r].queue = Tail(@)]
  BY <1>1 DEF Takes
<1> QED
  BY <1>3, <1>4, <1>5, <1>6, <1>7

-----------------------------------------------------------------------------
(* The invariant holds.                                                    *)

LEMMA InvInit ==
  ASSUME Init
  PROVE  Inv
<1>1. /\ turns = <<>> /\ phase = "idle" /\ pending = <<>> /\ sending = FALSE
      /\ reader = [r \in Readers |-> Closed]
  BY DEF Init
<1>2. <<>> \in Seq(TurnSet) /\ <<>> \in Seq(FrameSet) /\ DOMAIN turns = {}
  BY <1>1, EmptySeq
<1>3. Turning /\ Concluding
  BY <1>1, <1>2 DEF Turning, Concluding
<1>4. ReaderShape(Closed) /\ Closed.pc # "live"
  BY DEF Closed, ReaderShape
<1>5. Reading
  BY <1>1, <1>4, NotLive DEF Reading
<1> QED
  BY <1>3, <1>5 DEF Inv

LEMMA InvStep ==
  ASSUME Inv, [Next]_vars
  PROVE  Inv'
<1>1. ASSUME NEW event \in Events \cup {None}, Begin(event)
      PROVE  Inv'
  BY <1>1, InvBegin
<1>2. CASE Persist
  BY <1>2, InvPersist
<1>3. CASE Publish
  BY <1>3, InvPublish
<1>4. CASE LeadChunk \/ \E t \in Tasks : TaskChunk(t) \/ ReportChunk(t)
  BY <1>4, InvChunks
<1>5. CASE Finishes \/ Fails \/ Stopped
  BY <1>5, InvEnding
<1>6. CASE Closes \/ ChatGone
  BY <1>6, InvCloses
<1>7. CASE ChatGoneEarly
  BY <1>7, InvGoneEarly
<1>8. ASSUME NEW r \in Readers, NEW want \in Events \cup {None}, Opens(r, want)
      PROVE  Inv'
  BY <1>8, InvOpens
<1>9. ASSUME NEW r \in Readers, ReadsJournal(r) \/ Takes(r) \/ RowsEnd(r) \/ Leaves(r)
      PROVE  Inv'
  BY <1>9, InvReader
<1>10. CASE UNCHANGED vars
  <2>1. UNCHANGED <<turns, phase, pending, sending, reader>>
    BY <1>10 DEF vars, turnVars
  <2> QED
    BY <2>1 DEF Inv, Turning, Concluding, Reading
<1> QED
  BY <1>1, <1>2, <1>3, <1>4, <1>5, <1>6, <1>7, <1>8, <1>9, <1>10 DEF Next

(* The inductive invariant holds in every reachable state.                 *)
THEOREM InvThm == Spec => []Inv
<1>1. Init => Inv
  BY InvInit
<1>2. Inv /\ [Next]_vars => Inv'
  BY InvStep
<1> QED
  BY <1>1, <1>2, PTL DEF Spec

(* A live reader misses no frame and sees none twice: what ActivityTurn's  *)
(* stream() has yielded and what waits in its queue are the turn's frames, *)
(* whenever it subscribed (activity.py:280-298).                           *)
THEOREM LiveExactThm == Spec => []LiveExact
<1>1. Inv => LiveExact
  <2>1. ASSUME Inv, NEW r \in Readers, reader[r].pc = "live"
        PROVE  reader[r].got \o Frames(reader[r].queue) = turns[reader[r].turn].frames
    <3>1. /\ reader[r].turn \in DOMAIN turns
          /\ Follows(reader[r].got, reader[r].queue, turns[reader[r].turn].frames,
                     turns[reader[r].turn].done)
      BY <2>1 DEF Inv, Reading, FollowsTurn
    <3>2. turns[reader[r].turn].frames \in Seq(FrameSet)
      BY <2>1, <3>1, TurnFields
    <3> QED
      BY <3>1, <3>2, FollowsExact
  <2> QED
    BY <2>1 DEF LiveExact
<1> QED
  BY <1>1, InvThm, PTL

(* A turn says how it ended at most once, in its last frame, and a turn of *)
(* an Event that is done has said it, whether it finished, failed or was   *)
(* stopped in the middle of an emit (service.py:249-277, 323-340).         *)
THEOREM ConcludedOnceThm == Spec => []ConcludedOnce
<1>1. Inv => ConcludedOnce
  <2>1. ASSUME Inv, NEW k \in DOMAIN turns
        PROVE  /\ Ends(turns[k].frames) \subseteq {Len(turns[k].frames)}
               /\ (turns[k].done /\ turns[k].event # None) => Ends(turns[k].frames) # {}
    <3>1. Concluded(turns[k].frames, turns[k].done, turns[k].event) /\ turns[k].done \in BOOLEAN
      BY <2>1, TurnFields DEF Inv, Concluding
    <3> QED
      BY <3>1 DEF Concluded
  <2> QED
    BY <2>1 DEF ConcludedOnce, Ends
<1> QED
  BY <1>1, InvThm, PTL

-----------------------------------------------------------------------------
(* The story of a delegation.                                              *)

Ordered(fs, t) ==
  \A s \in 1 .. 4 : \A n \in Told(fs, t, s) :
    /\ \A later \in s .. 4 : \A m \in Told(fs, t, later) : n <= m
    /\ s > 1 => Told(fs, t, 1) # {}
    /\ s = 4 => Told(fs, t, 3) # {}

\* How far the story is when the collector has the delegation at st.
Stands(fs, t, st) ==
  /\ st = "none" => Told(fs, t, 1) = {} /\ Told(fs, t, 2) = {}
  /\ st \in {"none", "queued", "working"} => Told(fs, t, 3) = {} /\ Told(fs, t, 4) = {}
  /\ st = "queued" => Told(fs, t, 2) = {}
  /\ st # "none" => Told(fs, t, 1) # {}
  /\ st \in {"done", "failed", "timeout"} => Told(fs, t, 3) # {}

\* What the last turn has said and is about to say.
Said == turns[Len(turns)].frames \o pending

Stories ==
  /\ tasks \in [Tasks -> {"none", "queued", "working", "done", "failed", "timeout"}]
  /\ \A k \in DOMAIN turns, t \in Tasks : Ordered(turns[k].frames, t)
  /\ phase # "idle" =>
       \A t \in Tasks : /\ Ordered(Said, t)
                        /\ phase # "closing" => Stands(Said, t, tasks[t])

Mine(f, t) == f.task = t /\ f.kind # "work"

LEMMA ToldAppend ==
  ASSUME NEW fs \in Seq(FrameSet), NEW f \in FrameSet, NEW t
  PROVE  /\ Len(fs) \in Nat /\ Append(fs, f) \in Seq(FrameSet)
         /\ \A s \in 1 .. 4 :
              /\ Told(fs, t, s) \subseteq 1 .. Len(fs)
              /\ Told(Append(fs, f), t, s)
                   = IF Mine(f, t) /\ Stage(f) = s THEN Told(fs, t, s) \cup {Len(fs) + 1}
                     ELSE Told(fs, t, s)
<1>1. PICK n \in Nat : n = Len(fs)
  OBVIOUS
<1>2. PICK g \in Seq(FrameSet) :
        /\ g = Append(fs, f) /\ DOMAIN g = 1 .. n + 1 /\ g[n + 1] = f
        /\ \A i \in 1 .. n : g[i] = fs[i]
  <2>1. /\ Append(fs, f) \in Seq(FrameSet) /\ DOMAIN Append(fs, f) = 1 .. n + 1
        /\ Append(fs, f)[n + 1] = f
        /\ \A i \in 1 .. n : Append(fs, f)[i] = fs[i]
    BY <1>1
  <2> QED
    BY <2>1, Zenon
<1>3. DOMAIN fs = 1 .. n
  BY <1>1
<1>4. \A s \in 1 .. 4 : Told(fs, t, s) \subseteq 1 .. n
  BY <1>3 DEF Told
<1>5. ASSUME NEW s \in 1 .. 4
      PROVE  Told(g, t, s) = IF Mine(f, t) /\ Stage(f) = s THEN Told(fs, t, s) \cup {n + 1}
                             ELSE Told(fs, t, s)
  <2>1. \A i \in 1 .. n : i \in 1 .. n + 1 /\ (i \in Told(g, t, s) <=> i \in Told(fs, t, s))
    BY <1>2, <1>3 DEF Told
  <2>2. n + 1 \in Told(g, t, s) <=> Mine(f, t) /\ Stage(f) = s
    BY <1>2 DEF Told, Mine
  <2>3. Told(g, t, s) \subseteq 1 .. n + 1 /\ \A i \in 1 .. n + 1 : i \in 1 .. n \/ i = n + 1
    BY <1>2 DEF Told
  <2> QED
    BY <1>4, <2>1, <2>2, <2>3
<1> QED
  BY <1>1, <1>2, <1>4, <1>5

\* A frame of something else.
LEMMA OthersFrame ==
  ASSUME NEW fs \in Seq(FrameSet), NEW f \in FrameSet, NEW t, ~Mine(f, t)
  PROVE  /\ Ordered(fs, t) => Ordered(Append(fs, f), t)
         /\ \A st : Stands(fs, t, st) => Stands(Append(fs, f), t, st)
<1>1. \A s \in 1 .. 4 : Told(Append(fs, f), t, s) = Told(fs, t, s)
  BY ToldAppend
<1>2. \A s \in 1 .. 4 : s .. 4 \subseteq 1 .. 4
  OBVIOUS
<1>3. 1 \in 1 .. 4 /\ 2 \in 1 .. 4 /\ 3 \in 1 .. 4 /\ 4 \in 1 .. 4
  OBVIOUS
<1>4. Ordered(fs, t) => Ordered(Append(fs, f), t)
  BY <1>1, <1>2, <1>3 DEF Ordered
<1>5. \A st : Stands(fs, t, st) => Stands(Append(fs, f), t, st)
  BY <1>1, <1>3 DEF Stands
<1> QED
  BY <1>4, <1>5

\* The next frame of the story.
LEMMA NextFrame ==
  ASSUME NEW fs \in Seq(FrameSet), NEW f \in FrameSet, NEW t, Ordered(fs, t), Mine(f, t),
         NEW s \in 1 .. 4, Stage(f) = s,
         \A later \in s .. 4 : Told(fs, t, later) = {},
         s > 1 => Told(fs, t, 1) # {}, s = 4 => Told(fs, t, 3) # {}
  PROVE  Ordered(Append(fs, f), t)
<1>1. PICK n \in Nat : n = Len(fs)
  OBVIOUS
<1>2. /\ \A u \in 1 .. 4 : Told(fs, t, u) \subseteq 1 .. n
      /\ \A u \in 1 .. 4 : u # s => Told(Append(fs, f), t, u) = Told(fs, t, u)
      /\ Told(Append(fs, f), t, s) = {n + 1}
  <2>1. s \in s .. 4
    OBVIOUS
  <2> QED
    BY <1>1, <2>1, ToldAppend
<1>3. SUFFICES ASSUME NEW u \in 1 .. 4, NEW i \in Told(Append(fs, f), t, u)
               PROVE  /\ \A later \in u .. 4 : \A m \in Told(Append(fs, f), t, later) : i <= m
                      /\ u > 1 => Told(Append(fs, f), t, 1) # {}
                      /\ u = 4 => Told(Append(fs, f), t, 3) # {}
  BY DEF Ordered
<1>4. CASE u = s
  <2>1. i = n + 1
    BY <1>2, <1>3, <1>4
  <2>2. ASSUME NEW later \in u .. 4, NEW m \in Told(Append(fs, f), t, later)
        PROVE  m = n + 1
    <3>1. later \in 1 .. 4 /\ later \in s .. 4
      BY <1>4
    <3>2. later = s
      BY <1>2, <2>2, <3>1
    <3> QED
      BY <1>2, <2>2, <3>2
  <2>3. /\ u > 1 => Told(Append(fs, f), t, 1) # {}
        /\ u = 4 => Told(Append(fs, f), t, 3) # {}
    BY <1>2, <1>4
  <2> QED
    BY <2>1, <2>2, <2>3
<1>5. CASE u # s
  <2>1. i \in Told(fs, t, u) /\ i \in 1 .. n
    BY <1>2, <1>3, <1>5
  <2>2. ~(u \in s .. 4)
    BY <2>1
  <2>3. u < s
    BY <2>2
  <2>4. ASSUME NEW later \in u .. 4, NEW m \in Told(Append(fs, f), t, later)
        PROVE  i <= m
    <3>1. later \in 1 .. 4
      OBVIOUS
    <3>2. CASE later = s
      BY <1>2, <2>1, <2>4, <3>2
    <3>3. CASE later # s
      BY <1>2, <2>1, <2>4, <3>1, <3>3 DEF Ordered
    <3> QED
      BY <3>2, <3>3
  <2>5. u > 1 => Told(Append(fs, f), t, 1) # {}
    <3>1. SUFFICES ASSUME u > 1
                   PROVE  Told(Append(fs, f), t, 1) # {}
      OBVIOUS
    <3>2. Told(fs, t, 1) # {} /\ 1 # s
      BY <2>1, <2>3, <3>1 DEF Ordered
    <3> QED
      BY <1>2, <3>2
  <2>6. u # 4
    BY <2>3
  <2> QED
    BY <2>4, <2>5, <2>6
<1> QED
  BY <1>4, <1>5

\* A story told so far is a story.
LEMMA StoryPrefix ==
  ASSUME NEW fs \in Seq(FrameSet), NEW p \in Seq(FrameSet), NEW t, Ordered(fs \o p, t)
  PROVE  Ordered(fs, t)
<1>1. PICK n \in Nat : n = Len(fs) /\ DOMAIN fs = 1 .. n
  BY LenProperties
<1>2. /\ fs \o p \in Seq(FrameSet) /\ 1 .. n \subseteq DOMAIN (fs \o p)
      /\ \A i \in 1 .. n : (fs \o p)[i] = fs[i]
  <2>1. /\ fs \o p \in Seq(FrameSet) /\ Len(fs \o p) = Len(fs) + Len(p)
        /\ \A i \in 1 .. Len(fs) + Len(p) :
             (fs \o p)[i] = IF i <= Len(fs) THEN fs[i] ELSE p[i - Len(fs)]
    BY ConcatProperties
  <2>2. PICK q \in Nat : q = Len(p)
    OBVIOUS
  <2>3. DOMAIN (fs \o p) = 1 .. n + q
    BY <1>1, <2>1, <2>2
  <2> QED
    BY <1>1, <2>1, <2>2, <2>3
<1>3. \A s \in 1 .. 4 : Told(fs, t, s) = Told(fs \o p, t, s) \cap (1 .. n)
  BY <1>1, <1>2 DEF Told
<1>4. \A s \in 1 .. 4 : Told(fs \o p, t, s) \subseteq Nat \ {0}
  BY <1>2 DEF Told
<1>5. ASSUME NEW s \in 1 .. 4, NEW i \in Told(fs, t, s), NEW u \in 1 .. 4, u < s,
             Told(fs \o p, t, u) # {}
      PROVE  Told(fs, t, u) # {}
  <2>1. PICK m \in Told(fs \o p, t, u) : TRUE
    BY <1>5
  <2>2. s \in u .. 4 /\ i \in Told(fs \o p, t, s) /\ i \in 1 .. n
    BY <1>3, <1>5
  <2>3. m <= i
    BY <2>1, <2>2 DEF Ordered
  <2>4. m \in 1 .. n
    BY <1>4, <2>1, <2>2, <2>3
  <2> QED
    BY <1>3, <2>1, <2>4
<1>6. SUFFICES ASSUME NEW s \in 1 .. 4, NEW i \in Told(fs, t, s)
               PROVE  /\ \A later \in s .. 4 : \A m \in Told(fs, t, later) : i <= m
                      /\ s > 1 => Told(fs, t, 1) # {}
                      /\ s = 4 => Told(fs, t, 3) # {}
  BY DEF Ordered
<1>7. i \in Told(fs \o p, t, s)
  BY <1>3
<1>8. \A later \in s .. 4 : \A m \in Told(fs, t, later) : i <= m
  <2>1. \A later \in s .. 4 : later \in 1 .. 4
    OBVIOUS
  <2> QED
    BY <1>3, <1>7, <2>1 DEF Ordered
<1>9. /\ s > 1 => Told(fs \o p, t, 1) # {}
      /\ s = 4 => Told(fs \o p, t, 3) # {}
  BY <1>7 DEF Ordered
<1>10. s > 1 => Told(fs, t, 1) # {}
  <2>1. 1 \in 1 .. 4 /\ (s > 1 => 1 < s)
    OBVIOUS
  <2> QED
    BY <1>5, <1>9, <2>1
<1>11. s = 4 => Told(fs, t, 3) # {}
  <2>1. 3 \in 1 .. 4 /\ (s = 4 => 3 < s)
    OBVIOUS
  <2> QED
    BY <1>5, <1>9, <2>1
<1> QED
  BY <1>8, <1>10, <1>11

LEMMA ConcatFrames ==
  ASSUME NEW fs \in Seq(FrameSet), NEW f \in FrameSet, NEW g \in FrameSet
  PROVE  fs \o <<f>> = Append(fs, f) /\ fs \o <<f, g>> = Append(Append(fs, f), g)
<1>1. <<>> \in Seq(FrameSet) /\ <<f>> \in Seq(FrameSet)
  OBVIOUS
<1>2. Append(<<>>, f) = <<f>> /\ Append(<<f>>, g) = <<f, g>>
  <2>1. PICK a \in Seq(FrameSet) : a = <<f>> /\ Len(a) = 1 /\ a[1] = f
    <3>1. <<f>> \in Seq(FrameSet) /\ Len(<<f>>) = 1 /\ <<f>>[1] = f
      OBVIOUS
    <3> QED
      BY <3>1, Zenon
  <2>2. PICK b \in Seq(FrameSet) : b = <<f, g>> /\ Len(b) = 2 /\ b[1] = f /\ b[2] = g
    <3>1. /\ <<f, g>> \in Seq(FrameSet) /\ Len(<<f, g>>) = 2
          /\ <<f, g>>[1] = f /\ <<f, g>>[2] = g
      OBVIOUS
    <3> QED
      BY <3>1, Zenon
  <2>3. PICK e \in Seq(FrameSet) : e = <<>> /\ Len(e) = 0
    BY <1>1, EmptySeq
  <2>4. Append(e, f) = a
    <3>1. Append(e, f) \in Seq(FrameSet) /\ Len(Append(e, f)) = 1 /\ Append(e, f)[1] = f
      BY <2>3
    <3>2. \A i \in 1 .. 1 : Append(e, f)[i] = a[i]
      BY <2>1, <3>1
    <3> QED
      BY <2>1, <3>1, <3>2, SeqEqual
  <2>5. Append(a, g) = b
    <3>1. /\ Append(a, g) \in Seq(FrameSet) /\ Len(Append(a, g)) = 2
          /\ Append(a, g)[1] = f /\ Append(a, g)[2] = g
      BY <2>1
    <3>2. \A i \in 1 .. 2 : Append(a, g)[i] = b[i]
      BY <2>2, <3>1
    <3> QED
      BY <2>2, <3>1, <3>2, SeqEqual
  <2> QED
    BY <2>1, <2>2, <2>3, <2>4, <2>5
<1>3. fs \o Append(<<>>, f) = Append(fs \o <<>>, f)
  BY <1>1, AppendBehind
<1>4. fs \o Append(<<f>>, g) = Append(fs \o <<f>>, g)
  BY <1>1, AppendBehind
<1>5. fs \o <<>> = fs
  BY EmptyBehind
<1> QED
  BY <1>2, <1>3, <1>4, <1>5

\* Which frames are a delegation's, and how far they take its story.
LEMMA StoryFrames ==
  ASSUME NEW t \in Tasks
  PROVE  /\ \A kind \in Kinds, st \in Statuses : ~Mine(Frame(kind, None, st), t)
         /\ \A u \in Tasks \cup {None} : ~Mine(Work(u), t)
         /\ \A kind \in Kinds \ {"work"}, st \in Statuses :
              /\ Mine(Frame(kind, t, st), t)
              /\ \A u \in Tasks \ {t} : ~Mine(Frame(kind, t, st), u)
         /\ Stage(Frame("task_started", t, "queued")) = 1
         /\ Stage(Frame("task_started", t, "working")) = 2
         /\ \A st \in {"done", "failed", "timeout"} :
              /\ Stage(Frame("task_finished", t, st)) = 3
              /\ Stage(Frame("task_failed", t, st)) = 3
         /\ Stage(TaskReport(t)) = 4
<1>1. None # t
  BY FeedAssumption
<1>2. \A kind, u, st : /\ Frame(kind, u, st).kind = kind /\ Frame(kind, u, st).task = u
                       /\ Frame(kind, u, st).status = st
  BY DEF Frame
<1>3. \A kind, st : kind # "task_report" => Frame(kind, t, st) # TaskReport(t)
  BY <1>2 DEF TaskReport
<1>4. /\ Stage(Frame("task_started", t, "queued")) = 1
      /\ Stage(Frame("task_started", t, "working")) = 2
  BY <1>2, <1>3 DEF Stage
<1>5. \A st \in {"done", "failed", "timeout"} :
        /\ Stage(Frame("task_finished", t, st)) = 3
        /\ Stage(Frame("task_failed", t, st)) = 3
  BY <1>2, <1>3 DEF Stage
<1>6. Stage(TaskReport(t)) = 4
  BY <1>2 DEF Stage, TaskReport
<1> QED
  BY <1>1, <1>2, <1>4, <1>5, <1>6 DEF Mine, Work

\* The story while the stream is read.
LEMMA StoryHere ==
  ASSUME Inv, Stories, phase = "streaming", pending = <<>>
  PROVE  \E fs \in Seq(FrameSet) :
           /\ fs = turns[Len(turns)].frames
           /\ \A t \in Tasks : Ordered(fs, t) /\ Stands(fs, t, tasks[t])
<1>1. PICK fs \in Seq(FrameSet) : fs = turns[Len(turns)].frames
  BY TurnFields
<1>2. Said = fs
  BY <1>1, EmptyBehind DEF Said
<1> QED
  BY <1>1, <1>2 DEF Stories

LEMMA StoryChunk ==
  ASSUME Inv, Stories, NEW p, TakesChunk(p),
         tasks' \in [Tasks -> {"none", "queued", "working", "done", "failed", "timeout"}],
         \A t \in Tasks : /\ Ordered(turns[Len(turns)].frames \o p, t)
                          /\ Stands(turns[Len(turns)].frames \o p, t, tasks'[t])
  PROVE  Stories'
<1>1. phase = "streaming" /\ pending' = p /\ UNCHANGED <<turns, phase>>
  BY DEF TakesChunk
<1>2. Said' = turns[Len(turns)].frames \o p
  BY <1>1 DEF Said
<1>3. \A t \in Tasks : Ordered(Said', t) /\ Stands(Said', t, tasks'[t])
  BY <1>2
<1>4. \A k \in DOMAIN turns', t \in Tasks : Ordered(turns'[k].frames, t)
  BY <1>1 DEF Stories
<1> QED
  BY <1>1, <1>3, <1>4 DEF Stories

\* A delegation tells its next stage; nobody else's story goes on.
LEMMA Tells ==
  ASSUME NEW fs \in Seq(FrameSet), NEW t \in Tasks, NEW f \in FrameSet, NEW s \in 1 .. 4,
         NEW old \in [Tasks -> {"none", "queued", "working", "done", "failed", "timeout"}],
         \A u \in Tasks : Ordered(fs, u) /\ Stands(fs, u, old[u]),
         Mine(f, t), \A u \in Tasks \ {t} : ~Mine(f, u), Stage(f) = s,
         NEW st \in {"queued", "working", "done", "failed", "timeout"},
         \/ s = 1 /\ old[t] = "none" /\ st = "queued"
         \/ s = 2 /\ old[t] = "queued" /\ st = "working"
         \/ s = 3 /\ old[t] \in {"queued", "working"} /\ st \in {"done", "failed", "timeout"}
         \/ s = 4 /\ old[t] \in {"done", "failed", "timeout"} /\ st = old[t] /\ Told(fs, t, 4) = {}
  PROVE  \A u \in Tasks : /\ Ordered(Append(fs, f), u)
                          /\ Stands(Append(fs, f), u, [old EXCEPT ![t] = st][u])
<1>1. ASSUME NEW u \in Tasks, u # t
      PROVE  /\ Ordered(Append(fs, f), u)
             /\ Stands(Append(fs, f), u, [old EXCEPT ![t] = st][u])
  <2>1. [old EXCEPT ![t] = st][u] = old[u]
    BY <1>1
  <2> QED
    BY <1>1, <2>1, OthersFrame
<1>2. Stands(fs, t, old[t]) /\ Ordered(fs, t) /\ [old EXCEPT ![t] = st][t] = st
  OBVIOUS
<1>3. /\ \A u \in 1 .. 4 : u # s => Told(Append(fs, f), t, u) = Told(fs, t, u)
      /\ Told(Append(fs, f), t, s) # {}
  <2>1. \A u \in 1 .. 4 : Told(Append(fs, f), t, u)
          = IF Mine(f, t) /\ Stage(f) = u THEN Told(fs, t, u) \cup {Len(fs) + 1} ELSE Told(fs, t, u)
    BY ToldAppend
  <2> QED
    BY <2>1
<1>4. ASSUME s = 1 /\ old[t] = "none" /\ st = "queued"
      PROVE  Ordered(Append(fs, f), t) /\ Stands(Append(fs, f), t, st)
  <2>1. Told(fs, t, 1) = {} /\ Told(fs, t, 2) = {} /\ Told(fs, t, 3) = {} /\ Told(fs, t, 4) = {}
    BY <1>2, <1>4 DEF Stands
  <2>2. \A later \in s .. 4 : Told(fs, t, later) = {}
    <3>1. \A later \in s .. 4 : later = 1 \/ later = 2 \/ later = 3 \/ later = 4
      BY <1>4
    <3> QED
      BY <2>1, <3>1
  <2>3. Ordered(Append(fs, f), t)
    BY <1>2, <1>4, <2>2, NextFrame
  <2>4. Stands(Append(fs, f), t, "queued")
    BY <1>3, <1>4, <2>1 DEF Stands
  <2> QED
    BY <1>4, <2>3, <2>4
<1>5. ASSUME s = 2 /\ old[t] = "queued" /\ st = "working"
      PROVE  Ordered(Append(fs, f), t) /\ Stands(Append(fs, f), t, st)
  <2>1. Told(fs, t, 1) # {} /\ Told(fs, t, 2) = {} /\ Told(fs, t, 3) = {} /\ Told(fs, t, 4) = {}
    BY <1>2, <1>5 DEF Stands
  <2>2. \A later \in s .. 4 : Told(fs, t, later) = {}
    <3>1. \A later \in s .. 4 : later = 2 \/ later = 3 \/ later = 4
      BY <1>5
    <3> QED
      BY <2>1, <3>1
  <2>3. Ordered(Append(fs, f), t)
    BY <1>2, <1>5, <2>1, <2>2, NextFrame
  <2>4. Stands(Append(fs, f), t, "working")
    BY <1>3, <1>5, <2>1 DEF Stands
  <2> QED
    BY <1>5, <2>3, <2>4
<1>6. ASSUME s = 3 /\ old[t] \in {"queued", "working"} /\ st \in {"done", "failed", "timeout"}
      PROVE  Ordered(Append(fs, f), t) /\ Stands(Append(fs, f), t, st)
  <2>1. Told(fs, t, 1) # {} /\ Told(fs, t, 3) = {} /\ Told(fs, t, 4) = {}
    BY <1>2, <1>6 DEF Stands
  <2>2. \A later \in s .. 4 : Told(fs, t, later) = {}
    <3>1. \A later \in s .. 4 : later = 3 \/ later = 4
      BY <1>6
    <3> QED
      BY <2>1, <3>1
  <2>3. Ordered(Append(fs, f), t)
    BY <1>2, <1>6, <2>1, <2>2, NextFrame
  <2>4. Stands(Append(fs, f), t, st)
    BY <1>3, <1>6, <2>1 DEF Stands
  <2> QED
    BY <2>3, <2>4
<1>7. ASSUME /\ s = 4 /\ old[t] \in {"done", "failed", "timeout"} /\ st = old[t]
             /\ Told(fs, t, 4) = {}
      PROVE  Ordered(Append(fs, f), t) /\ Stands(Append(fs, f), t, st)
  <2>1. Told(fs, t, 1) # {} /\ Told(fs, t, 3) # {}
    BY <1>2, <1>7 DEF Stands
  <2>2. \A later \in s .. 4 : Told(fs, t, later) = {}
    <3>1. \A later \in s .. 4 : later = 4
      BY <1>7
    <3> QED
      BY <1>7, <3>1
  <2>3. Ordered(Append(fs, f), t)
    BY <1>2, <1>7, <2>1, <2>2, NextFrame
  <2>4. Stands(Append(fs, f), t, st)
    BY <1>3, <1>7, <2>1 DEF Stands
  <2> QED
    BY <2>3, <2>4
<1>8. /\ Ordered(Append(fs, f), t)
      /\ Stands(Append(fs, f), t, [old EXCEPT ![t] = st][t])
  BY <1>2, <1>4, <1>5, <1>6, <1>7
<1> QED
  BY <1>1, <1>8

TaskStates == {"none", "queued", "working", "done", "failed", "timeout"}

\* A frame nobody's story is about.
LEMMA TellsNothing ==
  ASSUME NEW fs \in Seq(FrameSet), NEW f \in FrameSet, \A u \in Tasks : ~Mine(f, u),
         NEW old, \A u \in Tasks : Ordered(fs, u) /\ Stands(fs, u, old[u])
  PROVE  \A u \in Tasks : Ordered(Append(fs, f), u) /\ Stands(Append(fs, f), u, old[u])
BY OthersFrame

LEMMA StoryLead ==
  ASSUME Inv, Stories, LeadChunk
  PROVE  Stories'
<1>1. TakesChunk(LeadUpdate) /\ tasks' = tasks /\ phase = "streaming" /\ pending = <<>>
  BY DEF LeadChunk, TakesChunk
<1>2. PICK fs \in Seq(FrameSet) :
        /\ fs = turns[Len(turns)].frames
        /\ \A t \in Tasks : Ordered(fs, t) /\ Stands(fs, t, tasks[t])
  BY <1>1, StoryHere
<1>3. PICK f \in FrameSet, g \in FrameSet :
        f = Work(None) /\ g = Frame("node", None, "done")
  <2>1. "node" \in Kinds /\ None \in Tasks \cup {None} /\ "done" \in Statuses
    BY DEF Kinds, Statuses
  <2> QED
    BY <2>1, FrameIn
<1>4. \A u \in Tasks : ~Mine(f, u) /\ ~Mine(g, u)
  <2>1. "node" \in Kinds /\ None \in Tasks \cup {None} /\ "done" \in Statuses
    BY DEF Kinds, Statuses
  <2> QED
    BY <1>3, <2>1, StoryFrames
<1>5. fs \o LeadUpdate = Append(Append(fs, f), g) /\ Append(fs, f) \in Seq(FrameSet)
  BY <1>3, ConcatFrames DEF LeadUpdate
<1>6. \A u \in Tasks : Ordered(Append(fs, f), u) /\ Stands(Append(fs, f), u, tasks[u])
  BY <1>2, <1>4, TellsNothing
<1>7. \A u \in Tasks : /\ Ordered(Append(Append(fs, f), g), u)
                       /\ Stands(Append(Append(fs, f), g), u, tasks[u])
  BY <1>4, <1>5, <1>6, TellsNothing
<1>8. tasks' \in [Tasks -> TaskStates]
  BY <1>1 DEF Stories, TaskStates
<1> QED
  BY <1>1, <1>2, <1>5, <1>7, <1>8, StoryChunk DEF TaskStates

LEMMA StoryReport ==
  ASSUME Inv, Stories, NEW t \in Tasks, ReportChunk(t)
  PROVE  Stories'
<1>1. /\ TakesChunk(<<TaskReport(t), Frame("node", None, "done")>>)
      /\ tasks' = tasks /\ phase = "streaming" /\ pending = <<>>
      /\ tasks[t] \in {"done", "failed", "timeout"}
      /\ \A n \in DOMAIN turns[Len(turns)].frames : turns[Len(turns)].frames[n] # TaskReport(t)
  BY DEF ReportChunk, TakesChunk, Current
<1>2. PICK fs \in Seq(FrameSet) :
        /\ fs = turns[Len(turns)].frames
        /\ \A u \in Tasks : Ordered(fs, u) /\ Stands(fs, u, tasks[u])
  BY <1>1, StoryHere
<1>3. PICK f \in FrameSet, g \in FrameSet :
        f = TaskReport(t) /\ g = Frame("node", None, "done")
  <2>1. /\ "node" \in Kinds /\ None \in Tasks \cup {None} /\ "done" \in Statuses
        /\ "task_report" \in Kinds /\ None \in Statuses
    BY DEF Kinds, Statuses
  <2> QED
    BY <2>1, FrameIn DEF TaskReport
<1>4. Told(fs, t, 4) = {}
  <2>1. ASSUME NEW n \in DOMAIN fs, fs[n].task = t, Stage(fs[n]) = 4
        PROVE  FALSE
    <3>1. fs[n] # TaskReport(fs[n].task)
      BY <1>1, <1>2, <2>1
    <3>2. Stage(fs[n]) \in {1, 2, 3}
      BY <3>1 DEF Stage
    <3> QED
      BY <2>1, <3>2
  <2> QED
    BY <2>1 DEF Told
<1>5. /\ Mine(f, t) /\ Stage(f) = 4 /\ \A u \in Tasks \ {t} : ~Mine(f, u)
      /\ \A u \in Tasks : ~Mine(g, u)
  <2>1. /\ "node" \in Kinds /\ None \in Tasks \cup {None} /\ "done" \in Statuses
        /\ "task_report" \in Kinds \ {"work"} /\ None \in Statuses
    BY DEF Kinds, Statuses
  <2>2. Mine(f, t) /\ \A u \in Tasks \ {t} : ~Mine(f, u)
    BY <1>3, <2>1, StoryFrames DEF TaskReport
  <2>3. \A u \in Tasks : ~Mine(g, u)
    BY <1>3, <2>1, StoryFrames
  <2>4. Stage(f) = 4
    BY <1>3, StoryFrames
  <2> QED
    BY <2>2, <2>3, <2>4
<1>6. tasks \in [Tasks -> TaskStates] /\ [tasks EXCEPT ![t] = tasks[t]] = tasks
  BY DEF Stories, TaskStates
<1>7. \A u \in Tasks : Ordered(Append(fs, f), u) /\ Stands(Append(fs, f), u, tasks[u])
  <2>1. 4 \in 1 .. 4 /\ tasks[t] \in {"queued", "working", "done", "failed", "timeout"}
    BY <1>1
  <2>2. \A u \in Tasks : /\ Ordered(Append(fs, f), u)
                         /\ Stands(Append(fs, f), u, [tasks EXCEPT ![t] = tasks[t]][u])
    BY <1>1, <1>2, <1>4, <1>5, <1>6, <2>1, Tells DEF TaskStates
  <2> QED
    BY <1>6, <2>2
<1>8. /\ fs \o <<TaskReport(t), Frame("node", None, "done")>> = Append(Append(fs, f), g)
      /\ Append(fs, f) \in Seq(FrameSet)
  BY <1>3, ConcatFrames
<1>9. \A u \in Tasks : /\ Ordered(Append(Append(fs, f), g), u)
                       /\ Stands(Append(Append(fs, f), g), u, tasks[u])
  BY <1>5, <1>7, <1>8, TellsNothing
<1> QED
  BY <1>1, <1>2, <1>6, <1>8, <1>9, StoryChunk DEF TaskStates

LEMMA StoryTask ==
  ASSUME Inv, Stories, NEW t \in Tasks, TaskChunk(t)
  PROVE  Stories'
<1>1. phase = "streaming" /\ pending = <<>> /\ tasks \in [Tasks -> TaskStates]
  BY DEF TaskChunk, TakesChunk, Stories, TaskStates
<1>2. PICK fs \in Seq(FrameSet) :
        /\ fs = turns[Len(turns)].frames
        /\ \A u \in Tasks : Ordered(fs, u) /\ Stands(fs, u, tasks[u])
  BY <1>1, StoryHere
<1>3. ASSUME NEW f \in FrameSet, NEW kind \in Kinds \ {"work"}, NEW st \in Statuses,
             f = Frame(kind, t, st)
      PROVE  Mine(f, t) /\ \A u \in Tasks \ {t} : ~Mine(f, u)
  BY <1>3, StoryFrames
<1>4. CASE /\ tasks[t] = "none" /\ TakesChunk(TaskStarted(t))
           /\ tasks' = [tasks EXCEPT ![t] = "queued"]
  <2>1. "task_started" \in Kinds \ {"work"} /\ "queued" \in Statuses
    BY DEF Kinds, Statuses
  <2>2. PICK f \in FrameSet : f = Frame("task_started", t, "queued")
    BY <2>1, FrameIn
  <2>3. Mine(f, t) /\ (\A u \in Tasks \ {t} : ~Mine(f, u)) /\ Stage(f) = 1
    BY <1>3, <2>1, <2>2, StoryFrames
  <2>4. \A u \in Tasks : Ordered(Append(fs, f), u) /\ Stands(Append(fs, f), u, tasks'[u])
    BY <1>1, <1>2, <1>4, <2>3, Tells DEF TaskStates
  <2>5. fs \o TaskStarted(t) = Append(fs, f)
    BY <2>2, ConcatFrames DEF TaskStarted
  <2>6. tasks' \in [Tasks -> TaskStates]
    BY <1>1, <1>4 DEF TaskStates
  <2> QED
    BY <1>2, <1>4, <2>4, <2>5, <2>6, StoryChunk DEF TaskStates
<1>5. CASE /\ tasks[t] \in {"queued", "working"} /\ TakesChunk(TaskRunning(t))
           /\ tasks' = [tasks EXCEPT ![t] = "working"]
  <2>1. "task_started" \in Kinds \ {"work"} /\ "working" \in Statuses
    BY DEF Kinds, Statuses
  <2>2. PICK f \in FrameSet, w \in FrameSet : f = Frame("task_started", t, "working") /\ w = Work(t)
    BY <2>1, FrameIn
  <2>3. Mine(f, t) /\ (\A u \in Tasks \ {t} : ~Mine(f, u)) /\ Stage(f) = 2
    BY <1>3, <2>1, <2>2, StoryFrames
  <2>4. \A u \in Tasks : ~Mine(w, u)
    BY <2>2, StoryFrames
  <2>5. tasks' \in [Tasks -> TaskStates]
    BY <1>1, <1>5 DEF TaskStates
  <2>6. CASE tasks[t] = "queued"
    <3>1. \A u \in Tasks : Ordered(Append(fs, f), u) /\ Stands(Append(fs, f), u, tasks'[u])
      BY <1>1, <1>2, <1>5, <2>3, <2>6, Tells DEF TaskStates
    <3>2. Append(fs, f) \in Seq(FrameSet)
      OBVIOUS
    <3>3. \A u \in Tasks : /\ Ordered(Append(Append(fs, f), w), u)
                           /\ Stands(Append(Append(fs, f), w), u, tasks'[u])
      BY <2>4, <3>1, <3>2, TellsNothing
    <3>4. fs \o TaskRunning(t) = Append(Append(fs, f), w)
      <4>1. TaskRunning(t) = <<f, w>>
        BY <2>2, <2>6, Pairs DEF TaskRunning
      <4> QED
        BY <4>1, ConcatFrames
    <3> QED
      BY <1>2, <1>5, <2>5, <3>3, <3>4, StoryChunk DEF TaskStates
  <2>7. CASE tasks[t] = "working"
    <3>1. tasks' = tasks
      BY <1>1, <1>5, <2>7
    <3>2. \A u \in Tasks : Ordered(Append(fs, w), u) /\ Stands(Append(fs, w), u, tasks'[u])
      BY <1>2, <2>4, <3>1, TellsNothing
    <3>3. fs \o TaskRunning(t) = Append(fs, w)
      <4>1. TaskRunning(t) = <<w>>
        BY <2>2, <2>7, Pairs DEF TaskRunning
      <4> QED
        BY <4>1, ConcatFrames
    <3> QED
      BY <1>2, <1>5, <2>5, <3>2, <3>3, StoryChunk DEF TaskStates
  <2> QED
    BY <1>5, <2>6, <2>7
<1>6. ASSUME NEW st \in {"done", "failed", "timeout"},
             tasks[t] \in {"queued", "working"}, TakesChunk(TaskEnded(t, st)),
             tasks' = [tasks EXCEPT ![t] = st]
      PROVE  Stories'
  <2>1. PICK kind \in {"task_finished", "task_failed"} :
          kind = IF st = "done" THEN "task_finished" ELSE "task_failed"
    OBVIOUS
  <2>2. kind \in Kinds \ {"work"} /\ st \in Statuses
    BY DEF Kinds, Statuses
  <2>3. PICK f \in FrameSet : f = Frame(kind, t, st)
    BY <2>2, FrameIn
  <2>4. Mine(f, t) /\ (\A u \in Tasks \ {t} : ~Mine(f, u)) /\ Stage(f) = 3
    BY <1>3, <2>2, <2>3, StoryFrames
  <2>5. \A u \in Tasks : Ordered(Append(fs, f), u) /\ Stands(Append(fs, f), u, tasks'[u])
    BY <1>1, <1>2, <1>6, <2>4, Tells DEF TaskStates
  <2>6. fs \o TaskEnded(t, st) = Append(fs, f)
    BY <2>1, <2>3, ConcatFrames DEF TaskEnded
  <2>7. tasks' \in [Tasks -> TaskStates]
    BY <1>1, <1>6 DEF TaskStates
  <2> QED
    BY <1>2, <1>6, <2>5, <2>6, <2>7, StoryChunk DEF TaskStates
<1> QED
  BY <1>4, <1>5, <1>6 DEF TaskChunk

LEMMA StoryEmpty ==
  ASSUME NEW t
  PROVE  Ordered(<<>>, t) /\ Stands(<<>>, t, "none")
<1>1. \A s : Told(<<>>, t, s) = {}
  BY DEF Told
<1> QED
  BY <1>1 DEF Ordered, Stands

LEMMA StoryBegin ==
  ASSUME Inv, Inv', Stories, NEW event \in Events \cup {None}, Begin(event)
  PROVE  Stories'
<1>1. PICK turn :
        /\ turns' = Append(turns, turn) /\ turn.frames = <<>>
        /\ phase' = "opening" /\ tasks' = [t \in Tasks |-> "none"]
        /\ pending' = <<Frame("run_started", None, None)>>
                        \o (IF event = None THEN <<Frame("chat_user", None, None)>> ELSE <<>>)
  BY DEF Begin
<1>2. PICK n \in Nat : n = Len(turns) /\ DOMAIN turns = 1 .. n
  BY TurnFields
<1>3. /\ Len(turns') = n + 1 /\ DOMAIN turns' = 1 .. n + 1
      /\ turns'[n + 1] = turn /\ \A k \in 1 .. n : turns'[k] = turns[k]
  BY <1>1, <1>2 DEF Inv, Turning
<1>4. "run_started" \in Kinds /\ "chat_user" \in Kinds /\ None \in Statuses /\ None \in Tasks \cup {None}
  BY DEF Kinds, Statuses
<1>5. PICK f \in FrameSet, g \in FrameSet :
        f = Frame("run_started", None, None) /\ g = Frame("chat_user", None, None)
  BY <1>4, FrameIn
<1>6. \A t \in Tasks : ~Mine(f, t) /\ ~Mine(g, t)
  BY <1>4, <1>5, StoryFrames
<1>7e. PICK e \in Seq(FrameSet) : e = <<>>
  BY EmptySeq
<1>7a. PICK a \in Seq(FrameSet) : a = Append(e, f)
  BY AppendProperties
<1>7b. PICK b \in Seq(FrameSet) : b = Append(a, g)
  BY AppendProperties
<1>7. e = <<>> /\ a = Append(e, f) /\ b = Append(a, g)
  BY <1>7e, <1>7a, <1>7b
<1>8. Said' = a \/ Said' = b
  <2>1. turns'[Len(turns')].frames = <<>> /\ pending' \in Seq(FrameSet)
    BY <1>1, <1>3 DEF Inv, Turning
  <2>2. Said' = pending'
    BY <2>1, EmptyBehind DEF Said
  <2>3. e \o <<f>> = a /\ e \o <<f, g>> = b
    BY <1>7, ConcatFrames
  <2>4. <<f>> \in Seq(FrameSet) /\ <<f, g>> \in Seq(FrameSet)
    OBVIOUS
  <2>5. e \o <<f>> = <<f>> /\ e \o <<f, g>> = <<f, g>>
    BY <1>7, <2>4, EmptyBehind
  <2>6. <<f>> \o <<g>> = <<f, g>> /\ <<f>> \o <<>> = <<f>>
    BY <2>4, Pairs, EmptyBehind
  <2>7. pending' = <<f, g>> \/ pending' = <<f>>
    BY <1>1, <1>5, <2>6
  <2> QED
    BY <2>2, <2>3, <2>5, <2>7
<1>9. \A t \in Tasks : Ordered(e, t) /\ Stands(e, t, tasks'[t])
  BY <1>1, <1>7, StoryEmpty
<1>10. \A t \in Tasks : Ordered(a, t) /\ Stands(a, t, tasks'[t])
  BY <1>6, <1>7, <1>9, TellsNothing
<1>11. \A t \in Tasks : Ordered(b, t) /\ Stands(b, t, tasks'[t])
  BY <1>6, <1>7, <1>10, TellsNothing
<1>12. \A k \in DOMAIN turns', t \in Tasks : Ordered(turns'[k].frames, t)
  <2>1. \A k \in DOMAIN turns' : k \in 1 .. n \/ k = n + 1
    BY <1>3
  <2>2. \A k \in 1 .. n, t \in Tasks : Ordered(turns'[k].frames, t)
    BY <1>2, <1>3 DEF Stories
  <2>3. \A t \in Tasks : Ordered(turns'[n + 1].frames, t)
    BY <1>1, <1>3, StoryEmpty
  <2> QED
    BY <2>1, <2>2, <2>3
<1>13. \A t \in Tasks : Ordered(Said', t) /\ Stands(Said', t, tasks'[t])
  BY <1>8, <1>10, <1>11
<1>14. tasks' \in [Tasks -> TaskStates]
  BY <1>1 DEF TaskStates
<1> QED
  BY <1>1, <1>12, <1>13, <1>14 DEF Stories, TaskStates

\* A step that publishes nothing, and after which nothing more is said.
LEMMA StoryIdle ==
  ASSUME Stories, tasks' = tasks, phase' = "idle", DOMAIN turns' = DOMAIN turns,
         \A k \in DOMAIN turns : turns'[k].frames = turns[k].frames
  PROVE  Stories'
BY DEF Stories

\* A step that leaves what is said alone.
LEMMA StoryKept ==
  ASSUME Stories, UNCHANGED <<tasks, phase, pending>>, DOMAIN turns' = DOMAIN turns,
         Len(turns') = Len(turns), phase # "idle" => Len(turns) \in DOMAIN turns,
         \A k \in DOMAIN turns : turns'[k].frames = turns[k].frames
  PROVE  Stories'
<1>1. phase # "idle" => Said' = Said
  BY DEF Said
<1>2. \A k \in DOMAIN turns', t \in Tasks : Ordered(turns'[k].frames, t)
  BY DEF Stories
<1> QED
  BY <1>1, <1>2 DEF Stories

LEMMA StoryConcludes ==
  ASSUME Inv, Stories, NEW p, Concludes(p),
         \E f, g \in FrameSet : /\ p = <<f>> \/ p = <<f, g>>
                                /\ \A t \in Tasks : ~Mine(f, t) /\ ~Mine(g, t)
  PROVE  Stories'
<1>1. /\ phase = "streaming" /\ phase' = "closing" /\ pending' = p /\ UNCHANGED <<turns, tasks>>
  BY DEF Concludes
<1>2. PICK fs \in Seq(FrameSet) : fs = turns[Len(turns)].frames
  BY <1>1, TurnFields
<1>3. pending \in Seq(FrameSet)
  BY DEF Inv, Turning
<1>4. \A t \in Tasks : Ordered(fs, t)
  BY <1>1, <1>2, <1>3, StoryPrefix DEF Stories, Said
<1>5. PICK f \in FrameSet, g \in FrameSet : /\ p = <<f>> \/ p = <<f, g>>
                                            /\ \A t \in Tasks : ~Mine(f, t) /\ ~Mine(g, t)
  OBVIOUS
<1>6. Said' = Append(fs, f) \/ Said' = Append(Append(fs, f), g)
  <2>1. Said' = fs \o p
    BY <1>1, <1>2 DEF Said
  <2> QED
    BY <1>5, <2>1, ConcatFrames
<1>7. \A t \in Tasks : Ordered(Append(fs, f), t) /\ Append(fs, f) \in Seq(FrameSet)
  BY <1>4, <1>5, OthersFrame
<1>8. \A t \in Tasks : Ordered(Append(Append(fs, f), g), t)
  BY <1>5, <1>7, OthersFrame
<1>9. \A t \in Tasks : Ordered(Said', t)
  BY <1>6, <1>7, <1>8
<1>10. \A k \in DOMAIN turns', t \in Tasks : Ordered(turns'[k].frames, t)
  BY <1>1 DEF Stories
<1> QED
  BY <1>1, <1>9, <1>10 DEF Stories

LEMMA StoryEnding ==
  ASSUME Inv, Stories, Finishes \/ Fails \/ Stopped
  PROVE  Stories'
<1>1. /\ {"chat_agent", "run_finished", "run_failed"} \subseteq Kinds
      /\ None \in Statuses /\ None \in Tasks \cup {None}
  BY DEF Kinds, Statuses, Conclusion
<1>2. PICK a \in FrameSet, b \in FrameSet, c \in FrameSet :
        /\ a = Frame("chat_agent", None, None)
        /\ b = Frame("run_finished", None, None)
        /\ c = Frame("run_failed", None, None)
  BY <1>1, FrameIn
<1>3. \A t \in Tasks : ~Mine(a, t) /\ ~Mine(b, t) /\ ~Mine(c, t)
  BY <1>1, <1>2, StoryFrames
<1>4. <<a>> \o <<b>> = <<a, b>> /\ <<>> \o <<b>> = <<b>>
  BY Pairs
<1>5. Concludes(<<a, b>>) \/ Concludes(<<b>>) \/ Concludes(<<c>>)
  <2>1. CASE Finishes /\ IsChat /\ reply
    BY <1>2, <1>4, <2>1 DEF Finishes
  <2>2. CASE Finishes /\ ~(IsChat /\ reply)
    BY <1>2, <1>4, <2>2 DEF Finishes
  <2>3. CASE Fails \/ Stopped
    BY <1>2, <2>3 DEF Fails, Stopped
  <2> QED
    BY <2>1, <2>2, <2>3
<1> QED
  BY <1>3, <1>5, StoryConcludes

LEMMA StoryPublish ==
  ASSUME Inv, Stories, Publish
  PROVE  Stories'
<1>1. /\ sending /\ pending' = Tail(pending) /\ UNCHANGED tasks
      /\ phase' = IF phase = "opening" /\ Tail(pending) = <<>> THEN "streaming" ELSE phase
  BY DEF Publish
<1>2. pending # <<>> /\ pending \in Seq(FrameSet) /\ phase # "idle"
  BY <1>1 DEF Inv, Turning
<1>3. PICK n \in DOMAIN turns, fs \in Seq(FrameSet) :
        /\ n = Len(turns) /\ Len(turns') = n /\ DOMAIN turns' = DOMAIN turns
        /\ fs \o Tail(pending) = turns[n].frames \o pending
        /\ turns'[n].frames = fs /\ \A j \in DOMAIN turns \ {n} : turns'[j] = turns[j]
  BY PublishTurns
<1>4. Said' = Said /\ Said = fs \o Tail(pending)
  BY <1>1, <1>3 DEF Said
<1>5. Tail(pending) \in Seq(FrameSet)
  BY <1>2, HeadTailProperties
<1>6. \A t \in Tasks : Ordered(Said, t)
  BY <1>2 DEF Stories
<1>7. \A t \in Tasks : Ordered(fs, t)
  BY <1>4, <1>5, <1>6, StoryPrefix
<1>8. \A k \in DOMAIN turns', t \in Tasks : Ordered(turns'[k].frames, t)
  BY <1>3, <1>7 DEF Stories
<1>9. phase' # "idle" /\ (phase' # "closing" => phase # "closing")
  BY <1>1, <1>2 DEF Inv, Turning
<1> QED
  BY <1>1, <1>2, <1>4, <1>6, <1>8, <1>9 DEF Stories

LEMMA StoryCloses ==
  ASSUME Inv, Stories, Closes \/ ChatGone \/ ChatGoneEarly
  PROVE  Stories'
<1>1. CASE ChatGoneEarly
  BY <1>1, StoryIdle DEF ChatGoneEarly
<1>2. CASE Closes \/ ChatGone
  <2>1. CloseTurn /\ phase # "idle"
    BY <1>2 DEF Closes, ChatGone
  <2>2. tasks' = tasks /\ phase' = "idle"
    BY <2>1 DEF CloseTurn
  <2>3. PICK n \in DOMAIN turns :
          /\ DOMAIN turns' = DOMAIN turns /\ turns'[n].frames = turns[n].frames
          /\ \A j \in DOMAIN turns \ {n} : turns'[j] = turns[j]
    BY <2>1, CloseTurns
  <2> QED
    BY <2>2, <2>3, StoryIdle
<1> QED
  BY <1>1, <1>2

LEMMA StoryPersist ==
  ASSUME Inv, Stories, Persist
  PROVE  Stories'
<1>1. UNCHANGED <<tasks, phase, pending>>
  BY DEF Persist
<1>2. /\ Len(turns') = Len(turns) /\ DOMAIN turns' = DOMAIN turns
      /\ \A j \in DOMAIN turns : turns'[j].frames = turns[j].frames
  BY PersistTurns
<1> QED
  BY <1>1, <1>2, TurnFields, StoryKept

LEMMA StoriesInit ==
  ASSUME Init
  PROVE  Stories
<1>1. turns = <<>> /\ phase = "idle" /\ tasks = [t \in Tasks |-> "none"]
  BY DEF Init
<1>2. DOMAIN turns = {}
  BY <1>1
<1> QED
  BY <1>1, <1>2 DEF Stories

LEMMA StoriesStep ==
  ASSUME Inv, Inv', Stories, [Next]_vars
  PROVE  Stories'
<1>1. ASSUME NEW event \in Events \cup {None}, Begin(event)
      PROVE  Stories'
  BY <1>1, StoryBegin
<1>2. CASE Persist
  BY <1>2, StoryPersist
<1>3. CASE Publish
  BY <1>3, StoryPublish
<1>4. CASE LeadChunk
  BY <1>4, StoryLead
<1>5. ASSUME NEW t \in Tasks, TaskChunk(t) \/ ReportChunk(t)
      PROVE  Stories'
  BY <1>5, StoryTask, StoryReport
<1>6. CASE Finishes \/ Fails \/ Stopped
  BY <1>6, StoryEnding
<1>7. CASE Closes \/ ChatGone \/ ChatGoneEarly
  BY <1>7, StoryCloses
<1>8. CASE UNCHANGED turnVars
  <2>1. UNCHANGED <<turns, phase, pending, tasks>>
    BY <1>8 DEF turnVars
  <2> QED
    BY <2>1, TurnFields, StoryKept
<1>9. CASE UNCHANGED vars
  BY <1>8, <1>9 DEF vars
<1>10. ASSUME NEW r \in Readers, NEW want \in Events \cup {None}, Opens(r, want)
       PROVE  Stories'
  BY <1>8, <1>10 DEF Opens
<1>11. ASSUME NEW r \in Readers, ReadsJournal(r) \/ Takes(r) \/ RowsEnd(r) \/ Leaves(r)
       PROVE  Stories'
  BY <1>8, <1>11 DEF ReadsJournal, Takes, RowsEnd, Leaves
<1> QED
  BY <1>1, <1>2, <1>3, <1>4, <1>5, <1>6, <1>7, <1>9, <1>10, <1>11 DEF Next

(* The frames of a delegation tell its story in order: queued, working,    *)
(* its end, its report, each at most once and none without the ones it     *)
(* follows, in every turn's buffer at every moment: ActivityCollector      *)
(* announces a delegation at work once, and only from queued               *)
(* (activity.py:165-248).                                                  *)
THEOREM TaskStoryThm == Spec => []TaskStory
<1>1. Init => Inv /\ Stories
  BY InvInit, StoriesInit
<1>2. (Inv /\ Stories) /\ [Next]_vars => (Inv /\ Stories)'
  BY InvStep, StoriesStep
<1>3. Stories => TaskStory
  BY DEF Stories, TaskStory, Ordered
<1> QED
  BY <1>1, <1>2, <1>3, PTL DEF Spec

-----------------------------------------------------------------------------
(* The journal.                                                            *)

RowSet ==
  [id : Nat, turn : Nat, event : Events \cup {None}, seq : Nat, frame : FrameSet]

\* The rows of journal j are numbers the turns have taken, in order.
RowsInOrder(j, ts) ==
  /\ \A i \in DOMAIN j : j[i].turn \in DOMAIN ts /\ j[i].seq <= ts[j[i].turn].seq
  /\ \A i, l \in DOMAIN j : i < l /\ j[i].turn = j[l].turn => j[i].seq < j[l].seq

\* Of m numbers of turn k every frame is published, or every frame but one.
Whole(j, k, fs, m) ==
  Len(fs) = m /\ \A n \in DOMAIN fs : Logged(j, k, n, fs[n])

Buffered(j, k, fs, m) ==
  \E cut \in 1 .. m + 1 :
    /\ Len(fs) = IF cut > m THEN m ELSE m - 1
    /\ \A n \in DOMAIN fs : Logged(j, k, IF n < cut THEN n ELSE n + 1, fs[n])

\* Nothing has cut the last turn off: only a stop does, and it makes the
\* turn of an Event close.
Uncut(ph, event) == ph # "idle" /\ (ph # "closing" \/ event = None)

Journaled ==
  /\ journal \in Seq(RowSet) /\ faults \in Nat
  /\ RowsInOrder(journal, turns)
  /\ sending => turns[Len(turns)].seq > 0
  /\ faults = 0 =>
       /\ \A k \in DOMAIN turns : Buffered(journal, k, turns[k].frames, Numbered(k))
       /\ Len(turns) > 0 /\ Uncut(phase, turns[Len(turns)].event) =>
            Whole(journal, Len(turns), turns[Len(turns)].frames, Numbered(Len(turns)))
       /\ sending => Logged(journal, Len(turns), turns[Len(turns)].seq, Head(pending))

LEMMA LoggedKept ==
  ASSUME NEW j \in Seq(RowSet), NEW row \in RowSet, NEW k, NEW n, NEW f, Logged(j, k, n, f)
  PROVE  Logged(Append(j, row), k, n, f)
<1>1. \A i \in DOMAIN j : i \in DOMAIN Append(j, row) /\ Append(j, row)[i] = j[i]
  OBVIOUS
<1> QED
  BY <1>1 DEF Logged

LEMMA JournalGrows ==
  ASSUME NEW j \in Seq(RowSet), NEW row \in RowSet, NEW k, NEW fs, NEW m
  PROVE  /\ Buffered(j, k, fs, m) => Buffered(Append(j, row), k, fs, m)
         /\ Whole(j, k, fs, m) => Whole(Append(j, row), k, fs, m)
<1>1. \A n, f : Logged(j, k, n, f) => Logged(Append(j, row), k, n, f)
  BY LoggedKept
<1> QED
  BY <1>1 DEF Buffered, Whole

\* The next number is published.
LEMMA BufferGrows ==
  ASSUME NEW j, NEW k, NEW fs \in Seq(FrameSet), NEW m \in Nat, NEW f \in FrameSet,
         Logged(j, k, m + 1, f)
  PROVE  /\ Buffered(j, k, fs, m) => Buffered(j, k, Append(fs, f), m + 1)
         /\ Whole(j, k, fs, m) => Whole(j, k, Append(fs, f), m + 1)
<1>1. PICK l \in Nat : l = Len(fs) /\ DOMAIN fs = 1 .. l
  BY LenProperties
<1>2. PICK gs : gs = Append(fs, f)
  OBVIOUS
<1>3. Len(gs) = l + 1 /\ DOMAIN gs = 1 .. l + 1 /\ gs[l + 1] = f /\ \A n \in 1 .. l : gs[n] = fs[n]
  BY <1>1, <1>2
<1>4. ASSUME Whole(j, k, fs, m)
      PROVE  Whole(j, k, gs, m + 1)
  <2>1. l = m /\ \A n \in 1 .. l : Logged(j, k, n, fs[n])
    BY <1>1, <1>4 DEF Whole
  <2>2. \A n \in 1 .. l + 1 : n \in 1 .. l \/ n = l + 1
    OBVIOUS
  <2>3. \A n \in 1 .. l + 1 : Logged(j, k, n, gs[n])
    BY <1>3, <2>1, <2>2
  <2> QED
    BY <1>3, <2>1, <2>3 DEF Whole
<1>5. ASSUME Buffered(j, k, fs, m)
      PROVE  Buffered(j, k, gs, m + 1)
  <2>1. PICK cut \in 1 .. m + 1 :
          /\ l = IF cut > m THEN m ELSE m - 1
          /\ \A n \in 1 .. l : Logged(j, k, IF n < cut THEN n ELSE n + 1, fs[n])
    BY <1>1, <1>5 DEF Buffered
  <2>2. PICK new \in 1 .. (m + 1) + 1 : new = IF cut > m THEN cut + 1 ELSE cut
    OBVIOUS
  <2>3. Len(gs) = IF new > m + 1 THEN m + 1 ELSE (m + 1) - 1
    BY <1>3, <2>1, <2>2
  <2>4. \A n \in 1 .. l + 1 : n \in 1 .. l \/ n = l + 1
    OBVIOUS
  <2>5. \A n \in 1 .. l : Logged(j, k, IF n < new THEN n ELSE n + 1, gs[n])
    <3>1. \A n \in 1 .. l : (n < new <=> n < cut)
      BY <2>1, <2>2
    <3> QED
      BY <1>3, <2>1, <3>1
  <2>6. Logged(j, k, IF l + 1 < new THEN l + 1 ELSE (l + 1) + 1, gs[l + 1])
    <3>1. (IF l + 1 < new THEN l + 1 ELSE (l + 1) + 1) = m + 1
      BY <2>1, <2>2
    <3> QED
      BY <1>3, <3>1
  <2>7. \A n \in 1 .. l + 1 : Logged(j, k, IF n < new THEN n ELSE n + 1, gs[n])
    BY <2>4, <2>5, <2>6
  <2> QED
    BY <1>3, <2>3, <2>7 DEF Buffered
<1> QED
  BY <1>2, <1>4, <1>5

\* A whole buffer is one with nothing cut off, or what is left when the next
\* number is.
LEMMA CutsOff ==
  ASSUME NEW j, NEW k, NEW fs \in Seq(FrameSet), NEW m \in Nat, Whole(j, k, fs, m)
  PROVE  Buffered(j, k, fs, m) /\ Buffered(j, k, fs, m + 1)
<1>1. Len(fs) = m /\ DOMAIN fs = 1 .. m /\ \A n \in 1 .. m : Logged(j, k, n, fs[n])
  BY LenProperties DEF Whole
<1>2. PICK cut \in 1 .. m + 1 : cut = m + 1
  OBVIOUS
<1>3. \A n \in 1 .. m : Logged(j, k, IF n < cut THEN n ELSE n + 1, fs[n])
  BY <1>1, <1>2
<1>4. Buffered(j, k, fs, m)
  BY <1>1, <1>2, <1>3 DEF Buffered
<1>5. cut \in 1 .. (m + 1) + 1 /\ Len(fs) = IF cut > m + 1 THEN m + 1 ELSE (m + 1) - 1
  BY <1>1, <1>2
<1>6. Buffered(j, k, fs, m + 1)
  BY <1>1, <1>3, <1>5 DEF Buffered
<1> QED
  BY <1>4, <1>6

\* A step that neither numbers nor publishes, and leaves an emit alone.
LEMMA JournalKept ==
  ASSUME Inv, Journaled, UNCHANGED <<journal, faults, sending, turns>>,
         sending => pending' = pending,
         Len(turns) > 0 /\ Uncut(phase', turns[Len(turns)].event)
           => Uncut(phase, turns[Len(turns)].event)
  PROVE  Journaled'
<1>1. \A k : Numbered(k)' = Numbered(k)
  BY DEF Numbered, Current
<1> QED
  BY <1>1 DEF Journaled

\* A step that ends the turn's work, in the middle of an emit perhaps.
LEMMA JournalCut ==
  ASSUME Inv, Journaled, UNCHANGED <<journal, faults>>, sending' = FALSE,
         Len(turns') = Len(turns), DOMAIN turns' = DOMAIN turns,
         \A k \in DOMAIN turns : /\ turns'[k].frames = turns[k].frames
                                 /\ turns'[k].seq = turns[k].seq
                                 /\ turns'[k].event = turns[k].event,
         phase # "idle", sending => Uncut(phase, turns[Len(turns)].event),
         Uncut(phase', turns[Len(turns)].event)
           => ~sending /\ Uncut(phase, turns[Len(turns)].event)
  PROVE  Journaled'
<1>1. PICK n \in DOMAIN turns : n = Len(turns) /\ n > 0
  BY TurnFields
<1>2. RowsInOrder(journal', turns')
  BY DEF Journaled, RowsInOrder
<1>3. \A k \in DOMAIN turns : Numbered(k)' = turns[k].seq
  BY DEF Numbered, Current
<1>4. \A k \in DOMAIN turns \ {n} : Numbered(k) = turns[k].seq
  BY <1>1 DEF Numbered, Current
<1>5. Numbered(n) = IF sending THEN turns[n].seq - 1 ELSE turns[n].seq
  BY <1>1 DEF Numbered, Current
<1>6. ASSUME faults = 0
      PROVE  /\ \A k \in DOMAIN turns' : Buffered(journal', k, turns'[k].frames, Numbered(k)')
             /\ Uncut(phase', turns[n].event) => Whole(journal', n, turns'[n].frames, Numbered(n)')
  <2>1. \A k \in DOMAIN turns \ {n} : Buffered(journal, k, turns[k].frames, turns[k].seq)
    BY <1>4, <1>6 DEF Journaled
  <2>2. Buffered(journal, n, turns[n].frames, turns[n].seq)
    <3>1. CASE ~sending
      BY <1>5, <1>6, <3>1 DEF Journaled
    <3>2. CASE sending
      <4>1. PICK fs \in Seq(FrameSet), m \in Nat : fs = turns[n].frames /\ m + 1 = turns[n].seq
        <5>1. turns[n].frames \in Seq(FrameSet) /\ turns[n].seq \in Nat /\ turns[n].seq > 0
          BY <1>1, <3>2, TurnFields DEF Journaled
        <5>2. PICK q \in Nat : q = turns[n].seq /\ q > 0
          BY <5>1
        <5>3. q - 1 \in Nat /\ (q - 1) + 1 = q
          BY <5>2
        <5> QED
          BY <5>1, <5>2, <5>3
      <4>2. Numbered(n) = m
        BY <1>5, <3>2, <4>1
      <4>3. Whole(journal, n, fs, m)
        BY <1>1, <1>6, <3>2, <4>1, <4>2 DEF Journaled
      <4> QED
        BY <4>1, <4>3, CutsOff
    <3> QED
      BY <3>1, <3>2 DEF Inv, Turning
  <2>3. \A k \in DOMAIN turns' : Buffered(journal', k, turns'[k].frames, Numbered(k)')
    BY <1>3, <2>1, <2>2
  <2>4. Uncut(phase', turns[n].event) => Whole(journal, n, turns[n].frames, turns[n].seq)
    BY <1>1, <1>5, <1>6 DEF Journaled
  <2> QED
    BY <1>3, <2>3, <2>4
<1> QED
  BY <1>1, <1>2, <1>6 DEF Journaled

LEMMA JournalBegin ==
  ASSUME Inv, Journaled, NEW event \in Events \cup {None}, Begin(event)
  PROVE  Journaled'
<1>1. PICK turn :
        /\ turns' = Append(turns, turn) /\ turn.frames = <<>> /\ turn.seq = 0
        /\ turn.event = event
        /\ phase = "idle" /\ UNCHANGED <<journal, faults, sending>>
  BY DEF Begin
<1>2. PICK n \in Nat : n = Len(turns) /\ DOMAIN turns = 1 .. n
  BY TurnFields
<1>3. /\ Len(turns') = n + 1 /\ DOMAIN turns' = 1 .. n + 1
      /\ turns'[n + 1] = turn /\ \A k \in 1 .. n : turns'[k] = turns[k]
  BY <1>1, <1>2 DEF Inv, Turning
<1>4. sending = FALSE
  BY <1>1 DEF Inv, Turning
<1>5. RowsInOrder(journal', turns')
  <2>1. \A i \in DOMAIN journal : /\ journal[i].turn \in DOMAIN turns
                                  /\ journal[i].seq <= turns[journal[i].turn].seq
    BY DEF Journaled, RowsInOrder
  <2>2. \A i \in DOMAIN journal : /\ journal[i].turn \in DOMAIN turns'
                                  /\ journal[i].seq <= turns'[journal[i].turn].seq
    BY <1>2, <1>3, <2>1
  <2> QED
    BY <1>1, <2>2 DEF Journaled, RowsInOrder
<1>6. \A k \in 1 .. n : Numbered(k) = turns[k].seq /\ Numbered(k)' = turns[k].seq
  BY <1>1, <1>3, <1>4 DEF Numbered, Current
<1>7. Numbered(n + 1)' = 0
  BY <1>1, <1>3, <1>4 DEF Numbered, Current
<1>8. Whole(journal, n + 1, <<>>, 0)
  BY DEF Whole
<1>9. Buffered(journal, n + 1, <<>>, 0)
  BY <1>8, EmptySeq, CutsOff
<1>10. ASSUME faults = 0
       PROVE  /\ \A k \in DOMAIN turns' : Buffered(journal', k, turns'[k].frames, Numbered(k)')
              /\ Whole(journal', n + 1, turns'[n + 1].frames, Numbered(n + 1)')
  <2>1. \A k \in 1 .. n : Buffered(journal', k, turns'[k].frames, Numbered(k)')
    BY <1>1, <1>2, <1>3, <1>6, <1>10 DEF Journaled
  <2>2. \A k \in DOMAIN turns' : k \in 1 .. n \/ k = n + 1
    BY <1>3
  <2>3. Buffered(journal', n + 1, turns'[n + 1].frames, Numbered(n + 1)')
    BY <1>1, <1>3, <1>7, <1>9
  <2> QED
    BY <1>1, <1>3, <1>7, <1>8, <2>1, <2>2, <2>3
<1> QED
  BY <1>1, <1>3, <1>4, <1>5, <1>10 DEF Journaled

LEMMA RowNumbers ==
  ASSUME NEW j \in Seq(RowSet), NEW i \in DOMAIN j
  PROVE  j[i].seq \in Nat
<1>1. j[i] \in RowSet
  OBVIOUS
<1>2. \A row \in RowSet : row.seq \in Nat
  BY DEF RowSet
<1> QED
  BY <1>1, <1>2

\* The rows stay in order when the last turn takes its next number...
LEMMA RowsNumbered ==
  ASSUME Inv, Journaled, NEW n \in DOMAIN turns, DOMAIN turns' = DOMAIN turns,
         turns'[n].seq = turns[n].seq + 1, \A k \in DOMAIN turns \ {n} : turns'[k] = turns[k]
  PROVE  RowsInOrder(journal, turns')
<1>1. \A k \in DOMAIN turns : turns[k].seq \in Nat /\ turns[k].seq <= turns'[k].seq
  <2>1. \A k \in DOMAIN turns : turns[k].seq \in Nat
    BY TurnFields
  <2>2. turns[n].seq <= turns'[n].seq
    BY <2>1
  <2> QED
    BY <2>1, <2>2
<1>2. \A i \in DOMAIN journal : journal[i].seq \in Nat
  BY RowNumbers DEF Journaled
<1>3. \A i \in DOMAIN journal : /\ journal[i].turn \in DOMAIN turns
                                /\ journal[i].seq <= turns[journal[i].turn].seq
  BY DEF Journaled, RowsInOrder
<1>4. \A k \in DOMAIN turns : turns'[k].seq \in Nat
  BY <1>1
<1>5. \A i \in DOMAIN journal : journal[i].seq <= turns'[journal[i].turn].seq
  <2>1. \A x, y, z \in Nat : x <= y /\ y <= z => x <= z
    OBVIOUS
  <2> QED
    BY <1>1, <1>2, <1>3, <1>4, <2>1
<1> QED
  BY <1>3, <1>5 DEF Journaled, RowsInOrder

\* ...and its row is put behind them.
LEMMA RowsAppended ==
  ASSUME NEW j \in Seq(RowSet), NEW ts, RowsInOrder(j, ts), NEW row \in RowSet,
         row.turn \in DOMAIN ts, row.seq = ts[row.turn].seq,
         \A i \in DOMAIN j : j[i].turn = row.turn => j[i].seq < row.seq
  PROVE  RowsInOrder(Append(j, row), ts)
<1>1. PICK l \in Nat : l = Len(j) /\ DOMAIN j = 1 .. l
  BY LenProperties
<1>2. PICK g : g = Append(j, row)
  OBVIOUS
<1>3. DOMAIN g = 1 .. l + 1 /\ g[l + 1] = row /\ \A i \in 1 .. l : g[i] = j[i]
  BY <1>1, <1>2
<1>4. \A i \in 1 .. l + 1 : i \in 1 .. l \/ i = l + 1
  OBVIOUS
<1>5. row.seq \in Nat /\ row.seq <= ts[row.turn].seq
  BY DEF RowSet
<1>6. \A i \in 1 .. l + 1 : g[i].turn \in DOMAIN ts /\ g[i].seq <= ts[g[i].turn].seq
  BY <1>1, <1>3, <1>4, <1>5 DEF RowsInOrder
<1>7. ASSUME NEW i \in 1 .. l + 1, NEW m \in 1 .. l + 1, i < m, g[i].turn = g[m].turn
      PROVE  g[i].seq < g[m].seq
  <2>1. i \in 1 .. l
    BY <1>7
  <2>2. CASE m \in 1 .. l
    BY <1>1, <1>3, <1>7, <2>1, <2>2 DEF RowsInOrder
  <2>3. CASE m = l + 1
    BY <1>1, <1>3, <1>7, <2>1, <2>3
  <2> QED
    BY <1>4, <2>2, <2>3
<1> QED
  BY <1>2, <1>3, <1>6, <1>7 DEF RowsInOrder

LEMMA JournalPersist ==
  ASSUME Inv, Journaled, Persist
  PROVE  Journaled'
<1>1. sending = FALSE /\ sending' = TRUE /\ pending # <<>> /\ UNCHANGED <<phase, pending>>
  BY DEF Persist, Inv, Turning
<1>2. PICK n \in DOMAIN turns :
        /\ n = Len(turns) /\ Len(turns') = n /\ DOMAIN turns' = DOMAIN turns
        /\ phase # "idle" /\ turns'[n].seq = turns[n].seq + 1
        /\ \A j \in DOMAIN turns \ {n} : turns'[j] = turns[j]
        /\ \A j \in DOMAIN turns : /\ turns'[j].frames = turns[j].frames
                                   /\ turns'[j].event = turns[j].event
  BY PersistTurns
<1>3. /\ n \in Nat /\ n > 0 /\ turns[n].seq \in Nat /\ turns[n].event \in Events \cup {None}
      /\ turns'[n].seq \in Nat /\ turns'[n].seq > 0
  <2>1. n \in Nat /\ n > 0 /\ turns[n].seq \in Nat /\ turns[n].event \in Events \cup {None}
    BY <1>2, TurnFields
  <2> QED
    BY <1>2, <2>1
<1>4. PICK f \in FrameSet : f = Head(pending)
  BY <1>1, HeadTailProperties DEF Inv, Turning
<1>5. RowsInOrder(journal, turns')
  BY <1>2, RowsNumbered
<1>6. \A k \in DOMAIN turns : Numbered(k)' = Numbered(k)
  <2>1. \A k \in DOMAIN turns : Numbered(k) = turns[k].seq
    BY <1>1 DEF Numbered
  <2>2. \A k \in DOMAIN turns \ {n} : Numbered(k)' = turns[k].seq
    BY <1>2 DEF Numbered, Current
  <2>3. Numbered(n)' = (turns[n].seq + 1) - 1
    BY <1>1, <1>2 DEF Numbered, Current
  <2> QED
    BY <1>3, <2>1, <2>2, <2>3
<1>7. PICK l \in Nat : l = Len(journal)
  BY LenProperties DEF Journaled
<1>8. PICK row \in RowSet :
        /\ row = [id |-> l + 1, turn |-> n, event |-> turns[n].event,
                  seq |-> turns'[n].seq, frame |-> f]
        /\ row.turn = n /\ row.seq = turns'[n].seq /\ row.frame = f
  <2>1. PICK d \in Nat, e \in Events \cup {None}, q \in Nat :
          d = l + 1 /\ e = turns[n].event /\ q = turns'[n].seq
    BY <1>3
  <2>2. PICK row : row = [id |-> d, turn |-> n, event |-> e, seq |-> q, frame |-> f]
    OBVIOUS
  <2>3. row \in RowSet
    BY <1>3, <2>2 DEF RowSet
  <2>4. row.turn = n /\ row.seq = q /\ row.frame = f
    BY <2>2
  <2> QED
    BY <2>1, <2>2, <2>3, <2>4
<1>9. \/ journal' = Append(journal, row) /\ faults' = faults
      \/ journal' = journal /\ faults' = faults + 1
  BY <1>2, <1>4, <1>7, <1>8 DEF Persist, Current
<1>10. CASE journal' = Append(journal, row) /\ faults' = faults
  <2>1. journal \in Seq(RowSet) /\ journal' \in Seq(RowSet) /\ faults \in Nat
    BY <1>10 DEF Journaled
  <2>2. \A i \in DOMAIN journal : journal[i].turn = n => journal[i].seq < row.seq
    <3>1. \A i \in DOMAIN journal : journal[i].turn = n => journal[i].seq <= turns[n].seq
      BY DEF Journaled, RowsInOrder
    <3>2. \A i \in DOMAIN journal : journal[i].seq \in Nat
      BY RowNumbers DEF Journaled
    <3>3. PICK q \in Nat : q = turns[n].seq /\ row.seq = q + 1
      BY <1>2, <1>3, <1>8
    <3> QED
      BY <3>1, <3>2, <3>3
  <2>3. RowsInOrder(journal', turns')
    BY <1>2, <1>5, <1>8, <1>10, <2>1, <2>2, RowsAppended
  <2>4. Logged(journal', n, turns'[n].seq, f)
    <3>1. l + 1 \in DOMAIN journal' /\ journal'[l + 1] = row
      BY <1>7, <1>10, <2>1
    <3> QED
      BY <1>8, <3>1 DEF Logged
  <2>5. ASSUME faults = 0
        PROVE  /\ \A k \in DOMAIN turns' : Buffered(journal', k, turns'[k].frames, Numbered(k)')
               /\ Uncut(phase', turns'[n].event) => Whole(journal', n, turns'[n].frames, Numbered(n)')
    <3>1. \A k \in DOMAIN turns : Buffered(journal', k, turns[k].frames, Numbered(k))
      BY <1>10, <2>1, <2>5, JournalGrows DEF Journaled
    <3>2. Uncut(phase, turns[n].event) => Whole(journal', n, turns[n].frames, Numbered(n))
      BY <1>2, <1>3, <1>10, <2>1, <2>5, JournalGrows DEF Journaled
    <3> QED
      BY <1>1, <1>2, <1>6, <3>1, <3>2
  <2> QED
    BY <1>1, <1>2, <1>3, <1>4, <1>10, <2>1, <2>3, <2>4, <2>5 DEF Journaled
<1>11. CASE journal' = journal /\ faults' = faults + 1
  <2>1. faults' \in Nat /\ faults' # 0
    BY <1>11 DEF Journaled
  <2> QED
    BY <1>2, <1>3, <1>5, <1>11, <2>1 DEF Journaled
<1> QED
  BY <1>9, <1>10, <1>11

LEMMA JournalPublish ==
  ASSUME Inv, Journaled, Publish
  PROVE  Journaled'
<1>1. /\ sending /\ sending' = FALSE /\ UNCHANGED <<journal, faults>>
      /\ phase' = IF phase = "opening" /\ Tail(pending) = <<>> THEN "streaming" ELSE phase
  BY DEF Publish
<1>2. PICK n \in DOMAIN turns :
        /\ n = Len(turns) /\ n > 0 /\ Len(turns') = n /\ DOMAIN turns' = DOMAIN turns
        /\ turns[n].frames \in Seq(FrameSet)
        /\ turns'[n].frames = Append(turns[n].frames, Head(pending))
        /\ turns'[n].event = turns[n].event /\ turns'[n].seq = turns[n].seq
        /\ \A j \in DOMAIN turns \ {n} : turns'[j] = turns[j]
  BY PublishTurns
<1>3. PICK f \in FrameSet : f = Head(pending)
  BY <1>1, HeadTailProperties DEF Inv, Turning
<1>4. PICK m \in Nat : m + 1 = turns[n].seq
  <2>1. PICK q \in Nat : q = turns[n].seq /\ q > 0
    BY <1>1, <1>2, TurnFields DEF Journaled
  <2>2. q - 1 \in Nat /\ (q - 1) + 1 = q
    BY <2>1
  <2> QED
    BY <2>1, <2>2
<1>5. Numbered(n) = m /\ Numbered(n)' = m + 1
  <2>1. Numbered(n) = (m + 1) - 1 /\ Numbered(n)' = m + 1
    BY <1>1, <1>2, <1>4 DEF Numbered, Current
  <2> QED
    BY <2>1
<1>6. \A k \in DOMAIN turns \ {n} : Numbered(k)' = Numbered(k)
  BY <1>2 DEF Numbered, Current
<1>7. RowsInOrder(journal', turns')
  BY <1>1, <1>2 DEF Journaled, RowsInOrder
<1>8. ASSUME faults = 0
      PROVE  /\ \A k \in DOMAIN turns' : Buffered(journal', k, turns'[k].frames, Numbered(k)')
             /\ Uncut(phase', turns'[n].event) => Whole(journal', n, turns'[n].frames, Numbered(n)')
  <2>1. Logged(journal, n, m + 1, f)
    BY <1>1, <1>2, <1>3, <1>4, <1>8 DEF Journaled
  <2>2. Buffered(journal, n, turns[n].frames, m)
    BY <1>5, <1>8 DEF Journaled
  <2>3. Buffered(journal, n, Append(turns[n].frames, f), m + 1)
    BY <1>2, <2>1, <2>2, BufferGrows
  <2>4. \A k \in DOMAIN turns' : Buffered(journal', k, turns'[k].frames, Numbered(k)')
    <3>1. \A k \in DOMAIN turns \ {n} : Buffered(journal', k, turns'[k].frames, Numbered(k)')
      BY <1>1, <1>2, <1>6, <1>8 DEF Journaled
    <3>2. Buffered(journal', n, turns'[n].frames, Numbered(n)')
      BY <1>1, <1>2, <1>3, <1>5, <2>3
    <3> QED
      BY <1>2, <3>1, <3>2
  <2>5. ASSUME Uncut(phase', turns'[n].event)
        PROVE  Whole(journal', n, turns'[n].frames, Numbered(n)')
    <3>1. Uncut(phase, turns[n].event)
      BY <1>1, <1>2, <2>5 DEF Uncut
    <3>2. Whole(journal, n, turns[n].frames, m)
      BY <1>2, <1>5, <1>8, <3>1 DEF Journaled
    <3>3. Whole(journal, n, Append(turns[n].frames, f), m + 1)
      BY <1>2, <2>1, <3>2, BufferGrows
    <3> QED
      BY <1>1, <1>2, <1>3, <1>5, <3>3
  <2> QED
    BY <2>4, <2>5
<1> QED
  BY <1>1, <1>2, <1>7, <1>8 DEF Journaled

LEMMA JournalEnds ==
  ASSUME Inv, Journaled,
         Finishes \/ Fails \/ Stopped \/ Closes \/ ChatGone \/ ChatGoneEarly
  PROVE  Journaled'
<1>1. pending = <<>> => sending = FALSE
  BY DEF Inv, Turning
<1>2. CASE Finishes \/ Fails \/ Stopped
  <2>1. /\ UNCHANGED <<journal, faults, turns>> /\ sending' = FALSE
        /\ phase = "streaming" /\ phase' = "closing"
    BY <1>2 DEF Finishes, Fails, Stopped, Concludes
  <2>2. pending = <<>> \/ turns[Len(turns)].event # None
    <3>1. Len(turns) > 0
      BY <2>1 DEF Inv, Turning
    <3> QED
      BY <1>2, <3>1 DEF Finishes, Fails, Stopped, IsChat, Current
  <2>3. /\ Uncut(phase, turns[Len(turns)].event)
        /\ Uncut(phase', turns[Len(turns)].event) => ~sending
    BY <1>1, <2>1, <2>2 DEF Uncut
  <2> QED
    BY <2>1, <2>3, JournalCut
<1>3. CASE Closes \/ ChatGone
  <2>1. CloseTurn /\ phase # "idle" /\ (pending = <<>> \/ turns[Len(turns)].event = None)
    BY <1>3 DEF Closes, ChatGone, IsChat, Current
  <2>2. UNCHANGED <<journal, faults>> /\ sending' = FALSE /\ phase' = "idle"
    BY <2>1 DEF CloseTurn
  <2>3. PICK n \in DOMAIN turns :
          /\ n = Len(turns) /\ Len(turns') = n /\ DOMAIN turns' = DOMAIN turns
          /\ turns'[n].frames = turns[n].frames /\ turns'[n].event = turns[n].event
          /\ turns'[n].seq = turns[n].seq
          /\ \A j \in DOMAIN turns \ {n} : turns'[j] = turns[j]
    BY <2>1, CloseTurns
  <2>4. \A k \in DOMAIN turns : /\ turns'[k].frames = turns[k].frames
                                /\ turns'[k].seq = turns[k].seq
                                /\ turns'[k].event = turns[k].event
    BY <2>3
  <2>5. /\ sending => Uncut(phase, turns[Len(turns)].event)
        /\ ~Uncut(phase', turns[Len(turns)].event)
    BY <1>1, <2>1, <2>2 DEF Uncut
  <2> QED
    BY <2>1, <2>2, <2>3, <2>4, <2>5, JournalCut
<1>4. CASE ChatGoneEarly
  <2>1. /\ UNCHANGED <<journal, faults, turns>> /\ sending' = FALSE
        /\ phase = "opening" /\ phase' = "idle"
    BY <1>4 DEF ChatGoneEarly
  <2>2. Uncut(phase, turns[Len(turns)].event) /\ ~Uncut(phase', turns[Len(turns)].event)
    BY <2>1 DEF Uncut
  <2> QED
    BY <2>1, <2>2, JournalCut
<1> QED
  BY <1>2, <1>3, <1>4

LEMMA JournalStep ==
  ASSUME Inv, Journaled, [Next]_vars
  PROVE  Journaled'
<1>1. ASSUME NEW event \in Events \cup {None}, Begin(event)
      PROVE  Journaled'
  BY <1>1, JournalBegin
<1>2. CASE Persist
  BY <1>2, JournalPersist
<1>3. CASE Publish
  BY <1>3, JournalPublish
<1>4. ASSUME NEW fs, TakesChunk(fs)
      PROVE  Journaled'
  <2>1. /\ pending = <<>> /\ UNCHANGED <<turns, journal, phase, sending, faults>>
    BY <1>4 DEF TakesChunk
  <2>2. ~sending
    BY <2>1 DEF Inv, Turning
  <2> QED
    BY <2>1, <2>2, JournalKept
<1>5. CASE LeadChunk \/ \E t \in Tasks : TaskChunk(t) \/ ReportChunk(t)
  BY <1>4, <1>5 DEF LeadChunk, TaskChunk, ReportChunk
<1>6. CASE Finishes \/ Fails \/ Stopped \/ Closes \/ ChatGone \/ ChatGoneEarly
  BY <1>6, JournalEnds
<1>7. ASSUME UNCHANGED turnVars
      PROVE  Journaled'
  <2>1. UNCHANGED <<turns, journal, phase, pending, sending, faults>>
    BY <1>7 DEF turnVars
  <2> QED
    BY <2>1, JournalKept
<1>8. CASE UNCHANGED vars
  BY <1>7, <1>8 DEF vars
<1>9. ASSUME NEW r \in Readers, NEW want \in Events \cup {None}, Opens(r, want)
      PROVE  Journaled'
  BY <1>7, <1>9 DEF Opens
<1>10. ASSUME NEW r \in Readers, ReadsJournal(r) \/ Takes(r) \/ RowsEnd(r) \/ Leaves(r)
       PROVE  Journaled'
  BY <1>7, <1>10 DEF ReadsJournal, Takes, RowsEnd, Leaves
<1> QED
  BY <1>1, <1>2, <1>3, <1>5, <1>6, <1>8, <1>9, <1>10 DEF Next

(* What was published live is in hub.activity for whoever comes later: the *)
(* rows of a turn are in the order of their numbers whatever fails, and    *)
(* while no insert fails a turn's buffer is what it has numbered, less a   *)
(* frame on its way and the one frame a stop or a lost client may cut off  *)
(* between emit's insert and its publication (activity.py:266-273).        *)
THEOREM LiveInJournalThm == Spec => []LiveInJournal
<1>1. Init => Inv /\ Journaled
  <2>1. ASSUME Init
        PROVE  Journaled
    <3>1. turns = <<>> /\ journal = <<>> /\ faults = 0 /\ sending = FALSE
      BY <2>1 DEF Init
    <3>2. DOMAIN turns = {} /\ DOMAIN journal = {} /\ Len(turns) = 0 /\ <<>> \in Seq(RowSet)
      BY <3>1, EmptySeq
    <3> QED
      BY <3>1, <3>2 DEF Journaled, RowsInOrder
  <2> QED
    BY <2>1, InvInit
<1>2. (Inv /\ Journaled) /\ [Next]_vars => (Inv /\ Journaled)'
  BY InvStep, JournalStep
<1>3. Journaled => LiveInJournal
  BY DEF Journaled, RowsInOrder, Buffered, LiveInJournal
<1> QED
  BY <1>1, <1>2, <1>3, PTL DEF Spec

=============================================================================
