-------------------------- MODULE SubagentRunProofs --------------------------
(* What the receipts of a subagent's run are worth: IdsStable,               *)
(* ResolvedIsExecuted and ResolvedWasShown of SubagentRun, and that the run   *)
(* loses no step, usage or finding: StepsOnce and WorkAccounted.             *)
EXTENDS SubagentRun, SequenceTheorems, FiniteSetTheorems, WellFoundedInduction, TLAPS

-----------------------------------------------------------------------------
(* The inductive invariant.                                                  *)

AIMsg == [role : {"ai"}, calls : CallLists, ledger : SUBSET ReceiptSet]
ToolMsg == [role : {"tool"}, call : Nat \X Nat, tool : Tools,
            status : {"success", "error"}, stamped : BOOLEAN]
Msg == AIMsg \cup ToolMsg

\* A result stands where its call puts it, so a call has one result; what a
\* reply was shown is still so.
WellFormed(ms) ==
  /\ ms \in Seq(Msg)
  /\ \A n \in DOMAIN ms : IsTool(ms[n]) => ms[n].call[1] + ms[n].call[2] = n
  /\ \A n \in DOMAIN ms : ~IsTool(ms[n]) => ms[n].ledger \subseteq Receipts(ms)

\* The result that arun fills while the run goes on.
Running(ms, us, at) ==
  [status |-> "RUNNING", report |-> None, stop |-> None,
   receipts |-> IF at = "start" THEN {} ELSE {Receipts(ms)},
   usage |-> us, findings |-> Findings(ms)]

\* A reply without calls was shown a ledger if there was anything to show.
Asked(ms, at) ==
  /\ at = "start" => ms = <<>>
  /\ at \in {"tools", "end"} => Len(ms) > 0 /\ ~IsTool(ms[Len(ms)])
  /\ at = "end" /\ Receipts(ms) # {} => ms[Len(ms)].ledger # {}

Ended == ResolvedIsExecuted /\ ResolvedWasShown /\ WorkAccounted

Inv ==
  /\ WellFormed(messages) /\ Asked(messages, pc)
  /\ StepsOnce /\ cursor = Len(messages)
  /\ pc \in {"start", "model", "tools", "end", "over"}
  /\ pc # "over" => outcome = None /\ holder = Running(messages, usage, pc)
  /\ Ended

-----------------------------------------------------------------------------
(* Numbers.                                                                  *)

LEMMA Least ==
  ASSUME NEW T, T \subseteq Nat, T # {}
  PROVE  \E x \in T : \A y \in T : x <= y
<1>1. PICK R : R = OpToRel(<, Nat)
  BY Zenon
<1>2. \A x, y \in Nat : x < y => <<x, y>> \in R
  BY <1>1, Zenon DEF OpToRel
<1>3. IsWellFoundedOn(R, Nat)
  BY <1>1, NatLessThanWellFounded, Zenon
<1>4. PICK x \in T : \A y \in T : ~(<<y, x>> \in R)
  BY <1>3, WFMin
<1>5. \A y \in T : y \in Nat
  OBVIOUS
<1>6. \A y \in T : ~(y < x)
  BY <1>2, <1>4, <1>5
<1> QED
  BY <1>5, <1>6

LEMMA Greatest ==
  ASSUME NEW T, T \subseteq Nat, T # {}, NEW b \in Nat, \A y \in T : y <= b
  PROVE  \E x \in T : \A y \in T : y <= x
<1>1. PICK U : U = {k \in Nat : \A y \in T : y <= k}
  OBVIOUS
<1>2. U \subseteq Nat /\ U # {}
  BY <1>1
<1>3. PICK x \in U : \A y \in U : x <= y
  BY <1>2, Least
<1>4. x \in Nat /\ \A y \in T : y \in Nat /\ y <= x
  BY <1>1, <1>3
<1>5. ASSUME x \notin T
      PROVE  FALSE
  <2>1. PICK y \in T : y \in Nat
    BY <1>4
  <2>2. x # 0
    BY <1>4, <1>5, <2>1
  <2>3. x - 1 \in Nat /\ \A z \in T : z <= x - 1
    BY <1>4, <1>5, <2>2
  <2>4. x - 1 \in U
    BY <1>1, <2>3
  <2> QED
    BY <1>3, <1>4, <2>4
<1> QED
  BY <1>4, <1>5

LEMMA SetInduction ==
  ASSUME NEW S, 0 \in S, \A n \in Nat : n \in S => n + 1 \in S
  PROVE  Nat \subseteq S
<1>1. SUFFICES ASSUME Nat \ S # {} PROVE FALSE
  OBVIOUS
<1>2. PICK x \in Nat \ S : \A y \in Nat \ S : x <= y
  BY <1>1, Least
<1>3. x # 0 /\ x - 1 \in Nat /\ ~(x <= x - 1)
  BY <1>2
<1> QED
  BY <1>2, <1>3

-----------------------------------------------------------------------------
(* Messages and their receipts.                                              *)

LEMMA MsgFields ==
  ASSUME NEW m \in Msg
  PROVE  /\ IsTool(m) => /\ m.call \in Nat \X Nat /\ m.tool \in Tools
                         /\ m.status \in {"success", "error"} /\ m.stamped \in BOOLEAN
         /\ ~IsTool(m) => m.calls \in CallLists /\ m.ledger \subseteq ReceiptSet
<1>1. CASE m \in AIMsg
  BY <1>1 DEF AIMsg, IsTool
<1>2. CASE m \in ToolMsg
  BY <1>2 DEF ToolMsg, IsTool
<1> QED
  BY <1>1, <1>2 DEF Msg

LEMMA StampedFinite ==
  ASSUME NEW ms \in Seq(Msg)
  PROVE  /\ Stamped(ms) \subseteq 1 .. Len(ms) /\ Len(ms) \in Nat /\ DOMAIN ms = 1 .. Len(ms)
         /\ IsFiniteSet(Stamped(ms)) /\ Cardinality(Stamped(ms)) \in Nat
         /\ \A n : /\ IsFiniteSet({m \in Stamped(ms) : m <= n})
                   /\ Number(ms, n) \in Nat
<1>1. Len(ms) \in Nat /\ DOMAIN ms = 1 .. Len(ms)
  BY LenProperties
<1>2. Stamped(ms) \subseteq 1 .. Len(ms)
  BY <1>1 DEF Stamped
<1>3. IsFiniteSet(Stamped(ms))
  <2>1. 1 \in Int /\ Len(ms) \in Int
    BY <1>1
  <2>2. IsFiniteSet(1 .. Len(ms))
    BY <2>1, FS_Interval
  <2> QED
    BY <1>2, <2>2, FS_Subset
<1>4. ASSUME NEW n
      PROVE  IsFiniteSet({m \in Stamped(ms) : m <= n}) /\ Number(ms, n) \in Nat
  <2>1. IsFiniteSet({m \in Stamped(ms) : m <= n})
    BY <1>3, FS_Subset
  <2> QED
    BY <2>1, FS_CardinalityType DEF Number
<1> QED
  BY <1>1, <1>2, <1>3, <1>4, FS_CardinalityType

\* Numbers increase.
LEMMA NumbersIncrease ==
  ASSUME NEW ms \in Seq(Msg), NEW n \in Stamped(ms), NEW m \in Stamped(ms), n < m
  PROVE  Number(ms, n) < Number(ms, m)
<1>1. n \in Nat /\ m \in Nat /\ Stamped(ms) \subseteq Nat
  BY StampedFinite
<1>2. PICK A, B : A = {k \in Stamped(ms) : k <= n} /\ B = {k \in Stamped(ms) : k <= m}
  OBVIOUS
<1>3. A \subseteq B /\ m \in B /\ m \notin A
  BY <1>1, <1>2
<1>4. IsFiniteSet(B) /\ IsFiniteSet(A)
  BY <1>2, StampedFinite
<1>5. Cardinality(A) < Cardinality(B)
  <2>1. Cardinality(A) <= Cardinality(B) /\ (Cardinality(A) = Cardinality(B) => A = B)
    BY <1>3, <1>4, FS_Subset
  <2> QED
    BY <1>3, <1>4, <2>1, FS_CardinalityType
<1> QED
  BY <1>2, <1>5 DEF Number

LEMMA NumbersDistinct ==
  ASSUME NEW ms \in Seq(Msg), NEW n \in Stamped(ms), NEW m \in Stamped(ms)
  PROVE  Number(ms, n) = Number(ms, m) <=> n = m
<1>1. n \in Nat /\ m \in Nat /\ Number(ms, n) \in Nat /\ Number(ms, m) \in Nat
  <2>1. Stamped(ms) \subseteq Nat
    BY StampedFinite
  <2> QED
    BY <2>1, StampedFinite
<1>2. n < m \/ n = m \/ m < n
  BY <1>1
<1> QED
  BY <1>1, <1>2, NumbersIncrease

\* What is appended numbers nothing anew.
LEMMA ReceiptsKept ==
  ASSUME NEW ms \in Seq(Msg), NEW new \in Seq(Msg)
  PROVE  /\ ms \o new \in Seq(Msg) /\ Len(ms \o new) = Len(ms) + Len(new)
         /\ \A n \in DOMAIN ms : (ms \o new)[n] = ms[n]
         /\ \A n \in DOMAIN new : (ms \o new)[Len(ms) + n] = new[n]
         /\ Stamped(ms) = Stamped(ms \o new) \cap DOMAIN ms
         /\ Receipts(ms) \subseteq Receipts(ms \o new)
         /\ (\A n \in DOMAIN new : ~IsTool(new[n])) => Receipts(ms \o new) = Receipts(ms)
<1>1. PICK l \in Nat, k \in Nat, all \in Seq(Msg) :
        /\ l = Len(ms) /\ k = Len(new) /\ all = ms \o new /\ DOMAIN ms = 1 .. l
        /\ DOMAIN new = 1 .. k /\ DOMAIN all = 1 .. l + k /\ Len(all) = l + k
        /\ \A n \in 1 .. l : all[n] = ms[n]
        /\ \A n \in 1 .. k : all[l + n] = new[n]
  <2>1. /\ ms \o new \in Seq(Msg) /\ Len(ms \o new) = Len(ms) + Len(new)
        /\ \A i \in 1 .. Len(ms) + Len(new) :
             (ms \o new)[i] = IF i <= Len(ms) THEN ms[i] ELSE new[i - Len(ms)]
    BY ConcatProperties
  <2>2. PICK l \in Nat, k \in Nat : /\ l = Len(ms) /\ k = Len(new)
                                    /\ DOMAIN ms = 1 .. l /\ DOMAIN new = 1 .. k
    BY LenProperties
  <2>3. PICK all \in Seq(Msg) : all = ms \o new
    BY <2>1
  <2>4. DOMAIN all = 1 .. l + k /\ Len(all) = l + k
    BY <2>1, <2>2, <2>3
  <2>5. \A n \in 1 .. l : all[n] = ms[n]
    BY <2>1, <2>2, <2>3
  <2>6. \A n \in 1 .. k : all[l + n] = new[n]
    BY <2>1, <2>2, <2>3
  <2> QED
    BY <2>2, <2>3, <2>4, <2>5, <2>6
<1>2. Stamped(ms) = Stamped(all) \cap (1 .. l)
  BY <1>1 DEF Stamped
<1>3. \A n \in 1 .. l : {m \in Stamped(ms) : m <= n} = {m \in Stamped(all) : m <= n}
  <2>1. Stamped(all) \subseteq 1 .. l + k
    BY <1>1 DEF Stamped
  <2> QED
    BY <1>2, <2>1
<1>4. \A n \in 1 .. l : Number(all, n) = Number(ms, n)
  BY <1>3 DEF Number
<1>5. Receipts(ms) \subseteq Receipts(all)
  <2>1. ASSUME NEW r \in Receipts(ms)
        PROVE  r \in Receipts(all)
    <3>1. PICK n \in Stamped(ms) : r = [id |-> Number(ms, n), call |-> ms[n].call,
                                        tool |-> ms[n].tool, status |-> ms[n].status]
      BY DEF Receipts
    <3>2. n \in Stamped(all) /\ n \in 1 .. l
      BY <1>2
    <3>3. r = [id |-> Number(all, n), call |-> all[n].call,
               tool |-> all[n].tool, status |-> all[n].status]
      BY <1>1, <1>4, <3>1, <3>2
    <3> QED
      BY <3>2, <3>3 DEF Receipts
  <2> QED
    BY <2>1
<1>6. ASSUME \A n \in 1 .. k : ~IsTool(new[n])
      PROVE  Receipts(all) = Receipts(ms)
  <2>1. \A n \in 1 .. l + k : n \in 1 .. l \/ \E i \in 1 .. k : n = l + i
    <3>1. \A n \in 1 .. l + k : n > l => n - l \in 1 .. k /\ n = l + (n - l)
      OBVIOUS
    <3> QED
      BY <3>1
  <2>2. Stamped(all) = Stamped(ms)
    BY <1>1, <1>2, <1>6, <2>1 DEF Stamped
  <2>3. ASSUME NEW r \in Receipts(all)
        PROVE  r \in Receipts(ms)
    <3>1. PICK n \in Stamped(all) : r = [id |-> Number(all, n), call |-> all[n].call,
                                        tool |-> all[n].tool, status |-> all[n].status]
      BY DEF Receipts
    <3>2. n \in Stamped(ms) /\ n \in 1 .. l
      BY <1>2, <2>2
    <3>3. r = [id |-> Number(ms, n), call |-> ms[n].call,
               tool |-> ms[n].tool, status |-> ms[n].status]
      BY <1>1, <1>4, <3>1, <3>2
    <3> QED
      BY <3>2, <3>3 DEF Receipts
  <2> QED
    BY <1>5, <2>3
<1> QED
  BY <1>1, <1>2, <1>5, <1>6

LEMMA ReceiptsOf ==
  ASSUME NEW ms \in Seq(Msg)
  PROVE  /\ \A r \in Receipts(ms) : r.tool \in Tools
         /\ Receipts(ms) \subseteq ReceiptSet
         /\ IsFiniteSet(Receipts(ms)) /\ Cardinality(Receipts(ms)) = Cardinality(Stamped(ms))
         /\ Receipts(ms) = {} <=> Stamped(ms) = {}
<1>1. PICK f : f = [n \in Stamped(ms) |-> [id |-> Number(ms, n), call |-> ms[n].call,
                                           tool |-> ms[n].tool, status |-> ms[n].status]]
  OBVIOUS
<1>2. Receipts(ms) = {f[n] : n \in Stamped(ms)}
  BY <1>1 DEF Receipts
<1>3. \A n \in Stamped(ms) : f[n].id = Number(ms, n) /\ f[n].tool = ms[n].tool
  BY <1>1
<1>4. \A n \in Stamped(ms) : n \in DOMAIN ms /\ ms[n] \in Msg /\ IsTool(ms[n])
  BY DEF Stamped
<1>5. \A n \in Stamped(ms) : f[n].tool \in Tools /\ f[n] \in ReceiptSet
  <2>1. ASSUME NEW n \in Stamped(ms)
        PROVE  f[n].tool \in Tools /\ f[n] \in ReceiptSet
    <3>1. PICK a \in Nat, c \in Nat \X Nat, t \in Tools, st \in {"success", "error"} :
            a = Number(ms, n) /\ c = ms[n].call /\ t = ms[n].tool /\ st = ms[n].status
      BY <1>4, StampedFinite, MsgFields
    <3>2. f[n] = [id |-> a, call |-> c, tool |-> t, status |-> st]
      BY <1>1, <3>1
    <3> QED
      BY <3>2 DEF ReceiptSet
  <2> QED
    BY <2>1
<1>6. f \in Bijection(Stamped(ms), Receipts(ms))
  <2>1. f \in [Stamped(ms) -> Receipts(ms)]
    BY <1>1, <1>2
  <2>2. \A n, m \in Stamped(ms) : f[n] = f[m] => n = m
    BY <1>3, NumbersDistinct
  <2>3. \A r \in Receipts(ms) : \E n \in Stamped(ms) : f[n] = r
    BY <1>2
  <2> QED
    BY <2>1, <2>2, <2>3 DEF Bijection, Injection, Surjection, IsInjective
<1>7. ExistsBijection(Stamped(ms), Receipts(ms))
  BY <1>6 DEF ExistsBijection
<1>8. IsFiniteSet(Receipts(ms)) /\ Cardinality(Receipts(ms)) = Cardinality(Stamped(ms))
  BY <1>7, StampedFinite, FS_Bijection
<1> QED
  BY <1>2, <1>5, <1>8

\* The newest receipt has the number of all receipts.
LEMMA NewestReceipt ==
  ASSUME NEW ms \in Seq(Msg), Receipts(ms) # {}
  PROVE  /\ Cardinality(Receipts(ms)) \in Nat /\ Cardinality(Receipts(ms)) > 0
         /\ \E r \in Receipts(ms) : r.id = Cardinality(Receipts(ms))
<1>1. PICK l \in Nat : l = Len(ms) /\ Stamped(ms) \subseteq 1 .. l /\ Stamped(ms) # {}
  BY StampedFinite, ReceiptsOf
<1>2. Stamped(ms) \subseteq Nat /\ \A n \in Stamped(ms) : n <= l
  BY <1>1
<1>3. PICK n \in Stamped(ms) : \A m \in Stamped(ms) : m <= n
  BY <1>1, <1>2, Greatest
<1>4. {m \in Stamped(ms) : m <= n} = Stamped(ms)
  BY <1>3
<1>5. Number(ms, n) = Cardinality(Receipts(ms))
  BY <1>4, ReceiptsOf DEF Number
<1>6. PICK r \in Receipts(ms) : r.id = Number(ms, n)
  <2>1. PICK r : r = [id |-> Number(ms, n), call |-> ms[n].call,
                      tool |-> ms[n].tool, status |-> ms[n].status]
    OBVIOUS
  <2>2. r \in Receipts(ms) /\ r.id = Number(ms, n)
    BY <2>1 DEF Receipts
  <2> QED
    BY <2>2
<1>7. Cardinality(Receipts(ms)) \in Nat /\ Cardinality(Receipts(ms)) # 0
  BY ReceiptsOf, FS_CardinalityType, FS_EmptySet
<1> QED
  BY <1>5, <1>6, <1>7

\* The sums of the lengths of lines exist.
LEMMA LengthsDef ==
  ASSUME NEW rs, NEW N \in Nat, N = Cardinality(rs)
  PROVE  Lengths(rs) = [k \in 0 .. N |-> IF k = 0 THEN 0 ELSE Lengths(rs)[k - 1] + Line(rs, k)]
<1> DEFINE Good == {m \in Nat : \E g : g[0] = 0 /\ \A k \in 1 .. m : g[k] = g[k - 1] + Line(rs, k)}
<1>1. 0 \in Good
  <2>1. PICK g : g = [k \in {0} |-> 0]
    OBVIOUS
  <2>2. g[0] = 0 /\ \A k \in 1 .. 0 : g[k] = g[k - 1] + Line(rs, k)
    BY <2>1
  <2> QED
    BY <2>2
<1>2. ASSUME NEW m \in Nat, m \in Good
      PROVE  m + 1 \in Good
  <2>1. PICK g : g[0] = 0 /\ \A k \in 1 .. m : g[k] = g[k - 1] + Line(rs, k)
    BY <1>2
  <2>2. PICK f : f = [k \in 0 .. m + 1 |-> IF k = m + 1 THEN g[m] + Line(rs, m + 1) ELSE g[k]]
    OBVIOUS
  <2>3. f[0] = 0 /\ f[m + 1] = g[m] + Line(rs, m + 1) /\ \A k \in 0 .. m : f[k] = g[k]
    BY <2>1, <2>2
  <2>4. ASSUME NEW k \in 1 .. m + 1
        PROVE  f[k] = f[k - 1] + Line(rs, k)
    <3>1. CASE k = m + 1
      <4>1. k - 1 = m /\ m \in 0 .. m
        BY <3>1
      <4> QED
        BY <2>3, <3>1, <4>1
    <3>2. CASE k # m + 1
      <4>1. k \in 1 .. m /\ k \in 0 .. m /\ k - 1 \in 0 .. m
        BY <3>2
      <4> QED
        BY <2>1, <2>3, <4>1
    <3> QED
      BY <3>1, <3>2
  <2>5. m + 1 \in Nat
    OBVIOUS
  <2> QED
    BY <2>3, <2>4, <2>5
<1>3. N \in Good
  <2> HIDE DEF Good
  <2> QED
    BY <1>1, <1>2, SetInduction
<1>4. PICK g : g[0] = 0 /\ \A k \in 1 .. N : g[k] = g[k - 1] + Line(rs, k)
  BY <1>3
<1>5. PICK f : f = [k \in 0 .. N |-> g[k]]
  OBVIOUS
<1>6. \A k \in 0 .. N : g[k] = IF k = 0 THEN 0 ELSE f[k - 1] + Line(rs, k)
  <2>1. \A k \in 0 .. N : k # 0 => k \in 1 .. N /\ k - 1 \in 0 .. N
    OBVIOUS
  <2> QED
    BY <1>4, <1>5, <2>1
<1>7. f = [k \in 0 .. N |-> IF k = 0 THEN 0 ELSE f[k - 1] + Line(rs, k)]
  BY <1>5, <1>6
<1>8. \E s : s = [k \in 0 .. Cardinality(rs) |-> IF k = 0 THEN 0 ELSE s[k - 1] + Line(rs, k)]
  BY <1>7
<1> QED
  BY <1>8, Zenon DEF Lengths

\* A reply is shown receipts of the run, and some if there are any.
LEMMA Shown ==
  ASSUME NEW ms \in Seq(Msg)
  PROVE  /\ Rendered(Receipts(ms)) \subseteq Receipts(ms)
         /\ Receipts(ms) # {} => Rendered(Receipts(ms)) # {}
<1>0. PICK rs : rs = Receipts(ms)
  OBVIOUS
<1>1. PICK N \in Nat : rs = Receipts(ms) /\ N = Cardinality(rs)
  BY <1>0, ReceiptsOf, FS_CardinalityType
<1>2. Rendered(rs) \subseteq rs
  BY DEF Rendered, Newest
<1>3. ASSUME rs # {}
      PROVE  Rendered(rs) # {}
  <2>1. N > 0 /\ \E r \in rs : r.id = N
    BY <1>1, <1>3, NewestReceipt
  <2>2. Lengths(rs) = [k \in 0 .. N |-> IF k = 0 THEN 0 ELSE Lengths(rs)[k - 1] + Line(rs, k)]
    BY <1>1, LengthsDef
  <2>3. \E t \in Tools : Line(rs, 1) = LineLen[t]
    <3>1. PICK q : q = CHOOSE r \in rs : r.id = Cardinality(rs) - 1 + 1
      OBVIOUS
    <3>2. Cardinality(rs) - 1 + 1 = N
      BY <1>1
    <3>3. q \in rs
      BY <2>1, <3>1, <3>2
    <3>4. q.tool \in Tools
      BY <1>1, <3>3, ReceiptsOf
    <3> QED
      BY <3>1, <3>4 DEF Line
  <2>4. HeaderLen + OmissionLen + Lengths(rs)[1] <= RenderBudget
    <3>1. PICK t \in Tools, x \in Nat : x = LineLen[t] /\ Line(rs, 1) = x
      BY <2>3, RunAssumption
    <3>2. HeaderLen + OmissionLen + x <= RenderBudget
      BY <3>1, RunAssumption
    <3>3. 0 \in 0 .. N /\ 1 \in 0 .. N
      BY <2>1
    <3>4. Lengths(rs)[0] = 0
      BY <2>2, <3>3
    <3>5. Lengths(rs)[1] = Lengths(rs)[1 - 1] + Line(rs, 1)
      BY <2>2, <3>3
    <3>6. Lengths(rs)[1] = x
      BY <3>1, <3>4, <3>5
    <3> QED
      BY <3>2, <3>6
  <2>5. PICK fits : fits = {k \in 0 .. N : HeaderLen + OmissionLen + Lengths(rs)[k] <= RenderBudget}
    OBVIOUS
  <2>6. 1 \in fits /\ fits \subseteq Nat /\ \A k \in fits : k <= N
    BY <2>1, <2>4, <2>5
  <2>7. \E k \in fits : \A j \in fits : j <= k
    BY <2>6, Greatest
  <2>8. PICK k : k = CHOOSE n \in fits : \A j \in fits : j <= n
    OBVIOUS
  <2>9. k \in fits /\ \A j \in fits : j <= k
    BY <2>7, <2>8
  <2>10. k \in Nat /\ k >= 1
    BY <2>6, <2>9
  <2>11. Newest(rs, k) # {}
    <3>1. N > N - k
      BY <2>10
    <3> QED
      BY <1>1, <2>1, <3>1 DEF Newest
  <2>12. Rendered(rs) = rs \/ Rendered(rs) = Newest(rs, k)
    BY <1>1, <2>5, <2>6, <2>8 DEF Rendered
  <2> QED
    BY <1>3, <2>11, <2>12
<1> QED
  BY <1>1, <1>2, <1>3

-----------------------------------------------------------------------------
(* Steps.                                                                    *)

LEMMA AscendingInterval ==
  ASSUME NEW a \in Nat, NEW b \in Nat, NEW S, S = (a + 1) .. (a + b)
  PROVE  Ascending(S) = [i \in 1 .. b |-> a + i]
<1>1. Cardinality(S) = b
  <2>1. a + 1 \in Int /\ a + b \in Int
    OBVIOUS
  <2>2. Cardinality(S) = IF a + 1 > a + b THEN 0 ELSE (a + b) - (a + 1) + 1
    BY <2>1, FS_Interval
  <2> QED
    BY <2>2
<1>2. \A n \in S : Cardinality({m \in S : m <= n}) = n - a
  <2>1. ASSUME NEW n \in S
        PROVE  Cardinality({m \in S : m <= n}) = n - a
    <3>1. {m \in S : m <= n} = (a + 1) .. n
      OBVIOUS
    <3>2. a + 1 \in Int /\ n \in Int /\ ~(a + 1 > n) /\ n - (a + 1) + 1 = n - a
      OBVIOUS
    <3>3. Cardinality((a + 1) .. n) = IF a + 1 > n THEN 0 ELSE n - (a + 1) + 1
      BY <3>2, FS_Interval
    <3> QED
      BY <3>1, <3>2, <3>3
  <2> QED
    BY <2>1
<1>3. ASSUME NEW i \in 1 .. b
      PROVE  (CHOOSE n \in S : Cardinality({m \in S : m <= n}) = i) = a + i
  <2>1. a + i \in S /\ (a + i) - a = i
    OBVIOUS
  <2>2. \A n \in S : Cardinality({m \in S : m <= n}) = i => n = a + i
    BY <1>2
  <2>3. Cardinality({m \in S : m <= a + i}) = i
    BY <1>2, <2>1
  <2> QED
    BY <2>1, <2>2, <2>3
<1> QED
  BY <1>1, <1>3 DEF Ascending

\* Every message is captured once, in order.
LEMMA Captures ==
  ASSUME Inv, NEW new \in Seq(Msg)
  PROVE  Capture(messages \o new) = [i \in 1 .. Len(messages \o new) |-> i]
<1>1. PICK l \in Nat, k \in Nat : l = Len(messages) /\ k = Len(new)
  BY LenProperties DEF Inv, WellFormed
<1>2. Len(messages \o new) = l + k
  BY <1>1, ReceiptsKept DEF Inv, WellFormed
<1>3. captured = [i \in 1 .. l |-> i] /\ cursor = l
  BY <1>1 DEF Inv, StepsOnce
<1>4. ToSet(captured) = 1 .. l
  BY <1>3 DEF ToSet
<1>5. ((l + 1) .. (l + k)) \ (1 .. l) = (l + 1) .. (l + k)
  OBVIOUS
<1>6. Ascending((l + 1) .. (l + k)) = [i \in 1 .. k |-> l + i]
  BY AscendingInterval
<1>7. (IF l + k < l THEN 1 ELSE l + 1) = l + 1
  OBVIOUS
<1>8. Capture(messages \o new) = captured \o [i \in 1 .. k |-> l + i]
  BY <1>2, <1>3, <1>4, <1>5, <1>6, <1>7 DEF Capture
<1>9. PICK p \in Seq(Nat), q \in Seq(Nat) : p = captured /\ q = [i \in 1 .. k |-> l + i]
  <2>1. [i \in 1 .. l |-> i] \in Seq(Nat) /\ [i \in 1 .. k |-> l + i] \in Seq(Nat)
    OBVIOUS
  <2> QED
    BY <1>3, <2>1
<1>10. Len(p) = l /\ Len(q) = k /\ (\A i \in 1 .. l : p[i] = i) /\ (\A i \in 1 .. k : q[i] = l + i)
  BY <1>3, <1>9
<1>11. PICK e \in Seq(Nat) : e = [i \in 1 .. l + k |-> i] /\ Len(e) = l + k
  <2>1. [i \in 1 .. l + k |-> i] \in Seq(Nat) /\ Len([i \in 1 .. l + k |-> i]) = l + k
    OBVIOUS
  <2> QED
    BY <2>1, Zenon
<1>12. p \o q \in Seq(Nat) /\ Len(p \o q) = l + k
  <2>1. p \o q \in Seq(Nat) /\ Len(p \o q) = Len(p) + Len(q)
    BY ConcatProperties
  <2> QED
    BY <1>10, <2>1
<1>13. \A i \in 1 .. l + k : (p \o q)[i] = i
  <2>1. \A i \in 1 .. Len(p) + Len(q) : (p \o q)[i] = IF i <= Len(p) THEN p[i] ELSE q[i - Len(p)]
    BY ConcatProperties
  <2>2. ASSUME NEW i \in 1 .. l + k
        PROVE  (p \o q)[i] = i
    <3>1. (p \o q)[i] = IF i <= l THEN p[i] ELSE q[i - l]
      BY <1>10, <2>1
    <3>2. CASE i <= l
      BY <1>10, <3>1, <3>2
    <3>3. CASE i > l
      <4>1. i - l \in 1 .. k /\ l + (i - l) = i
        BY <3>3
      <4> QED
        BY <1>10, <3>1, <3>3, <4>1
    <3>4. i <= l \/ i > l
      OBVIOUS
    <3> QED
      BY <3>2, <3>3, <3>4
  <2> QED
    BY <2>2
<1>14. p \o q = e
  BY <1>11, <1>12, <1>13, SeqEqual
<1> QED
  BY <1>2, <1>8, <1>9, <1>11, <1>14

\* A chunk of the stream with new messages.
LEMMA ChunkTaken ==
  ASSUME Inv, NEW new \in Seq(Msg), TakeChunk(messages \o new), outcome' = outcome,
         pc \notin {"over"}, pc' \in {"model", "tools", "end"}, Asked(messages', pc'),
         WellFormed(messages')
  PROVE  Inv'
<1>1. messages' = messages \o new /\ cursor' = Len(messages')
  BY DEF TakeChunk
<1>2. StepsOnce'
  BY <1>1, Captures DEF TakeChunk, StepsOnce
<1>3. outcome' = None
  BY DEF Inv
<1>4. holder' = Running(messages', usage', pc')
  <2>1. /\ holder = Running(messages, usage, pc)
        /\ holder' = [holder EXCEPT !.receipts = {Receipts(messages')}, !.usage = usage',
                                    !.findings = Findings(messages')]
    BY <1>1 DEF Inv, TakeChunk
  <2> QED
    BY <2>1 DEF Running
<1>5. Ended'
  BY <1>3 DEF Ended, ResolvedIsExecuted, ResolvedWasShown, WorkAccounted
<1> QED
  BY <1>1, <1>2, <1>3, <1>4, <1>5 DEF Inv

LEMMA InvStart ==
  ASSUME Inv, Start
  PROVE  Inv'
<1>1. PICK e \in Seq(Msg) : e = <<>>
  BY EmptySeq
<1>2. messages = e /\ pc = "start" /\ pc' = "model" /\ TakeChunk(e) /\ outcome' = outcome
  BY <1>1 DEF Inv, Asked, Start
<1>3. messages \o e = e
  BY <1>1, <1>2, ConcatEmptySeq
<1>4. messages' = messages
  BY <1>2 DEF TakeChunk
<1>5. WellFormed(messages') /\ Asked(messages', pc')
  BY <1>2, <1>4 DEF Inv, Asked
<1>6. TakeChunk(messages \o e)
  BY <1>2, <1>3
<1> QED
  BY <1>2, <1>5, <1>6, ChunkTaken

LEMMA InvReplies ==
  ASSUME Inv, NEW calls \in CallLists, NEW say, NEW billed, ModelReplies(calls, say, billed)
  PROVE  Inv'
<1>1. messages \in Seq(Msg) /\ Rendered(Receipts(messages)) \subseteq ReceiptSet
  BY Shown, ReceiptsOf DEF Inv, WellFormed
<1>2. PICK m \in Msg : /\ m = [role |-> "ai", calls |-> calls, ledger |-> Rendered(Receipts(messages))]
                       /\ ~IsTool(m) /\ m.ledger = Rendered(Receipts(messages))
  <2>1. PICK g \in SUBSET ReceiptSet : g = Rendered(Receipts(messages))
    BY <1>1
  <2>2. PICK m : m = [role |-> "ai", calls |-> calls, ledger |-> g]
    OBVIOUS
  <2>3. m \in AIMsg /\ m.role = "ai" /\ m.ledger = g
    BY <2>2 DEF AIMsg
  <2> QED
    BY <2>1, <2>2, <2>3 DEF Msg, IsTool
<1>3. PICK new \in Seq(Msg) : new = <<m>> /\ Len(new) = 1 /\ DOMAIN new = {1} /\ new[1] = m
  <2>1. <<m>> \in Seq(Msg) /\ Len(<<m>>) = 1 /\ DOMAIN <<m>> = 1 .. 1 /\ <<m>>[1] = m
    OBVIOUS
  <2>2. 1 .. 1 = {1}
    OBVIOUS
  <2> QED
    BY <2>1, <2>2
<1>4. messages \o new = Append(messages, m)
  BY <1>1, <1>3
<1>5. TakeChunk(messages \o new) /\ outcome' = outcome /\ pc = "model" /\ pc' \in {"tools", "end"}
  BY <1>2, <1>4 DEF ModelReplies
<1>6. messages' = messages \o new
  BY <1>5 DEF TakeChunk
<1>7. PICK l \in Nat : l = Len(messages) /\ DOMAIN messages = 1 .. l
  BY <1>1, LenProperties
<1>8. /\ messages' \in Seq(Msg) /\ Len(messages') = l + 1 /\ DOMAIN messages' = 1 .. l + 1
      /\ (\A n \in 1 .. l : messages'[n] = messages[n]) /\ messages'[l + 1] = m
      /\ Receipts(messages') = Receipts(messages)
  <2>1. /\ messages \o new \in Seq(Msg) /\ Len(messages \o new) = l + 1
        /\ \A n \in 1 .. l : (messages \o new)[n] = messages[n]
        /\ (messages \o new)[l + 1] = m /\ Receipts(messages \o new) = Receipts(messages)
    <3>1. /\ messages \o new \in Seq(Msg) /\ Len(messages \o new) = Len(messages) + Len(new)
          /\ \A n \in DOMAIN messages : (messages \o new)[n] = messages[n]
          /\ \A n \in DOMAIN new : (messages \o new)[Len(messages) + n] = new[n]
          /\ (\A n \in DOMAIN new : ~IsTool(new[n])) => Receipts(messages \o new) = Receipts(messages)
      BY <1>1, ReceiptsKept
    <3>2. \A n \in DOMAIN new : ~IsTool(new[n])
      BY <1>2, <1>3
    <3>3. Receipts(messages \o new) = Receipts(messages)
      BY <3>1, <3>2
    <3>4. 1 \in DOMAIN new
      BY <1>3
    <3>5. (messages \o new)[l + 1] = m
      BY <1>3, <1>7, <3>1, <3>4
    <3> QED
      BY <1>3, <1>7, <3>1, <3>3, <3>5
  <2> QED
    BY <1>6, <2>1, LenProperties
<1>9. \A n \in 1 .. l + 1 : n \in 1 .. l \/ n = l + 1
  OBVIOUS
<1>10. WellFormed(messages')
  <2>1. \A n \in 1 .. l + 1 : IsTool(messages'[n]) => messages'[n].call[1] + messages'[n].call[2] = n
    BY <1>2, <1>7, <1>8, <1>9 DEF Inv, WellFormed
  <2>2. \A n \in 1 .. l + 1 : ~IsTool(messages'[n]) => messages'[n].ledger \subseteq Receipts(messages')
    BY <1>1, <1>2, <1>7, <1>8, <1>9, Shown DEF Inv, WellFormed
  <2> QED
    BY <1>8, <2>1, <2>2 DEF WellFormed
<1>11. Asked(messages', pc')
  <2>1. Receipts(messages) # {} => m.ledger # {}
    BY <1>1, <1>2, Shown
  <2> QED
    BY <1>2, <1>5, <1>8, <2>1 DEF Asked
<1> QED
  BY <1>5, <1>10, <1>11, ChunkTaken

LEMMA InvTools ==
  ASSUME Inv, ToolsReturn
  PROVE  Inv'
<1>1. messages \in Seq(Msg) /\ pc = "tools" /\ pc' = "model" /\ outcome' = outcome
  BY DEF Inv, WellFormed, ToolsReturn
<1>2. PICK l \in Nat : /\ l = Len(messages) /\ DOMAIN messages = 1 .. l /\ l > 0
                       /\ messages[l] \in Msg /\ ~IsTool(messages[l])
  <2>1. Len(messages) \in Nat /\ DOMAIN messages = 1 .. Len(messages)
    BY <1>1, LenProperties
  <2>2. Len(messages) > 0 /\ ~IsTool(messages[Len(messages)])
    BY <1>1 DEF Inv, Asked
  <2>3. Len(messages) \in DOMAIN messages
    BY <2>1, <2>2
  <2>4. messages[Len(messages)] \in Msg
    BY <1>1, <2>3
  <2> QED
    BY <2>1, <2>2, <2>4, Zenon
<1>3. PICK calls \in Seq(Tools) : calls = messages[l].calls
  BY <1>2, MsgFields, RunAssumption
<1>4. PICK k \in Nat : k = Len(calls) /\ DOMAIN calls = 1 .. k
  BY LenProperties
<1>5. PICK status \in [1 .. k -> {"success", "error"}], stamped \in [1 .. k -> BOOLEAN] :
        TakeChunk(messages \o [i \in 1 .. k |->
          [role |-> "tool", call |-> <<l, i>>, tool |-> calls[i],
           status |-> status[i], stamped |-> stamped[i]]])
  <2>1. \E status \in [DOMAIN messages[Len(messages)].calls -> {"success", "error"}],
           stamped \in [DOMAIN messages[Len(messages)].calls -> BOOLEAN] :
          TakeChunk(messages \o [i \in DOMAIN messages[Len(messages)].calls |->
            [role |-> "tool", call |-> <<Len(messages), i>>,
             tool |-> messages[Len(messages)].calls[i],
             status |-> status[i], stamped |-> stamped[i]]])
    BY Zenon DEF ToolsReturn
  <2>2. Len(messages) = l /\ messages[l].calls = calls /\ DOMAIN calls = 1 .. k
    BY <1>2, <1>3, <1>4
  <2> QED
    BY <2>1, <2>2, Zenon
<1>6. \A i \in 1 .. k :
        LET m == [role |-> "tool", call |-> <<l, i>>, tool |-> calls[i],
                  status |-> status[i], stamped |-> stamped[i]]
        IN  m \in Msg /\ IsTool(m) /\ m.call = <<l, i>>
  <2>1. ASSUME NEW i \in 1 .. k
        PROVE  LET m == [role |-> "tool", call |-> <<l, i>>, tool |-> calls[i],
                         status |-> status[i], stamped |-> stamped[i]]
               IN  m \in Msg /\ IsTool(m) /\ m.call = <<l, i>>
    <3>1. PICK c \in Nat \X Nat, t \in Tools, st \in {"success", "error"}, sp \in BOOLEAN :
            c = <<l, i>> /\ t = calls[i] /\ st = status[i] /\ sp = stamped[i]
      <4>1. <<l, i>> \in Nat \X Nat /\ calls[i] \in Tools
        BY <1>4
      <4>2. status[i] \in {"success", "error"} /\ stamped[i] \in BOOLEAN
        BY <1>5
      <4> QED
        BY <4>1, <4>2
    <3>2. PICK m : m = [role |-> "tool", call |-> c, tool |-> t, status |-> st, stamped |-> sp]
      OBVIOUS
    <3>3. m \in ToolMsg /\ m.role = "tool" /\ m.call = c
      BY <3>2 DEF ToolMsg
    <3>4. m \in Msg /\ IsTool(m) /\ m.call = c
      BY <3>3 DEF Msg, IsTool
    <3> QED
      BY <3>1, <3>2, <3>4
  <2> QED
    BY <2>1
<1>7. PICK new \in Seq(Msg) :
        /\ new = [i \in 1 .. k |-> [role |-> "tool", call |-> <<l, i>>, tool |-> calls[i],
                                    status |-> status[i], stamped |-> stamped[i]]]
        /\ DOMAIN new = 1 .. k /\ Len(new) = k
        /\ \A i \in 1 .. k : IsTool(new[i]) /\ new[i].call = <<l, i>>
  <2>1. PICK f : f = [i \in 1 .. k |-> [role |-> "tool", call |-> <<l, i>>, tool |-> calls[i],
                                        status |-> status[i], stamped |-> stamped[i]]]
    OBVIOUS
  <2>2. \A i \in 1 .. k : f[i] \in Msg /\ IsTool(f[i]) /\ f[i].call = <<l, i>>
    BY <1>6, <2>1
  <2>3. f \in [1 .. k -> Msg]
    BY <2>1, <2>2
  <2>4. f \in Seq(Msg) /\ DOMAIN f = 1 .. k /\ Len(f) = k
    BY <2>3, SeqDef
  <2> QED
    BY <2>1, <2>2, <2>4
<1>8. TakeChunk(messages \o new)
  BY <1>5, <1>7
<1>9. messages' = messages \o new
  BY <1>8 DEF TakeChunk
<1>10. /\ messages' \in Seq(Msg) /\ DOMAIN messages' = 1 .. l + k
       /\ \A n \in 1 .. l : messages'[n] = messages[n]
       /\ \A n \in 1 .. k : messages'[l + n] = new[n]
       /\ Receipts(messages) \subseteq Receipts(messages')
  <2>1. /\ messages \o new \in Seq(Msg) /\ Len(messages \o new) = Len(messages) + Len(new)
        /\ \A n \in DOMAIN messages : (messages \o new)[n] = messages[n]
        /\ \A n \in DOMAIN new : (messages \o new)[Len(messages) + n] = new[n]
        /\ Receipts(messages) \subseteq Receipts(messages \o new)
    BY <1>1, ReceiptsKept
  <2>2. DOMAIN messages' = 1 .. Len(messages')
    BY <1>9, <2>1, LenProperties
  <2> QED
    BY <1>2, <1>7, <1>9, <2>1, <2>2
<1>11. \A n \in 1 .. l + k : n \in 1 .. l \/ \E i \in 1 .. k : n = l + i
  <2>1. \A n \in 1 .. l + k : n > l => n - l \in 1 .. k /\ n = l + (n - l)
    OBVIOUS
  <2> QED
    BY <2>1
<1>12. WellFormed(messages')
  <2>1. \A n \in 1 .. l : IsTool(messages'[n]) => messages'[n].call[1] + messages'[n].call[2] = n
    BY <1>2, <1>10 DEF Inv, WellFormed
  <2>2. \A i \in 1 .. k : messages'[l + i].call[1] + messages'[l + i].call[2] = l + i
    BY <1>7, <1>10
  <2>3. \A n \in 1 .. l + k : IsTool(messages'[n]) => messages'[n].call[1] + messages'[n].call[2] = n
    BY <1>11, <2>1, <2>2
  <2>4. \A n \in 1 .. l : ~IsTool(messages'[n]) => messages'[n].ledger \subseteq Receipts(messages')
    BY <1>2, <1>10 DEF Inv, WellFormed
  <2>5. \A i \in 1 .. k : IsTool(messages'[l + i])
    BY <1>7, <1>10
  <2>6. \A n \in 1 .. l + k : ~IsTool(messages'[n]) => messages'[n].ledger \subseteq Receipts(messages')
    BY <1>11, <2>4, <2>5
  <2> QED
    BY <1>10, <2>3, <2>6 DEF WellFormed
<1>13. Asked(messages', pc')
  BY <1>1 DEF Asked
<1> QED
  BY <1>1, <1>8, <1>12, <1>13, ChunkTaken

-----------------------------------------------------------------------------
(* The ends of a run.                                                        *)

\* What _harvest answers: a ledger some reply was shown, the empty one when
\* there is nothing, or none when no reply was shown anything.
LEMMA Harvested ==
  ASSUME NEW ms, WellFormed(ms)
  PROVE  \/ \E i \in DOMAIN ms : ~IsTool(ms[i]) /\ Harvest(ms) = {ms[i].ledger}
         \/ Harvest(ms) = {{}}
         \/ /\ Harvest(ms) = {} /\ Receipts(ms) # {}
            /\ \A i \in DOMAIN ms : ~IsTool(ms[i]) => ms[i].ledger = {}
<1>1. PICK citing : citing = {i \in DOMAIN ms : ~IsTool(ms[i]) /\ ms[i].ledger # {}}
  OBVIOUS
<1>2. PICK last : last = {n \in citing : \A j \in citing : j <= n}
  OBVIOUS
<1>3. CitingTurn(ms) = {ms[i].ledger : i \in last}
  BY <1>1, <1>2 DEF CitingTurn
<1>4. CASE citing = {}
  <2>1. CitingTurn(ms) = {}
    BY <1>2, <1>3, <1>4
  <2> QED
    BY <1>1, <1>4, <2>1 DEF Harvest
<1>5. CASE citing # {}
  <2>1. PICK l \in Nat : l = Len(ms) /\ DOMAIN ms = 1 .. l
    BY LenProperties DEF WellFormed
  <2>2. citing \subseteq Nat /\ \A i \in citing : i <= l
    BY <1>1, <2>1
  <2>3. PICK i \in citing : \A j \in citing : j <= i
    BY <1>5, <2>1, <2>2, Greatest
  <2>4. last = {i}
    <3>1. i \in last
      BY <1>2, <2>3
    <3>2. ASSUME NEW j \in last
          PROVE  j = i
      <4>1. j \in citing /\ i <= j /\ j <= i
        BY <1>2, <2>3
      <4> QED
        BY <2>2, <2>3, <4>1
    <3> QED
      BY <3>1, <3>2
  <2>5. CitingTurn(ms) = {ms[i].ledger}
    BY <1>3, <2>4
  <2>6. Harvest(ms) = {ms[i].ledger}
    BY <2>5 DEF Harvest
  <2> QED
    BY <1>1, <2>3, <2>6
<1> QED
  BY <1>4, <1>5

\* A verdict is about the ledger that the result carries.
LEMMA Judged ==
  ASSUME NEW h, NEW c, Report(h).verdict # None, c \in Report(h).verdict.resolved
  PROVE  \E r \in UNION h.receipts : /\ r.id = c.id /\ r.status = "success"
                                     /\ c.anchor \in {None, r.tool}
<1>1. Report(h).verdict = Verdict(h.report, UNION h.receipts)
  BY DEF Report
<1>2. c \in Resolved(h.report.cites, UNION h.receipts)
  BY <1>1 DEF Verdict
<1> QED
  BY <1>2 DEF Resolved, ById

LEMMA Terminated ==
  ASSUME Inv, pc # "over", NEW status, NEW report, NEW stop, NEW receipts,
         NEW h, h = TrySetTerminal(holder, status, report, stop, receipts)
  PROVE  /\ h.status = status /\ h.stop = stop /\ h.usage = usage
         /\ h.findings = Findings(messages)
         /\ h.receipts = IF receipts # {} THEN receipts
                         ELSE IF pc = "start" THEN {} ELSE {Receipts(messages)}
<1>1. holder = Running(messages, usage, pc)
  BY DEF Inv
<1>2. holder.status = "RUNNING"
  BY <1>1 DEF Running
<1>3. h = [holder EXCEPT !.status = status, !.stop = stop,
                         !.report = IF report = None THEN @ ELSE report,
                         !.receipts = IF receipts = {} THEN @ ELSE receipts,
                         !.usage = usage]
  BY <1>2 DEF TrySetTerminal
<1> QED
  BY <1>1, <1>3 DEF Running

\* A run that ends by itself: its ledger is the citing turn's, or, when no
\* reply was shown one, that of a capped or failed run.
LEMMA InvOver ==
  ASSUME Inv, pc # "over", NEW status \in {"COMPLETED", "FAILED"}, NEW report, NEW stop,
         NEW receipts, NEW h, h = TrySetTerminal(holder, status, report, stop, receipts), Over(h),
         \/ receipts = Harvest(messages)
         \/ receipts = {} /\ pc = "start",
         receipts = {} => status = "FAILED" \/ stop = "turn_capped"
  PROVE  Inv'
<1>1. /\ h.status = status /\ h.stop = stop /\ h.usage = usage
      /\ h.findings = Findings(messages)
      /\ h.receipts = IF receipts # {} THEN receipts
                      ELSE IF pc = "start" THEN {} ELSE {Receipts(messages)}
  BY Terminated
<1>2. /\ messages' = messages /\ usage' = usage /\ captured' = captured /\ cursor' = cursor
      /\ pc' = "over" /\ outcome' = Report(h)
  BY DEF Over
<1>3. WellFormed(messages)
  BY DEF Inv
<1>4. Report(h).result = h
  BY DEF Report
<1>5. WorkAccounted'
  BY <1>1, <1>2, <1>4 DEF WorkAccounted
<1>6. UNION h.receipts \subseteq Receipts(messages)
  BY <1>1, <1>3, Harvested DEF WellFormed
<1>7. ResolvedIsExecuted'
  <2>1. ASSUME Report(h).verdict # None, NEW c \in Report(h).verdict.resolved
        PROVE  \E n \in Stamped(messages) :
                 /\ Number(messages, n) = c.id /\ messages[n].status = "success"
                 /\ c.anchor \in {None, messages[n].tool}
    <3>1. PICK r \in Receipts(messages) : /\ r.id = c.id /\ r.status = "success"
                                          /\ c.anchor \in {None, r.tool}
      BY <1>6, <2>1, Judged
    <3>2. PICK n \in Stamped(messages) :
            r = [id |-> Number(messages, n), call |-> messages[n].call,
                 tool |-> messages[n].tool, status |-> messages[n].status]
      BY DEF Receipts
    <3> QED
      BY <3>1, <3>2
  <2> QED
    BY <1>2, <2>1 DEF ResolvedIsExecuted
<1>8. ResolvedWasShown'
  <2>1. ASSUME Report(h).verdict # None, NEW c \in Report(h).verdict.resolved
        PROVE  \/ \E i \in AIs : \E r \in messages[i].ledger : r.id = c.id
               \/ h.stop = "turn_capped" /\ \A i \in AIs : messages[i].ledger = {}
    <3>1. PICK r \in UNION h.receipts : r.id = c.id
      BY <2>1, Judged
    <3>2. h.status = "COMPLETED"
      BY <2>1 DEF Report
    <3>3. receipts # {} => receipts = Harvest(messages)
      OBVIOUS
    <3>4. CASE receipts # {}
      <4>1. h.receipts = Harvest(messages)
        BY <1>1, <3>3, <3>4
      <4>2. PICK i \in DOMAIN messages : ~IsTool(messages[i]) /\ Harvest(messages) = {messages[i].ledger}
        BY <1>3, <3>1, <3>3, <3>4, <4>1, Harvested
      <4> QED
        BY <3>1, <4>1, <4>2 DEF AIs
    <3>5. CASE receipts = {}
      <4>1. h.stop = "turn_capped"
        BY <1>1, <3>2, <3>5
      <4>2. pc # "start" /\ Harvest(messages) = {}
        BY <1>1, <3>1, <3>5
      <4> QED
        BY <1>3, <4>1, <4>2, Harvested DEF AIs
    <3> QED
      BY <3>4, <3>5
  <2>2. AIs' = AIs
    BY <1>2 DEF AIs
  <2> QED
    BY <1>2, <1>4, <2>1, <2>2 DEF ResolvedWasShown
<1>9. Asked(messages', pc') /\ WellFormed(messages')
  BY <1>2, <1>3 DEF Asked
<1> QED
  BY <1>2, <1>5, <1>7, <1>8, <1>9 DEF Inv, Ended, StepsOnce

LEMMA InvFinishes ==
  ASSUME Inv, Finishes
  PROVE  Inv'
<1>1. /\ WellFormed(messages) /\ messages \in Seq(Msg) /\ pc = "end"
      /\ Len(messages) > 0 /\ ~IsTool(messages[Len(messages)])
      /\ Receipts(messages) # {} => messages[Len(messages)].ledger # {}
  BY DEF Inv, WellFormed, Asked, Finishes
<1>2. Len(messages) \in DOMAIN messages
  BY <1>1, LenProperties
<1>3. Harvest(messages) # {}
  BY <1>1, <1>2, Harvested
<1>4. PICK h : h = TrySetTerminal(holder, "COMPLETED", FinalResult, None, Harvest(messages))
  OBVIOUS
<1>5. Over(h)
  BY <1>4 DEF Finishes
<1> QED
  BY <1>1, <1>3, <1>4, <1>5, InvOver

LEMMA InvTurnCapped ==
  ASSUME Inv, TurnCapped
  PROVE  Inv'
<1>1. pc # "over"
  BY DEF TurnCapped
<1>2. CASE said.text # "empty"
  <2>1. PICK h : h = TrySetTerminal(holder, "COMPLETED", FinalResult, "turn_capped", Harvest(messages))
    OBVIOUS
  <2>2. Over(h)
    BY <1>2, <2>1 DEF TurnCapped
  <2> QED
    BY <1>1, <2>1, <2>2, InvOver
<1>3. CASE said.text = "empty"
  <2>1. PICK h : h = TrySetTerminal(holder, "FAILED", None, "turn_capped", Harvest(messages))
    OBVIOUS
  <2>2. Over(h)
    BY <1>3, <2>1 DEF TurnCapped
  <2> QED
    BY <1>1, <2>1, <2>2, InvOver
<1> QED
  BY <1>2, <1>3

LEMMA InvRunFails ==
  ASSUME Inv, RunFails
  PROVE  Inv'
<1>1. pc # "over"
  BY DEF RunFails
<1>2. PICK rs : rs = IF pc = "start" THEN {} ELSE Harvest(messages)
  OBVIOUS
<1>3. PICK h : h = TrySetTerminal(holder, "FAILED", None, None, rs)
  OBVIOUS
<1>4. Over(h)
  BY <1>2, <1>3 DEF RunFails
<1> QED
  BY <1>1, <1>2, <1>3, <1>4, InvOver

LEMMA InvAbandoned ==
  ASSUME Inv, NEW status \in {"TIMED_OUT", "CANCELLED"}, Abandoned(status)
  PROVE  Inv'
<1>1. PICK h : h = [status |-> status, report |-> None, stop |-> None,
                    receipts |-> {}, usage |-> {}, findings |-> {}]
  OBVIOUS
<1>2. /\ messages' = messages /\ usage' = usage /\ captured' = captured /\ cursor' = cursor
      /\ pc' = "over" /\ outcome' = Report(h)
  BY <1>1 DEF Abandoned
<1>3. Report(h).result = h /\ Report(h).verdict = None
  BY <1>1 DEF Report
<1>4. WorkAccounted'
  BY <1>1, <1>2, <1>3 DEF WorkAccounted
<1>5. ResolvedIsExecuted' /\ ResolvedWasShown'
  BY <1>2, <1>3 DEF ResolvedIsExecuted, ResolvedWasShown
<1>6. Asked(messages', pc') /\ WellFormed(messages')
  BY <1>2 DEF Inv, Asked
<1> QED
  BY <1>2, <1>4, <1>5, <1>6 DEF Inv, Ended, StepsOnce

-----------------------------------------------------------------------------
(* The theorems.                                                             *)

LEMMA InvInit ==
  ASSUME Init
  PROVE  Inv
<1>1. PICK e \in Seq(Msg) : e = <<>> /\ Len(e) = 0 /\ DOMAIN e = {}
  <2>1. <<>> \in Seq(Msg) /\ Len(<<>>) = 0
    BY EmptySeq
  <2>2. DOMAIN <<>> = 1 .. 0
    BY <2>1, LenProperties
  <2>3. 1 .. 0 = {}
    OBVIOUS
  <2> QED
    BY <2>1, <2>2, <2>3
<1>2. messages = e /\ pc = "start" /\ outcome = None /\ cursor = 0 /\ captured = e /\ usage = {}
  BY <1>1 DEF Init
<1>3. WellFormed(messages) /\ Asked(messages, pc)
  BY <1>1, <1>2 DEF WellFormed, Asked
<1>4. StepsOnce /\ cursor = Len(messages)
  <2>1. [i \in 1 .. 0 |-> i] = <<>>
    OBVIOUS
  <2> QED
    BY <1>1, <1>2, <2>1 DEF StepsOnce
<1>5. Findings(messages) = {}
  BY <1>1, <1>2 DEF Findings
<1>6. holder = Running(messages, usage, pc)
  BY <1>2, <1>5 DEF Init, Running
<1>7. Ended
  BY <1>2 DEF Ended, ResolvedIsExecuted, ResolvedWasShown, WorkAccounted
<1> QED
  BY <1>2, <1>3, <1>4, <1>6, <1>7 DEF Inv

LEMMA InvStep ==
  ASSUME Inv, [Next]_vars
  PROVE  Inv'
<1>1. CASE Start
  BY <1>1, InvStart
<1>2. CASE ToolsReturn
  BY <1>2, InvTools
<1>3. CASE Finishes
  BY <1>3, InvFinishes
<1>4. CASE TurnCapped
  BY <1>4, InvTurnCapped
<1>5. CASE RunFails
  BY <1>5, InvRunFails
<1>6. CASE \E calls \in CallLists, say \in Says, billed \in 0..2 : ModelReplies(calls, say, billed)
  BY <1>6, InvReplies
<1>7. CASE \E status \in {"TIMED_OUT", "CANCELLED"} : Abandoned(status)
  BY <1>7, InvAbandoned
<1>8. CASE UNCHANGED vars
  <2>1. /\ messages' = messages /\ usage' = usage /\ captured' = captured /\ cursor' = cursor
        /\ pc' = pc /\ outcome' = outcome /\ holder' = holder
    BY <1>8 DEF vars
  <2> QED
    BY <2>1 DEF Inv, Ended, StepsOnce, ResolvedIsExecuted, ResolvedWasShown, WorkAccounted, AIs
<1> QED
  BY <1>1, <1>2, <1>3, <1>4, <1>5, <1>6, <1>7, <1>8 DEF Next

\* The messages, the holder and the outcome of a run stay consistent.
THEOREM InvThm == Spec => []Inv
<1>1. Init => Inv
  BY InvInit
<1>2. Inv /\ [Next]_vars => Inv'
  BY InvStep
<1> QED
  BY <1>1, <1>2, PTL DEF Spec

\* A receipt number means one call for the whole run, for every budget of the
\* ledger (receipts.py:161-197): what was shown stays part of the one
\* numbering, and a call has one result in it.
THEOREM IdsStableThm == Spec => []IdsStable
<1>1. ASSUME Inv
      PROVE  IdsStable
  <2>1. messages \in Seq(Msg) /\ \A n \in Stamped(messages) : n \in DOMAIN messages /\ IsTool(messages[n])
    BY <1>1 DEF Inv, WellFormed, Stamped
  <2>2. \A n \in Stamped(messages) : messages[n].call[1] + messages[n].call[2] = n
    BY <1>1, <2>1 DEF Inv, WellFormed
  <2>3. ASSUME NEW r \in Receipts(messages), NEW s \in Receipts(messages)
        PROVE  (r.id = s.id) <=> (r.call = s.call)
    <3>1. PICK n \in Stamped(messages) : r.id = Number(messages, n) /\ r.call = messages[n].call
      BY DEF Receipts
    <3>2. PICK m \in Stamped(messages) : s.id = Number(messages, m) /\ s.call = messages[m].call
      BY DEF Receipts
    <3>3. r.id = s.id <=> n = m
      BY <2>1, <3>1, <3>2, NumbersDistinct
    <3>4. r.call = s.call <=> n = m
      BY <2>2, <3>1, <3>2
    <3> QED
      BY <3>3, <3>4
  <2>4. \A i \in AIs : messages[i].ledger \subseteq Receipts(messages)
    BY <1>1 DEF Inv, WellFormed, AIs
  <2> QED
    BY <2>3, <2>4 DEF IdsStable
<1> QED
  BY <1>1, InvThm, PTL

\* What the verdict counts as resolved is a successful call of this run, under
\* the tool the citation names (receipts.py:257-280).
THEOREM ResolvedIsExecutedThm == Spec => []ResolvedIsExecuted
<1>1. Inv => ResolvedIsExecuted
  BY DEF Inv, Ended
<1> QED
  BY <1>1, InvThm, PTL

\* A citation resolves only to a number some reply was shown, a capped run
\* whose replies were shown no ledger excepted (executor.py:224-237): a ledger
\* of one line always fits, so a run that finished was shown one if there was
\* anything to show.
THEOREM ResolvedWasShownThm == Spec => []ResolvedWasShown
<1>1. Inv => ResolvedWasShown
  BY DEF Inv, Ended
<1> QED
  BY <1>1, InvThm, PTL

\* Every message of the child is handed to on_step once, in order
\* (steps.py:81-104).
THEOREM StepsOnceThm == Spec => []StepsOnce
<1>1. Inv => StepsOnce
  BY DEF Inv
<1> QED
  BY <1>1, InvThm, PTL

\* A run that ended by itself reports all its usage and findings, an abandoned
\* one none (executor.py:174-224, task.py:124-145).
THEOREM WorkAccountedThm == Spec => []WorkAccounted
<1>1. Inv => WorkAccounted
  BY DEF Inv, Ended
<1> QED
  BY <1>1, InvThm, PTL

=============================================================================
