--------------------------- MODULE AgentTurnProofs ---------------------------
(* Theorems about AgentTurn, for all shapes of replies, limits, budgets and  *)
(* windows, and any number of turns and replies.  The repair maps a thread   *)
(* to a thread, so lemmas about sequences and FlattenSeq come first, then    *)
(* where the messages of a thread stand after a repair, then the invariant.  *)
EXTENDS AgentTurn, SequenceTheorems, FiniteSetTheorems, WellFoundedInduction, TLAPS

-----------------------------------------------------------------------------
(* Sequences.                                                                *)

LEMMA Least ==
  ASSUME NEW T, T \subseteq Nat, T # {}
  PROVE  \E x \in T : \A y \in T : x <= y
<1>1. PICK R : R = OpToRel(<, Nat)
  BY Zenon
<1>2. \A x, y \in Nat : x < y => <<x, y>> \in R
  BY <1>1, Zenon DEF OpToRel
<1>3. IsWellFoundedOn(R, Nat)
  BY <1>1, NatLessThanWellFounded, Zenon
<1>4. PICK x \in T : \A y \in T : ~(<<y, x>> \in R)
  BY <1>3, WFMin
<1>5. \A y \in T : y \in Nat
  OBVIOUS
<1>6. \A y \in T : ~(y < x)
  BY <1>2, <1>4, <1>5
<1> QED
  BY <1>5, <1>6

LEMMA SetInduction ==
  ASSUME NEW S, 0 \in S, \A n \in Nat : n \in S => n + 1 \in S
  PROVE  Nat \subseteq S
<1>1. SUFFICES ASSUME Nat \ S # {} PROVE FALSE
  OBVIOUS
<1>2. PICK x \in Nat \ S : \A y \in Nat \ S : x <= y
  BY <1>1, Least
<1>3. x # 0 /\ x - 1 \in Nat /\ ~(x <= x - 1)
  BY <1>2
<1> QED
  BY <1>2, <1>3

\* The recursive function of FlattenSeq exists and is unique.
Flattens(f, s, n) ==
  f = [i \in 1 .. n |-> IF i = 1 THEN s[i] ELSE f[i - 1] \o s[i]]

LEMMA FlattensExists ==
  ASSUME NEW s, NEW n \in Nat
  PROVE  \E f : Flattens(f, s, n)
<1> DEFINE P == {k \in Nat : \E f : Flattens(f, s, k)}
<1>1. 0 \in P
  <2>1. PICK f : f = [i \in 1 .. 0 |-> 0]
    OBVIOUS
  <2>2. Flattens(f, s, 0)
    BY <2>1 DEF Flattens
  <2> QED
    BY <2>2
<1>2. ASSUME NEW k \in Nat, k \in P
      PROVE  k + 1 \in P
  <2>1. PICK f : Flattens(f, s, k)
    BY <1>2
  <2>2. PICK g : g = [i \in 1 .. k + 1 |->
                        IF i = 1 THEN s[i] ELSE f[i - 1] \o s[i]]
    OBVIOUS
  <2>3. \A i \in 1 .. k : f[i] = IF i = 1 THEN s[i] ELSE f[i - 1] \o s[i]
    BY <2>1, Zenon DEF Flattens
  <2>4. \A i \in 1 .. k : i \in 1 .. k + 1
    OBVIOUS
  <2>5. \A i \in 1 .. k : g[i] = f[i]
    BY <2>2, <2>3, <2>4, Zenon
  <2>6. \A i \in 1 .. k + 1 : i # 1 => i - 1 \in 1 .. k
    OBVIOUS
  <2>7. \A i \in 1 .. k + 1 : g[i] = IF i = 1 THEN s[i] ELSE g[i - 1] \o s[i]
    BY <2>2, <2>5, <2>6, Zenon
  <2>8. g = [i \in 1 .. k + 1 |-> IF i = 1 THEN s[i] ELSE g[i - 1] \o s[i]]
    BY <2>2, <2>7, Zenon
  <2>9. Flattens(g, s, k + 1)
    BY <2>8, Zenon DEF Flattens
  <2> QED
    BY <2>9
<1> HIDE DEF P
<1>3. Nat \subseteq P
  BY <1>1, <1>2, SetInduction
<1> QED
  BY <1>3 DEF P

LEMMA FlattenFunction ==
  ASSUME NEW s, Len(s) \in Nat \ {0}
  PROVE  \E f : Flattens(f, s, Len(s)) /\ FlattenSeq(s) = f[Len(s)]
<1>1. Len(s) \in Nat /\ Len(s) # 0
  OBVIOUS
<1>2. PICK f : f = CHOOSE g : g = [i \in 1 .. Len(s) |-> IF i = 1 THEN s[i] ELSE g[i - 1] \o s[i]]
  OBVIOUS
<1>3. \E g : g = [i \in 1 .. Len(s) |-> IF i = 1 THEN s[i] ELSE g[i - 1] \o s[i]]
  BY <1>1, FlattensExists, Zenon DEF Flattens
<1>4. f = [i \in 1 .. Len(s) |-> IF i = 1 THEN s[i] ELSE f[i - 1] \o s[i]]
  BY <1>2, <1>3, Zenon
<1>5. Flattens(f, s, Len(s))
  BY <1>4, Zenon DEF Flattens
<1>6. FlattenSeq(s) = f[Len(s)]
  BY <1>1, <1>2, Zenon DEF FlattenSeq
<1> QED
  BY <1>5, <1>6

LEMMA FlattensUnique ==
  ASSUME NEW s, NEW t, NEW n \in Nat, NEW m \in Nat, NEW f, NEW g,
         Flattens(f, s, n), Flattens(g, t, m), n <= m, \A i \in 1 .. n : s[i] = t[i]
  PROVE  \A i \in 1 .. n : f[i] = g[i]
<1> DEFINE P == {k \in Nat : k \in 1 .. n => f[k] = g[k]}
<1>1. 0 \in P
  OBVIOUS
<1>2. ASSUME NEW k \in Nat, k \in P
      PROVE  k + 1 \in P
  <2>1. SUFFICES ASSUME k + 1 \in 1 .. n
                 PROVE  f[k + 1] = g[k + 1]
    OBVIOUS
  <2>2. k + 1 \in 1 .. m /\ s[k + 1] = t[k + 1] /\ (k + 1) - 1 = k /\ (k + 1 # 1 => k \in 1 .. n)
    BY <2>1
  <2>3. f[k + 1] = IF k + 1 = 1 THEN s[k + 1] ELSE f[(k + 1) - 1] \o s[k + 1]
    BY <2>1, Zenon DEF Flattens
  <2>4. g[k + 1] = IF k + 1 = 1 THEN t[k + 1] ELSE g[(k + 1) - 1] \o t[k + 1]
    BY <2>2, Zenon DEF Flattens
  <2>5. k + 1 # 1 => f[k] = g[k]
    BY <1>2, <2>2
  <2> QED
    BY <2>2, <2>3, <2>4, <2>5, Zenon
<1> HIDE DEF P
<1>3. Nat \subseteq P
  BY <1>1, <1>2, SetInduction
<1>4. ASSUME NEW i \in 1 .. n
      PROVE  f[i] = g[i]
  <2>1. i \in P
    BY <1>3
  <2> QED
    BY <2>1 DEF P
<1> QED
  BY <1>4

LEMMA FlattenEmpty == FlattenSeq(<<>>) = <<>>
  BY DEF FlattenSeq

LEMMA FlattenOne ==
  ASSUME NEW T, NEW y \in Seq(T), Len(y) = 1
  PROVE  FlattenSeq(y) = y[1]
<1>1. PICK f : Flattens(f, y, Len(y)) /\ FlattenSeq(y) = f[Len(y)]
  <2>1. Len(y) \in Nat \ {0}
    OBVIOUS
  <2> QED
    BY <2>1, FlattenFunction
<1>2. Flattens(f, y, 1) /\ FlattenSeq(y) = f[1]
  BY <1>1
<1>3. 1 \in 1 .. 1
  OBVIOUS
<1>4. f[1] = y[1]
  BY <1>2, <1>3, Zenon DEF Flattens
<1> QED
  BY <1>2, <1>4

Prefix(s, a, n, m) ==
  n \in Nat /\ m \in Nat /\ n # 0 /\ m = n + 1 /\ \A i \in 1 .. n : s[i] = a[i]

Longer(f, g, a, n, m) == g[m] = f[n] \o a[m]

LEMMA FlattensLonger ==
  ASSUME NEW s, NEW a, NEW n, NEW m, NEW f, NEW g,
         Flattens(f, s, n), Flattens(g, a, m), Prefix(s, a, n, m)
  PROVE  Longer(f, g, a, n, m)
<1>1. /\ n \in Nat /\ m \in Nat /\ n <= m /\ m # 1 /\ m - 1 = n /\ m \in 1 .. m /\ n \in 1 .. n
      /\ \A i \in 1 .. n : s[i] = a[i]
  BY DEF Prefix
<1>2. \A i \in 1 .. n : f[i] = g[i]
  BY <1>1, FlattensUnique
<1>3. g[m] = g[m - 1] \o a[m]
  BY <1>1, Zenon DEF Flattens
<1> QED
  BY <1>1, <1>2, <1>3 DEF Longer

LEMMA FlattenLonger ==
  ASSUME NEW s, NEW a, NEW n \in Nat, NEW m \in Nat, n # 0, m = n + 1,
         Len(s) = n, Len(a) = m, \A i \in 1 .. n : s[i] = a[i]
  PROVE  FlattenSeq(a) = FlattenSeq(s) \o a[m]
<1>1. /\ n <= m /\ m # 1 /\ m # 0 /\ m - 1 = n /\ m \in 1 .. m /\ n \in 1 .. n
  OBVIOUS
<1>2. PICK f : Flattens(f, s, n) /\ FlattenSeq(s) = f[n]
  <2>1. Len(s) \in Nat \ {0}
    OBVIOUS
  <2>2. \E f : Flattens(f, s, Len(s)) /\ FlattenSeq(s) = f[Len(s)]
    BY <2>1, FlattenFunction
  <2> QED
    BY <2>2
<1>3. PICK g : Flattens(g, a, m) /\ FlattenSeq(a) = g[m]
  <2>1. Len(a) \in Nat \ {0}
    BY <1>1
  <2>2. \E g : Flattens(g, a, Len(a)) /\ FlattenSeq(a) = g[Len(a)]
    BY <2>1, FlattenFunction
  <2> QED
    BY <2>2
<1>4. g[m] = f[n] \o a[m]
  <2>1. Prefix(s, a, n, m)
    BY DEF Prefix
  <2>2. Flattens(f, s, n) /\ Flattens(g, a, m)
    BY <1>2, <1>3
  <2>3. Longer(f, g, a, n, m)
    BY <2>1, <2>2, FlattensLonger, Zenon
  <2> QED
    BY <2>3 DEF Longer
<1> QED
  BY <1>2, <1>3, <1>4

LEMMA FlattenAppend ==
  ASSUME NEW T, NEW s \in Seq(Seq(T)), NEW x \in Seq(T)
  PROVE  FlattenSeq(Append(s, x)) = FlattenSeq(s) \o x
<1>1. PICK a : a = Append(s, x)
  OBVIOUS
<1>2. /\ a \in Seq(Seq(T)) /\ Len(s) \in Nat /\ Len(a) = Len(s) + 1 /\ a[Len(s) + 1] = x
      /\ \A i \in 1 .. Len(s) : s[i] = a[i]
  BY <1>1, AppendProperties, LenProperties
<1>3. CASE s = <<>>
  <2>1. Len(a) = 1 /\ a[1] = x /\ <<>> \o x = x
    BY <1>1, <1>2, <1>3
  <2>2. FlattenSeq(a) = a[1]
    BY <1>2, <2>1, FlattenOne
  <2> QED
    BY <1>1, <1>3, <2>1, <2>2, FlattenEmpty
<1>4. CASE s # <<>>
  <2>1. PICK n \in Nat, m \in Nat : n = Len(s) /\ m = n + 1 /\ n # 0
    <3>1. Len(s) # 0
      BY <1>4, EmptySeq
    <3> QED
      BY <1>2, <3>1
  <2>2. Len(s) = n /\ Len(a) = m /\ a[m] = x /\ \A i \in 1 .. n : s[i] = a[i]
    BY <1>2, <2>1
  <2>3. FlattenSeq(a) = FlattenSeq(s) \o a[m]
    BY <2>1, <2>2, FlattenLonger
  <2> QED
    BY <1>1, <2>2, <2>3
<1> QED
  BY <1>3, <1>4

LEMMA SeqInduction ==
  ASSUME NEW T, NEW Q, <<>> \in Q, \A t \in Seq(T), x \in T : t \in Q => Append(t, x) \in Q
  PROVE  Seq(T) \subseteq Q
<1> DEFINE P == {n \in Nat : \A s \in Seq(T) : Len(s) = n => s \in Q}
<1>1. 0 \in P
  <2>1. \A s \in Seq(T) : Len(s) = 0 => s = <<>>
    BY EmptySeq
  <2> QED
    BY <2>1
<1>2. ASSUME NEW n \in Nat, n \in P
      PROVE  n + 1 \in P
  <2>1. SUFFICES ASSUME NEW s \in Seq(T), Len(s) = n + 1
                 PROVE  s \in Q
    OBVIOUS
  <2>2. s # <<>>
    BY <2>1, EmptySeq
  <2>3. PICK t \in Seq(T), x \in T : s = Append(t, x)
    BY <2>2, SequenceEmptyOrAppend
  <2>4. Len(t) = n
    <3>1. Len(Append(t, x)) = Len(t) + 1 /\ Len(t) \in Nat
      BY AppendProperties, LenProperties
    <3> QED
      BY <2>1, <2>3, <3>1
  <2> QED
    BY <1>2, <2>3, <2>4
<1> HIDE DEF P
<1>3. Nat \subseteq P
  BY <1>1, <1>2, SetInduction
<1>4. ASSUME NEW s \in Seq(T)
      PROVE  s \in Q
  <2>1. Len(s) \in P
    BY <1>3, LenProperties
  <2> QED
    BY <2>1 DEF P
<1> QED
  BY <1>4

\* A map to sequences, flattened.
FlatMap(s, F) == FlattenSeq([n \in DOMAIN s |-> F[s[n]]])

LEMMA MapAppend ==
  ASSUME NEW T, NEW U, NEW F \in [T -> Seq(U)], NEW s \in Seq(T), NEW x \in T
  PROVE  FlatMap(Append(s, x), F) = FlatMap(s, F) \o F[x]
<1>0. PICK a : a = Append(s, x)
  OBVIOUS
<1>1. PICK n \in Nat : n = Len(s)
  BY LenProperties
<1>2. /\ DOMAIN a = 1 .. n + 1 /\ DOMAIN s = 1 .. n /\ a[n + 1] = x
      /\ \A i \in 1 .. n : a[i] = s[i]
  BY <1>0, <1>1, AppendProperties, LenProperties
<1>3. PICK y \in Seq(U) : y = F[x]
  OBVIOUS
<1>4. PICK f : f = [i \in DOMAIN s |-> F[s[i]]]
  OBVIOUS
<1>5. PICK g : g = [i \in DOMAIN a |-> F[a[i]]]
  OBVIOUS
<1>6. \A i \in 1 .. n : s[i] \in T
  BY <1>1, ElementOfSeq
<1>7. f \in [1 .. n -> Seq(U)]
  BY <1>2, <1>4, <1>6
<1>8. f \in Seq(Seq(U)) /\ Len(f) = n
  BY <1>7, SeqDef
<1>9. g = Append(f, y)
  <2>1. Append(f, y) \in [1 .. n + 1 -> Seq(U)]
    BY <1>8, AppendProperties, LenProperties
  <2>2. \A i \in 1 .. n : Append(f, y)[i] = f[i]
    BY <1>8, AppendProperties
  <2>3. Append(f, y)[n + 1] = y
    BY <1>8, AppendProperties
  <2>4. \A i \in 1 .. n : g[i] = f[i]
    BY <1>2, <1>4, <1>5
  <2>5. n + 1 \in DOMAIN a
    BY <1>2
  <2>6. g[n + 1] = y
    BY <1>2, <1>3, <1>5, <2>5
  <2>7. \A i \in 1 .. n + 1 : i \in 1 .. n \/ i = n + 1
    OBVIOUS
  <2>8. \A i \in 1 .. n + 1 : Append(f, y)[i] = g[i]
    BY <2>2, <2>3, <2>4, <2>6, <2>7, Zenon
  <2>9. DOMAIN g = 1 .. n + 1
    BY <1>2, <1>5
  <2>10. g = [i \in 1 .. n + 1 |-> g[i]]
    BY <1>5, <2>9
  <2> QED
    BY <2>1, <2>8, <2>10
<1>10. FlattenSeq(g) = FlattenSeq(f) \o y
  BY <1>8, <1>9, FlattenAppend
<1>11. FlatMap(a, F) = FlatMap(s, F) \o F[x]
  BY <1>3, <1>4, <1>5, <1>10, Zenon DEF FlatMap
<1> QED
  BY <1>0, <1>11

LEMMA MapEmpty ==
  ASSUME NEW F
  PROVE  FlatMap(<<>>, F) = <<>>
<1>1. PICK f : f = [n \in DOMAIN <<>> |-> F[(<<>>)[n]]]
  OBVIOUS
<1>2. DOMAIN f = {} /\ DOMAIN <<>> = {}
  BY <1>1
<1>3. f = <<>>
  BY <1>1, <1>2
<1> QED
  BY <1>1, <1>3, FlattenEmpty DEF FlatMap

\* Only of a sequence with one more element.
LEMMA OnlyAppend ==
  ASSUME NEW T, NEW S, NEW s \in Seq(T), NEW x \in T
  PROVE  /\ x \in S => Only(Append(s, x), S) = Only(s, S) \o <<x>>
         /\ x \notin S => Only(Append(s, x), S) = Only(s, S) \o <<>>
<1>1. PICK F : F = [y \in T |-> IF y \in S THEN <<y>> ELSE <<>>]
  OBVIOUS
<1>2. F \in [T -> Seq(T)]
  BY <1>1
<1>3. ASSUME NEW t \in Seq(T)
      PROVE  Only(t, S) = FlatMap(t, F)
  <2>1. \A n \in DOMAIN t : t[n] \in T
    BY LenProperties, ElementOfSeq
  <2>2. \A n \in DOMAIN t : F[t[n]] = IF t[n] \in S THEN <<t[n]>> ELSE <<>>
    BY <1>1, <2>1
  <2>3. [n \in DOMAIN t |-> F[t[n]]] = [n \in DOMAIN t |-> IF t[n] \in S THEN <<t[n]>> ELSE <<>>]
    BY <2>2, Zenon
  <2> QED
    BY <2>3, Zenon DEF Only, FlatMap
<1>4. PICK a : a = Append(s, x)
  OBVIOUS
<1>5. a \in Seq(T)
  BY <1>4, AppendProperties
<1>6. FlatMap(a, F) = FlatMap(s, F) \o F[x]
  BY <1>2, <1>4, MapAppend
<1>7. Only(a, S) = Only(s, S) \o F[x]
  BY <1>3, <1>5, <1>6, Zenon
<1>8. (x \in S => F[x] = <<x>>) /\ (x \notin S => F[x] = <<>>)
  BY <1>1
<1> QED
  BY <1>4, <1>7, <1>8, Zenon

LEMMA OnlyEmpty ==
  ASSUME NEW S
  PROVE  Only(<<>>, S) = <<>>
<1>1. PICK f : f = [i \in DOMAIN <<>> |-> IF (<<>>)[i] \in S THEN <<(<<>>)[i]>> ELSE <<>>]
  OBVIOUS
<1>2. DOMAIN f = {} /\ DOMAIN <<>> = {}
  BY <1>1
<1>3. f = <<>>
  BY <1>1, <1>2
<1> QED
  BY <1>1, <1>3, FlattenEmpty DEF Only

Distinct(s) == \A i, j \in DOMAIN s : s[i] = s[j] => i = j

LEMMA AppendFacts ==
  ASSUME NEW T, NEW s \in Seq(T), NEW x \in T
  PROVE  /\ Append(s, x) \in Seq(T)
         /\ ToSet(Append(s, x)) = ToSet(s) \cup {x}
         /\ Distinct(Append(s, x)) <=> Distinct(s) /\ x \notin ToSet(s)
<1>0. PICK a : a = Append(s, x)
  OBVIOUS
<1>1. PICK n \in Nat : n = Len(s)
  BY LenProperties
<1>2. /\ a \in Seq(T) /\ DOMAIN a = 1 .. n + 1 /\ DOMAIN s = 1 .. n /\ a[n + 1] = x
      /\ \A i \in 1 .. n : a[i] = s[i]
  BY <1>0, <1>1, AppendProperties, LenProperties
<1>3. 1 .. n + 1 = (1 .. n) \cup {n + 1} /\ n + 1 \notin 1 .. n
  OBVIOUS
<1>4. ToSet(a) = ToSet(s) \cup {x}
  <2>1. ToSet(a) = {a[i] : i \in (1 .. n) \cup {n + 1}}
    BY <1>2, <1>3 DEF ToSet
  <2>2. ToSet(s) = {s[i] : i \in 1 .. n}
    BY <1>2 DEF ToSet
  <2>3. \A z : z \in ToSet(a) <=> z \in ToSet(s) \/ z = x
    BY <1>2, <2>1, <2>2
  <2> QED
    BY <2>3
<1>5. Distinct(a) <=> Distinct(s) /\ x \notin ToSet(s)
  <2>1. ASSUME Distinct(a)
        PROVE  Distinct(s) /\ x \notin ToSet(s)
    <3>1. \A i, j \in (1 .. n) \cup {n + 1} : a[i] = a[j] => i = j
      BY <1>2, <1>3, <2>1 DEF Distinct
    <3>2. \A i \in 1 .. n : a[i] # a[n + 1]
      BY <1>3, <3>1
    <3>3. \A i \in 1 .. n : s[i] # x
      BY <1>2, <3>2
    <3>4. \A i, j \in 1 .. n : s[i] = s[j] => i = j
      BY <1>2, <3>1
    <3> QED
      BY <1>2, <3>3, <3>4 DEF Distinct, ToSet
  <2>2. ASSUME Distinct(s), x \notin ToSet(s)
        PROVE  Distinct(a)
    <3>1. \A i, j \in 1 .. n : a[i] = a[j] => i = j
      BY <1>2, <2>2 DEF Distinct
    <3>2. \A i \in 1 .. n : a[i] # a[n + 1]
      BY <1>2, <2>2 DEF ToSet
    <3>3. \A i, j \in (1 .. n) \cup {n + 1} : a[i] = a[j] => i = j
      BY <3>1, <3>2
    <3> QED
      BY <1>2, <1>3, <3>3 DEF Distinct
  <2> QED
    BY <2>1, <2>2
<1> QED
  BY <1>0, <1>2, <1>4, <1>5

\* What Only returns.
LEMMA OnlyFacts ==
  ASSUME NEW T, NEW S, NEW s \in Seq(T)
  PROVE  /\ Only(s, S) \in Seq(T)
         /\ ToSet(Only(s, S)) = ToSet(s) \cap S
         /\ Distinct(s) => Distinct(Only(s, S))
<1> DEFINE Good(t) == /\ Only(t, S) \in Seq(T)
                      /\ ToSet(Only(t, S)) = ToSet(t) \cap S
                      /\ Distinct(t) => Distinct(Only(t, S))
<1>1. PICK Q : Q = {t \in Seq(T) : Good(t)}
  OBVIOUS
<1>2. <<>> \in Q
  <2>1. ToSet(<<>>) = {}
    BY DEF ToSet
  <2>2. <<>> \in Seq(T)
    OBVIOUS
  <2>3. Only(<<>>, S) = <<>>
    BY OnlyEmpty
  <2>4. Only(<<>>, S) \in Seq(T)
    BY <2>2, <2>3
  <2>5. ToSet(Only(<<>>, S)) = ToSet(<<>>) \cap S
    <3>1. {} \cap S = {}
      OBVIOUS
    <3> QED
      BY <2>1, <2>3, <3>1, Zenon
  <2>6. Distinct(<<>>) => Distinct(Only(<<>>, S))
    BY <2>3, Zenon
  <2> QED
    BY <1>1, <2>2, <2>4, <2>5, <2>6, Zenon
<1>3. ASSUME NEW t \in Seq(T), NEW x \in T, t \in Q
      PROVE  Append(t, x) \in Q
  <2>1. Good(t)
    BY <1>1, <1>3
  <2>2. PICK o : o = Only(t, S)
    OBVIOUS
  <2>3. o \in Seq(T) /\ ToSet(o) = ToSet(t) \cap S /\ (Distinct(t) => Distinct(o))
    BY <2>1, <2>2
  <2>4. /\ Append(t, x) \in Seq(T) /\ ToSet(Append(t, x)) = ToSet(t) \cup {x}
        /\ (Distinct(Append(t, x)) <=> Distinct(t) /\ x \notin ToSet(t))
    BY AppendFacts
  <2>5. CASE x \in S
    <3>1. Only(Append(t, x), S) = Append(o, x)
      <4>1. Only(Append(t, x), S) = o \o <<x>>
        BY <2>2, <2>5, OnlyAppend
      <4> QED
        BY <2>3, <4>1, AppendIsConcat
    <3>2. /\ Append(o, x) \in Seq(T) /\ ToSet(Append(o, x)) = ToSet(o) \cup {x}
          /\ (Distinct(Append(o, x)) <=> Distinct(o) /\ x \notin ToSet(o))
      BY <2>3, AppendFacts
    <3>3. Good(Append(t, x))
      BY <2>3, <2>4, <2>5, <3>1, <3>2
    <3> QED
      BY <1>1, <2>4, <3>3
  <2>6. CASE x \notin S
    <3>1. Only(Append(t, x), S) = o
      <4>1. Only(Append(t, x), S) = o \o <<>>
        BY <2>2, <2>6, OnlyAppend
      <4> QED
        BY <2>3, <4>1, ConcatEmptySeq
    <3>3. Good(Append(t, x))
      BY <2>3, <2>4, <2>6, <3>1
    <3> QED
      BY <1>1, <2>4, <3>3
  <2> QED
    BY <2>5, <2>6
<1>4. Seq(T) \subseteq Q
  BY <1>2, <1>3, SeqInduction
<1> QED
  BY <1>1, <1>4

-----------------------------------------------------------------------------
(* The inductive invariant.                                                  *)

Msg == [role : {"human", "ai", "tool"}, id : Nat, calls : Seq(Calls), args : SUBSET Args,
        text : BOOLEAN, bad : BOOLEAN, usage : BOOLEAN, status : BOOLEAN,
        ans : Calls \cup {None}]

Tool(m) == m.role = "tool"
Ai(m) == m.role = "ai"

\* Only an AIMessage has calls, each once and under its own id; only a
\* ToolMessage answers one, and only a delegation has a subagent_status.
Sound(m) ==
  /\ Tool(m) => m.ans \in Calls /\ ~m.usage /\ (m.status => m.ans.task)
  /\ ~Tool(m) => m.ans = None /\ ~m.status
  /\ ~Ai(m) => m.calls = <<>> /\ ~m.bad /\ ~m.usage
  /\ Distinct(m.calls) /\ \A c \in CallsOf(m) : c.reply = m.id

\* Message n answers a call of message p, and only ToolMessages are between.
Owner(s, n, p) ==
  /\ p \in 1 .. n - 1 /\ s[n].ans \in CallsOf(s[p])
  /\ \A j \in p + 1 .. n : Tool(s[j])

\* What a thread always is: the results follow the reply that asked for them,
\* one for a call.
Ordered(s) ==
  /\ \A n \in DOMAIN s : Sound(s[n])
  /\ \A n, m \in DOMAIN s : Ai(s[n]) /\ Ai(s[m]) /\ s[n].id = s[m].id => n = m
  /\ \A n, m \in DOMAIN s : Tool(s[n]) /\ Tool(s[m]) /\ s[n].ans = s[m].ans => n = m
  /\ \A n \in DOMAIN s : Tool(s[n]) => \E p \in DOMAIN s : Owner(s, n, p)

\* The replies in a thread, of k so far.
Numbered(s, k) == \A n \in DOMAIN s : Ai(s[n]) => s[n].id \in 1 .. k

\* The first k messages have no call without a result.
Answered(s, k) == \A n \in 1 .. k : CallsOf(s[n]) \subseteq Answers(s)

Clean(s) == \A n \in DOMAIN s : ~s[n].bad

LastOf(s) == s[Len(s)]
AfterModel == {"terminal", "budget", "loop", "limit", "tools"}

ThreadInv ==
  /\ thread \in Seq(Msg) /\ Ordered(thread) /\ Numbered(thread, replies)
  /\ pc \in {"input", "model"} => Answered(thread, Len(thread))
  /\ pc = "input" => Clean(thread)
  /\ pc \in AfterModel => /\ thread # <<>> /\ Ai(LastOf(thread))
                          /\ Answered(thread, Len(thread) - 1)

\* The replies of this turn up to k that no budget has counted.
Free(k) == (start + 1 .. k) \ seen
Retries == IF retried THEN 1 ELSE 0

BudgetInv ==
  /\ IsFiniteSet(seen) /\ used = Cardinality(seen)
  /\ pc \in {"repair", "input"} => start = replies
  /\ pc \in {"repair", "input", "model"} => Cardinality(Free(replies)) <= Retries
  /\ pc = "terminal" \/ (pc = "budget" /\ LastOf(thread).calls # <<>>) =>
       /\ LastOf(thread).id = replies /\ LastOf(thread).usage
       /\ Cardinality(Free(replies - 1)) <= Retries
  /\ pc \in {"loop", "limit", "tools"} /\ LastOf(thread).calls # <<>> =>
       Cardinality(Free(replies)) <= Retries /\ used < Budget
  /\ pc = "tools" => LastOf(thread).calls # <<>>

Delegations(s) == {n \in DOMAIN s : s[n].status}
Delegating(m) == {c \in CallsOf(m) : c.task}

LimitInv ==
  /\ TotalLimit
  /\ pc = "tools" =>
       Cardinality(Delegations(thread)) + Cardinality(Delegating(LastOf(thread))) <= MaxTotal

AnswerInv ==
  /\ pc \in {"budget", "loop", "limit"} /\ AnyTool =>
       LastOf(thread).calls # <<>> \/ LastOf(thread).text
  /\ NeverEmptyAnswer

\* Where the program is, and the counters.
CountInv ==
  /\ pc \in PCs /\ retried \in BOOLEAN
  /\ replies \in 0 .. MaxReplies /\ start \in 0 .. replies /\ turns \in 0 .. MaxTurns
  /\ seen \subseteq 1 .. MaxReplies
  /\ history \in Seq(Nat \X Nat \X SUBSET Args) /\ toolHistory \in Seq(BOOLEAN)
  /\ Len(history) <= Window /\ Len(toolHistory) <= Window

TurnInv == CountInv /\ ThreadInv /\ BudgetInv /\ LimitInv /\ AnswerInv

-----------------------------------------------------------------------------
(* Messages and threads.                                                     *)

LEMMA MsgFields ==
  ASSUME NEW m \in Msg
  PROVE  /\ m.role \in {"human", "ai", "tool"} /\ m.id \in Nat /\ m.calls \in Seq(Calls)
         /\ m.args \in SUBSET Args /\ m.text \in BOOLEAN /\ m.bad \in BOOLEAN
         /\ m.usage \in BOOLEAN /\ m.status \in BOOLEAN /\ m.ans \in Calls \cup {None}
         /\ CallsOf(m) \subseteq Calls
<1>1. /\ m.role \in {"human", "ai", "tool"} /\ m.id \in Nat /\ m.calls \in Seq(Calls)
      /\ m.args \in SUBSET Args /\ m.text \in BOOLEAN /\ m.bad \in BOOLEAN
      /\ m.usage \in BOOLEAN /\ m.status \in BOOLEAN /\ m.ans \in Calls \cup {None}
  BY DEF Msg
<1>2. CallsOf(m) \subseteq Calls
  <2>1. \A k \in DOMAIN m.calls : m.calls[k] \in Calls
    BY <1>1, LenProperties, ElementOfSeq
  <2> QED
    BY <2>1 DEF CallsOf, ToSet
<1> QED
  BY <1>1, <1>2

LEMMA NoneIsNoCall == None \notin Calls
<1>1. 0 \notin 1 .. MaxReplies
  BY TurnAssumption
<1> QED
  BY <1>1 DEF None, Calls

LEMMA ThreadFields ==
  ASSUME NEW s \in Seq(Msg)
  PROVE  /\ Len(s) \in Nat /\ DOMAIN s = 1 .. Len(s) /\ \A n \in DOMAIN s : s[n] \in Msg
         /\ s # <<>> => Len(s) \in DOMAIN s /\ LastOf(s) \in Msg
<1>1. Len(s) \in Nat /\ DOMAIN s = 1 .. Len(s)
  BY LenProperties
<1>2. \A n \in 1 .. Len(s) : s[n] \in Msg
  BY ElementOfSeq
<1>3. s # <<>> => Len(s) \in 1 .. Len(s)
  BY <1>1, EmptySeq
<1> QED
  BY <1>1, <1>2, <1>3 DEF LastOf

LEMMA AnswersDef ==
  ASSUME NEW s, NEW c
  PROVE  c \in Answers(s) <=> \E n \in DOMAIN s : Tool(s[n]) /\ s[n].ans = c
  BY DEF Answers, Tool

\* A message with a call is an AIMessage.
LEMMA CallerIsAi ==
  ASSUME NEW m, Sound(m), NEW c \in CallsOf(m)
  PROVE  Ai(m) /\ ~Tool(m) /\ c.reply = m.id
<1>1. m.calls # <<>>
  BY DEF CallsOf, ToSet
<1>2. Ai(m)
  BY <1>1 DEF Sound
<1> QED
  BY <1>2 DEF Sound, Ai, Tool

\* A call belongs to one message.
LEMMA OneCaller ==
  ASSUME NEW s, Ordered(s), NEW n \in DOMAIN s, NEW m \in DOMAIN s,
         NEW c, c \in CallsOf(s[n]), c \in CallsOf(s[m])
  PROVE  n = m
<1>1. Sound(s[n]) /\ Sound(s[m])
  BY DEF Ordered
<1>2. Ai(s[n]) /\ Ai(s[m]) /\ s[n].id = s[m].id
  BY <1>1, CallerIsAi
<1> QED
  BY <1>2, Zenon DEF Ordered

-----------------------------------------------------------------------------
(* What the steps make of a thread.                                          *)

\* A human message or a new reply at the end.
LEMMA AppendMessage ==
  ASSUME NEW s \in Seq(Msg), Ordered(s), NEW m \in Msg, Sound(m), ~Tool(m),
         Ai(m) => \A n \in DOMAIN s : Ai(s[n]) => s[n].id # m.id
  PROVE  /\ Append(s, m) \in Seq(Msg) /\ Ordered(Append(s, m))
         /\ Answers(Append(s, m)) = Answers(s)
         /\ \A k \in 0 .. Len(s) : Answered(s, k) => Answered(Append(s, m), k)
<1>0. PICK a : a = Append(s, m)
  OBVIOUS
<1>1. PICK N \in Nat : N = Len(s)
  BY ThreadFields
<1>2. /\ a \in Seq(Msg) /\ DOMAIN a = 1 .. N + 1 /\ DOMAIN s = 1 .. N /\ a[N + 1] = m
      /\ \A n \in 1 .. N : a[n] = s[n]
  BY <1>0, <1>1, AppendProperties, LenProperties
<1>3. 1 .. N + 1 = (1 .. N) \cup {N + 1} /\ N + 1 \notin 1 .. N
  OBVIOUS
<1>4. \A n \in DOMAIN a : Tool(a[n]) => n \in DOMAIN s
  BY <1>2, <1>3
<1>5. Answers(a) = Answers(s)
  <2>1. \A c : c \in Answers(a) <=> c \in Answers(s)
    <3> TAKE c
    <3>1. c \in Answers(a) <=> \E n \in DOMAIN a : Tool(a[n]) /\ a[n].ans = c
      BY AnswersDef
    <3>2. c \in Answers(s) <=> \E n \in DOMAIN s : Tool(s[n]) /\ s[n].ans = c
      BY AnswersDef
    <3> QED
      BY <1>2, <1>3, <1>4, <3>1, <3>2
  <2> QED
    BY <2>1
<1>6. \A n \in DOMAIN a : Sound(a[n])
  BY <1>2, <1>3 DEF Ordered
<1>7. \A n, k \in DOMAIN a : Ai(a[n]) /\ Ai(a[k]) /\ a[n].id = a[k].id => n = k
  <2>1. \A n, k \in 1 .. N : Ai(a[n]) /\ Ai(a[k]) /\ a[n].id = a[k].id => n = k
    BY <1>2, Zenon DEF Ordered
  <2>2. \A n \in 1 .. N : Ai(a[n]) /\ Ai(a[N + 1]) => a[n].id # a[N + 1].id
    BY <1>2, Zenon
  <2> QED
    BY <1>2, <1>3, <2>1, <2>2
<1>8. \A n, k \in DOMAIN a : Tool(a[n]) /\ Tool(a[k]) /\ a[n].ans = a[k].ans => n = k
  <2>1. \A n, k \in 1 .. N : Tool(a[n]) /\ Tool(a[k]) /\ a[n].ans = a[k].ans => n = k
    BY <1>2, Zenon DEF Ordered
  <2> QED
    BY <1>2, <1>4, <2>1
<1>9. ASSUME NEW n \in DOMAIN a, Tool(a[n])
      PROVE  \E p \in DOMAIN a : Owner(a, n, p)
  <2>1. n \in 1 .. N
    BY <1>2, <1>4, <1>9
  <2>2. PICK p \in DOMAIN s : Owner(s, n, p)
    BY <1>2, <1>9, <2>1 DEF Ordered
  <2>3. p \in 1 .. n - 1 /\ s[n].ans \in CallsOf(s[p]) /\ \A j \in p + 1 .. n : Tool(s[j])
    BY <2>2 DEF Owner
  <2>4. p \in 1 .. N /\ \A j \in p + 1 .. n : j \in 1 .. N
    BY <2>1, <2>3
  <2>5. Owner(a, n, p)
    BY <1>2, <2>1, <2>3, <2>4 DEF Owner
  <2> QED
    BY <1>2, <1>3, <2>4, <2>5
<1>10. Ordered(a)
  BY <1>6, <1>7, <1>8, <1>9 DEF Ordered
<1>11. ASSUME NEW k \in 0 .. Len(s), Answered(s, k)
       PROVE  Answered(a, k)
  <2>1. \A n \in 1 .. k : n \in 1 .. N
    BY <1>1
  <2> QED
    BY <1>2, <1>5, <1>11, <2>1 DEF Answered
<1> QED
  BY <1>0, <1>2, <1>5, <1>10, <1>11

\* The results in a thread are not those of its last message, a reply.
LEMMA LastUnanswered ==
  ASSUME NEW s \in Seq(Msg), Ordered(s), s # <<>>, Ai(LastOf(s)), NEW n \in DOMAIN s, Tool(s[n])
  PROVE  n \in 1 .. Len(s) - 1 /\ s[n].ans \notin CallsOf(LastOf(s))
<1>1. Len(s) \in Nat /\ DOMAIN s = 1 .. Len(s) /\ Len(s) \in DOMAIN s
  BY ThreadFields
<1>2. n # Len(s)
  BY DEF LastOf, Ai, Tool
<1>3. n \in 1 .. Len(s) - 1
  BY <1>1, <1>2
<1>4. PICK p \in DOMAIN s : Owner(s, n, p)
  BY DEF Ordered
<1>5. p \in 1 .. n - 1 /\ s[n].ans \in CallsOf(s[p])
  BY <1>4 DEF Owner
<1>6. p # Len(s)
  BY <1>1, <1>3, <1>5
<1>7. s[n].ans \in CallsOf(LastOf(s)) => p = Len(s)
  BY <1>1, <1>5, OneCaller DEF LastOf
<1> QED
  BY <1>3, <1>6, <1>7

\* The middleware puts another version of the last reply in its place.
LEMMA ReplaceReply ==
  ASSUME NEW s \in Seq(Msg), Ordered(s), s # <<>>, Ai(LastOf(s)),
         NEW m \in Msg, Sound(m), Ai(m), m.id = LastOf(s).id
  PROVE  LET t == [s EXCEPT ![Len(s)] = m]
         IN  /\ t \in Seq(Msg) /\ Ordered(t) /\ t # <<>> /\ LastOf(t) = m /\ Len(t) = Len(s)
             /\ Answers(t) = Answers(s)
             /\ \A n \in 1 .. Len(s) - 1 : t[n] = s[n]
             /\ Answered(s, Len(s) - 1) => Answered(t, Len(s) - 1)
<1>0. PICK t : t = [s EXCEPT ![Len(s)] = m]
  OBVIOUS
<1>1. PICK N \in Nat : N = Len(s) /\ N # 0
  BY ThreadFields, EmptySeq
<1>2. /\ t \in Seq(Msg) /\ Len(t) = N /\ DOMAIN t = 1 .. N /\ DOMAIN s = 1 .. N /\ t[N] = m
      /\ N \in 1 .. N /\ \A n \in 1 .. N : n # N => t[n] = s[n]
  BY <1>0, <1>1, ExceptSeq, LenProperties
<1>3. t # <<>> /\ LastOf(t) = m
  BY <1>1, <1>2, EmptySeq DEF LastOf
<1>4. \A n \in 1 .. N - 1 : n \in 1 .. N /\ n # N
  BY <1>1
<1>5. Ai(s[N]) /\ ~Tool(s[N]) /\ ~Tool(m) /\ m.id = s[N].id
  BY <1>1 DEF LastOf, Ai, Tool
<1>6. \A n \in 1 .. N : /\ Ai(t[n]) <=> Ai(s[n])
                        /\ Tool(t[n]) <=> Tool(s[n])
                        /\ Ai(t[n]) => t[n].id = s[n].id
                        /\ Tool(t[n]) => t[n].ans = s[n].ans /\ n # N
  BY <1>2, <1>5
<1>7. Answers(t) = Answers(s)
  <2>1. \A c : c \in Answers(t) <=> c \in Answers(s)
    <3> TAKE c
    <3>1. c \in Answers(t) <=> \E n \in 1 .. N : Tool(t[n]) /\ t[n].ans = c
      BY <1>2, AnswersDef
    <3>2. c \in Answers(s) <=> \E n \in 1 .. N : Tool(s[n]) /\ s[n].ans = c
      BY <1>2, AnswersDef
    <3> QED
      BY <1>6, <3>1, <3>2
  <2> QED
    BY <2>1
<1>8. \A n \in DOMAIN t : Sound(t[n])
  BY <1>2 DEF Ordered
<1>9. \A n, k \in DOMAIN t : Ai(t[n]) /\ Ai(t[k]) /\ t[n].id = t[k].id => n = k
  BY <1>2, <1>6 DEF Ordered
<1>10. \A n, k \in DOMAIN t : Tool(t[n]) /\ Tool(t[k]) /\ t[n].ans = t[k].ans => n = k
  BY <1>2, <1>6 DEF Ordered
<1>11. ASSUME NEW n \in DOMAIN t, Tool(t[n])
       PROVE  \E p \in DOMAIN t : Owner(t, n, p)
  <2>1. n \in 1 .. N /\ n # N /\ Tool(s[n]) /\ t[n].ans = s[n].ans
    BY <1>2, <1>6, <1>11
  <2>2. PICK p \in DOMAIN s : Owner(s, n, p)
    BY <1>2, <2>1 DEF Ordered
  <2>3. p \in 1 .. n - 1 /\ s[n].ans \in CallsOf(s[p]) /\ \A j \in p + 1 .. n : Tool(s[j])
    BY <2>2 DEF Owner
  <2>4. p \in 1 .. N /\ p # N /\ \A j \in p + 1 .. n : j \in 1 .. N
    BY <2>1, <2>3
  <2>5. t[p] = s[p] /\ \A j \in p + 1 .. n : Tool(t[j])
    BY <1>2, <1>6, <2>3, <2>4
  <2>6. Owner(t, n, p)
    BY <2>1, <2>3, <2>5 DEF Owner
  <2> QED
    BY <1>2, <2>4, <2>6
<1>12. Ordered(t)
  BY <1>8, <1>9, <1>10, <1>11 DEF Ordered
<1>13. Answered(s, N - 1) => Answered(t, N - 1)
  BY <1>2, <1>4, <1>7 DEF Answered
<1> QED
  BY <1>0, <1>1, <1>2, <1>3, <1>4, <1>7, <1>12, <1>13

\* TerminalResponseMiddleware takes the last reply back.
LEMMA DropReply ==
  ASSUME NEW s \in Seq(Msg), Ordered(s), s # <<>>, Ai(LastOf(s)), Answered(s, Len(s) - 1)
  PROVE  LET t == SubSeq(s, 1, Len(s) - 1)
         IN  /\ t \in Seq(Msg) /\ Ordered(t) /\ Len(t) = Len(s) - 1
             /\ \A n \in 1 .. Len(s) - 1 : t[n] = s[n]
             /\ Answered(t, Len(t))
<1>0. PICK t : t = SubSeq(s, 1, Len(s) - 1)
  OBVIOUS
<1>1. PICK N \in Nat : N = Len(s) - 1
  <2>1. Len(s) - 1 \in Nat
    BY EmptySeq
  <2> QED
    BY <2>1
<1>2. /\ t \in Seq(Msg) /\ Len(t) = N /\ DOMAIN t = 1 .. N /\ DOMAIN s = 1 .. N + 1
      /\ \A n \in 1 .. N : t[n] = s[n]
  <2>1. Len(s) = N + 1 /\ DOMAIN s = 1 .. N + 1
    BY <1>1, ThreadFields
  <2>2. \A n \in 1 .. N : s[n] \in Msg
    BY <2>1, ThreadFields
  <2>3. 1 \in 1 .. Len(s) + 1 /\ N \in 1 - 1 .. Len(s) /\ t = SubSeq(s, 1, N)
    BY <1>0, <1>1, <2>1
  <2>4. t \in Seq(Msg) /\ Len(t) = N /\ \A n \in 1 .. N : t[n] = s[n]
    BY <2>2, <2>3
  <2> QED
    BY <2>1, <2>4, LenProperties
<1>3. 1 .. N + 1 = (1 .. N) \cup {N + 1} /\ N + 1 \notin 1 .. N /\ Len(s) = N + 1
  BY <1>1
<1>4. ASSUME NEW n \in DOMAIN s, Tool(s[n])
      PROVE  n \in 1 .. N
  BY <1>1, <1>4, LastUnanswered
<1>5. Answers(t) = Answers(s)
  <2>1. \A c : c \in Answers(t) <=> c \in Answers(s)
    <3> TAKE c
    <3>1. c \in Answers(t) <=> \E n \in DOMAIN t : Tool(t[n]) /\ t[n].ans = c
      BY AnswersDef
    <3>2. c \in Answers(s) <=> \E n \in DOMAIN s : Tool(s[n]) /\ s[n].ans = c
      BY AnswersDef
    <3> QED
      BY <1>2, <1>3, <1>4, <3>1, <3>2
  <2> QED
    BY <2>1
<1>6. \A n \in DOMAIN t : Sound(t[n])
  BY <1>2, <1>3 DEF Ordered
<1>7. \A n, k \in DOMAIN t : Ai(t[n]) /\ Ai(t[k]) /\ t[n].id = t[k].id => n = k
  BY <1>2, <1>3 DEF Ordered
<1>8. \A n, k \in DOMAIN t : Tool(t[n]) /\ Tool(t[k]) /\ t[n].ans = t[k].ans => n = k
  BY <1>2, <1>3 DEF Ordered
<1>9. ASSUME NEW n \in DOMAIN t, Tool(t[n])
      PROVE  \E p \in DOMAIN t : Owner(t, n, p)
  <2>1. n \in 1 .. N /\ n \in DOMAIN s /\ Tool(s[n]) /\ t[n] = s[n]
    BY <1>2, <1>3, <1>9
  <2>2. PICK p \in DOMAIN s : Owner(s, n, p)
    BY <2>1 DEF Ordered
  <2>3. p \in 1 .. n - 1 /\ s[n].ans \in CallsOf(s[p]) /\ \A j \in p + 1 .. n : Tool(s[j])
    BY <2>2 DEF Owner
  <2>4. p \in 1 .. N /\ \A j \in p + 1 .. n : j \in 1 .. N
    BY <2>1, <2>3
  <2>5. Owner(t, n, p)
    BY <1>2, <2>1, <2>3, <2>4 DEF Owner
  <2> QED
    BY <1>2, <2>4, <2>5
<1>10. Ordered(t)
  BY <1>6, <1>7, <1>8, <1>9 DEF Ordered
<1>11. Answered(t, N)
  BY <1>1, <1>2, <1>5 DEF Answered
<1> QED
  BY <1>0, <1>1, <1>2, <1>10, <1>11

\* Results for calls of the last reply, one for a call, and nothing else.
ResultsFor(r, m) ==
  /\ r \in Seq(Msg)
  /\ \A k \in DOMAIN r : Tool(r[k]) /\ Sound(r[k]) /\ r[k].calls = <<>> /\ r[k].ans \in CallsOf(m)
  /\ \A j, k \in DOMAIN r : r[j].ans = r[k].ans => j = k

LEMMA AddResults ==
  ASSUME NEW s \in Seq(Msg), Ordered(s), s # <<>>, Ai(LastOf(s)),
         NEW r, ResultsFor(r, LastOf(s))
  PROVE  /\ s \o r \in Seq(Msg) /\ Ordered(s \o r) /\ Len(s \o r) = Len(s) + Len(r)
         /\ \A n \in DOMAIN s : (s \o r)[n] = s[n]
         /\ \A k \in DOMAIN r : (s \o r)[Len(s) + k] = r[k]
         /\ Answered(s, Len(s) - 1) /\ CallsOf(LastOf(s)) = {r[k].ans : k \in DOMAIN r}
              => Answered(s \o r, Len(s \o r))
<1>0. PICK t : t = s \o r
  OBVIOUS
<1>1. PICK N \in Nat : N = Len(s) /\ N # 0
  BY ThreadFields, EmptySeq
<1>2. PICK M \in Nat : M = Len(r) /\ DOMAIN r = 1 .. M
  BY LenProperties DEF ResultsFor
<1>3. /\ t \in Seq(Msg) /\ Len(t) = N + M /\ DOMAIN t = 1 .. N + M /\ DOMAIN s = 1 .. N
      /\ \A n \in 1 .. N : t[n] = s[n]
      /\ \A k \in 1 .. M : t[N + k] = r[k]
  <2>1. r \in Seq(Msg) /\ Len(r) = M
    BY <1>2 DEF ResultsFor
  <2>2. t \in Seq(Msg) /\ Len(t) = N + M /\ DOMAIN s = 1 .. N
    BY <1>0, <1>1, <2>1, ConcatProperties, LenProperties
  <2>3. \A n \in 1 .. N : t[n] = s[n]
    BY <1>0, <1>1, <2>1
  <2>4. \A k \in 1 .. M : t[N + k] = r[k]
    BY <1>0, <1>1, <2>1
  <2> QED
    BY <2>2, <2>3, <2>4, LenProperties
<1>4. \A n \in 1 .. N + M : n \in 1 .. N \/ (n - N \in 1 .. M /\ n = N + (n - N) /\ n \notin 1 .. N)
  OBVIOUS
<1>5. \A k \in 1 .. M : /\ Tool(t[N + k]) /\ Sound(t[N + k]) /\ t[N + k].calls = <<>>
                        /\ t[N + k].ans \in CallsOf(s[N])
  <2>1. \A k \in 1 .. M : Tool(r[k]) /\ Sound(r[k]) /\ r[k].calls = <<>> /\ r[k].ans \in CallsOf(s[N])
    BY <1>1, <1>2 DEF ResultsFor, LastOf
  <2> QED
    BY <1>3, <2>1, Zenon
<1>6. Ai(s[N]) /\ N \in 1 .. N
  BY <1>1 DEF LastOf
<1>7. \A n \in DOMAIN t : n \notin 1 .. N =>
         Tool(t[n]) /\ Sound(t[n]) /\ t[n].calls = <<>> /\ t[n].ans \in CallsOf(s[N])
  <2> SUFFICES ASSUME NEW n \in DOMAIN t, n \notin 1 .. N
               PROVE  Tool(t[n]) /\ Sound(t[n]) /\ t[n].calls = <<>> /\ t[n].ans \in CallsOf(s[N])
    OBVIOUS
  <2>1. PICK k \in 1 .. M : n = N + k
    BY <1>3, <1>4
  <2> QED
    BY <1>5, <2>1, Zenon
<1>8. \A n \in DOMAIN t : Sound(t[n])
  <2>1. \A n \in 1 .. N : Sound(t[n])
    BY <1>3 DEF Ordered
  <2> QED
    BY <1>7, <2>1
<1>9. \A n, k \in DOMAIN t : Ai(t[n]) /\ Ai(t[k]) /\ t[n].id = t[k].id => n = k
  <2>1. \A n, k \in 1 .. N : Ai(t[n]) /\ Ai(t[k]) /\ t[n].id = t[k].id => n = k
    BY <1>3 DEF Ordered
  <2>2. \A n \in DOMAIN t : Ai(t[n]) => n \in 1 .. N
    BY <1>7 DEF Ai, Tool
  <2> QED
    BY <2>1, <2>2
<1>10. \A n \in 1 .. N : Tool(s[n]) => s[n].ans \notin CallsOf(s[N])
  BY <1>1, <1>3, LastUnanswered DEF LastOf
<1>11. \A n, k \in DOMAIN t : Tool(t[n]) /\ Tool(t[k]) /\ t[n].ans = t[k].ans => n = k
  <2>1. \A n, k \in 1 .. N : Tool(t[n]) /\ Tool(t[k]) /\ t[n].ans = t[k].ans => n = k
    BY <1>3 DEF Ordered
  <2>2. \A n, k \in DOMAIN t : n \in 1 .. N /\ Tool(t[n]) /\ k \notin 1 .. N => t[n].ans # t[k].ans
    BY <1>3, <1>7, <1>10
  <2>3. ASSUME NEW n \in DOMAIN t, NEW k \in DOMAIN t, n \notin 1 .. N, k \notin 1 .. N,
               t[n].ans = t[k].ans
        PROVE  n = k
    <3>1. n - N \in 1 .. M /\ k - N \in 1 .. M /\ n = N + (n - N) /\ k = N + (k - N)
      BY <1>3, <1>4, <2>3
    <3>2. t[n] = r[n - N] /\ t[k] = r[k - N]
      BY <1>3, <3>1
    <3>3. n - N = k - N
      BY <1>2, <2>3, <3>1, <3>2 DEF ResultsFor
    <3> QED
      BY <3>1, <3>3
  <2> QED
    BY <2>1, <2>2, <2>3
<1>12. ASSUME NEW n \in DOMAIN t, Tool(t[n])
       PROVE  \E p \in DOMAIN t : Owner(t, n, p)
  <2>1. CASE n \in 1 .. N
    <3>1. n \in DOMAIN s /\ Tool(s[n]) /\ t[n] = s[n]
      BY <1>3, <1>12, <2>1
    <3>2. PICK p \in DOMAIN s : Owner(s, n, p)
      BY <3>1 DEF Ordered
    <3>3. p \in 1 .. n - 1 /\ s[n].ans \in CallsOf(s[p]) /\ \A j \in p + 1 .. n : Tool(s[j])
      BY <3>2 DEF Owner
    <3>4. p \in 1 .. N /\ \A j \in p + 1 .. n : j \in 1 .. N
      BY <2>1, <3>3
    <3>5. Owner(t, n, p)
      BY <1>3, <3>1, <3>3, <3>4 DEF Owner
    <3> QED
      BY <1>3, <3>4, <3>5
  <2>2. CASE n \notin 1 .. N
    <3>1. N \in 1 .. n - 1 /\ \A j \in N + 1 .. n : j \in DOMAIN t /\ j \notin 1 .. N
      BY <1>1, <1>3, <2>2
    <3>2. Owner(t, n, N)
      BY <1>3, <1>6, <1>7, <2>2, <3>1 DEF Owner
    <3> QED
      BY <1>3, <1>6, <3>2
  <2> QED
    BY <2>1, <2>2
<1>13. Ordered(t)
  BY <1>8, <1>9, <1>11, <1>12 DEF Ordered
<1>14. ASSUME Answered(s, N - 1), CallsOf(LastOf(s)) = {r[k].ans : k \in DOMAIN r}
       PROVE  Answered(t, N + M)
  <2>1. Answers(s) \subseteq Answers(t)
    <3>1. ASSUME NEW c \in Answers(s)
          PROVE  c \in Answers(t)
      <4>1. PICK n \in DOMAIN s : Tool(s[n]) /\ s[n].ans = c
        BY AnswersDef
      <4>2. n \in DOMAIN t /\ t[n] = s[n]
        BY <1>3
      <4> QED
        BY <4>1, <4>2, AnswersDef
    <3> QED
      BY <3>1
  <2>2. \A n \in 1 .. N - 1 : CallsOf(t[n]) \subseteq Answers(t)
    BY <1>3, <1>14, <2>1 DEF Answered
  <2>3. CallsOf(t[N]) \subseteq Answers(t)
    <3>1. ASSUME NEW c \in CallsOf(s[N])
          PROVE  c \in Answers(t)
      <4>1. PICK k \in 1 .. M : r[k].ans = c
        BY <1>1, <1>2, <1>14 DEF LastOf
      <4>2. N + k \in DOMAIN t /\ Tool(t[N + k]) /\ t[N + k].ans = c
        <5>1. N + k \in DOMAIN t
          BY <1>3
        <5> QED
          BY <1>3, <1>5, <4>1, <5>1, Zenon
      <4> QED
        BY <4>2, AnswersDef
    <3> QED
      BY <1>3, <1>6, <3>1
  <2>4. \A n \in DOMAIN t : n \notin 1 .. N => CallsOf(t[n]) = {}
    BY <1>7 DEF CallsOf, ToSet
  <2>5. \A n \in 1 .. N + M : n \in 1 .. N - 1 \/ n = N \/ n \notin 1 .. N
    OBVIOUS
  <2> QED
    BY <1>3, <2>2, <2>3, <2>4, <2>5 DEF Answered
<1> QED
  BY <1>0, <1>1, <1>2, <1>3, <1>13, <1>14

\* SummarizationMiddleware: a summary and the messages from n on.
LEMMA CompactThread ==
  ASSUME NEW s \in Seq(Msg), Ordered(s), Answered(s, Len(s)),
         NEW n \in 1 .. Len(s), ~Tool(s[n]), Sound(Human), Human \in Msg
  PROVE  LET t == <<Human>> \o SubSeq(s, n, Len(s))
         IN  /\ t \in Seq(Msg) /\ Ordered(t) /\ Answered(t, Len(t))
             /\ \A k \in DOMAIN t : t[k] = Human \/ (k + n - 2 \in DOMAIN s /\ t[k] = s[k + n - 2])
<1>0. PICK t : t = <<Human>> \o SubSeq(s, n, Len(s))
  OBVIOUS
<1>1. PICK N \in Nat : N = Len(s) /\ DOMAIN s = 1 .. N
  BY ThreadFields
<1>2. PICK M \in Nat : M = N - n + 1 /\ n \in Nat /\ n <= N /\ 0 < n
  <2>1. n \in 1 .. N
    BY <1>1
  <2>2. N - n + 1 \in Nat
    BY <2>1
  <2> QED
    BY <2>1, <2>2
<1>3. PICK q : q = SubSeq(s, n, N)
  OBVIOUS
<1>4. q \in Seq(Msg) /\ Len(q) = M /\ \A k \in 1 .. M : q[k] = s[n + k - 1]
  <2>1. n \in Int /\ N \in Int /\ \A i \in n .. N : s[i] \in Msg
    BY <1>1, <1>2, ThreadFields
  <2> QED
    BY <1>2, <1>3, <2>1, SubSeqProperties
<1>5. /\ t \in Seq(Msg) /\ Len(t) = M + 1 /\ DOMAIN t = 1 .. M + 1 /\ t[1] = Human
      /\ \A k \in 1 .. M : t[1 + k] = q[k]
  <2>1. PICK h : h = <<Human>>
    OBVIOUS
  <2>2. h \in Seq(Msg) /\ Len(h) = 1 /\ h[1] = Human
    BY <2>1
  <2>3. t = h \o q
    BY <1>0, <1>1, <1>3, <2>1
  <2>4. t \in Seq(Msg) /\ Len(t) = M + 1 /\ DOMAIN t = 1 .. M + 1
    <3>1. h \o q \in Seq(Msg) /\ Len(h \o q) = Len(h) + Len(q)
      BY <1>4, <2>2, ConcatProperties
    <3>2. Len(t) = M + 1
      BY <1>4, <2>2, <2>3, <3>1
    <3> QED
      BY <2>3, <3>1, <3>2, LenProperties
  <2>5. t[1] = Human /\ \A k \in 1 .. M : t[1 + k] = q[k]
    <3>1. \A i \in 1 .. 1 + M : t[i] = IF i <= 1 THEN h[i] ELSE q[i - 1]
      <4>1. h \in Seq(Msg) /\ q \in Seq(Msg)
        BY <1>4, <2>2
      <4>2. \A i \in 1 .. Len(h) + Len(q) : (h \o q)[i] = IF i <= Len(h) THEN h[i] ELSE q[i - Len(h)]
        BY <4>1, ConcatProperties
      <4> QED
        BY <1>4, <2>2, <2>3, <4>2, Zenon
    <3>2. \A k \in 1 .. M : 1 + k \in 1 .. 1 + M /\ ~(1 + k <= 1) /\ (1 + k) - 1 = k
      OBVIOUS
    <3>3. 1 \in 1 .. 1 + M /\ 1 <= 1
      OBVIOUS
    <3> QED
      BY <2>2, <3>1, <3>2, <3>3
  <2> QED
    BY <2>4, <2>5
<1>6. ASSUME NEW k \in 2 .. M + 1
      PROVE  k + n - 2 \in n .. N /\ t[k] = s[k + n - 2]
  <2>1. k - 1 \in 1 .. M /\ 1 + (k - 1) = k /\ n + (k - 1) - 1 = k + n - 2 /\ k + n - 2 \in n .. N
    BY <1>2
  <2>2. t[k] = q[k - 1] /\ q[k - 1] = s[n + (k - 1) - 1]
    BY <1>4, <1>5, <2>1
  <2> QED
    BY <2>1, <2>2
<1>7. ASSUME NEW j \in n .. N
      PROVE  j - n + 2 \in 2 .. M + 1 /\ t[j - n + 2] = s[j]
  <2>1. j - n + 2 \in 2 .. M + 1 /\ (j - n + 2) + n - 2 = j
    BY <1>2
  <2> QED
    BY <1>6, <2>1
<1>8. 1 .. M + 1 = {1} \cup (2 .. M + 1) /\ \A j \in n .. N : j \in 1 .. N
  BY <1>1, <1>2
<1>9. ~Tool(Human) /\ ~Ai(Human) /\ CallsOf(Human) = {}
  BY DEF Human, Blank, Tool, Ai, CallsOf, ToSet
<1>10. \A k \in 1 .. M + 1 : Sound(t[k])
  <2>1. \A k \in 2 .. M + 1 : Sound(t[k])
    BY <1>1, <1>6, <1>8, Zenon DEF Ordered
  <2> QED
    BY <1>5, <1>8, <2>1
<1>11. \A k, l \in 1 .. M + 1 : Ai(t[k]) /\ Ai(t[l]) /\ t[k].id = t[l].id => k = l
  <2>1. ASSUME NEW k \in 2 .. M + 1, NEW l \in 2 .. M + 1, Ai(t[k]), Ai(t[l]), t[k].id = t[l].id
        PROVE  k = l
    <3>1. k + n - 2 \in DOMAIN s /\ l + n - 2 \in DOMAIN s /\ t[k] = s[k + n - 2] /\ t[l] = s[l + n - 2]
      BY <1>1, <1>6, <1>8
    <3>2. k + n - 2 = l + n - 2
      BY <2>1, <3>1, Zenon DEF Ordered
    <3> QED
      BY <1>2, <3>2
  <2> QED
    BY <1>5, <1>8, <1>9, <2>1, Zenon
<1>12. \A k, l \in 1 .. M + 1 : Tool(t[k]) /\ Tool(t[l]) /\ t[k].ans = t[l].ans => k = l
  <2>1. ASSUME NEW k \in 2 .. M + 1, NEW l \in 2 .. M + 1, Tool(t[k]), Tool(t[l]), t[k].ans = t[l].ans
        PROVE  k = l
    <3>1. k + n - 2 \in DOMAIN s /\ l + n - 2 \in DOMAIN s /\ t[k] = s[k + n - 2] /\ t[l] = s[l + n - 2]
      BY <1>1, <1>6, <1>8
    <3>2. k + n - 2 = l + n - 2
      BY <2>1, <3>1, Zenon DEF Ordered
    <3> QED
      BY <1>2, <3>2
  <2> QED
    BY <1>5, <1>8, <1>9, <2>1, Zenon
\* A result from n on belongs to a reply from n on.
<1>13. ASSUME NEW j \in n .. N, Tool(s[j])
       PROVE  \E p \in n .. j - 1 : /\ s[j].ans \in CallsOf(s[p])
                                    /\ \A i \in p + 1 .. j : Tool(s[i])
  <2>1. PICK p \in DOMAIN s : Owner(s, j, p)
    BY <1>1, <1>8, <1>13 DEF Ordered
  <2>2. p \in 1 .. j - 1 /\ s[j].ans \in CallsOf(s[p]) /\ \A i \in p + 1 .. j : Tool(s[i])
    BY <2>1 DEF Owner
  <2>3. ASSUME p < n
        PROVE  FALSE
    <3>1. n \in p + 1 .. j
      BY <1>1, <1>2, <2>3
    <3> QED
      BY <2>2, <3>1
  <2>4. p \in n .. j - 1
    BY <1>2, <2>2, <2>3
  <2> QED
    BY <2>2, <2>4
<1>14. ASSUME NEW k \in 1 .. M + 1, Tool(t[k])
       PROVE  \E p \in 1 .. M + 1 : Owner(t, k, p)
  <2>1. k \in 2 .. M + 1
    BY <1>5, <1>8, <1>9, <1>14
  <2>2. PICK j \in n .. N : j = k + n - 2 /\ t[k] = s[j] /\ Tool(s[j])
    BY <1>6, <1>14, <2>1
  <2>3. PICK p \in n .. j - 1 : s[j].ans \in CallsOf(s[p]) /\ \A i \in p + 1 .. j : Tool(s[i])
    BY <1>13, <2>2
  <2>4. PICK r \in 2 .. M + 1 : r = p - n + 2 /\ t[r] = s[p]
    BY <1>7, <2>3
  <2>5. r \in 1 .. k - 1
    BY <1>2, <2>2, <2>3, <2>4
  <2>6. ASSUME NEW i \in r + 1 .. k
        PROVE  Tool(t[i])
    <3>1. i \in 2 .. M + 1 /\ i + n - 2 \in p + 1 .. j
      BY <1>2, <2>1, <2>2, <2>3, <2>4
    <3>2. t[i] = s[i + n - 2]
      BY <1>6, <3>1
    <3> QED
      BY <2>3, <3>1, <3>2
  <2>7. Owner(t, k, r)
    BY <2>2, <2>3, <2>4, <2>5, <2>6 DEF Owner
  <2> QED
    BY <1>8, <2>7
<1>15. Ordered(t)
  BY <1>5, <1>10, <1>11, <1>12, <1>14, Zenon DEF Ordered
<1>16. ASSUME NEW k \in 1 .. M + 1, NEW c \in CallsOf(t[k])
       PROVE  c \in Answers(t)
  <2>1. k \in 2 .. M + 1
    BY <1>5, <1>8, <1>9, <1>16
  <2>2. PICK a \in n .. N : t[k] = s[a]
    BY <1>6, <2>1
  <2>3. c \in Answers(s)
    BY <1>1, <1>8, <1>16, <2>2 DEF Answered
  <2>4. PICK j \in DOMAIN s : Tool(s[j]) /\ s[j].ans = c
    BY <2>3, AnswersDef
  <2>5. PICK p \in DOMAIN s : Owner(s, j, p)
    BY <2>4 DEF Ordered
  <2>6. p = a
    BY <1>1, <1>8, <1>16, <2>2, <2>4, <2>5, OneCaller DEF Owner
  <2>7. j \in n .. N
    BY <1>1, <1>2, <2>4, <2>5, <2>6 DEF Owner
  <2>8. j - n + 2 \in DOMAIN t /\ t[j - n + 2] = s[j]
    BY <1>5, <1>7, <1>8, <2>7
  <2> QED
    BY <2>4, <2>8, AnswersDef
<1>17. Answered(t, Len(t))
  BY <1>5, <1>16 DEF Answered
<1>18. \A k \in DOMAIN t : t[k] = Human \/ (k + n - 2 \in DOMAIN s /\ t[k] = s[k + n - 2])
  BY <1>1, <1>5, <1>6, <1>8
<1> QED
  BY <1>0, <1>5, <1>15, <1>17, <1>18

-----------------------------------------------------------------------------
(* The repair of a thread.                                                   *)

LEMMA NewMessages ==
  /\ Human \in Msg /\ Sound(Human) /\ ~Tool(Human) /\ ~Ai(Human) /\ ~Human.bad /\ ~Human.status
  /\ \A c \in Calls : /\ Result(c) \in Msg /\ Failed(c) \in Msg
                      /\ Sound(Result(c)) /\ Sound(Failed(c))
                      /\ Tool(Result(c)) /\ Tool(Failed(c))
                      /\ Result(c).ans = c /\ Failed(c).ans = c
                      /\ Result(c).calls = <<>> /\ Failed(c).calls = <<>>
                      /\ Result(c).status = c.task /\ ~Failed(c).status
                      /\ ~Failed(c).bad /\ ~Result(c).bad
<1>1. <<>> \in Seq(Calls) /\ Distinct(<<>>) /\ ToSet(<<>>) = {}
  BY DEF Distinct, ToSet
<1>2. \A c \in Calls : c.task \in BOOLEAN
  BY DEF Calls
<1>3. Blank \in Msg
  BY <1>1 DEF Blank, Msg
<1>4. Human \in Msg /\ Sound(Human) /\ ~Tool(Human) /\ ~Ai(Human) /\ ~Human.bad /\ ~Human.status
  BY <1>1, <1>3 DEF Human, Sound, Tool, Ai, Blank, CallsOf
<1>5. ASSUME NEW c \in Calls
      PROVE  /\ Failed(c) \in Msg /\ Sound(Failed(c)) /\ Tool(Failed(c)) /\ Failed(c).ans = c
             /\ Failed(c).calls = <<>> /\ ~Failed(c).status /\ ~Failed(c).bad
  <2>1. /\ Failed(c).role = "tool" /\ Failed(c).calls = <<>> /\ ~Failed(c).bad
        /\ ~Failed(c).usage /\ ~Failed(c).status /\ Failed(c).ans = c
    BY DEF Failed, Blank
  <2>2. Failed(c) \in Msg
    BY <1>3 DEF Failed, Msg
  <2> QED
    BY <1>1, <2>1, <2>2 DEF Sound, Tool, Ai, CallsOf
<1>6. ASSUME NEW c \in Calls
      PROVE  /\ Result(c) \in Msg /\ Sound(Result(c)) /\ Tool(Result(c)) /\ Result(c).ans = c
             /\ Result(c).calls = <<>> /\ Result(c).status = c.task /\ ~Result(c).bad
  <2>1. /\ Result(c).role = "tool" /\ Result(c).calls = <<>> /\ ~Result(c).bad
        /\ ~Result(c).usage /\ Result(c).status = c.task /\ Result(c).ans = c
    BY DEF Result, Blank
  <2>2. Result(c) \in Msg
    BY <1>2, <1>3 DEF Result, Msg
  <2> QED
    BY <1>1, <2>1, <2>2 DEF Sound, Tool, Ai, CallsOf
<1> QED
  BY <1>4, <1>5, <1>6

LEMMA CleanedMessage ==
  ASSUME NEW m \in Msg
  PROVE  /\ Cleaned(m) \in Msg /\ Cleaned(m).role = m.role /\ Cleaned(m).id = m.id
         /\ Cleaned(m).calls = m.calls /\ Cleaned(m).ans = m.ans /\ Cleaned(m).status = m.status
         /\ Cleaned(m).usage = m.usage /\ ~Cleaned(m).bad
         /\ ~m.bad => Cleaned(m) = m
         /\ Sound(m) => Sound(Cleaned(m))
<1>1. PICK x : x = Cleaned(m)
  OBVIOUS
<1>2. /\ x \in Msg /\ x.role = m.role /\ x.id = m.id /\ x.calls = m.calls /\ x.ans = m.ans
      /\ x.status = m.status /\ x.usage = m.usage /\ ~x.bad
  BY <1>1 DEF Cleaned, Msg
<1>3. ~m.bad => x = m
  BY <1>1 DEF Cleaned, Msg
<1>4. Sound(m) => Sound(x)
  BY <1>2 DEF Sound, Tool, Ai, CallsOf
<1> QED
  BY <1>1, <1>2, <1>3, <1>4

\* The calls that a repair answers, and its synthetic ToolMessages.
LEMMA CancellationsOf ==
  ASSUME NEW s, NEW m \in Msg
  PROVE  /\ Cancellations(s, m) \in Seq(Msg)
         /\ \A k \in DOMAIN Cancellations(s, m) :
              /\ Cancellations(s, m)[k].ans \in CallsOf(m) \ Answers(s)
              /\ Cancellations(s, m)[k] = Cancelled(Cancellations(s, m)[k].ans)
              /\ Cancellations(s, m)[k].ans \in Calls
         /\ Distinct(m.calls) => \A j, k \in DOMAIN Cancellations(s, m) :
              Cancellations(s, m)[j].ans = Cancellations(s, m)[k].ans => j = k
         /\ \A c \in CallsOf(m) \ Answers(s) :
              \E k \in DOMAIN Cancellations(s, m) : Cancellations(s, m)[k].ans = c
<1>1. PICK o : o = Open(s, m)
  OBVIOUS
<1>2. /\ o \in Seq(Calls) /\ ToSet(o) = CallsOf(m) \cap (CallsOf(m) \ Answers(s))
      /\ Distinct(m.calls) => Distinct(o)
  <2>1. m.calls \in Seq(Calls)
    BY MsgFields
  <2> QED
    BY <1>1, <2>1, OnlyFacts DEF Open, CallsOf
<1>3. PICK x : x = Cancellations(s, m)
  OBVIOUS
<1>4. x = [k \in DOMAIN o |-> Cancelled(o[k])]
  BY <1>1, <1>3 DEF Cancellations
<1>5. Len(o) \in Nat /\ DOMAIN o = 1 .. Len(o) /\ \A k \in DOMAIN o : o[k] \in Calls
  BY <1>2, LenProperties, ElementOfSeq
<1>6. \A k \in DOMAIN o : x[k] = Cancelled(o[k]) /\ x[k] \in Msg /\ x[k].ans = o[k]
  BY <1>4, <1>5, NewMessages DEF Cancelled
<1>7. DOMAIN x = DOMAIN o
  BY <1>4
<1>8. x \in Seq(Msg)
  <2>1. x \in [1 .. Len(o) -> Msg]
    BY <1>4, <1>5, <1>6
  <2> QED
    BY <1>5, <2>1, SeqDef
<1>9. \A k \in DOMAIN x : o[k] \in CallsOf(m) \ Answers(s)
  BY <1>2, <1>7 DEF ToSet
<1>10. \A c \in CallsOf(m) \ Answers(s) : \E k \in DOMAIN x : o[k] = c
  BY <1>2, <1>7 DEF ToSet
<1>11. Distinct(m.calls) => \A j, k \in DOMAIN x : o[j] = o[k] => j = k
  BY <1>2, <1>7 DEF Distinct
<1>12. \A k \in DOMAIN x : /\ x[k].ans \in CallsOf(m) \ Answers(s)
                           /\ x[k] = Cancelled(x[k].ans) /\ x[k].ans \in Calls
  BY <1>5, <1>6, <1>7, <1>9
<1>13. Distinct(m.calls) => \A j, k \in DOMAIN x : x[j].ans = x[k].ans => j = k
  BY <1>6, <1>7, <1>11
<1>14. \A c \in CallsOf(m) \ Answers(s) : \E k \in DOMAIN x : x[k].ans = c
  BY <1>6, <1>7, <1>10
<1> QED
  BY <1>3, <1>8, <1>12, <1>13, <1>14

Fixes(s) == [m \in Msg |-> <<Cleaned(m)>> \o Cancellations(s, m)]
Owed(s, m) == Len(Cancellations(s, m))

LEMMA FixesType ==
  ASSUME NEW s
  PROVE  /\ Fixes(s) \in [Msg -> Seq(Msg)]
         /\ \A m \in Msg : /\ Cancellations(s, m) \in Seq(Msg)
                           /\ Owed(s, m) \in Nat /\ Len(Fixes(s)[m]) = Owed(s, m) + 1
                           /\ Fixes(s)[m][1] = Cleaned(m)
                           /\ \A k \in 1 .. Owed(s, m) :
                                Fixes(s)[m][k + 1] = Cancellations(s, m)[k]
<1>1. ASSUME NEW m \in Msg
      PROVE  LET c == Cancellations(s, m)
                 f == <<Cleaned(m)>> \o c
             IN  /\ c \in Seq(Msg) /\ Len(c) \in Nat /\ f \in Seq(Msg) /\ Len(f) = Len(c) + 1
                 /\ f[1] = Cleaned(m) /\ \A k \in 1 .. Len(c) : f[k + 1] = c[k]
  <2>1. PICK c, h : c = Cancellations(s, m) /\ h = <<Cleaned(m)>>
    OBVIOUS
  <2>2. c \in Seq(Msg) /\ Cleaned(m) \in Msg
    BY <2>1, CancellationsOf, CleanedMessage
  <2>3. h \in Seq(Msg) /\ Len(h) = 1 /\ h[1] = Cleaned(m)
    BY <2>1, <2>2
  <2>4. PICK M \in Nat : M = Len(c)
    BY <2>2, LenProperties
  <2>5. /\ h \o c \in Seq(Msg) /\ Len(h \o c) = Len(h) + Len(c)
        /\ \A i \in 1 .. Len(h) + Len(c) : (h \o c)[i] = IF i <= Len(h) THEN h[i] ELSE c[i - Len(h)]
    BY <2>2, <2>3, ConcatProperties
  <2>6. Len(h) + Len(c) = M + 1 /\ 1 + M = M + 1
    BY <2>3, <2>4
  <2>7. 1 \in 1 .. M + 1 /\ 1 <= 1
    OBVIOUS
  <2>8. \A k \in 1 .. M : k + 1 \in 1 .. M + 1 /\ ~(k + 1 <= 1) /\ (k + 1) - 1 = k
    OBVIOUS
  <2>9. (h \o c)[1] = Cleaned(m)
    BY <2>3, <2>5, <2>6, <2>7
  <2>10. \A k \in 1 .. M : (h \o c)[k + 1] = c[k]
    BY <2>3, <2>5, <2>6, <2>8
  <2> QED
    BY <2>1, <2>2, <2>4, <2>5, <2>6, <2>9, <2>10
<1>2. \A m \in Msg : Fixes(s)[m] = <<Cleaned(m)>> \o Cancellations(s, m)
  BY DEF Fixes
<1>3. Fixes(s) \in [Msg -> Seq(Msg)]
  BY <1>1 DEF Fixes
<1> QED
  BY <1>1, <1>2, <1>3 DEF Owed

LEMMA RepairedIsFlat ==
  ASSUME NEW s \in Seq(Msg)
  PROVE  Repaired(s) = FlatMap(s, Fixes(s))
<1>1. \A n \in DOMAIN s : s[n] \in Msg
  BY ThreadFields
<1>2. \A n \in DOMAIN s : Fixes(s)[s[n]] = <<Cleaned(s[n])>> \o Cancellations(s, s[n])
  BY <1>1 DEF Fixes
<1>3. [n \in DOMAIN s |-> Fixes(s)[s[n]]]
        = [n \in DOMAIN s |-> <<Cleaned(s[n])>> \o Cancellations(s, s[n])]
  BY <1>2, Zenon
<1> QED
  BY <1>3, Zenon DEF Repaired, FlatMap

\* Message p of t stands at pos[p] in r, cleaned, and what s owes it follows.
Layout(s, t, r, pos) ==
  /\ pos \in [1 .. Len(t) -> 1 .. Len(r)]
  /\ \A p, q \in 1 .. Len(t) : p < q => pos[p] + Owed(s, t[p]) < pos[q]
  /\ \A p \in 1 .. Len(t) : r[pos[p]] = Cleaned(t[p]) /\ pos[p] + Owed(s, t[p]) <= Len(r)
  /\ \A p \in 1 .. Len(t) : \A k \in 1 .. Owed(s, t[p]) :
       r[pos[p] + k] = Cancellations(s, t[p])[k]
  /\ \A q \in 1 .. Len(r) : \E p \in 1 .. Len(t) : q \in pos[p] .. pos[p] + Owed(s, t[p])

LEMMA LayoutStep ==
  ASSUME NEW s, NEW t \in Seq(Msg), NEW r \in Seq(Msg), NEW pos, Layout(s, t, r, pos),
         NEW m \in Msg
  PROVE  \E new : Layout(s, Append(t, m), r \o Fixes(s)[m], new)
<1>0. PICK a, x, f : a = Append(t, m) /\ f = Fixes(s)[m] /\ x = r \o f
  OBVIOUS
<1>1. PICK N \in Nat : N = Len(t)
  BY LenProperties
<1>2. PICK L \in Nat : L = Len(r)
  BY LenProperties
<1>3. PICK K \in Nat : K = Owed(s, m)
  BY FixesType
<1>4. /\ f \in Seq(Msg) /\ Len(f) = K + 1 /\ f[1] = Cleaned(m)
      /\ \A k \in 1 .. K : f[k + 1] = Cancellations(s, m)[k]
  BY <1>0, <1>3, FixesType
<1>5. /\ Len(a) = N + 1 /\ a[N + 1] = m /\ \A i \in 1 .. N : a[i] = t[i]
  BY <1>0, <1>1, AppendProperties
<1>6. \A i \in 1 .. N : t[i] \in Msg /\ Owed(s, t[i]) \in Nat
  BY <1>1, ElementOfSeq, FixesType
<1>7. Len(x) = L + K + 1 /\ \A i \in 1 .. L : x[i] = r[i]
  <2>1. /\ Len(x) = Len(r) + Len(f)
        /\ \A i \in 1 .. Len(r) + Len(f) : x[i] = IF i <= Len(r) THEN r[i] ELSE f[i - Len(r)]
    BY <1>0, <1>4, ConcatProperties
  <2> QED
    BY <1>2, <1>4, <2>1
<1>8. \A k \in 1 .. K + 1 : x[L + k] = f[k]
  <2>1. \A i \in 1 .. Len(r) + Len(f) : x[i] = IF i <= Len(r) THEN r[i] ELSE f[i - Len(r)]
    BY <1>0, <1>4, ConcatProperties
  <2>2. ASSUME NEW k \in 1 .. K + 1
        PROVE  L + k \in 1 .. Len(r) + Len(f) /\ ~(L + k <= Len(r)) /\ (L + k) - Len(r) = k
    BY <1>2, <1>4
  <2> QED
    BY <2>1, <2>2
<1>9. x[L + 1] = Cleaned(m)
  BY <1>4, <1>8
<1>10. \A k \in 1 .. K : x[(L + 1) + k] = Cancellations(s, m)[k]
  <2> SUFFICES ASSUME NEW k \in 1 .. K
               PROVE  x[(L + 1) + k] = Cancellations(s, m)[k]
    OBVIOUS
  <2>1. (L + 1) + k = L + (k + 1) /\ k + 1 \in 1 .. K + 1
    OBVIOUS
  <2> QED
    BY <1>4, <1>8, <2>1
<1>11. /\ \A p \in 1 .. N : pos[p] \in 1 .. L /\ pos[p] + Owed(s, t[p]) <= L
       /\ \A p \in 1 .. N : r[pos[p]] = Cleaned(t[p])
       /\ \A p, q \in 1 .. N : p < q => pos[p] + Owed(s, t[p]) < pos[q]
       /\ \A p \in 1 .. N : \A k \in 1 .. Owed(s, t[p]) : r[pos[p] + k] = Cancellations(s, t[p])[k]
       /\ \A q \in 1 .. L : \E p \in 1 .. N : q \in pos[p] .. pos[p] + Owed(s, t[p])
  BY <1>1, <1>2 DEF Layout
<1>12. PICK new : new = [p \in 1 .. N + 1 |-> IF p = N + 1 THEN L + 1 ELSE pos[p]]
  OBVIOUS
<1>13. 1 .. N + 1 = (1 .. N) \cup {N + 1} /\ N + 1 \notin 1 .. N
  OBVIOUS
<1>14. new[N + 1] = L + 1 /\ \A p \in 1 .. N : new[p] = pos[p]
  BY <1>12, <1>13
<1>15. new \in [1 .. N + 1 -> 1 .. L + K + 1]
  BY <1>11, <1>12, <1>13
<1>16. ASSUME NEW p \in 1 .. N + 1, NEW q \in 1 .. N + 1, p < q
       PROVE  new[p] + Owed(s, a[p]) < new[q]
  <2>1. p \in 1 .. N
    BY <1>13, <1>16
  <2>2. CASE q \in 1 .. N
    BY <1>5, <1>11, <1>14, <1>16, <2>1, <2>2
  <2>3. CASE q = N + 1
    BY <1>5, <1>6, <1>11, <1>14, <2>1, <2>3
  <2> QED
    BY <1>13, <2>2, <2>3
<1>17. ASSUME NEW p \in 1 .. N + 1
       PROVE  x[new[p]] = Cleaned(a[p]) /\ new[p] + Owed(s, a[p]) <= L + K + 1
  <2>1. CASE p \in 1 .. N
    <3>1. a[p] = t[p] /\ new[p] = pos[p] /\ pos[p] \in 1 .. L /\ Owed(s, t[p]) \in Nat
      BY <1>5, <1>6, <1>11, <1>14, <2>1
    <3>2. x[pos[p]] = r[pos[p]] /\ r[pos[p]] = Cleaned(t[p])
      BY <1>7, <1>11, <2>1, <3>1
    <3>3. pos[p] + Owed(s, t[p]) <= L
      BY <1>11, <2>1
    <3>4. pos[p] + Owed(s, t[p]) <= L + K + 1
      BY <3>1, <3>3
    <3> QED
      BY <3>1, <3>2, <3>4, Zenon
  <2>2. CASE p = N + 1
    BY <1>3, <1>5, <1>9, <1>14, <2>2
  <2> QED
    BY <1>13, <2>1, <2>2
<1>18. ASSUME NEW p \in 1 .. N + 1, NEW k \in 1 .. Owed(s, a[p])
       PROVE  x[new[p] + k] = Cancellations(s, a[p])[k]
  <2>1. CASE p \in 1 .. N
    <3>1. /\ a[p] = t[p] /\ new[p] = pos[p] /\ pos[p] \in 1 .. L /\ Owed(s, t[p]) \in Nat
          /\ pos[p] + Owed(s, t[p]) <= L
      BY <1>5, <1>6, <1>11, <1>14, <2>1
    <3>2. k \in 1 .. Owed(s, t[p])
      BY <1>18, <3>1, Zenon
    <3>3. pos[p] + k \in 1 .. L
      BY <3>1, <3>2
    <3>4. x[pos[p] + k] = r[pos[p] + k]
      BY <1>7, <3>3
    <3>5. r[pos[p] + k] = Cancellations(s, t[p])[k]
      BY <1>11, <2>1, <3>2
    <3> QED
      BY <3>1, <3>4, <3>5, Zenon
  <2>2. CASE p = N + 1
    BY <1>3, <1>5, <1>10, <1>14, <1>18, <2>2
  <2> QED
    BY <1>13, <2>1, <2>2
<1>19. ASSUME NEW q \in 1 .. L + K + 1
       PROVE  \E p \in 1 .. N + 1 : q \in new[p] .. new[p] + Owed(s, a[p])
  <2>1. CASE q \in 1 .. L
    <3>1. PICK p \in 1 .. N : q \in pos[p] .. pos[p] + Owed(s, t[p])
      BY <1>11, <2>1
    <3> QED
      BY <1>5, <1>13, <1>14, <3>1
  <2>2. CASE q \notin 1 .. L
    <3>1. q \in (L + 1) .. (L + 1) + K
      BY <2>2
    <3> QED
      BY <1>3, <1>5, <1>13, <1>14, <3>1
  <2> QED
    BY <2>1, <2>2
<1>20. Layout(s, a, x, new)
  BY <1>5, <1>7, <1>15, <1>16, <1>17, <1>18, <1>19 DEF Layout
<1> QED
  BY <1>0, <1>20

LEMMA RepairedLayout ==
  ASSUME NEW s \in Seq(Msg)
  PROVE  Repaired(s) \in Seq(Msg) /\ \E pos : Layout(s, s, Repaired(s), pos)
<1>1. PICK F : F = Fixes(s)
  OBVIOUS
<1>2. F \in [Msg -> Seq(Msg)]
  BY <1>1, FixesType
<1>3. PICK Q : Q = {t \in Seq(Msg) : FlatMap(t, F) \in Seq(Msg)
                                       /\ \E pos : Layout(s, t, FlatMap(t, F), pos)}
  OBVIOUS
<1>4. <<>> \in Q
  <2>1. FlatMap(<<>>, F) = <<>>
    BY MapEmpty
  <2>2. PICK e : e = <<>>
    OBVIOUS
  <2>3. e \in Seq(Msg) /\ Len(e) = 0
    BY <2>2
  <2>4. PICK pos : pos = [p \in 1 .. 0 |-> p]
    OBVIOUS
  <2>5. 1 .. 0 = {} /\ pos \in [1 .. 0 -> 1 .. 0]
    BY <2>4
  <2>6. Layout(s, e, e, pos)
    BY <2>3, <2>5 DEF Layout
  <2> QED
    BY <1>3, <2>1, <2>2, <2>3, <2>6
<1>5. ASSUME NEW t \in Seq(Msg), NEW m \in Msg, t \in Q
      PROVE  Append(t, m) \in Q
  <2>1. PICK r \in Seq(Msg) : r = FlatMap(t, F)
    BY <1>3, <1>5
  <2>2. PICK pos : Layout(s, t, r, pos)
    BY <1>3, <1>5, <2>1
  <2>3. FlatMap(Append(t, m), F) = r \o F[m]
    BY <1>2, <2>1, MapAppend
  <2>4. F[m] \in Seq(Msg) /\ Append(t, m) \in Seq(Msg)
    BY <1>2, AppendProperties
  <2>5. r \o F[m] \in Seq(Msg)
    BY <2>4, ConcatProperties
  <2>6. \E new : Layout(s, Append(t, m), r \o F[m], new)
    BY <1>1, <2>2, LayoutStep
  <2> QED
    BY <1>3, <2>3, <2>4, <2>5, <2>6
<1>6. s \in Q
  BY <1>4, <1>5, SeqInduction
<1> QED
  BY <1>1, <1>3, <1>6, RepairedIsFlat

\* Each message of the repaired thread is one of the thread, or it cancels a
\* call of the message it follows.
From(s, r, pos, q, p) == q = pos[p] /\ r[q] = Cleaned(s[p])
Cancels(s, r, pos, q, p, k) ==
  k \in 1 .. Owed(s, s[p]) /\ q = pos[p] + k /\ r[q] = Cancellations(s, s[p])[k]

LEMMA LayoutFacts ==
  ASSUME NEW s \in Seq(Msg), NEW r \in Seq(Msg), NEW pos, Layout(s, s, r, pos)
  PROVE  /\ \A p \in DOMAIN s : pos[p] \in DOMAIN r /\ r[pos[p]] = Cleaned(s[p])
         /\ \A p, q \in DOMAIN s : p < q <=> pos[p] < pos[q]
         /\ \A p, q \in DOMAIN s : pos[p] = pos[q] => p = q
         /\ \A q \in DOMAIN r :
              \/ \E p \in DOMAIN s : From(s, r, pos, q, p)
              \/ \E p \in DOMAIN s : \E k \in 1 .. Owed(s, s[p]) : Cancels(s, r, pos, q, p, k)
         /\ \A p \in DOMAIN s : \A k \in 1 .. Owed(s, s[p]) :
              /\ pos[p] + k \in DOMAIN r /\ Cancels(s, r, pos, pos[p] + k, p, k)
              /\ \A n \in DOMAIN s : p < n => pos[p] + k < pos[n]
<1>1. PICK N \in Nat : N = Len(s) /\ DOMAIN s = 1 .. N
  BY LenProperties
<1>2. PICK L \in Nat : L = Len(r) /\ DOMAIN r = 1 .. L
  BY LenProperties
<1>3. \A p \in 1 .. N : Owed(s, s[p]) \in Nat
  BY <1>1, ThreadFields, FixesType
<1>4. \A p \in 1 .. N : pos[p] \in 1 .. L /\ pos[p] \in Int /\ r[pos[p]] = Cleaned(s[p])
                        /\ pos[p] + Owed(s, s[p]) <= L
  BY <1>1, <1>2 DEF Layout
<1>5. \A p, q \in 1 .. N : p < q => pos[p] + Owed(s, s[p]) < pos[q]
  BY <1>1 DEF Layout
<1>6. \A p, q \in 1 .. N : p < q => pos[p] < pos[q]
  BY <1>3, <1>4, <1>5
<1>7. \A p, q \in 1 .. N : p < q <=> pos[p] < pos[q]
  BY <1>4, <1>6
<1>8. \A p, q \in 1 .. N : pos[p] = pos[q] => p = q
  BY <1>4, <1>6
<1>9. ASSUME NEW p \in 1 .. N, NEW k \in 1 .. Owed(s, s[p])
      PROVE  /\ pos[p] + k \in 1 .. L /\ Cancels(s, r, pos, pos[p] + k, p, k)
             /\ \A n \in 1 .. N : p < n => pos[p] + k < pos[n]
  <2>1. k \in Nat /\ 0 < k /\ k <= Owed(s, s[p]) /\ Owed(s, s[p]) \in Nat
    BY <1>3
  <2>2. r[pos[p] + k] = Cancellations(s, s[p])[k]
    BY <1>1 DEF Layout
  <2>3. pos[p] \in Nat /\ pos[p] + Owed(s, s[p]) <= L
    BY <1>4
  <2>4. pos[p] + k \in 1 .. L
    BY <2>1, <2>3
  <2>5. \A n \in 1 .. N : p < n => pos[p] + k < pos[n]
    <3> SUFFICES ASSUME NEW n \in 1 .. N, p < n
                 PROVE  pos[p] + k < pos[n]
      OBVIOUS
    <3>1. pos[p] + Owed(s, s[p]) < pos[n] /\ pos[n] \in Int
      BY <1>4, <1>5
    <3> QED
      BY <2>1, <2>3, <3>1
  <2> QED
    BY <2>2, <2>4, <2>5 DEF Cancels
<1>10. ASSUME NEW q \in 1 .. L
       PROVE  \/ \E p \in 1 .. N : From(s, r, pos, q, p)
              \/ \E p \in 1 .. N : \E k \in 1 .. Owed(s, s[p]) : Cancels(s, r, pos, q, p, k)
  <2>1. PICK p \in 1 .. N : q \in pos[p] .. pos[p] + Owed(s, s[p])
    BY <1>1, <1>2 DEF Layout
  <2>2. CASE q = pos[p]
    BY <1>4, <2>2 DEF From
  <2>3. CASE q # pos[p]
    <3>1. pos[p] \in Int /\ Owed(s, s[p]) \in Nat
      BY <1>3, <1>4
    <3>2. q - pos[p] \in 1 .. Owed(s, s[p]) /\ pos[p] + (q - pos[p]) = q
      BY <2>1, <2>3, <3>1
    <3> QED
      BY <1>9, <3>2
  <2> QED
    BY <2>2, <2>3
<1> QED
  BY <1>1, <1>2, <1>4, <1>7, <1>8, <1>9, <1>10

LEMMA CancelledMessage ==
  ASSUME NEW s \in Seq(Msg), Ordered(s), NEW p \in DOMAIN s, NEW k \in 1 .. Owed(s, s[p]),
         NEW x, x = Cancellations(s, s[p])[k]
  PROVE  /\ x \in Msg /\ Sound(x) /\ Tool(x) /\ x.calls = <<>> /\ ~x.bad /\ ~x.status
         /\ x.ans \in CallsOf(s[p]) /\ x.ans \notin Answers(s)
<1>1. s[p] \in Msg
  BY ThreadFields
<1>2. k \in DOMAIN Cancellations(s, s[p])
  BY <1>1, FixesType, LenProperties DEF Owed
<1>3. x.ans \in CallsOf(s[p]) \ Answers(s) /\ x = Cancelled(x.ans) /\ x.ans \in Calls
  BY <1>1, <1>2, CancellationsOf
<1> QED
  BY <1>3, NewMessages DEF Cancelled

\* What a repair makes of a thread: one that may go to the model.
LEMMA RepairFacts ==
  ASSUME NEW s \in Seq(Msg), Ordered(s)
  PROVE  LET r == Repaired(s)
         IN  /\ r \in Seq(Msg) /\ Ordered(r) /\ Answered(r, Len(r)) /\ Clean(r)
             /\ \A k : Numbered(s, k) => Numbered(r, k)
             /\ Cardinality(Delegations(r)) <= Cardinality(Delegations(s))
<1>1. PICK r \in Seq(Msg) : r = Repaired(s)
  BY RepairedLayout
<1>2. PICK pos : Layout(s, s, r, pos)
  BY <1>1, RepairedLayout
<1>3. PICK N \in Nat : N = Len(s) /\ DOMAIN s = 1 .. N
  BY LenProperties
<1>4. PICK L \in Nat : L = Len(r) /\ DOMAIN r = 1 .. L
  BY LenProperties
<1>5. /\ \A p \in 1 .. N : pos[p] \in 1 .. L /\ r[pos[p]] = Cleaned(s[p])
      /\ \A p, q \in 1 .. N : p < q <=> pos[p] < pos[q]
      /\ \A p, q \in 1 .. N : pos[p] = pos[q] => p = q
  <2>1. /\ \A p \in DOMAIN s : pos[p] \in DOMAIN r /\ r[pos[p]] = Cleaned(s[p])
        /\ \A p, q \in DOMAIN s : p < q <=> pos[p] < pos[q]
        /\ \A p, q \in DOMAIN s : pos[p] = pos[q] => p = q
    BY <1>2, LayoutFacts
  <2> QED
    BY <1>3, <1>4, <2>1, Zenon
<1>6. \A q \in 1 .. L :
         \/ \E p \in 1 .. N : From(s, r, pos, q, p)
         \/ \E p \in 1 .. N : \E k \in 1 .. Owed(s, s[p]) : Cancels(s, r, pos, q, p, k)
  <2>1. \A q \in DOMAIN r :
          \/ \E p \in DOMAIN s : From(s, r, pos, q, p)
          \/ \E p \in DOMAIN s : \E k \in 1 .. Owed(s, s[p]) : Cancels(s, r, pos, q, p, k)
    BY <1>2, LayoutFacts
  <2> QED
    BY <1>3, <1>4, <2>1, Zenon
<1>7. \A p \in 1 .. N : \A k \in 1 .. Owed(s, s[p]) :
        /\ pos[p] + k \in 1 .. L /\ Cancels(s, r, pos, pos[p] + k, p, k)
        /\ \A n \in 1 .. N : p < n => pos[p] + k < pos[n]
  BY <1>2, <1>3, <1>4, LayoutFacts
<1>8. \A p \in 1 .. N : s[p] \in Msg /\ Sound(s[p])
  BY <1>3, ThreadFields DEF Ordered
\* The two kinds of messages of r.
<1>9. ASSUME NEW q \in 1 .. L, NEW p \in 1 .. N, From(s, r, pos, q, p)
      PROVE  /\ q = pos[p] /\ r[q].role = s[p].role /\ r[q].id = s[p].id /\ r[q].ans = s[p].ans
             /\ r[q].status = s[p].status /\ CallsOf(r[q]) = CallsOf(s[p]) /\ ~r[q].bad
             /\ Sound(r[q]) /\ (Ai(r[q]) <=> Ai(s[p])) /\ (Tool(r[q]) <=> Tool(s[p]))
  <2>1. q = pos[p] /\ r[q] = Cleaned(s[p])
    BY <1>9 DEF From
  <2> QED
    BY <1>8, <2>1, CleanedMessage DEF CallsOf, Ai, Tool
<1>10. ASSUME NEW q \in 1 .. L, NEW p \in 1 .. N, NEW k \in 1 .. Owed(s, s[p]),
              Cancels(s, r, pos, q, p, k)
       PROVE  /\ q = pos[p] + k /\ r[q] = Cancellations(s, s[p])[k]
              /\ Sound(r[q]) /\ Tool(r[q]) /\ ~Ai(r[q]) /\ CallsOf(r[q]) = {} /\ ~r[q].bad
              /\ ~r[q].status /\ r[q].ans \in CallsOf(s[p]) /\ r[q].ans \notin Answers(s)
  <2>1. q = pos[p] + k /\ r[q] = Cancellations(s, s[p])[k]
    BY <1>10 DEF Cancels
  <2>2. r[q].calls = <<>> /\ Sound(r[q]) /\ Tool(r[q]) /\ ~r[q].bad /\ ~r[q].status
        /\ r[q].ans \in CallsOf(s[p]) /\ r[q].ans \notin Answers(s)
    BY <1>3, <2>1, CancelledMessage
  <2> QED
    BY <2>1, <2>2 DEF CallsOf, ToSet, Ai, Tool
<1>11. \A q \in 1 .. L : Sound(r[q]) /\ ~r[q].bad
  BY <1>6, <1>9, <1>10
<1>12. \A q \in 1 .. L : Ai(r[q]) => \E p \in 1 .. N : From(s, r, pos, q, p) /\ Ai(s[p]) /\ r[q].id = s[p].id
  BY <1>6, <1>9, <1>10
<1>13. \A q, u \in 1 .. L : Ai(r[q]) /\ Ai(r[u]) /\ r[q].id = r[u].id => q = u
  <2> SUFFICES ASSUME NEW q \in 1 .. L, NEW u \in 1 .. L, Ai(r[q]), Ai(r[u]), r[q].id = r[u].id
               PROVE  q = u
    OBVIOUS
  <2>1. PICK p \in 1 .. N : From(s, r, pos, q, p) /\ Ai(s[p]) /\ r[q].id = s[p].id
    BY <1>12
  <2>2. PICK w \in 1 .. N : From(s, r, pos, u, w) /\ Ai(s[w]) /\ r[u].id = s[w].id
    BY <1>12
  <2>3. p = w
    BY <1>3, <2>1, <2>2 DEF Ordered
  <2> QED
    BY <2>1, <2>2, <2>3 DEF From
<1>14. ASSUME NEW q \in 1 .. L, NEW p \in 1 .. N, From(s, r, pos, q, p), Tool(r[q])
       PROVE  Tool(s[p]) /\ r[q].ans = s[p].ans /\ r[q].ans \in Answers(s)
  <2>1. Tool(s[p]) /\ r[q].ans = s[p].ans
    BY <1>9, <1>14
  <2> QED
    BY <1>3, <2>1, AnswersDef
<1>15. \A q, u \in 1 .. L : Tool(r[q]) /\ Tool(r[u]) /\ r[q].ans = r[u].ans => q = u
  <2> SUFFICES ASSUME NEW q \in 1 .. L, NEW u \in 1 .. L, Tool(r[q]), Tool(r[u]), r[q].ans = r[u].ans
               PROVE  q = u
    OBVIOUS
  <2>1. CASE r[q].ans \in Answers(s)
    <3>1. PICK p \in 1 .. N : From(s, r, pos, q, p)
      BY <1>6, <1>10, <2>1
    <3>2. PICK w \in 1 .. N : From(s, r, pos, u, w)
      BY <1>6, <1>10, <2>1
    <3>3. p = w
      <4>1. Tool(s[p]) /\ Tool(s[w]) /\ s[p].ans = s[w].ans
        BY <1>14, <3>1, <3>2
      <4> QED
        BY <1>3, <4>1 DEF Ordered
    <3> QED
      BY <3>1, <3>2, <3>3 DEF From
  <2>2. CASE r[q].ans \notin Answers(s)
    <3>1. PICK p \in 1 .. N : \E k \in 1 .. Owed(s, s[p]) : Cancels(s, r, pos, q, p, k)
      BY <1>6, <1>14, <2>2
    <3>2. PICK k \in 1 .. Owed(s, s[p]) : Cancels(s, r, pos, q, p, k)
      BY <3>1
    <3>3. PICK w \in 1 .. N : \E l \in 1 .. Owed(s, s[w]) : Cancels(s, r, pos, u, w, l)
      BY <1>6, <1>14, <2>2
    <3>4. PICK l \in 1 .. Owed(s, s[w]) : Cancels(s, r, pos, u, w, l)
      BY <3>3
    <3>5. p = w
      <4>1. r[q].ans \in CallsOf(s[p]) /\ r[q].ans \in CallsOf(s[w])
        BY <1>10, <3>2, <3>4
      <4> QED
        BY <1>3, <4>1, OneCaller
    <3>6. k = l
      <4>1. PICK C : C = Cancellations(s, s[p])
        OBVIOUS
      <4>2. C[k].ans = C[l].ans
        BY <1>10, <3>2, <3>4, <3>5, <4>1
      <4>3. k \in DOMAIN C /\ l \in DOMAIN C
        BY <1>8, <3>5, <4>1, FixesType, LenProperties DEF Owed
      <4>4. Distinct(s[p].calls)
        BY <1>8 DEF Sound
      <4> QED
        BY <1>8, <4>1, <4>2, <4>3, <4>4, CancellationsOf
    <3> QED
      BY <1>10, <3>2, <3>4, <3>5, <3>6
  <2> QED
    BY <2>1, <2>2
\* From position pos[p] to q there is nothing but tools in r if there is
\* nothing else in s.
<1>16. ASSUME NEW q \in 1 .. L, NEW p \in 1 .. N,
              \A n \in 1 .. N : p < n /\ pos[n] <= q => Tool(s[n])
       PROVE  \A j \in pos[p] + 1 .. q : Tool(r[j])
  <2> SUFFICES ASSUME NEW j \in pos[p] + 1 .. q
               PROVE  Tool(r[j])
    OBVIOUS
  <2>1. j \in 1 .. L /\ pos[p] < j /\ j <= q
    BY <1>5
  <2>2. CASE \E n \in 1 .. N : From(s, r, pos, j, n)
    <3>1. PICK n \in 1 .. N : From(s, r, pos, j, n)
      BY <2>2
    <3>2. j = pos[n] /\ p < n
      BY <1>5, <2>1, <3>1 DEF From
    <3> QED
      BY <1>9, <1>16, <2>1, <3>1, <3>2
  <2>3. CASE \E n \in 1 .. N : \E k \in 1 .. Owed(s, s[n]) : Cancels(s, r, pos, j, n, k)
    BY <1>10, <2>1, <2>3
  <2> QED
    BY <1>6, <2>1, <2>2, <2>3
<1>17. ASSUME NEW q \in 1 .. L, Tool(r[q])
       PROVE  \E u \in 1 .. L : Owner(r, q, u)
  <2>1. CASE \E p \in 1 .. N : From(s, r, pos, q, p)
    <3>1. PICK p \in 1 .. N : From(s, r, pos, q, p)
      BY <2>1
    <3>2. q = pos[p] /\ Tool(s[p]) /\ r[q].ans = s[p].ans
      BY <1>9, <1>17, <3>1
    <3>3. PICK o \in 1 .. N : Owner(s, p, o)
      BY <1>3, <3>2 DEF Ordered
    <3>4. o \in 1 .. p - 1 /\ s[p].ans \in CallsOf(s[o]) /\ \A j \in o + 1 .. p : Tool(s[j])
      BY <3>3 DEF Owner
    <3>5. pos[o] \in 1 .. L /\ pos[o] < q /\ From(s, r, pos, pos[o], o)
      BY <1>5, <3>2, <3>4 DEF From
    <3>6. ASSUME NEW n \in 1 .. N, o < n, pos[n] <= q
          PROVE  Tool(s[n])
      <4>1. n <= p
        BY <1>5, <3>2, <3>6
      <4> QED
        BY <3>4, <3>6, <4>1
    <3>7. \A j \in pos[o] + 1 .. q : Tool(r[j])
      BY <1>16, <3>6
    <3>8. r[q].ans \in CallsOf(r[pos[o]])
      BY <1>9, <3>2, <3>4, <3>5
    <3>9. pos[o] \in 1 .. q - 1
      BY <3>5
    <3> QED
      BY <3>5, <3>7, <3>8, <3>9 DEF Owner
  <2>2. CASE \E p \in 1 .. N : \E k \in 1 .. Owed(s, s[p]) : Cancels(s, r, pos, q, p, k)
    <3>1. PICK p \in 1 .. N : \E k \in 1 .. Owed(s, s[p]) : Cancels(s, r, pos, q, p, k)
      BY <2>2
    <3>2. PICK k \in 1 .. Owed(s, s[p]) : Cancels(s, r, pos, q, p, k)
      BY <3>1
    <3>3. q = pos[p] + k /\ r[q].ans \in CallsOf(s[p])
      BY <1>10, <3>2
    <3>4. pos[p] \in 1 .. L /\ From(s, r, pos, pos[p], p) /\ k \in Nat /\ 0 < k
      <4>1. k \in Nat /\ 0 < k
        BY <1>8, FixesType
      <4> QED
        BY <1>5, <4>1 DEF From
    <3>5. pos[p] \in 1 .. q - 1
      BY <3>3, <3>4
    <3>6. \A n \in 1 .. N : p < n /\ pos[n] <= q => Tool(s[n])
      BY <1>5, <1>7, <3>3
    <3>7. \A j \in pos[p] + 1 .. q : Tool(r[j])
      BY <1>16, <3>6
    <3>8. r[q].ans \in CallsOf(r[pos[p]])
      BY <1>9, <3>3, <3>4
    <3> QED
      BY <3>4, <3>5, <3>7, <3>8 DEF Owner
  <2> QED
    BY <1>6, <2>1, <2>2
<1>18. Ordered(r)
  BY <1>4, <1>11, <1>13, <1>15, <1>17 DEF Ordered
<1>19. Clean(r)
  BY <1>4, <1>11 DEF Clean
<1>20. \A k : Numbered(s, k) => Numbered(r, k)
  BY <1>3, <1>4, <1>12 DEF Numbered
<1>21. ASSUME NEW q \in 1 .. L, NEW c \in CallsOf(r[q])
       PROVE  c \in Answers(r)
  <2>1. PICK p \in 1 .. N : From(s, r, pos, q, p)
    BY <1>6, <1>10, <1>21
  <2>2. c \in CallsOf(s[p])
    BY <1>9, <1>21, <2>1
  <2>3. CASE c \in Answers(s)
    <3>1. PICK n \in 1 .. N : Tool(s[n]) /\ s[n].ans = c
      BY <1>3, <2>3, AnswersDef
    <3>2. pos[n] \in 1 .. L /\ From(s, r, pos, pos[n], n)
      BY <1>5 DEF From
    <3>3. Tool(r[pos[n]]) /\ r[pos[n]].ans = c
      BY <1>9, <3>1, <3>2
    <3> QED
      BY <1>4, <3>2, <3>3, AnswersDef
  <2>4. CASE c \notin Answers(s)
    <3>1. PICK C : C = Cancellations(s, s[p])
      OBVIOUS
    <3>2. PICK k \in DOMAIN C : C[k].ans = c
      BY <1>8, <2>2, <2>4, <3>1, CancellationsOf
    <3>3. k \in 1 .. Owed(s, s[p])
      BY <1>8, <3>1, <3>2, FixesType, LenProperties DEF Owed
    <3>4. pos[p] + k \in 1 .. L /\ Cancels(s, r, pos, pos[p] + k, p, k)
      BY <1>7, <3>3
    <3>5. Tool(r[pos[p] + k]) /\ r[pos[p] + k] = C[k]
      BY <1>10, <3>1, <3>3, <3>4
    <3> QED
      BY <1>4, <3>2, <3>4, <3>5, AnswersDef
  <2> QED
    BY <2>3, <2>4
<1>22. Answered(r, L)
  BY <1>21 DEF Answered
<1>23. Cardinality(Delegations(r)) <= Cardinality(Delegations(s))
  <2>1. PICK D : D = Delegations(s)
    OBVIOUS
  <2>2. IsFiniteSet(D)
    <3>1. IsFiniteSet(1 .. N)
      BY FS_Interval
    <3> QED
      BY <1>3, <2>1, <3>1, FS_Subset DEF Delegations
  <2>3. PICK E : E = {pos[p] : p \in D}
    OBVIOUS
  <2>4. IsFiniteSet(E) /\ Cardinality(E) <= Cardinality(D)
    <3>1. PICK f : f = [p \in D |-> pos[p]]
      OBVIOUS
    <3>2. f \in Surjection(D, E)
      BY <2>3, <3>1 DEF Surjection
    <3> QED
      BY <2>2, <3>2, FS_Surjection
  <2>5. Delegations(r) \subseteq E
    <3> SUFFICES ASSUME NEW q \in 1 .. L, r[q].status
                 PROVE  q \in E
      BY <1>4 DEF Delegations
    <3>1. PICK p \in 1 .. N : From(s, r, pos, q, p)
      BY <1>6, <1>10
    <3>2. q = pos[p] /\ s[p].status
      BY <1>9, <3>1
    <3> QED
      BY <1>3, <2>1, <2>3, <3>2 DEF Delegations
  <2>6. Cardinality(Delegations(r)) <= Cardinality(E) /\ IsFiniteSet(Delegations(r))
    BY <2>4, <2>5, FS_Subset
  <2>7. Cardinality(Delegations(r)) \in Nat /\ Cardinality(E) \in Nat /\ Cardinality(D) \in Nat
    BY <2>2, <2>4, <2>6, FS_CardinalityType
  <2> QED
    BY <2>1, <2>4, <2>6, <2>7
<1> QED
  BY <1>1, <1>4, <1>18, <1>19, <1>20, <1>22, <1>23

\* Maps that give one element for each.
Single(t, G, H) == \A n \in DOMAIN t : G[t[n]] = <<H[t[n]]>>
Image(t, H) == [n \in DOMAIN t |-> H[t[n]]]
Grown(t, x, H) == Image(Append(t, x), H) = Append(Image(t, H), H[x])
Mapped(t, G, H) == FlatMap(t, G) = Image(t, H)

LEMMA ImageAppend ==
  ASSUME NEW T, NEW U, NEW H \in [T -> U], NEW t \in Seq(T), NEW x \in T
  PROVE  Image(t, H) \in Seq(U) /\ Grown(t, x, H)
<1>0. PICK a, f, g : a = Append(t, x) /\ f = Image(t, H) /\ g = Image(a, H)
  OBVIOUS
<1>1. PICK n \in Nat : n = Len(t)
  BY LenProperties
<1>2. /\ DOMAIN a = 1 .. n + 1 /\ DOMAIN t = 1 .. n /\ a[n + 1] = x
      /\ \A i \in 1 .. n : a[i] = t[i] /\ t[i] \in T
  BY <1>0, <1>1, AppendProperties, LenProperties, ElementOfSeq
<1>3. f \in [1 .. n -> U]
  BY <1>0, <1>2 DEF Image
<1>4. f \in Seq(U) /\ Len(f) = n
  BY <1>3, SeqDef
<1>5. PICK y \in U : y = H[x]
  OBVIOUS
<1>6. /\ Append(f, y) \in [1 .. n + 1 -> U]
      /\ \A i \in 1 .. n : Append(f, y)[i] = f[i]
      /\ Append(f, y)[n + 1] = y
  <2>1. /\ Append(f, y) \in Seq(U) /\ Len(Append(f, y)) = n + 1
        /\ \A i \in 1 .. n : Append(f, y)[i] = f[i]
        /\ Append(f, y)[n + 1] = y
    BY <1>4, AppendProperties
  <2> QED
    BY <2>1, LenProperties
<1>7. \A i \in 1 .. n + 1 : i \in DOMAIN a /\ (i \in 1 .. n \/ i = n + 1)
  BY <1>2
<1>8. \A i \in 1 .. n : g[i] = f[i]
  BY <1>0, <1>2, <1>7 DEF Image
<1>9. n + 1 \in DOMAIN a
  BY <1>2
<1>10. g[n + 1] = y
  BY <1>0, <1>2, <1>5, <1>9 DEF Image
<1>11. \A i \in 1 .. n + 1 : Append(f, y)[i] = g[i]
  BY <1>6, <1>7, <1>8, <1>10, Zenon
<1>12. g = [i \in 1 .. n + 1 |-> g[i]]
  BY <1>0, <1>2 DEF Image
<1>13. g = Append(f, y)
  BY <1>6, <1>11, <1>12
<1> QED
  BY <1>0, <1>4, <1>5, <1>13 DEF Grown

LEMMA ImageEmpty ==
  ASSUME NEW H
  PROVE  Image(<<>>, H) = <<>>
<1>1. PICK f : f = Image(<<>>, H)
  OBVIOUS
<1>2. f = [n \in DOMAIN <<>> |-> H[(<<>>)[n]]] /\ DOMAIN <<>> = {}
  BY <1>1 DEF Image
<1>3. f = <<>>
  BY <1>2
<1> QED
  BY <1>1, <1>3

LEMMA SingleAppend ==
  ASSUME NEW T, NEW t \in Seq(T), NEW x \in T, NEW G, NEW H, Single(Append(t, x), G, H)
  PROVE  Single(t, G, H) /\ G[x] = <<H[x]>>
<1>0. PICK a : a = Append(t, x)
  OBVIOUS
<1>1. PICK n \in Nat : n = Len(t)
  BY LenProperties
<1>2. /\ DOMAIN a = 1 .. n + 1 /\ DOMAIN t = 1 .. n /\ a[n + 1] = x
      /\ \A i \in 1 .. n : a[i] = t[i]
  BY <1>0, <1>1, AppendProperties, LenProperties
<1>3. \A i \in 1 .. n : i \in DOMAIN a
  BY <1>2
<1>4. n + 1 \in DOMAIN a
  BY <1>2
<1>5. \A i \in DOMAIN a : G[a[i]] = <<H[a[i]]>>
  BY <1>0, Zenon DEF Single
<1>6. G[x] = <<H[x]>>
  BY <1>2, <1>4, <1>5, Zenon
<1>7. \A i \in DOMAIN t : G[t[i]] = <<H[t[i]]>>
  BY <1>2, <1>3, <1>5, Zenon
<1> QED
  BY <1>6, <1>7 DEF Single

LEMMA SingleMap ==
  ASSUME NEW T, NEW U, NEW G \in [T -> Seq(U)], NEW H \in [T -> U],
         NEW t \in Seq(T), Single(t, G, H)
  PROVE  Mapped(t, G, H)
<1>1. PICK Q : Q = {s \in Seq(T) : Single(s, G, H) => FlatMap(s, G) = Image(s, H)}
  OBVIOUS
<1>2. <<>> \in Q
  <2>1. FlatMap(<<>>, G) = Image(<<>>, H)
    BY MapEmpty, ImageEmpty
  <2>2. <<>> \in Seq(T)
    OBVIOUS
  <2> QED
    BY <1>1, <2>1, <2>2, Zenon
<1>3. ASSUME NEW s \in Seq(T), NEW x \in T, s \in Q
      PROVE  Append(s, x) \in Q
  <2>1. Append(s, x) \in Seq(T)
    BY AppendProperties
  <2>2. ASSUME Single(Append(s, x), G, H)
        PROVE  FlatMap(Append(s, x), G) = Image(Append(s, x), H)
    <3>1. Single(s, G, H) /\ G[x] = <<H[x]>>
      BY <2>2, SingleAppend
    <3>2. FlatMap(s, G) = Image(s, H)
      BY <1>1, <1>3, <3>1
    <3>3. FlatMap(Append(s, x), G) = FlatMap(s, G) \o G[x]
      BY MapAppend
    <3>4. Image(s, H) \in Seq(U) /\ Image(Append(s, x), H) = Append(Image(s, H), H[x])
      <4>1. Image(s, H) \in Seq(U) /\ Grown(s, x, H)
        BY ImageAppend
      <4> QED
        BY <4>1 DEF Grown
    <3>5. H[x] \in U
      OBVIOUS
    <3>6. Append(Image(s, H), H[x]) = Image(s, H) \o <<H[x]>>
      BY <3>4, <3>5, AppendIsConcat
    <3> QED
      BY <3>1, <3>2, <3>3, <3>4, <3>6, Zenon
  <2> QED
    BY <1>1, <2>1, <2>2, Zenon
<1>4. t \in Q
  BY <1>2, <1>3, SeqInduction
<1> QED
  BY <1>1, <1>4 DEF Mapped

\* A repair of a thread without truncated and unanswered calls changes nothing.
LEMMA RepairTwice ==
  ASSUME NEW s \in Seq(Msg), Answered(s, Len(s)), Clean(s)
  PROVE  Repaired(s) = s
<1>1. PICK F : F = Fixes(s)
  OBVIOUS
<1>2. PICK H : H = [m \in Msg |-> m]
  OBVIOUS
<1>3. F \in [Msg -> Seq(Msg)] /\ H \in [Msg -> Msg]
  BY <1>1, <1>2, FixesType
<1>4. ASSUME NEW n \in DOMAIN s
      PROVE  F[s[n]] = <<H[s[n]]>>
  <2>1. PICK m \in Msg : m = s[n]
    BY ThreadFields
  <2>2. CallsOf(m) \subseteq Answers(s) /\ ~m.bad
    BY <2>1, ThreadFields DEF Answered, Clean
  <2>3. PICK c \in Seq(Msg) : c = Cancellations(s, m)
    BY CancellationsOf
  <2>4. DOMAIN c = {}
    BY <2>2, <2>3, CancellationsOf
  <2>5. c = <<>>
    <3>1. Len(c) \in Nat /\ DOMAIN c = 1 .. Len(c)
      BY LenProperties
    <3>2. Len(c) = 0
      BY <2>4, <3>1
    <3> QED
      BY <3>2, EmptySeq
  <2>6. F[m] = <<Cleaned(m)>> \o <<>>
    BY <1>1, <2>3, <2>5 DEF Fixes
  <2>7. Cleaned(m) = m
    BY <2>2, CleanedMessage
  <2>8. <<m>> \o <<>> = <<m>>
    OBVIOUS
  <2>9. H[m] = m
    BY <1>2
  <2> QED
    BY <2>1, <2>6, <2>7, <2>8, <2>9, Zenon
<1>5. Single(s, F, H)
  BY <1>4 DEF Single
<1>6. FlatMap(s, F) = Image(s, H)
  <2>1. Mapped(s, F, H)
    BY <1>3, <1>5, SingleMap
  <2> QED
    BY <2>1 DEF Mapped
<1>7. Image(s, H) = s
  <2>1. \A n \in DOMAIN s : H[s[n]] = s[n]
    BY <1>2, ThreadFields
  <2>2. [n \in DOMAIN s |-> H[s[n]]] = [n \in DOMAIN s |-> s[n]]
    BY <2>1, Zenon
  <2>3. s = [n \in DOMAIN s |-> s[n]]
    BY LenProperties
  <2> QED
    BY <2>2, <2>3, Zenon DEF Image
<1> QED
  BY <1>1, <1>6, <1>7, RepairedIsFlat

LEMMA FlatMapType ==
  ASSUME NEW T, NEW U, NEW G \in [T -> Seq(U)], NEW t \in Seq(T)
  PROVE  FlatMap(t, G) \in Seq(U)
<1>1. PICK Q : Q = {s \in Seq(T) : FlatMap(s, G) \in Seq(U)}
  OBVIOUS
<1>2. <<>> \in Q
  <2>1. FlatMap(<<>>, G) = <<>>
    BY MapEmpty
  <2>2. <<>> \in Seq(T) /\ <<>> \in Seq(U)
    OBVIOUS
  <2> QED
    BY <1>1, <2>1, <2>2, Zenon
<1>3. ASSUME NEW s \in Seq(T), NEW x \in T, s \in Q
      PROVE  Append(s, x) \in Q
  <2>1. Append(s, x) \in Seq(T) /\ FlatMap(s, G) \in Seq(U) /\ G[x] \in Seq(U)
    BY <1>1, <1>3, AppendProperties
  <2>2. FlatMap(Append(s, x), G) = FlatMap(s, G) \o G[x]
    BY MapAppend
  <2>3. FlatMap(s, G) \o G[x] \in Seq(U)
    BY <2>1, ConcatProperties
  <2> QED
    BY <1>1, <2>1, <2>2, <2>3, Zenon
<1>4. t \in Q
  BY <1>2, <1>3, SeqInduction
<1> QED
  BY <1>1, <1>4

\* Elements that a map gives nothing for.
Silent(c, G) == \A n \in DOMAIN c : G[c[n]] = <<>>
Same(r, c, G) == FlatMap(r \o c, G) = FlatMap(r, G)

LEMMA SilentMap ==
  ASSUME NEW T, NEW U, NEW G \in [T -> Seq(U)], NEW r \in Seq(T), NEW c \in Seq(T), Silent(c, G)
  PROVE  Same(r, c, G)
<1>1. PICK Q : Q = {s \in Seq(T) : Silent(s, G) => FlatMap(r \o s, G) = FlatMap(r, G)}
  OBVIOUS
<1>2. <<>> \in Q
  <2>1. r \o <<>> = r
    BY ConcatEmptySeq
  <2>2. <<>> \in Seq(T)
    OBVIOUS
  <2> QED
    BY <1>1, <2>1, <2>2, Zenon
<1>3. ASSUME NEW s \in Seq(T), NEW x \in T, s \in Q
      PROVE  Append(s, x) \in Q
  <2>1. PICK a : a = Append(s, x)
    OBVIOUS
  <2>2. a \in Seq(T)
    BY <2>1, AppendProperties
  <2>3. ASSUME Silent(a, G)
        PROVE  FlatMap(r \o a, G) = FlatMap(r, G)
    <3>1. PICK n \in Nat : n = Len(s)
      BY LenProperties
    <3>2. /\ DOMAIN a = 1 .. n + 1 /\ DOMAIN s = 1 .. n /\ a[n + 1] = x
          /\ \A i \in 1 .. n : a[i] = s[i]
      BY <2>1, <3>1, AppendProperties, LenProperties
    <3>3. n + 1 \in DOMAIN a /\ \A i \in 1 .. n : i \in DOMAIN a
      BY <3>2
    <3>4. G[x] = <<>>
      BY <2>3, <3>2, <3>3, Zenon DEF Silent
    <3>5. Silent(s, G)
      BY <2>3, <3>2, <3>3, Zenon DEF Silent
    <3>6. FlatMap(r \o s, G) = FlatMap(r, G)
      BY <1>1, <1>3, <3>5
    <3>7. r \o s \in Seq(T) /\ <<x>> \in Seq(T)
      BY ConcatProperties
    <3>8. r \o a = Append(r \o s, x)
      <4>1. a = s \o <<x>>
        BY <2>1, AppendIsConcat
      <4>2. r \o (s \o <<x>>) = (r \o s) \o <<x>>
        BY <3>7, ConcatAssociative
      <4>3. Append(r \o s, x) = (r \o s) \o <<x>>
        BY <3>7, AppendIsConcat
      <4> QED
        BY <4>1, <4>2, <4>3
    <3>9. FlatMap(Append(r \o s, x), G) = FlatMap(r \o s, G) \o G[x]
      BY <3>7, MapAppend
    <3>10. FlatMap(r, G) \in Seq(U)
      BY FlatMapType
    <3>11. FlatMap(r, G) \o <<>> = FlatMap(r, G)
      BY <3>10, ConcatEmptySeq
    <3> QED
      BY <3>4, <3>6, <3>8, <3>9, <3>11, Zenon
  <2> QED
    BY <1>1, <2>1, <2>2, <2>3, Zenon
<1>4. c \in Q
  BY <1>2, <1>3, SeqInduction
<1> QED
  BY <1>1, <1>4 DEF Same

\* What PlainShared keeps of a message.
KeptOf(s) == [m \in Msg |-> IF Shared(s, m) THEN <<Plain(m)>> ELSE <<>>]
PlainOf == [m \in Msg |-> Plain(m)]
PlainMsgs == {Plain(m) : m \in Msg}
AllShared(s, t) == \A n \in DOMAIN t : Shared(s, t[n])

LEMMA KeptType ==
  ASSUME NEW s
  PROVE  /\ KeptOf(s) \in [Msg -> Seq(PlainMsgs)] /\ PlainOf \in [Msg -> PlainMsgs]
         /\ \A m \in Msg : /\ PlainOf[m] = Plain(m)
                           /\ Shared(s, m) => KeptOf(s)[m] = <<PlainOf[m]>>
                           /\ ~Shared(s, m) => KeptOf(s)[m] = <<>>
                           /\ Shared(s, Cleaned(m)) <=> Shared(s, m)
                           /\ PlainOf[Cleaned(m)] = PlainOf[m]
<1>1. \A m \in Msg : Plain(m) \in PlainMsgs
  BY DEF PlainMsgs
<1>2. PlainOf \in [Msg -> PlainMsgs] /\ \A m \in Msg : PlainOf[m] = Plain(m)
  BY <1>1, Zenon DEF PlainOf
<1>3. \A m \in Msg : /\ Shared(s, m) => KeptOf(s)[m] = <<Plain(m)>>
                     /\ ~Shared(s, m) => KeptOf(s)[m] = <<>>
  BY DEF KeptOf
<1>4. KeptOf(s) \in [Msg -> Seq(PlainMsgs)]
  <2>1. \A m \in Msg : <<Plain(m)>> \in Seq(PlainMsgs) /\ <<>> \in Seq(PlainMsgs)
    BY <1>1
  <2>2. \A m \in Msg : (IF Shared(s, m) THEN <<Plain(m)>> ELSE <<>>) \in Seq(PlainMsgs)
    BY <2>1, Zenon
  <2> QED
    BY <2>2, Zenon DEF KeptOf
<1>5. ASSUME NEW m \in Msg
      PROVE  (Shared(s, Cleaned(m)) <=> Shared(s, m)) /\ PlainOf[Cleaned(m)] = PlainOf[m]
  <2>1. /\ Cleaned(m) \in Msg /\ Cleaned(m).role = m.role /\ Cleaned(m).id = m.id
        /\ Cleaned(m).calls = m.calls /\ Cleaned(m).ans = m.ans /\ Cleaned(m).status = m.status
    BY CleanedMessage
  <2>2. Shared(s, Cleaned(m)) <=> Shared(s, m)
    BY <2>1, Zenon DEF Shared
  <2>3. Plain(Cleaned(m)) = Plain(m)
    BY <2>1, Zenon DEF Plain
  <2> QED
    BY <1>2, <2>1, <2>2, <2>3, Zenon
<1> QED
  BY <1>2, <1>3, <1>4, <1>5, Zenon

LEMMA PlainSharedIsFlat ==
  ASSUME NEW s, NEW t \in Seq(Msg)
  PROVE  PlainShared(s, t) = FlatMap(t, KeptOf(s))
<1>1. \A n \in DOMAIN t : t[n] \in Msg
  BY ThreadFields
<1>2. \A n \in DOMAIN t : KeptOf(s)[t[n]] = IF Shared(s, t[n]) THEN <<Plain(t[n])>> ELSE <<>>
  BY <1>1 DEF KeptOf
<1>3. [n \in DOMAIN t |-> KeptOf(s)[t[n]]]
        = [n \in DOMAIN t |-> IF Shared(s, t[n]) THEN <<Plain(t[n])>> ELSE <<>>]
  BY <1>2, Zenon
<1> QED
  BY <1>3, Zenon DEF PlainShared, FlatMap

LEMMA SharedWithItself ==
  ASSUME NEW s \in Seq(Msg)
  PROVE  Single(s, KeptOf(s), PlainOf)
<1>1. ASSUME NEW n \in DOMAIN s
      PROVE  KeptOf(s)[s[n]] = <<PlainOf[s[n]]>>
  <2>1. PICK m \in Msg : m = s[n]
    BY ThreadFields
  <2>2. Shared(s, m)
    BY <2>1, AnswersDef DEF Shared, Tool
  <2>3. KeptOf(s)[m] = <<PlainOf[m]>>
    BY <2>2, KeptType
  <2> QED
    BY <2>1, <2>3, Zenon
<1> QED
  BY <1>1, Zenon DEF Single

LEMMA CancellationsSilent ==
  ASSUME NEW s, NEW m \in Msg
  PROVE  Silent(Cancellations(s, m), KeptOf(s))
<1>1. PICK c \in Seq(Msg) : c = Cancellations(s, m)
  BY CancellationsOf
<1>2. ASSUME NEW k \in DOMAIN c
      PROVE  KeptOf(s)[c[k]] = <<>>
  <2>1. c[k].ans \notin Answers(s) /\ c[k] = Cancelled(c[k].ans) /\ c[k].ans \in Calls
    BY <1>1, CancellationsOf
  <2>2. c[k] \in Msg /\ Tool(c[k])
    BY <2>1, NewMessages DEF Cancelled
  <2>3. ~Shared(s, c[k])
    BY <2>1, <2>2 DEF Shared, Tool
  <2> QED
    BY <2>2, <2>3, KeptType
<1> QED
  BY <1>1, <1>2, Zenon DEF Silent

\* What a repair of s makes of t, and what is kept of that.
Refitted(s, t) == FlatMap(FlatMap(t, Fixes(s)), KeptOf(s)) = Image(t, PlainOf)

LEMMA FixesKeep ==
  ASSUME NEW s, NEW t \in Seq(Msg), Single(t, KeptOf(s), PlainOf)
  PROVE  Refitted(s, t)
<1>1. PICK F, G, H, P : F = Fixes(s) /\ G = KeptOf(s) /\ H = PlainOf /\ P = PlainMsgs
  OBVIOUS
<1>2. F \in [Msg -> Seq(Msg)] /\ G \in [Msg -> Seq(P)] /\ H \in [Msg -> P]
  BY <1>1, FixesType, KeptType
<1>3. PICK Q : Q = {u \in Seq(Msg) : Single(u, G, H) => FlatMap(FlatMap(u, F), G) = Image(u, H)}
  OBVIOUS
<1>4. <<>> \in Q
  <2>1. FlatMap(FlatMap(<<>>, F), G) = Image(<<>>, H)
    BY MapEmpty, ImageEmpty
  <2>2. <<>> \in Seq(Msg)
    OBVIOUS
  <2> QED
    BY <1>3, <2>1, <2>2, Zenon
<1>5. ASSUME NEW u \in Seq(Msg), NEW x \in Msg, u \in Q
      PROVE  Append(u, x) \in Q
  <2>1. Append(u, x) \in Seq(Msg)
    BY AppendProperties
  <2>2. ASSUME Single(Append(u, x), G, H)
        PROVE  FlatMap(FlatMap(Append(u, x), F), G) = Image(Append(u, x), H)
    <3>1. Single(u, G, H) /\ G[x] = <<H[x]>>
      BY <2>2, SingleAppend
    <3>2. FlatMap(FlatMap(u, F), G) = Image(u, H)
      BY <1>3, <1>5, <3>1
    <3>3. PICK r \in Seq(Msg) : r = FlatMap(u, F)
      BY <1>2, FlatMapType
    <3>4. PICK c \in Seq(Msg) : c = Cancellations(s, x)
      BY CancellationsOf
    <3>5. PICK y \in Msg : y = Cleaned(x)
      BY CleanedMessage
    <3>6. FlatMap(Append(u, x), F) = Append(r, y) \o c
      <4>1. FlatMap(Append(u, x), F) = r \o F[x]
        BY <1>2, <3>3, MapAppend
      <4>2. F[x] = <<y>> \o c
        BY <1>1, <3>4, <3>5 DEF Fixes
      <4>3. r \o (<<y>> \o c) = (r \o <<y>>) \o c
        <5>1. <<y>> \in Seq(Msg)
          OBVIOUS
        <5> QED
          BY <5>1, ConcatAssociative
      <4>4. Append(r, y) = r \o <<y>>
        BY AppendIsConcat
      <4> QED
        BY <4>1, <4>2, <4>3, <4>4, Zenon
    <3>7. FlatMap(Append(r, y) \o c, G) = FlatMap(Append(r, y), G)
      <4>1. Silent(c, G)
        BY <1>1, <3>4, CancellationsSilent
      <4>2. Append(r, y) \in Seq(Msg)
        BY AppendProperties
      <4>3. Same(Append(r, y), c, G)
        BY <1>2, <4>1, <4>2, SilentMap
      <4> QED
        BY <4>3 DEF Same
    <3>8. FlatMap(Append(r, y), G) = FlatMap(r, G) \o G[y]
      BY <1>2, MapAppend
    <3>9. G[y] = <<H[x]>>
      <4>1. Shared(s, x)
        <5>1. ~Shared(s, x) => G[x] = <<>>
          BY <1>1, KeptType
        <5>2. <<H[x]>> # <<>>
          OBVIOUS
        <5> QED
          BY <3>1, <5>1, <5>2
      <4>2. Shared(s, y) /\ H[y] = H[x]
        BY <1>1, <3>5, <4>1, KeptType
      <4>3. G[y] = <<H[y]>>
        BY <1>1, <4>2, KeptType
      <4> QED
        BY <4>2, <4>3
    <3>10. Image(u, H) \in Seq(P) /\ Image(Append(u, x), H) = Append(Image(u, H), H[x])
      <4>1. Image(u, H) \in Seq(P) /\ Grown(u, x, H)
        BY <1>2, ImageAppend
      <4> QED
        BY <4>1 DEF Grown
    <3>11. H[x] \in P
      BY <1>2
    <3>12. Append(Image(u, H), H[x]) = Image(u, H) \o <<H[x]>>
      BY <3>10, <3>11, AppendIsConcat
    <3> QED
      BY <3>2, <3>3, <3>6, <3>7, <3>8, <3>9, <3>10, <3>12, Zenon
  <2> QED
    BY <1>3, <2>1, <2>2, Zenon
<1>6. t \in Q
  BY <1>4, <1>5, SeqInduction
<1> QED
  BY <1>1, <1>3, <1>6 DEF Refitted

\* What a repair has in common with the thread is the whole thread.
LEMMA RepairAdds ==
  ASSUME NEW s \in Seq(Msg)
  PROVE  /\ PlainShared(s, Repaired(s)) = [n \in DOMAIN s |-> Plain(s[n])]
         /\ PlainShared(s, s) = [n \in DOMAIN s |-> Plain(s[n])]
<1>1. Single(s, KeptOf(s), PlainOf)
  BY SharedWithItself
<1>2. Image(s, PlainOf) = [n \in DOMAIN s |-> Plain(s[n])]
  <2>1. \A n \in DOMAIN s : s[n] \in Msg
    BY ThreadFields
  <2>2. \A n \in DOMAIN s : PlainOf[s[n]] = Plain(s[n])
    BY <2>1, KeptType
  <2>3. [n \in DOMAIN s |-> PlainOf[s[n]]] = [n \in DOMAIN s |-> Plain(s[n])]
    BY <2>2, Zenon
  <2> QED
    BY <2>3, Zenon DEF Image
<1>3. PlainShared(s, s) = Image(s, PlainOf)
  <2>1. KeptOf(s) \in [Msg -> Seq(PlainMsgs)] /\ PlainOf \in [Msg -> PlainMsgs]
    BY KeptType
  <2>2. Mapped(s, KeptOf(s), PlainOf)
    BY <1>1, <2>1, SingleMap
  <2>3. FlatMap(s, KeptOf(s)) = Image(s, PlainOf)
    BY <2>2 DEF Mapped
  <2>4. PlainShared(s, s) = FlatMap(s, KeptOf(s))
    BY PlainSharedIsFlat
  <2> QED
    BY <2>3, <2>4
<1>4. PlainShared(s, Repaired(s)) = Image(s, PlainOf)
  <2>1. FlatMap(FlatMap(s, Fixes(s)), KeptOf(s)) = Image(s, PlainOf)
    <3>1. Refitted(s, s)
      BY <1>1, FixesKeep
    <3> QED
      BY <3>1 DEF Refitted
  <2>2. PICK r \in Seq(Msg) : r = Repaired(s)
    BY RepairedLayout
  <2>3. PlainShared(s, r) = FlatMap(r, KeptOf(s))
    BY PlainSharedIsFlat
  <2>4. r = FlatMap(s, Fixes(s))
    BY <2>2, RepairedIsFlat
  <2> QED
    BY <2>1, <2>2, <2>3, <2>4
<1> QED
  BY <1>2, <1>3, <1>4

-----------------------------------------------------------------------------
(* The steps of a turn.                                                      *)

LEMMA NoCalls ==
  ASSUME NEW m \in Msg
  PROVE  m.calls = <<>> <=> CallsOf(m) = {}
<1>1. PICK c \in Seq(Calls) : c = m.calls
  BY MsgFields
<1>2. PICK N \in Nat : N = Len(c) /\ DOMAIN c = 1 .. N /\ (N = 0 <=> c = <<>>)
  BY LenProperties, EmptySeq
<1>3. DOMAIN c = {} <=> c = <<>>
  <2>1. 1 .. N = {} <=> N = 0
    OBVIOUS
  <2> QED
    BY <1>2, <2>1, Zenon
<1>4. ToSet(c) = {} <=> DOMAIN c = {}
  BY DEF ToSet
<1> QED
  BY <1>1, <1>3, <1>4 DEF CallsOf

\* clone_ai_message_with_tool_calls.
LEMMA KeepFacts ==
  ASSUME NEW m \in Msg, Sound(m), Ai(m), NEW S
  PROVE  LET k == Keep(m, S)
         IN  /\ k \in Msg /\ Sound(k) /\ Ai(k) /\ k.id = m.id
             /\ CallsOf(k) = CallsOf(m) \cap S
             /\ k.calls = <<>> /\ m.calls # <<>> => k.text
             /\ m.calls = <<>> => k.calls = <<>>
<1>1. PICK left : left = Only(m.calls, S)
  OBVIOUS
<1>2. m.calls \in Seq(Calls) /\ Distinct(m.calls)
  BY MsgFields DEF Sound
<1>3. left \in Seq(Calls) /\ ToSet(left) = CallsOf(m) \cap S /\ Distinct(left)
  BY <1>1, <1>2, OnlyFacts DEF CallsOf
<1>4. PICK k : k = Keep(m, S)
  OBVIOUS
<1>5. k = [m EXCEPT !.calls = left, !.usage = FALSE, !.bad = FALSE,
                    !.text = @ \/ (left = <<>> /\ m.calls # <<>>)]
  BY <1>1, <1>4, Zenon DEF Keep
<1>6. /\ k \in Msg /\ k.role = m.role /\ k.id = m.id /\ k.calls = left /\ k.ans = m.ans
      /\ ~k.usage /\ ~k.bad /\ k.status = m.status
      /\ k.text = (m.text \/ (left = <<>> /\ m.calls # <<>>))
  BY <1>3, <1>5 DEF Msg
<1>7. CallsOf(k) = CallsOf(m) \cap S
  BY <1>3, <1>6 DEF CallsOf
<1>8. Ai(k) /\ ~Tool(k) /\ ~Tool(m)
  BY <1>6 DEF Ai, Tool
<1>9. Sound(k)
  <2>1. k.ans = None /\ ~k.status
    BY <1>6, <1>8 DEF Sound
  <2>2. \A c \in CallsOf(k) : c.reply = k.id
    BY <1>6, <1>7 DEF Sound
  <2> QED
    BY <1>3, <1>6, <1>8, <2>1, <2>2, Zenon DEF Sound
<1>10. k.calls = <<>> /\ m.calls # <<>> => k.text
  BY <1>6
<1>11. m.calls = <<>> => k.calls = <<>>
  BY <1>6, <1>7, NoCalls
<1> QED
  BY <1>4, <1>6, <1>7, <1>8, <1>9, <1>10, <1>11

LEMMA StripFacts ==
  ASSUME NEW m \in Msg, Sound(m), Ai(m)
  PROVE  LET k == StripAll(m)
         IN  /\ k \in Msg /\ Sound(k) /\ Ai(k) /\ k.id = m.id /\ k.calls = <<>>
             /\ m.calls # <<>> => k.text
<1>1. PICK k : k = Keep(m, {})
  OBVIOUS
<1>2. /\ k \in Msg /\ Sound(k) /\ Ai(k) /\ k.id = m.id /\ CallsOf(k) = CallsOf(m) \cap {}
      /\ k.calls = <<>> /\ m.calls # <<>> => k.text
  BY <1>1, KeepFacts
<1>3. k.calls = <<>>
  BY <1>2, NoCalls
<1> QED
  BY <1>1, <1>2, <1>3 DEF StripAll

\* Delegations are counted.
LEMMA FewerThan ==
  ASSUME NEW D, IsFiniteSet(D), NEW f, NEW E, \A e \in E : \E d \in D : f[d] = e
  PROVE  IsFiniteSet(E) /\ Cardinality(E) \in Nat /\ Cardinality(D) \in Nat
         /\ Cardinality(E) <= Cardinality(D)
<1>1. PICK R : R = {f[d] : d \in D}
  OBVIOUS
<1>2. PICK g : g = [d \in D |-> f[d]]
  OBVIOUS
<1>3. g \in Surjection(D, R)
  BY <1>1, <1>2 DEF Surjection
<1>4. IsFiniteSet(R) /\ Cardinality(R) <= Cardinality(D)
  BY <1>3, FS_Surjection
<1>5. E \subseteq R
  BY <1>1
<1>6. IsFiniteSet(E) /\ Cardinality(E) <= Cardinality(R)
  BY <1>4, <1>5, FS_Subset
<1>7. Cardinality(E) \in Nat /\ Cardinality(R) \in Nat /\ Cardinality(D) \in Nat
  BY <1>4, <1>6, FS_CardinalityType
<1> QED
  BY <1>4, <1>6, <1>7

LEMMA DelegationsFinite ==
  ASSUME NEW s \in Seq(Msg)
  PROVE  IsFiniteSet(Delegations(s)) /\ Cardinality(Delegations(s)) \in Nat
<1>1. PICK N \in Nat : N = Len(s) /\ DOMAIN s = 1 .. N
  BY LenProperties
<1>2. IsFiniteSet(1 .. N)
  BY FS_Interval
<1>3. Delegations(s) \subseteq 1 .. N
  BY <1>1 DEF Delegations
<1> QED
  BY <1>2, <1>3, FS_Subset, FS_CardinalityType

LEMMA CallsFinite ==
  ASSUME NEW m \in Msg
  PROVE  /\ IsFiniteSet(CallsOf(m)) /\ IsFiniteSet(Delegating(m))
         /\ Cardinality(Delegating(m)) \in Nat
<1>1. PICK c \in Seq(Calls) : c = m.calls
  BY MsgFields
<1>2. PICK N \in Nat : N = Len(c) /\ DOMAIN c = 1 .. N
  BY LenProperties
<1>3. IsFiniteSet(1 .. N)
  BY FS_Interval
<1>4. \A e \in CallsOf(m) : \E d \in 1 .. N : c[d] = e
  BY <1>1, <1>2 DEF CallsOf, ToSet
<1>5. IsFiniteSet(CallsOf(m))
  BY <1>3, <1>4, FewerThan
<1>6. Delegating(m) \subseteq CallsOf(m)
  BY DEF Delegating
<1> QED
  BY <1>5, <1>6, FS_Subset, FS_CardinalityType

\* Another version of the last reply in its place.
LEMMA ReplacedThread ==
  ASSUME NEW s \in Seq(Msg), Ordered(s), s # <<>>, Ai(LastOf(s)),
         NEW m \in Msg, Sound(m), Ai(m), m.id = LastOf(s).id,
         NEW k, Numbered(s, k)
  PROVE  LET t == [s EXCEPT ![Len(s)] = m]
         IN  /\ Numbered(t, k)
             /\ Delegations(t) = Delegations(s)
             /\ (\E n \in DOMAIN t : Tool(t[n])) <=> (\E n \in DOMAIN s : Tool(s[n]))
<1>1. PICK t : t = [s EXCEPT ![Len(s)] = m]
  OBVIOUS
<1>2. PICK N \in Nat : N = Len(s) /\ DOMAIN s = 1 .. N /\ N \in 1 .. N
  BY ThreadFields
<1>3. /\ t \in Seq(Msg) /\ LastOf(t) = m /\ Len(t) = N /\ \A n \in 1 .. N - 1 : t[n] = s[n]
  <2>1. /\ t \in Seq(Msg) /\ LastOf(t) = m /\ Len(t) = Len(s)
        /\ \A n \in 1 .. Len(s) - 1 : t[n] = s[n]
    BY <1>1, ReplaceReply
  <2> QED
    BY <1>2, <2>1
<1>4. DOMAIN t = 1 .. N /\ t[N] = m /\ Ai(s[N]) /\ m.id = s[N].id
  BY <1>2, <1>3, LenProperties DEF LastOf
<1>5. \A n \in 1 .. N : n \in 1 .. N - 1 \/ n = N
  OBVIOUS
<1>6. ~Tool(m) /\ ~Tool(s[N]) /\ ~m.status /\ ~s[N].status
  BY <1>2, <1>4 DEF Ordered, Sound, Ai, Tool
<1>7. \A n \in 1 .. N : /\ Ai(t[n]) <=> Ai(s[n])
                        /\ t[n].id = s[n].id
                        /\ Tool(t[n]) <=> Tool(s[n])
                        /\ t[n].status <=> s[n].status
  BY <1>3, <1>4, <1>5, <1>6
<1>8. Numbered(t, k)
  BY <1>2, <1>4, <1>7 DEF Numbered
<1>9. Delegations(t) = Delegations(s)
  BY <1>2, <1>4, <1>7 DEF Delegations
<1>10. (\E n \in DOMAIN t : Tool(t[n])) <=> (\E n \in DOMAIN s : Tool(s[n]))
  BY <1>2, <1>4, <1>7
<1> QED
  BY <1>1, <1>8, <1>9, <1>10

\* The results of the calls in S.
LEMMA ResultsFacts ==
  ASSUME thread \in Seq(Msg), Ordered(thread), thread # <<>>, NEW S, NEW bad
  PROVE  /\ ResultsFor(Results(S, bad), LastOf(thread))
         /\ {Results(S, bad)[k].ans : k \in DOMAIN Results(S, bad)} = CallsOf(LastOf(thread)) \cap S
         /\ \A k \in DOMAIN Results(S, bad) : ~Results(S, bad)[k].bad
         /\ \A k \in DOMAIN Results(S, bad) :
              Results(S, bad)[k].status => Results(S, bad)[k].ans \in Delegating(LastOf(thread))
<1>1. PICK m \in Msg : m = LastOf(thread) /\ m = LastMsg /\ Sound(m)
  BY ThreadFields DEF LastOf, LastMsg, Ordered
<1>2. PICK done : done = Only(m.calls, S)
  OBVIOUS
<1>3. m.calls \in Seq(Calls) /\ Distinct(m.calls)
  BY <1>1, MsgFields DEF Sound
<1>4. done \in Seq(Calls) /\ ToSet(done) = CallsOf(m) \cap S /\ Distinct(done)
  BY <1>2, <1>3, OnlyFacts DEF CallsOf
<1>5. PICK N \in Nat : N = Len(done) /\ DOMAIN done = 1 .. N
  BY <1>4, LenProperties
<1>6. \A k \in 1 .. N : done[k] \in Calls /\ done[k] \in CallsOf(m) \cap S
  BY <1>4, <1>5, ElementOfSeq DEF ToSet
<1>7. PICK r : r = Results(S, bad)
  OBVIOUS
<1>8. r = [k \in 1 .. N |-> IF done[k] \in bad THEN Failed(done[k]) ELSE Result(done[k])]
  BY <1>1, <1>2, <1>5, <1>7, Zenon DEF Results
<1>9. ASSUME NEW k \in 1 .. N
      PROVE  /\ r[k] \in Msg /\ Sound(r[k]) /\ Tool(r[k]) /\ r[k].ans = done[k]
             /\ r[k].calls = <<>> /\ ~r[k].bad /\ (r[k].status => done[k].task)
  <2>1. r[k] = IF done[k] \in bad THEN Failed(done[k]) ELSE Result(done[k])
    BY <1>8
  <2>2. r[k] = Failed(done[k]) \/ r[k] = Result(done[k])
    BY <2>1
  <2> QED
    BY <1>6, <2>2, NewMessages
<1>10. DOMAIN r = 1 .. N
  BY <1>8
<1>11. r \in Seq(Msg)
  <2>1. r \in [1 .. N -> Msg]
    BY <1>8, <1>9
  <2> QED
    BY <2>1, SeqDef
<1>12. \A j, k \in 1 .. N : r[j].ans = r[k].ans => j = k
  BY <1>4, <1>5, <1>9 DEF Distinct
<1>13. ResultsFor(r, m)
  BY <1>6, <1>9, <1>10, <1>11, <1>12 DEF ResultsFor
<1>14. {r[k].ans : k \in DOMAIN r} = CallsOf(m) \cap S
  <2>1. ToSet(done) = {done[k] : k \in 1 .. N}
    BY <1>5 DEF ToSet
  <2>2. \A c : c \in {r[k].ans : k \in DOMAIN r} <=> c \in {done[k] : k \in 1 .. N}
    BY <1>9, <1>10
  <2> QED
    BY <1>4, <2>1, <2>2
<1>15. \A k \in DOMAIN r : ~r[k].bad /\ (r[k].status => r[k].ans \in Delegating(m))
  BY <1>6, <1>9, <1>10 DEF Delegating
<1> QED
  BY <1>1, <1>7, <1>13, <1>14, <1>15

\* Results count no more delegations than the reply asked for.
LEMMA ResultsDelegations ==
  ASSUME NEW s \in Seq(Msg), Ordered(s), s # <<>>, Ai(LastOf(s)),
         NEW r, ResultsFor(r, LastOf(s)),
         \A k \in DOMAIN r : r[k].status => r[k].ans \in Delegating(LastOf(s))
  PROVE  Cardinality(Delegations(s \o r))
           <= Cardinality(Delegations(s)) + Cardinality(Delegating(LastOf(s)))
<1>0. PICK t : t = s \o r
  OBVIOUS
<1>1. PICK N \in Nat : N = Len(s) /\ DOMAIN s = 1 .. N
  BY ThreadFields
<1>2. PICK M \in Nat : M = Len(r) /\ DOMAIN r = 1 .. M
  BY LenProperties DEF ResultsFor
<1>3. PICK D, C, E : /\ D = Delegations(s) /\ C = Delegating(LastOf(s))
                     /\ E = {n \in Delegations(t) : n \notin 1 .. N}
  OBVIOUS
<1>4. /\ t \in Seq(Msg) /\ Len(t) = Len(s) + Len(r)
      /\ \A n \in DOMAIN s : t[n] = s[n]
      /\ \A k \in DOMAIN r : t[Len(s) + k] = r[k]
  BY <1>0, AddResults
<1>5. DOMAIN t = 1 .. N + M /\ (\A n \in 1 .. N : t[n] = s[n]) /\ (\A k \in 1 .. M : t[N + k] = r[k])
  BY <1>1, <1>2, <1>4, LenProperties
<1>6. IsFiniteSet(C) /\ Cardinality(C) \in Nat /\ IsFiniteSet(D) /\ Cardinality(D) \in Nat
  BY <1>3, ThreadFields, CallsFinite, DelegationsFinite
<1>7. PICK f : f = [c \in C |-> N + (CHOOSE k \in 1 .. M : r[k].ans = c)]
  OBVIOUS
<1>8. ASSUME NEW n \in E
      PROVE  \E c \in C : f[c] = n
  <2>1. n \in 1 .. N + M /\ n \notin 1 .. N /\ t[n].status
    BY <1>3, <1>5, <1>8 DEF Delegations
  <2>2. PICK k \in 1 .. M : n = N + k
    <3>1. n - N \in 1 .. M /\ n = N + (n - N)
      BY <2>1
    <3> QED
      BY <3>1
  <2>3. PICK c \in C : c = r[k].ans
    BY <1>2, <1>3, <1>5, <2>1, <2>2
  <2>4. \A j \in 1 .. M : r[j].ans = c => j = k
    BY <1>2, <2>3 DEF ResultsFor
  <2>5. (CHOOSE j \in 1 .. M : r[j].ans = c) = k
    BY <2>3, <2>4
  <2> QED
    BY <1>7, <2>2, <2>5
<1>9. IsFiniteSet(E) /\ Cardinality(E) \in Nat /\ Cardinality(E) <= Cardinality(C)
  BY <1>6, <1>8, FewerThan
<1>10. Delegations(t) = D \cup E /\ D \cap E = {}
  <2>1. \A n \in 1 .. N : n \in Delegations(t) <=> n \in D
    BY <1>1, <1>3, <1>5 DEF Delegations
  <2>2. D \subseteq 1 .. N
    BY <1>1, <1>3 DEF Delegations
  <2> QED
    BY <1>3, <2>1, <2>2
<1>11. Cardinality(D \cup E) = Cardinality(D) + Cardinality(E)
  <2>1. Cardinality(D \cup E) = Cardinality(D) + Cardinality(E) - Cardinality(D \cap E)
    BY <1>6, <1>9, FS_Union
  <2>2. Cardinality(D \cap E) = 0
    BY <1>10, FS_EmptySet
  <2> QED
    BY <1>6, <1>9, <2>1, <2>2
<1>12. Cardinality(Delegations(t)) = Cardinality(D) + Cardinality(E)
  BY <1>10, <1>11
<1>13. Cardinality(Delegations(t)) <= Cardinality(D) + Cardinality(C)
  BY <1>6, <1>9, <1>12
<1> QED
  BY <1>0, <1>3, <1>13

\* Neither a human message nor a reply is a delegation, taking messages away
\* makes no new one, and a summary remembers none.
LEMMA AppendDelegations ==
  ASSUME NEW s \in Seq(Msg), NEW m \in Msg, ~m.status
  PROVE  Delegations(Append(s, m)) = Delegations(s)
<1>0. PICK a : a = Append(s, m)
  OBVIOUS
<1>1. PICK N \in Nat : N = Len(s)
  BY LenProperties
<1>2. /\ DOMAIN a = 1 .. N + 1 /\ DOMAIN s = 1 .. N /\ a[N + 1] = m
      /\ \A n \in 1 .. N : a[n] = s[n]
  BY <1>0, <1>1, AppendProperties, LenProperties
<1>3. 1 .. N + 1 = (1 .. N) \cup {N + 1} /\ N + 1 \notin 1 .. N
  OBVIOUS
<1>4. \A n : n \in Delegations(a) <=> n \in Delegations(s)
  BY <1>2, <1>3 DEF Delegations
<1> QED
  BY <1>0, <1>4

LEMMA FewerDelegations ==
  ASSUME NEW s \in Seq(Msg), NEW t \in Seq(Msg), NEW d \in Int,
         \A k \in DOMAIN t : t[k].status => k + d \in DOMAIN s /\ t[k] = s[k + d]
  PROVE  Cardinality(Delegations(t)) <= Cardinality(Delegations(s))
<1>1. PICK D : D = Delegations(s) /\ IsFiniteSet(D)
  BY DelegationsFinite
<1>2. PICK f : f = [n \in D |-> n - d]
  OBVIOUS
<1>3. ASSUME NEW k \in Delegations(t)
      PROVE  \E n \in D : f[n] = k
  <2>1. k \in DOMAIN t /\ t[k].status /\ k \in Int
    BY <1>3, LenProperties DEF Delegations
  <2>2. k + d \in D
    BY <1>1, <2>1 DEF Delegations
  <2>3. (k + d) - d = k
    BY <2>1
  <2> QED
    BY <1>2, <2>2, <2>3
<1> QED
  BY <1>1, <1>3, FewerThan

\* A new reply.
LEMMA ReplyMessage ==
  ASSUME CountInv, replies < MaxReplies, NEW shape \in Shapes, NEW args \in Args,
         NEW text \in BOOLEAN, NEW bad \in BOOLEAN
  PROVE  LET m == Reply(shape, args, text, bad)
         IN  /\ m \in Msg /\ Sound(m) /\ Ai(m) /\ ~Tool(m) /\ m.id = replies + 1 /\ m.usage
             /\ ~m.status
<1>1. replies + 1 \in 1 .. MaxReplies /\ replies + 1 \in Nat
  BY TurnAssumption DEF CountInv
<1>2. PICK N \in Nat : N = Len(shape) /\ DOMAIN shape = 1 .. N
  BY TurnAssumption, LenProperties
<1>3. PICK c : c = [k \in 1 .. N |-> [reply |-> replies + 1, n |-> k, task |-> shape[k]]]
  OBVIOUS
<1>4. \A k \in 1 .. N : shape[k] \in BOOLEAN
  BY <1>2, TurnAssumption, ElementOfSeq
<1>5. \A k \in 1 .. N : c[k] \in Calls /\ c[k].reply = replies + 1 /\ c[k].n = k
  BY <1>1, <1>3, <1>4 DEF Calls
<1>6. c \in Seq(Calls)
  <2>1. c \in [1 .. N -> Calls]
    BY <1>3, <1>5
  <2> QED
    BY <2>1, SeqDef
<1>7. DOMAIN c = 1 .. N
  BY <1>3
<1>8. Distinct(c) /\ \A x \in ToSet(c) : x.reply = replies + 1
  BY <1>5, <1>7 DEF Distinct, ToSet
<1>9. PICK m : m = Reply(shape, args, text, bad)
  OBVIOUS
<1>10. m = [Blank EXCEPT !.role = "ai", !.id = replies + 1, !.args = {args}, !.usage = TRUE,
                         !.text = text, !.bad = bad, !.calls = c]
  BY <1>2, <1>3, <1>9, Zenon DEF Reply
<1>11. Blank \in Msg
  BY NewMessages DEF Human
<1>12. m \in Msg
  BY <1>1, <1>6, <1>10, <1>11 DEF Msg
<1>13. /\ m.role = "ai" /\ m.id = replies + 1 /\ m.usage /\ m.calls = c /\ m.ans = None
       /\ m.status = FALSE
  BY <1>10 DEF Blank
<1>14. Ai(m) /\ ~Tool(m)
  BY <1>13 DEF Ai, Tool
<1>15. CallsOf(m) = ToSet(c)
  BY <1>13 DEF CallsOf
<1>16. Sound(m)
  BY <1>8, <1>13, <1>14, <1>15, Zenon DEF Sound
<1> QED
  BY <1>9, <1>12, <1>13, <1>14, <1>16

-----------------------------------------------------------------------------
(* Every step preserves the invariant.                                       *)

LEMMA TurnInit == Init => TurnInv
<1> SUFFICES ASSUME Init PROVE TurnInv
  OBVIOUS
<1> USE DEF Init
<1>1. IsFiniteSet({}) /\ Cardinality({}) = 0
  BY FS_EmptySet
<1>2. CountInv
  <2>1. /\ replies \in 0 .. MaxReplies /\ start \in 0 .. replies /\ turns \in 0 .. MaxTurns
        /\ seen \subseteq 1 .. MaxReplies
    BY TurnAssumption
  <2>3. pc \in PCs /\ retried \in BOOLEAN
    BY Zenon DEF PCs
  <2>2. history \in Seq(Nat \X Nat \X SUBSET Args) /\ toolHistory \in Seq(BOOLEAN)
        /\ Len(history) <= Window /\ Len(toolHistory) <= Window
    BY TurnAssumption
  <2> QED
    BY <2>1, <2>2, <2>3 DEF CountInv
<1>3. ThreadInv
  BY DEF ThreadInv, Ordered, Numbered, AfterModel
<1>4. BudgetInv
  BY <1>1 DEF BudgetInv
<1>5. Delegations(thread) = {}
  BY DEF Delegations
<1>6. LimitInv
  BY <1>1, <1>5, TurnAssumption DEF LimitInv, TotalLimit, PriorDelegations, Delegations
<1>7. AnswerInv
  BY DEF AnswerInv, NeverEmptyAnswer
<1> QED
  BY <1>2, <1>3, <1>4, <1>6, <1>7 DEF TurnInv

LEMMA StartStep ==
  ASSUME TurnInv, StartTurn \/ StartFails
  PROVE  TurnInv'
<1> USE DEF TurnInv
<1>1. CASE StartTurn
  <2> USE <1>1 DEF StartTurn
  <2>1. IsFiniteSet({}) /\ Cardinality({}) = 0
    BY FS_EmptySet
  <2>2. CountInv'
    <3>1. replies' \in 0 .. MaxReplies /\ start' \in 0 .. replies' /\ turns' \in 0 .. MaxTurns
      BY TurnAssumption DEF CountInv
    <3>2. pc' \in PCs /\ retried' \in BOOLEAN
      BY Zenon DEF PCs
    <3>3. seen' \subseteq 1 .. MaxReplies
      OBVIOUS
    <3>4. /\ history' \in Seq(Nat \X Nat \X SUBSET Args) /\ toolHistory' \in Seq(BOOLEAN)
          /\ Len(history') <= Window /\ Len(toolHistory') <= Window
      BY TurnAssumption
    <3> QED
      BY <3>1, <3>2, <3>3, <3>4 DEF CountInv
  <2>3. ThreadInv'
    BY DEF ThreadInv, AfterModel
  <2>4. BudgetInv'
    <3>1. replies + 1 .. replies = {}
      BY DEF CountInv
    <3>2. Free(replies)' = {}
      BY <3>1 DEF Free
    <3> QED
      BY <2>1, <3>2 DEF BudgetInv, Retries
  <2>5. LimitInv'
    BY DEF LimitInv, TotalLimit, PriorDelegations
  <2>6. AnswerInv'
    BY DEF AnswerInv, NeverEmptyAnswer
  <2> QED
    BY <2>2, <2>3, <2>4, <2>5, <2>6
<1>2. CASE StartFails
  <2> USE <1>2 DEF StartFails, midVars
  <2>2. CountInv'
    BY DEF CountInv, PCs
  <2>3. ThreadInv'
    BY DEF ThreadInv, AfterModel
  <2>4. BudgetInv'
    BY DEF BudgetInv
  <2>5. LimitInv'
    BY DEF LimitInv, TotalLimit, PriorDelegations
  <2>6. AnswerInv'
    BY DEF AnswerInv, NeverEmptyAnswer
  <2> QED
    BY <2>2, <2>3, <2>4, <2>5, <2>6
<1> QED
  BY <1>1, <1>2

\* The delegations that a thread remembers, in the words of the model.
LEMMA PriorDef == PriorDelegations = Cardinality(Delegations(thread))
  BY DEF PriorDelegations, Delegations

LEMMA RepairStep ==
  ASSUME TurnInv, Repair \/ RepairAfter
  PROVE  TurnInv'
<1> USE DEF TurnInv
<1>1. /\ thread' = thread \/ thread' = Repaired(thread)
      /\ pc' \in {"input", "none"} /\ UNCHANGED <<start, replies, turns, midVars>>
      /\ pc' = "input" => pc = "repair" /\ thread' = Repaired(thread)
  BY DEF Repair, RepairAfter
<1>2. thread \in Seq(Msg) /\ Ordered(thread) /\ Numbered(thread, replies)
  BY DEF ThreadInv
<1>3. /\ thread' \in Seq(Msg) /\ Ordered(thread') /\ Numbered(thread', replies)
      /\ Cardinality(Delegations(thread')) <= Cardinality(Delegations(thread))
      /\ pc' = "input" => Answered(thread', Len(thread')) /\ Clean(thread')
  <2>1. CASE thread' = Repaired(thread)
    BY <1>2, <2>1, RepairFacts
  <2>2. CASE thread' = thread
    <3>1. Cardinality(Delegations(thread)) \in Nat
      BY <1>2, DelegationsFinite
    <3>2. pc' = "input" => thread' = Repaired(thread)
      BY <1>1
    <3> QED
      BY <1>2, <2>1, <2>2, <3>1, <3>2
  <2> QED
    BY <1>1, <2>1, <2>2
<1>4. CountInv'
  BY <1>1 DEF CountInv, PCs, midVars
<1>5. ThreadInv'
  BY <1>1, <1>3 DEF ThreadInv, AfterModel
<1>6. BudgetInv'
  BY <1>1 DEF BudgetInv, midVars, Free, Retries
<1>7. LimitInv'
  <2>1. Cardinality(Delegations(thread)) \in Nat /\ Cardinality(Delegations(thread')) \in Nat
    BY <1>2, <1>3, DelegationsFinite
  <2>2. Cardinality(Delegations(thread')) <= MaxTotal
    BY <1>3, <2>1, PriorDef, TurnAssumption DEF LimitInv, TotalLimit
  <2> QED
    BY <1>1, <2>2 DEF LimitInv, TotalLimit, PriorDelegations, Delegations
<1>8. AnswerInv'
  BY <1>1 DEF AnswerInv, NeverEmptyAnswer
<1> QED
  BY <1>4, <1>5, <1>6, <1>7, <1>8

LEMMA InputStep ==
  ASSUME TurnInv, Input
  PROVE  TurnInv'
<1> USE DEF TurnInv
<1>1. /\ pc = "input" /\ pc' = "model" /\ thread' = Append(thread, Human)
      /\ UNCHANGED <<start, replies, turns, seen, used, history, toolHistory, retried>>
  BY DEF Input, midVars
<1>2. /\ thread \in Seq(Msg) /\ Ordered(thread) /\ Numbered(thread, replies)
      /\ Answered(thread, Len(thread)) /\ Len(thread) \in Nat
  BY <1>1, LenProperties DEF ThreadInv
<1>3. PICK t : t = Append(thread, Human)
  OBVIOUS
<1>4. /\ t \in Seq(Msg) /\ Ordered(t) /\ Answers(t) = Answers(thread)
      /\ \A k \in 0 .. Len(thread) : Answered(thread, k) => Answered(t, k)
  BY <1>2, <1>3, NewMessages, AppendMessage
<1>5. PICK N \in Nat : N = Len(thread)
  BY <1>2
<1>6. /\ Len(t) = N + 1 /\ DOMAIN t = 1 .. N + 1 /\ DOMAIN thread = 1 .. N /\ t[N + 1] = Human
      /\ \A n \in 1 .. N : t[n] = thread[n]
  BY <1>2, <1>3, <1>4, <1>5, NewMessages, AppendProperties, LenProperties
<1>7. \A n \in 1 .. N + 1 : n \in 1 .. N \/ n = N + 1
  OBVIOUS
<1>8. Answered(t, Len(t))
  <2>1. Answered(t, N)
    BY <1>2, <1>4, <1>5
  <2>2. CallsOf(Human) = {}
    BY DEF CallsOf, Human, Blank, ToSet
  <2> QED
    BY <1>6, <1>7, <2>1, <2>2 DEF Answered
<1>9. Numbered(t, replies)
  BY <1>2, <1>6, <1>7, NewMessages DEF Numbered
<1>10. CountInv'
  BY <1>1 DEF CountInv, PCs
<1>11. ThreadInv'
  BY <1>1, <1>3, <1>4, <1>8, <1>9 DEF ThreadInv, AfterModel
<1>12. BudgetInv'
  BY <1>1 DEF BudgetInv, Free, Retries
<1>13. LimitInv'
  <2>1. Delegations(t) = Delegations(thread)
    BY <1>2, <1>3, NewMessages, AppendDelegations
  <2> QED
    BY <1>1, <1>3, <2>1 DEF LimitInv, TotalLimit, PriorDelegations, Delegations
<1>14. AnswerInv'
  BY <1>1 DEF AnswerInv, NeverEmptyAnswer
<1> QED
  BY <1>10, <1>11, <1>12, <1>13, <1>14

LEMMA CompactStep ==
  ASSUME TurnInv, NEW n \in DOMAIN thread, Compact(n)
  PROVE  TurnInv'
<1> USE DEF TurnInv
<1>1. /\ pc = "model" /\ pc' = pc /\ thread' = <<Human>> \o SubSeq(thread, n, Len(thread))
      /\ UNCHANGED <<start, replies, turns, seen, used, history, toolHistory, retried>>
      /\ ~Tool(thread[n])
  BY DEF Compact, midVars, Tool
<1>2. /\ thread \in Seq(Msg) /\ Ordered(thread) /\ Numbered(thread, replies)
      /\ Answered(thread, Len(thread)) /\ DOMAIN thread = 1 .. Len(thread) /\ Len(thread) \in Nat
  BY <1>1, LenProperties DEF ThreadInv
<1>3. n \in 1 .. Len(thread)
  BY <1>2
<1>4. PICK t : t = <<Human>> \o SubSeq(thread, n, Len(thread))
  OBVIOUS
<1>5. /\ t \in Seq(Msg) /\ Ordered(t) /\ Answered(t, Len(t))
      /\ \A k \in DOMAIN t : t[k] = Human \/ (k + n - 2 \in DOMAIN thread /\ t[k] = thread[k + n - 2])
  BY <1>1, <1>2, <1>3, <1>4, NewMessages, CompactThread
<1>6. Numbered(t, replies)
  BY <1>2, <1>5, NewMessages DEF Numbered
<1>7. CountInv'
  BY <1>1 DEF CountInv, PCs
<1>8. ThreadInv'
  BY <1>1, <1>4, <1>5, <1>6 DEF ThreadInv, AfterModel
<1>9. BudgetInv'
  BY <1>1 DEF BudgetInv, Free, Retries
<1>10. LimitInv'
  <2>1. n - 2 \in Int /\ \A k \in DOMAIN t : k + n - 2 = k + (n - 2)
    BY <1>3, <1>5, LenProperties
  <2>2. \A k \in DOMAIN t : t[k].status =>
           k + (n - 2) \in DOMAIN thread /\ t[k] = thread[k + (n - 2)]
    <3>1. \A k \in DOMAIN t : t[k].status => t[k] # Human
      BY NewMessages
    <3>2. \A k \in DOMAIN t : t[k].status => k + n - 2 \in DOMAIN thread /\ t[k] = thread[k + n - 2]
      BY <1>5, <3>1
    <3> QED
      BY <2>1, <3>2
  <2>3. Cardinality(Delegations(t)) <= Cardinality(Delegations(thread))
    BY <1>2, <1>5, <2>1, <2>2, FewerDelegations
  <2>4. Cardinality(Delegations(thread)) \in Nat /\ Cardinality(Delegations(t)) \in Nat
    BY <1>2, <1>5, DelegationsFinite
  <2>5. Cardinality(Delegations(t)) <= MaxTotal
    BY <2>3, <2>4, PriorDef, TurnAssumption DEF LimitInv, TotalLimit
  <2> QED
    BY <1>1, <1>4, <2>5 DEF LimitInv, TotalLimit, PriorDelegations, Delegations
<1>11. AnswerInv'
  BY <1>1 DEF AnswerInv, NeverEmptyAnswer
<1> QED
  BY <1>7, <1>8, <1>9, <1>10, <1>11

LEMMA ModelStep ==
  ASSUME TurnInv, NEW shape \in Shapes, NEW args \in Args, NEW text \in BOOLEAN,
         NEW bad \in BOOLEAN, ModelReplies(shape, args, text, bad)
  PROVE  TurnInv'
<1> USE DEF TurnInv
<1>1. PICK m : m = Reply(shape, args, text, bad)
  OBVIOUS
<1>2. /\ pc = "model" /\ pc' = "terminal" /\ replies < MaxReplies /\ replies' = replies + 1
      /\ thread' = Append(thread, m)
      /\ UNCHANGED <<start, turns, seen, used, history, toolHistory, retried>>
  BY <1>1 DEF ModelReplies, midVars
<1>3. /\ thread \in Seq(Msg) /\ Ordered(thread) /\ Numbered(thread, replies)
      /\ Answered(thread, Len(thread)) /\ Len(thread) \in Nat
  BY <1>2, LenProperties DEF ThreadInv
<1>4. m \in Msg /\ Sound(m) /\ Ai(m) /\ ~Tool(m) /\ m.id = replies + 1 /\ m.usage /\ ~m.status
  BY <1>1, <1>2, ReplyMessage
<1>5. replies \in Nat /\ start \in 0 .. replies /\ replies + 1 \in 0 .. MaxReplies
  BY <1>2, TurnAssumption DEF CountInv
<1>6. PICK t : t = Append(thread, m)
  OBVIOUS
<1>7. \A k \in DOMAIN thread : Ai(thread[k]) => thread[k].id # m.id
  BY <1>3, <1>4, <1>5 DEF Numbered
<1>8. /\ t \in Seq(Msg) /\ Ordered(t)
      /\ \A k \in 0 .. Len(thread) : Answered(thread, k) => Answered(t, k)
  BY <1>3, <1>4, <1>6, <1>7, AppendMessage
<1>9. PICK N \in Nat : N = Len(thread)
  BY <1>3
<1>10. /\ Len(t) = N + 1 /\ DOMAIN t = 1 .. N + 1 /\ DOMAIN thread = 1 .. N /\ t[N + 1] = m
       /\ \A k \in 1 .. N : t[k] = thread[k]
  BY <1>3, <1>4, <1>6, <1>8, <1>9, AppendProperties, LenProperties
<1>11. \A k \in 1 .. N + 1 : k \in 1 .. N \/ k = N + 1
  OBVIOUS
<1>12. LastOf(t) = m /\ t # <<>> /\ Answered(t, Len(t) - 1)
  <2>1. Len(t) - 1 = N
    BY <1>10
  <2>2. Answered(t, N)
    BY <1>3, <1>8, <1>9
  <2>3. Len(t) # 0
    BY <1>10
  <2> QED
    BY <1>8, <1>10, <2>1, <2>2, <2>3, EmptySeq DEF LastOf
<1>13. Numbered(t, replies + 1)
  BY <1>3, <1>4, <1>5, <1>10, <1>11 DEF Numbered
<1>14. CountInv'
  BY <1>2, <1>5 DEF CountInv, PCs
<1>15. ThreadInv'
  BY <1>2, <1>4, <1>6, <1>8, <1>12, <1>13 DEF ThreadInv, AfterModel
<1>16. BudgetInv'
  <2>1. /\ IsFiniteSet(seen) /\ used = Cardinality(seen)
        /\ Cardinality((start + 1 .. replies) \ seen) <= Retries
    BY <1>2 DEF BudgetInv, Free
  <2>2. replies' - 1 = replies
    BY <1>2, <1>5
  <2>3. Free(replies - 1)' = (start + 1 .. replies) \ seen
    BY <1>2, <2>2 DEF Free
  <2> QED
    BY <1>2, <1>4, <1>6, <1>12, <2>1, <2>3 DEF BudgetInv, Retries
<1>17. LimitInv'
  <2>1. Delegations(t) = Delegations(thread)
    BY <1>3, <1>4, <1>6, AppendDelegations
  <2> QED
    BY <1>2, <1>6, <2>1 DEF LimitInv, TotalLimit, PriorDelegations, Delegations
<1>18. AnswerInv'
  BY <1>2 DEF AnswerInv, NeverEmptyAnswer
<1> QED
  BY <1>14, <1>15, <1>16, <1>17, <1>18

\* What all middleware steps have in common: the last reply stays or another
\* version of it takes its place.
LEMMA Rewritten ==
  ASSUME ThreadInv, pc \in AfterModel, NEW m \in Msg, Sound(m), Ai(m),
         m.id = LastOf(thread).id,
         NEW t, t = [thread EXCEPT ![Len(thread)] = m] \/ (t = thread /\ m = LastOf(thread))
  PROVE  /\ t \in Seq(Msg) /\ Ordered(t) /\ Numbered(t, replies)
         /\ t # <<>> /\ LastOf(t) = m /\ Answered(t, Len(t) - 1)
         /\ Delegations(t) = Delegations(thread)
         /\ (\E n \in DOMAIN t : Tool(t[n])) <=> AnyTool
<1>1. /\ thread \in Seq(Msg) /\ Ordered(thread) /\ Numbered(thread, replies)
      /\ thread # <<>> /\ Ai(LastOf(thread)) /\ Answered(thread, Len(thread) - 1)
  BY DEF ThreadInv
<1>2. AnyTool <=> \E n \in DOMAIN thread : Tool(thread[n])
  BY DEF AnyTool, Tool
<1>3. CASE t = thread /\ m = LastOf(thread)
  BY <1>1, <1>2, <1>3
<1>4. CASE t = [thread EXCEPT ![Len(thread)] = m]
  <2>1. /\ t \in Seq(Msg) /\ Ordered(t) /\ t # <<>> /\ LastOf(t) = m /\ Len(t) = Len(thread)
        /\ Answered(thread, Len(thread) - 1) => Answered(t, Len(thread) - 1)
    BY <1>1, <1>4, ReplaceReply
  <2>2. /\ Numbered(t, replies) /\ Delegations(t) = Delegations(thread)
        /\ (\E n \in DOMAIN t : Tool(t[n])) <=> (\E n \in DOMAIN thread : Tool(thread[n]))
    BY <1>1, <1>4, ReplacedThread
  <2>3. Answered(t, Len(t) - 1)
    BY <1>1, <2>1
  <2> QED
    BY <1>2, <2>1, <2>2, <2>3
<1> QED
  BY <1>3, <1>4

LEMMA LastReply ==
  ASSUME ThreadInv, pc \in AfterModel
  PROVE  LastMsg \in Msg /\ Sound(LastMsg) /\ Ai(LastMsg) /\ LastMsg = LastOf(thread)
<1>1. /\ thread \in Seq(Msg) /\ Ordered(thread) /\ thread # <<>> /\ Ai(LastOf(thread))
  BY DEF ThreadInv
<1>2. Len(thread) \in DOMAIN thread /\ LastOf(thread) \in Msg
  BY <1>1, ThreadFields
<1> QED
  BY <1>1, <1>2 DEF LastMsg, LastOf, Ordered

\* The last reply gets text instead of its truncated calls.
LEMMA VisibleError ==
  ASSUME NEW m \in Msg, Sound(m), Ai(m)
  PROVE  LET k == [m EXCEPT !.text = TRUE, !.bad = FALSE, !.usage = FALSE]
         IN  k \in Msg /\ Sound(k) /\ Ai(k) /\ k.id = m.id /\ k.calls = m.calls /\ k.text
<1>1. PICK k : k = [m EXCEPT !.text = TRUE, !.bad = FALSE, !.usage = FALSE]
  OBVIOUS
<1>2. /\ k \in Msg /\ k.role = m.role /\ k.id = m.id /\ k.calls = m.calls /\ k.ans = m.ans
      /\ k.status = m.status /\ ~k.usage /\ ~k.bad /\ k.text
  BY <1>1 DEF Msg
<1>3. Sound(k) /\ Ai(k)
  BY <1>2 DEF Sound, Tool, Ai, CallsOf
<1> QED
  BY <1>1, <1>2, <1>3

LEMMA TerminalStep ==
  ASSUME TurnInv, AfterTerminal
  PROVE  TurnInv'
<1> USE DEF TurnInv
<1>1. pc = "terminal" /\ UNCHANGED <<start, replies, turns, seen, used, history, toolHistory>>
  BY DEF AfterTerminal
<1>2. pc \in AfterModel
  BY <1>1 DEF AfterModel
<1>3. PICK m \in Msg : m = LastMsg /\ m = LastOf(thread) /\ Sound(m) /\ Ai(m)
  BY <1>2, LastReply
<1>4. /\ thread \in Seq(Msg) /\ Ordered(thread) /\ Numbered(thread, replies)
      /\ thread # <<>> /\ Ai(LastOf(thread)) /\ Answered(thread, Len(thread) - 1)
  BY <1>2 DEF ThreadInv
<1>5. /\ m.id = replies /\ m.usage /\ Cardinality(Free(replies - 1)) <= Retries
      /\ IsFiniteSet(seen) /\ used = Cardinality(seen)
  BY <1>1, <1>3 DEF BudgetInv
<1>6. replies \in Nat /\ start \in Nat /\ start <= replies
  BY TurnAssumption DEF CountInv
<1>7. CASE EmptyFinal /\ AnyTool /\ ~retried /\ retried' = TRUE /\ pc' = "model"
           /\ thread' = SubSeq(thread, 1, Len(thread) - 1)
  <2>1. PICK t : t = SubSeq(thread, 1, Len(thread) - 1)
    OBVIOUS
  <2>2. /\ t \in Seq(Msg) /\ Ordered(t) /\ Len(t) = Len(thread) - 1
        /\ \A n \in 1 .. Len(thread) - 1 : t[n] = thread[n]
        /\ Answered(t, Len(t))
    BY <1>4, <2>1, DropReply
  <2>3. PICK N \in Nat : N = Len(t) /\ DOMAIN t = 1 .. N
    BY <2>2, LenProperties
  <2>4. DOMAIN thread = 1 .. N + 1 /\ \A n \in 1 .. N : n \in 1 .. N + 1 /\ t[n] = thread[n]
    <3>1. Len(thread) \in Nat /\ DOMAIN thread = 1 .. Len(thread)
      BY <1>4, LenProperties
    <3>2. Len(thread) = N + 1
      BY <2>2, <2>3, <3>1
    <3>3. \A n \in 1 .. N : n \in 1 .. Len(thread) - 1
      BY <3>2
    <3> QED
      BY <2>2, <3>1, <3>2, <3>3
  <2>5. Numbered(t, replies)
    BY <1>4, <2>3, <2>4 DEF Numbered
  <2>6. CountInv'
    <3>1. retried' \in BOOLEAN /\ pc' \in PCs
      BY <1>7, Zenon DEF PCs
    <3> QED
      BY <1>1, <3>1 DEF CountInv
  <2>7. ThreadInv'
    BY <1>1, <1>7, <2>1, <2>2, <2>5 DEF ThreadInv, AfterModel
  <2>8. BudgetInv'
    <3>1. PICK A, B : A = Free(replies - 1) /\ B = Free(replies)
      OBVIOUS
    <3>2. IsFiniteSet(A) /\ IsFiniteSet(B)
      <4>1. IsFiniteSet(start + 1 .. replies - 1) /\ IsFiniteSet(start + 1 .. replies)
        BY <1>6, FS_Interval
      <4> QED
        BY <3>1, <4>1, FS_Subset DEF Free
    <3>3. B \subseteq A \cup {replies}
      BY <1>6, <3>1 DEF Free
    <3>4. Cardinality(A) = 0
      BY <1>5, <1>7, <3>1, <3>2, FS_CardinalityType DEF Retries
    <3>5. A = {}
      BY <3>2, <3>4, FS_EmptySet
    <3>6. Cardinality(B) <= 1
      <4>1. B \subseteq {replies}
        BY <3>3, <3>5
      <4>2. IsFiniteSet({replies}) /\ Cardinality({replies}) = 1
        BY FS_Singleton
      <4> QED
        BY <4>1, <4>2, FS_Subset
    <3>7. Free(replies)' = B
      BY <1>1, <3>1 DEF Free
    <3> QED
      BY <1>1, <1>5, <1>7, <3>6, <3>7 DEF BudgetInv, Retries
  <2>9. LimitInv'
    <3>0. PICK d \in Int : d = 0
      OBVIOUS
    <3>1. \A n \in DOMAIN t : t[n].status => n + d \in DOMAIN thread /\ t[n] = thread[n + d]
      BY <2>3, <2>4, <3>0
    <3>2. Cardinality(Delegations(t)) <= Cardinality(Delegations(thread))
      BY <1>4, <2>2, <3>1, FewerDelegations
    <3>3. Cardinality(Delegations(thread)) \in Nat /\ Cardinality(Delegations(t)) \in Nat
      BY <1>4, <2>2, DelegationsFinite
    <3>4. Cardinality(Delegations(t)) <= MaxTotal
      BY <3>2, <3>3, PriorDef, TurnAssumption DEF LimitInv, TotalLimit
    <3> QED
      BY <1>7, <2>1, <3>4 DEF LimitInv, TotalLimit, PriorDelegations, Delegations
  <2>10. AnswerInv'
    BY <1>7 DEF AnswerInv, NeverEmptyAnswer
  <2> QED
    BY <2>6, <2>7, <2>8, <2>9, <2>10
<1>8. CASE /\ pc' = "budget" /\ UNCHANGED retried
           /\ \/ EmptyFinal /\ ReplaceLast([LastMsg EXCEPT !.text = TRUE, !.bad = FALSE, !.usage = FALSE])
              \/ ~(EmptyFinal /\ AnyTool) /\ UNCHANGED thread
  <2>1. PICK k \in Msg : /\ Sound(k) /\ Ai(k) /\ k.id = m.id /\ k.calls = m.calls
                         /\ thread' = [thread EXCEPT ![Len(thread)] = k] \/ (thread' = thread /\ k = m)
                         /\ AnyTool => k.calls # <<>> \/ k.text
                         /\ k.calls # <<>> => k = m
    <3>1. CASE EmptyFinal /\ ReplaceLast([LastMsg EXCEPT !.text = TRUE, !.bad = FALSE, !.usage = FALSE])
      <4>1. PICK k : k = [m EXCEPT !.text = TRUE, !.bad = FALSE, !.usage = FALSE]
        OBVIOUS
      <4>2. k \in Msg /\ Sound(k) /\ Ai(k) /\ k.id = m.id /\ k.calls = m.calls /\ k.text
        BY <1>3, <4>1, VisibleError
      <4>3. thread' = [thread EXCEPT ![Len(thread)] = k] /\ m.calls = <<>>
        BY <1>3, <3>1, <4>1 DEF ReplaceLast, EmptyFinal
      <4> QED
        BY <4>2, <4>3
    <3>2. CASE ~(EmptyFinal /\ AnyTool) /\ UNCHANGED thread
      BY <1>3, <3>2 DEF EmptyFinal
    <3> QED
      BY <1>8, <3>1, <3>2
  <2>2. /\ thread' \in Seq(Msg) /\ Ordered(thread') /\ Numbered(thread', replies)
        /\ thread' # <<>> /\ LastOf(thread') = k /\ Answered(thread', Len(thread') - 1)
        /\ Delegations(thread') = Delegations(thread)
        /\ (\E n \in DOMAIN thread' : Tool(thread'[n])) <=> AnyTool
    BY <1>2, <1>3, <2>1, Rewritten
  <2>3. CountInv'
    BY <1>1, <1>8 DEF CountInv, PCs
  <2>4. ThreadInv'
    BY <1>1, <1>8, <2>1, <2>2 DEF ThreadInv, AfterModel
  <2>5. BudgetInv'
    <3>1. Free(replies - 1)' = Free(replies - 1) /\ Retries' = Retries
      BY <1>1, <1>8 DEF Free, Retries
    <3> QED
      BY <1>1, <1>5, <1>8, <2>1, <2>2, <3>1 DEF BudgetInv
  <2>6. LimitInv'
    BY <1>8, <2>2 DEF LimitInv, TotalLimit, PriorDelegations, Delegations
  <2>7. AnswerInv'
    BY <1>8, <2>1, <2>2 DEF AnswerInv, NeverEmptyAnswer, AnyTool, Tool
  <2> QED
    BY <2>3, <2>4, <2>5, <2>6, <2>7
<1> QED
  BY <1>7, <1>8 DEF AfterTerminal

LEMMA BudgetStep ==
  ASSUME TurnInv, AfterBudget
  PROVE  TurnInv'
<1> USE DEF TurnInv
<1>1. /\ pc = "budget" /\ pc' = "loop"
      /\ seen' = seen \cup Uncounted /\ used' = used + Cardinality(Uncounted)
      /\ UNCHANGED <<start, replies, turns, history, toolHistory, retried>>
  BY DEF AfterBudget
<1>0. \/ ReplaceLast(StripAll(LastMsg)) /\ LastMsg.calls # <<>>
      \/ ~(OverBudget(used') /\ LastMsg.calls # <<>>) /\ UNCHANGED thread
  BY DEF AfterBudget
<1>2. pc \in AfterModel
  BY <1>1 DEF AfterModel
<1>3. PICK m \in Msg : m = LastMsg /\ m = LastOf(thread) /\ Sound(m) /\ Ai(m)
  BY <1>2, LastReply
<1>4. /\ thread \in Seq(Msg) /\ Ordered(thread) /\ Numbered(thread, replies)
      /\ thread # <<>> /\ replies \in 0 .. MaxReplies /\ start \in 0 .. replies
  BY <1>2 DEF ThreadInv, CountInv
<1>5. IsFiniteSet(seen) /\ used = Cardinality(seen) /\ Cardinality(seen) \in Nat
  BY FS_CardinalityType DEF BudgetInv
<1>6. PICK U : U = Uncounted
  OBVIOUS
<1>7. U \subseteq 1 .. replies /\ U \cap seen = {}
  <2>1. \A n \in DOMAIN thread : thread[n].usage => Ai(thread[n])
    BY <1>4 DEF Ordered, Sound
  <2>2. \A n \in DOMAIN thread : thread[n].usage => thread[n].id \in 1 .. replies
    BY <1>4, <2>1 DEF Numbered
  <2> QED
    BY <1>6, <2>2 DEF Uncounted
<1>8. IsFiniteSet(U) /\ Cardinality(U) \in Nat
  <2>1. IsFiniteSet(1 .. replies)
    BY <1>4, FS_Interval
  <2> QED
    BY <1>7, <2>1, FS_Subset, FS_CardinalityType
<1>9. /\ IsFiniteSet(seen \cup U) /\ Cardinality(seen \cup U) = Cardinality(seen) + Cardinality(U)
  <2>1. /\ IsFiniteSet(seen \cup U)
        /\ Cardinality(seen \cup U) = Cardinality(seen) + Cardinality(U) - Cardinality(seen \cap U)
    BY <1>5, <1>8, FS_Union
  <2>2. Cardinality(seen \cap U) = 0
    BY <1>7, FS_EmptySet
  <2> QED
    BY <1>5, <1>8, <2>1, <2>2
<1>10. IsFiniteSet(seen') /\ used' = Cardinality(seen') /\ used' \in Nat
  BY <1>1, <1>5, <1>6, <1>8, <1>9
<1>11. PICK k \in Msg : /\ Sound(k) /\ Ai(k) /\ k.id = m.id
                        /\ thread' = [thread EXCEPT ![Len(thread)] = k] \/ (thread' = thread /\ k = m)
                        /\ k.calls # <<>> => k = m /\ used' < Budget
                        /\ k = m \/ (k.calls = <<>> /\ k.text)
  <2>1. CASE ReplaceLast(StripAll(LastMsg)) /\ LastMsg.calls # <<>>
    <3>1. PICK k : k = StripAll(m)
      OBVIOUS
    <3>2. k \in Msg /\ Sound(k) /\ Ai(k) /\ k.id = m.id /\ k.calls = <<>> /\ k.text
      BY <1>3, <2>1, <3>1, StripFacts
    <3>3. thread' = [thread EXCEPT ![Len(thread)] = k]
      BY <1>3, <2>1, <3>1 DEF ReplaceLast
    <3> QED
      BY <3>2, <3>3
  <2>2. CASE ~(OverBudget(used') /\ LastMsg.calls # <<>>) /\ UNCHANGED thread
    <3>1. m.calls # <<>> => used' < Budget
      BY <1>3, <1>10, <2>2, TurnAssumption DEF OverBudget
    <3> QED
      BY <1>3, <2>2, <3>1
  <2> QED
    BY <1>0, <2>1, <2>2
<1>12. /\ thread' \in Seq(Msg) /\ Ordered(thread') /\ Numbered(thread', replies)
       /\ thread' # <<>> /\ LastOf(thread') = k /\ Answered(thread', Len(thread') - 1)
       /\ Delegations(thread') = Delegations(thread)
       /\ (\E n \in DOMAIN thread' : Tool(thread'[n])) <=> AnyTool
  BY <1>2, <1>3, <1>11, Rewritten
<1>13. CountInv'
  <2>1. seen' \subseteq 1 .. MaxReplies
    <3>1. \A x \in 1 .. replies : x \in 1 .. MaxReplies
      BY <1>4, TurnAssumption
    <3> QED
      BY <1>1, <1>6, <1>7, <3>1 DEF CountInv
  <2> QED
    BY <1>1, <2>1 DEF CountInv, PCs
<1>14. ThreadInv'
  BY <1>1, <1>11, <1>12 DEF ThreadInv, AfterModel
<1>15. BudgetInv'
  <2>1. ASSUME k.calls # <<>>
        PROVE  Cardinality(Free(replies)') <= Retries'
    <3>1. m.calls # <<>> /\ m.id = replies /\ m.usage /\ Cardinality(Free(replies - 1)) <= Retries
      BY <1>1, <1>3, <1>11, <2>1 DEF BudgetInv
    <3>2. Len(thread) \in DOMAIN thread /\ thread[Len(thread)] = m
      BY <1>3, <1>4, ThreadFields DEF LastOf
    <3>3. replies \in seen \cup U
      BY <1>6, <3>1, <3>2 DEF Uncounted
    <3>4. PICK A, B : A = Free(replies - 1) /\ B = Free(replies)'
      OBVIOUS
    <3>5. IsFiniteSet(A)
      <4>1. IsFiniteSet(start + 1 .. replies - 1)
        BY <1>4, FS_Interval
      <4> QED
        BY <3>4, <4>1, FS_Subset DEF Free
    <3>6. B \subseteq A
      <4>1. B = (start + 1 .. replies) \ (seen \cup U)
        BY <1>1, <1>6, <3>4 DEF Free
      <4>2. \A x \in start + 1 .. replies : x # replies => x \in start + 1 .. replies - 1
        BY <1>4
      <4> QED
        BY <3>3, <3>4, <4>1, <4>2 DEF Free
    <3>7. Cardinality(B) <= Cardinality(A) /\ Cardinality(A) \in Nat /\ Cardinality(B) \in Nat
      BY <3>5, <3>6, FS_Subset, FS_CardinalityType
    <3>8. Retries' = Retries /\ Retries \in Nat
      BY <1>1 DEF Retries
    <3> QED
      BY <3>1, <3>4, <3>7, <3>8
  <2> QED
    BY <1>1, <1>10, <1>11, <1>12, <2>1 DEF BudgetInv
<1>16. LimitInv'
  BY <1>1, <1>12 DEF LimitInv, TotalLimit, PriorDelegations, Delegations
<1>17. AnswerInv'
  <2>1. AnyTool => k.calls # <<>> \/ k.text
    BY <1>1, <1>3, <1>11 DEF AnswerInv
  <2> QED
    BY <1>1, <1>12, <2>1 DEF AnswerInv, NeverEmptyAnswer, AnyTool, Tool
<1> QED
  BY <1>13, <1>14, <1>15, <1>16, <1>17

\* deque(maxlen=Window).
LEMMA LatestFacts ==
  ASSUME NEW T, NEW s \in Seq(T)
  PROVE  Latest(s) \in Seq(T) /\ Len(Latest(s)) <= Window
<1>1. PICK N \in Nat : N = Len(s)
  BY LenProperties
<1>2. CASE N > Window
  <2>1. PICK a \in Int : a = N - Window + 1
    BY TurnAssumption
  <2>2. Latest(s) = SubSeq(s, a, N)
    BY <1>1, <1>2, <2>1 DEF Latest
  <2>3. a \in 1 .. N /\ a <= N /\ N - a + 1 = Window
    <3>1. Window \in Nat /\ Window >= 1
      BY TurnAssumption
    <3> QED
      BY <1>2, <2>1, <3>1
  <2>4. \A i \in a .. N : s[i] \in T
    <3>1. \A i \in a .. N : i \in 1 .. Len(s)
      BY <1>1, <2>3
    <3> QED
      BY <3>1, ElementOfSeq
  <2>5. SubSeq(s, a, N) \in Seq(T) /\ Len(SubSeq(s, a, N)) = N - a + 1
    BY <2>3, <2>4, SubSeqProperties
  <2> QED
    BY <2>2, <2>3, <2>5, TurnAssumption
<1>3. CASE ~(N > Window)
  BY <1>1, <1>3, TurnAssumption DEF Latest
<1> QED
  BY <1>2, <1>3

\* The tasks of a message, and what the loop detection remembers of it.
LEMMA CallFacts ==
  ASSUME NEW m \in Msg
  PROVE  /\ Tasks(m) \in Seq(Calls) /\ ToSet(Tasks(m)) = Delegating(m) /\ Len(Tasks(m)) \in Nat
         /\ CallSet(m) \in Nat \X Nat \X SUBSET Args
         /\ Names(m) \in Seq(BOOLEAN)
<1>1. PICK c \in Seq(Calls) : c = m.calls
  BY MsgFields
<1>2. PICK N \in Nat : N = Len(c) /\ DOMAIN c = 1 .. N
  BY LenProperties
<1>3. PICK S : S = {x \in CallsOf(m) : x.task}
  OBVIOUS
<1>4. Tasks(m) = Only(c, S)
  BY <1>1, <1>3 DEF Tasks
<1>5. Tasks(m) \in Seq(Calls) /\ ToSet(Tasks(m)) = ToSet(c) \cap S
  BY <1>4, OnlyFacts
<1>6. ToSet(Tasks(m)) = Delegating(m)
  BY <1>1, <1>3, <1>5 DEF Delegating, CallsOf
<1>7. Len(Tasks(m)) \in Nat
  BY <1>5, LenProperties
<1>8. CallSet(m) \in Nat \X Nat \X SUBSET Args
  BY <1>1, <1>2, <1>7, MsgFields DEF CallSet
<1>9. Names(m) \in Seq(BOOLEAN)
  <2>1. \A k \in 1 .. N : c[k] \in Calls
    BY <1>2, ElementOfSeq
  <2>2. \A k \in 1 .. N : c[k].task \in BOOLEAN
    BY <2>1 DEF Calls
  <2>3. Names(m) = [k \in 1 .. N |-> c[k].task]
    BY <1>1, <1>2 DEF Names
  <2>4. [k \in 1 .. N |-> c[k].task] \in [1 .. N -> BOOLEAN]
    BY <2>2, Zenon
  <2> QED
    BY <2>3, <2>4, SeqDef
<1> QED
  BY <1>5, <1>6, <1>7, <1>8, <1>9

LEMMA LoopStep ==
  ASSUME TurnInv, AfterLoop
  PROVE  TurnInv'
<1> USE DEF TurnInv
<1>1. /\ pc = "loop" /\ pc' = "limit"
      /\ UNCHANGED <<start, replies, turns, seen, used, retried>>
  BY DEF AfterLoop
<1>2. pc \in AfterModel
  BY <1>1 DEF AfterModel
<1>3. PICK m \in Msg : m = LastMsg /\ m = LastOf(thread) /\ Sound(m) /\ Ai(m)
  BY <1>2, LastReply
<1>4. PICK k \in Msg : /\ Sound(k) /\ Ai(k) /\ k.id = m.id
                       /\ thread' = [thread EXCEPT ![Len(thread)] = k] \/ (thread' = thread /\ k = m)
                       /\ k = m \/ (k.calls = <<>> /\ k.text)
  <2>1. CASE ReplaceLast(StripAll(LastMsg)) /\ LastMsg.calls # <<>>
    <3>1. PICK k : k = StripAll(m)
      OBVIOUS
    <3>2. k \in Msg /\ Sound(k) /\ Ai(k) /\ k.id = m.id /\ k.calls = <<>> /\ k.text
      BY <1>3, <2>1, <3>1, StripFacts
    <3>3. thread' = [thread EXCEPT ![Len(thread)] = k]
      BY <1>3, <2>1, <3>1 DEF ReplaceLast
    <3> QED
      BY <3>2, <3>3
  <2>2. CASE UNCHANGED thread
    BY <1>3, <2>2
  <2> QED
    BY <2>1, <2>2 DEF AfterLoop
<1>5. /\ thread' \in Seq(Msg) /\ Ordered(thread') /\ Numbered(thread', replies)
      /\ thread' # <<>> /\ LastOf(thread') = k /\ Answered(thread', Len(thread') - 1)
      /\ Delegations(thread') = Delegations(thread)
      /\ (\E n \in DOMAIN thread' : Tool(thread'[n])) <=> AnyTool
  BY <1>2, <1>3, <1>4, Rewritten
<1>6. CountInv'
  <2>1. /\ history \in Seq(Nat \X Nat \X SUBSET Args) /\ toolHistory \in Seq(BOOLEAN)
        /\ Len(history) <= Window /\ Len(toolHistory) <= Window
    BY DEF CountInv
  <2>2. /\ history' \in Seq(Nat \X Nat \X SUBSET Args) /\ Len(history') <= Window
    <3>1. CASE UNCHANGED history
      BY <2>1, <3>1
    <3>2. CASE history' = Latest(Append(history, CallSet(LastMsg)))
      <4>1. Append(history, CallSet(m)) \in Seq(Nat \X Nat \X SUBSET Args)
        BY <2>1, CallFacts, AppendProperties
      <4> QED
        BY <1>3, <3>2, <4>1, LatestFacts
    <3> QED
      BY <3>1, <3>2 DEF AfterLoop
  <2>3. /\ toolHistory' \in Seq(BOOLEAN) /\ Len(toolHistory') <= Window
    <3>1. CASE UNCHANGED toolHistory
      BY <2>1, <3>1
    <3>2. CASE toolHistory' = Latest(toolHistory \o Names(LastMsg))
      <4>1. toolHistory \o Names(m) \in Seq(BOOLEAN)
        BY <2>1, CallFacts, ConcatProperties
      <4> QED
        BY <1>3, <3>2, <4>1, LatestFacts
    <3> QED
      BY <3>1, <3>2 DEF AfterLoop
  <2> QED
    BY <1>1, <2>2, <2>3 DEF CountInv, PCs
<1>7. ThreadInv'
  BY <1>1, <1>4, <1>5 DEF ThreadInv, AfterModel
<1>8. BudgetInv'
  <2>1. k.calls # <<>> => k = m
    BY <1>4
  <2> QED
    BY <1>1, <1>3, <1>5, <2>1 DEF BudgetInv, Free, Retries
<1>9. LimitInv'
  BY <1>1, <1>5 DEF LimitInv, TotalLimit, PriorDelegations, Delegations
<1>10. AnswerInv'
  <2>1. AnyTool => k.calls # <<>> \/ k.text
    BY <1>1, <1>3, <1>4 DEF AnswerInv
  <2> QED
    BY <1>1, <1>5, <2>1 DEF AnswerInv, NeverEmptyAnswer, AnyTool, Tool
<1> QED
  BY <1>6, <1>7, <1>8, <1>9, <1>10

LEMMA TakenSize ==
  ASSUME NEW f, NEW n \in Nat, NEW E, E \subseteq {f[k] : k \in 1 .. n}
  PROVE  IsFiniteSet(E) /\ Cardinality(E) \in Nat /\ Cardinality(E) <= n
<1>1. IsFiniteSet(1 .. n) /\ Cardinality(1 .. n) = n
  BY FS_Interval
<1>2. \A e \in E : \E k \in 1 .. n : f[k] = e
  OBVIOUS
<1>3. /\ IsFiniteSet(E) /\ Cardinality(E) \in Nat
      /\ Cardinality(E) <= Cardinality(1 .. n)
  BY <1>1, <1>2, FewerThan
<1> QED
  BY <1>1, <1>3

\* What is left of a reply asks for no more delegations than are allowed.
LEMMA LimitedReply ==
  ASSUME NEW m \in Msg, Sound(m), Ai(m), NEW A \in Nat, Allowed = A
  PROVE  LET k == IF Len(Tasks(m)) <= A THEN m ELSE Keep(m, KeptCalls(m))
         IN  /\ k \in Msg /\ Sound(k) /\ Ai(k) /\ k.id = m.id
             /\ Cardinality(Delegating(k)) \in Nat /\ Cardinality(Delegating(k)) <= A
             /\ m.calls = <<>> => k = m
             /\ k.calls # <<>> => m.calls # <<>>
             /\ k = m \/ (k.calls = <<>> => k.text)
<1>1. PICK T \in Seq(Calls) : T = Tasks(m) /\ ToSet(T) = Delegating(m)
  BY CallFacts
<1>2. PICK N \in Nat : N = Len(T) /\ DOMAIN T = 1 .. N
  BY LenProperties
<1>3. PICK k : k = IF Len(Tasks(m)) <= A THEN m ELSE Keep(m, KeptCalls(m))
  OBVIOUS
<1>4. CASE N <= A
  <2>1. k = m
    BY <1>1, <1>2, <1>3, <1>4
  <2>2. Delegating(m) \subseteq {T[j] : j \in 1 .. N}
    BY <1>1, <1>2 DEF ToSet
  <2>3. Cardinality(Delegating(m)) \in Nat /\ Cardinality(Delegating(m)) <= N
    BY <2>2, TakenSize
  <2>4. Cardinality(Delegating(m)) <= A
    BY <1>4, <2>3
  <2> QED
    BY <1>3, <2>1, <2>3, <2>4
<1>5. CASE ~(N <= A)
  <2>1. k = Keep(m, KeptCalls(m))
    BY <1>1, <1>2, <1>3, <1>5
  <2>2. /\ k \in Msg /\ Sound(k) /\ Ai(k) /\ k.id = m.id
        /\ CallsOf(k) = CallsOf(m) \cap KeptCalls(m)
        /\ k.calls = <<>> /\ m.calls # <<>> => k.text
        /\ m.calls = <<>> => k.calls = <<>>
    BY <2>1, KeepFacts
  <2>3. MinOf(A, N) = A
    BY <1>5 DEF MinOf
  <2>4. KeptCalls(m) = {m.calls[j] : j \in {i \in DOMAIN m.calls : ~m.calls[i].task}}
                         \cup {T[j] : j \in 1 .. A}
    BY <1>1, <1>2, <2>3 DEF KeptCalls
  <2>5. Delegating(k) \subseteq {T[j] : j \in 1 .. A}
    <3>1. \A c \in KeptCalls(m) : c.task => c \in {T[j] : j \in 1 .. A}
      BY <2>4
    <3> QED
      BY <2>2, <3>1 DEF Delegating
  <2>6. Cardinality(Delegating(k)) \in Nat /\ Cardinality(Delegating(k)) <= A
    BY <2>5, TakenSize
  <2>7. m.calls # <<>>
    <3>1. ASSUME m.calls = <<>>
          PROVE  FALSE
      <4>1. CallsOf(m) = {}
        BY <3>1, NoCalls
      <4>2. ToSet(T) = {}
        BY <1>1, <4>1 DEF Delegating
      <4>3. 1 .. N = {}
        BY <1>2, <4>2, Zenon DEF ToSet
      <4> QED
        BY <1>5, <4>3
    <3> QED
      BY <3>1
  <2> QED
    BY <1>3, <2>2, <2>6, <2>7
<1> QED
  BY <1>4, <1>5

LEMMA LimitStep ==
  ASSUME TurnInv, AfterLimit
  PROVE  TurnInv'
<1> USE DEF TurnInv
<1>1. /\ pc = "limit"
      /\ UNCHANGED <<start, replies, turns, seen, used, history, toolHistory, retried>>
  BY DEF AfterLimit, midVars
<1>2. pc \in AfterModel
  BY <1>1 DEF AfterModel
<1>3. PICK m \in Msg : m = LastMsg /\ m = LastOf(thread) /\ Sound(m) /\ Ai(m)
  BY <1>2, LastReply
<1>4. PICK P \in Nat : P = Cardinality(Delegations(thread)) /\ P = PriorDelegations /\ P <= MaxTotal
  BY PriorDef, DelegationsFinite DEF LimitInv, TotalLimit, ThreadInv
<1>5. PICK A \in Nat : A = Allowed /\ P + A <= MaxTotal
  <2>1. MaxOf(0, MaxTotal - P) = MaxTotal - P
    BY <1>4, TurnAssumption DEF MaxOf
  <2>2. Allowed = MinOf(MaxConcurrent, MaxTotal - P)
    BY <1>4, <2>1 DEF Allowed
  <2>3. MinOf(MaxConcurrent, MaxTotal - P) \in Nat /\ P + MinOf(MaxConcurrent, MaxTotal - P) <= MaxTotal
    BY <1>4, TurnAssumption DEF MinOf
  <2> QED
    BY <2>2, <2>3
<1>6. PICK k : k = IF Len(Tasks(m)) <= A THEN m ELSE Keep(m, KeptCalls(m))
  OBVIOUS
<1>7. /\ k \in Msg /\ Sound(k) /\ Ai(k) /\ k.id = m.id
      /\ Cardinality(Delegating(k)) \in Nat /\ Cardinality(Delegating(k)) <= A
      /\ m.calls = <<>> => k = m
      /\ k.calls # <<>> => m.calls # <<>>
      /\ k = m \/ (k.calls = <<>> => k.text)
  BY <1>3, <1>5, <1>6, LimitedReply
<1>8. /\ thread' = [thread EXCEPT ![Len(thread)] = k]
      /\ pc' = IF k.calls = <<>> THEN "done" ELSE "tools"
  BY <1>3, <1>5, <1>6 DEF AfterLimit, ReplaceLast
<1>9. /\ thread' \in Seq(Msg) /\ Ordered(thread') /\ Numbered(thread', replies)
      /\ thread' # <<>> /\ LastOf(thread') = k /\ Answered(thread', Len(thread') - 1)
      /\ Delegations(thread') = Delegations(thread)
      /\ (\E n \in DOMAIN thread' : Tool(thread'[n])) <=> AnyTool
  BY <1>2, <1>3, <1>7, <1>8, Rewritten
<1>10. pc' \in {"done", "tools"} /\ (pc' = "done" <=> k.calls = <<>>) /\ (pc' = "tools" <=> k.calls # <<>>)
  BY <1>8
<1>11. CountInv'
  BY <1>1, <1>10 DEF CountInv, PCs
<1>12. ThreadInv'
  BY <1>1, <1>7, <1>9, <1>10 DEF ThreadInv, AfterModel
<1>13. BudgetInv'
  <2>1. /\ IsFiniteSet(seen) /\ used = Cardinality(seen)
        /\ m.calls # <<>> => Cardinality(Free(replies)) <= Retries /\ used < Budget
    BY <1>1, <1>3 DEF BudgetInv
  <2>2. Free(replies)' = Free(replies) /\ Retries' = Retries
    BY <1>1 DEF Free, Retries
  <2> QED
    BY <1>1, <1>7, <1>9, <1>10, <2>1, <2>2 DEF BudgetInv
<1>14. LimitInv'
  <2>1. Cardinality(Delegations(thread')) + Cardinality(Delegating(LastOf(thread'))) <= MaxTotal
    <3>1. P + Cardinality(Delegating(k)) <= MaxTotal
      BY <1>5, <1>7, TurnAssumption
    <3> QED
      BY <1>4, <1>9, <3>1
  <2>2. TotalLimit'
    BY <1>4, <1>9 DEF TotalLimit, PriorDelegations, Delegations
  <2> QED
    BY <2>1, <2>2 DEF LimitInv
<1>15. AnswerInv'
  <2>1. AnyTool /\ k.calls = <<>> => k.text
    BY <1>1, <1>3, <1>7 DEF AnswerInv
  <2>2. LastMsg' = LastOf(thread')
    BY DEF LastMsg, LastOf
  <2> QED
    BY <1>9, <1>10, <2>1, <2>2 DEF AnswerInv, NeverEmptyAnswer, AnyTool, Tool
<1> QED
  BY <1>11, <1>12, <1>13, <1>14, <1>15

\* The thread with results of the last reply.
LEMMA WithResults ==
  ASSUME TurnInv, pc = "tools", NEW S, NEW bad,
         NEW t, t = thread \o Results(S, bad)
  PROVE  /\ t \in Seq(Msg) /\ Ordered(t) /\ Numbered(t, replies)
         /\ Cardinality(Delegations(t)) \in Nat /\ Cardinality(Delegations(t)) <= MaxTotal
         /\ S = CallsOf(LastMsg) => Answered(t, Len(t))
<1>1. PICK s \in Seq(Msg) : s = thread
  BY DEF TurnInv, ThreadInv
<1>2. pc \in AfterModel /\ ThreadInv /\ LimitInv
  BY DEF TurnInv, AfterModel
<1>3. PICK m \in Msg : m = LastOf(s) /\ LastMsg = m
  BY <1>1, <1>2, LastReply
<1>4. /\ Ordered(s) /\ Numbered(s, replies) /\ s # <<>> /\ Ai(LastOf(s))
      /\ Answered(s, Len(s) - 1)
  BY <1>1, <1>2 DEF ThreadInv
<1>5. PICK r : r = Results(S, bad)
  OBVIOUS
<1>6. /\ ResultsFor(r, LastOf(s)) /\ {r[k].ans : k \in DOMAIN r} = CallsOf(LastOf(s)) \cap S
      /\ \A k \in DOMAIN r : r[k].status => r[k].ans \in Delegating(LastOf(s))
  BY <1>1, <1>4, <1>5, ResultsFacts
<1>7. t = s \o r
  BY <1>1, <1>5
<1>8. /\ t \in Seq(Msg) /\ Ordered(t) /\ Len(t) = Len(s) + Len(r)
      /\ \A n \in DOMAIN s : t[n] = s[n]
      /\ \A k \in DOMAIN r : t[Len(s) + k] = r[k]
      /\ CallsOf(LastOf(s)) = {r[k].ans : k \in DOMAIN r} => Answered(t, Len(t))
  BY <1>4, <1>6, <1>7, AddResults
<1>9. S = CallsOf(LastMsg) => Answered(t, Len(t))
  BY <1>3, <1>6, <1>8
<1>10. Numbered(t, replies)
  <2>1. PICK N \in Nat : N = Len(s) /\ DOMAIN s = 1 .. N
    BY LenProperties
  <2>2. PICK M \in Nat : M = Len(r) /\ DOMAIN r = 1 .. M
    BY <1>6, LenProperties DEF ResultsFor
  <2>3. DOMAIN t = 1 .. N + M
    BY <1>8, <2>1, <2>2, LenProperties
  <2>4. \A k \in 1 .. M : Tool(t[N + k])
    BY <1>6, <1>8, <2>1, <2>2 DEF ResultsFor
  <2>5. ASSUME NEW n \in 1 .. N + M, Ai(t[n])
        PROVE  t[n].id \in 1 .. replies
    <3>1. CASE n \in 1 .. N
      BY <1>4, <1>8, <2>1, <2>5, <3>1 DEF Numbered
    <3>2. CASE n \notin 1 .. N
      <4>1. n - N \in 1 .. M /\ n = N + (n - N)
        BY <3>2
      <4>2. Tool(t[n])
        BY <2>4, <4>1
      <4> QED
        BY <2>5, <4>2 DEF Ai, Tool
    <3> QED
      BY <3>1, <3>2
  <2> QED
    BY <2>3, <2>5 DEF Numbered
<1>11. Cardinality(Delegations(t)) \in Nat /\ Cardinality(Delegations(t)) <= MaxTotal
  <2>1. PICK x, y, z : /\ x = Cardinality(Delegations(t)) /\ y = Cardinality(Delegations(s))
                       /\ z = Cardinality(Delegating(m))
    OBVIOUS
  <2>2. x \in Nat /\ y \in Nat /\ z \in Nat
    BY <1>8, <2>1, DelegationsFinite, CallsFinite
  <2>3. x <= y + z
    BY <1>3, <1>4, <1>6, <1>7, <2>1, ResultsDelegations
  <2>4. y + z <= MaxTotal
    BY <1>1, <1>2, <1>3, <2>1 DEF LimitInv
  <2>5. x <= MaxTotal
    BY <2>2, <2>3, <2>4, TurnAssumption
  <2> QED
    BY <2>1, <2>2, <2>5
<1> QED
  BY <1>8, <1>9, <1>10, <1>11

LEMMA ToolsStep ==
  ASSUME TurnInv, ToolsReturn
  PROVE  TurnInv'
<1> USE DEF TurnInv
<1>1. /\ pc = "tools" /\ pc' = "model"
      /\ UNCHANGED <<start, replies, turns, seen, used, history, toolHistory, retried>>
  BY DEF ToolsReturn, midVars
<1>2. PICK S, bad : S = CallsOf(LastMsg) /\ thread' = thread \o Results(S, bad)
  BY DEF ToolsReturn
<1>3. /\ thread' \in Seq(Msg) /\ Ordered(thread') /\ Numbered(thread', replies)
      /\ Cardinality(Delegations(thread')) \in Nat /\ Cardinality(Delegations(thread')) <= MaxTotal
      /\ Answered(thread', Len(thread'))
  BY <1>1, <1>2, WithResults
<1>4. CountInv'
  BY <1>1 DEF CountInv, PCs
<1>5. ThreadInv'
  BY <1>1, <1>3 DEF ThreadInv, AfterModel
<1>6. BudgetInv'
  <2>1. IsFiniteSet(seen) /\ used = Cardinality(seen) /\ Cardinality(Free(replies)) <= Retries
    BY <1>1 DEF BudgetInv
  <2>2. Free(replies)' = Free(replies) /\ Retries' = Retries
    BY <1>1 DEF Free, Retries
  <2> QED
    BY <1>1, <2>1, <2>2 DEF BudgetInv
<1>7. LimitInv'
  BY <1>1, <1>3 DEF LimitInv, TotalLimit, PriorDelegations, Delegations
<1>8. AnswerInv'
  BY <1>1 DEF AnswerInv, NeverEmptyAnswer
<1> QED
  BY <1>4, <1>5, <1>6, <1>7, <1>8

LEMMA CutStep ==
  ASSUME TurnInv, Interrupt \/ Crash
  PROVE  TurnInv'
<1> USE DEF TurnInv
<1>1. /\ thread' \in Saved /\ pc' \in {"broken", "none"}
      /\ UNCHANGED <<start, replies, turns, seen, used, history, toolHistory, retried>>
  BY DEF Interrupt, Crash, midVars
<1>2. /\ thread' \in Seq(Msg) /\ Ordered(thread') /\ Numbered(thread', replies)
      /\ Cardinality(Delegations(thread')) <= MaxTotal
  <2>1. CASE pc = "tools"
    <3>1. PICK S, bad : thread' = thread \o Results(S, bad)
      BY <1>1, <2>1 DEF Saved
    <3> QED
      BY <2>1, <3>1, WithResults
  <2>2. CASE pc # "tools"
    <3>1. thread' = thread
      BY <1>1, <2>2 DEF Saved
    <3> QED
      BY <3>1, PriorDef DEF ThreadInv, LimitInv, TotalLimit
  <2> QED
    BY <2>1, <2>2
<1>3. CountInv'
  BY <1>1 DEF CountInv, PCs
<1>4. ThreadInv'
  BY <1>1, <1>2 DEF ThreadInv, AfterModel
<1>5. BudgetInv'
  BY <1>1 DEF BudgetInv
<1>6. LimitInv'
  BY <1>1, <1>2 DEF LimitInv, TotalLimit, PriorDelegations, Delegations
<1>7. AnswerInv'
  BY <1>1 DEF AnswerInv, NeverEmptyAnswer
<1> QED
  BY <1>3, <1>4, <1>5, <1>6, <1>7

LEMMA StutterStep ==
  ASSUME TurnInv, UNCHANGED vars
  PROVE  TurnInv'
<1> USE DEF TurnInv
<1>1. UNCHANGED <<thread, pc, start, replies, turns, seen, used, history, toolHistory, retried>>
  BY DEF vars, midVars
<1>2. CountInv'
  BY <1>1 DEF CountInv
<1>3. ThreadInv'
  BY <1>1 DEF ThreadInv
<1>4. BudgetInv'
  BY <1>1 DEF BudgetInv, Free, Retries
<1>5. LimitInv'
  BY <1>1 DEF LimitInv, TotalLimit, PriorDelegations
<1>6. AnswerInv'
  BY <1>1 DEF AnswerInv, NeverEmptyAnswer, AnyTool, LastMsg
<1> QED
  BY <1>2, <1>3, <1>4, <1>5, <1>6

LEMMA TurnStep == TurnInv /\ [Next]_vars => TurnInv'
<1> SUFFICES ASSUME TurnInv, [Next]_vars
             PROVE  TurnInv'
  OBVIOUS
<1>1. CASE StartTurn \/ StartFails
  BY <1>1, StartStep
<1>2. CASE Repair \/ RepairAfter
  BY <1>2, RepairStep
<1>3. CASE Input
  BY <1>3, InputStep
<1>4. CASE \E n \in DOMAIN thread : Compact(n)
  BY <1>4, CompactStep
<1>5. CASE \E shape \in Shapes, args \in Args, text, bad \in BOOLEAN :
             ModelReplies(shape, args, text, bad)
  BY <1>5, ModelStep
<1>6. CASE AfterTerminal
  BY <1>6, TerminalStep
<1>7. CASE AfterBudget
  BY <1>7, BudgetStep
<1>8. CASE AfterLoop
  BY <1>8, LoopStep
<1>9. CASE AfterLimit
  BY <1>9, LimitStep
<1>10. CASE ToolsReturn
  BY <1>10, ToolsStep
<1>11. CASE Interrupt \/ Crash
  BY <1>11, CutStep
<1>12. CASE UNCHANGED vars
  BY <1>12, StutterStep
<1> QED
  BY <1>1, <1>2, <1>3, <1>4, <1>5, <1>6, <1>7, <1>8, <1>9, <1>10, <1>11, <1>12 DEF Next

LEMMA TurnAlways == Spec => []TurnInv
<1>1. Init => TurnInv
  BY TurnInit
<1>2. TurnInv /\ [Next]_vars => TurnInv'
  BY TurnStep
<1> QED
  BY <1>1, <1>2, PTL DEF Spec

-----------------------------------------------------------------------------
(* The properties.                                                           *)

\* Whatever the turns, the repairs, the compactions and the crashes, the
\* thread is a list of messages of the three kinds and the counters of the
\* middleware stay in their range.
THEOREM TurnTypes == Spec => []TypeOK
<1>1. TurnInv => TypeOK
  <2> SUFFICES ASSUME TurnInv
               PROVE  TypeOK
    OBVIOUS
  <2>1. CountInv /\ ThreadInv /\ BudgetInv
    BY DEF TurnInv
  <2>2. ASSUME NEW n \in DOMAIN thread
        PROVE  /\ DOMAIN thread[n] = DOMAIN Blank
               /\ thread[n].role \in {"human", "ai", "tool"}
               /\ \A k \in DOMAIN thread[n].calls : thread[n].calls[k] \in Calls
               /\ thread[n].ans \in Calls \cup {None}
    <3>1. PICK m \in Msg : m = thread[n]
      BY <2>1, ThreadFields DEF ThreadInv
    <3>2. DOMAIN m = DOMAIN Blank
      BY DEF Msg, Blank
    <3>3. \A k \in DOMAIN m.calls : m.calls[k] \in Calls
      BY MsgFields DEF CallsOf, ToSet
    <3> QED
      BY <3>1, <3>2, <3>3, MsgFields
  <2> QED
    BY <2>1, <2>2 DEF CountInv, BudgetInv, TypeOK
<1> QED
  BY <1>1, TurnAlways, PTL

\* A model call never sends a history with an unanswered tool call: in a
\* thread without one each call has one result, among the ToolMessages that
\* follow its reply.
LEMMA AnsweredThread ==
  ASSUME NEW s \in Seq(Msg), Ordered(s), Answered(s, Len(s)), NEW n \in DOMAIN s
  PROVE  AnsweredAt(s, n)
<1>1. PICK N \in Nat : N = Len(s) /\ DOMAIN s = 1 .. N
  BY LenProperties
<1>2. s[n] \in Msg
  BY ThreadFields
<1>3. ASSUME NEW k \in DOMAIN s[n].calls
      PROVE  /\ \E m \in n + 1 .. Len(s) : /\ s[m].ans = s[n].calls[k]
                                           /\ \A j \in n + 1 .. m : s[j].role = "tool"
             /\ Cardinality({m \in DOMAIN s : s[m].ans = s[n].calls[k]}) = 1
  <2>1. PICK c \in CallsOf(s[n]) : c = s[n].calls[k]
    BY DEF CallsOf, ToSet
  <2>2. c \in Answers(s) /\ c \in Calls /\ c # None
    BY <1>1, <1>2, MsgFields, NoneIsNoCall DEF Answered
  <2>3. PICK a \in DOMAIN s : Tool(s[a]) /\ s[a].ans = c
    BY <2>2, AnswersDef
  <2>4. PICK p \in DOMAIN s : Owner(s, a, p)
    BY <2>3 DEF Ordered
  <2>5. p = n
    BY <2>3, <2>4, OneCaller DEF Owner
  <2>6. n \in 1 .. a - 1 /\ \A j \in n + 1 .. a : Tool(s[j])
    BY <2>4, <2>5 DEF Owner
  <2>7. a \in n + 1 .. N
    BY <1>1, <2>6
  <2>8. \A m \in DOMAIN s : s[m].ans = c => m = a
    <3>1. ASSUME NEW m \in DOMAIN s, s[m].ans = c
          PROVE  m = a
      <4>1. Tool(s[m])
        BY <2>2, <3>1 DEF Ordered, Sound
      <4> QED
        BY <2>3, <3>1, <4>1 DEF Ordered
    <3> QED
      BY <3>1
  <2>9. {m \in DOMAIN s : s[m].ans = c} = {a}
    BY <2>3, <2>8
  <2>10. Cardinality({a}) = 1
    BY FS_Singleton
  <2> QED
    BY <1>1, <2>1, <2>3, <2>6, <2>7, <2>9, <2>10 DEF Tool
<1> QED
  BY <1>3, Zenon DEF AnsweredAt

\* What a model call sends: the repair at the start of the turn, the results
\* of every tool call and the compaction leave no call without its one result,
\* whichever earlier turns were cut off and whichever repairs failed.
THEOREM HistoryAnswered == Spec => []ModelSeesAnswered
<1>1. TurnInv => ModelSeesAnswered
  <2> SUFFICES ASSUME TurnInv, pc = "model", NEW n \in DOMAIN thread
               PROVE  AnsweredAt(thread, n)
    BY DEF ModelSeesAnswered
  <2>1. thread \in Seq(Msg) /\ Ordered(thread) /\ Answered(thread, Len(thread))
    BY DEF TurnInv, ThreadInv
  <2> QED
    BY <2>1, AnsweredThread
<1> QED
  BY <1>1, TurnAlways, PTL

\* _repaired_thread: the turn starts on a thread that repair_thread_history
\* would leave as it is.
THEOREM CleanStart == Spec => []StartsClean
<1>1. TurnInv => StartsClean
  <2> SUFFICES ASSUME TurnInv, pc = "input"
               PROVE  (\A n \in DOMAIN thread : ~thread[n].bad) /\ Repaired(thread) = thread
    BY DEF StartsClean
  <2>1. thread \in Seq(Msg) /\ Answered(thread, Len(thread)) /\ Clean(thread)
    BY DEF TurnInv, ThreadInv
  <2>2. Repaired(thread) = thread
    BY <2>1, RepairTwice
  <2> QED
    BY <2>1, <2>2 DEF Clean
<1> QED
  BY <1>1, TurnAlways, PTL

\* SubagentLimitMiddleware: the delegations that the thread remembers stay
\* within max_total_per_run, also when the turn is cut off while they run.
THEOREM WithinTotal == Spec => []TotalLimit
<1>1. TurnInv => TotalLimit
  BY DEF TurnInv, LimitInv
<1> QED
  BY <1>1, TurnAlways, PTL

\* TokenBudgetMiddleware: tools are called only while the replies of the turn,
\* but for the one that TerminalResponseMiddleware took back, are below the
\* budget.
THEOREM WithinBudget == Spec => []BudgetStops
<1>1. TurnInv => BudgetStops
  <2> SUFFICES ASSUME TurnInv, pc = "tools"
               PROVE  replies - start < Budget + Retries
    BY DEF BudgetStops, Retries
  <2>1. CountInv /\ BudgetInv
    BY DEF TurnInv
  <2>2. PICK n \in Nat, r \in Nat, R \in Nat : n = start /\ r = replies /\ R = Retries /\ n <= r
    <3>1. start \in Nat /\ replies \in Nat /\ start <= replies
      BY <2>1, TurnAssumption DEF CountInv
    <3>2. Retries \in Nat
      BY DEF Retries
    <3> QED
      BY <3>1, <3>2
  <2>3. PICK A : A = Free(replies)
    OBVIOUS
  <2>4. IsFiniteSet(seen) /\ used = Cardinality(seen) /\ used < Budget /\ Cardinality(A) <= R
    BY <2>1, <2>2, <2>3 DEF BudgetInv
  <2>5. IsFiniteSet(n + 1 .. r) /\ Cardinality(n + 1 .. r) = r - n
    <3>1. PICK a \in Int, b \in Int : a = n + 1 /\ b = r
      BY <2>2
    <3>2. /\ IsFiniteSet(a .. b)
          /\ Cardinality(a .. b) = IF a > b THEN 0 ELSE b - a + 1
      BY FS_Interval
    <3>3. (IF a > b THEN 0 ELSE b - a + 1) = r - n
      BY <2>2, <3>1
    <3> QED
      BY <3>1, <3>2, <3>3
  <2>6. IsFiniteSet(A)
    BY <2>2, <2>3, <2>5, FS_Subset DEF Free
  <2>7. Cardinality(A) \in Nat /\ Cardinality(seen) \in Nat
    BY <2>4, <2>6, FS_CardinalityType
  <2>8. /\ IsFiniteSet(A \cup seen)
        /\ Cardinality(A \cup seen) = Cardinality(A) + Cardinality(seen) - Cardinality(A \cap seen)
    BY <2>4, <2>6, FS_Union
  <2>9. Cardinality(A \cap seen) \in Nat
    <3>1. IsFiniteSet(A \cap seen)
      BY <2>6, FS_Subset
    <3> QED
      BY <3>1, FS_CardinalityType
  <2>10. n + 1 .. r \subseteq A \cup seen
    BY <2>2, <2>3 DEF Free
  <2>11. r - n <= Cardinality(A \cup seen)
    BY <2>5, <2>8, <2>10, FS_Subset
  <2>12. r - n <= Cardinality(A) + Cardinality(seen)
    BY <2>2, <2>7, <2>8, <2>9, <2>11
  <2>13. r - n < Budget + R
    BY <2>2, <2>4, <2>7, <2>12, TurnAssumption
  <2> QED
    BY <2>2, <2>13
<1> QED
  BY <1>1, TurnAlways, PTL

\* TerminalResponseMiddleware and the notes of the other middleware: a turn
\* that used tools ends with a reply that has text.
THEOREM AnswersAfterTools == Spec => []NeverEmptyAnswer
<1>1. TurnInv => NeverEmptyAnswer
  BY DEF TurnInv, AnswerInv
<1> QED
  BY <1>1, TurnAlways, PTL

\* repair_thread_history adds synthetic ToolMessages and takes nothing away:
\* without them the repaired thread is the thread, in its order.
THEOREM RepairsAdd == Spec => RepairOnlyAdds
<1>1. TurnInv /\ [Next]_vars =>
        [(pc \in {"repair", "broken"}) =>
           PlainShared(thread, thread') = [n \in DOMAIN thread |-> Plain(thread[n])]]_vars
  <2> SUFFICES ASSUME TurnInv, Next, pc \in {"repair", "broken"}
               PROVE  PlainShared(thread, thread') = [n \in DOMAIN thread |-> Plain(thread[n])]
    OBVIOUS
  <2>1. thread \in Seq(Msg)
    BY DEF TurnInv, ThreadInv
  <2>2. thread' = thread \/ thread' = Repaired(thread)
    BY DEF Next, StartTurn, StartFails, Repair, Input, Compact, ModelReplies, AfterTerminal,
           AfterBudget, AfterLoop, AfterLimit, ToolsReturn, Interrupt, Crash, RepairAfter, GraphPCs
  <2>3. CASE thread' = thread
    BY <2>1, <2>3, RepairAdds
  <2>4. CASE thread' = Repaired(thread)
    BY <2>1, <2>4, RepairAdds
  <2> QED
    BY <2>2, <2>3, <2>4
<1> QED
  BY <1>1, TurnAlways, PTL DEF Spec, RepairOnlyAdds

=============================================================================
