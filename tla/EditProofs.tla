----------------------------- MODULE EditProofs ------------------------------
(***************************************************************************)
(* Lemmas about the edits of EditActions, on which the theorems about      *)
(* Editor rest (EditorProofs).  They hold for all sets of ids, media and   *)
(* habits.                                                                 *)
(*                                                                         *)
(* An inverse is run on other documents than the one it was recorded on.   *)
(* So a lemma about a step says what it does on every document of a shape. *)
(* The first part: a well formed step, run on any document whose ids were  *)
(* handed out, leaves such a document and an inverse of well formed steps  *)
(* (IsOutcome), with every lane in its zone and the main flag on one video *)
(* lane if they were.  Runs, rollbacks and the flattened script of a group *)
(* are folds, so what holds of a step is carried along the sequence        *)
(* (Climb).                                                                *)
(*                                                                         *)
(* The second part says where a step leads.  It reads and changes only a   *)
(* document's Core, and its inverse leads from the core it left back to    *)
(* the core it found (StepReverts, Leads); so a script is a path of cores  *)
(* (Path).  Each edit leaves a core whose clips fit (Solid), and a script  *)
(* that leads back from it (Edited).  A core leaves out the order of the   *)
(* lanes and the main flag unless the sessions are Tidy; then it is the    *)
(* whole document.                                                         *)
(***************************************************************************)
EXTENDS Editor, WellFoundedInduction, FiniteSetTheorems, SequenceTheorems, TLAPS

-----------------------------------------------------------------------------
(* Folds over sequences *)

LEMMA Least ==
  ASSUME NEW S \in SUBSET Nat, S # {}
  PROVE  \E n \in S : \A m \in S : n <= m
<1> DEFINE R == OpToRel(<, Nat)
<1>1. IsWellFoundedOn(R, Nat)
  BY NatLessThanWellFounded
<1> HIDE DEF R
<1>2. PICK x \in S : \A y \in S : ~(<<y, x>> \in R)
  BY <1>1, WFMin
<1>3. \A y \in S : ~(y < x)
  BY <1>2 DEF R, OpToRel
<1>4. QED
  BY <1>3

(* A set of naturals with 0, closed under the step up to n, holds 0 .. n. *)
LEMMA Climb ==
  ASSUME NEW n \in Nat, NEW S,
         0 \in S, \A i \in 1 .. n : i - 1 \in S => i \in S
  PROVE  0 .. n \subseteq S
<1> SUFFICES ASSUME NEW j \in 0 .. n, j \notin S PROVE FALSE
  OBVIOUS
<1> DEFINE B == {k \in 0 .. n : k \notin S}
<1>1. B \in SUBSET Nat /\ B # {}
  OBVIOUS
<1>2. PICK k \in B : \A m \in B : k <= m
  BY <1>1, Least
<1>3. k # 0 /\ k - 1 \in 0 .. n /\ k \in 1 .. n
  BY <1>2
<1>4. k - 1 \in S
  BY <1>2, <1>3
<1>5. QED
  BY <1>2, <1>3, <1>4

-----------------------------------------------------------------------------
(* Among *)

Kept(S, kept, x) == IF x \in S THEN Append(kept, x) ELSE kept

LEMMA AmongFolds ==
  ASSUME NEW q, NEW S, DOMAIN q = 1 .. Len(q), Len(q) \in Nat
  PROVE  \E F : /\ F[0] = << >>
                /\ \A i \in 1 .. Len(q) : F[i] = Kept(S, F[i - 1], q[i])
                /\ Among(q, S) = F[Len(q)]
<1> DEFINE N == Len(q)
           Body(g, n) == [i \in 0 .. n |-> IF i = 0 THEN << >> ELSE Kept(S, g[i - 1], q[i])]
           K == {k \in Nat : \E g : g = Body(g, k)}
<1>1. 0 \in K
  <2> DEFINE g == [i \in 0 .. 0 |-> << >>]
  <2>1. g = Body(g, 0)
    OBVIOUS
  <2>2. QED
    BY <2>1
<1>2. ASSUME NEW n \in 1 .. N, n - 1 \in K PROVE n \in K
  <2>1. PICK g : g = Body(g, n - 1)
    BY <1>2
  <2> DEFINE h == [i \in 0 .. n |-> IF i = n THEN Kept(S, g[n - 1], q[n]) ELSE g[i]]
  <2>2. ASSUME NEW i \in 0 .. n
        PROVE  h[i] = IF i = 0 THEN << >> ELSE Kept(S, h[i - 1], q[i])
    <3>1. CASE i = n
      <4>1. h[n - 1] = g[n - 1] /\ h[n] = Kept(S, g[n - 1], q[n])
        OBVIOUS
      <4>2. QED
        BY <3>1, <4>1
    <3>2. CASE i # n
      <4>1. i \in 0 .. (n - 1) /\ h[i] = g[i] /\ (i # 0 => h[i - 1] = g[i - 1])
        BY <3>2
      <4>2. g[i] = IF i = 0 THEN << >> ELSE Kept(S, g[i - 1], q[i])
        BY <2>1, <4>1
      <4>3. QED
        BY <4>1, <4>2
    <3>3. QED
      BY <3>1, <3>2
  <2>3. h = [i \in 0 .. n |-> h[i]]
    OBVIOUS
  <2> HIDE DEF h
  <2>4. h = Body(h, n)
    BY <2>2, <2>3
  <2> HIDE DEF Body
  <2>5. \E f : f = Body(f, n)
    BY <2>4
  <2>6. QED
    BY <2>5
<1>3. N \in K
  <2> HIDE DEF K
  <2>1. 0 .. N \subseteq K
    BY <1>1, <1>2, Climb
  <2>2. QED
    BY <2>1
<1> DEFINE F == CHOOSE g : g = Body(g, N)
<1>4. F = Body(F, N)
  BY <1>3
<1>5. Among(q, S) = F[N]
  BY DEF Among, Kept
<1> HIDE DEF F
<1>6. \A i \in 0 .. N : F[i] = IF i = 0 THEN << >> ELSE Kept(S, F[i - 1], q[i])
  BY <1>4
<1>7. F[0] = << >> /\ \A i \in 1 .. N : F[i] = Kept(S, F[i - 1], q[i])
  BY <1>6
<1>8. QED
  BY <1>5, <1>7

-----------------------------------------------------------------------------
(* Filtered sequences *)

(* a is what q has of S up to place n, in order. *)
Picks(a, q, S, n) ==
  \E p \in [1 .. Len(a) -> 1 .. n] :
    /\ \A k \in 1 .. Len(a) : a[k] = q[p[k]] /\ q[p[k]] \in S
    /\ \A k, l \in 1 .. Len(a) : k < l => p[k] < p[l]
    /\ \A j \in 1 .. n : q[j] \in S => \E k \in 1 .. Len(a) : p[k] = j

LEMMA AmongPicks ==
  ASSUME NEW X, NEW q \in Seq(X), NEW S
  PROVE  Among(q, S) \in Seq(X) /\ Picks(Among(q, S), q, S, Len(q))
<1> DEFINE N == Len(q)
<1>1. N \in Nat /\ DOMAIN q = 1 .. N /\ \A i \in 1 .. N : q[i] \in X
  BY ElementOfSeq, LenProperties
<1>2. PICK F : /\ F[0] = << >>
               /\ \A i \in 1 .. N : F[i] = Kept(S, F[i - 1], q[i])
               /\ Among(q, S) = F[N]
  BY <1>1, AmongFolds
<1> DEFINE B == {i \in 0 .. N : F[i] \in Seq(X) /\ Picks(F[i], q, S, i)}
<1>3. 0 \in B
  <2>1. << >> \in Seq(X) /\ Len(<< >>) = 0
    BY EmptySeq
  <2>2. Picks(<< >>, q, S, 0)
    <3> DEFINE p == [k \in 1 .. 0 |-> 0]
    <3>1. p \in [1 .. Len(<< >>) -> 1 .. 0]
      BY <2>1
    <3>2. 1 .. 0 = {} /\ 1 .. Len(<< >>) = {}
      BY <2>1
    <3> HIDE DEF p
    <3>3. QED
      BY <3>1, <3>2 DEF Picks
  <2>3. QED
    <3>1. 0 \in 0 .. N /\ F[0] = << >>
      BY <1>1, <1>2
    <3>2. << >> \in Seq(X)
      BY <2>1
    <3> HIDE DEF N
    <3>3. QED
      BY <3>1, <3>2, <2>2
<1>4. ASSUME NEW i \in 1 .. N, i - 1 \in B PROVE i \in B
  <2> DEFINE a == F[i - 1]
             x == q[i]
  <2>1. a \in Seq(X) /\ Picks(a, q, S, i - 1)
    BY <1>4
  <2>2. F[i] = Kept(S, a, x) /\ x \in X /\ i \in 0 .. N
    BY <1>1, <1>2
  <2>3. Len(a) \in Nat
    BY <2>1, LenProperties
  <2> HIDE DEF a
  <2>4. PICK p \in [1 .. Len(a) -> 1 .. (i - 1)] :
          /\ \A k \in 1 .. Len(a) : a[k] = q[p[k]] /\ q[p[k]] \in S
          /\ \A k, l \in 1 .. Len(a) : k < l => p[k] < p[l]
          /\ \A j \in 1 .. (i - 1) : q[j] \in S => \E k \in 1 .. Len(a) : p[k] = j
    BY <2>1 DEF Picks
  <2>5. CASE x \in S
    <3> DEFINE b == Append(a, x)
               n == Len(a) + 1
               r == [k \in 1 .. n |-> IF k = n THEN i ELSE p[k]]
    <3>1. b \in Seq(X) /\ Len(b) = n /\ b[n] = x /\ \A k \in 1 .. Len(a) : b[k] = a[k]
      BY <2>1, <2>2, AppendProperties
    <3>2. r \in [1 .. n -> 1 .. i]
      BY <2>3, <2>4
    <3>3. \A k \in 1 .. n : b[k] = q[r[k]] /\ q[r[k]] \in S
      <4> TAKE k \in 1 .. n
      <4>1. CASE k = n
        BY <4>1, <3>1, <2>5
      <4>2. CASE k # n
        <5>1. k \in 1 .. Len(a)
          BY <4>2, <2>3
        <5>2. b[k] = a[k] /\ r[k] = p[k]
          BY <5>1, <3>1, <4>2
        <5>3. QED
          BY <5>1, <5>2, <2>4
      <4>3. QED
        BY <4>1, <4>2
    <3>4. \A k, l \in 1 .. n : k < l => r[k] < r[l]
      <4> TAKE k, l \in 1 .. n
      <4> HAVE k < l
      <4>1. k \in 1 .. Len(a) /\ r[k] = p[k] /\ p[k] \in 1 .. (i - 1)
        BY <2>3, <2>4
      <4>2. CASE l = n
        BY <4>1, <4>2
      <4>3. CASE l # n
        <5>1. l \in 1 .. Len(a) /\ r[l] = p[l]
          BY <4>3, <2>3
        <5>2. QED
          BY <4>1, <5>1, <2>4
      <4>4. QED
        BY <4>2, <4>3
    <3>5. \A j \in 1 .. i : q[j] \in S => \E k \in 1 .. n : r[k] = j
      <4> TAKE j \in 1 .. i
      <4> HAVE q[j] \in S
      <4>1. CASE j = i
        <5>1. n \in 1 .. n /\ r[n] = i
          BY <2>3
        <5>2. QED
          BY <5>1, <4>1
      <4>2. CASE j # i
        <5>1. PICK k \in 1 .. Len(a) : p[k] = j
          BY <4>2, <2>4
        <5>2. k \in 1 .. n /\ r[k] = j
          BY <5>1, <2>3
        <5>3. QED
          BY <5>2
      <4>3. QED
        BY <4>1, <4>2
    <3> HIDE DEF r, b
    <3>6. Picks(b, q, S, i)
      <4>1. Len(b) = n
        BY <3>1
      <4> HIDE DEF n
      <4>2. QED
        BY <4>1, <3>2, <3>3, <3>4, <3>5, Zenon DEF Picks
    <3>7. F[i] = b
      BY <2>2, <2>5 DEF Kept, b
    <3>8. QED
      BY <3>1, <3>6, <3>7, <2>2
  <2>6. CASE x \notin S
    <3>1. F[i] = a
      BY <2>2, <2>6 DEF Kept
    <3>2. p \in [1 .. Len(a) -> 1 .. i]
      BY <2>4
    <3>3. \A j \in 1 .. i : q[j] \in S => \E k \in 1 .. Len(a) : p[k] = j
      BY <2>4, <2>6
    <3>4. Picks(a, q, S, i)
      BY <3>2, <3>3, <2>4 DEF Picks
    <3>5. QED
      BY <3>1, <3>4, <2>1, <2>2
  <2>7. QED
    BY <2>5, <2>6
<1>5. N \in B
  <2> HIDE DEF B
  <2>1. 0 .. N \subseteq B
    BY <1>1, <1>3, <1>4, Climb
  <2>2. QED
    BY <2>1, <1>1
<1>6. QED
  BY <1>2, <1>5

(* What becomes of a list without repetitions. *)
LEMMA AmongFacts ==
  ASSUME NEW X, NEW q \in Seq(X), NEW S
  PROVE  LET a == Among(q, S) IN
         /\ a \in Seq(X) /\ ToSet(a) = ToSet(q) \cap S
         /\ IsInjective(q) => IsInjective(a)
<1> DEFINE a == Among(q, S)
<1>1. a \in Seq(X) /\ Picks(a, q, S, Len(q))
  BY AmongPicks
<1> HIDE DEF a
<1>2. DOMAIN a = 1 .. Len(a) /\ DOMAIN q = 1 .. Len(q) /\ Len(a) \in Nat /\ Len(q) \in Nat
  BY <1>1, LenProperties
<1>3. PICK p \in [1 .. Len(a) -> 1 .. Len(q)] :
        /\ \A k \in 1 .. Len(a) : a[k] = q[p[k]] /\ q[p[k]] \in S
        /\ \A k, l \in 1 .. Len(a) : k < l => p[k] < p[l]
        /\ \A j \in 1 .. Len(q) : q[j] \in S => \E k \in 1 .. Len(a) : p[k] = j
  BY <1>1 DEF Picks
<1>4. ToSet(a) = ToSet(q) \cap S
  <2>1. ASSUME NEW x \in ToSet(a) PROVE x \in ToSet(q) \cap S
    <3>1. PICK k \in 1 .. Len(a) : x = a[k]
      BY <1>2 DEF ToSet
    <3>2. QED
      BY <3>1, <1>2, <1>3 DEF ToSet
  <2>2. ASSUME NEW x \in ToSet(q) \cap S PROVE x \in ToSet(a)
    <3>1. PICK j \in 1 .. Len(q) : x = q[j]
      BY <1>2 DEF ToSet
    <3>2. PICK k \in 1 .. Len(a) : p[k] = j
      BY <1>3, <3>1
    <3>3. QED
      BY <3>1, <3>2, <1>2, <1>3 DEF ToSet
  <2>3. QED
    BY <2>1, <2>2
<1>5. ASSUME IsInjective(q) PROVE IsInjective(a)
  <2> SUFFICES ASSUME NEW k \in 1 .. Len(a), NEW l \in 1 .. Len(a), a[k] = a[l] PROVE k = l
    BY <1>2 DEF IsInjective
  <2>1. p[k] = p[l]
    BY <1>2, <1>3, <1>5 DEF IsInjective
  <2>2. p[k] \in Int /\ p[l] \in Int
    BY <1>2, <1>3
  <2>3. ~(k < l) /\ ~(l < k)
    BY <1>3, <2>1, <2>2
  <2>4. QED
    BY <2>3, <1>2
<1>6. QED
  BY <1>1, <1>4, <1>5 DEF a

-----------------------------------------------------------------------------
(* Orders of lanes *)

(* No element twice, and by rank. *)
Neat(q, rank) ==
  /\ IsInjective(q)
  /\ \A i, j \in DOMAIN q : i < j => rank[q[i]] <= rank[q[j]]

LEMMA ListFacts ==
  ASSUME NEW X, NEW q \in Seq(X)
  PROVE  /\ Len(q) \in Nat /\ DOMAIN q = 1 .. Len(q)
         /\ \A i \in DOMAIN q : q[i] \in X /\ q[i] \in ToSet(q)
         /\ \A x \in ToSet(q) : x \in X /\ \E i \in DOMAIN q : x = q[i]
  BY LenProperties, ElementOfSeq DEF ToSet

LEMMA GlueFacts ==
  ASSUME NEW X, NEW a \in Seq(X), NEW b \in Seq(X), NEW rank \in [X -> Nat],
         Neat(a, rank), Neat(b, rank),
         \A x \in ToSet(a), y \in ToSet(b) : rank[x] < rank[y]
  PROVE  /\ a \o b \in Seq(X) /\ ToSet(a \o b) = ToSet(a) \cup ToSet(b)
         /\ Neat(a \o b, rank)
<1> DEFINE c == a \o b
           m == Len(a)
           n == Len(b)
<1>1. /\ c \in Seq(X) /\ Len(c) = m + n /\ m \in Nat /\ n \in Nat
      /\ \A i \in 1 .. (m + n) : c[i] = IF i <= m THEN a[i] ELSE b[i - m]
  BY ConcatProperties, LenProperties
<1> HIDE DEF c
<1>2. /\ DOMAIN a = 1 .. m /\ DOMAIN b = 1 .. n /\ DOMAIN c = 1 .. (m + n)
      /\ \A i \in 1 .. m : a[i] \in X /\ a[i] \in ToSet(a)
      /\ \A i \in 1 .. n : b[i] \in X /\ b[i] \in ToSet(b)
  <2>1. DOMAIN c = 1 .. Len(c)
    BY <1>1, ListFacts
  <2>2. DOMAIN a = 1 .. m /\ \A i \in DOMAIN a : a[i] \in X /\ a[i] \in ToSet(a)
    BY ListFacts
  <2>3. DOMAIN b = 1 .. n /\ \A i \in DOMAIN b : b[i] \in X /\ b[i] \in ToSet(b)
    BY ListFacts
  <2>4. QED
    BY <1>1, <2>1, <2>2, <2>3
<1> HIDE DEF m, n
<1>3. ToSet(c) = ToSet(a) \cup ToSet(b)
  <2>1. ASSUME NEW x \in ToSet(c) PROVE x \in ToSet(a) \cup ToSet(b)
    <3>1. PICK i \in 1 .. (m + n) : x = c[i]
      BY <1>2 DEF ToSet
    <3>2. CASE i <= m
      BY <3>1, <3>2, <1>1, <1>2
    <3>3. CASE ~(i <= m)
      <4>1. i - m \in 1 .. n
        BY <3>3, <1>1
      <4>2. QED
        BY <3>1, <3>3, <4>1, <1>1, <1>2
    <3>4. QED
      BY <3>2, <3>3
  <2>2. ASSUME NEW x \in ToSet(a) PROVE x \in ToSet(c)
    <3>1. PICK i \in 1 .. m : x = a[i]
      BY <1>2 DEF ToSet
    <3>2. i \in 1 .. (m + n) /\ c[i] = a[i]
      BY <3>1, <1>1
    <3>3. QED
      BY <3>1, <3>2, <1>2 DEF ToSet
  <2>3. ASSUME NEW x \in ToSet(b) PROVE x \in ToSet(c)
    <3>1. PICK i \in 1 .. n : x = b[i]
      BY <1>2 DEF ToSet
    <3>2. i + m \in 1 .. (m + n) /\ ~(i + m <= m) /\ (i + m) - m = i
      BY <3>1, <1>1
    <3>3. c[i + m] = b[i]
      BY <3>2, <1>1
    <3>4. QED
      BY <3>1, <3>2, <3>3, <1>2 DEF ToSet
  <2>4. QED
    BY <2>1, <2>2, <2>3
<1>4. ASSUME NEW i \in 1 .. (m + n), NEW j \in 1 .. (m + n), i < j
      PROVE  rank[c[i]] <= rank[c[j]] /\ c[i] # c[j]
  <2>1. CASE j <= m
    <3>1. i \in 1 .. m /\ j \in 1 .. m /\ i <= m /\ i # j
      BY <1>4, <2>1, <1>1
    <3>0. i \in DOMAIN a /\ j \in DOMAIN a /\ c[i] = a[i] /\ c[j] = a[j]
      BY <3>1, <2>1, <1>1, <1>2
    <3>2. QED
      BY <3>0, <3>1, <1>4 DEF Neat, IsInjective
  <2>2. CASE ~(j <= m) /\ i <= m
    <3>1. i \in 1 .. m /\ j - m \in 1 .. n /\ c[i] = a[i] /\ c[j] = b[j - m]
      BY <1>4, <2>2, <1>1, <1>2
    <3>2. rank[c[i]] < rank[c[j]] /\ rank[c[i]] \in Nat /\ rank[c[j]] \in Nat
      BY <3>1, <1>2
    <3>3. QED
      BY <3>2
  <2>3. CASE ~(i <= m)
    <3> m \in Nat /\ n \in Nat
      BY <1>1
    <3>1. /\ i - m \in 1 .. n /\ j - m \in 1 .. n /\ ~(j <= m)
          /\ i - m < j - m /\ i - m # j - m
      BY <1>4, <2>3
    <3>0. /\ i - m \in DOMAIN b /\ j - m \in DOMAIN b /\ c[i] = b[i - m] /\ c[j] = b[j - m]
      BY <3>1, <2>3, <1>1, <1>2
    <3>2. QED
      BY <3>0, <3>1 DEF Neat, IsInjective
  <2>4. QED
    BY <2>1, <2>2, <2>3
<1>5. Neat(c, rank)
  <2>1. IsInjective(c)
    <3> SUFFICES ASSUME NEW i \in 1 .. (m + n), NEW j \in 1 .. (m + n), c[i] = c[j]
                 PROVE  i = j
      BY <1>2 DEF IsInjective
    <3>1. ~(i < j) /\ ~(j < i)
      BY <1>4
    <3>2. QED
      BY <3>1, <1>1
  <2>2. QED
    BY <2>1, <1>2, <1>4 DEF Neat
<1>6. QED
  BY <1>1, <1>3, <1>5 DEF c

(* r is q with t inserted.                                                  *)
Spliced(r, q, index, t) ==
  LET n == Len(q)
      i == IF index > n THEN n + 1 ELSE index
  IN  /\ n \in Nat /\ i \in 1 .. (n + 1) /\ DOMAIN q = 1 .. n /\ DOMAIN r = 1 .. (n + 1)
      /\ \A k \in 1 .. (n + 1) : r[k] = IF k < i THEN q[k] ELSE IF k = i THEN t ELSE q[k - 1]

LEMMA InsertedWhere ==
  ASSUME NEW X, NEW q \in Seq(X), NEW index \in Nat \ {0}, NEW t
  PROVE  InsertedAt(q, index, t) \in Seq(X \cup {t}) /\ Spliced(InsertedAt(q, index, t), q, index, t)
<1> DEFINE n == Len(q)
           i == IF index > n THEN n + 1 ELSE index
           a == SubSeq(q, 1, i - 1)
           b == SubSeq(q, i, n)
           Y == X \cup {t}
<1>1. n \in Nat /\ i \in 1 .. (n + 1) /\ q \in Seq(Y) /\ DOMAIN q = 1 .. n
  <2>1. q \in Seq(Y)
    BY SeqMonotonic, X \subseteq Y
  <2>2. QED
    BY <2>1, ListFacts
<1> HIDE DEF Y
<1>2. a \in Seq(Y) /\ Len(a) = i - 1 /\ \A k \in 1 .. (i - 1) : a[k] = q[k]
  BY <1>1, SubSeqProperties
<1>3. b \in Seq(Y) /\ Len(b) = n - i + 1 /\ \A k \in 1 .. (n - i + 1) : b[k] = q[i + k - 1]
  <2>1. /\ b \in Seq(Y) /\ Len(b) = (IF i <= n THEN n - i + 1 ELSE 0)
        /\ \A k \in 1 .. n - i + 1 : b[k] = q[i + k - 1]
    <3>1. i \in Int /\ n \in Int /\ \A k \in i .. n : q[k] \in Y
      <4>1. \A k \in DOMAIN q : q[k] \in Y
        BY <1>1, ListFacts
      <4>2. QED
        BY <4>1, <1>1
    <3> HIDE DEF n, i
    <3>2. QED
      BY <3>1, SubSeqProperties
  <2> HIDE DEF i, n, b
  <2>2. Len(b) = n - i + 1
    BY <1>1, <2>1
  <2>3. QED
    BY <2>1, <2>2
<1>4. <<t>> \in Seq(Y) /\ Len(<<t>>) = 1 /\ <<t>>[1] = t
  BY DEF Y
<1>5. InsertedAt(q, index, t) = (a \o <<t>>) \o b
  BY <1>1 DEF InsertedAt, InsertAt
<1> HIDE DEF a, b, i
<1> DEFINE c == a \o <<t>>
           r == c \o b
<1>6. c \in Seq(Y) /\ Len(c) = i /\ \A k \in 1 .. i : c[k] = IF k = i THEN t ELSE q[k]
  <2>1. /\ c \in Seq(Y) /\ Len(c) = Len(a) + 1
        /\ \A k \in 1 .. (Len(a) + 1) : c[k] = IF k <= Len(a) THEN a[k] ELSE <<t>>[k - Len(a)]
    BY <1>2, <1>4, ConcatProperties
  <2>2. QED
    BY <1>1, <1>2, <1>4, <2>1
<1> HIDE DEF c
<1>7. /\ r \in Seq(Y) /\ Len(r) = n + 1
      /\ \A k \in 1 .. (n + 1) : r[k] = IF k < i THEN q[k] ELSE IF k = i THEN t ELSE q[k - 1]
  <2>1. /\ r \in Seq(Y) /\ Len(r) = i + Len(b)
        /\ \A k \in 1 .. (i + Len(b)) : r[k] = IF k <= i THEN c[k] ELSE b[k - i]
    BY <1>3, <1>6, ConcatProperties
  <2>2. i + Len(b) = n + 1
    BY <1>1, <1>3
  <2>3. ASSUME NEW k \in 1 .. (n + 1)
        PROVE  r[k] = IF k < i THEN q[k] ELSE IF k = i THEN t ELSE q[k - 1]
    <3>1. CASE k <= i
      BY <3>1, <2>1, <2>2, <1>1, <1>6
    <3>2. CASE ~(k <= i)
      <4>1. k - i \in 1 .. (n - i + 1) /\ i + (k - i) - 1 = k - 1
        BY <3>2, <1>1
      <4>2. QED
        BY <4>1, <3>2, <2>1, <2>2, <1>1, <1>3
    <3>3. QED
      BY <3>1, <3>2
  <2>4. QED
    BY <2>1, <2>2, <2>3
<1> HIDE DEF r
<1>8. DOMAIN r = 1 .. (n + 1)
  BY <1>7, ListFacts
<1>9. QED
  BY <1>1, <1>5, <1>7, <1>8 DEF Spliced, Y, r, c, i, n

LEMMA InsertFacts ==
  ASSUME NEW X, NEW q \in Seq(X), NEW index \in Nat \ {0}, NEW t, t \notin ToSet(q), IsInjective(q)
  PROVE  LET r == InsertedAt(q, index, t) IN
         /\ r \in Seq(X \cup {t}) /\ ToSet(r) = ToSet(q) \cup {t} /\ IsInjective(r)
<1> DEFINE n == Len(q)
           i == IF index > n THEN n + 1 ELSE index
           Y == X \cup {t}
           r == InsertedAt(q, index, t)
<1>0. r \in Seq(Y) /\ Spliced(r, q, index, t)
  BY InsertedWhere
<1> HIDE DEF r
<1>1. n \in Nat /\ i \in 1 .. (n + 1) /\ DOMAIN q = 1 .. n
  BY <1>0 DEF Spliced
<1>8. DOMAIN r = 1 .. (n + 1)
  BY <1>0 DEF Spliced
<1>7. /\ r \in Seq(Y)
      /\ \A k \in 1 .. (n + 1) : r[k] = IF k < i THEN q[k] ELSE IF k = i THEN t ELSE q[k - 1]
  BY <1>0 DEF Spliced
<1> HIDE DEF Y, i
<1> HIDE DEF r, n
<1>9. ToSet(r) = ToSet(q) \cup {t}
  <2>1. ASSUME NEW x \in ToSet(r) PROVE x \in ToSet(q) \cup {t}
    <3>1. PICK k \in 1 .. (n + 1) : x = r[k]
      BY <1>8 DEF ToSet
    <3>2. CASE k < i
      <4>1. k \in 1 .. n /\ x = q[k]
        BY <3>1, <3>2, <1>1, <1>7
      <4>2. QED
        BY <4>1, <1>1 DEF ToSet
    <3>3. CASE k = i
      BY <3>1, <3>3, <1>1, <1>7
    <3>4. CASE k > i
      <4>1. k - 1 \in 1 .. n /\ x = q[k - 1]
        BY <3>1, <3>4, <1>1, <1>7
      <4>2. QED
        BY <4>1, <1>1 DEF ToSet
    <3>5. QED
      BY <3>2, <3>3, <3>4, <1>1
  <2>2. ASSUME NEW x \in ToSet(q) PROVE x \in ToSet(r)
    <3>1. PICK k \in 1 .. n : x = q[k]
      BY <1>1 DEF ToSet
    <3>2. CASE k < i
      <4>1. k \in 1 .. (n + 1) /\ r[k] = x
        BY <3>1, <3>2, <1>1, <1>7
      <4>2. QED
        BY <4>1, <1>8 DEF ToSet
    <3>3. CASE ~(k < i)
      <4>1. k + 1 \in 1 .. (n + 1) /\ (k + 1) - 1 = k /\ ~(k + 1 < i) /\ k + 1 # i
        BY <3>1, <3>3, <1>1
      <4>2. r[k + 1] = x
        BY <3>1, <4>1, <1>7
      <4>3. QED
        BY <4>1, <4>2, <1>8 DEF ToSet
    <3>4. QED
      BY <3>2, <3>3
  <2>3. t \in ToSet(r)
    <3>1. i \in 1 .. (n + 1) /\ r[i] = t
      BY <1>1, <1>7
    <3>2. QED
      BY <3>1, <1>8 DEF ToSet
  <2>4. QED
    BY <2>1, <2>2, <2>3
<1>10. \A k \in 1 .. n : q[k] # t
  BY <1>1 DEF ToSet
<1>11. IsInjective(r)
  <2> SUFFICES ASSUME NEW k \in 1 .. (n + 1), NEW l \in 1 .. (n + 1), r[k] = r[l]
               PROVE  k = l
    BY <1>8 DEF IsInjective
  <2> DEFINE at(x) == IF x < i THEN x ELSE x - 1
  <2>1. k # i => at(k) \in 1 .. n /\ r[k] = q[at(k)]
    BY <1>1, <1>7
  <2>2. l # i => at(l) \in 1 .. n /\ r[l] = q[at(l)]
    BY <1>1, <1>7
  <2>3. (k = i => r[k] = t) /\ (l = i => r[l] = t)
    BY <1>7
  <2>4. CASE k = i \/ l = i
    BY <2>1, <2>2, <2>3, <2>4, <1>10
  <2>5. CASE k # i /\ l # i
    <3>1. at(k) = at(l)
      BY <2>1, <2>2, <2>5, <1>1 DEF IsInjective
    <3>2. QED
      BY <3>1, <2>5, <1>1
  <2>6. QED
    BY <2>4, <2>5
<1>12. QED
  BY <1>7, <1>9, <1>11 DEF Y, r

-----------------------------------------------------------------------------
(* Lane zones and the main lane *)

Shape(d) == d = [order |-> d.order, tracks |-> d.tracks, clips |-> d.clips, pool |-> d.pool]

(* The part of IsDocument that is about lanes. *)
IsStacked(d) ==
  /\ Shape(d)
  /\ d.order \in Seq(Lanes(d)) /\ ToSet(d.order) = Lanes(d) /\ IsInjective(d.order)
  /\ IsTracks(d.tracks)

InZones(d) ==
  \A i, j \in DOMAIN d.order : i < j => Zone(d, d.order[i]) <= Zone(d, d.order[j])

OneMain(d) ==
  /\ MainTracks(d) \subseteq VideoLanes(d)
  /\ Cardinality(MainTracks(d)) = (IF VideoLanes(d) = {} THEN 0 ELSE 1)

(* e is d with other lanes or another order of them. *)
Restacked(d, e) == Shape(e) /\ e.clips = d.clips /\ e.pool = d.pool

LEMMA ReorderedFacts ==
  ASSUME NEW d, Shape(d), NEW q
  PROVE  LET e == [d EXCEPT !.order = q] IN
         /\ Shape(e) /\ e.order = q /\ e.tracks = d.tracks
         /\ e.clips = d.clips /\ e.pool = d.pool
<1> DEFINE r == [order |-> d.order, tracks |-> d.tracks, clips |-> d.clips, pool |-> d.pool]
<1>1. [r EXCEPT !.order = q]
        = [order |-> q, tracks |-> d.tracks, clips |-> d.clips, pool |-> d.pool]
  OBVIOUS
<1>2. [d EXCEPT !.order = q]
        = [order |-> q, tracks |-> d.tracks, clips |-> d.clips, pool |-> d.pool]
  BY <1>1 DEF Shape
<1>3. QED
  BY <1>2 DEF Shape

LEMMA RetrackedFacts ==
  ASSUME NEW d, Shape(d), NEW q
  PROVE  LET e == [d EXCEPT !.tracks = q] IN
         /\ Shape(e) /\ e.order = d.order /\ e.tracks = q
         /\ e.clips = d.clips /\ e.pool = d.pool
<1> DEFINE r == [order |-> d.order, tracks |-> d.tracks, clips |-> d.clips, pool |-> d.pool]
<1>1. [r EXCEPT !.tracks = q]
        = [order |-> d.order, tracks |-> q, clips |-> d.clips, pool |-> d.pool]
  OBVIOUS
<1>2. [d EXCEPT !.tracks = q]
        = [order |-> d.order, tracks |-> q, clips |-> d.clips, pool |-> d.pool]
  BY <1>1 DEF Shape
<1>3. QED
  BY <1>2 DEF Shape

LEMMA ReclippedFacts ==
  ASSUME NEW d, Shape(d), NEW q
  PROVE  LET e == [d EXCEPT !.clips = q] IN
         /\ Shape(e) /\ e.order = d.order /\ e.tracks = d.tracks
         /\ e.clips = q /\ e.pool = d.pool
<1> DEFINE r == [order |-> d.order, tracks |-> d.tracks, clips |-> d.clips, pool |-> d.pool]
<1>1. [r EXCEPT !.clips = q]
        = [order |-> d.order, tracks |-> d.tracks, clips |-> q, pool |-> d.pool]
  OBVIOUS
<1>2. [d EXCEPT !.clips = q]
        = [order |-> d.order, tracks |-> d.tracks, clips |-> q, pool |-> d.pool]
  BY <1>1 DEF Shape
<1>3. QED
  BY <1>2 DEF Shape

LEMMA RepooledFacts ==
  ASSUME NEW d, Shape(d), NEW q
  PROVE  LET e == [d EXCEPT !.pool = q] IN
         /\ Shape(e) /\ e.order = d.order /\ e.tracks = d.tracks
         /\ e.clips = d.clips /\ e.pool = q
<1> DEFINE r == [order |-> d.order, tracks |-> d.tracks, clips |-> d.clips, pool |-> d.pool]
<1>1. [r EXCEPT !.pool = q]
        = [order |-> d.order, tracks |-> d.tracks, clips |-> d.clips, pool |-> q]
  OBVIOUS
<1>2. [d EXCEPT !.pool = q]
        = [order |-> d.order, tracks |-> d.tracks, clips |-> d.clips, pool |-> q]
  BY <1>1 DEF Shape
<1>3. QED
  BY <1>2 DEF Shape

LEMMA TrackFacts ==
  ASSUME NEW d, IsTracks(d.tracks), NEW t \in Lanes(d)
  PROVE  /\ t \in TrackId /\ IsTrack(d.tracks[t])
         /\ d.tracks[t].kind \in Kind /\ d.tracks[t].main \in BOOLEAN
         /\ Zone(d, t) \in 0 .. 3
<1> DEFINE r == d.tracks[t]
<1>1. t \in TrackId /\ IsTrack(r)
  BY DEF IsTracks, IsPartial, Lanes
<1>2. r.kind \in Kind /\ r.main \in BOOLEAN
  BY <1>1 DEF IsTrack
<1> HIDE DEF r
<1>3. \/ r.kind = "audio"
      \/ r.kind # "audio" /\ r.main
      \/ r.kind = "text" /\ ~r.main
      \/ r.kind \notin {"audio", "text"} /\ ~r.main
  BY <1>2
<1>4. Zone(d, t) \in 0 .. 3
  BY <1>3 DEF Zone, r
<1>5. QED
  BY <1>1, <1>2, <1>4 DEF r

LEMMA EnforceFacts ==
  ASSUME NEW d, IsStacked(d)
  PROVE  LET e == EnforceLaneZones(d) IN
         IsStacked(e) /\ Restacked(d, e) /\ e.tracks = d.tracks /\ InZones(e)
<1> DEFINE L == Lanes(d)
           rank == [t \in L |-> Zone(d, t)]
           lane(z) == Among(d.order, InZone(d, z))
           e == EnforceLaneZones(d)
<1>1. d.order \in Seq(L) /\ ToSet(d.order) = L /\ IsInjective(d.order) /\ Shape(d)
  BY DEF IsStacked
<1>2. \A t \in L : Zone(d, t) \in 0 .. 3
  BY TrackFacts DEF IsStacked
<1>3. rank \in [L -> Nat]
  BY <1>2
<1>4. ASSUME NEW z
      PROVE  /\ lane(z) \in Seq(L) /\ IsInjective(lane(z)) /\ Neat(lane(z), rank)
             /\ ToSet(lane(z)) = InZone(d, z) /\ \A t \in ToSet(lane(z)) : t \in L /\ rank[t] = z
  <2> HIDE DEF lane
  <2>1. lane(z) \in Seq(L) /\ ToSet(lane(z)) = L \cap InZone(d, z) /\ IsInjective(lane(z))
    BY <1>1, AmongFacts DEF lane
  <2>2. ToSet(lane(z)) = InZone(d, z) /\ \A t \in ToSet(lane(z)) : t \in L /\ rank[t] = z
    BY <2>1 DEF InZone
  <2>3. \A i \in DOMAIN lane(z) : rank[lane(z)[i]] = z /\ lane(z)[i] \in L
    BY <2>2 DEF ToSet
  <2>4. \A i \in DOMAIN lane(z) : rank[lane(z)[i]] \in Nat
    BY <1>3, <2>3
  <2>5. \A i, j \in DOMAIN lane(z) : rank[lane(z)[i]] <= rank[lane(z)[j]]
    <3> TAKE i, j \in DOMAIN lane(z)
    <3>1. rank[lane(z)[i]] = rank[lane(z)[j]] /\ rank[lane(z)[i]] \in Nat
      BY <2>3, <2>4
    <3>2. QED
      BY <3>1
  <2>6. QED
    BY <2>1, <2>2, <2>5 DEF Neat
<1> HIDE DEF lane, rank
<1>5. LET q == lane(0) \o lane(1) IN
      q \in Seq(L) /\ ToSet(q) = InZone(d, 0) \cup InZone(d, 1) /\ Neat(q, rank)
  <2>1. /\ lane(0) \in Seq(L) /\ Neat(lane(0), rank) /\ ToSet(lane(0)) = InZone(d, 0)
        /\ lane(1) \in Seq(L) /\ Neat(lane(1), rank) /\ ToSet(lane(1)) = InZone(d, 1)
    BY <1>4
  <2>2. \A x \in ToSet(lane(0)), y \in ToSet(lane(1)) : rank[x] < rank[y]
    <3> TAKE x \in ToSet(lane(0)), y \in ToSet(lane(1))
    <3>1. rank[x] = 0 /\ rank[y] = 1
      BY <1>4
    <3>2. QED
      BY <3>1
  <2>3. QED
    BY <2>1, <2>2, <1>3, GlueFacts
<1>6. LET q == (lane(0) \o lane(1)) \o lane(2) IN
      q \in Seq(L) /\ ToSet(q) = (InZone(d, 0) \cup InZone(d, 1)) \cup InZone(d, 2) /\ Neat(q, rank)
  <2> DEFINE a == lane(0) \o lane(1)
  <2>1. a \in Seq(L) /\ ToSet(a) = InZone(d, 0) \cup InZone(d, 1) /\ Neat(a, rank)
    BY <1>5
  <2> HIDE DEF a
  <2>2. \A x \in ToSet(a), y \in ToSet(lane(2)) : rank[x] < rank[y]
    BY <1>4, <2>1
  <2>3. lane(2) \in Seq(L) /\ Neat(lane(2), rank) /\ ToSet(lane(2)) = InZone(d, 2)
    BY <1>4
  <2>4. LET q == a \o lane(2) IN
        q \in Seq(L) /\ ToSet(q) = ToSet(a) \cup ToSet(lane(2)) /\ Neat(q, rank)
    BY <1>3, <2>1, <2>2, <2>3, GlueFacts
  <2>5. QED
    BY <2>1, <2>3, <2>4 DEF a
<1>7. LET q == ((lane(0) \o lane(1)) \o lane(2)) \o lane(3) IN
      /\ q \in Seq(L) /\ Neat(q, rank)
      /\ ToSet(q) = ((InZone(d, 0) \cup InZone(d, 1)) \cup InZone(d, 2)) \cup InZone(d, 3)
  <2> DEFINE a == (lane(0) \o lane(1)) \o lane(2)
  <2>1. a \in Seq(L) /\ ToSet(a) = (InZone(d, 0) \cup InZone(d, 1)) \cup InZone(d, 2) /\ Neat(a, rank)
    BY <1>6
  <2> HIDE DEF a
  <2>2. \A x \in ToSet(a), y \in ToSet(lane(3)) : rank[x] < rank[y]
    BY <1>4, <2>1
  <2>3. lane(3) \in Seq(L) /\ Neat(lane(3), rank) /\ ToSet(lane(3)) = InZone(d, 3)
    BY <1>4
  <2>4. LET q == a \o lane(3) IN
        q \in Seq(L) /\ ToSet(q) = ToSet(a) \cup ToSet(lane(3)) /\ Neat(q, rank)
    BY <1>3, <2>1, <2>2, <2>3, GlueFacts
  <2>5. QED
    BY <2>1, <2>3, <2>4 DEF a
<1>8. ((InZone(d, 0) \cup InZone(d, 1)) \cup InZone(d, 2)) \cup InZone(d, 3) = L
  BY <1>2 DEF InZone
<1>9. /\ Shape(e) /\ e.tracks = d.tracks /\ e.clips = d.clips /\ e.pool = d.pool
      /\ e.order = ((lane(0) \o lane(1)) \o lane(2)) \o lane(3)
  BY <1>1, ReorderedFacts DEF EnforceLaneZones, lane
<1> HIDE DEF e
<1>10. e.order \in Seq(L) /\ ToSet(e.order) = L /\ Neat(e.order, rank)
  BY <1>7, <1>8, <1>9
<1>11. Lanes(e) = L /\ \A t \in L : Zone(e, t) = Zone(d, t)
  BY <1>9 DEF Lanes, Zone
<1>12. IsStacked(e) /\ Restacked(d, e)
  BY <1>9, <1>10, <1>11 DEF IsStacked, Restacked, Neat
<1>13. InZones(e)
  <2>1. \A i \in DOMAIN e.order : e.order[i] \in L
    BY <1>10, ListFacts
  <2>2. \A i \in DOMAIN e.order : rank[e.order[i]] = Zone(e, e.order[i])
    BY <2>1, <1>11 DEF rank
  <2>3. QED
    BY <1>10, <2>2 DEF Neat, InZones
<1>14. QED
  BY <1>9, <1>12, <1>13 DEF e

(* The lane that DesignateMain makes the main one.                          *)
Elected(d) ==
  LET videos == Among(d.order, VideoLanes(d))
  IN  Head(Among(videos, MainTracks(d)) \o videos)

LEMMA DesignateFacts ==
  ASSUME NEW d, IsStacked(d)
  PROVE  LET e == DesignateMain(d) IN
         /\ IsStacked(e) /\ Restacked(d, e) /\ e.order = d.order /\ Lanes(e) = Lanes(d)
         /\ \A t \in Lanes(d) : /\ e.tracks[t].kind = d.tracks[t].kind
                                /\ e.tracks[t].junctions = d.tracks[t].junctions
                                /\ e.tracks[t].main <=> t \in VideoLanes(d) /\ t = Elected(d)
         /\ OneMain(e)
<1> DEFINE L == Lanes(d)
           videos == Among(d.order, VideoLanes(d))
           claims == Among(videos, MainTracks(d))
           h == Head(claims \o videos)
           tracks == [t \in L |-> [d.tracks[t] EXCEPT !.main = t \in VideoLanes(d) /\ t = h]]
           e == DesignateMain(d)
<1>1. d.order \in Seq(L) /\ ToSet(d.order) = L /\ IsInjective(d.order) /\ Shape(d)
  BY DEF IsStacked
<1>2. videos \in Seq(L) /\ ToSet(videos) = VideoLanes(d)
  <2>1. videos \in Seq(L) /\ ToSet(videos) = L \cap VideoLanes(d)
    BY <1>1, AmongFacts
  <2>2. QED
    BY <2>1 DEF VideoLanes
<1>0. h = Elected(d)
  BY DEF Elected
<1> HIDE DEF videos
<1>3. claims \in Seq(L) /\ ToSet(claims) \subseteq VideoLanes(d)
  BY <1>2, AmongFacts
<1> HIDE DEF claims
<1>4. VideoLanes(d) # {} => h \in VideoLanes(d)
  <2> SUFFICES ASSUME VideoLanes(d) # {} PROVE h \in VideoLanes(d)
    OBVIOUS
  <2> DEFINE c == claims \o videos
  <2>1. /\ c \in Seq(L) /\ Len(c) = Len(claims) + Len(videos)
        /\ \A i \in 1 .. (Len(claims) + Len(videos)) :
             c[i] = IF i <= Len(claims) THEN claims[i] ELSE videos[i - Len(claims)]
    BY <1>2, <1>3, ConcatProperties
  <2>2. /\ Len(videos) \in Nat /\ DOMAIN videos = 1 .. Len(videos)
        /\ \A i \in DOMAIN videos : videos[i] \in ToSet(videos)
        /\ \A x \in ToSet(videos) : \E i \in DOMAIN videos : x = videos[i]
    BY <1>2, ListFacts
  <2>3. /\ Len(claims) \in Nat /\ DOMAIN claims = 1 .. Len(claims)
        /\ \A i \in DOMAIN claims : claims[i] \in ToSet(claims)
    BY <1>3, ListFacts
  <2>4. Len(videos) > 0
    BY <1>2, <2>2
  <2> HIDE DEF c
  <2>5. c[1] \in VideoLanes(d)
    <3>1. CASE Len(claims) = 0
      <4>1. c[1] = videos[1] /\ 1 \in DOMAIN videos
        BY <3>1, <2>1, <2>2, <2>4
      <4>2. QED
        BY <4>1, <1>2, <2>2
    <3>2. CASE Len(claims) > 0
      <4>1. c[1] = claims[1] /\ 1 \in DOMAIN claims
        BY <3>2, <2>1, <2>2, <2>3
      <4>2. QED
        BY <4>1, <1>3, <2>3
    <3>3. QED
      BY <3>1, <3>2, <2>3
  <2>6. c # << >>
    BY <2>1, <2>2, <2>3, <2>4, EmptySeq
  <2>7. Head(c) = c[1]
    BY <2>1, <2>6, HeadTailProperties
  <2>8. QED
    BY <2>5, <2>7 DEF c
<1>5. /\ Shape(e) /\ e.order = d.order /\ e.clips = d.clips /\ e.pool = d.pool
      /\ e.tracks = tracks
  <2>1. e = [d EXCEPT !.tracks = tracks]
    BY DEF DesignateMain, videos, claims, Lanes
  <2> HIDE DEF e, tracks
  <2>2. QED
    BY <2>1, <1>1, RetrackedFacts
<1> HIDE DEF e, h
<1>6. ASSUME NEW t \in L
      PROVE  LET m == t \in VideoLanes(d) /\ t = h
                 r == [kind |-> d.tracks[t].kind, main |-> m, junctions |-> d.tracks[t].junctions]
             IN  /\ tracks[t] = r /\ IsTrack(r)
                 /\ tracks[t].kind = d.tracks[t].kind /\ tracks[t].main = m
                 /\ tracks[t].junctions = d.tracks[t].junctions
  <2> DEFINE m == t \in VideoLanes(d) /\ t = h
             o == d.tracks[t]
  <2>1. IsTrack(o)
    BY TrackFacts DEF IsStacked
  <2>2. tracks[t] = [o EXCEPT !.main = m]
    OBVIOUS
  <2>3. m \in BOOLEAN
    OBVIOUS
  <2> HIDE DEF m, o, tracks
  <2>4. tracks[t] = [kind |-> o.kind, main |-> m, junctions |-> o.junctions]
    <3> DEFINE k == o.kind
               n == o.main
               j == o.junctions
    <3>1. o = [kind |-> k, main |-> n, junctions |-> j]
      BY <2>1 DEF IsTrack
    <3> HIDE DEF k, n, j
    <3>2. [o EXCEPT !.main = m] = [kind |-> k, main |-> m, junctions |-> j]
      BY <3>1
    <3>3. QED
      BY <3>2, <2>2 DEF k, j
  <2>5. IsTrack([kind |-> o.kind, main |-> m, junctions |-> o.junctions])
    BY <2>1, <2>3 DEF IsTrack
  <2>6. /\ tracks[t].kind = o.kind /\ tracks[t].main = m
        /\ tracks[t].junctions = o.junctions
    BY <2>4
  <2>7. QED
    BY <2>4, <2>5, <2>6 DEF m, o
<1>7. Lanes(e) = L /\ DOMAIN tracks = L /\ tracks = [t \in L |-> tracks[t]]
  BY <1>5 DEF Lanes
<1> HIDE DEF tracks
<1>8. IsTracks(e.tracks)
  <2>1. L \subseteq TrackId
    BY TrackFacts DEF IsStacked
  <2>2. QED
    BY <2>1, <1>5, <1>6, <1>7 DEF IsTracks, IsPartial
<1>9. \A t \in L : /\ e.tracks[t].kind = d.tracks[t].kind
                   /\ e.tracks[t].junctions = d.tracks[t].junctions
  BY <1>5, <1>6
<1>10. VideoLanes(e) = VideoLanes(d)
  BY <1>7, <1>9 DEF VideoLanes
<1>11. \A t \in L : e.tracks[t].main <=> (t \in VideoLanes(d) /\ t = h)
  BY <1>5, <1>6
<1>12. MainTracks(e) = IF VideoLanes(d) = {} THEN {} ELSE {h}
  BY <1>4, <1>7, <1>11 DEF MainTracks, VideoLanes
<1>13. OneMain(e)
  <2>1. Cardinality({}) = 0 /\ Cardinality({h}) = 1
    BY FS_EmptySet, FS_Singleton
  <2>2. QED
    BY <2>1, <1>4, <1>10, <1>12 DEF OneMain
<1>14. IsStacked(e) /\ Restacked(d, e)
  BY <1>1, <1>5, <1>7, <1>8 DEF IsStacked, Restacked
<1>15. QED
  BY <1>0, <1>5, <1>7, <1>9, <1>11, <1>13, <1>14 DEF e

LEMMA NormalizeFacts ==
  ASSUME NEW d, IsStacked(d)
  PROVE  LET e == NormalizeLanes(d) IN
         /\ IsStacked(e) /\ IsZoned(e) /\ Restacked(d, e) /\ Lanes(e) = Lanes(d)
         /\ \A t \in Lanes(d) : /\ e.tracks[t].kind = d.tracks[t].kind
                                /\ e.tracks[t].junctions = d.tracks[t].junctions
<1> DEFINE m == DesignateMain(d)
           e == EnforceLaneZones(m)
<1>1. /\ IsStacked(m) /\ Restacked(d, m) /\ OneMain(m) /\ Lanes(m) = Lanes(d)
      /\ \A t \in Lanes(d) : /\ m.tracks[t].kind = d.tracks[t].kind
                             /\ m.tracks[t].junctions = d.tracks[t].junctions
  BY DesignateFacts
<1> HIDE DEF m
<1>2. IsStacked(e) /\ Restacked(m, e) /\ e.tracks = m.tracks /\ InZones(e)
  BY <1>1, EnforceFacts
<1> HIDE DEF e
<1>3. MainTracks(e) = MainTracks(m) /\ VideoLanes(e) = VideoLanes(m) /\ Lanes(e) = Lanes(m)
  BY <1>2 DEF MainTracks, VideoLanes, Lanes
<1>4. IsZoned(e)
  BY <1>1, <1>2, <1>3 DEF IsZoned, InZones, OneMain
<1>5. Restacked(d, e)
  BY <1>1, <1>2 DEF Restacked
<1>6. QED
  BY <1>1, <1>2, <1>3, <1>4, <1>5 DEF NormalizeLanes, e, m

-----------------------------------------------------------------------------
(* Inserting, dropping and moving lanes *)

(* The lanes before they are put in their zones again.                      *)
WithLane(d, t, track, index) ==
  [d EXCEPT !.order = InsertedAt(@, index, t),
            !.tracks = [x \in DOMAIN @ \cup {t} |-> IF x = t THEN track ELSE @[x]]]

WithoutLane(d, t) ==
  [d EXCEPT
     !.order = Among(@, Lanes(d) \ {t}),
     !.tracks = Restrict(@, DOMAIN @ \ {t}),
     !.clips = Restrict(@, {c \in DOMAIN @ : @[c].track # t})]

LEMMA WithLaneFacts ==
  ASSUME NEW d, IsStacked(d), NEW t \in TrackId, t \notin Lanes(d),
         NEW track, IsTrack(track), NEW index \in Nat \ {0}
  PROVE  LET m == WithLane(d, t, track, index) IN
         /\ InsertTrack(d, t, track, index) = NormalizeLanes(m)
         /\ IsStacked(m) /\ Restacked(d, m) /\ Lanes(m) = Lanes(d) \cup {t}
         /\ m.order = InsertedAt(d.order, index, t)
         /\ m.tracks[t] = track /\ \A u \in Lanes(d) : m.tracks[u] = d.tracks[u]
<1> DEFINE L == Lanes(d)
           q == InsertedAt(d.order, index, t)
           r == [x \in L \cup {t} |-> IF x = t THEN track ELSE d.tracks[x]]
           m == WithLane(d, t, track, index)
<1>1. d.order \in Seq(L) /\ ToSet(d.order) = L /\ IsInjective(d.order) /\ Shape(d)
  BY DEF IsStacked
<1>2. q \in Seq(L \cup {t}) /\ ToSet(q) = L \cup {t} /\ IsInjective(q)
  BY <1>1, InsertFacts
<1>3. DOMAIN r = L \cup {t} /\ r = [x \in DOMAIN r |-> r[x]]
  OBVIOUS
<1>4. r[t] = track /\ \A u \in L : r[u] = d.tracks[u]
  OBVIOUS
<1>5. \A u \in L : u \in TrackId /\ IsTrack(d.tracks[u])
  BY TrackFacts DEF IsStacked
<1>6. m = [d EXCEPT !.order = q, !.tracks = r]
  BY DEF WithLane, Lanes
<1> HIDE DEF q, r, m
<1>7. IsTracks(r)
  BY <1>3, <1>4, <1>5 DEF IsTracks, IsPartial
<1>8. /\ Shape(m) /\ m.order = q /\ m.tracks = r
      /\ m.clips = d.clips /\ m.pool = d.pool
  <2> DEFINE a == [d EXCEPT !.order = q]
  <2>1. m = [a EXCEPT !.tracks = r]
    BY <1>6
  <2>2. /\ Shape(a) /\ a.order = q /\ a.tracks = d.tracks
        /\ a.clips = d.clips /\ a.pool = d.pool
    BY <1>1, ReorderedFacts
  <2> HIDE DEF a
  <2>3. QED
    BY <2>1, <2>2, RetrackedFacts
<1>9. IsStacked(m) /\ Lanes(m) = L \cup {t}
  BY <1>2, <1>3, <1>7, <1>8 DEF IsStacked, Lanes
<1>10. InsertTrack(d, t, track, index) = NormalizeLanes(m)
  BY DEF InsertTrack, WithLane, m
<1>11. QED
  BY <1>4, <1>8, <1>9, <1>10 DEF m, q, Restacked

LEMMA InsertTrackFacts ==
  ASSUME NEW d, IsStacked(d), NEW t \in TrackId, t \notin Lanes(d),
         NEW track, IsTrack(track), NEW index \in Nat \ {0}
  PROVE  LET e == InsertTrack(d, t, track, index) IN
         /\ IsStacked(e) /\ IsZoned(e) /\ Restacked(d, e)
         /\ Lanes(e) = Lanes(d) \cup {t}
         /\ \A u \in Lanes(d) : /\ e.tracks[u].kind = d.tracks[u].kind
                                /\ e.tracks[u].junctions = d.tracks[u].junctions
         /\ e.tracks[t].kind = track.kind /\ e.tracks[t].junctions = track.junctions
<1> DEFINE m == WithLane(d, t, track, index)
           e == NormalizeLanes(m)
<1>1. /\ InsertTrack(d, t, track, index) = e
      /\ IsStacked(m) /\ Restacked(d, m) /\ Lanes(m) = Lanes(d) \cup {t}
      /\ m.tracks[t] = track /\ \A u \in Lanes(d) : m.tracks[u] = d.tracks[u]
  BY WithLaneFacts
<1> HIDE DEF m
<1>2. /\ IsStacked(e) /\ IsZoned(e) /\ Restacked(m, e) /\ Lanes(e) = Lanes(m)
      /\ \A u \in Lanes(m) : /\ e.tracks[u].kind = m.tracks[u].kind
                             /\ e.tracks[u].junctions = m.tracks[u].junctions
  BY <1>1, NormalizeFacts
<1> HIDE DEF e
<1>3. Restacked(d, e)
  BY <1>1, <1>2 DEF Restacked
<1>4. QED
  BY <1>1, <1>2, <1>3

(* What a lane lost leaves in zones. *)
LEMMA FewerInZones ==
  ASSUME NEW d, IsStacked(d), InZones(d), NEW e, NEW S,
         e.order = Among(d.order, S), \A t \in S : Zone(e, t) = Zone(d, t)
  PROVE  InZones(e)
<1> DEFINE a == Among(d.order, S)
           q == d.order
<1>1. q \in Seq(Lanes(d)) /\ DOMAIN q = 1 .. Len(q)
  BY ListFacts DEF IsStacked
<1>2. a \in Seq(Lanes(d)) /\ Picks(a, q, S, Len(q)) /\ DOMAIN a = 1 .. Len(a)
  BY <1>1, AmongPicks, ListFacts
<1> HIDE DEF a
<1>3. PICK p \in [1 .. Len(a) -> 1 .. Len(q)] :
        /\ \A k \in 1 .. Len(a) : a[k] = q[p[k]] /\ q[p[k]] \in S
        /\ \A k, l \in 1 .. Len(a) : k < l => p[k] < p[l]
  BY <1>2 DEF Picks
<1>4. ASSUME NEW i \in 1 .. Len(a), NEW j \in 1 .. Len(a), i < j
      PROVE  Zone(e, a[i]) <= Zone(e, a[j])
  <2>1. p[i] \in DOMAIN q /\ p[j] \in DOMAIN q /\ p[i] < p[j]
    BY <1>1, <1>3, <1>4
  <2>2. Zone(d, q[p[i]]) <= Zone(d, q[p[j]])
    BY <2>1 DEF InZones
  <2>3. a[i] = q[p[i]] /\ a[j] = q[p[j]] /\ a[i] \in S /\ a[j] \in S
    BY <1>3, <1>4
  <2>4. Zone(e, a[i]) = Zone(d, a[i]) /\ Zone(e, a[j]) = Zone(d, a[j])
    BY <2>3
  <2>5. QED
    BY <2>2, <2>3, <2>4
<1>5. QED
  BY <1>2, <1>4 DEF InZones, a

HeldElsewhere(d, t) == Restrict(d.clips, {c \in Placed(d) : d.clips[c].track # t})

LEMMA WithoutLaneFacts ==
  ASSUME NEW d, IsStacked(d), NEW t \in Lanes(d)
  PROVE  LET m == WithoutLane(d, t) IN
         /\ DropTrack(d, t) = IF d.tracks[t].main THEN NormalizeLanes(m) ELSE m
         /\ IsStacked(m) /\ Lanes(m) = Lanes(d) \ {t}
         /\ m.order = Among(d.order, Lanes(d) \ {t}) /\ m.pool = d.pool
         /\ m.clips = HeldElsewhere(d, t)
         /\ \A u \in Lanes(m) : m.tracks[u] = d.tracks[u] /\ Zone(m, u) = Zone(d, u)
<1> DEFINE L == Lanes(d) \ {t}
           q == Among(d.order, L)
           r == Restrict(d.tracks, L)
           s == Restrict(d.clips, {c \in Placed(d) : d.clips[c].track # t})
           m == WithoutLane(d, t)
<1>1. /\ d.order \in Seq(Lanes(d)) /\ ToSet(d.order) = Lanes(d)
      /\ IsInjective(d.order) /\ Shape(d)
  BY DEF IsStacked
<1>2. q \in Seq(L) /\ ToSet(q) = L /\ IsInjective(q)
  <2>1. q \in Seq(Lanes(d)) /\ ToSet(q) = Lanes(d) \cap L /\ IsInjective(q)
    BY <1>1, AmongFacts
  <2>2. ToSet(q) = L
    BY <2>1
  <2> HIDE DEF q, L
  <2>3. DOMAIN q = 1 .. Len(q) /\ Len(q) \in Nat /\ \A i \in DOMAIN q : q[i] \in ToSet(q)
    BY <2>1, ListFacts
  <2>4. q = [i \in 1 .. Len(q) |-> q[i]]
    BY <2>1
  <2>5. q \in Seq(L)
    BY <2>2, <2>3, <2>4, SeqDef
  <2>6. QED
    BY <2>1, <2>2, <2>5
<1>3. DOMAIN r = L /\ r = [x \in L |-> d.tracks[x]]
  BY DEF Restrict
<1>4. m = [d EXCEPT !.order = q, !.tracks = r, !.clips = s]
  BY DEF WithoutLane, Lanes, Placed
<1>5. \A u \in L : u \in TrackId /\ IsTrack(d.tracks[u])
  BY TrackFacts DEF IsStacked
<1> HIDE DEF q, r, s, m
<1>6. IsTracks(r)
  BY <1>3, <1>5 DEF IsTracks, IsPartial
<1>7. /\ Shape(m) /\ m.order = q /\ m.tracks = r
      /\ m.clips = s /\ m.pool = d.pool
  <2> DEFINE a == [d EXCEPT !.order = q]
             b == [a EXCEPT !.tracks = r]
  <2>1. m = [b EXCEPT !.clips = s]
    BY <1>4
  <2>2. /\ Shape(a) /\ a.order = q /\ a.tracks = d.tracks
        /\ a.clips = d.clips /\ a.pool = d.pool
    BY <1>1, ReorderedFacts
  <2> HIDE DEF a
  <2>3. /\ Shape(b) /\ b.order = q /\ b.tracks = r
        /\ b.clips = d.clips /\ b.pool = d.pool
    BY <2>2, RetrackedFacts
  <2> HIDE DEF b
  <2>4. QED
    BY <2>1, <2>3, ReclippedFacts
<1>8. IsStacked(m) /\ Lanes(m) = L
  BY <1>2, <1>3, <1>6, <1>7 DEF IsStacked, Lanes
<1>9. \A u \in L : m.tracks[u] = d.tracks[u] /\ Zone(m, u) = Zone(d, u)
  BY <1>3, <1>7 DEF Zone
<1>10. DropTrack(d, t) = IF d.tracks[t].main THEN NormalizeLanes(m) ELSE m
  BY DEF DropTrack, WithoutLane, m
<1>11. QED
  BY <1>7, <1>8, <1>9, <1>10 DEF m, q, s, L, HeldElsewhere

LEMMA DropTrackFacts ==
  ASSUME NEW d, IsStacked(d), NEW t \in Lanes(d)
  PROVE  LET e == DropTrack(d, t) IN
         /\ IsStacked(e) /\ Lanes(e) = Lanes(d) \ {t}
         /\ e.clips = Restrict(d.clips, {c \in Placed(d) : d.clips[c].track # t})
         /\ e.pool = d.pool
         /\ \A u \in Lanes(e) : /\ e.tracks[u].kind = d.tracks[u].kind
                                /\ e.tracks[u].junctions = d.tracks[u].junctions
         /\ IsZoned(d) => IsZoned(e)
<1> DEFINE L == Lanes(d) \ {t}
           s == HeldElsewhere(d, t)
           m == WithoutLane(d, t)
           e == DropTrack(d, t)
<1>4. e = IF d.tracks[t].main THEN NormalizeLanes(m) ELSE m
  BY WithoutLaneFacts
<1>8. IsStacked(m) /\ Lanes(m) = L
  BY WithoutLaneFacts
<1>7. m.order = Among(d.order, L) /\ m.clips = s /\ m.pool = d.pool
  <2>1. m.order = Among(d.order, L) /\ m.pool = d.pool
    BY WithoutLaneFacts
  <2>2. m.clips = s
    BY WithoutLaneFacts
  <2>3. QED
    BY <2>1, <2>2
<1>9. \A u \in L : m.tracks[u] = d.tracks[u] /\ Zone(m, u) = Zone(d, u)
  BY <1>8, WithoutLaneFacts
<1> HIDE DEF s, m, e
<1>10. CASE d.tracks[t].main
  <2> DEFINE n == NormalizeLanes(m)
  <2>1. /\ IsStacked(n) /\ IsZoned(n) /\ Restacked(m, n) /\ Lanes(n) = Lanes(m)
        /\ \A u \in Lanes(m) : /\ n.tracks[u].kind = m.tracks[u].kind
                               /\ n.tracks[u].junctions = m.tracks[u].junctions
    BY <1>8, NormalizeFacts
  <2>2. e = n
    BY <1>4, <1>10
  <2> HIDE DEF n
  <2>3. n.clips = s /\ n.pool = d.pool
    BY <2>1, <1>7 DEF Restacked
  <2>4. QED
    BY <2>1, <2>2, <2>3, <1>8, <1>9 DEF e, s, HeldElsewhere
<1>11. CASE ~d.tracks[t].main
  <2>1. e = m
    BY <1>4, <1>11
  <2>2. ASSUME IsZoned(d) PROVE IsZoned(m)
    <3>1. InZones(d) /\ OneMain(d)
      BY <2>2 DEF IsZoned, InZones, OneMain
    <3>2. InZones(m)
      BY <3>1, <1>7, <1>9, FewerInZones
    <3>3. MainTracks(m) = MainTracks(d)
      BY <1>8, <1>9, <1>11 DEF MainTracks
    <3>4. VideoLanes(m) = VideoLanes(d) \ {t}
      BY <1>8, <1>9 DEF VideoLanes
    <3>5. MainTracks(m) \subseteq VideoLanes(m)
      BY <3>1, <3>3, <3>4, <1>11 DEF OneMain, MainTracks
    <3>6. Cardinality(MainTracks(m)) = (IF VideoLanes(m) = {} THEN 0 ELSE 1)
      <4>1. CASE VideoLanes(d) = {}
        BY <4>1, <3>1, <3>3, <3>4 DEF OneMain
      <4>2. CASE VideoLanes(d) # {}
        <5>1. MainTracks(m) # {}
          BY <4>2, <3>1, <3>3, FS_EmptySet DEF OneMain
        <5>2. VideoLanes(m) # {}
          BY <5>1, <3>5
        <5>3. QED
          BY <4>2, <5>2, <3>1, <3>3 DEF OneMain
      <4>3. QED
        BY <4>1, <4>2
    <3>7. QED
      BY <3>2, <3>5, <3>6 DEF IsZoned, InZones
  <2>3. QED
    BY <2>1, <2>2, <1>7, <1>8, <1>9 DEF e, s, HeldElsewhere
<1>12. QED
  BY <1>10, <1>11

LEMMA ReorderFacts ==
  ASSUME NEW d, IsStacked(d), NEW t \in Lanes(d), NEW index \in Nat \ {0}
  PROVE  LET e == Reorder(d, t, index) IN
         /\ IsStacked(e) /\ Restacked(d, e) /\ e.tracks = d.tracks
         /\ IsZoned(d) => IsZoned(e)
<1> DEFINE L == Lanes(d) \ {t}
           q == InsertedAt(Among(d.order, L), index, t)
           m == [d EXCEPT !.order = q]
           n == EnforceLaneZones(m)
           e == Reorder(d, t, index)
<1>1. /\ d.order \in Seq(Lanes(d)) /\ ToSet(d.order) = Lanes(d)
      /\ IsInjective(d.order) /\ Shape(d)
  BY DEF IsStacked
<1>2. e = IF IndexOf(d, t) = index THEN d ELSE n
  BY DEF Reorder
<1>3. /\ Among(d.order, L) \in Seq(Lanes(d)) /\ ToSet(Among(d.order, L)) = L
      /\ IsInjective(Among(d.order, L))
  <2>1. /\ Among(d.order, L) \in Seq(Lanes(d)) /\ ToSet(Among(d.order, L)) = Lanes(d) \cap L
        /\ IsInjective(Among(d.order, L))
    BY <1>1, AmongFacts
  <2>2. QED
    BY <2>1
<1>4. q \in Seq(Lanes(d)) /\ ToSet(q) = Lanes(d) /\ IsInjective(q)
  <2>1. t \notin L /\ L \cup {t} = Lanes(d) /\ Lanes(d) \cup {t} = Lanes(d)
    OBVIOUS
  <2> HIDE DEF L
  <2>2. /\ q \in Seq(Lanes(d) \cup {t}) /\ ToSet(q) = ToSet(Among(d.order, L)) \cup {t}
        /\ IsInjective(q)
    BY <1>3, <2>1, InsertFacts
  <2>3. QED
    BY <1>3, <2>1, <2>2
<1> HIDE DEF q
<1>5. /\ Shape(m) /\ m.order = q /\ m.tracks = d.tracks
      /\ m.clips = d.clips /\ m.pool = d.pool
  BY <1>1, ReorderedFacts
<1> HIDE DEF m
<1>6. IsStacked(m) /\ Lanes(m) = Lanes(d)
  BY <1>4, <1>5 DEF IsStacked, Lanes
<1>7. IsStacked(n) /\ Restacked(m, n) /\ n.tracks = m.tracks /\ InZones(n)
  BY <1>6, EnforceFacts
<1> HIDE DEF n
<1>8. IsZoned(d) => IsZoned(n)
  <2>1. MainTracks(n) = MainTracks(d) /\ VideoLanes(n) = VideoLanes(d)
    BY <1>5, <1>7 DEF MainTracks, VideoLanes, Lanes
  <2>2. QED
    BY <2>1, <1>7 DEF IsZoned, InZones
<1>9. Restacked(d, n) /\ Restacked(d, d)
  BY <1>1, <1>5, <1>7 DEF Restacked
<1>10. QED
  BY <1>2, <1>5, <1>7, <1>8, <1>9 DEF e

LEMMA IndexOfFacts ==
  ASSUME NEW d, IsStacked(d), NEW t \in Lanes(d)
  PROVE  IndexOf(d, t) \in Nat \ {0} /\ IndexOf(d, t) \in DOMAIN d.order
         /\ d.order[IndexOf(d, t)] = t
<1>1. DOMAIN d.order = 1 .. Len(d.order) /\ \E i \in DOMAIN d.order : t = d.order[i]
  BY ListFacts DEF IsStacked
<1>2. IndexOf(d, t) \in DOMAIN d.order /\ d.order[IndexOf(d, t)] = t
  BY <1>1 DEF IndexOf
<1>3. QED
  BY <1>1, <1>2

-----------------------------------------------------------------------------
(* Documents and scripts whose ids were handed out *)

(* What an edit of d returns. *)
IsOutcome(r, d, C, T, M) ==
  /\ r.ok \in BOOLEAN
  /\ Within(r.doc, C, T, M)
  /\ IsZoned(d) => IsZoned(r.doc)
  /\ AreSteps(r.inverse, C, T, M)
  /\ r.ok => r.inverse # << >>

LEMMA StackedFacts ==
  ASSUME NEW d
  PROVE  IsDocument(d) <=>
           /\ IsStacked(d) /\ IsClips(d.clips) /\ d.pool \subseteq Media
           /\ \A c \in Placed(d) : d.clips[c].track \in Lanes(d)
  BY DEF IsDocument, IsStacked, Shape

LEMMA NoSteps ==
  ASSUME NEW C, NEW T, NEW M
  PROVE  AreSteps(<< >>, C, T, M)
<1>1. ToSet(<< >>) = {}
  BY DEF ToSet
<1>2. << >> \in Seq({})
  BY EmptySeq
<1>3. QED
  BY <1>1, <1>2 DEF AreSteps

LEMMA OneStep ==
  ASSUME NEW C, NEW T, NEW M, NEW s, IsStep(s, C, T, M)
  PROVE  AreSteps(<<s>>, C, T, M) /\ <<s>> # << >>
<1>1. <<s>> \in Seq({s})
  OBVIOUS
<1>2. ToSet(<<s>>) = {s}
  BY DEF ToSet
<1>3. QED
  BY <1>1, <1>2 DEF AreSteps

LEMMA MoreSteps ==
  ASSUME NEW C, NEW T, NEW M, NEW p, NEW q, AreSteps(p, C, T, M), AreSteps(q, C, T, M)
  PROVE  AreSteps(p \o q, C, T, M) /\ (p # << >> \/ q # << >> => p \o q # << >>)
<1> DEFINE X == ToSet(p) \cup ToSet(q)
<1>1. p \in Seq(X) /\ q \in Seq(X) /\ \A s \in X : IsStep(s, C, T, M)
  BY SeqMonotonic DEF AreSteps
<1> HIDE DEF X
<1>2. p \o q \in Seq(X)
  BY <1>1, ConcatProperties
<1> DEFINE r == p \o q
<1> HIDE DEF r
<1>3. r \in Seq(X)
  BY <1>2 DEF r
<1>4. r = [i \in 1 .. Len(r) |-> r[i]] /\ Len(r) \in Nat /\ DOMAIN r = 1 .. Len(r)
      /\ \A i \in DOMAIN r : r[i] \in ToSet(r) /\ r[i] \in X
  BY <1>3, ListFacts
<1>5. r \in Seq(ToSet(r))
  BY <1>4, SeqDef
<1>6. \A s \in ToSet(r) : s \in X
  BY <1>4 DEF ToSet
<1>7. AreSteps(r, C, T, M)
  BY <1>1, <1>5, <1>6 DEF AreSteps
<1>8. p # << >> \/ q # << >> => r # << >>
  <2>1. r = << >> <=> p = << >> /\ q = << >>
    BY <1>1, ConcatEqualIffEmpty DEF r
  <2>2. QED
    BY <2>1
<1>9. QED
  BY <1>7, <1>8 DEF r

LEMMA LeafOutcome ==
  ASSUME NEW C, NEW T, NEW M, NEW d, NEW e, Within(e, C, T, M), IsZoned(d) => IsZoned(e)
  PROVE  /\ IsOutcome(Rejected(e), d, C, T, M)
         /\ \A s : IsStep(s, C, T, M) => IsOutcome(Accepted(e, <<s>>), d, C, T, M)
  BY NoSteps, OneStep DEF IsOutcome, Rejected, Accepted

LEMMA TryOutcome ==
  ASSUME NEW C, NEW T, NEW M, NEW d, NEW e, NEW f, NEW guard \in BOOLEAN, NEW s,
         Within(e, C, T, M), IsZoned(d) => IsZoned(e),
         guard => /\ Within(f, C, T, M) /\ (IsZoned(d) => IsZoned(f))
                  /\ IsStep(s, C, T, M)
  PROVE  IsOutcome(Try(guard, e, f, s), d, C, T, M)
<1>1. CASE guard
  BY <1>1, LeafOutcome DEF Try
<1>2. CASE ~guard
  BY <1>2, LeafOutcome DEF Try
<1>3. QED
  BY <1>1, <1>2

(* A change of clips only. *)
LEMMA ReclipWithin ==
  ASSUME NEW C \in SUBSET ClipId, NEW T, NEW M, NEW d, Within(d, C, T, M), NEW f,
         IsPartial(f, C), \A c \in DOMAIN f : f[c] \in Clip /\ f[c].track \in Lanes(d)
  PROVE  LET e == [d EXCEPT !.clips = f] IN
         /\ Within(e, C, T, M) /\ (IsZoned(d) <=> IsZoned(e))
         /\ e.clips = f /\ e.tracks = d.tracks /\ Lanes(e) = Lanes(d) /\ e.pool = d.pool
<1> DEFINE e == [d EXCEPT !.clips = f]
<1>1. IsStacked(d) /\ d.pool \subseteq Media
  BY StackedFacts DEF Within
<1>2. /\ Shape(e) /\ e.order = d.order /\ e.tracks = d.tracks
      /\ e.clips = f /\ e.pool = d.pool
  BY <1>1, ReclippedFacts DEF IsStacked
<1> HIDE DEF e
<1>3. IsStacked(e) /\ Lanes(e) = Lanes(d)
  BY <1>1, <1>2 DEF IsStacked, Lanes
<1>4. IsClips(e.clips) /\ Placed(e) \subseteq C /\ \A c \in Placed(e) : e.clips[c].track \in Lanes(e)
  BY <1>2, <1>3 DEF IsClips, IsPartial, Placed
<1>5. Within(e, C, T, M)
  BY <1>1, <1>2, <1>3, <1>4, StackedFacts DEF Within
<1>6. IsZoned(d) <=> IsZoned(e)
  BY <1>2, <1>3 DEF IsZoned, Zone, MainTracks, VideoLanes
<1>7. QED
  BY <1>2, <1>3, <1>5, <1>6 DEF e

LEMMA PlacedFacts ==
  ASSUME NEW C, NEW T, NEW M, NEW d, Within(d, C, T, M), NEW c \in Placed(d)
  PROVE  /\ c \in C /\ c \in ClipId /\ d.clips[c] \in Clip /\ d.clips[c].track \in Lanes(d)
         /\ c \in DOMAIN d.clips
  BY DEF Within, IsDocument, IsClips, IsPartial, Placed

LEMMA WithClipWithin ==
  ASSUME NEW C \in SUBSET ClipId, NEW T, NEW M, NEW d, Within(d, C, T, M),
         NEW c \in C, NEW k \in Clip, k.track \in Lanes(d)
  PROVE  LET e == WithClip(d, c, k) IN
         /\ Within(e, C, T, M) /\ (IsZoned(d) <=> IsZoned(e))
         /\ Placed(e) = Placed(d) \cup {c} /\ e.clips[c] = k
         /\ \A x \in Placed(d) \ {c} : e.clips[x] = d.clips[x]
         /\ e.tracks = d.tracks /\ Lanes(e) = Lanes(d) /\ e.pool = d.pool
<1> DEFINE f == [x \in Placed(d) \cup {c} |-> IF x = c THEN k ELSE d.clips[x]]
<1>1. WithClip(d, c, k) = [d EXCEPT !.clips = f]
  BY DEF WithClip, Placed
<1>2. DOMAIN f = Placed(d) \cup {c} /\ f = [x \in DOMAIN f |-> f[x]] /\ f[c] = k
      /\ \A x \in Placed(d) \ {c} : f[x] = d.clips[x]
  OBVIOUS
<1> HIDE DEF f
<1>3. IsPartial(f, C) /\ \A x \in DOMAIN f : f[x] \in Clip /\ f[x].track \in Lanes(d)
  <2>1. \A x \in Placed(d) : x \in C /\ d.clips[x] \in Clip /\ d.clips[x].track \in Lanes(d)
    BY PlacedFacts
  <2>2. QED
    BY <1>2, <2>1 DEF IsPartial
<1>4. LET e == [d EXCEPT !.clips = f] IN
      /\ Within(e, C, T, M) /\ (IsZoned(d) <=> IsZoned(e))
      /\ e.clips = f /\ e.tracks = d.tracks /\ Lanes(e) = Lanes(d) /\ e.pool = d.pool
  BY <1>3, ReclipWithin
<1>5. QED
  BY <1>1, <1>2, <1>4 DEF Placed

LEMMA WithoutClipWithin ==
  ASSUME NEW C \in SUBSET ClipId, NEW T, NEW M, NEW d, Within(d, C, T, M), NEW c
  PROVE  LET e == WithoutClip(d, c) IN
         /\ Within(e, C, T, M) /\ (IsZoned(d) <=> IsZoned(e))
         /\ Placed(e) = Placed(d) \ {c} /\ \A x \in Placed(e) : e.clips[x] = d.clips[x]
         /\ e.tracks = d.tracks /\ Lanes(e) = Lanes(d) /\ e.pool = d.pool
<1> DEFINE f == [x \in Placed(d) \ {c} |-> d.clips[x]]
<1>1. WithoutClip(d, c) = [d EXCEPT !.clips = f]
  BY DEF WithoutClip, Placed, Restrict
<1>2. DOMAIN f = Placed(d) \ {c} /\ f = [x \in DOMAIN f |-> f[x]]
      /\ \A x \in Placed(d) \ {c} : f[x] = d.clips[x]
  OBVIOUS
<1> HIDE DEF f
<1>3. IsPartial(f, C) /\ \A x \in DOMAIN f : f[x] \in Clip /\ f[x].track \in Lanes(d)
  <2>1. \A x \in Placed(d) : x \in C /\ d.clips[x] \in Clip /\ d.clips[x].track \in Lanes(d)
    BY PlacedFacts
  <2>2. QED
    BY <1>2, <2>1 DEF IsPartial
<1>4. LET e == [d EXCEPT !.clips = f] IN
      /\ Within(e, C, T, M) /\ (IsZoned(d) <=> IsZoned(e))
      /\ e.clips = f /\ e.tracks = d.tracks /\ Lanes(e) = Lanes(d) /\ e.pool = d.pool
  BY <1>3, ReclipWithin
<1>5. QED
  BY <1>1, <1>2, <1>4 DEF Placed

LEMMA OnLane ==
  ASSUME NEW k \in Clip, NEW t \in TrackId
  PROVE  [k EXCEPT !.track = t] \in Clip /\ [k EXCEPT !.track = t].track = t
  BY DEF Clip

LEMMA AtTick ==
  ASSUME NEW k \in Clip, NEW s \in Int
  PROVE  /\ [k EXCEPT !.start = s] \in Clip /\ [k EXCEPT !.start = s].track = k.track
         /\ [k EXCEPT !.start = s].start = s
  BY DEF Clip

LEMMA ShiftedWithin ==
  ASSUME NEW C \in SUBSET ClipId, NEW T, NEW M, NEW d, Within(d, C, T, M),
         NEW t, NEW from \in Int, NEW delta \in Int
  PROVE  LET e == Shifted(d, t, from, delta)
             at(x) == d.clips[x].start + (IF x \in AtOrAfter(d, t, from) THEN delta ELSE 0)
         IN
         /\ Within(e, C, T, M) /\ (IsZoned(d) <=> IsZoned(e))
         /\ Placed(e) = Placed(d)
         /\ \A x \in Placed(d) : e.clips[x] = [d.clips[x] EXCEPT !.start = at(x)]
         /\ e.tracks = d.tracks /\ Lanes(e) = Lanes(d) /\ e.pool = d.pool
<1> DEFINE at(x) == d.clips[x].start + (IF x \in AtOrAfter(d, t, from) THEN delta ELSE 0)
           g(x) == [d.clips[x] EXCEPT !.start = at(x)]
           f == [x \in Placed(d) |-> g(x)]
<1>1. Shifted(d, t, from, delta) = [d EXCEPT !.clips = f]
  BY DEF Shifted, Placed
<1>2. ASSUME NEW x \in Placed(d)
      PROVE  x \in C /\ g(x) \in Clip /\ g(x).track \in Lanes(d)
  <2>1. x \in C /\ d.clips[x] \in Clip /\ d.clips[x].track \in Lanes(d)
    BY PlacedFacts
  <2>2. at(x) \in Int /\ d.clips[x].track \in TrackId
    BY <2>1 DEF Clip
  <2> HIDE DEF at
  <2>3. g(x) \in Clip /\ g(x).track = d.clips[x].track
    BY <2>1, <2>2, AtTick
  <2>4. QED
    BY <2>1, <2>3
<1>3. DOMAIN f = Placed(d) /\ f = [x \in DOMAIN f |-> f[x]]
      /\ \A x \in Placed(d) : f[x] = g(x)
  OBVIOUS
<1> HIDE DEF f, g
<1>4. IsPartial(f, C) /\ \A x \in DOMAIN f : f[x] \in Clip /\ f[x].track \in Lanes(d)
  BY <1>2, <1>3 DEF IsPartial
<1>5. LET e == [d EXCEPT !.clips = f] IN
      /\ Within(e, C, T, M) /\ (IsZoned(d) <=> IsZoned(e))
      /\ e.clips = f /\ e.tracks = d.tracks /\ Lanes(e) = Lanes(d) /\ e.pool = d.pool
  BY <1>4, ReclipWithin
<1>6. QED
  BY <1>1, <1>3, <1>5 DEF Placed, g

-----------------------------------------------------------------------------
(* Transitions *)

LEMMA RejoinedTrack ==
  ASSUME NEW r, IsTrack(r), NEW js
  PROVE  LET s == [r EXCEPT !.junctions = js] IN
         /\ s = [kind |-> r.kind, main |-> r.main, junctions |-> js]
         /\ s.kind = r.kind /\ s.main = r.main /\ s.junctions = js
         /\ IsJunctions(js) => IsTrack(s)
<1> DEFINE k == r.kind
           m == r.main
           j == r.junctions
<1>1. r = [kind |-> k, main |-> m, junctions |-> j] /\ k \in Kind /\ m \in BOOLEAN
  BY DEF IsTrack
<1> HIDE DEF k, m, j
<1>2. [r EXCEPT !.junctions = js] = [kind |-> k, main |-> m, junctions |-> js]
  BY <1>1
<1>3. QED
  BY <1>1, <1>2 DEF IsTrack, k, m

(* e is d with the transitions js. *)
Rejoined(d, e, js) ==
  /\ (IsZoned(d) <=> IsZoned(e))
  /\ e.clips = d.clips /\ Lanes(e) = Lanes(d) /\ e.pool = d.pool
  /\ \A t \in Lanes(d) : /\ e.tracks[t].kind = d.tracks[t].kind
                         /\ e.tracks[t].main = d.tracks[t].main
                         /\ e.tracks[t].junctions = js[t]

LEMMA RejoinWithin ==
  ASSUME NEW C, NEW T, NEW M, NEW d, Within(d, C, T, M), NEW js,
         \A t \in Lanes(d) : IsJunctions(js[t]),
         NEW f, DOMAIN f = Lanes(d), f = [t \in DOMAIN f |-> f[t]],
         \A t \in Lanes(d) : f[t] = [d.tracks[t] EXCEPT !.junctions = js[t]]
  PROVE  LET e == [d EXCEPT !.tracks = f] IN Within(e, C, T, M) /\ Rejoined(d, e, js)
<1> DEFINE e == [d EXCEPT !.tracks = f]
<1>1. IsStacked(d) /\ d.pool \subseteq Media /\ IsClips(d.clips)
      /\ \A c \in Placed(d) : d.clips[c].track \in Lanes(d)
  BY StackedFacts DEF Within
<1>2. /\ Shape(e) /\ e.order = d.order /\ e.tracks = f
      /\ e.clips = d.clips /\ e.pool = d.pool
  BY <1>1, RetrackedFacts DEF IsStacked
<1>3. DOMAIN f = Lanes(d) /\ f = [t \in DOMAIN f |-> f[t]]
      /\ \A t \in Lanes(d) : f[t] = [d.tracks[t] EXCEPT !.junctions = js[t]]
  OBVIOUS
<1> HIDE DEF e
<1>4. \A t \in Lanes(d) :
         /\ t \in TrackId /\ IsTrack(f[t]) /\ f[t].kind = d.tracks[t].kind
         /\ f[t].main = d.tracks[t].main /\ f[t].junctions = js[t]
  <2> TAKE t \in Lanes(d)
  <2>1. t \in TrackId /\ IsTrack(d.tracks[t])
    BY <1>1, TrackFacts DEF IsStacked
  <2>2. f[t] = [d.tracks[t] EXCEPT !.junctions = js[t]] /\ IsJunctions(js[t])
    BY <1>3
  <2> DEFINE r == d.tracks[t]
  <2> HIDE DEF r
  <2>3. LET s == [r EXCEPT !.junctions = js[t]] IN
        /\ s.kind = r.kind /\ s.main = r.main /\ s.junctions = js[t] /\ IsTrack(s)
    <3> DEFINE j == js[t]
    <3>1. IsTrack(r) /\ IsJunctions(j)
      BY <2>1, <2>2 DEF r
    <3> HIDE DEF j
    <3>2. LET s == [r EXCEPT !.junctions = j] IN
          /\ s = [kind |-> r.kind, main |-> r.main, junctions |-> j]
          /\ s.kind = r.kind /\ s.main = r.main /\ s.junctions = j
          /\ IsJunctions(j) => IsTrack(s)
      BY <3>1, RejoinedTrack
    <3>3. QED
      BY <3>1, <3>2 DEF j
  <2>4. QED
    BY <2>1, <2>2, <2>3 DEF r
<1>5. IsStacked(e) /\ Lanes(e) = Lanes(d)
  <2>1. Lanes(e) = Lanes(d)
    BY <1>2, <1>3 DEF Lanes
  <2>2. IsTracks(e.tracks)
    BY <1>2, <1>3, <1>4 DEF IsTracks, IsPartial
  <2>3. QED
    BY <1>1, <1>2, <2>1, <2>2 DEF IsStacked
<1>6. Within(e, C, T, M)
  BY <1>1, <1>2, <1>5, StackedFacts DEF Within, Placed
<1>7. \A t \in Lanes(d) : /\ e.tracks[t].kind = d.tracks[t].kind
                          /\ e.tracks[t].main = d.tracks[t].main
                          /\ e.tracks[t].junctions = js[t]
  BY <1>2, <1>4
<1>8. IsZoned(d) <=> IsZoned(e)
  <2>1. MainTracks(e) = MainTracks(d) /\ VideoLanes(e) = VideoLanes(d)
    BY <1>5, <1>7 DEF MainTracks, VideoLanes
  <2>2. \A t \in Lanes(d) : Zone(e, t) = Zone(d, t)
    BY <1>7 DEF Zone
  <2>3. \A i \in DOMAIN d.order : d.order[i] \in Lanes(d)
    BY <1>1, ListFacts DEF IsStacked
  <2>4. QED
    BY <2>1, <2>2, <2>3, <1>2 DEF IsZoned
<1>9. QED
  BY <1>2, <1>5, <1>6, <1>7, <1>8 DEF e, Rejoined

LEMMA JunctionsOf ==
  ASSUME NEW C, NEW T, NEW M, NEW d, Within(d, C, T, M), NEW t \in Lanes(d)
  PROVE  IsJunctions(d.tracks[t].junctions) /\ IsTrack(d.tracks[t]) /\ t \in TrackId
<1>1. IsTrack(d.tracks[t]) /\ t \in TrackId
  BY StackedFacts, TrackFacts DEF Within, IsStacked
<1>2. QED
  BY <1>1 DEF IsTrack

LEMMA WithTransitionsWithin ==
  ASSUME NEW C, NEW T, NEW M, NEW d, Within(d, C, T, M), NEW snapshot,
         \A t \in DOMAIN snapshot : IsJunctions(snapshot[t])
  PROVE  LET e == WithTransitions(d, snapshot) IN
         /\ Within(e, C, T, M) /\ (IsZoned(d) <=> IsZoned(e))
         /\ e.clips = d.clips /\ Lanes(e) = Lanes(d) /\ e.pool = d.pool
         /\ \A t \in Lanes(d) :
              /\ e.tracks[t].kind = d.tracks[t].kind
              /\ e.tracks[t].main = d.tracks[t].main
              /\ e.tracks[t].junctions =
                   IF t \in DOMAIN snapshot THEN snapshot[t] ELSE d.tracks[t].junctions
<1> DEFINE js == [t \in Lanes(d) |-> IF t \in DOMAIN snapshot THEN snapshot[t]
                                     ELSE d.tracks[t].junctions]
           f == [t \in Lanes(d) |-> [d.tracks[t] EXCEPT !.junctions = js[t]]]
           g == [t \in Lanes(d) |->
                  IF t \in DOMAIN snapshot THEN [d.tracks[t] EXCEPT !.junctions = snapshot[t]]
                  ELSE d.tracks[t]]
<1>1. \A t \in Lanes(d) : js[t] = (IF t \in DOMAIN snapshot THEN snapshot[t]
                                    ELSE d.tracks[t].junctions)
  OBVIOUS
<1> HIDE DEF js
<1>2. \A t \in Lanes(d) : IsJunctions(js[t])
  BY <1>1, JunctionsOf
<1>3. ASSUME NEW t \in Lanes(d)
      PROVE  [d.tracks[t] EXCEPT !.junctions = js[t]] =
               IF t \in DOMAIN snapshot THEN [d.tracks[t] EXCEPT !.junctions = snapshot[t]]
               ELSE d.tracks[t]
  <2>1. CASE t \in DOMAIN snapshot
    BY <1>1, <2>1
  <2>2. CASE t \notin DOMAIN snapshot
    <3> DEFINE r == d.tracks[t]
    <3>1. IsTrack(r)
      BY JunctionsOf
    <3>2. js[t] = r.junctions
      BY <1>1, <2>2
    <3> HIDE DEF r
    <3>3. [r EXCEPT !.junctions = js[t]]
            = [kind |-> r.kind, main |-> r.main, junctions |-> r.junctions]
      BY <3>1, <3>2, RejoinedTrack
    <3>4. [r EXCEPT !.junctions = js[t]] = r
      BY <3>1, <3>3 DEF IsTrack
    <3>5. QED
      BY <3>4, <2>2 DEF r
  <2>3. QED
    BY <2>1, <2>2
<1>4. f = g
  BY <1>3
<1>5. WithTransitions(d, snapshot) = [d EXCEPT !.tracks = g]
  BY DEF WithTransitions, Lanes
<1>0. DOMAIN f = Lanes(d) /\ f = [t \in DOMAIN f |-> f[t]]
      /\ \A t \in Lanes(d) : f[t] = [d.tracks[t] EXCEPT !.junctions = js[t]]
  OBVIOUS
<1> HIDE DEF f, g
<1>6. LET e == [d EXCEPT !.tracks = f] IN Within(e, C, T, M) /\ Rejoined(d, e, js)
  BY <1>0, <1>2, RejoinWithin
<1>7. QED
  BY <1>1, <1>4, <1>5, <1>6 DEF Rejoined

LEMMA FewerJunctions ==
  ASSUME NEW js, IsJunctions(js), NEW S, S \subseteq DOMAIN js
  PROVE  IsJunctions(Restrict(js, S))
<1>1. Restrict(js, S) = [x \in S |-> js[x]]
  BY DEF Restrict
<1>2. QED
  BY <1>1 DEF IsJunctions, IsPartial

LEMMA PruneWithin ==
  ASSUME NEW C, NEW T, NEW M, NEW d, Within(d, C, T, M)
  PROVE  LET e == Prune(d) IN
         /\ Within(e, C, T, M) /\ (IsZoned(d) <=> IsZoned(e))
         /\ e.clips = d.clips /\ Lanes(e) = Lanes(d) /\ e.pool = d.pool
         /\ \A t \in Lanes(d) :
              /\ e.tracks[t].kind = d.tracks[t].kind
              /\ e.tracks[t].main = d.tracks[t].main
<1> DEFINE live(t) == Restrict(d.tracks[t].junctions,
                        {c \in DOMAIN d.tracks[t].junctions :
                           Abut(d, t, c, d.tracks[t].junctions[c].right)})
           snapshot == [t \in Lanes(d) |-> live(t)]
<1>1. \A t \in Lanes(d) : IsJunctions(live(t))
  BY JunctionsOf, FewerJunctions
<1> HIDE DEF live
<1>2. DOMAIN snapshot = Lanes(d) /\ \A t \in Lanes(d) : snapshot[t] = live(t)
  OBVIOUS
<1>3. Prune(d) = WithTransitions(d, snapshot)
  BY DEF Prune, live
<1> HIDE DEF snapshot
<1>4. \A t \in DOMAIN snapshot : IsJunctions(snapshot[t])
  BY <1>1, <1>2
<1>5. QED
  BY <1>3, <1>4, WithTransitionsWithin

LEMMA TransitionsFacts ==
  ASSUME NEW C, NEW T, NEW M, NEW d, Within(d, C, T, M)
  PROVE  /\ DOMAIN Transitions(d) = Lanes(d)
         /\ \A t \in Lanes(d) : /\ Transitions(d)[t] = d.tracks[t].junctions
                                /\ IsJunctions(Transitions(d)[t])
         /\ IsStep([op |-> "RestoreTransitions", snapshot |-> Transitions(d)], C, T, M)
<1>1. /\ DOMAIN Transitions(d) = Lanes(d)
      /\ \A t \in Lanes(d) : /\ Transitions(d)[t] = d.tracks[t].junctions
                             /\ IsJunctions(Transitions(d)[t])
  BY JunctionsOf DEF Transitions
<1>2. QED
  BY <1>1 DEF IsStep

LEMMA StructuralOutcome ==
  ASSUME NEW C, NEW T, NEW M, NEW d, Within(d, C, T, M), NEW r, IsOutcome(r, d, C, T, M)
  PROVE  IsOutcome(Structural(d, r), d, C, T, M)
<1> DEFINE pruned == Prune(r.doc)
           restore == [op |-> "RestoreTransitions", snapshot |-> Transitions(d)]
<1>1. Within(pruned, C, T, M) /\ (IsZoned(r.doc) <=> IsZoned(pruned))
  BY PruneWithin DEF IsOutcome
<1>2. AreSteps(<<restore>>, C, T, M) /\ <<restore>> # << >>
  BY TransitionsFacts, OneStep
<1> HIDE DEF restore
<1>3. AreSteps(<<restore>> \o r.inverse, C, T, M) /\ <<restore>> \o r.inverse # << >>
  BY <1>2, MoreSteps DEF IsOutcome
<1> HIDE DEF pruned
<1>4. IsOutcome(Accepted(pruned, <<restore>> \o r.inverse), d, C, T, M)
  BY <1>1, <1>3 DEF IsOutcome, Accepted
<1>5. QED
  BY <1>4 DEF Structural, pruned, restore

-----------------------------------------------------------------------------
(* What each step returns: clips *)

(* A function on a finite set is somewhere at its least. *)
LEMMA LeastValue ==
  ASSUME NEW S, IsFiniteSet(S), S # {}, NEW g \in [S -> Int]
  PROVE  \E x \in S : \A y \in S : g[x] <= g[y]
<1>1. PICK n, h : n \in Nat /\ h \in [1 .. n -> S] /\ \A y \in S : \E i \in 1 .. n : h[i] = y
  <2>1. Cardinality(S) \in Nat /\ ExistsBijection(1 .. Cardinality(S), S)
    BY FS_CardinalityType
  <2>2. PICK f \in Bijection(1 .. Cardinality(S), S) : TRUE
    BY <2>1 DEF ExistsBijection
  <2>3. f \in [1 .. Cardinality(S) -> S] /\ \A y \in S : \E i \in 1 .. Cardinality(S) : f[i] = y
    BY <2>2 DEF Bijection, Injection, Surjection
  <2>4. QED
    BY <2>1, <2>3
<1> n \in Nat
  BY <1>1
<1> DEFINE f == [i \in 1 .. n |-> g[h[i]]]
<1>9. \A i \in 1 .. n : f[i] \in Int /\ f[i] = g[h[i]] /\ h[i] \in S
  BY <1>1
<1> HIDE DEF f
<1> DEFINE B == {k \in 0 .. n : k = 0 \/ \E m \in 1 .. k : \A j \in 1 .. k : f[m] <= f[j]}
<1>2. 0 \in B
  OBVIOUS
<1>3. ASSUME NEW i \in 1 .. n, i - 1 \in B PROVE i \in B
  <2>1. CASE i = 1
    <3>0. 1 .. i = {1} /\ f[1] \in Int
      BY <2>1, <1>3, <1>9
    <3>1. \A j \in 1 .. i : f[1] <= f[j]
      BY <3>0
    <3>2. QED
      BY <3>1, <2>1
  <2>2. CASE i # 1
    <3>1. PICK m \in 1 .. (i - 1) : \A j \in 1 .. (i - 1) : f[m] <= f[j]
      BY <1>3, <2>2
    <3>2. f[m] \in Int /\ f[i] \in Int /\ \A j \in 1 .. (i - 1) : f[j] \in Int
      BY <1>9
    <3>3. CASE f[m] <= f[i]
      <4>1. \A j \in 1 .. i : f[m] <= f[j]
        BY <3>1, <3>3
      <4>2. QED
        BY <4>1
    <3>4. CASE ~(f[m] <= f[i])
      <4>1. \A j \in 1 .. i : f[i] <= f[j]
        BY <3>1, <3>2, <3>4
      <4>2. QED
        BY <4>1
    <3>5. QED
      BY <3>3, <3>4
  <2>3. QED
    BY <2>1, <2>2
<1>4. n \in B
  <2> HIDE DEF B
  <2>1. 0 .. n \subseteq B
    BY <1>2, <1>3, Climb
  <2>2. QED
    BY <2>1
<1>5. n # 0
  <2>1. PICK y \in S : TRUE
    OBVIOUS
  <2>2. PICK i \in 1 .. n : h[i] = y
    BY <1>1
  <2>3. QED
    BY <2>2
<1>6. PICK m \in 1 .. n : \A j \in 1 .. n : f[m] <= f[j]
  BY <1>4, <1>5
<1>7. h[m] \in S /\ \A y \in S : g[h[m]] <= g[y]
  BY <1>1, <1>6, <1>9
<1>8. QED
  BY <1>7

LEMMA FirstStartFacts ==
  ASSUME NEW C \in SUBSET ClipId, IsFiniteSet(C), NEW T, NEW M, NEW d, Within(d, C, T, M),
         NEW S \in SUBSET Placed(d), S # {}
  PROVE  /\ FirstStart(d, S) \in Int
         /\ \E c \in S : d.clips[c].start = FirstStart(d, S)
         /\ \A c \in S : FirstStart(d, S) <= d.clips[c].start
<1> DEFINE X == {d.clips[c].start : c \in S}
<1>1. \A c \in S : c \in C /\ d.clips[c].start \in Int
  BY PlacedFacts DEF Clip
<1>2. IsFiniteSet(S)
  BY <1>1, FS_Subset
<1> DEFINE g == [c \in S |-> d.clips[c].start]
<1>3. g \in [S -> Int]
  BY <1>1
<1>4. PICK x \in S : \A y \in S : g[x] <= g[y]
  <2> HIDE DEF g
  <2>1. QED
    BY <1>2, <1>3, LeastValue
<1>5. d.clips[x].start \in X /\ \A y \in X : d.clips[x].start <= y
  BY <1>4
<1>6. FirstStart(d, S) = Min(X)
  BY DEF FirstStart
<1>7. Min(X) \in X /\ \A y \in X : Min(X) <= y
  BY <1>5 DEF Min
<1>8. QED
  BY <1>1, <1>6, <1>7

LEMMA RemoveClipOutcome ==
  ASSUME NEW C \in SUBSET ClipId, NEW T, NEW M, NEW d, Within(d, C, T, M), NEW c
  PROVE  IsOutcome(RemoveClip(d, c), d, C, T, M)
<1> DEFINE s == [op |-> "InsertClip", id |-> c, clip |-> d.clips[c]]
<1>1. c \in Placed(d) => IsStep(s, C, T, M)
  BY PlacedFacts DEF IsStep
<1> HIDE DEF s
<1> DEFINE e == WithoutClip(d, c)
           guard == c \in Placed(d)
<1>2. Within(e, C, T, M) /\ (IsZoned(d) <=> IsZoned(e)) /\ guard \in BOOLEAN
  BY WithoutClipWithin
<1>3. guard => IsStep(s, C, T, M)
  BY <1>1
<1> HIDE DEF e, guard
<1>4. IsOutcome(Try(guard, d, e, s), d, C, T, M)
  BY <1>2, <1>3, TryOutcome
<1>5. QED
  BY <1>4 DEF RemoveClip, s, e, guard

LEMMA InsertClipOutcome ==
  ASSUME NEW C \in SUBSET ClipId, NEW T, NEW M, NEW d, Within(d, C, T, M), NEW c \in C, NEW k \in Clip
  PROVE  IsOutcome(InsertClip(d, c, k), d, C, T, M)
<1> DEFINE s == [op |-> "RemoveClip", id |-> c]
           guard == CanAdd(d, c, k)
<1>1. IsStep(s, C, T, M)
  BY DEF IsStep
<1> HIDE DEF s
<1>2. guard \in BOOLEAN
  BY DEF CanAdd
<1>3. guard => k.track \in Lanes(d)
  BY DEF CanAdd
<1> HIDE DEF guard
<1>4. guard => /\ Within(WithClip(d, c, k), C, T, M)
               /\ (IsZoned(d) <=> IsZoned(WithClip(d, c, k)))
  BY <1>3, WithClipWithin
<1>5. IsOutcome(Try(guard, d, WithClip(d, c, k), s), d, C, T, M)
  BY <1>1, <1>2, <1>4, TryOutcome
<1>6. QED
  BY <1>5 DEF InsertClip, s, guard

LEMMA RestoreClipOutcome ==
  ASSUME NEW C \in SUBSET ClipId, NEW T, NEW M, NEW d, Within(d, C, T, M), NEW c, NEW k \in Clip
  PROVE  IsOutcome(RestoreClip(d, c, k), d, C, T, M)
<1> DEFINE s == [op |-> "RestoreClip", id |-> c, clip |-> d.clips[c]]
           l == [k EXCEPT !.track = d.clips[c].track]
           e == WithClip(d, c, l)
<1>1. c \in Placed(d) => IsStep(s, C, T, M)
  BY PlacedFacts DEF IsStep
<1> HIDE DEF s
<1>2. c \in Placed(d) => c \in C /\ l \in Clip /\ l.track \in Lanes(d)
  <2> SUFFICES ASSUME c \in Placed(d) PROVE c \in C /\ l \in Clip /\ l.track \in Lanes(d)
    OBVIOUS
  <2>1. c \in C /\ d.clips[c].track \in Lanes(d) /\ d.clips[c].track \in TrackId
    BY PlacedFacts DEF Clip
  <2> DEFINE t == d.clips[c].track
  <2> HIDE DEF t
  <2>2. t \in TrackId
    BY <2>1 DEF t
  <2>3. LET m == [k EXCEPT !.track = t] IN m \in Clip /\ m.track = t
    BY <2>2, OnLane
  <2>4. QED
    BY <2>1, <2>3 DEF t
<1> HIDE DEF l
<1>3. c \in Placed(d) => Within(e, C, T, M) /\ (IsZoned(d) <=> IsZoned(e))
  BY <1>2, WithClipWithin
<1> DEFINE guard == c \in Placed(d)
<1>4. guard \in BOOLEAN /\ (guard => IsStep(s, C, T, M))
      /\ (guard => Within(e, C, T, M) /\ (IsZoned(d) <=> IsZoned(e)))
  BY <1>1, <1>3
<1> HIDE DEF e, guard
<1>5. IsOutcome(Try(guard, d, e, s), d, C, T, M)
  BY <1>4, TryOutcome
<1>6. QED
  BY <1>5 DEF RestoreClip, s, l, e, guard

LEMMA MoveClipOutcome ==
  ASSUME NEW C \in SUBSET ClipId, NEW T, NEW M, NEW d, Within(d, C, T, M),
         NEW c, NEW t, NEW start \in Int
  PROVE  IsOutcome(MoveClip(d, c, t, start), d, C, T, M)
<1> DEFINE k == [d.clips[c] EXCEPT !.track = t, !.start = start]
           s == [op |-> "MoveClip", id |-> c, lane |-> d.clips[c].track,
                 start |-> d.clips[c].start]
           e == WithClip(d, c, k)
           guard == /\ start >= 0
                    /\ c \in Placed(d)
                    /\ t \in Lanes(d)
                    /\ Accepts(d.tracks[t].kind, k.content)
                    /\ ~HasOverlap(d, t, k, {c})
<1>1. guard \in BOOLEAN
  OBVIOUS
<1>2. guard => c \in Placed(d) /\ t \in Lanes(d)
  OBVIOUS
<1> HIDE DEF guard
<1>3. guard => IsStep(s, C, T, M)
  BY <1>2, PlacedFacts DEF IsStep, Clip
<1>4. guard => c \in C /\ k \in Clip /\ k.track \in Lanes(d)
  <2> SUFFICES ASSUME guard PROVE c \in C /\ k \in Clip /\ k.track \in Lanes(d)
    OBVIOUS
  <2>1. c \in C /\ d.clips[c] \in Clip /\ t \in TrackId
    BY <1>2, PlacedFacts, JunctionsOf
  <2>2. k \in Clip /\ k.track = t
    <3> DEFINE l == d.clips[c]
               m == [l EXCEPT !.track = t]
    <3>1. k = [m EXCEPT !.start = start]
      OBVIOUS
    <3>2. m \in Clip /\ m.track = t
      BY <2>1, OnLane
    <3> HIDE DEF m, k
    <3>3. QED
      BY <3>1, <3>2, AtTick
  <2>3. QED
    BY <1>2, <2>1, <2>2
<1> HIDE DEF s
<1>5. guard => Within(e, C, T, M) /\ (IsZoned(d) <=> IsZoned(e))
  <2> HIDE DEF k
  <2>1. QED
    BY <1>4, WithClipWithin
<1> HIDE DEF e
<1>6. IsOutcome(Try(guard, d, e, s), d, C, T, M)
  BY <1>1, <1>3, <1>5, TryOutcome
<1>7. QED
  BY <1>6 DEF MoveClip, guard, s, e

LEMMA ShiftClipsOutcome ==
  ASSUME NEW C \in SUBSET ClipId, IsFiniteSet(C), NEW T, NEW M, NEW d, Within(d, C, T, M),
         NEW t, NEW from \in Int, NEW delta \in Int
  PROVE  IsOutcome(ShiftClips(d, t, from, delta), d, C, T, M)
<1> DEFINE moving == AtOrAfter(d, t, from)
           f == IF moving = {} THEN from ELSE FirstStart(d, moving) + delta
           s == [op |-> "ShiftClips", lane |-> t, delta |-> -delta, from |-> f]
           e == Shifted(d, t, from, delta)
           guard == CanShift(d, t, from, delta)
<1>1. guard \in BOOLEAN
  BY DEF CanShift
<1>2. f \in Int
  <2>1. moving \in SUBSET Placed(d)
    BY DEF AtOrAfter, ClipsOn
  <2> HIDE DEF moving
  <2>2. moving # {} => FirstStart(d, moving) \in Int
    BY <2>1, FirstStartFacts
  <2>3. QED
    BY <2>2
<1> HIDE DEF f
<1>3. IsStep(s, C, T, M)
  BY <1>2 DEF IsStep
<1>4. Within(e, C, T, M) /\ (IsZoned(d) <=> IsZoned(e))
  BY ShiftedWithin
<1> HIDE DEF s, e, guard
<1>5. IsOutcome(Try(guard, d, e, s), d, C, T, M)
  BY <1>1, <1>3, <1>4, TryOutcome
<1>6. QED
  BY <1>5 DEF ShiftClips, guard, s, e, f

LEMMA RippleDeleteOutcome ==
  ASSUME NEW C \in SUBSET ClipId, NEW T, NEW M, NEW d, Within(d, C, T, M), NEW c
  PROVE  IsOutcome(RippleDelete(d, c), d, C, T, M)
<1> DEFINE k == d.clips[c]
           s == [op |-> "RestoreRipple", id |-> c, clip |-> k]
           m == WithoutClip(d, c)
           e == Shifted(m, k.track, k.start, -k.dur)
<1>1. c \in Placed(d) => c \in C /\ k \in Clip /\ k.start \in Int /\ -k.dur \in Int
  BY PlacedFacts DEF Clip
<1>2. c \in Placed(d) => IsStep(s, C, T, M)
  BY <1>1 DEF IsStep
<1>3. Within(m, C, T, M) /\ (IsZoned(d) <=> IsZoned(m))
  BY WithoutClipWithin
<1> HIDE DEF k, s, m
<1>4. c \in Placed(d) => Within(e, C, T, M) /\ (IsZoned(d) <=> IsZoned(e))
  BY <1>1, <1>3, ShiftedWithin
<1> DEFINE guard == c \in Placed(d)
<1>5. guard \in BOOLEAN /\ (guard => IsStep(s, C, T, M))
      /\ (guard => Within(e, C, T, M) /\ (IsZoned(d) <=> IsZoned(e)))
  BY <1>2, <1>4
<1> HIDE DEF e, guard
<1>6. IsOutcome(Try(guard, d, e, s), d, C, T, M)
  BY <1>5, TryOutcome
<1>7. QED
  BY <1>6 DEF RippleDelete, k, s, m, e, guard

LEMMA RestoreRippleOutcome ==
  ASSUME NEW C \in SUBSET ClipId, NEW T, NEW M, NEW d, Within(d, C, T, M), NEW c \in C, NEW k \in Clip
  PROVE  IsOutcome(RestoreRipple(d, c, k), d, C, T, M)
<1> DEFINE s == [op |-> "RippleDelete", id |-> c]
           opened == Shifted(d, k.track, k.start, k.dur)
           e == WithClip(opened, c, k)
           guard == CanAdd(opened, c, k)
<1>1. IsStep(s, C, T, M)
  BY DEF IsStep
<1>2. Within(opened, C, T, M) /\ (IsZoned(d) <=> IsZoned(opened))
  <2>1. k.start \in Int /\ k.dur \in Int
    BY DEF Clip
  <2>2. QED
    BY <2>1, ShiftedWithin
<1> HIDE DEF s, opened
<1>3. guard \in BOOLEAN /\ (guard => k.track \in Lanes(opened))
  BY DEF CanAdd
<1> HIDE DEF guard
<1>4. guard => Within(e, C, T, M) /\ (IsZoned(opened) <=> IsZoned(e))
  BY <1>2, <1>3, WithClipWithin
<1> HIDE DEF e
<1>5. IsOutcome(Try(guard, opened, e, s), d, C, T, M)
  BY <1>1, <1>2, <1>3, <1>4, TryOutcome
<1>6. IsOutcome(Rejected(d), d, C, T, M)
  BY LeafOutcome
<1>7. QED
  BY <1>5, <1>6 DEF RestoreRipple, s, opened, e, guard

-----------------------------------------------------------------------------
(* What each step returns: splits, media and lanes *)

LEMMA MergeSplitOutcome ==
  ASSUME NEW C \in SUBSET ClipId, NEW T, NEW M, NEW d, Within(d, C, T, M),
         NEW left, NEW whole \in Clip, NEW right
  PROVE  IsOutcome(MergeSplit(d, left, whole, right), d, C, T, M)
<1>1. IsOutcome(Rejected(d), d, C, T, M)
  BY LeafOutcome
<1>2. CASE right \notin Placed(d)
  BY <1>1, <1>2 DEF MergeSplit
<1>3. CASE right \in Placed(d)
  <2> DEFINE m == WithoutClip(d, right)
             t == d.clips[left].track
             k == [whole EXCEPT !.track = t]
             e == WithClip(m, left, k)
             s == [op |-> "ReapplySplit", id |-> left, clip |-> d.clips[left],
                   tail |-> right, rest |-> d.clips[right]]
             guard == left \in Placed(m)
  <2>1. /\ Within(m, C, T, M) /\ (IsZoned(d) <=> IsZoned(m)) /\ Lanes(m) = Lanes(d)
        /\ Placed(m) = Placed(d) \ {right}
    BY WithoutClipWithin
  <2>2. guard => left \in Placed(d) /\ left \in C
    BY <2>1, PlacedFacts
  <2>3. guard => d.clips[left] \in Clip /\ t \in Lanes(d) /\ t \in TrackId
    BY <2>2, PlacedFacts DEF Clip
  <2>4. right \in C /\ d.clips[right] \in Clip
    BY <1>3, PlacedFacts
  <2>5. guard => IsStep(s, C, T, M)
    BY <2>3, <2>4 DEF IsStep
  <2>6. guard \in BOOLEAN
    OBVIOUS
  <2> HIDE DEF m, s, t, guard
  <2>7. guard => k \in Clip /\ k.track = t
    BY <2>3, OnLane
  <2> HIDE DEF k
  <2>8. guard => Within(e, C, T, M) /\ (IsZoned(m) <=> IsZoned(e))
    <3>1. guard => left \in C /\ k \in Clip /\ k.track \in Lanes(m)
      BY <2>1, <2>2, <2>3, <2>7
    <3>2. QED
      BY <2>1, <3>1, WithClipWithin
  <2> HIDE DEF e
  <2>9. IsOutcome(Try(guard, m, e, s), d, C, T, M)
    BY <2>1, <2>5, <2>6, <2>8, TryOutcome
  <2>10. QED
    BY <2>9, <1>3 DEF MergeSplit, m, s, t, guard, k, e
<1>4. QED
  BY <1>2, <1>3

LEMMA ReapplySplitOutcome ==
  ASSUME NEW C \in SUBSET ClipId, NEW T, NEW M, NEW d, Within(d, C, T, M),
         NEW left, NEW half \in Clip, NEW tail \in C, NEW rest \in Clip
  PROVE  IsOutcome(ReapplySplit(d, left, half, tail, rest), d, C, T, M)
<1>1. IsOutcome(Rejected(d), d, C, T, M)
  BY LeafOutcome
<1>2. CASE left \notin Placed(d)
  BY <1>1, <1>2 DEF ReapplySplit
<1>3. CASE left \in Placed(d)
  <2> DEFINE t == d.clips[left].track
             k == [half EXCEPT !.track = t]
             m == WithClip(d, left, k)
             e == WithClip(m, tail, rest)
             s == [op |-> "MergeSplit", id |-> left, clip |-> d.clips[left], tail |-> tail]
             guard == CanAdd(m, tail, rest)
  <2>1. left \in C /\ d.clips[left] \in Clip /\ t \in Lanes(d) /\ t \in TrackId
    BY <1>3, PlacedFacts DEF Clip
  <2>2. IsStep(s, C, T, M)
    BY <2>1 DEF IsStep
  <2> HIDE DEF t, s
  <2>3. k \in Clip /\ k.track = t
    BY <2>1, OnLane
  <2> HIDE DEF k
  <2>4. /\ Within(m, C, T, M) /\ (IsZoned(d) <=> IsZoned(m)) /\ Lanes(m) = Lanes(d)
    BY <2>1, <2>3, WithClipWithin
  <2> HIDE DEF m
  <2>5. guard \in BOOLEAN /\ (guard => rest.track \in Lanes(m))
    BY DEF CanAdd
  <2> HIDE DEF guard
  <2>6. guard => Within(e, C, T, M) /\ (IsZoned(m) <=> IsZoned(e))
    BY <2>4, <2>5, WithClipWithin
  <2> HIDE DEF e
  <2>7. IsOutcome(Try(guard, m, e, s), d, C, T, M)
    BY <2>2, <2>4, <2>5, <2>6, TryOutcome
  <2>8. QED
    BY <2>7, <1>3 DEF ReapplySplit, m, s, t, guard, k, e
<1>4. QED
  BY <1>2, <1>3

LEMMA RestoreTransitionsOutcome ==
  ASSUME NEW C \in SUBSET ClipId, NEW T, NEW M, NEW d, Within(d, C, T, M), NEW snapshot,
         \A t \in DOMAIN snapshot : IsJunctions(snapshot[t])
  PROVE  IsOutcome(RestoreTransitions(d, snapshot), d, C, T, M)
<1> DEFINE e == WithTransitions(d, snapshot)
           s == [op |-> "RestoreTransitions", snapshot |-> Transitions(d)]
<1>1. Within(e, C, T, M) /\ (IsZoned(d) <=> IsZoned(e))
  BY WithTransitionsWithin
<1>2. IsStep(s, C, T, M)
  BY TransitionsFacts
<1> HIDE DEF e, s
<1>3. IsOutcome(Accepted(e, <<s>>), d, C, T, M)
  BY <1>1, <1>2, LeafOutcome
<1>4. QED
  BY <1>3 DEF RestoreTransitions, e, s

LEMMA RepoolWithin ==
  ASSUME NEW C, NEW T, NEW M, NEW d, Within(d, C, T, M), NEW p, p \subseteq Media, p \subseteq M
  PROVE  LET e == [d EXCEPT !.pool = p] IN
         /\ Within(e, C, T, M) /\ (IsZoned(d) <=> IsZoned(e))
         /\ e.clips = d.clips /\ e.tracks = d.tracks /\ e.pool = p /\ Lanes(e) = Lanes(d)
<1> DEFINE e == [d EXCEPT !.pool = p]
<1>1. IsStacked(d) /\ IsClips(d.clips) /\ \A c \in Placed(d) : d.clips[c].track \in Lanes(d)
  BY StackedFacts DEF Within
<1>2. /\ Shape(e) /\ e.order = d.order /\ e.tracks = d.tracks
      /\ e.clips = d.clips /\ e.pool = p
  BY <1>1, RepooledFacts DEF IsStacked
<1> HIDE DEF e
<1>3. IsStacked(e) /\ Lanes(e) = Lanes(d) /\ Placed(e) = Placed(d)
  BY <1>1, <1>2 DEF IsStacked, Lanes, Placed
<1>4. Within(e, C, T, M)
  BY <1>1, <1>2, <1>3, StackedFacts DEF Within
<1>5. IsZoned(d) <=> IsZoned(e)
  BY <1>2, <1>3 DEF IsZoned, Zone, MainTracks, VideoLanes
<1>6. QED
  BY <1>2, <1>3, <1>4, <1>5 DEF e

LEMMA RemoveMediaOutcome ==
  ASSUME NEW C, NEW T, NEW M, NEW d, Within(d, C, T, M), NEW m
  PROVE  IsOutcome(RemoveMedia(d, m), d, C, T, M)
<1> DEFINE s == [op |-> "InsertMedia", medium |-> m]
           p == d.pool \ {m}
           e == [d EXCEPT !.pool = p]
           guard == m \in d.pool /\ ~IsReferenced(d, m)
<1>1. d.pool \subseteq Media /\ d.pool \subseteq M
  BY StackedFacts DEF Within
<1>2. p \subseteq Media /\ p \subseteq M
  BY <1>1
<1> HIDE DEF p
<1>3. Within(e, C, T, M) /\ (IsZoned(d) <=> IsZoned(e))
  BY <1>2, RepoolWithin
<1>4. guard \in BOOLEAN /\ (guard => IsStep(s, C, T, M))
  BY <1>1 DEF IsStep
<1>5. RemoveMedia(d, m) = Try(guard, d, e, s)
  BY DEF RemoveMedia, p
<1> HIDE DEF guard, s, e
<1>6. IsOutcome(Try(guard, d, e, s), d, C, T, M)
  BY <1>3, <1>4, TryOutcome
<1>7. QED
  BY <1>5, <1>6

LEMMA InsertMediaOutcome ==
  ASSUME NEW C, NEW T, NEW M \in SUBSET Media, NEW d, Within(d, C, T, M), NEW m \in M
  PROVE  IsOutcome(InsertMedia(d, m), d, C, T, M)
<1> DEFINE s == [op |-> "RemoveMedia", medium |-> m]
           p == d.pool \cup {m}
           e == [d EXCEPT !.pool = p]
<1>1. p \subseteq Media /\ p \subseteq M
  BY StackedFacts DEF Within
<1> HIDE DEF p
<1>2. Within(e, C, T, M) /\ (IsZoned(d) <=> IsZoned(e))
  BY <1>1, RepoolWithin
<1>3. IsStep(s, C, T, M)
  BY DEF IsStep
<1>4. InsertMedia(d, m) = Accepted(e, <<s>>)
  BY DEF InsertMedia, p
<1> HIDE DEF s, e
<1>5. QED
  BY <1>2, <1>3, <1>4, LeafOutcome

-----------------------------------------------------------------------------
(* Lanes *)

LEMMA UnmoveTrackOutcome ==
  ASSUME NEW C, NEW T, NEW M, NEW d, Within(d, C, T, M),
         NEW t, NEW to \in Nat \ {0}, NEW from \in Nat \ {0}
  PROVE  /\ IsOutcome(UnmoveTrack(d, t, from, to), d, C, T, M)
         /\ IsOutcome(MoveTrack(d, t, from), d, C, T, M)
<1> DEFINE s == [op |-> "MoveTrack", id |-> t, from |-> to, to |-> from]
           r == [op |-> "MoveTrack", id |-> t, from |-> IndexOf(d, t), to |-> from]
           e == Reorder(d, t, from)
           guard == t \in Lanes(d)
<1>1. /\ IsStacked(d) /\ IsClips(d.clips) /\ d.pool \subseteq Media
      /\ \A c \in Placed(d) : d.clips[c].track \in Lanes(d)
  BY StackedFacts DEF Within
<1>2. guard => IsStacked(e) /\ Restacked(d, e) /\ e.tracks = d.tracks /\ (IsZoned(d) => IsZoned(e))
  BY <1>1, ReorderFacts
<1>3. guard => IndexOf(d, t) \in Nat \ {0}
  BY <1>1, IndexOfFacts
<1>4. IsStep(s, C, T, M) /\ (guard => IsStep(r, C, T, M)) /\ guard \in BOOLEAN
  BY <1>3 DEF IsStep
<1>0. UnmoveTrack(d, t, from, to) = Try(guard, d, e, s) /\ MoveTrack(d, t, from) = Try(guard, d, e, r)
  BY DEF UnmoveTrack, MoveTrack
<1> HIDE DEF s, r, e, guard
<1>5. guard => Within(e, C, T, M)
  <2> SUFFICES ASSUME guard PROVE Within(e, C, T, M)
    OBVIOUS
  <2>1. Lanes(e) = Lanes(d) /\ e.clips = d.clips /\ e.pool = d.pool /\ Placed(e) = Placed(d)
    BY <1>2 DEF Lanes, Placed, Restacked
  <2>2. QED
    BY <1>1, <1>2, <2>1, StackedFacts DEF Within
<1>6. IsOutcome(Try(guard, d, e, s), d, C, T, M) /\ IsOutcome(Try(guard, d, e, r), d, C, T, M)
  BY <1>2, <1>4, <1>5, TryOutcome
<1>7. QED
  BY <1>0, <1>6

LEMMA RemoveTrackOutcome ==
  ASSUME NEW C \in SUBSET ClipId, NEW T, NEW M, NEW d, Within(d, C, T, M), NEW t
  PROVE  IsOutcome(RemoveTrack(d, t), d, C, T, M)
<1> DEFINE held == Restrict(d.clips, ClipsOn(d, t))
           s == [op |-> "InsertTrack", id |-> t, track |-> d.tracks[t],
                 index |-> IndexOf(d, t), held |-> held]
           e == DropTrack(d, t)
           guard == t \in Lanes(d)
<1>0. RemoveTrack(d, t) = Try(guard, d, e, s) /\ guard \in BOOLEAN
  BY DEF RemoveTrack
<1>1. /\ IsStacked(d) /\ IsClips(d.clips) /\ d.pool \subseteq Media
      /\ \A c \in Placed(d) : d.clips[c].track \in Lanes(d)
      /\ Lanes(d) \subseteq T /\ Placed(d) \subseteq C
  BY StackedFacts DEF Within
<1>2. guard => /\ IsStacked(e) /\ Lanes(e) = Lanes(d) \ {t}
               /\ e.clips = Restrict(d.clips, {c \in Placed(d) : d.clips[c].track # t})
               /\ e.pool = d.pool /\ (IsZoned(d) => IsZoned(e))
  <2>1. ASSUME t \in Lanes(d)
        PROVE  /\ IsStacked(e) /\ Lanes(e) = Lanes(d) \ {t}
               /\ e.clips = Restrict(d.clips, {c \in Placed(d) : d.clips[c].track # t})
               /\ e.pool = d.pool /\ (IsZoned(d) => IsZoned(e))
    <3>1. IsStacked(d)
      BY <1>1
    <3>2. /\ IsStacked(e) /\ Lanes(e) = Lanes(d) \ {t}
          /\ e.clips = Restrict(d.clips, {c \in Placed(d) : d.clips[c].track # t})
          /\ e.pool = d.pool
          /\ \A u \in Lanes(e) : /\ e.tracks[u].kind = d.tracks[u].kind
                                /\ e.tracks[u].junctions = d.tracks[u].junctions
          /\ IsZoned(d) => IsZoned(e)
      BY <2>1, <3>1, DropTrackFacts, Zenon
    <3> HIDE DEF e
    <3>3. QED
      BY <3>2, Zenon
  <2>2. QED
    BY <2>1
<1>3. /\ DOMAIN held = ClipsOn(d, t) /\ held = [c \in DOMAIN held |-> held[c]]
      /\ \A c \in ClipsOn(d, t) : held[c] = d.clips[c]
  BY DEF Restrict
<1> HIDE DEF held
<1>4. IsPartial(held, C) /\ \A c \in DOMAIN held : held[c] \in Clip /\ held[c].track = t
  <2>1. \A c \in ClipsOn(d, t) : c \in Placed(d) /\ d.clips[c].track = t
    BY DEF ClipsOn
  <2>2. \A c \in Placed(d) : c \in C /\ d.clips[c] \in Clip
    BY PlacedFacts
  <2>3. QED
    BY <1>3, <2>1, <2>2 DEF IsPartial
<1>5. guard => IsStep(s, C, T, M)
  <2> SUFFICES ASSUME guard PROVE IsStep(s, C, T, M)
    OBVIOUS
  <2>1. t \in T /\ IsTrack(d.tracks[t]) /\ IndexOf(d, t) \in Nat \ {0}
    BY <1>1, JunctionsOf, IndexOfFacts
  <2>2. QED
    BY <2>1, <1>4 DEF IsStep
<1> HIDE DEF s, e, guard
<1>6. guard => Within(e, C, T, M)
  <2> SUFFICES ASSUME guard PROVE Within(e, C, T, M)
    OBVIOUS
  <2> DEFINE S == {c \in Placed(d) : d.clips[c].track # t}
  <2>1. /\ DOMAIN e.clips = S /\ e.clips = [c \in S |-> d.clips[c]]
        /\ \A c \in S : e.clips[c] = d.clips[c]
    BY <1>2 DEF Restrict
  <2>2. IsClips(e.clips)
    BY <1>1, <2>1 DEF IsClips, IsPartial, Placed
  <2>3. \A c \in Placed(e) : e.clips[c].track \in Lanes(e)
    BY <1>1, <1>2, <2>1 DEF Placed
  <2>4. Placed(e) \subseteq C
    BY <1>1, <2>1 DEF Placed
  <2>5. QED
    BY <1>1, <1>2, <2>2, <2>3, <2>4, StackedFacts DEF Within
<1>7. IsOutcome(Try(guard, d, e, s), d, C, T, M)
  BY <1>0, <1>2, <1>5, <1>6, TryOutcome
<1>8. QED
  BY <1>0, <1>7

LEMMA RestoreTrackOutcome ==
  ASSUME NEW C \in SUBSET ClipId, NEW T \in SUBSET TrackId, NEW M, NEW d, Within(d, C, T, M),
         NEW t \in T, NEW track, IsTrack(track), NEW index \in Nat \ {0},
         NEW held, IsPartial(held, C),
         \A c \in DOMAIN held : held[c] \in Clip /\ held[c].track = t
  PROVE  IsOutcome(RestoreTrack(d, t, track, index, held), d, C, T, M)
<1> DEFINE back == InsertTrack(d, t, track, index)
           kept == Placed(d)
           f == [c \in kept \cup DOMAIN held |-> IF c \in kept THEN d.clips[c] ELSE held[c]]
           e == [back EXCEPT !.clips = f]
           s == [op |-> "RemoveTrack", id |-> t]
           guard == t \notin Lanes(d) /\ DOMAIN held \cap kept = {}
<1>0. RestoreTrack(d, t, track, index, held) = Try(guard, d, e, s) /\ guard \in BOOLEAN
  BY DEF RestoreTrack
<1>1. /\ IsStacked(d) /\ IsClips(d.clips) /\ d.pool \subseteq Media /\ d.pool \subseteq M
      /\ \A c \in Placed(d) : d.clips[c].track \in Lanes(d)
      /\ Lanes(d) \subseteq T /\ Placed(d) \subseteq C
  BY StackedFacts DEF Within
<1>2. guard => /\ IsStacked(back) /\ IsZoned(back) /\ Restacked(d, back)
               /\ Lanes(back) = Lanes(d) \cup {t}
  BY <1>1, InsertTrackFacts
<1>3. IsStep(s, C, T, M)
  BY DEF IsStep
<1> HIDE DEF back
<1>4. guard => Within(back, C, T, M)
  BY <1>1, <1>2, StackedFacts DEF Within, Restacked, Placed
<1>5. /\ DOMAIN f = kept \cup DOMAIN held /\ f = [c \in DOMAIN f |-> f[c]]
      /\ \A c \in kept : f[c] = d.clips[c]
      /\ \A c \in DOMAIN held \ kept : f[c] = held[c]
  OBVIOUS
<1> HIDE DEF f
<1>6. guard => IsPartial(f, C) /\ \A c \in DOMAIN f : f[c] \in Clip /\ f[c].track \in Lanes(back)
  <2>1. \A c \in kept : c \in C /\ d.clips[c] \in Clip /\ d.clips[c].track \in Lanes(d)
    BY PlacedFacts
  <2>2. DOMAIN held \subseteq C
    BY DEF IsPartial
  <2> HIDE DEF kept, guard
  <2>3. QED
    BY <1>2, <1>5, <2>1, <2>2 DEF IsPartial
<1> HIDE DEF s, guard
<1>7. guard => Within(e, C, T, M) /\ (IsZoned(back) <=> IsZoned(e))
  BY <1>4, <1>6, ReclipWithin
<1> HIDE DEF e
<1>8. IsOutcome(Try(guard, d, e, s), d, C, T, M)
  BY <1>0, <1>2, <1>3, <1>7, TryOutcome
<1>9. QED
  BY <1>0, <1>8

-----------------------------------------------------------------------------
(* What a step returns *)

LEMMA RunStepOutcome ==
  ASSUME NEW C \in SUBSET ClipId, IsFiniteSet(C), NEW T \in SUBSET TrackId,
         NEW M \in SUBSET Media, NEW d, Within(d, C, T, M), NEW s, IsStep(s, C, T, M)
  PROVE  IsOutcome(RunStep(d, s), d, C, T, M)
<1>1. CASE s.op = "RemoveClip"
  <2>1. RunStep(d, s) = RemoveClip(d, s.id)
    BY <1>1 DEF RunStep
  <2>2. QED
    BY <2>1, RemoveClipOutcome
<1>2. CASE s.op = "InsertClip"
  <2>1. RunStep(d, s) = InsertClip(d, s.id, s.clip)
    BY <1>2 DEF RunStep
  <2>2. s.id \in C /\ s.clip \in Clip
    BY <1>2 DEF IsStep
  <2>3. QED
    BY <2>1, <2>2, InsertClipOutcome
<1>3. CASE s.op = "RestoreClip"
  <2>1. RunStep(d, s) = RestoreClip(d, s.id, s.clip)
    BY <1>3 DEF RunStep
  <2>2. s.clip \in Clip
    BY <1>3 DEF IsStep
  <2>3. QED
    BY <2>1, <2>2, RestoreClipOutcome
<1>4. CASE s.op = "RemoveTrack"
  <2>1. RunStep(d, s) = RemoveTrack(d, s.id)
    BY <1>4 DEF RunStep
  <2>2. QED
    BY <2>1, RemoveTrackOutcome
<1>5. CASE s.op = "InsertTrack"
  <2>1. RunStep(d, s) = RestoreTrack(d, s.id, s.track, s.index, s.held)
    BY <1>5 DEF RunStep
  <2>2. /\ s.id \in T /\ IsTrack(s.track) /\ s.index \in Nat \ {0} /\ IsPartial(s.held, C)
        /\ \A c \in DOMAIN s.held : s.held[c] \in Clip /\ s.held[c].track = s.id
    BY <1>5 DEF IsStep
  <2>3. QED
    BY <2>1, <2>2, RestoreTrackOutcome
<1>6. CASE s.op = "MoveTrack"
  <2>1. RunStep(d, s) = UnmoveTrack(d, s.id, s.from, s.to)
    BY <1>6 DEF RunStep
  <2>2. s.from \in Nat \ {0} /\ s.to \in Nat \ {0}
    BY <1>6 DEF IsStep
  <2>3. QED
    BY <2>1, <2>2, UnmoveTrackOutcome
<1>7. CASE s.op = "MoveClip"
  <2>1. RunStep(d, s) = MoveClip(d, s.id, s.lane, s.start)
    BY <1>7 DEF RunStep
  <2>2. s.start \in Int
    BY <1>7 DEF IsStep
  <2>3. QED
    BY <2>1, <2>2, MoveClipOutcome
<1>8. CASE s.op = "ShiftClips"
  <2>1. RunStep(d, s) = ShiftClips(d, s.lane, s.from, s.delta)
    BY <1>8 DEF RunStep
  <2>2. s.from \in Int /\ s.delta \in Int
    BY <1>8 DEF IsStep
  <2>3. QED
    BY <2>1, <2>2, ShiftClipsOutcome
<1>9. CASE s.op = "RippleDelete"
  <2>1. RunStep(d, s) = RippleDelete(d, s.id)
    BY <1>9 DEF RunStep
  <2>2. QED
    BY <2>1, RippleDeleteOutcome
<1>10. CASE s.op = "RestoreRipple"
  <2>1. RunStep(d, s) = RestoreRipple(d, s.id, s.clip)
    BY <1>10 DEF RunStep
  <2>2. s.id \in C /\ s.clip \in Clip
    BY <1>10 DEF IsStep
  <2>3. QED
    BY <2>1, <2>2, RestoreRippleOutcome
<1>11. CASE s.op = "MergeSplit"
  <2>1. RunStep(d, s) = MergeSplit(d, s.id, s.clip, s.tail)
    BY <1>11 DEF RunStep
  <2>2. s.clip \in Clip
    BY <1>11 DEF IsStep
  <2>3. QED
    BY <2>1, <2>2, MergeSplitOutcome
<1>12. CASE s.op = "ReapplySplit"
  <2>1. RunStep(d, s) = ReapplySplit(d, s.id, s.clip, s.tail, s.rest)
    BY <1>12 DEF RunStep
  <2>2. s.clip \in Clip /\ s.tail \in C /\ s.rest \in Clip
    BY <1>12 DEF IsStep
  <2>3. QED
    BY <2>1, <2>2, ReapplySplitOutcome
<1>13. CASE s.op = "RestoreTransitions"
  <2>1. RunStep(d, s) = RestoreTransitions(d, s.snapshot)
    BY <1>13 DEF RunStep
  <2>2. \A t \in DOMAIN s.snapshot : IsJunctions(s.snapshot[t])
    BY <1>13 DEF IsStep
  <2>3. QED
    BY <2>1, <2>2, RestoreTransitionsOutcome
<1>14. CASE s.op = "RemoveMedia"
  <2>1. RunStep(d, s) = RemoveMedia(d, s.medium)
    BY <1>14 DEF RunStep
  <2>2. QED
    BY <2>1, RemoveMediaOutcome
<1>15. CASE s.op = "InsertMedia"
  <2>1. RunStep(d, s) = InsertMedia(d, s.medium)
    BY <1>15 DEF RunStep
  <2>2. s.medium \in M
    BY <1>15 DEF IsStep
  <2>3. QED
    BY <2>1, <2>2, InsertMediaOutcome
<1>16. QED
  BY <1>1, <1>2, <1>3, <1>4, <1>5, <1>6, <1>7, <1>8, <1>9, <1>10, <1>11, <1>12, <1>13,
     <1>14, <1>15 DEF IsStep

-----------------------------------------------------------------------------
(* Runs and rollbacks as folds *)

(* A step of RunUntilFailure, and one of RolledBack. *)
Then(done, s) ==
  LET r == RunStep(done.doc, s) IN
  IF done.ok THEN [ok |-> r.ok, doc |-> r.doc, inverse |-> r.inverse \o done.inverse] ELSE done

Back(r, script) == IF r.ok THEN Run(r.doc, script) ELSE r

RolledThrough(d, scripts) == FoldLeft(Back, Accepted(d, << >>), scripts)

LEMMA UpToLess ==
  ASSUME NEW N \in Nat, NEW i \in 1 .. N
  PROVE  (1 .. i) \ {i} = 1 .. (i - 1) /\ 1 .. i # {} /\ 1 .. i \in SUBSET (1 .. N)
<1>1. i \in Nat /\ 1 <= i /\ i <= N
  OBVIOUS
<1>2. \A x : x \in (1 .. i) \ {i} <=> x \in 1 .. (i - 1)
  BY <1>1
<1>3. i \in 1 .. i
  BY <1>1
<1>4. \A x \in 1 .. i : x \in 1 .. N
  BY <1>1
<1>5. QED
  BY <1>2, <1>3, <1>4

LEMMA MaxOfRange ==
  ASSUME NEW n \in Nat \ {0}, NEW s \in SUBSET (1 .. n), n \in s
  PROVE  Max(s) = n
<1> DEFINE M == Max(s)
<1>1. M \in s /\ \A y \in s : M >= y
  <2>1. \E x \in s : \A y \in s : x >= y
    OBVIOUS
  <2>2. QED
    BY <2>1 DEF Max
<1>2. M \in 1 .. n /\ M >= n
  BY <1>1
<1>3. QED
  BY <1>2

LEMMA RolledReverse ==
  ASSUME NEW d, NEW scripts
  PROVE  RolledBack(d, scripts) = RolledThrough(d, Reverse(scripts))
  BY DEF RolledBack, RolledThrough, FoldLeft, MapThenFoldSet, Back

LEMMA RunFolds ==
  ASSUME NEW d, NEW q, DOMAIN q = 1 .. Len(q), Len(q) \in Nat
  PROVE  \E F : /\ F[0] = Accepted(d, << >>)
                /\ \A i \in 1 .. Len(q) : F[i] = Then(F[i - 1], q[i])
                /\ RunUntilFailure(d, q) = F[Len(q)]
<1> DEFINE N == Len(q)
           Body(g, D) ==
             [s \in SUBSET D |-> IF s = {} THEN Accepted(d, << >>) ELSE Then(g[s \ {Max(s)}], q[Max(s)])]
           K == {k \in Nat : \E g : g = Body(g, 1 .. k)}
<1>1. 0 \in K
  <2> DEFINE g == [s \in SUBSET (1 .. 0) |-> Accepted(d, << >>)]
  <2>1. \A s \in SUBSET (1 .. 0) : s = {}
    OBVIOUS
  <2>2. g = Body(g, 1 .. 0)
    BY <2>1
  <2>3. QED
    BY <2>2
<1>2. ASSUME NEW i \in 1 .. N, i - 1 \in K PROVE i \in K
  <2> DEFINE W == 1 .. (i - 1)
  <2>1. PICK g : g = Body(g, W)
    BY <1>2
  <2> DEFINE h == [s \in SUBSET (1 .. i) |->
                     IF i \in s THEN Then(g[s \ {i}], q[i]) ELSE g[s]]
  <2>2. \A s \in SUBSET (1 .. i) : (i \notin s => s \in SUBSET W) /\ s \ {i} \in SUBSET W
    OBVIOUS
  <2>3. \A s \in SUBSET W : g[s] = h[s] /\ i \notin s /\ s \in SUBSET (1 .. i)
    OBVIOUS
  <2>4. ASSUME NEW s \in SUBSET (1 .. i)
        PROVE  h[s] = IF s = {} THEN Accepted(d, << >>) ELSE Then(h[s \ {Max(s)}], q[Max(s)])
    <3>1. CASE i \in s
      <4>1. Max(s) = i
        BY <3>1, MaxOfRange
      <4>2. h[s] = Then(g[s \ {i}], q[i])
        BY <3>1
      <4>3. g[s \ {i}] = h[s \ {i}]
        BY <2>2, <2>3
      <4>4. QED
        BY <3>1, <4>1, <4>2, <4>3
    <3>2. CASE i \notin s
      <4>1. s \in SUBSET W
        BY <3>2, <2>2
      <4>2. h[s] = g[s]
        BY <3>2
      <4>3. g[s] = IF s = {} THEN Accepted(d, << >>) ELSE Then(g[s \ {Max(s)}], q[Max(s)])
        BY <2>1, <4>1
      <4>4. s \ {Max(s)} \in SUBSET W
        BY <4>1
      <4>5. g[s \ {Max(s)}] = h[s \ {Max(s)}]
        BY <2>3, <4>4
      <4>6. QED
        BY <4>2, <4>3, <4>5
    <3>3. QED
      BY <3>1, <3>2
  <2>5. h = [s \in SUBSET (1 .. i) |-> h[s]]
    OBVIOUS
  <2> HIDE DEF h
  <2>6. h = Body(h, 1 .. i)
    BY <2>4, <2>5
  <2> HIDE DEF Body
  <2>7. \E f : f = Body(f, 1 .. i)
    BY <2>6
  <2>8. QED
    BY <2>7
<1>3. N \in K
  <2> HIDE DEF K
  <2>1. 0 .. N \subseteq K
    BY <1>1, <1>2, Climb
  <2>2. QED
    BY <2>1
<1> DEFINE g == CHOOSE g : g = Body(g, 1 .. N)
<1>4. g = Body(g, 1 .. N)
  BY <1>3
<1>5. RunUntilFailure(d, q) = g[1 .. N]
  BY DEF RunUntilFailure, FoldLeft, MapThenFoldSet, Then
<1> HIDE DEF g
<1>6. \A s \in SUBSET (1 .. N) :
         g[s] = IF s = {} THEN Accepted(d, << >>) ELSE Then(g[s \ {Max(s)}], q[Max(s)])
  BY <1>4
<1> DEFINE F == [i \in 0 .. N |-> g[1 .. i]]
<1>7. F[0] = Accepted(d, << >>)
  <2>1. 1 .. 0 = {}
    OBVIOUS
  <2>2. g[{}] = Accepted(d, << >>)
    BY <1>6
  <2>3. QED
    BY <2>1, <2>2
<1>8. ASSUME NEW i \in 1 .. N PROVE F[i] = Then(F[i - 1], q[i])
  <2>1. Max(1 .. i) = i
    BY MaxOfRange
  <2>2. (1 .. i) \ {i} = 1 .. (i - 1) /\ 1 .. i # {} /\ 1 .. i \in SUBSET (1 .. N)
    BY UpToLess
  <2>3. g[1 .. i] = Then(g[1 .. (i - 1)], q[i])
    BY <1>6, <2>1, <2>2
  <2>4. QED
    BY <2>3
<1>9. RunUntilFailure(d, q) = F[N]
  BY <1>5
<1> HIDE DEF F
<1>10. QED
  BY <1>7, <1>8, <1>9

LEMMA RollFolds ==
  ASSUME NEW d, NEW q, DOMAIN q = 1 .. Len(q), Len(q) \in Nat
  PROVE  \E F : /\ F[0] = Accepted(d, << >>)
                /\ \A i \in 1 .. Len(q) : F[i] = Back(F[i - 1], q[i])
                /\ RolledThrough(d, q) = F[Len(q)]
<1> DEFINE N == Len(q)
           Body(g, D) ==
             [s \in SUBSET D |-> IF s = {} THEN Accepted(d, << >>) ELSE Back(g[s \ {Max(s)}], q[Max(s)])]
           K == {k \in Nat : \E g : g = Body(g, 1 .. k)}
<1>1. 0 \in K
  <2> DEFINE g == [s \in SUBSET (1 .. 0) |-> Accepted(d, << >>)]
  <2>1. \A s \in SUBSET (1 .. 0) : s = {}
    OBVIOUS
  <2>2. g = Body(g, 1 .. 0)
    BY <2>1
  <2>3. QED
    BY <2>2
<1>2. ASSUME NEW i \in 1 .. N, i - 1 \in K PROVE i \in K
  <2> DEFINE W == 1 .. (i - 1)
  <2>1. PICK g : g = Body(g, W)
    BY <1>2
  <2> DEFINE h == [s \in SUBSET (1 .. i) |->
                     IF i \in s THEN Back(g[s \ {i}], q[i]) ELSE g[s]]
  <2>2. \A s \in SUBSET (1 .. i) : (i \notin s => s \in SUBSET W) /\ s \ {i} \in SUBSET W
    OBVIOUS
  <2>3. \A s \in SUBSET W : g[s] = h[s] /\ i \notin s /\ s \in SUBSET (1 .. i)
    OBVIOUS
  <2>4. ASSUME NEW s \in SUBSET (1 .. i)
        PROVE  h[s] = IF s = {} THEN Accepted(d, << >>) ELSE Back(h[s \ {Max(s)}], q[Max(s)])
    <3>1. CASE i \in s
      <4>1. Max(s) = i
        BY <3>1, MaxOfRange
      <4>2. h[s] = Back(g[s \ {i}], q[i])
        BY <3>1
      <4>3. g[s \ {i}] = h[s \ {i}]
        BY <2>2, <2>3
      <4>4. QED
        BY <3>1, <4>1, <4>2, <4>3
    <3>2. CASE i \notin s
      <4>1. s \in SUBSET W
        BY <3>2, <2>2
      <4>2. h[s] = g[s]
        BY <3>2
      <4>3. g[s] = IF s = {} THEN Accepted(d, << >>) ELSE Back(g[s \ {Max(s)}], q[Max(s)])
        BY <2>1, <4>1
      <4>4. s \ {Max(s)} \in SUBSET W
        BY <4>1
      <4>5. g[s \ {Max(s)}] = h[s \ {Max(s)}]
        BY <2>3, <4>4
      <4>6. QED
        BY <4>2, <4>3, <4>5
    <3>3. QED
      BY <3>1, <3>2
  <2>5. h = [s \in SUBSET (1 .. i) |-> h[s]]
    OBVIOUS
  <2> HIDE DEF h
  <2>6. h = Body(h, 1 .. i)
    BY <2>4, <2>5
  <2> HIDE DEF Body
  <2>7. \E f : f = Body(f, 1 .. i)
    BY <2>6
  <2>8. QED
    BY <2>7
<1>3. N \in K
  <2> HIDE DEF K
  <2>1. 0 .. N \subseteq K
    BY <1>1, <1>2, Climb
  <2>2. QED
    BY <2>1
<1> DEFINE g == CHOOSE g : g = Body(g, 1 .. N)
<1>4. g = Body(g, 1 .. N)
  BY <1>3
<1>5. RolledThrough(d, q) = g[1 .. N]
  BY DEF RolledThrough, FoldLeft, MapThenFoldSet, Back
<1> HIDE DEF g
<1>6. \A s \in SUBSET (1 .. N) :
         g[s] = IF s = {} THEN Accepted(d, << >>) ELSE Back(g[s \ {Max(s)}], q[Max(s)])
  BY <1>4
<1> DEFINE F == [i \in 0 .. N |-> g[1 .. i]]
<1>7. F[0] = Accepted(d, << >>)
  <2>1. 1 .. 0 = {}
    OBVIOUS
  <2>2. g[{}] = Accepted(d, << >>)
    BY <1>6
  <2>3. QED
    BY <2>1, <2>2
<1>8. ASSUME NEW i \in 1 .. N PROVE F[i] = Back(F[i - 1], q[i])
  <2>1. Max(1 .. i) = i
    BY MaxOfRange
  <2>2. (1 .. i) \ {i} = 1 .. (i - 1) /\ 1 .. i # {} /\ 1 .. i \in SUBSET (1 .. N)
    BY UpToLess
  <2>3. g[1 .. i] = Back(g[1 .. (i - 1)], q[i])
    BY <1>6, <2>1, <2>2
  <2>4. QED
    BY <2>3
<1>9. RolledThrough(d, q) = F[N]
  BY <1>5
<1> HIDE DEF F
<1>10. QED
  BY <1>7, <1>8, <1>9

-----------------------------------------------------------------------------
(* What a run and a rollback return *)

(* What running steps from d returns. *)
IsResult(r, d, C, T, M) ==
  /\ r.ok \in BOOLEAN
  /\ Within(r.doc, C, T, M)
  /\ IsZoned(d) => IsZoned(r.doc)
  /\ AreSteps(r.inverse, C, T, M)

LEMMA AtRest ==
  ASSUME NEW C, NEW T, NEW M, NEW d, Within(d, C, T, M)
  PROVE  IsResult(Accepted(d, << >>), d, C, T, M) /\ IsResult(Rejected(d), d, C, T, M)
  BY NoSteps DEF IsResult, Accepted, Rejected

LEMMA StepsAreSteps ==
  ASSUME NEW C, NEW T, NEW M, NEW q, AreSteps(q, C, T, M)
  PROVE  /\ DOMAIN q = 1 .. Len(q) /\ Len(q) \in Nat
         /\ \A i \in 1 .. Len(q) : IsStep(q[i], C, T, M)
         /\ q # << >> => Len(q) > 0
<1>1. /\ DOMAIN q = 1 .. Len(q) /\ Len(q) \in Nat /\ \A i \in DOMAIN q : q[i] \in ToSet(q)
  BY ListFacts DEF AreSteps
<1>2. q # << >> => Len(q) # 0
  BY EmptySeq DEF AreSteps
<1>3. QED
  BY <1>1, <1>2 DEF AreSteps

LEMMA RunUntilFailureResult ==
  ASSUME NEW C \in SUBSET ClipId, IsFiniteSet(C), NEW T \in SUBSET TrackId,
         NEW M \in SUBSET Media, NEW d, Within(d, C, T, M), NEW q, AreSteps(q, C, T, M)
  PROVE  LET r == RunUntilFailure(d, q) IN
         /\ IsResult(r, d, C, T, M)
         /\ r.ok /\ q # << >> => r.inverse # << >>
<1> DEFINE N == Len(q)
<1>1. /\ DOMAIN q = 1 .. N /\ N \in Nat /\ \A i \in 1 .. N : IsStep(q[i], C, T, M)
      /\ q # << >> => N > 0
  BY StepsAreSteps
<1>2. PICK F : /\ F[0] = Accepted(d, << >>)
               /\ \A i \in 1 .. N : F[i] = Then(F[i - 1], q[i])
               /\ RunUntilFailure(d, q) = F[N]
  BY <1>1, RunFolds
<1> DEFINE B == {i \in 0 .. N : /\ IsResult(F[i], d, C, T, M)
                                /\ F[i].ok /\ i > 0 => F[i].inverse # << >>}
<1>3. 0 \in B
  BY <1>1, <1>2, AtRest
<1>4. ASSUME NEW i \in 1 .. N, i - 1 \in B PROVE i \in B
  <2> DEFINE p == F[i - 1]
             r == RunStep(p.doc, q[i])
  <2>1. IsResult(p, d, C, T, M) /\ F[i] = Then(p, q[i]) /\ IsStep(q[i], C, T, M) /\ i \in 0 .. N
    BY <1>1, <1>2, <1>4
  <2> HIDE DEF p
  <2>2. IsOutcome(r, p.doc, C, T, M)
    BY <2>1, RunStepOutcome DEF IsResult
  <2> HIDE DEF r
  <2>3. AreSteps(r.inverse \o p.inverse, C, T, M)
        /\ (r.ok => r.inverse \o p.inverse # << >>)
    BY <2>1, <2>2, MoreSteps DEF IsResult, IsOutcome
  <2> DEFINE e == [ok |-> r.ok, doc |-> r.doc, inverse |-> r.inverse \o p.inverse]
  <2>4. IsResult(e, d, C, T, M) /\ (e.ok => e.inverse # << >>)
    BY <2>1, <2>2, <2>3 DEF IsResult, IsOutcome
  <2>5. F[i] = IF ~p.ok THEN p ELSE e
    BY <2>1 DEF Then, r
  <2> HIDE DEF e
  <2>6. CASE ~p.ok
    BY <2>1, <2>5, <2>6
  <2>7. CASE p.ok
    BY <2>1, <2>4, <2>5, <2>7
  <2>8. QED
    BY <2>6, <2>7
<1>5. N \in B
  <2> HIDE DEF B
  <2>1. 0 .. N \subseteq B
    BY <1>1, <1>3, <1>4, Climb
  <2>2. QED
    BY <2>1, <1>1
<1>6. QED
  BY <1>1, <1>2, <1>5

LEMMA RunResult ==
  ASSUME NEW C \in SUBSET ClipId, IsFiniteSet(C), NEW T \in SUBSET TrackId,
         NEW M \in SUBSET Media, NEW d, Within(d, C, T, M), NEW q, AreSteps(q, C, T, M)
  PROVE  LET r == Run(d, q) IN
         /\ IsResult(r, d, C, T, M)
         /\ r.ok /\ q # << >> => r.inverse # << >>
<1> DEFINE r == RunUntilFailure(d, q)
           u == RunUntilFailure(r.doc, r.inverse)
<1>1. IsResult(r, d, C, T, M) /\ (r.ok /\ q # << >> => r.inverse # << >>)
  BY RunUntilFailureResult
<1>0. Run(d, q) = IF r.ok THEN r ELSE Rejected(u.doc)
  BY DEF Run
<1> HIDE DEF r
<1>2. IsResult(u, r.doc, C, T, M)
  BY <1>1, RunUntilFailureResult DEF IsResult
<1> HIDE DEF u
<1>3. IsResult(Rejected(u.doc), d, C, T, M) /\ ~Rejected(u.doc).ok
  BY <1>1, <1>2, AtRest, NoSteps DEF IsResult, Rejected
<1>4. QED
  BY <1>0, <1>1, <1>3

LEMMA ReverseFacts ==
  ASSUME NEW X, NEW q \in Seq(X)
  PROVE  /\ Reverse(q) \in Seq(X) /\ Len(Reverse(q)) = Len(q) /\ DOMAIN Reverse(q) = 1 .. Len(q)
         /\ \A i \in 1 .. Len(q) : Reverse(q)[i] = q[Len(q) - i + 1] /\ Len(q) - i + 1 \in 1 .. Len(q)
<1> DEFINE n == Len(q)
           r == [i \in 1 .. n |-> q[n - i + 1]]
<1>1. n \in Nat /\ DOMAIN q = 1 .. n /\ \A i \in 1 .. n : q[i] \in X
  BY ListFacts
<1>2. \A i \in 1 .. n : n - i + 1 \in 1 .. n
  BY <1>1
<1>3. r \in [1 .. n -> X]
  BY <1>1, <1>2
<1>4. r \in Seq(X) /\ Len(r) = n
  BY <1>1, <1>3, SeqDef
<1>5. Reverse(q) = r
  BY DEF Reverse
<1>6. QED
  BY <1>2, <1>3, <1>4, <1>5

LEMMA RolledBackResult ==
  ASSUME NEW C \in SUBSET ClipId, IsFiniteSet(C), NEW T \in SUBSET TrackId,
         NEW M \in SUBSET Media, NEW d, Within(d, C, T, M), NEW X, NEW scripts \in Seq(X),
         \A i \in DOMAIN scripts : AreSteps(scripts[i], C, T, M)
  PROVE  IsResult(RolledBack(d, scripts), d, C, T, M)
<1> DEFINE q == Reverse(scripts)
           N == Len(q)
<1>1. DOMAIN q = 1 .. N /\ N \in Nat /\ \A i \in 1 .. N : AreSteps(q[i], C, T, M)
  <2>1. DOMAIN scripts = 1 .. Len(scripts) /\ Len(scripts) \in Nat
    BY ListFacts
  <2>2. QED
    BY <2>1, ReverseFacts
<1> HIDE DEF q
<1>2. PICK F : /\ F[0] = Accepted(d, << >>)
               /\ \A i \in 1 .. N : F[i] = Back(F[i - 1], q[i])
               /\ RolledThrough(d, q) = F[N]
  BY <1>1, RollFolds
<1> DEFINE B == {i \in 0 .. N : IsResult(F[i], d, C, T, M)}
<1>3. 0 \in B
  BY <1>1, <1>2, AtRest
<1>4. ASSUME NEW i \in 1 .. N, i - 1 \in B PROVE i \in B
  <2> DEFINE p == F[i - 1]
             r == Run(p.doc, q[i])
  <2>1. IsResult(p, d, C, T, M) /\ F[i] = Back(p, q[i]) /\ AreSteps(q[i], C, T, M) /\ i \in 0 .. N
    BY <1>1, <1>2, <1>4
  <2> HIDE DEF p
  <2>2. IsResult(r, p.doc, C, T, M)
    BY <2>1, RunResult DEF IsResult
  <2>3. F[i] = IF p.ok THEN r ELSE p
    BY <2>1 DEF Back
  <2> HIDE DEF r
  <2>4. IsResult(r, d, C, T, M)
    BY <2>1, <2>2 DEF IsResult
  <2>5. QED
    BY <2>1, <2>3, <2>4
<1>5. N \in B
  <2> HIDE DEF B
  <2>1. 0 .. N \subseteq B
    BY <1>1, <1>3, <1>4, Climb
  <2>2. QED
    BY <2>1, <1>1
<1>6. QED
  BY <1>2, <1>5, RolledReverse DEF q

LEMMA FlattenFolds ==
  ASSUME NEW q, DOMAIN q = 1 .. Len(q), Len(q) \in Nat \ {0}
  PROVE  \E F : /\ F[1] = q[1]
                /\ \A i \in 2 .. Len(q) : F[i] = F[i - 1] \o q[i]
                /\ FlattenSeq(q) = F[Len(q)]
<1> DEFINE N == Len(q)
           Body(g, k) == [i \in 1 .. k |-> IF i = 1 THEN q[i] ELSE g[i - 1] \o q[i]]
           K == {k \in Nat : \E g : g = Body(g, k)}
<1>1. 0 \in K
  <2> DEFINE g == [i \in 1 .. 0 |-> << >>]
  <2>1. 1 .. 0 = {}
    OBVIOUS
  <2>2. g = Body(g, 0)
    BY <2>1
  <2>3. QED
    BY <2>2
<1>2. ASSUME NEW k \in 1 .. N, k - 1 \in K PROVE k \in K
  <2>1. PICK g : g = Body(g, k - 1)
    BY <1>2
  <2> DEFINE h == [i \in 1 .. k |-> IF i = k THEN (IF k = 1 THEN q[1] ELSE g[k - 1] \o q[k])
                                    ELSE g[i]]
  <2>2. ASSUME NEW i \in 1 .. k
        PROVE  h[i] = IF i = 1 THEN q[i] ELSE h[i - 1] \o q[i]
    <3>1. CASE i = k
      <4>1. k # 1 => h[k - 1] = g[k - 1]
        OBVIOUS
      <4>2. h[i] = IF k = 1 THEN q[1] ELSE g[k - 1] \o q[k]
        BY <3>1
      <4> HIDE DEF h
      <4>3. QED
        BY <3>1, <4>1, <4>2
    <3>2. CASE i # k
      <4>1. i \in 1 .. (k - 1) /\ (i # 1 => i - 1 \in 1 .. k /\ i - 1 # k)
        BY <3>2
      <4>2. h[i] = g[i] /\ (i # 1 => h[i - 1] = g[i - 1])
        BY <3>2, <4>1
      <4> HIDE DEF h
      <4>3. g[i] = IF i = 1 THEN q[i] ELSE g[i - 1] \o q[i]
        BY <2>1, <4>1
      <4>4. QED
        BY <4>2, <4>3
    <3>3. QED
      BY <3>1, <3>2
  <2>3. h = [i \in 1 .. k |-> h[i]]
    OBVIOUS
  <2> HIDE DEF h
  <2>4. h = Body(h, k)
    BY <2>2, <2>3
  <2> HIDE DEF Body
  <2>5. \E f : f = Body(f, k)
    BY <2>4
  <2>6. QED
    BY <2>5
<1>3. N \in K
  <2> HIDE DEF K
  <2>1. 0 .. N \subseteq K
    BY <1>1, <1>2, Climb
  <2>2. QED
    BY <2>1
<1> DEFINE g == CHOOSE g : g = Body(g, N)
<1>4. g = Body(g, N)
  BY <1>3
<1>5. FlattenSeq(q) = g[N]
  BY DEF FlattenSeq
<1> HIDE DEF g
<1>6. \A i \in 1 .. N : g[i] = IF i = 1 THEN q[i] ELSE g[i - 1] \o q[i]
  BY <1>4
<1>7. g[1] = q[1]
  BY <1>6
<1>8. ASSUME NEW i \in 2 .. N PROVE g[i] = g[i - 1] \o q[i]
  <2>1. i \in 1 .. N /\ i # 1
    OBVIOUS
  <2>2. QED
    BY <1>6, <2>1
<1>9. QED
  BY <1>5, <1>7, <1>8

LEMMA FlattenSteps ==
  ASSUME NEW C, NEW T, NEW M, NEW q, DOMAIN q = 1 .. Len(q), Len(q) \in Nat \ {0},
         \A i \in 1 .. Len(q) : AreSteps(q[i], C, T, M) /\ q[i] # << >>
  PROVE  AreSteps(FlattenSeq(q), C, T, M) /\ FlattenSeq(q) # << >>
<1> DEFINE N == Len(q)
<1>1. PICK F : /\ F[1] = q[1]
               /\ \A i \in 2 .. N : F[i] = F[i - 1] \o q[i]
               /\ FlattenSeq(q) = F[N]
  BY FlattenFolds
<1> DEFINE B == {i \in 0 .. N : i > 0 => AreSteps(F[i], C, T, M) /\ F[i] # << >>}
<1>2. 0 \in B
  OBVIOUS
<1>3. ASSUME NEW i \in 1 .. N, i - 1 \in B PROVE i \in B
  <2>0. AreSteps(q[i], C, T, M) /\ q[i] # << >> /\ i \in 0 .. N
    OBVIOUS
  <2>1. CASE i = 1
    BY <2>0, <2>1, <1>1
  <2>2. CASE i # 1
    <3>1. AreSteps(F[i - 1], C, T, M) /\ F[i] = F[i - 1] \o q[i]
      <4>1. i - 1 > 0 /\ i \in 2 .. N
        BY <2>2
      <4>2. QED
        BY <4>1, <1>1, <1>3
    <3>2. AreSteps(F[i], C, T, M) /\ F[i] # << >>
      BY <2>0, <3>1, MoreSteps
    <3>3. QED
      BY <2>0, <3>2
  <2>3. QED
    BY <2>1, <2>2
<1>4. N \in B
  <2> HIDE DEF B
  <2>1. 0 .. N \subseteq B
    BY <1>2, <1>3, Climb
  <2>2. QED
    BY <2>1
<1>5. QED
  BY <1>1, <1>4

-----------------------------------------------------------------------------
(* What each edit returns *)

LEMMA AddTrackOutcome ==
  ASSUME NEW C \in SUBSET ClipId, NEW T \in SUBSET TrackId, NEW M, NEW d, Within(d, C, T, M),
         NEW t \in T, t \notin Lanes(d), NEW kind \in Kind, NEW index \in Nat \ {0}
  PROVE  IsOutcome(AddTrack(d, t, kind, index), d, C, T, M)
<1> DEFINE n == NewTrack(kind)
           e == InsertTrack(d, t, n, index)
           s == [op |-> "RemoveTrack", id |-> t]
<1>1. IsTrack(n)
  <2>1. IsJunctions(<< >>)
    BY DEF IsJunctions, IsPartial
  <2> DEFINE j == << >>
  <2> HIDE DEF j
  <2>2. IsTrack([kind |-> kind, main |-> FALSE, junctions |-> j])
    BY <2>1 DEF IsTrack, j
  <2>3. QED
    BY <2>2 DEF NewTrack, j
<1>2. /\ IsStacked(d) /\ IsClips(d.clips) /\ d.pool \subseteq Media /\ d.pool \subseteq M
      /\ \A c \in Placed(d) : d.clips[c].track \in Lanes(d)
      /\ Lanes(d) \subseteq T /\ Placed(d) \subseteq C
  BY StackedFacts DEF Within
<1> HIDE DEF n
<1>3. /\ IsStacked(e) /\ IsZoned(e) /\ Restacked(d, e)
      /\ Lanes(e) = Lanes(d) \cup {t}
  BY <1>1, <1>2, InsertTrackFacts
<1> HIDE DEF e
<1>4. Within(e, C, T, M)
  BY <1>2, <1>3, StackedFacts DEF Within, Restacked, Placed
<1>5. IsStep(s, C, T, M)
  BY DEF IsStep
<1>6. AddTrack(d, t, kind, index) = Accepted(e, <<s>>)
  BY DEF AddTrack, e, n
<1> HIDE DEF s
<1>7. QED
  BY <1>3, <1>4, <1>5, <1>6, LeafOutcome

LEMMA AddClipOutcome ==
  ASSUME NEW C \in SUBSET ClipId, NEW T, NEW M, NEW d, Within(d, C, T, M),
         NEW c \in C, NEW t \in TrackId, NEW m \in Media,
         NEW in \in Int, NEW len \in Int, NEW start \in Int
  PROVE  IsOutcome(AddClip(d, c, t, m, in, len, start), d, C, T, M)
<1> DEFINE k == MediaClip(t, m, in, len, start)
<1>1. IsOutcome(Rejected(d), d, C, T, M)
  BY LeafOutcome
<1>2. WindowFits(in, len) => k \in Clip
  BY DEF WindowFits, MediaClip, Clip, Content
<1> HIDE DEF k
<1>3. WindowFits(in, len) => IsOutcome(InsertClip(d, c, k), d, C, T, M)
  BY <1>2, InsertClipOutcome
<1>4. QED
  BY <1>1, <1>3 DEF AddClip, k

LEMMA AddGeneratedOutcome ==
  ASSUME NEW C \in SUBSET ClipId, NEW T, NEW M, NEW d, Within(d, C, T, M),
         NEW c \in C, NEW t \in TrackId, NEW content \in Generated,
         NEW start \in Int, NEW dur \in Int
  PROVE  IsOutcome(AddGenerated(d, c, t, content, start, dur), d, C, T, M)
<1> DEFINE k == GeneratedClip(t, content, start, dur)
<1>1. IsOutcome(Rejected(d), d, C, T, M)
  BY LeafOutcome
<1>2. dur > 0 => k \in Clip
  BY DEF GeneratedClip, Clip, Content
<1> HIDE DEF k
<1>3. dur > 0 => IsOutcome(InsertClip(d, c, k), d, C, T, M)
  BY <1>2, InsertClipOutcome
<1>4. QED
  BY <1>1, <1>3 DEF AddGenerated, k

LEMMA PutAt ==
  ASSUME NEW k \in Clip, NEW t \in TrackId, NEW s \in Int
  PROVE  LET l == [k EXCEPT !.track = t, !.start = s] IN
         l \in Clip /\ l.track = t /\ l.start = s /\ l.content = k.content /\ l.dur = k.dur
         /\ l.in = k.in /\ l.len = k.len /\ l.speed = k.speed
<1> DEFINE m == [k EXCEPT !.track = t]
           l == [m EXCEPT !.start = s]
<1>1. [k EXCEPT !.track = t, !.start = s] = l
  OBVIOUS
<1>2. /\ m \in Clip /\ m.track = t /\ m.content = k.content /\ m.dur = k.dur
      /\ m.in = k.in /\ m.len = k.len /\ m.speed = k.speed
  BY DEF Clip
<1> HIDE DEF m
<1>3. /\ l \in Clip /\ l.start = s /\ l.track = m.track /\ l.content = m.content /\ l.dur = m.dur
      /\ l.in = m.in /\ l.len = m.len /\ l.speed = m.speed
  BY <1>2 DEF Clip
<1> HIDE DEF l
<1>4. QED
  BY <1>1, <1>2, <1>3

LEMMA DuplicateClipOutcome ==
  ASSUME NEW C \in SUBSET ClipId, NEW T, NEW M, NEW d, Within(d, C, T, M),
         NEW c \in C, NEW of, NEW t \in TrackId, NEW start \in Int
  PROVE  IsOutcome(DuplicateClip(d, c, of, t, start), d, C, T, M)
<1> DEFINE k == [d.clips[of] EXCEPT !.track = t, !.start = start]
<1>1. IsOutcome(Rejected(d), d, C, T, M)
  BY LeafOutcome
<1>2. of \in Placed(d) => k \in Clip
  BY PlacedFacts, PutAt
<1>0. DuplicateClip(d, c, of, t, start) =
        IF start >= 0 /\ of \in Placed(d) THEN InsertClip(d, c, k) ELSE Rejected(d)
  BY DEF DuplicateClip
<1> HIDE DEF k
<1>3. of \in Placed(d) => IsOutcome(InsertClip(d, c, k), d, C, T, M)
  BY <1>2, InsertClipOutcome
<1>4. QED
  BY <1>0, <1>1, <1>3

LEMMA ClipFields ==
  ASSUME NEW k \in Clip
  PROVE  /\ k.track \in TrackId /\ k.content \in Content /\ k.start \in Int
         /\ k.dur \in Nat /\ k.dur > 0 /\ k.in \in Nat /\ k.len \in Nat
         /\ k.speed \in Nat /\ k.speed > 0
  BY DEF Clip

(* The clips the edits make of a clip, and what they keep of it. *)
WithExtent(k, start, dur) == [k EXCEPT !.start = start, !.dur = dur]

LEMMA NewExtent ==
  ASSUME NEW k \in Clip, NEW start \in Int, NEW dur \in Nat \ {0}
  PROVE  LET l == WithExtent(k, start, dur) IN
         /\ l \in Clip /\ l.track = k.track /\ l.content = k.content
         /\ l.start = start /\ l.dur = dur /\ l.in = k.in /\ l.len = k.len /\ l.speed = k.speed
<1> DEFINE t == k.track
           c == k.content
           s == k.start
           u == k.dur
           i == k.in
           n == k.len
           v == k.speed
           a == [k EXCEPT !.start = start]
           b == [a EXCEPT !.dur = dur]
<1>1. k = [track |-> t, content |-> c, start |-> s, dur |-> u, in |-> i, len |-> n, speed |-> v]
  BY DEF Clip
<1>2. /\ t \in TrackId /\ c \in Content /\ s \in Int /\ u \in Nat \ {0} /\ i \in Nat
      /\ n \in Nat /\ v \in Nat \ {0}
  BY ClipFields
<1>3. WithExtent(k, start, dur) = b
  BY DEF WithExtent
<1> HIDE DEF t, c, s, u, i, n, v
<1>4. a = [track |-> t, content |-> c, start |-> start, dur |-> u, in |-> i, len |-> n, speed |-> v]
  BY <1>1
<1> HIDE DEF a
<1>5. b = [track |-> t, content |-> c, start |-> start, dur |-> dur, in |-> i, len |-> n, speed |-> v]
  BY <1>4
<1> HIDE DEF b
<1>6. QED
  BY <1>1, <1>2, <1>3, <1>5 DEF Clip

WithWindow(k, start, dur, in, len) == [k EXCEPT !.start = start, !.dur = dur, !.in = in, !.len = len]

LEMMA NewWindow ==
  ASSUME NEW k \in Clip, NEW start \in Int, NEW dur \in Nat \ {0}, NEW in \in Nat, NEW len \in Nat
  PROVE  LET l == WithWindow(k, start, dur, in, len) IN
         /\ l \in Clip /\ l.track = k.track /\ l.content = k.content
         /\ l.start = start /\ l.dur = dur /\ l.in = in /\ l.len = len /\ l.speed = k.speed
<1> DEFINE t == k.track
           c == k.content
           s == k.start
           u == k.dur
           i == k.in
           n == k.len
           v == k.speed
           a == [k EXCEPT !.start = start]
           b == [a EXCEPT !.dur = dur]
           e == [b EXCEPT !.in = in]
           f == [e EXCEPT !.len = len]
<1>1. k = [track |-> t, content |-> c, start |-> s, dur |-> u, in |-> i, len |-> n, speed |-> v]
  BY DEF Clip
<1>2. /\ t \in TrackId /\ c \in Content /\ s \in Int /\ u \in Nat \ {0} /\ i \in Nat
      /\ n \in Nat /\ v \in Nat \ {0}
  BY ClipFields
<1>3. WithWindow(k, start, dur, in, len) = f
  BY DEF WithWindow
<1> HIDE DEF t, c, s, u, i, n, v
<1>4. a = [track |-> t, content |-> c, start |-> start, dur |-> u, in |-> i, len |-> n, speed |-> v]
  BY <1>1
<1> HIDE DEF a
<1>5. b = [track |-> t, content |-> c, start |-> start, dur |-> dur, in |-> i, len |-> n, speed |-> v]
  BY <1>4
<1> HIDE DEF b
<1>6. e = [track |-> t, content |-> c, start |-> start, dur |-> dur, in |-> in, len |-> n, speed |-> v]
  BY <1>5
<1> HIDE DEF e
<1>7. f = [track |-> t, content |-> c, start |-> start, dur |-> dur, in |-> in, len |-> len, speed |-> v]
  BY <1>6
<1> HIDE DEF f
<1>8. QED
  BY <1>1, <1>2, <1>3, <1>7 DEF Clip

WithLength(k, dur, len) == [k EXCEPT !.dur = dur, !.len = len]

LEMMA NewLength ==
  ASSUME NEW k \in Clip, NEW dur \in Nat \ {0}, NEW len \in Nat
  PROVE  LET l == WithLength(k, dur, len) IN
         /\ l \in Clip /\ l.track = k.track /\ l.content = k.content
         /\ l.start = k.start /\ l.dur = dur /\ l.in = k.in /\ l.len = len /\ l.speed = k.speed
<1> DEFINE t == k.track
           c == k.content
           s == k.start
           u == k.dur
           i == k.in
           n == k.len
           v == k.speed
           a == [k EXCEPT !.dur = dur]
           b == [a EXCEPT !.len = len]
<1>1. k = [track |-> t, content |-> c, start |-> s, dur |-> u, in |-> i, len |-> n, speed |-> v]
  BY DEF Clip
<1>2. /\ t \in TrackId /\ c \in Content /\ s \in Int /\ u \in Nat \ {0} /\ i \in Nat
      /\ n \in Nat /\ v \in Nat \ {0}
  BY ClipFields
<1>3. WithLength(k, dur, len) = b
  BY DEF WithLength
<1> HIDE DEF t, c, s, u, i, n, v
<1>4. a = [track |-> t, content |-> c, start |-> s, dur |-> dur, in |-> i, len |-> n, speed |-> v]
  BY <1>1
<1> HIDE DEF a
<1>5. b = [track |-> t, content |-> c, start |-> s, dur |-> dur, in |-> i, len |-> len, speed |-> v]
  BY <1>4
<1> HIDE DEF b
<1>6. QED
  BY <1>1, <1>2, <1>3, <1>5 DEF Clip

WithSpeed(k, speed, dur) == [k EXCEPT !.speed = speed, !.dur = dur]

LEMMA NewSpeed ==
  ASSUME NEW k \in Clip, NEW speed \in Nat \ {0}, NEW dur \in Nat \ {0}
  PROVE  LET l == WithSpeed(k, speed, dur) IN
         /\ l \in Clip /\ l.track = k.track /\ l.content = k.content
         /\ l.start = k.start /\ l.dur = dur /\ l.in = k.in /\ l.len = k.len /\ l.speed = speed
<1> DEFINE t == k.track
           c == k.content
           s == k.start
           u == k.dur
           i == k.in
           n == k.len
           v == k.speed
           a == [k EXCEPT !.speed = speed]
           b == [a EXCEPT !.dur = dur]
<1>1. k = [track |-> t, content |-> c, start |-> s, dur |-> u, in |-> i, len |-> n, speed |-> v]
  BY DEF Clip
<1>2. /\ t \in TrackId /\ c \in Content /\ s \in Int /\ u \in Nat \ {0} /\ i \in Nat
      /\ n \in Nat /\ v \in Nat \ {0}
  BY ClipFields
<1>3. WithSpeed(k, speed, dur) = b
  BY DEF WithSpeed
<1> HIDE DEF t, c, s, u, i, n, v
<1>4. a = [track |-> t, content |-> c, start |-> s, dur |-> u, in |-> i, len |-> n, speed |-> speed]
  BY <1>1
<1> HIDE DEF a
<1>5. b = [track |-> t, content |-> c, start |-> s, dur |-> dur, in |-> i, len |-> n, speed |-> speed]
  BY <1>4
<1> HIDE DEF b
<1>6. QED
  BY <1>1, <1>2, <1>3, <1>5 DEF Clip

LEMMA TrimmedFacts ==
  ASSUME NEW k \in Clip, NEW start \in Int, NEW dur \in Nat \ {0},
         LET l == Trimmed(k, start, dur) IN IsMedia(l) => WindowFits(l.in, l.len)
  PROVE  LET l == Trimmed(k, start, dur) IN
         l \in Clip /\ l.track = k.track /\ l.content = k.content /\ l.start = start /\ l.dur = dur
<1> DEFINE l == Trimmed(k, start, dur)
           i == k.in + (start - k.start) * k.speed
           n == dur * k.speed
           a == WithWindow(k, start, dur, i, n)
           b == WithExtent(k, start, dur)
<1>1. l = IF ~IsMedia(k) THEN b ELSE a
  BY DEF Trimmed, WithWindow, WithExtent
<1>2. CASE ~IsMedia(k)
  <2>1. b \in Clip /\ b.track = k.track /\ b.content = k.content /\ b.start = start /\ b.dur = dur
    BY NewExtent
  <2>2. QED
    BY <1>1, <1>2, <2>1
<1>3. CASE IsMedia(k)
  <2>1. l = a
    BY <1>1, <1>3
  <2>2. /\ a.content = k.content /\ a.in = i /\ a.len = n
    <3>1. DOMAIN k = {"track", "content", "start", "dur", "in", "len", "speed"}
      BY DEF Clip
    <3>2. QED
      BY <3>1 DEF WithWindow
  <2>3. i \in Int /\ n \in Int
    BY ClipFields
  <2> HIDE DEF l, i, n
  <2>4. WindowFits(i, n)
    BY <2>1, <2>2, <1>3 DEF l, IsMedia
  <2>5. i \in Nat /\ n \in Nat
    BY <2>3, <2>4 DEF WindowFits
  <2>6. a \in Clip /\ a.track = k.track /\ a.content = k.content /\ a.start = start /\ a.dur = dur
    BY <2>5, NewWindow
  <2>7. QED
    BY <2>1, <2>6 DEF l
<1>4. QED
  BY <1>2, <1>3

LEMMA RetimedFacts ==
  ASSUME NEW k \in Clip, NEW speed \in Nat \ {0}
  PROVE  LET l == Retimed(k, speed) IN
         /\ l \in Clip /\ l.track = k.track /\ l.content = k.content /\ l.start = k.start
         /\ l.in = k.in /\ l.len = k.len
<1> DEFINE n == IF k.len < speed THEN 1 ELSE k.len \div speed
           l == WithSpeed(k, speed, n)
<1>1. k.len \in Nat
  BY ClipFields
<1>2. ASSUME NEW a \in Nat, NEW b \in Nat \ {0}, ~(a < b) PROVE a \div b \in Nat \ {0}
  <2>1. a \div b \in Int /\ a = b * (a \div b) + (a % b) /\ a % b < b /\ a % b >= 0
    OBVIOUS
  <2>2. a \div b > 0
    BY <1>2, <2>1
  <2>3. QED
    BY <2>1, <2>2
<1>3. n \in Nat \ {0}
  BY <1>1, <1>2
<1> HIDE DEF n
<1>4. /\ l \in Clip /\ l.track = k.track /\ l.content = k.content /\ l.start = k.start
      /\ l.in = k.in /\ l.len = k.len
  BY <1>3, NewSpeed
<1>5. QED
  BY <1>4 DEF Retimed, WithSpeed, n

LEMMA HalvesFacts ==
  ASSUME NEW k \in Clip, NEW at \in Int, CanSplit(k, at)
  PROVE  /\ LeftHalf(k, at) \in Clip /\ LeftHalf(k, at).track = k.track
         /\ LeftHalf(k, at).content = k.content /\ LeftHalf(k, at).start = k.start
         /\ LeftHalf(k, at).dur = at - k.start
         /\ LeftHalf(k, at).in = k.in /\ LeftHalf(k, at).len = Consumed(k, at)
         /\ RightHalf(k, at) \in Clip /\ RightHalf(k, at).track = k.track
         /\ RightHalf(k, at).content = k.content /\ RightHalf(k, at).start = at
         /\ RightHalf(k, at).dur = End(k) - at
         /\ RightHalf(k, at).in = k.in + Consumed(k, at)
         /\ RightHalf(k, at).len = k.len - Consumed(k, at)
<1> DEFINE n == Consumed(k, at)
           u == at - k.start
           w == End(k) - at
<1>1. u \in Nat \ {0} /\ w \in Nat \ {0}
  BY ClipFields DEF CanSplit, End
<1>2. n \in Nat /\ k.len - n \in Nat /\ k.in + n \in Nat
  <2>1. n \in Int
    BY ClipFields DEF Consumed
  <2>2. CASE IsMedia(k)
    BY <2>1, <2>2, ClipFields DEF CanSplit
  <2>3. CASE ~IsMedia(k)
    BY <2>3, ClipFields DEF Consumed
  <2>4. QED
    BY <2>2, <2>3
<1>3. /\ LeftHalf(k, at) = WithLength(k, u, n)
      /\ RightHalf(k, at) = WithWindow(k, at, w, k.in + n, k.len - n)
  BY DEF LeftHalf, RightHalf, WithLength, WithWindow
<1> DEFINE i == k.in + n
           m == k.len - n
<1> HIDE DEF n, u, w, i, m
<1>4. LET l == WithLength(k, u, n) IN
              /\ l \in Clip /\ l.track = k.track /\ l.content = k.content
              /\ l.start = k.start /\ l.dur = u /\ l.in = k.in /\ l.len = n
  BY <1>1, <1>2, NewLength
<1>5. LET l == WithWindow(k, at, w, i, m) IN
              /\ l \in Clip /\ l.track = k.track /\ l.content = k.content
              /\ l.start = at /\ l.dur = w /\ l.in = i /\ l.len = m
  <2>1. i \in Nat /\ m \in Nat
    BY <1>2 DEF i, m
  <2>2. QED
    BY <1>1, <2>1, NewWindow
<1>6. QED
  BY <1>3, <1>4, <1>5 DEF n, u, w, i, m

LEMMA SplitClipOutcome ==
  ASSUME NEW C \in SUBSET ClipId, NEW T, NEW M, NEW d, Within(d, C, T, M),
         NEW c \in C, NEW of, NEW at \in Int
  PROVE  IsOutcome(SplitClip(d, c, of, at), d, C, T, M)
<1> DEFINE k == d.clips[of]
           head == LeftHalf(k, at)
           tail == RightHalf(k, at)
           m == WithClip(d, of, head)
           e == WithClip(m, c, tail)
           s == [op |-> "MergeSplit", id |-> of, clip |-> k, tail |-> c]
           guard == of \in Placed(d) /\ CanSplit(k, at)
<1>0. SplitClip(d, c, of, at) = Try(guard, d, e, s) /\ guard \in BOOLEAN
  BY DEF SplitClip, CanSplit
<1>1. guard => of \in Placed(d) /\ CanSplit(k, at)
  OBVIOUS
<1>2. of \in Placed(d) => of \in C /\ k \in Clip /\ k.track \in Lanes(d)
  BY PlacedFacts
<1>3. guard => IsStep(s, C, T, M)
  BY <1>2 DEF IsStep
<1> HIDE DEF guard, s, k
<1>4. ASSUME guard
      PROVE  of \in C /\ head \in Clip /\ head.track \in Lanes(d) /\ tail \in Clip /\ tail.track \in Lanes(d)
  BY <1>1, <1>2, <1>4, HalvesFacts
<1> HIDE DEF head, tail
<1>5. ASSUME guard
      PROVE  Within(m, C, T, M) /\ (IsZoned(d) <=> IsZoned(m)) /\ Lanes(m) = Lanes(d)
  <2>1. of \in C /\ head \in Clip /\ head.track \in Lanes(d)
    BY <1>4, <1>5
  <2>2. QED
    BY <2>1, WithClipWithin
<1> HIDE DEF m
<1>6. ASSUME guard
      PROVE  Within(e, C, T, M) /\ (IsZoned(m) <=> IsZoned(e))
  <2>1. Within(m, C, T, M) /\ tail \in Clip /\ tail.track \in Lanes(m)
    BY <1>4, <1>5, <1>6
  <2>2. QED
    BY <2>1, WithClipWithin
<1> HIDE DEF e
<1>7. guard => Within(e, C, T, M) /\ (IsZoned(d) => IsZoned(e)) /\ IsStep(s, C, T, M)
  BY <1>3, <1>5, <1>6
<1>8. IsOutcome(Try(guard, d, e, s), d, C, T, M)
  BY <1>0, <1>7, TryOutcome
<1>9. QED
  BY <1>0, <1>8

LEMMA ReplaceOutcome ==
  ASSUME NEW C \in SUBSET ClipId, NEW T, NEW M, NEW d, Within(d, C, T, M), NEW c, NEW k \in Clip
  PROVE  IsOutcome(Replace(d, c, k), d, C, T, M)
  BY LeafOutcome, RestoreClipOutcome DEF Replace

LEMMA TrimClipOutcome ==
  ASSUME NEW C \in SUBSET ClipId, NEW T, NEW M, NEW d, Within(d, C, T, M), NEW c,
         NEW start \in Int, NEW dur \in Int
  PROVE  IsOutcome(TrimClip(d, c, start, dur), d, C, T, M)
<1> DEFINE k == Trimmed(d.clips[c], start, dur)
           guard == c \in Placed(d) /\ dur > 0 /\ (IsMedia(k) => WindowFits(k.in, k.len))
<1>1. IsOutcome(Rejected(d), d, C, T, M)
  BY LeafOutcome
<1>2. ASSUME guard PROVE k \in Clip
  <2>1. d.clips[c] \in Clip /\ dur \in Nat \ {0}
    BY <1>2, PlacedFacts
  <2>2. LET l == Trimmed(d.clips[c], start, dur) IN IsMedia(l) => WindowFits(l.in, l.len)
    BY <1>2
  <2>3. QED
    BY <2>1, <2>2, TrimmedFacts
<1>3. TrimClip(d, c, start, dur) = IF guard THEN Replace(d, c, k) ELSE Rejected(d)
  BY DEF TrimClip
<1> HIDE DEF k, guard
<1>4. guard => IsOutcome(Replace(d, c, k), d, C, T, M)
  BY <1>2, ReplaceOutcome
<1>5. QED
  BY <1>1, <1>3, <1>4

LEMMA SetClipSpeedOutcome ==
  ASSUME NEW C \in SUBSET ClipId, NEW T, NEW M, NEW d, Within(d, C, T, M), NEW c,
         NEW speed \in Int
  PROVE  IsOutcome(SetClipSpeed(d, c, speed), d, C, T, M)
<1> DEFINE k == Retimed(d.clips[c], speed)
           guard == c \in Placed(d) /\ speed > 0 /\ IsMedia(d.clips[c])
<1>1. IsOutcome(Rejected(d), d, C, T, M)
  BY LeafOutcome
<1>2. ASSUME guard PROVE k \in Clip
  <2>1. d.clips[c] \in Clip /\ speed \in Nat \ {0}
    BY <1>2, PlacedFacts
  <2>2. QED
    BY <2>1, RetimedFacts
<1>3. SetClipSpeed(d, c, speed) = IF guard THEN Replace(d, c, k) ELSE Rejected(d)
  BY DEF SetClipSpeed
<1> HIDE DEF k, guard
<1>4. guard => IsOutcome(Replace(d, c, k), d, C, T, M)
  BY <1>2, ReplaceOutcome
<1>5. QED
  BY <1>1, <1>3, <1>4

LEMMA RippleInsertOutcome ==
  ASSUME NEW C \in SUBSET ClipId, IsFiniteSet(C), NEW T \in SUBSET TrackId,
         NEW M \in SUBSET Media, NEW d, Within(d, C, T, M),
         NEW c \in C, NEW t \in TrackId, NEW m \in Media, NEW in \in Int, NEW len \in Int,
         NEW at \in Int
  PROVE  IsOutcome(RippleInsert(d, c, t, m, in, len, at), d, C, T, M)
<1> DEFINE w == Max({1, len})
           hole == ShiftClips(d, t, at, w)
           add == AddClip(hole.doc, c, t, m, in, len, at)
           back == Run(hole.doc, hole.inverse)
<1>0. RippleInsert(d, c, t, m, in, len, at) =
        CASE ~hole.ok -> Rejected(d)
          [] hole.ok /\ add.ok -> Accepted(add.doc, add.inverse \o hole.inverse)
          [] hole.ok /\ ~add.ok -> Rejected(back.doc)
  BY DEF RippleInsert
<1>1. w \in Int
  BY DEF Max
<1> HIDE DEF w
<1>2. IsOutcome(hole, d, C, T, M)
  BY <1>1, ShiftClipsOutcome
<1> HIDE DEF hole
<1>3. /\ Within(hole.doc, C, T, M) /\ (IsZoned(d) => IsZoned(hole.doc))
      /\ AreSteps(hole.inverse, C, T, M) /\ hole.ok \in BOOLEAN
  BY <1>2 DEF IsOutcome
<1>4. IsOutcome(add, hole.doc, C, T, M)
  BY <1>3, AddClipOutcome
<1>5. IsResult(back, hole.doc, C, T, M)
  BY <1>3, RunResult
<1> HIDE DEF add, back
<1>6. IsOutcome(Rejected(d), d, C, T, M) /\ IsOutcome(Rejected(back.doc), d, C, T, M)
  BY <1>3, <1>5, LeafOutcome DEF IsResult
<1>7. add.ok => IsOutcome(Accepted(add.doc, add.inverse \o hole.inverse), d, C, T, M)
  <2>1. AreSteps(add.inverse \o hole.inverse, C, T, M)
        /\ (add.ok => add.inverse \o hole.inverse # << >>)
    BY <1>3, <1>4, MoreSteps DEF IsOutcome
  <2>2. QED
    BY <1>3, <1>4, <2>1 DEF IsOutcome, Accepted
<1>8. add.ok \in BOOLEAN
  BY <1>4 DEF IsOutcome
<1>9. QED
  BY <1>0, <1>3, <1>6, <1>7, <1>8

LEMMA SetJunctionsOutcome ==
  ASSUME NEW C \in SUBSET ClipId, NEW T, NEW M, NEW d, Within(d, C, T, M),
         NEW t \in Lanes(d), NEW js, IsJunctions(js)
  PROVE  IsOutcome(SetJunctions(d, t, js), d, C, T, M)
<1> DEFINE all == [x \in Lanes(d) |-> IF x = t THEN js ELSE d.tracks[x].junctions]
           f == [d.tracks EXCEPT ![t].junctions = js]
           e == [d EXCEPT !.tracks = f]
           s == [op |-> "RestoreTransitions", snapshot |-> Transitions(d)]
<1>1. \A x \in Lanes(d) : IsJunctions(all[x])
  BY JunctionsOf
<1>2. DOMAIN f = Lanes(d) /\ f = [x \in DOMAIN f |-> f[x]]
  BY DEF Lanes
<1>3. ASSUME NEW x \in Lanes(d)
      PROVE  f[x] = [d.tracks[x] EXCEPT !.junctions = all[x]]
  <2>1. CASE x = t
    BY <2>1 DEF Lanes
  <2>2. CASE x # t
    <3> DEFINE r == d.tracks[x]
    <3>1. f[x] = r /\ all[x] = r.junctions
      BY <2>2 DEF Lanes
    <3>2. IsTrack(r)
      BY JunctionsOf
    <3> HIDE DEF r
    <3>3. r = [kind |-> r.kind, main |-> r.main, junctions |-> r.junctions]
      BY <3>2 DEF IsTrack
    <3>4. [r EXCEPT !.junctions = r.junctions] = r
      BY <3>2, <3>3, RejoinedTrack
    <3>5. QED
      BY <3>1, <3>4 DEF r
  <2>3. QED
    BY <2>1, <2>2
<1> HIDE DEF f, all
<1>4. Within(e, C, T, M) /\ Rejoined(d, e, all)
  BY <1>1, <1>2, <1>3, RejoinWithin
<1>5. WithJunctions(d, t, js) = e
  BY DEF WithJunctions, f
<1>6. IsStep(s, C, T, M)
  BY TransitionsFacts
<1> HIDE DEF e, s
<1>7. IsOutcome(Accepted(e, <<s>>), d, C, T, M)
  BY <1>4, <1>6, LeafOutcome DEF Rejoined
<1>8. QED
  BY <1>5, <1>7 DEF SetJunctions, s

LEMMA AddTransitionOutcome ==
  ASSUME NEW C \in SUBSET ClipId, NEW T, NEW M, NEW d, Within(d, C, T, M), NEW left
  PROVE  IsOutcome(AddTransition(d, left), d, C, T, M)
<1> DEFINE t == d.clips[left].track
           js == d.tracks[t].junctions
           r == CHOOSE c \in RightNeighbors(d, left) : TRUE
           more == [x \in DOMAIN js \cup {left} |->
                      IF x = left THEN [right |-> r, window |-> DefaultWindow] ELSE js[x]]
           guard == SupportsTransitions(d.tracks[t].kind) /\ RightNeighbors(d, left) # {}
<1>1. IsOutcome(Rejected(d), d, C, T, M)
  BY LeafOutcome
<1>2. CASE left \in Placed(d) /\ guard
  <2>1. t \in Lanes(d) /\ left \in ClipId
    BY <1>2, PlacedFacts
  <2>2. IsJunctions(js)
    BY <2>1, JunctionsOf
  <2>3. r \in Placed(d)
    BY <1>2 DEF RightNeighbors, ClipsOn
  <2> HIDE DEF r
  <2>4. r \in ClipId
    BY <2>3, PlacedFacts
  <2>5. IsJunctions(more)
    <3>1. [right |-> r, window |-> DefaultWindow] \in Junction
      BY <2>4 DEF Junction, DefaultWindow
    <3> DEFINE j == [right |-> r, window |-> DefaultWindow]
    <3> HIDE DEF js, j
    <3>2. DOMAIN more = DOMAIN js \cup {left} /\ more = [x \in DOMAIN more |-> more[x]]
          /\ \A x \in DOMAIN more : more[x] = IF x = left THEN j ELSE js[x]
      BY DEF j
    <3> HIDE DEF more
    <3>3. QED
      BY <2>1, <2>2, <3>1, <3>2 DEF IsJunctions, IsPartial, j
  <2>6. AddTransition(d, left) = SetJunctions(d, t, more)
    BY <1>2 DEF AddTransition, r
  <2> HIDE DEF t, more
  <2>7. QED
    BY <2>1, <2>5, <2>6, SetJunctionsOutcome
<1>3. CASE ~(left \in Placed(d) /\ guard)
  <2>1. AddTransition(d, left) = Rejected(d)
    BY <1>3 DEF AddTransition
  <2>2. QED
    BY <1>1, <2>1
<1>4. QED
  BY <1>2, <1>3

LEMMA HasJunctionFacts ==
  ASSUME NEW C, NEW T, NEW M, NEW d, Within(d, C, T, M), NEW left, HasJunction(d, left)
  PROVE  LET t == d.clips[left].track IN
         t \in Lanes(d) /\ IsJunctions(d.tracks[t].junctions) /\ left \in DOMAIN d.tracks[t].junctions
<1>1. d.clips[left].track \in Lanes(d)
  BY PlacedFacts DEF HasJunction
<1>2. QED
  BY <1>1, JunctionsOf DEF HasJunction

LEMMA RemoveTransitionOutcome ==
  ASSUME NEW C \in SUBSET ClipId, NEW T, NEW M, NEW d, Within(d, C, T, M), NEW left
  PROVE  IsOutcome(RemoveTransition(d, left), d, C, T, M)
<1> DEFINE t == d.clips[left].track
           js == d.tracks[t].junctions
           fewer == Restrict(js, DOMAIN js \ {left})
<1>1. IsOutcome(Rejected(d), d, C, T, M)
  BY LeafOutcome
<1>2. CASE HasJunction(d, left)
  <2>1. t \in Lanes(d) /\ IsJunctions(js)
    BY <1>2, HasJunctionFacts
  <2> HIDE DEF js
  <2>2. IsJunctions(fewer)
    BY <2>1, FewerJunctions
  <2>3. RemoveTransition(d, left) = SetJunctions(d, t, fewer)
    BY <1>2 DEF RemoveTransition, js
  <2> HIDE DEF t, fewer
  <2>4. QED
    BY <2>1, <2>2, <2>3, SetJunctionsOutcome
<1>3. QED
  BY <1>1, <1>2 DEF RemoveTransition

LEMMA SetTransitionOutcome ==
  ASSUME NEW C \in SUBSET ClipId, NEW T, NEW M, NEW d, Within(d, C, T, M), NEW left,
         NEW window \in Int
  PROVE  IsOutcome(SetTransition(d, left, window), d, C, T, M)
<1> DEFINE t == d.clips[left].track
           js == d.tracks[t].junctions
           w == IF window < 1 THEN 1 ELSE window
           f == [js EXCEPT ![left].window = w]
<1>1. IsOutcome(Rejected(d), d, C, T, M)
  BY LeafOutcome
<1>2. CASE HasJunction(d, left)
  <2>1. t \in Lanes(d) /\ IsJunctions(js) /\ left \in DOMAIN js
    BY <1>2, HasJunctionFacts
  <2>2. SetTransition(d, left, window) = SetJunctions(d, t, f)
    BY <1>2 DEF SetTransition
  <2>3. w \in Nat \ {0}
    OBVIOUS
  <2> HIDE DEF js, w
  <2>4. IsJunctions(f)
    <3>1. js[left] \in Junction
      BY <2>1 DEF IsJunctions
    <3> DEFINE j == js[left]
    <3> HIDE DEF j
    <3>2. [j EXCEPT !.window = w] \in Junction
      BY <3>1, <2>3 DEF Junction, j
    <3>3. f = [js EXCEPT ![left] = [j EXCEPT !.window = w]]
      BY DEF j
    <3> HIDE DEF f
    <3>4. DOMAIN f = DOMAIN js /\ f = [x \in DOMAIN f |-> f[x]]
          /\ \A x \in DOMAIN f : f[x] \in Junction
      BY <2>1, <3>2, <3>3 DEF IsJunctions
    <3>5. QED
      BY <2>1, <3>4 DEF IsJunctions, IsPartial
  <2> HIDE DEF t, f
  <2>5. QED
    BY <2>1, <2>2, <2>4, SetJunctionsOutcome
<1>3. QED
  BY <1>1, <1>2 DEF SetTransition

-----------------------------------------------------------------------------
(* The core of a document *)

(* What undo brings back of the lanes: what they are and the transitions on *)
(* them; their order and the main flag when the sessions are Tidy.          *)
Lane(r) == [kind |-> r.kind, junctions |-> r.junctions]

Stack(d) ==
  [lanes |-> [t \in Lanes(d) |-> Lane(d.tracks[t])],
   order |-> IF Tidy THEN d.order ELSE << >>,
   tracks |-> IF Tidy THEN d.tracks ELSE << >>]

(* What undo brings back of a document.  No more decides whether a step is  *)
(* accepted.                                                                *)
Core(d) == [clips |-> d.clips, stack |-> Stack(d), pool |-> d.pool]

(* ClipsFit of a core, with no clip before the start of the timeline, and   *)
(* LanesZoned.                                                              *)
Solid(x) ==
  /\ \A c \in DOMAIN x.clips :
       LET k == x.clips[c] IN
       /\ k.start >= 0
       /\ Accepts(x.stack.lanes[k.track].kind, k.content)
       /\ IsMedia(k) => WindowFits(k.in, k.len) /\ k.content \in x.pool
       /\ \A b \in DOMAIN x.clips \ {c} :
            x.clips[b].track = k.track => ~Overlaps(x.clips[b], k)
  /\ \A d : Tidy /\ IsDocument(d) /\ Core(d) = x => IsZoned(d)

(* A lane that can go and come back: it is not main, or no other lane is a  *)
(* video lane, or none is a sticker lane, which would change places with    *)
(* the video lane that is main meanwhile.                                   *)
Reversible(d, t) ==
  ~d.tracks[t].main \/ VideoLanes(d) = {t} \/ \A u \in Lanes(d) : d.tracks[u].kind # "sticker"

Removable(d, t) == Tidy => Reversible(d, t)

Removes(s, x) ==
  \A d : IsDocument(d) /\ Core(d) = x => Removable(d, s.id)

(* A lane moved on from y to where s says it came from.                     *)
Moves(s, x, y) ==
  \A d, e : Tidy /\ IsDocument(d) /\ Core(d) = x /\ IsDocument(e) /\ Core(e) = y =>
    Reorder(e, s.id, s.to) = d

(* What a step needs beyond being accepted to lead from x to y and back.    *)
Cleared(s, x, y) ==
  /\ s.op = "InsertMedia" => s.medium \notin x.pool
  /\ s.op = "RemoveTrack" => Removes(s, x)
  /\ s.op = "InsertTrack" => Removes(s, y)
  /\ s.op = "MoveTrack" => Moves(s, x, y)

(* Step s is accepted on every document with core x, and leaves core y.     *)
Leads(s, x, y) ==
  /\ Solid(x) /\ Cleared(s, x, y)
  /\ \A e : IsDocument(e) /\ Core(e) = x => RunStep(e, s).ok /\ Core(RunStep(e, s).doc) = y

(* The steps of q lead from core x to core y one by one.                    *)
Path(q, x, y) ==
  \E D : /\ D[0] = x /\ D[Len(q)] = y
         /\ \A i \in 1 .. Len(q) : Leads(q[i], D[i - 1], D[i])

LEMMA LaneFields ==
  ASSUME NEW r, NEW q
  PROVE  /\ Lane(r).kind = r.kind /\ Lane(r).junctions = r.junctions
         /\ Lane(r) = Lane(q) <=> r.kind = q.kind /\ r.junctions = q.junctions
  BY DEF Lane

LEMMA SameStack ==
  ASSUME NEW d, NEW e
  PROVE  Stack(d) = Stack(e) <=>
           /\ Lanes(d) = Lanes(e) /\ \A t \in Lanes(d) : Lane(d.tracks[t]) = Lane(e.tracks[t])
           /\ Tidy => d.order = e.order /\ d.tracks = e.tracks
<1> DEFINE f == [t \in Lanes(d) |-> Lane(d.tracks[t])]
           g == [t \in Lanes(e) |-> Lane(e.tracks[t])]
<1>1. Stack(d) = Stack(e) <=> f = g /\ (Tidy => d.order = e.order /\ d.tracks = e.tracks)
  BY DEF Stack
<1>2. DOMAIN f = Lanes(d) /\ DOMAIN g = Lanes(e)
      /\ (\A t \in Lanes(d) : f[t] = Lane(d.tracks[t])) /\ (\A t \in Lanes(e) : g[t] = Lane(e.tracks[t]))
  OBVIOUS
<1>3. f = g => Lanes(d) = Lanes(e) /\ \A t \in Lanes(d) : Lane(d.tracks[t]) = Lane(e.tracks[t])
  <2> HIDE DEF f, g
  <2>1. QED
    BY <1>2
<1>4. Lanes(d) = Lanes(e) /\ (\A t \in Lanes(d) : Lane(d.tracks[t]) = Lane(e.tracks[t])) => f = g
  OBVIOUS
<1> HIDE DEF f, g
<1>5. QED
  BY <1>1, <1>3, <1>4

LEMMA SameCore ==
  ASSUME NEW d, NEW e
  PROVE  Core(d) = Core(e) <=> d.clips = e.clips /\ d.pool = e.pool /\ Stack(d) = Stack(e)
  BY DEF Core

(* Lanes as they were, in the order they were.                              *)
LEMMA StackKept ==
  ASSUME NEW d, NEW e, e.tracks = d.tracks, Tidy => e.order = d.order
  PROVE  Stack(e) = Stack(d) /\ Lanes(e) = Lanes(d)
<1>1. Lanes(e) = Lanes(d)
  BY DEF Lanes
<1>2. QED
  BY <1>1, SameStack

LEMMA StackShared ==
  ASSUME NEW d, NEW e, Stack(e) = Stack(d)
  PROVE  /\ Lanes(e) = Lanes(d)
         /\ \A t \in Lanes(d) : /\ e.tracks[t].kind = d.tracks[t].kind
                                /\ e.tracks[t].junctions = d.tracks[t].junctions
<1>1. Lanes(e) = Lanes(d) /\ \A t \in Lanes(d) : Lane(e.tracks[t]) = Lane(d.tracks[t])
  BY SameStack
<1>2. QED
  BY <1>1, LaneFields

(* Tidy sessions see whole documents come back.                             *)
LEMMA TidyCore ==
  ASSUME Tidy, NEW d, IsDocument(d), NEW e, IsDocument(e), Core(e) = Core(d)
  PROVE  e = d
<1>1. e.clips = d.clips /\ e.pool = d.pool /\ e.order = d.order /\ e.tracks = d.tracks
  BY SameCore, SameStack
<1>2. QED
  BY <1>1 DEF IsDocument

LEMMA CoreFields ==
  ASSUME NEW d
  PROVE  /\ Core(d).clips = d.clips /\ Core(d).pool = d.pool
         /\ DOMAIN Core(d).stack.lanes = Lanes(d)
         /\ \A t \in Lanes(d) : /\ Core(d).stack.lanes[t].kind = d.tracks[t].kind
                                /\ Core(d).stack.lanes[t].junctions = d.tracks[t].junctions
<1>1. DOMAIN Core(d).stack.lanes = Lanes(d) /\ \A t \in Lanes(d) : Core(d).stack.lanes[t] = Lane(d.tracks[t])
  BY DEF Core, Stack
<1>2. QED
  BY <1>1, LaneFields DEF Core

LEMMA SolidZoned ==
  ASSUME NEW d, IsDocument(d)
  PROVE  (\A e : Tidy /\ IsDocument(e) /\ Core(e) = Core(d) => IsZoned(e)) <=> (Tidy => IsZoned(d))
<1>1. ASSUME Tidy, NEW e, IsDocument(e), Core(e) = Core(d) PROVE e = d
  BY <1>1, TidyCore
<1>2. QED
  BY <1>1

(* Whether a lane can go is told by the core.                               *)
LEMMA RemovesThere ==
  ASSUME NEW d, IsDocument(d), NEW s
  PROVE  Removes(s, Core(d)) <=> Removable(d, s.id)
<1>1. ASSUME Tidy, NEW e, IsDocument(e), Core(e) = Core(d) PROVE e = d
  BY <1>1, TidyCore
<1>2. CASE Tidy
  BY <1>1, <1>2 DEF Removes
<1>3. CASE ~Tidy
  BY <1>3 DEF Removes, Removable
<1>4. QED
  BY <1>2, <1>3

LEMMA MovesThere ==
  ASSUME NEW d, IsDocument(d), NEW e, IsDocument(e), NEW s
  PROVE  Moves(s, Core(d), Core(e)) <=> (Tidy => Reorder(e, s.id, s.to) = d)
<1>1. ASSUME Tidy, NEW f, IsDocument(f), Core(f) = Core(d) PROVE f = d
  BY <1>1, TidyCore
<1>2. ASSUME Tidy, NEW f, IsDocument(f), Core(f) = Core(e) PROVE f = e
  BY <1>2, TidyCore
<1>3. QED
  BY <1>1, <1>2 DEF Moves

LEMMA OwnIds ==
  ASSUME NEW d, IsDocument(d)
  PROVE  /\ Within(d, Placed(d), Lanes(d), d.pool)
         /\ Placed(d) \in SUBSET ClipId /\ Lanes(d) \in SUBSET TrackId /\ d.pool \in SUBSET Media
         /\ \A c \in Placed(d) : d.clips[c] \in Clip /\ d.clips[c].track \in Lanes(d)
         /\ IsPartial(d.clips, ClipId)
<1>1. IsClips(d.clips) /\ IsTracks(d.tracks) /\ d.pool \subseteq Media
      /\ \A c \in Placed(d) : d.clips[c].track \in Lanes(d)
  BY DEF IsDocument
<1>2. Within(d, Placed(d), Lanes(d), d.pool)
  BY DEF Within
<1>3. Lanes(d) \in SUBSET TrackId
  BY <1>1 DEF IsTracks, IsPartial, Lanes
<1>4. QED
  BY <1>1, <1>2, <1>3 DEF IsClips, IsPartial, Placed

LEMMA SolidDocument ==
  ASSUME NEW d, IsDocument(d)
  PROVE  Solid(Core(d)) <=> /\ \A c \in Placed(d) : Fits(d, c) /\ d.clips[c].start >= 0
                            /\ Tidy => IsZoned(d)
<1> DEFINE P(c) == LET k == d.clips[c] IN
                   /\ k.start >= 0
                   /\ Accepts(Core(d).stack.lanes[k.track].kind, k.content)
                   /\ IsMedia(k) => WindowFits(k.in, k.len) /\ k.content \in d.pool
                   /\ \A b \in Placed(d) \ {c} : d.clips[b].track = k.track => ~Overlaps(d.clips[b], k)
           Z == \A e : Tidy /\ IsDocument(e) /\ Core(e) = Core(d) => IsZoned(e)
<1>1. Solid(Core(d)) <=> (\A c \in Placed(d) : P(c)) /\ Z
  BY CoreFields DEF Solid, Placed
<1>2. ASSUME NEW c \in Placed(d)
      PROVE  P(c) <=> Fits(d, c) /\ d.clips[c].start >= 0
  <2> DEFINE k == d.clips[c]
  <2>1. k.track \in Lanes(d)
    BY OwnIds
  <2>2. Core(d).stack.lanes[k.track].kind = d.tracks[k.track].kind
    BY <2>1, CoreFields
  <2>3. HasOverlap(d, k.track, k, {c})
          <=> \E b \in Placed(d) \ {c} : d.clips[b].track = k.track /\ Overlaps(d.clips[b], k)
    BY DEF HasOverlap, ClipsOn
  <2> HIDE DEF k
  <2>4. QED
    BY <2>2, <2>3 DEF Fits, k
<1>3. Z <=> (Tidy => IsZoned(d))
  BY SolidZoned
<1> HIDE DEF P, Z
<1>4. QED
  BY <1>1, <1>2, <1>3

-----------------------------------------------------------------------------
(* Each step is reverted: clips *)

LEMMA SameFunction ==
  ASSUME NEW S, NEW f, NEW g, IsPartial(f, S), IsPartial(g, S), DOMAIN f = DOMAIN g,
         \A x \in DOMAIN f : f[x] = g[x]
  PROVE  f = g
  BY DEF IsPartial

LEMMA SameClip ==
  ASSUME NEW k \in Clip, NEW l \in Clip, k.track = l.track, k.content = l.content,
         k.start = l.start, k.dur = l.dur, k.in = l.in, k.len = l.len, k.speed = l.speed
  PROVE  k = l
  BY DEF Clip

LEMMA SameDocument ==
  ASSUME NEW d, IsDocument(d), NEW e, IsDocument(e), Placed(e) = Placed(d),
         \A c \in Placed(d) : e.clips[c] = d.clips[c],
         e.pool = d.pool, Lanes(e) = Lanes(d),
         Stack(e) = Stack(d)
  PROVE  Core(e) = Core(d)
<1>1. e.clips = d.clips
  BY OwnIds, SameFunction DEF Placed
<1>2. QED
  BY <1>1, SameCore

LEMMA CoreShared ==
  ASSUME NEW d, NEW e, Core(e) = Core(d)
  PROVE  /\ e.clips = d.clips /\ Placed(e) = Placed(d) /\ e.pool = d.pool /\ Lanes(e) = Lanes(d)
         /\ Stack(e) = Stack(d) /\ \A t \in Lanes(d) : e.tracks[t].kind = d.tracks[t].kind
<1>1. Stack(e) = Stack(d) /\ e.clips = d.clips /\ e.pool = d.pool
  BY SameCore
<1>2. QED
  BY <1>1, StackShared DEF Placed

LEMMA OwnLane ==
  ASSUME NEW k \in Clip, NEW l \in Clip, l.track = k.track
  PROVE  [k EXCEPT !.track = l.track] = k
<1> DEFINE t == k.track
           m == [k EXCEPT !.track = t]
<1>1. t \in TrackId
  BY ClipFields
<1>2. /\ m.content = k.content /\ m.start = k.start /\ m.dur = k.dur
      /\ m.in = k.in /\ m.len = k.len /\ m.speed = k.speed
  BY DEF Clip
<1> HIDE DEF t
<1>3. m \in Clip /\ m.track = t
  BY <1>1, OnLane
<1> HIDE DEF m
<1>4. m = k
  BY <1>2, <1>3, SameClip DEF t
<1>5. QED
  BY <1>4 DEF m, t

(* The lemmas about documents whose ids were handed out, of any document.   *)
LEMMA AnyIds ==
  ASSUME NEW d
  PROVE  IsDocument(d) <=> Within(d, ClipId, TrackId, Media)
<1>1. IsDocument(d) => Placed(d) \subseteq ClipId /\ Lanes(d) \subseteq TrackId /\ d.pool \subseteq Media
  BY DEF IsDocument, IsClips, IsTracks, IsPartial, Placed, Lanes
<1>2. QED
  BY <1>1 DEF Within

(* Editing the clips leaves the lanes and their order alone.                *)
LEMMA StackUntouched ==
  ASSUME NEW d, IsDocument(d), NEW f
  PROVE  LET e == [d EXCEPT !.clips = f] IN Stack(e) = Stack(d) /\ Lanes(e) = Lanes(d)
<1> DEFINE e == [d EXCEPT !.clips = f]
<1>1. e.order = d.order /\ e.tracks = d.tracks
  BY DEF IsDocument
<1> HIDE DEF e
<1>2. Stack(e) = Stack(d) /\ Lanes(e) = Lanes(d)
  BY <1>1, StackKept
<1>3. QED
  BY <1>2 DEF e

LEMMA ClippedAny ==
  ASSUME NEW d, Within(d, ClipId, TrackId, Media), NEW c \in ClipId, NEW k \in Clip, k.track \in Lanes(d)
  PROVE  LET e == WithClip(d, c, k) IN
         /\ Within(e, ClipId, TrackId, Media) /\ Placed(e) = Placed(d) \cup {c} /\ e.clips[c] = k
         /\ \A x \in Placed(d) \ {c} : e.clips[x] = d.clips[x]
         /\ e.tracks = d.tracks /\ Stack(e) = Stack(d) /\ Lanes(e) = Lanes(d) /\ e.pool = d.pool
<1> DEFINE e == WithClip(d, c, k)
<1>1. Stack(e) = Stack(d)
  <2>1. IsDocument(d)
    BY AnyIds
  <2>2. QED
    BY <2>1, StackUntouched DEF WithClip
<1>2. /\ Within(e, ClipId, TrackId, Media) /\ Placed(e) = Placed(d) \cup {c} /\ e.clips[c] = k
      /\ \A x \in Placed(d) \ {c} : e.clips[x] = d.clips[x]
      /\ e.tracks = d.tracks /\ Lanes(e) = Lanes(d) /\ e.pool = d.pool
  BY WithClipWithin
<1> HIDE DEF e
<1>3. QED
  BY <1>1, <1>2 DEF e

LEMMA Clipped ==
  ASSUME NEW d, IsDocument(d), NEW c \in ClipId, NEW k \in Clip, k.track \in Lanes(d)
  PROVE  LET e == WithClip(d, c, k) IN
         /\ IsDocument(e) /\ Placed(e) = Placed(d) \cup {c} /\ e.clips[c] = k
         /\ \A x \in Placed(d) \ {c} : e.clips[x] = d.clips[x]
         /\ e.tracks = d.tracks /\ Stack(e) = Stack(d) /\ Lanes(e) = Lanes(d) /\ e.pool = d.pool
  BY AnyIds, ClippedAny

LEMMA Unclipped ==
  ASSUME NEW d, IsDocument(d), NEW c
  PROVE  LET e == WithoutClip(d, c) IN
         /\ IsDocument(e) /\ Placed(e) = Placed(d) \ {c} /\ \A x \in Placed(e) : e.clips[x] = d.clips[x]
         /\ e.tracks = d.tracks /\ Stack(e) = Stack(d) /\ Lanes(e) = Lanes(d) /\ e.pool = d.pool
<1>1. Within(d, ClipId, TrackId, Media)
  BY AnyIds
<1> DEFINE e == WithoutClip(d, c)
<1>4. Stack(e) = Stack(d)
  BY StackUntouched DEF WithoutClip
<1>2. /\ Within(e, ClipId, TrackId, Media)
      /\ Placed(e) = Placed(d) \ {c} /\ \A x \in Placed(e) : e.clips[x] = d.clips[x]
      /\ e.tracks = d.tracks /\ Lanes(e) = Lanes(d) /\ e.pool = d.pool
  BY <1>1, WithoutClipWithin
<1> HIDE DEF e
<1>3. QED
  BY <1>2, <1>4, AnyIds DEF e

(* l is k with its start moved by delta when it is among those that move.   *)
Slid(l, k, moves, delta) ==
  /\ l \in Clip /\ l.track = k.track /\ l.content = k.content /\ l.dur = k.dur
  /\ l.in = k.in /\ l.len = k.len /\ l.speed = k.speed
  /\ l.start = k.start + (IF moves THEN delta ELSE 0)

LEMMA SlidClip ==
  ASSUME NEW k \in Clip, NEW moves, NEW delta \in Int
  PROVE  Slid([k EXCEPT !.start = k.start + (IF moves THEN delta ELSE 0)], k, moves, delta)
<1> DEFINE s == k.start + (IF moves THEN delta ELSE 0)
           l == [k EXCEPT !.start = s]
<1>1. s \in Int
  BY ClipFields
<1>2. /\ l.content = k.content /\ l.dur = k.dur
      /\ l.in = k.in /\ l.len = k.len /\ l.speed = k.speed
  BY DEF Clip
<1> HIDE DEF s
<1>3. l \in Clip /\ l.track = k.track /\ l.start = s
  BY <1>1, AtTick
<1> HIDE DEF l
<1>4. Slid(l, k, moves, delta)
  BY <1>2, <1>3 DEF Slid, s
<1>5. QED
  BY <1>4 DEF l, s

LEMMA ReclippedDocument ==
  ASSUME NEW d, IsDocument(d), NEW f, IsPartial(f, ClipId),
         \A c \in DOMAIN f : f[c] \in Clip /\ f[c].track \in Lanes(d)
  PROVE  LET e == [d EXCEPT !.clips = f] IN
         /\ IsDocument(e) /\ Placed(e) = DOMAIN f /\ e.clips = f
         /\ e.tracks = d.tracks /\ Stack(e) = Stack(d) /\ Lanes(e) = Lanes(d) /\ e.pool = d.pool
<1> DEFINE e == [d EXCEPT !.clips = f]
<1>1. IsStacked(d) /\ d.pool \subseteq Media
  BY StackedFacts
<1>2. /\ Shape(e) /\ e.order = d.order /\ e.tracks = d.tracks
      /\ e.clips = f /\ e.pool = d.pool
  BY <1>1, ReclippedFacts DEF IsStacked
<1> HIDE DEF e
<1>3. IsStacked(e) /\ Lanes(e) = Lanes(d) /\ Stack(e) = Stack(d)
  BY <1>1, <1>2, StackKept DEF IsStacked, Lanes
<1>4. IsClips(e.clips) /\ \A c \in Placed(e) : e.clips[c].track \in Lanes(e)
  BY <1>2, <1>3 DEF IsClips, Placed
<1>5. IsDocument(e)
  BY <1>1, <1>2, <1>3, <1>4, StackedFacts
<1>6. QED
  BY <1>2, <1>3, <1>5 DEF e, Placed

LEMMA ShiftedClips ==
  ASSUME NEW d, IsDocument(d), NEW t, NEW from \in Int, NEW delta \in Int
  PROVE  LET e == Shifted(d, t, from, delta) IN
         /\ IsDocument(e) /\ Placed(e) = Placed(d)
         /\ \A x \in Placed(d) : Slid(e.clips[x], d.clips[x], x \in AtOrAfter(d, t, from), delta)
         /\ e.tracks = d.tracks /\ Stack(e) = Stack(d) /\ Lanes(e) = Lanes(d) /\ e.pool = d.pool
<1> DEFINE at(x) == d.clips[x].start + (IF x \in AtOrAfter(d, t, from) THEN delta ELSE 0)
           g(x) == [d.clips[x] EXCEPT !.start = at(x)]
           f == [x \in Placed(d) |-> g(x)]
           e == [d EXCEPT !.clips = f]
<1>1. Shifted(d, t, from, delta) = e
  BY DEF Shifted, Placed
<1>2. ASSUME NEW x \in Placed(d)
      PROVE  /\ x \in ClipId /\ g(x).track \in Lanes(d) /\ g(x) \in Clip
             /\ Slid(g(x), d.clips[x], x \in AtOrAfter(d, t, from), delta)
  <2>1. d.clips[x] \in Clip /\ d.clips[x].track \in Lanes(d) /\ x \in ClipId
    BY OwnIds
  <2>2. Slid(g(x), d.clips[x], x \in AtOrAfter(d, t, from), delta)
    BY <2>1, SlidClip
  <2> HIDE DEF g
  <2>3. QED
    BY <2>1, <2>2 DEF Slid
<1>3. DOMAIN f = Placed(d) /\ f = [x \in DOMAIN f |-> f[x]]
      /\ \A x \in Placed(d) : f[x] = g(x)
  OBVIOUS
<1> HIDE DEF f, g
<1>4. IsPartial(f, ClipId) /\ \A x \in DOMAIN f : f[x] \in Clip /\ f[x].track \in Lanes(d)
  BY <1>2, <1>3 DEF IsPartial
<1>5. /\ IsDocument(e) /\ Placed(e) = DOMAIN f /\ e.clips = f
      /\ e.tracks = d.tracks /\ Stack(e) = Stack(d) /\ Lanes(e) = Lanes(d) /\ e.pool = d.pool
  BY <1>4, ReclippedDocument
<1> HIDE DEF e
<1>6. QED
  BY <1>1, <1>2, <1>3, <1>5

(* Putting back the clip that was taken away.                               *)
LEMMA ClipPutBack ==
  ASSUME NEW d, IsDocument(d), Solid(Core(d)), NEW c \in Placed(d),
         NEW e, IsDocument(e), Placed(e) = Placed(d) \ {c},
         \A x \in Placed(e) : e.clips[x] = d.clips[x],
         e.pool = d.pool, Lanes(e) = Lanes(d),
         Stack(e) = Stack(d)
  PROVE  CanAdd(e, c, d.clips[c]) /\ Core(WithClip(e, c, d.clips[c])) = Core(d)
<1> DEFINE k == d.clips[c]
<1>1. k \in Clip /\ k.track \in Lanes(d) /\ c \in Placed(d) /\ Placed(d) \in SUBSET ClipId
  BY OwnIds
<1>2. Fits(d, c)
  BY SolidDocument
<1>3. ~HasOverlap(e, k.track, k, {})
  BY <1>2 DEF Fits, HasOverlap, ClipsOn
<1>5. \A t \in Lanes(d) : e.tracks[t].kind = d.tracks[t].kind
  BY StackShared
<1>4. CanAdd(e, c, k)
  BY <1>1, <1>2, <1>3, <1>5 DEF CanAdd, Fits
<1> HIDE DEF k
<1> DEFINE g == WithClip(e, c, k)
<1>6. c \in ClipId /\ k.track \in Lanes(e)
  BY <1>1
<1>7. /\ IsDocument(g)
      /\ Placed(g) = Placed(e) \cup {c} /\ g.clips[c] = k
      /\ \A x \in Placed(e) \ {c} : g.clips[x] = e.clips[x]
      /\ g.tracks = e.tracks /\ Stack(g) = Stack(e) /\ Lanes(g) = Lanes(e) /\ g.pool = e.pool
  BY <1>1, <1>6, Clipped
<1> HIDE DEF g
<1>8. IsDocument(g) /\ Placed(g) = Placed(d) /\ \A x \in Placed(d) : g.clips[x] = d.clips[x]
  BY <1>1, <1>7 DEF k
<1>9. Core(g) = Core(d)
  BY <1>7, <1>8, SameDocument
<1>10. QED
  BY <1>4, <1>9 DEF g, k

LEMMA RemoveClipReverts ==
  ASSUME NEW d, IsDocument(d), Solid(Core(d)), NEW c \in Placed(d),
         NEW e, IsDocument(e), Core(e) = Core(WithoutClip(d, c))
  PROVE  LET r == InsertClip(e, c, d.clips[c]) IN r.ok /\ Core(r.doc) = Core(d)
<1> DEFINE f == WithoutClip(d, c)
<1>1. /\ Placed(f) = Placed(d) \ {c} /\ \A x \in Placed(f) : f.clips[x] = d.clips[x]
      /\ f.tracks = d.tracks /\ Stack(f) = Stack(d) /\ Lanes(f) = Lanes(d) /\ f.pool = d.pool
  BY Unclipped
<1> HIDE DEF f
<1>2. /\ e.clips = f.clips /\ Placed(e) = Placed(f) /\ e.pool = f.pool /\ Lanes(e) = Lanes(f)
      /\ Stack(e) = Stack(f)
  BY CoreShared DEF f
<1>3. CanAdd(e, c, d.clips[c]) /\ Core(WithClip(e, c, d.clips[c])) = Core(d)
  BY <1>1, <1>2, ClipPutBack
<1>4. QED
  BY <1>3 DEF InsertClip, Try, Accepted

LEMMA InsertClipReverts ==
  ASSUME NEW d, IsDocument(d), NEW c \in ClipId, NEW k \in Clip,
         CanAdd(d, c, k),
         NEW e, IsDocument(e), Core(e) = Core(WithClip(d, c, k))
  PROVE  LET r == RemoveClip(e, c) IN r.ok /\ Core(r.doc) = Core(d)
<1> DEFINE f == WithClip(d, c, k)
           g == WithoutClip(e, c)
<1>1. k.track \in Lanes(d) /\ c \notin Placed(d)
  BY DEF CanAdd
<1>2. /\ Placed(f) = Placed(d) \cup {c}
      /\ \A x \in Placed(d) \ {c} : f.clips[x] = d.clips[x]
      /\ f.tracks = d.tracks /\ Stack(f) = Stack(d) /\ Lanes(f) = Lanes(d) /\ f.pool = d.pool
  BY <1>1, Clipped
<1> HIDE DEF f
<1>3. /\ e.clips = f.clips /\ Placed(e) = Placed(f) /\ e.pool = f.pool /\ Lanes(e) = Lanes(f)
      /\ Stack(e) = Stack(f)
  BY CoreShared DEF f
<1>4. /\ IsDocument(g)
      /\ Placed(g) = Placed(e) \ {c} /\ \A x \in Placed(g) : g.clips[x] = e.clips[x]
      /\ g.tracks = e.tracks /\ Stack(g) = Stack(e) /\ Lanes(g) = Lanes(e) /\ g.pool = e.pool
  BY Unclipped
<1> HIDE DEF g
<1>5. /\ IsDocument(g) /\ Placed(g) = Placed(d) /\ \A x \in Placed(d) : g.clips[x] = d.clips[x]
      /\ g.pool = d.pool /\ Lanes(g) = Lanes(d)
      /\ Stack(g) = Stack(d)
  BY <1>1, <1>2, <1>3, <1>4
<1>6. Core(g) = Core(d)
  BY <1>1, <1>5, SameDocument
<1>7. c \in Placed(e)
  BY <1>2, <1>3
<1>8. QED
  BY <1>6, <1>7 DEF RemoveClip, Try, Accepted, g

(* Giving the clip back what it was before.                                 *)
LEMMA ClipChangedBack ==
  ASSUME NEW d, IsDocument(d), NEW c \in Placed(d),
         NEW e, IsDocument(e), Placed(e) = Placed(d),
         \A x \in Placed(d) \ {c} : e.clips[x] = d.clips[x],
         e.pool = d.pool, Lanes(e) = Lanes(d),
         Stack(e) = Stack(d)
  PROVE  Core(WithClip(e, c, d.clips[c])) = Core(d)
<1> DEFINE k == d.clips[c]
           g == WithClip(e, c, k)
<1>1. k \in Clip /\ k.track \in Lanes(e) /\ c \in Placed(e) /\ c \in ClipId
  BY OwnIds
<1>7. /\ IsDocument(g)
      /\ Placed(g) = Placed(e) \cup {c} /\ g.clips[c] = k
      /\ \A x \in Placed(e) \ {c} : g.clips[x] = e.clips[x]
      /\ g.tracks = e.tracks /\ Stack(g) = Stack(e) /\ Lanes(g) = Lanes(e) /\ g.pool = e.pool
  <2> HIDE DEF k
  <2>1. QED
    BY <1>1, Clipped
<1> HIDE DEF g
<1>8. IsDocument(g) /\ Placed(g) = Placed(d) /\ \A x \in Placed(d) : g.clips[x] = d.clips[x]
  BY <1>1, <1>7
<1>9. Core(g) = Core(d)
  BY <1>7, <1>8, SameDocument
<1>10. QED
  BY <1>9 DEF g

LEMMA RestoreClipReverts ==
  ASSUME NEW d, IsDocument(d), NEW c \in Placed(d), NEW k \in Clip,
         NEW e, IsDocument(e),
         Core(e) = Core(WithClip(d, c, [k EXCEPT !.track = d.clips[c].track]))
  PROVE  LET r == RestoreClip(e, c, d.clips[c]) IN r.ok /\ Core(r.doc) = Core(d)
<1> DEFINE t == d.clips[c].track
           l == [k EXCEPT !.track = t]
           f == WithClip(d, c, l)
<1>1. /\ d.clips[c] \in Clip /\ t \in Lanes(d) /\ t \in TrackId
      /\ c \in ClipId
  <2>1. Lanes(d) \in SUBSET TrackId
    BY OwnIds
  <2>2. QED
    BY <2>1, OwnIds
<1> HIDE DEF t
<1>2. l \in Clip /\ l.track = t
  BY <1>1, OnLane
<1>3. Core(e) = Core(f)
  BY DEF t
<1> HIDE DEF l
<1>4. /\ Placed(f) = Placed(d) \cup {c} /\ f.clips[c] = l
      /\ \A x \in Placed(d) \ {c} : f.clips[x] = d.clips[x]
      /\ f.tracks = d.tracks /\ Stack(f) = Stack(d) /\ Lanes(f) = Lanes(d) /\ f.pool = d.pool
  BY <1>1, <1>2, Clipped
<1> HIDE DEF f
<1>5. /\ e.clips = f.clips /\ Placed(e) = Placed(f) /\ e.pool = f.pool /\ Lanes(e) = Lanes(f)
      /\ Stack(e) = Stack(f)
  BY <1>3, CoreShared
<1>6. Core(WithClip(e, c, d.clips[c])) = Core(d)
  <2>1. Placed(e) = Placed(d)
    BY <1>4, <1>5
  <2>2. QED
    BY <1>4, <1>5, <2>1, ClipChangedBack
<1>7. [d.clips[c] EXCEPT !.track = e.clips[c].track] = d.clips[c]
  <2>1. e.clips[c] = l /\ l.track = d.clips[c].track
    BY <1>2, <1>4, <1>5 DEF t
  <2>2. QED
    BY <1>1, <1>2, <2>1, OwnLane
<1>8. c \in Placed(e)
  BY <1>4, <1>5
<1>9. QED
  BY <1>6, <1>7, <1>8 DEF RestoreClip, Try, Accepted

(* l is k put at s on lane t.                                               *)
Put(l, k, t, s) ==
  /\ l \in Clip /\ l.track = t /\ l.start = s /\ l.content = k.content /\ l.dur = k.dur
  /\ l.in = k.in /\ l.len = k.len /\ l.speed = k.speed

LEMMA PutClip ==
  ASSUME NEW k \in Clip, NEW t \in TrackId, NEW s \in Int
  PROVE  Put([k EXCEPT !.track = t, !.start = s], k, t, s)
  BY PutAt DEF Put

LEMMA MovedBack ==
  ASSUME NEW k \in Clip, NEW t \in TrackId, NEW s \in Int
  PROVE  LET l == [k EXCEPT !.track = t, !.start = s]
         IN  [l EXCEPT !.track = k.track, !.start = k.start] = k
<1> DEFINE l == [k EXCEPT !.track = t, !.start = s]
           u == k.track
           v == k.start
           m == [l EXCEPT !.track = u, !.start = v]
<1>1. Put(l, k, t, s)
  BY PutClip
<1>2. u \in TrackId /\ v \in Int
  BY ClipFields
<1> HIDE DEF l, u, v
<1>3. Put(m, l, u, v)
  <2>1. l \in Clip
    BY <1>1 DEF Put
  <2>2. QED
    BY <1>2, <2>1, PutClip
<1> HIDE DEF m
<1>4. m = k
  BY <1>1, <1>3, SameClip DEF u, v, Put
<1>5. QED
  BY <1>4 DEF m, l, u, v

(* A clip moved to lane t at start goes back to where d has it.             *)
Returned(d, c, t, start, e) ==
  Core(e) = Core(WithClip(d, c, [d.clips[c] EXCEPT !.track = t, !.start = start])) =>
    LET r == MoveClip(e, c, d.clips[c].track, d.clips[c].start) IN r.ok /\ Core(r.doc) = Core(d)

LEMMA MoveClipReverts ==
  ASSUME NEW d, IsDocument(d), Solid(Core(d)), NEW c \in Placed(d), NEW t \in Lanes(d), NEW start \in Int,
         NEW e, IsDocument(e)
  PROVE  Returned(d, c, t, start, e)
<1> SUFFICES ASSUME Core(e) = Core(WithClip(d, c, [d.clips[c] EXCEPT !.track = t, !.start = start]))
             PROVE  LET r == MoveClip(e, c, d.clips[c].track, d.clips[c].start) IN r.ok /\ Core(r.doc) = Core(d)
  BY DEF Returned
<1> DEFINE k == d.clips[c]
           l == [k EXCEPT !.track = t, !.start = start]
           f == WithClip(d, c, l)
<1>1. k \in Clip /\ k.track \in Lanes(d) /\ c \in ClipId /\ t \in TrackId
  BY OwnIds
<1>2. Fits(d, c) /\ k.start >= 0
  BY SolidDocument
<1>3. l \in Clip /\ l.track \in Lanes(d) /\ l.content = k.content
  <2>1. Put(l, k, t, start)
    BY <1>1, PutClip
  <2> HIDE DEF l
  <2>2. QED
    BY <2>1 DEF Put
<1>4. [l EXCEPT !.track = k.track, !.start = k.start] = k
  BY <1>1, MovedBack
<1>5. Core(e) = Core(f)
  OBVIOUS
<1> HIDE DEF l
<1>6. /\ Placed(f) = Placed(d) \cup {c} /\ f.clips[c] = l
      /\ \A x \in Placed(d) \ {c} : f.clips[x] = d.clips[x]
      /\ f.tracks = d.tracks /\ Stack(f) = Stack(d) /\ Lanes(f) = Lanes(d) /\ f.pool = d.pool
  BY <1>1, <1>3, Clipped
<1> HIDE DEF f
<1>7. /\ e.clips = f.clips /\ Placed(e) = Placed(f) /\ e.pool = f.pool /\ Lanes(e) = Lanes(f)
      /\ Stack(e) = Stack(f)
  BY <1>5, CoreShared
<1>8. /\ Placed(e) = Placed(d) /\ e.clips[c] = l /\ e.pool = d.pool /\ Lanes(e) = Lanes(d)
      /\ \A x \in Placed(d) \ {c} : e.clips[x] = d.clips[x]
      /\ Stack(e) = Stack(d)
  BY <1>6, <1>7
<1>9. Core(WithClip(e, c, k)) = Core(d)
  BY <1>8, ClipChangedBack
<1>10. ~HasOverlap(e, k.track, k, {c})
  <2> HIDE DEF k
  <2>1. ~HasOverlap(d, k.track, k, {c})
    BY <1>2 DEF Fits, k
  <2>2. QED
    BY <1>8, <2>1 DEF HasOverlap, ClipsOn
<1>11. Accepts(e.tracks[k.track].kind, k.content)
  <2>1. e.tracks[k.track].kind = d.tracks[k.track].kind
    BY <1>1, <1>8, StackShared
  <2>2. QED
    BY <1>2, <2>1 DEF Fits
<1> HIDE DEF k
<1>12. QED
  BY <1>1, <1>2, <1>4, <1>8, <1>9, <1>10, <1>11 DEF MoveClip, Try, Accepted, k

(* A shift back of the very clips that were shifted.                        *)
LEMMA ShiftedBack ==
  ASSUME NEW d, IsDocument(d), NEW t, NEW from \in Int, NEW delta \in Int,
         NEW e, IsDocument(e), Core(e) = Core(Shifted(d, t, from, delta)),
         NEW from2 \in Int, NEW delta2 \in Int, delta + delta2 = 0,
         AtOrAfter(e, t, from2) = AtOrAfter(d, t, from)
  PROVE  Core(Shifted(e, t, from2, delta2)) = Core(d)
<1> DEFINE f == Shifted(d, t, from, delta)
           g == Shifted(e, t, from2, delta2)
           S == AtOrAfter(d, t, from)
<1>1. /\ Placed(f) = Placed(d) /\ \A x \in Placed(d) : Slid(f.clips[x], d.clips[x], x \in S, delta)
      /\ f.tracks = d.tracks /\ Stack(f) = Stack(d) /\ Lanes(f) = Lanes(d) /\ f.pool = d.pool
  BY ShiftedClips
<1> HIDE DEF f
<1>2. /\ e.clips = f.clips /\ Placed(e) = Placed(f) /\ e.pool = f.pool /\ Lanes(e) = Lanes(f)
      /\ Stack(e) = Stack(f)
  BY CoreShared DEF f
<1>3. /\ IsDocument(g)
      /\ Placed(g) = Placed(e) /\ \A x \in Placed(e) : Slid(g.clips[x], e.clips[x], x \in S, delta2)
      /\ g.tracks = e.tracks /\ Stack(g) = Stack(e) /\ Lanes(g) = Lanes(e) /\ g.pool = e.pool
  BY ShiftedClips
<1> HIDE DEF g, S
<1>4. ASSUME NEW x \in Placed(d) PROVE g.clips[x] = d.clips[x]
  <2> DEFINE k == d.clips[x]
             l == f.clips[x]
             m == g.clips[x]
  <2>1. k \in Clip /\ k.start \in Int
    BY OwnIds, ClipFields
  <2>2. Slid(l, k, x \in S, delta) /\ Slid(m, l, x \in S, delta2)
    BY <1>1, <1>2, <1>3
  <2> HIDE DEF k, l, m
  <2>3. m.start = k.start
    BY <2>1, <2>2 DEF Slid
  <2>4. m = k
    BY <2>1, <2>2, <2>3, SameClip DEF Slid
  <2>5. QED
    BY <2>4 DEF m, k
<1>5. QED
  BY <1>1, <1>2, <1>3, <1>4, SameDocument DEF g

LEMMA Apart ==
  ASSUME NEW d, IsDocument(d), NEW c \in Placed(d), Fits(d, c),
         NEW x \in Placed(d), x # c, d.clips[x].track = d.clips[c].track
  PROVE  IF d.clips[x].start >= d.clips[c].start
         THEN d.clips[x].start >= End(d.clips[c])
         ELSE End(d.clips[x]) <= d.clips[c].start
<1> DEFINE k == d.clips[c]
           l == d.clips[x]
<1>1. k \in Clip /\ l \in Clip
  BY OwnIds
<1>2. ~Overlaps(l, k)
  BY DEF Fits, HasOverlap, ClipsOn
<1> HIDE DEF k, l
<1>3. IF l.start >= k.start THEN l.start >= End(k) ELSE End(l) <= k.start
  BY <1>1, <1>2, ClipFields DEF Overlaps, End
<1>4. QED
  BY <1>3 DEF k, l

LEMMA RippleDeleteReverts ==
  ASSUME NEW d, IsDocument(d), Solid(Core(d)), NEW c \in Placed(d),
         NEW e, IsDocument(e),
         Core(e) = LET k == d.clips[c] IN Core(Shifted(WithoutClip(d, c), k.track, k.start, -k.dur))
  PROVE  LET r == RestoreRipple(e, c, d.clips[c]) IN r.ok /\ Core(r.doc) = Core(d)
<1> DEFINE k == d.clips[c]
           t == k.track
           s == k.start
           n == k.dur
           m == -n
           g == WithoutClip(d, c)
           f == Shifted(g, t, s, m)
           opened == Shifted(e, t, s, n)
<1>1. k \in Clip /\ t \in Lanes(d) /\ c \in ClipId /\ Fits(d, c)
  BY OwnIds, SolidDocument
<1>2. s \in Int /\ n \in Nat /\ n > 0 /\ n \in Int /\ m \in Int /\ m + n = 0
  BY <1>1, ClipFields
<1>3. Core(e) = Core(f)
  OBVIOUS
<1>4. /\ IsDocument(g) /\ Placed(g) = Placed(d) \ {c} /\ \A x \in Placed(g) : g.clips[x] = d.clips[x]
      /\ g.tracks = d.tracks /\ Stack(g) = Stack(d) /\ Lanes(g) = Lanes(d) /\ g.pool = d.pool
  BY Unclipped
<1>5. \A x \in Placed(g) : d.clips[x].track = t /\ d.clips[x].start >= s => d.clips[x].start >= s + n
  BY <1>1, <1>4, Apart DEF End
<1> HIDE DEF k, t, s, n, m, g
<1>6. /\ Placed(f) = Placed(g)
      /\ \A x \in Placed(g) : Slid(f.clips[x], g.clips[x], x \in AtOrAfter(g, t, s), m)
      /\ f.tracks = g.tracks /\ Stack(f) = Stack(g) /\ Lanes(f) = Lanes(g) /\ f.pool = g.pool
  BY <1>2, <1>4, ShiftedClips
<1>7. /\ e.clips = f.clips /\ Placed(e) = Placed(f) /\ e.pool = f.pool /\ Lanes(e) = Lanes(f)
      /\ Stack(e) = Stack(f)
  BY <1>3, CoreShared
<1>8. AtOrAfter(e, t, s) = AtOrAfter(g, t, s)
  <2>1. ASSUME NEW x \in Placed(g)
        PROVE  /\ e.clips[x].track = g.clips[x].track
               /\ g.clips[x].track = t => (e.clips[x].start >= s <=> g.clips[x].start >= s)
    <3>1. Slid(f.clips[x], g.clips[x], x \in AtOrAfter(g, t, s), m) /\ e.clips[x] = f.clips[x]
      BY <1>6, <1>7
    <3>2. x \in AtOrAfter(g, t, s) <=> g.clips[x].track = t /\ g.clips[x].start >= s
      BY DEF AtOrAfter, ClipsOn
    <3>3. g.clips[x].track = t /\ g.clips[x].start >= s => g.clips[x].start >= s + n
      BY <1>4, <1>5
    <3>4. g.clips[x].start \in Int
      BY <1>4, OwnIds, ClipFields
    <3>5. QED
      BY <1>2, <3>1, <3>2, <3>3, <3>4 DEF Slid
  <2>2. QED
    BY <1>6, <1>7, <2>1 DEF AtOrAfter, ClipsOn
<1>9. Core(opened) = Core(g)
  BY <1>2, <1>3, <1>4, <1>8, ShiftedBack
<1>10. IsDocument(opened)
  BY <1>2, ShiftedClips
<1> HIDE DEF f, opened
<1>11. /\ Placed(opened) = Placed(g) /\ opened.clips = g.clips /\ opened.pool = g.pool /\ Lanes(opened) = Lanes(g)
       /\ Stack(opened) = Stack(g)
  BY <1>9, CoreShared
<1>12. CanAdd(opened, c, k) /\ Core(WithClip(opened, c, k)) = Core(d)
  BY <1>4, <1>10, <1>11, ClipPutBack DEF k
<1>13. t \in Lanes(e)
  BY <1>1, <1>4, <1>6, <1>7
<1>14. QED
  BY <1>12, <1>13 DEF RestoreRipple, Try, Accepted, opened, k, t, s, n

LEMMA RestoreRippleReverts ==
  ASSUME NEW d, IsDocument(d), NEW c \in ClipId, NEW k \in Clip,
         CanAdd(Shifted(d, k.track, k.start, k.dur), c, k),
         NEW e, IsDocument(e),
         Core(e) = Core(WithClip(Shifted(d, k.track, k.start, k.dur), c, k))
  PROVE  LET r == RippleDelete(e, c) IN r.ok /\ Core(r.doc) = Core(d)
<1> DEFINE t == k.track
           s == k.start
           n == k.dur
           m == -n
           opened == Shifted(d, t, s, n)
           h == WithoutClip(e, c)
<1>2. s \in Int /\ n \in Nat /\ n > 0 /\ n \in Int /\ m \in Int /\ n + m = 0
  BY ClipFields
<1>3. /\ CanAdd(opened, c, k) /\ Core(e) = Core(WithClip(opened, c, k))
  OBVIOUS
<1> HIDE DEF t, s, n, m
<1>4. /\ IsDocument(opened) /\ Placed(opened) = Placed(d)
      /\ \A x \in Placed(d) : Slid(opened.clips[x], d.clips[x], x \in AtOrAfter(d, t, s), n)
  BY <1>2, ShiftedClips
<1> HIDE DEF opened
<1>5. c \in Placed(e) /\ e.clips[c] = k
  <2>1. k.track \in Lanes(opened)
    BY <1>3 DEF CanAdd
  <2>2. c \in Placed(WithClip(opened, c, k)) /\ WithClip(opened, c, k).clips[c] = k
    BY <1>4, <2>1, Clipped
  <2>3. QED
    BY <1>3, <2>2, CoreShared
<1>6. Core(h) = Core(opened)
  <2>1. LET r == RemoveClip(e, c) IN r.ok /\ Core(r.doc) = Core(opened)
    BY <1>3, <1>4, InsertClipReverts
  <2>2. QED
    BY <1>5, <2>1 DEF RemoveClip, Try, Accepted
<1>7. IsDocument(h)
  BY Unclipped
<1> HIDE DEF h
<1>8. /\ h.clips = opened.clips /\ Placed(h) = Placed(opened)
  BY <1>6, CoreShared
<1>9. AtOrAfter(h, t, s) = AtOrAfter(d, t, s)
  <2>1. ASSUME NEW x \in Placed(d)
        PROVE  /\ h.clips[x].track = d.clips[x].track
               /\ d.clips[x].track = t => (h.clips[x].start >= s <=> d.clips[x].start >= s)
    <3>1. Slid(opened.clips[x], d.clips[x], x \in AtOrAfter(d, t, s), n) /\ h.clips[x] = opened.clips[x]
      BY <1>4, <1>8
    <3>2. x \in AtOrAfter(d, t, s) <=> d.clips[x].track = t /\ d.clips[x].start >= s
      BY DEF AtOrAfter, ClipsOn
    <3>4. d.clips[x].start \in Int
      BY OwnIds, ClipFields
    <3>5. QED
      BY <1>2, <3>1, <3>2, <3>4 DEF Slid
  <2>2. QED
    BY <1>4, <1>8, <2>1 DEF AtOrAfter, ClipsOn
<1>10. Core(Shifted(h, t, s, m)) = Core(d)
  BY <1>2, <1>6, <1>7, <1>9, ShiftedBack DEF opened
<1>11. QED
  BY <1>5, <1>10 DEF RippleDelete, Try, Accepted, h, t, s, n, m

-----------------------------------------------------------------------------
(* Each step is reverted: splits, media and lanes *)

LEMMA MergeSplitReverts ==
  ASSUME NEW d, IsDocument(d), Solid(Core(d)), NEW left \in Placed(d), NEW right \in Placed(d), left # right,
         NEW whole \in Clip, NEW e, IsDocument(e),
         Core(e) = Core(WithClip(WithoutClip(d, right), left, [whole EXCEPT !.track = d.clips[left].track]))
  PROVE  LET r == ReapplySplit(e, left, d.clips[left], right, d.clips[right])
         IN  r.ok /\ Core(r.doc) = Core(d)
<1> DEFINE k == d.clips[left]
           t == k.track
           l == [whole EXCEPT !.track = t]
           g == WithoutClip(d, right)
           f == WithClip(g, left, l)
           cut == WithClip(e, left, k)
<1>1. k \in Clip /\ t \in Lanes(d) /\ t \in TrackId /\ left \in ClipId
  BY OwnIds
<1>2. Core(e) = Core(f)
  OBVIOUS
<1> HIDE DEF t
<1>3. l \in Clip /\ l.track = t
  BY <1>1, OnLane
<1> HIDE DEF l
<1>4. /\ IsDocument(g) /\ Placed(g) = Placed(d) \ {right} /\ \A x \in Placed(g) : g.clips[x] = d.clips[x]
      /\ g.tracks = d.tracks /\ Stack(g) = Stack(d) /\ Lanes(g) = Lanes(d) /\ g.pool = d.pool
  BY Unclipped
<1> HIDE DEF g
<1>5. left \in Placed(g) /\ g.clips[left] = k /\ l.track \in Lanes(g)
  BY <1>1, <1>3, <1>4
<1>6. /\ Placed(f) = Placed(g) \cup {left} /\ f.clips[left] = l
      /\ \A x \in Placed(g) \ {left} : f.clips[x] = g.clips[x]
      /\ f.tracks = g.tracks /\ Stack(f) = Stack(g) /\ Lanes(f) = Lanes(g) /\ f.pool = g.pool
  BY <1>1, <1>3, <1>4, <1>5, Clipped
<1> HIDE DEF f
<1>7. /\ e.clips = f.clips /\ Placed(e) = Placed(f) /\ e.pool = f.pool /\ Lanes(e) = Lanes(f)
      /\ Stack(e) = Stack(f)
  BY <1>2, CoreShared
<1>8. /\ Placed(e) = Placed(g) /\ e.pool = g.pool /\ Lanes(e) = Lanes(g) /\ e.clips[left] = l
      /\ \A x \in Placed(g) \ {left} : e.clips[x] = g.clips[x]
      /\ Stack(e) = Stack(g)
  BY <1>5, <1>6, <1>7
<1>9. [k EXCEPT !.track = e.clips[left].track] = k
  <2>1. e.clips[left] = l /\ l.track = k.track
    BY <1>3, <1>8 DEF t
  <2> HIDE DEF k
  <2>2. QED
    BY <1>1, <1>3, <2>1, OwnLane
<1>10. Core(cut) = Core(g)
  <2>1. Core(WithClip(e, left, g.clips[left])) = Core(g)
    BY <1>4, <1>5, <1>8, ClipChangedBack
  <2>2. QED
    BY <1>5, <2>1
<1>11. IsDocument(cut)
  <2>1. k.track \in Lanes(e)
    BY <1>1, <1>4, <1>8 DEF t
  <2> HIDE DEF k
  <2>2. QED
    BY <1>1, <2>1, Clipped
<1> HIDE DEF cut, k
<1>12. /\ Placed(cut) = Placed(g) /\ cut.clips = g.clips /\ cut.pool = g.pool /\ Lanes(cut) = Lanes(g)
       /\ Stack(cut) = Stack(g)
  BY <1>10, CoreShared
<1>13. CanAdd(cut, right, d.clips[right]) /\ Core(WithClip(cut, right, d.clips[right])) = Core(d)
  BY <1>4, <1>11, <1>12, ClipPutBack
<1>14. ReapplySplit(e, left, k, right, d.clips[right])
         = Try(CanAdd(cut, right, d.clips[right]), cut, WithClip(cut, right, d.clips[right]),
               [op |-> "MergeSplit", id |-> left, clip |-> e.clips[left], tail |-> right])
  BY <1>5, <1>8, <1>9 DEF ReapplySplit, cut
<1>15. QED
  BY <1>13, <1>14 DEF Try, Accepted, k

LEMMA ReapplySplitReverts ==
  ASSUME NEW d, IsDocument(d), NEW left \in Placed(d), NEW tail \in ClipId,
         NEW half \in Clip, NEW rest \in Clip,
         CanAdd(WithClip(d, left, [half EXCEPT !.track = d.clips[left].track]), tail, rest),
         NEW e, IsDocument(e),
         Core(e) = Core(WithClip(WithClip(d, left, [half EXCEPT !.track = d.clips[left].track]), tail, rest))
  PROVE  LET r == MergeSplit(e, left, d.clips[left], tail) IN r.ok /\ Core(r.doc) = Core(d)
<1> DEFINE k == d.clips[left]
           t == k.track
           l == [half EXCEPT !.track = t]
           cut == WithClip(d, left, l)
           f == WithClip(cut, tail, rest)
           h == WithoutClip(e, tail)
<1>1. k \in Clip /\ t \in Lanes(d) /\ t \in TrackId /\ left \in ClipId
  BY OwnIds
<1>2. Core(e) = Core(f) /\ CanAdd(cut, tail, rest)
  OBVIOUS
<1> HIDE DEF t
<1>3. l \in Clip /\ l.track = t
  BY <1>1, OnLane
<1> HIDE DEF l
<1>4. /\ IsDocument(cut) /\ Placed(cut) = Placed(d) \cup {left} /\ cut.clips[left] = l
      /\ \A x \in Placed(d) \ {left} : cut.clips[x] = d.clips[x]
      /\ cut.tracks = d.tracks /\ Stack(cut) = Stack(d) /\ Lanes(cut) = Lanes(d) /\ cut.pool = d.pool
  BY <1>1, <1>3, Clipped
<1> HIDE DEF cut
<1>5. rest.track \in Lanes(cut) /\ tail \notin Placed(cut)
  BY <1>2 DEF CanAdd
<1>6. /\ Placed(f) = Placed(cut) \cup {tail} /\ f.clips[tail] = rest
      /\ \A x \in Placed(cut) \ {tail} : f.clips[x] = cut.clips[x]
  BY <1>4, <1>5, Clipped
<1>7. e.clips = f.clips /\ Placed(e) = Placed(f)
  BY <1>2, CoreShared
<1>8. Core(h) = Core(cut)
  <2>1. LET r == RemoveClip(e, tail) IN r.ok /\ Core(r.doc) = Core(cut)
    BY <1>2, <1>4, InsertClipReverts
  <2>2. QED
    BY <1>6, <1>7, <2>1 DEF RemoveClip, Try, Accepted
<1>9. IsDocument(h)
  BY Unclipped
<1> HIDE DEF h, f
<1>10. /\ h.clips = cut.clips /\ Placed(h) = Placed(cut) /\ h.pool = cut.pool /\ Lanes(h) = Lanes(cut)
       /\ Stack(h) = Stack(cut)
  BY <1>8, CoreShared
<1>11. /\ Placed(h) = Placed(d) /\ h.pool = d.pool /\ Lanes(h) = Lanes(d)
       /\ \A x \in Placed(d) \ {left} : h.clips[x] = d.clips[x]
       /\ Stack(h) = Stack(d)
  BY <1>4, <1>10
<1>12. Core(WithClip(h, left, k)) = Core(d)
  BY <1>9, <1>11, ClipChangedBack
<1>13. e.clips[left] = l /\ tail \in Placed(e)
  BY <1>4, <1>5, <1>6, <1>7
<1>14. [k EXCEPT !.track = e.clips[left].track] = k
  <2>1. l.track = k.track
    BY <1>3 DEF t
  <2> HIDE DEF k
  <2>2. QED
    BY <1>1, <1>3, <1>13, <2>1, OwnLane
<1>15. left \in Placed(h)
  BY <1>11
<1> HIDE DEF k
<1>16. QED
  BY <1>12, <1>13, <1>14, <1>15 DEF MergeSplit, Try, Accepted, h, k

LEMMA SameTracks ==
  ASSUME NEW f, IsTracks(f), NEW g, IsTracks(g), DOMAIN f = DOMAIN g,
         \A t \in DOMAIN f : f[t].kind = g[t].kind /\ f[t].main = g[t].main /\ f[t].junctions = g[t].junctions
  PROVE  f = g
<1>1. ASSUME NEW t \in DOMAIN f PROVE f[t] = g[t]
  <2>1. IsTrack(f[t]) /\ IsTrack(g[t])
    BY DEF IsTracks
  <2>2. f[t].kind = g[t].kind /\ f[t].main = g[t].main /\ f[t].junctions = g[t].junctions
    OBVIOUS
  <2>3. f[t] = [kind |-> f[t].kind, main |-> f[t].main, junctions |-> f[t].junctions]
    BY <2>1 DEF IsTrack
  <2>4. g[t] = [kind |-> g[t].kind, main |-> g[t].main, junctions |-> g[t].junctions]
    BY <2>1 DEF IsTrack
  <2>5. QED
    BY <2>2, <2>3, <2>4, Zenon
<1>2. IsPartial(f, TrackId) /\ IsPartial(g, TrackId)
  BY DEF IsTracks
<1>3. QED
  BY <1>1, <1>2, SameFunction

(* Lanes that are, carry and are stacked as they were.                      *)
LEMMA SameLanes ==
  ASSUME NEW d, IsDocument(d), NEW e, IsDocument(e), e.clips = d.clips, e.pool = d.pool, Lanes(e) = Lanes(d),
         \A t \in Lanes(d) : e.tracks[t].kind = d.tracks[t].kind /\ e.tracks[t].junctions = d.tracks[t].junctions,
         Tidy => e.order = d.order /\ \A t \in Lanes(d) : e.tracks[t].main = d.tracks[t].main
  PROVE  Core(e) = Core(d)
<1>1. \A t \in Lanes(e) : Lane(e.tracks[t]) = Lane(d.tracks[t])
  BY LaneFields
<1>2. Tidy => e.tracks = d.tracks
  <2>1. IsTracks(e.tracks) /\ IsTracks(d.tracks) /\ DOMAIN e.tracks = DOMAIN d.tracks
    BY DEF IsDocument, Lanes
  <2>2. QED
    BY <2>1, SameTracks DEF Lanes
<1>3. Stack(e) = Stack(d)
  BY <1>1, <1>2, SameStack
<1>4. QED
  BY <1>3, SameCore

(* f with the transitions of snapshot.                                      *)
LEMMA Rejoins ==
  ASSUME NEW f, IsDocument(f), NEW snapshot, \A t \in DOMAIN snapshot : IsJunctions(snapshot[t])
  PROVE  LET e == WithTransitions(f, snapshot) IN
         /\ IsDocument(e) /\ e.clips = f.clips /\ e.pool = f.pool /\ e.order = f.order /\ Lanes(e) = Lanes(f)
         /\ \A t \in Lanes(f) :
              /\ e.tracks[t].kind = f.tracks[t].kind /\ e.tracks[t].main = f.tracks[t].main
              /\ e.tracks[t].junctions =
                   IF t \in DOMAIN snapshot THEN snapshot[t] ELSE f.tracks[t].junctions
<1> DEFINE e == WithTransitions(f, snapshot)
<1>1. Within(f, ClipId, TrackId, Media)
  BY AnyIds
<1>2. /\ Within(e, ClipId, TrackId, Media)
      /\ e.clips = f.clips /\ Lanes(e) = Lanes(f) /\ e.pool = f.pool
      /\ \A t \in Lanes(f) :
           /\ e.tracks[t].kind = f.tracks[t].kind /\ e.tracks[t].main = f.tracks[t].main
           /\ e.tracks[t].junctions =
                IF t \in DOMAIN snapshot THEN snapshot[t] ELSE f.tracks[t].junctions
  BY <1>1, WithTransitionsWithin
<1>3. e.order = f.order
  BY DEF IsDocument, WithTransitions
<1> HIDE DEF e
<1>4. IsDocument(e)
  BY <1>2, AnyIds
<1>5. QED
  BY <1>2, <1>3, <1>4 DEF e

(* p is f with other transitions.                                          *)
Rewired(f, p) ==
  /\ IsDocument(p) /\ p.clips = f.clips /\ p.pool = f.pool /\ p.order = f.order /\ Lanes(p) = Lanes(f)
  /\ \A t \in Lanes(f) : p.tracks[t].kind = f.tracks[t].kind /\ p.tracks[t].main = f.tracks[t].main

(* Putting the transitions back, all of them.                               *)
LEMMA JunctionsBack ==
  ASSUME NEW f, IsDocument(f), NEW p, Rewired(f, p),
         NEW snapshot, \A t \in DOMAIN snapshot : IsJunctions(snapshot[t]),
         \A t \in Lanes(f) : t \in DOMAIN snapshot /\ snapshot[t] = f.tracks[t].junctions,
         NEW e, IsDocument(e), Core(e) = Core(p)
  PROVE  Core(WithTransitions(e, snapshot)) = Core(f)
<1> DEFINE g == WithTransitions(e, snapshot)
<1>1. /\ IsDocument(p) /\ p.clips = f.clips /\ p.pool = f.pool /\ p.order = f.order /\ Lanes(p) = Lanes(f)
      /\ \A t \in Lanes(f) : p.tracks[t].kind = f.tracks[t].kind /\ p.tracks[t].main = f.tracks[t].main
  BY DEF Rewired
<1>2. /\ IsDocument(g) /\ g.clips = e.clips /\ g.pool = e.pool /\ g.order = e.order /\ Lanes(g) = Lanes(e)
      /\ \A t \in Lanes(e) :
           /\ g.tracks[t].kind = e.tracks[t].kind /\ g.tracks[t].main = e.tracks[t].main
           /\ g.tracks[t].junctions =
                IF t \in DOMAIN snapshot THEN snapshot[t] ELSE e.tracks[t].junctions
  BY Rejoins
<1>3. Core(e) = Core(p)
  OBVIOUS
<1> HIDE DEF g
<1>4. /\ e.clips = p.clips /\ e.pool = p.pool /\ Lanes(e) = Lanes(p)
      /\ \A t \in Lanes(p) : e.tracks[t].kind = p.tracks[t].kind
  BY <1>3, CoreShared
<1>5. Tidy => e = p
  BY <1>1, <1>3, TidyCore
<1>6. Lanes(g) = Lanes(f) /\ \A t \in Lanes(f) : /\ g.tracks[t].kind = f.tracks[t].kind
                                                 /\ g.tracks[t].junctions = f.tracks[t].junctions
  BY <1>1, <1>2, <1>4
<1>7. Tidy => g.order = f.order /\ \A t \in Lanes(f) : g.tracks[t].main = f.tracks[t].main
  BY <1>1, <1>2, <1>4, <1>5
<1>8. g.clips = f.clips /\ g.pool = f.pool
  BY <1>1, <1>2, <1>4
<1>9. Core(g) = Core(f)
  BY <1>2, <1>6, <1>7, <1>8, SameLanes
<1>10. QED
  BY <1>9 DEF g

LEMMA SnapshotFacts ==
  ASSUME NEW d, IsDocument(d)
  PROVE  /\ DOMAIN Transitions(d) = Lanes(d)
         /\ \A t \in Lanes(d) : Transitions(d)[t] = d.tracks[t].junctions /\ IsJunctions(Transitions(d)[t])
<1>1. Within(d, ClipId, TrackId, Media)
  BY AnyIds
<1>2. QED
  BY <1>1, TransitionsFacts

LEMMA RestoreTransitionsReverts ==
  ASSUME NEW d, IsDocument(d), NEW snapshot, \A t \in DOMAIN snapshot : IsJunctions(snapshot[t]),
         NEW e, IsDocument(e), Core(e) = Core(WithTransitions(d, snapshot))
  PROVE  LET r == RestoreTransitions(e, Transitions(d)) IN r.ok /\ Core(r.doc) = Core(d)
<1> DEFINE p == WithTransitions(d, snapshot)
<1>0. Rewired(d, p) /\ Core(e) = Core(p)
  BY Rejoins DEF Rewired
<1> HIDE DEF p
<1>1. Core(WithTransitions(e, Transitions(d))) = Core(d)
  BY <1>0, SnapshotFacts, JunctionsBack
<1>2. QED
  BY <1>1 DEF RestoreTransitions, Accepted

(* Editing the pool leaves the lanes alone.                                 *)
LEMMA PoolOnly ==
  ASSUME NEW d, IsDocument(d), NEW p
  PROVE  Stack([d EXCEPT !.pool = p]) = Stack(d)
<1> DEFINE e == [d EXCEPT !.pool = p]
<1>1. e.order = d.order /\ e.tracks = d.tracks
  BY DEF IsDocument
<1> HIDE DEF e
<1>2. Stack(e) = Stack(d)
  BY <1>1, StackKept
<1>3. QED
  BY <1>2 DEF e

LEMMA RemoveMediaReverts ==
  ASSUME NEW d, IsDocument(d), NEW m \in d.pool,
         NEW e, IsDocument(e), Core(e) = Core([d EXCEPT !.pool = @ \ {m}])
  PROVE  LET r == InsertMedia(e, m) IN r.ok /\ Core(r.doc) = Core(d)
<1> DEFINE p == d.pool \ {m}
           f == [d EXCEPT !.pool = p]
           q == e.pool \cup {m}
           g == [e EXCEPT !.pool = q]
<1>1. Shape(d) /\ Shape(e)
  BY DEF IsDocument, Shape
<1>2. Core(e) = Core(f)
  OBVIOUS
<1> HIDE DEF p, q
<1>3. f.clips = d.clips /\ f.tracks = d.tracks /\ f.pool = p /\ g.clips = e.clips /\ g.tracks = e.tracks /\ g.pool = q
  BY <1>1, RepooledFacts
<1>0. Stack(f) = Stack(d) /\ Stack(g) = Stack(e)
  BY PoolOnly
<1> HIDE DEF f, g
<1>4. e.clips = f.clips /\ e.pool = f.pool /\ Stack(e) = Stack(f)
  BY <1>2, CoreShared
<1>5. q = d.pool
  BY <1>3, <1>4 DEF p, q
<1>6. Core(g) = Core(d)
  BY <1>0, <1>3, <1>4, <1>5, SameCore
<1>7. QED
  BY <1>6 DEF InsertMedia, Accepted, g, q

LEMMA InsertMediaReverts ==
  ASSUME NEW d, IsDocument(d), Solid(Core(d)), NEW m \in Media, m \notin d.pool,
         NEW e, IsDocument(e), Core(e) = Core([d EXCEPT !.pool = @ \cup {m}])
  PROVE  LET r == RemoveMedia(e, m) IN r.ok /\ Core(r.doc) = Core(d)
<1> DEFINE p == d.pool \cup {m}
           f == [d EXCEPT !.pool = p]
           q == e.pool \ {m}
           g == [e EXCEPT !.pool = q]
<1>1. Shape(d) /\ Shape(e)
  BY DEF IsDocument, Shape
<1>2. Core(e) = Core(f)
  OBVIOUS
<1> HIDE DEF p, q
<1>3. f.clips = d.clips /\ f.tracks = d.tracks /\ f.pool = p /\ g.clips = e.clips /\ g.tracks = e.tracks /\ g.pool = q
  BY <1>1, RepooledFacts
<1>0. Stack(f) = Stack(d) /\ Stack(g) = Stack(e)
  BY PoolOnly
<1> HIDE DEF f, g
<1>4. e.clips = f.clips /\ e.pool = f.pool /\ Stack(e) = Stack(f)
  BY <1>2, CoreShared
<1>5. q = d.pool
  BY <1>3, <1>4 DEF p, q
<1>6. Core(g) = Core(d)
  BY <1>0, <1>3, <1>4, <1>5, SameCore
<1>7. ~IsReferenced(e, m)
  <2>1. \A c \in Placed(d) : Fits(d, c)
    BY SolidDocument
  <2>2. \A c \in Placed(d) : d.clips[c].content # m
    BY <2>1 DEF Fits, IsMedia
  <2>3. QED
    BY <1>3, <1>4, <2>2 DEF IsReferenced, Placed
<1>8. m \in e.pool
  BY <1>3, <1>4 DEF p
<1>9. QED
  BY <1>6, <1>7, <1>8 DEF RemoveMedia, Try, Accepted, g, q

-----------------------------------------------------------------------------
(* Lanes that come back *)

(* x stands before y in q.                                                  *)
Before(q, x, y) == \E i, j \in DOMAIN q : i < j /\ q[i] = x /\ q[j] = y

(* A list is told by its elements and which stands before which.            *)
LEMMA SameOrder ==
  ASSUME NEW X, NEW a \in Seq(X), NEW b \in Seq(X), IsInjective(a), IsInjective(b), ToSet(a) = ToSet(b),
         \A x, y : Before(a, x, y) => Before(b, x, y)
  PROVE  a = b
<1> DEFINE m == Len(a)
           n == Len(b)
           p == [i \in 1 .. m |-> CHOOSE j \in 1 .. n : b[j] = a[i]]
<1>1. m \in Nat /\ n \in Nat /\ DOMAIN a = 1 .. m /\ DOMAIN b = 1 .. n
      /\ (\A i \in 1 .. m : a[i] \in ToSet(a)) /\ (\A j \in 1 .. n : b[j] \in ToSet(b))
      /\ (\A x \in ToSet(a) : \E i \in 1 .. m : x = a[i]) /\ (\A x \in ToSet(b) : \E j \in 1 .. n : x = b[j])
  <2>1. m \in Nat /\ DOMAIN a = 1 .. m /\ (\A i \in DOMAIN a : a[i] \in ToSet(a))
        /\ \A x \in ToSet(a) : \E i \in DOMAIN a : x = a[i]
    BY ListFacts
  <2>2. n \in Nat /\ DOMAIN b = 1 .. n /\ (\A i \in DOMAIN b : b[i] \in ToSet(b))
        /\ \A x \in ToSet(b) : \E i \in DOMAIN b : x = b[i]
    BY ListFacts
  <2>3. QED
    BY <2>1, <2>2
<1> HIDE DEF m, n
<1>0. \A j, k \in 1 .. n : b[j] = b[k] => j = k
  BY <1>1 DEF IsInjective
<1>2. \A i \in 1 .. m : p[i] \in 1 .. n /\ b[p[i]] = a[i]
  <2> TAKE i \in 1 .. m
  <2>1. \E j \in 1 .. n : b[j] = a[i]
    BY <1>1
  <2>2. QED
    BY <2>1
<1> HIDE DEF p
<1>3. ASSUME NEW i \in 1 .. m, NEW j \in 1 .. m, i < j PROVE p[i] < p[j]
  <2>1. Before(a, a[i], a[j])
    BY <1>1, <1>3 DEF Before
  <2>2. Before(b, a[i], a[j])
    BY <2>1
  <2>3. PICK k \in 1 .. n, l \in 1 .. n : k < l /\ b[k] = a[i] /\ b[l] = a[j]
    BY <1>1, <2>2 DEF Before
  <2>4. k = p[i] /\ l = p[j]
    BY <1>0, <1>2, <2>3
  <2>5. QED
    BY <2>3, <2>4
<1>4. \A j \in 1 .. n : \E i \in 1 .. m : p[i] = j
  <2> TAKE j \in 1 .. n
  <2>1. PICK i \in 1 .. m : b[j] = a[i]
    BY <1>1
  <2>2. p[i] = j
    BY <1>0, <1>2, <2>1
  <2>3. QED
    BY <2>2
<1> DEFINE S == {i \in 0 .. m : \A k \in 1 .. i : p[k] = k}
<1>5. 0 .. m \subseteq S
  <2>1. 0 \in S
    BY <1>1
  <2>2. ASSUME NEW i \in 1 .. m, i - 1 \in S PROVE i \in S
    <3>1. \A k \in 1 .. (i - 1) : p[k] = k
      BY <2>2
    <3>2. ~(p[i] < i)
      <4> SUFFICES ASSUME p[i] < i PROVE FALSE
        OBVIOUS
      <4>1. p[i] \in 1 .. (i - 1) /\ p[i] \in 1 .. m
        BY <1>1, <1>2
      <4>2. p[p[i]] = p[i] /\ p[p[i]] < p[i]
        BY <1>3, <3>1, <4>1
      <4>3. QED
        BY <1>1, <1>2, <4>2
    <3>3. ~(p[i] > i)
      <4> SUFFICES ASSUME p[i] > i PROVE FALSE
        OBVIOUS
      <4>1. i \in 1 .. n
        BY <1>1, <1>2
      <4>2. PICK k \in 1 .. m : p[k] = i
        BY <1>4, <4>1
      <4>3. k > i => p[i] < p[k]
        BY <1>3
      <4>4. k < i => p[k] = k
        BY <3>1
      <4>5. QED
        BY <4>2, <4>3, <4>4, <1>2
    <3>4. p[i] = i
      BY <1>1, <1>2, <3>2, <3>3
    <3>5. \A k \in 1 .. i : p[k] = k
      BY <3>1, <3>4
    <3>6. i \in 0 .. m
      OBVIOUS
    <3>7. QED
      BY <3>5, <3>6
  <2> HIDE DEF S
  <2>3. QED
    BY <1>1, <2>1, <2>2, Climb
<1>6. \A k \in 1 .. m : p[k] = k
  <2>1. m \in S
    BY <1>1, <1>5
  <2>2. QED
    BY <2>1
<1>7. m = n
  <2>1. m > 0 => m <= n
    <3>1. m > 0 => m \in 1 .. m
      BY <1>1
    <3>2. QED
      BY <1>2, <1>6, <3>1
  <2>2. n > 0 => n <= m
    <3>1. n > 0 => n \in 1 .. n
      BY <1>1
    <3>2. n > 0 => \E i \in 1 .. m : p[i] = n
      BY <1>4, <3>1
    <3>3. QED
      BY <1>6, <3>2
  <2>3. QED
    BY <1>1, <2>1, <2>2
<1>8. \A i \in 1 .. m : a[i] = b[i]
  BY <1>2, <1>6
<1>9. QED
  BY <1>7, <1>8, SeqEqual DEF m, n

LEMMA TotalOrder ==
  ASSUME NEW X, NEW q \in Seq(X), IsInjective(q), NEW x \in ToSet(q), NEW y \in ToSet(q), x # y
  PROVE  Before(q, x, y) <=> ~Before(q, y, x)
<1>1. DOMAIN q = 1 .. Len(q) /\ (\E i \in DOMAIN q : x = q[i]) /\ \E j \in DOMAIN q : y = q[j]
  BY ListFacts
<1>2. PICK i \in 1 .. Len(q), j \in 1 .. Len(q) : x = q[i] /\ y = q[j]
  BY <1>1
<1>3. \A k \in DOMAIN q : (q[k] = x => k = i) /\ (q[k] = y => k = j)
  BY <1>1, <1>2 DEF IsInjective
<1>4. i < j \/ j < i
  BY <1>2
<1>5. Before(q, x, y) <=> i < j
  BY <1>1, <1>2, <1>3 DEF Before
<1>6. Before(q, y, x) <=> j < i
  BY <1>1, <1>2, <1>3 DEF Before
<1>7. QED
  BY <1>4, <1>5, <1>6

LEMMA AmongOrder ==
  ASSUME NEW X, NEW q \in Seq(X), NEW S, NEW x \in S, NEW y \in S, Before(q, x, y)
  PROVE  Before(Among(q, S), x, y)
<1> DEFINE a == Among(q, S)
<1>1. a \in Seq(X) /\ Picks(a, q, S, Len(q)) /\ DOMAIN a = 1 .. Len(a) /\ DOMAIN q = 1 .. Len(q)
      /\ Len(a) \in Nat /\ Len(q) \in Nat
  BY AmongPicks, ListFacts
<1> HIDE DEF a
<1>2. PICK p \in [1 .. Len(a) -> 1 .. Len(q)] :
        /\ \A k \in 1 .. Len(a) : a[k] = q[p[k]] /\ q[p[k]] \in S
        /\ \A k, l \in 1 .. Len(a) : k < l => p[k] < p[l]
        /\ \A j \in 1 .. Len(q) : q[j] \in S => \E k \in 1 .. Len(a) : p[k] = j
  BY <1>1 DEF Picks
<1>3. PICK i \in 1 .. Len(q), j \in 1 .. Len(q) : i < j /\ q[i] = x /\ q[j] = y
  BY <1>1 DEF Before
<1>4. PICK k \in 1 .. Len(a) : p[k] = i
  BY <1>2, <1>3
<1>5. PICK l \in 1 .. Len(a) : p[l] = j
  BY <1>2, <1>3
<1>6. k < l
  <2>1. l < k => p[l] < p[k]
    BY <1>2
  <2>2. QED
    BY <1>3, <1>4, <1>5, <2>1
<1>7. a[k] = x /\ a[l] = y
  BY <1>2, <1>3, <1>4, <1>5
<1>8. QED
  BY <1>1, <1>6, <1>7 DEF Before, a

LEMMA AmongBefore ==
  ASSUME NEW X, NEW q \in Seq(X), NEW S, NEW x, NEW y, Before(Among(q, S), x, y)
  PROVE  x \in S /\ y \in S /\ Before(q, x, y)
<1> DEFINE a == Among(q, S)
<1>1. a \in Seq(X) /\ Picks(a, q, S, Len(q)) /\ DOMAIN a = 1 .. Len(a) /\ DOMAIN q = 1 .. Len(q)
      /\ Len(a) \in Nat /\ Len(q) \in Nat
  BY AmongPicks, ListFacts
<1>0. Before(a, x, y)
  OBVIOUS
<1> HIDE DEF a
<1>2. PICK p \in [1 .. Len(a) -> 1 .. Len(q)] :
        /\ \A k \in 1 .. Len(a) : a[k] = q[p[k]] /\ q[p[k]] \in S
        /\ \A k, l \in 1 .. Len(a) : k < l => p[k] < p[l]
  BY <1>1 DEF Picks
<1>3. PICK k \in 1 .. Len(a), l \in 1 .. Len(a) : k < l /\ a[k] = x /\ a[l] = y
  BY <1>0, <1>1 DEF Before
<1>4. p[k] \in DOMAIN q /\ p[l] \in DOMAIN q /\ p[k] < p[l] /\ q[p[k]] = x /\ q[p[l]] = y /\ x \in S /\ y \in S
  BY <1>1, <1>2, <1>3
<1>5. QED
  BY <1>4 DEF Before

LEMMA AmongAll ==
  ASSUME NEW X, NEW q \in Seq(X), IsInjective(q), NEW S, ToSet(q) \subseteq S
  PROVE  Among(q, S) = q
<1> DEFINE a == Among(q, S)
<1>1. a \in Seq(X) /\ ToSet(a) = ToSet(q) \cap S /\ IsInjective(a)
  BY AmongFacts
<1>2. ASSUME NEW x, NEW y, Before(q, x, y) PROVE Before(a, x, y)
  <2>1. x \in S /\ y \in S
    BY <1>2, ListFacts DEF Before
  <2>2. QED
    BY <1>2, <2>1, AmongOrder
<1> HIDE DEF a
<1>3. ToSet(a) = ToSet(q)
  BY <1>1
<1>4. QED
  BY <1>1, <1>2, <1>3, SameOrder DEF a

LEMMA GlueOrder ==
  ASSUME NEW X, NEW a \in Seq(X), NEW b \in Seq(X), NEW x, NEW y,
         Before(a, x, y) \/ Before(b, x, y) \/ (x \in ToSet(a) /\ y \in ToSet(b))
  PROVE  Before(a \o b, x, y)
<1> DEFINE c == a \o b
           m == Len(a)
           n == Len(b)
<1>1. /\ c \in Seq(X) /\ Len(c) = m + n /\ m \in Nat /\ n \in Nat
      /\ \A i \in 1 .. (m + n) : c[i] = IF i <= m THEN a[i] ELSE b[i - m]
  BY ConcatProperties, LenProperties
<1> HIDE DEF c
<1>2. DOMAIN c = 1 .. (m + n)
  BY <1>1, ListFacts
<1>3. DOMAIN a = 1 .. m /\ \A z \in ToSet(a) : \E i \in DOMAIN a : z = a[i]
  BY ListFacts
<1>4. DOMAIN b = 1 .. n /\ \A z \in ToSet(b) : \E i \in DOMAIN b : z = b[i]
  BY ListFacts
<1> HIDE DEF m, n
<1>5. \A i \in 1 .. m : i \in DOMAIN c /\ c[i] = a[i]
  BY <1>1, <1>2
<1>6. \A i \in 1 .. n : i + m \in DOMAIN c /\ c[i + m] = b[i]
  <2> TAKE i \in 1 .. n
  <2>1. i + m \in 1 .. (m + n) /\ ~(i + m <= m) /\ (i + m) - m = i
    BY <1>1
  <2>2. QED
    BY <1>1, <1>2, <2>1
<1>7. CASE Before(a, x, y)
  BY <1>3, <1>5, <1>7 DEF Before, c
<1>8. CASE Before(b, x, y)
  <2>1. PICK i \in 1 .. n, j \in 1 .. n : i < j /\ b[i] = x /\ b[j] = y
    BY <1>4, <1>8 DEF Before
  <2>2. i + m < j + m
    BY <2>1, <1>1
  <2>3. QED
    BY <1>6, <2>1, <2>2 DEF Before, c
<1>9. CASE x \in ToSet(a) /\ y \in ToSet(b)
  <2>1. PICK i \in 1 .. m : x = a[i]
    BY <1>3, <1>9
  <2>2. PICK j \in 1 .. n : y = b[j]
    BY <1>4, <1>9
  <2>3. i < j + m
    BY <1>1
  <2>4. QED
    BY <1>5, <1>6, <2>1, <2>2, <2>3 DEF Before, c
<1>10. QED
  BY <1>7, <1>8, <1>9

LEMMA InsertOrder ==
  ASSUME NEW X, NEW q \in Seq(X), NEW index \in Nat \ {0}, NEW t, NEW x, NEW y, Before(q, x, y)
  PROVE  Before(InsertedAt(q, index, t), x, y)
<1> DEFINE r == InsertedAt(q, index, t)
           n == Len(q)
           i == IF index > n THEN n + 1 ELSE index
<1>1. /\ n \in Nat /\ i \in 1 .. (n + 1) /\ DOMAIN q = 1 .. n /\ DOMAIN r = 1 .. (n + 1)
      /\ \A k \in 1 .. (n + 1) : r[k] = IF k < i THEN q[k] ELSE IF k = i THEN t ELSE q[k - 1]
  <2>1. Spliced(r, q, index, t)
    BY InsertedWhere
  <2> HIDE DEF r
  <2>2. QED
    BY <2>1 DEF Spliced
<1> HIDE DEF r, n, i
<1> DEFINE at(k) == IF k < i THEN k ELSE k + 1
<1>2. ASSUME NEW k \in 1 .. n PROVE at(k) \in 1 .. (n + 1) /\ r[at(k)] = q[k]
  <2>1. CASE k < i
    BY <1>1, <2>1
  <2>2. CASE ~(k < i)
    <3>1. k + 1 \in 1 .. (n + 1) /\ (k + 1) - 1 = k /\ ~(k + 1 < i) /\ k + 1 # i
      BY <1>1, <2>2
    <3>2. QED
      BY <1>1, <2>2, <3>1
  <2>3. QED
    BY <2>1, <2>2
<1>3. PICK k \in 1 .. n, l \in 1 .. n : k < l /\ q[k] = x /\ q[l] = y
  BY <1>1 DEF Before
<1>4. at(k) < at(l)
  BY <1>1, <1>3
<1>5. QED
  BY <1>1, <1>2, <1>3, <1>4 DEF Before, r

(* Taking out again what was inserted.                                      *)
LEMMA Uninserted ==
  ASSUME NEW X, NEW q \in Seq(X), IsInjective(q), NEW index \in Nat \ {0}, NEW t, t \notin ToSet(q),
         NEW S, (ToSet(q) \cup {t}) \cap S = ToSet(q)
  PROVE  Among(InsertedAt(q, index, t), S) = q
<1> DEFINE r == InsertedAt(q, index, t)
           a == Among(r, S)
           Y == X \cup {t}
<1>1. r \in Seq(Y) /\ ToSet(r) = ToSet(q) \cup {t} /\ IsInjective(r)
  BY InsertFacts
<1>2. q \in Seq(Y)
  BY SeqMonotonic, X \subseteq Y
<1>3. ASSUME NEW x, NEW y, Before(q, x, y) PROVE Before(r, x, y)
  BY <1>3, InsertOrder
<1> HIDE DEF r, Y
<1>4. a \in Seq(Y) /\ ToSet(a) = ToSet(r) \cap S /\ IsInjective(a)
  BY <1>1, AmongFacts
<1>5. ASSUME NEW x, NEW y, Before(q, x, y) PROVE Before(a, x, y)
  <2>1. x \in S /\ y \in S
    BY <1>2, <1>5, ListFacts DEF Before
  <2>2. QED
    BY <1>1, <1>3, <1>5, <2>1, AmongOrder
<1> HIDE DEF a
<1>6. ToSet(a) = ToSet(q)
  BY <1>1, <1>4
<1>7. QED
  BY <1>2, <1>4, <1>5, <1>6, SameOrder DEF a, r

(* Inserting again, where it was, what was taken out.                       *)
LEMMA Reinserted ==
  ASSUME NEW X, NEW q \in Seq(X), IsInjective(q), NEW i \in DOMAIN q, NEW S, ToSet(q) \cap S = ToSet(q) \ {q[i]}
  PROVE  InsertedAt(Among(q, S), i, q[i]) = q
<1> DEFINE n == Len(q)
           t == q[i]
           a == Among(q, S)
           b == [k \in 1 .. (n - 1) |-> IF k < i THEN q[k] ELSE q[k + 1]]
<1>1. n \in Nat /\ i \in 1 .. n /\ DOMAIN q = 1 .. n /\ (\A k \in 1 .. n : q[k] \in X /\ q[k] \in ToSet(q))
      /\ \A x \in ToSet(q) : \E k \in 1 .. n : x = q[k]
  BY ListFacts
<1>0. \A j, k \in 1 .. n : q[j] = q[k] => j = k
  BY <1>1 DEF IsInjective
<1>2. a \in Seq(X) /\ ToSet(a) = ToSet(q) \ {t} /\ IsInjective(a)
  BY AmongFacts
<1>3. \A k \in 1 .. (n - 1) : b[k] \in X
  BY <1>1
<1>4. b \in Seq(X) /\ Len(b) = n - 1 /\ DOMAIN b = 1 .. (n - 1)
  <2>1. n - 1 \in Nat
    BY <1>1
  <2>2. b \in [1 .. (n - 1) -> X]
    BY <1>3
  <2> HIDE DEF b
  <2>3. b \in Seq(X)
    BY <2>1, <2>2, SeqDef
  <2>4. DOMAIN b = 1 .. (n - 1) /\ DOMAIN b = 1 .. Len(b) /\ Len(b) \in Nat
    BY <2>2, <2>3, ListFacts
  <2>5. QED
    BY <2>1, <2>3, <2>4
<1>5. \A k \in 1 .. (n - 1) : b[k] = IF k < i THEN q[k] ELSE q[k + 1]
  OBVIOUS
<1> HIDE DEF n, t, a, b
<1> DEFINE at(k) == IF k < i THEN k ELSE k + 1
<1>6. ASSUME NEW k \in 1 .. (n - 1) PROVE at(k) \in 1 .. n /\ at(k) # i /\ b[k] = q[at(k)]
  BY <1>1, <1>5
<1>7. ToSet(b) = ToSet(a) /\ IsInjective(b)
  <2>1. ASSUME NEW x \in ToSet(b) PROVE x \in ToSet(a)
    <3>1. PICK k \in 1 .. (n - 1) : x = b[k]
      BY <1>4 DEF ToSet
    <3>2. x = q[at(k)] /\ at(k) \in 1 .. n /\ at(k) # i
      BY <1>6, <3>1
    <3>3. x # t
      BY <1>0, <1>1, <3>2 DEF t
    <3>4. QED
      BY <1>1, <1>2, <3>2, <3>3
  <2>2. ASSUME NEW x \in ToSet(a) PROVE x \in ToSet(b)
    <3>1. PICK k \in 1 .. n : x = q[k] /\ k # i
      BY <1>1, <1>2 DEF t
    <3>2. CASE k < i
      <4>1. k \in 1 .. (n - 1) /\ b[k] = x
        BY <1>1, <1>5, <3>1, <3>2
      <4>2. QED
        BY <1>4, <4>1 DEF ToSet
    <3>3. CASE k > i
      <4>1. k - 1 \in 1 .. (n - 1) /\ ~(k - 1 < i) /\ (k - 1) + 1 = k
        BY <1>1, <3>1, <3>3
      <4>2. b[k - 1] = x
        BY <1>5, <3>1, <4>1
      <4>3. QED
        BY <1>4, <4>1, <4>2 DEF ToSet
    <3>4. QED
      BY <1>1, <3>1, <3>2, <3>3
  <2>3. IsInjective(b)
    <3> SUFFICES ASSUME NEW k \in 1 .. (n - 1), NEW l \in 1 .. (n - 1), b[k] = b[l] PROVE k = l
      BY <1>4 DEF IsInjective
    <3>1. at(k) = at(l)
      BY <1>0, <1>6
    <3>2. QED
      BY <3>1, <1>1
  <2>4. QED
    BY <2>1, <2>2, <2>3
<1>8. ASSUME NEW x, NEW y, Before(b, x, y) PROVE Before(a, x, y)
  <2>1. PICK k \in 1 .. (n - 1), l \in 1 .. (n - 1) : k < l /\ b[k] = x /\ b[l] = y
    BY <1>4, <1>8 DEF Before
  <2>2. at(k) < at(l)
    BY <1>1, <2>1
  <2>3. Before(q, x, y)
    BY <1>1, <1>6, <2>1, <2>2 DEF Before
  <2>4. x \in ToSet(b) /\ y \in ToSet(b)
    BY <1>4, <2>1 DEF ToSet
  <2>5. x \in S /\ y \in S
    BY <1>2, <1>7, <2>4 DEF t
  <2>6. QED
    BY <2>3, <2>5, AmongOrder DEF a
<1>9. a = b
  BY <1>2, <1>4, <1>7, <1>8, SameOrder
<1> DEFINE r == InsertedAt(b, i, t)
           Y == X \cup {t}
<1>10. /\ r \in Seq(Y) /\ DOMAIN r = 1 .. n
       /\ \A k \in 1 .. n : r[k] = IF k < i THEN b[k] ELSE IF k = i THEN t ELSE b[k - 1]
  <2>1. (IF i > n - 1 THEN (n - 1) + 1 ELSE i) = i /\ (n - 1) + 1 = n /\ i \in Nat \ {0}
    BY <1>1
  <2> DEFINE l == Len(b)
             j == IF i > l THEN l + 1 ELSE i
  <2>2. /\ DOMAIN r = 1 .. (l + 1) /\ r \in Seq(X \cup {t})
        /\ \A k \in 1 .. (l + 1) : r[k] = IF k < j THEN b[k] ELSE IF k = j THEN t ELSE b[k - 1]
    <3>1. r \in Seq(Y) /\ Spliced(r, b, i, t)
      BY <1>4, <2>1, InsertedWhere
    <3> HIDE DEF r
    <3>2. QED
      BY <3>1 DEF Spliced
  <2>3. l = n - 1
    BY <1>4
  <2> HIDE DEF r, l
  <2>4. l + 1 = n /\ j = i
    BY <2>1, <2>3
  <2> HIDE DEF j
  <2>5. QED
    BY <2>2, <2>4
<1> HIDE DEF r
<1>11. q \in Seq(Y)
  BY SeqMonotonic, X \subseteq Y
<1>12. ASSUME NEW k \in 1 .. n PROVE r[k] = q[k]
  <2>1. CASE k < i
    <3>1. k \in 1 .. (n - 1)
      BY <1>1, <2>1
    <3>2. b[k] = q[k]
      BY <1>5, <2>1, <3>1
    <3>3. QED
      BY <1>10, <2>1, <3>2
  <2>2. CASE k = i
    BY <1>10, <2>2 DEF t
  <2>3. CASE k > i
    <3>1. k - 1 \in 1 .. (n - 1) /\ ~(k - 1 < i) /\ (k - 1) + 1 = k
      BY <1>1, <2>3
    <3>2. b[k - 1] = q[k]
      BY <1>5, <3>1
    <3>3. ~(k < i) /\ k # i
      BY <1>1, <2>3
    <3>4. QED
      BY <1>10, <3>2, <3>3
  <2>4. QED
    BY <1>1, <2>1, <2>2, <2>3
<1>13. r = q
  <2>1. Len(r) = n /\ Len(q) = n
    <3>1. DOMAIN r = 1 .. Len(r) /\ Len(r) \in Nat
      BY <1>10, ListFacts
    <3>2. QED
      BY <1>1, <1>10, <3>1 DEF n
  <2> HIDE DEF Y
  <2>2. QED
    BY <1>10, <1>11, <1>12, <2>1, SeqEqual
<1>14. QED
  BY <1>9, <1>13 DEF r, a, t

LEMMA GluedSet ==
  ASSUME NEW X, NEW a \in Seq(X), NEW b \in Seq(X)
  PROVE  ToSet(a \o b) = ToSet(a) \cup ToSet(b)
<1> DEFINE c == a \o b
           m == Len(a)
           n == Len(b)
<1>1. /\ c \in Seq(X) /\ Len(c) = m + n /\ m \in Nat /\ n \in Nat
      /\ \A i \in 1 .. (m + n) : c[i] = IF i <= m THEN a[i] ELSE b[i - m]
  BY ConcatProperties, LenProperties
<1> HIDE DEF c
<1>2. DOMAIN a = 1 .. m /\ DOMAIN b = 1 .. n /\ DOMAIN c = 1 .. (m + n)
  <2>1. DOMAIN c = 1 .. Len(c)
    BY <1>1, ListFacts
  <2>2. DOMAIN a = 1 .. m /\ DOMAIN b = 1 .. n
    BY ListFacts
  <2>3. QED
    BY <1>1, <2>1, <2>2
<1> HIDE DEF m, n
<1>3. ASSUME NEW x \in ToSet(c) PROVE x \in ToSet(a) \cup ToSet(b)
  <2>1. PICK i \in 1 .. (m + n) : x = c[i]
    BY <1>2 DEF ToSet
  <2>2. CASE i <= m
    <3>1. i \in 1 .. m /\ x = a[i]
      BY <1>1, <2>1, <2>2
    <3>2. QED
      BY <1>2, <3>1 DEF ToSet
  <2>3. CASE ~(i <= m)
    <3>1. i - m \in 1 .. n /\ x = b[i - m]
      BY <1>1, <2>1, <2>3
    <3>2. QED
      BY <1>2, <3>1 DEF ToSet
  <2>4. QED
    BY <2>2, <2>3
<1>4. ASSUME NEW x \in ToSet(a) PROVE x \in ToSet(c)
  <2>1. PICK i \in 1 .. m : x = a[i]
    BY <1>2 DEF ToSet
  <2>2. i \in 1 .. (m + n) /\ c[i] = a[i]
    BY <1>1, <2>1
  <2>3. QED
    BY <1>2, <2>1, <2>2 DEF ToSet
<1>5. ASSUME NEW x \in ToSet(b) PROVE x \in ToSet(c)
  <2>1. PICK i \in 1 .. n : x = b[i]
    BY <1>2 DEF ToSet
  <2>2. i + m \in 1 .. (m + n) /\ ~(i + m <= m) /\ (i + m) - m = i
    BY <1>1, <2>1
  <2>3. c[i + m] = b[i]
    BY <1>1, <2>2
  <2>4. QED
    BY <1>2, <2>1, <2>2, <2>3 DEF ToSet
<1>6. QED
  BY <1>3, <1>4, <1>5 DEF c

LEMMA EnforceOrder ==
  ASSUME NEW d, IsStacked(d), NEW x \in Lanes(d), NEW y \in Lanes(d),
         Zone(d, x) < Zone(d, y) \/ (Zone(d, x) = Zone(d, y) /\ Before(d.order, x, y))
  PROVE  Before(EnforceLaneZones(d).order, x, y)
<1> DEFINE L == Lanes(d)
           lane(z) == Among(d.order, InZone(d, z))
           a == lane(0) \o lane(1)
           b == a \o lane(2)
           c == b \o lane(3)
<1>1. d.order \in Seq(L) /\ ToSet(d.order) = L /\ Shape(d)
  BY DEF IsStacked
<1>2. Zone(d, x) \in 0 .. 3 /\ Zone(d, y) \in 0 .. 3
  BY TrackFacts DEF IsStacked
<1>3. EnforceLaneZones(d).order = c
  BY <1>1, ReorderedFacts DEF EnforceLaneZones
<1>4. ASSUME NEW z PROVE lane(z) \in Seq(L) /\ ToSet(lane(z)) = L \cap InZone(d, z)
  BY <1>1, AmongFacts
<1>5. ASSUME NEW z, z = Zone(d, x), z = Zone(d, y), Before(d.order, x, y) PROVE Before(lane(z), x, y)
  <2>1. x \in InZone(d, z) /\ y \in InZone(d, z)
    BY <1>5 DEF InZone
  <2>2. QED
    BY <1>1, <1>5, <2>1, AmongOrder
<1>6. x \in ToSet(lane(Zone(d, x))) /\ y \in ToSet(lane(Zone(d, y)))
  <2>1. x \in InZone(d, Zone(d, x)) /\ y \in InZone(d, Zone(d, y))
    BY DEF InZone
  <2>2. QED
    BY <1>4, <2>1
<1> HIDE DEF lane
<1>7. a \in Seq(L) /\ b \in Seq(L)
  BY <1>4, ConcatProperties
<1>9. (x \in ToSet(lane(0)) \/ x \in ToSet(lane(1)) => x \in ToSet(a))
      /\ (x \in ToSet(a) \/ x \in ToSet(lane(2)) => x \in ToSet(b))
  <2>1. ToSet(a) = ToSet(lane(0)) \cup ToSet(lane(1))
    BY <1>4, GluedSet
  <2>2. ToSet(b) = ToSet(a) \cup ToSet(lane(2))
    <3> HIDE DEF a
    <3>1. QED
      BY <1>4, <1>7, GluedSet
  <2> HIDE DEF a, b
  <2>3. QED
    BY <2>1, <2>2
<1>10. Before(lane(0), x, y) \/ Before(lane(1), x, y) \/ (x \in ToSet(lane(0)) /\ y \in ToSet(lane(1)))
         => Before(a, x, y)
  BY <1>4, GlueOrder
<1>11. Before(a, x, y) \/ Before(lane(2), x, y) \/ (x \in ToSet(a) /\ y \in ToSet(lane(2)))
         => Before(b, x, y)
  <2> HIDE DEF a
  <2>1. QED
    BY <1>4, <1>7, GlueOrder
<1>12. Before(b, x, y) \/ Before(lane(3), x, y) \/ (x \in ToSet(b) /\ y \in ToSet(lane(3)))
         => Before(c, x, y)
  <2> HIDE DEF b
  <2>1. QED
    BY <1>4, <1>7, GlueOrder
<1> HIDE DEF a, b, c
<1>13. CASE Zone(d, x) = Zone(d, y)
  BY <1>2, <1>3, <1>5, <1>10, <1>11, <1>12, <1>13
<1>14. CASE Zone(d, x) < Zone(d, y)
  BY <1>2, <1>3, <1>6, <1>9, <1>10, <1>11, <1>12, <1>14
<1>15. QED
  BY <1>13, <1>14

(* The zones leave lanes that are in them as they stand.                    *)
LEMMA EnforceKeeps ==
  ASSUME NEW d, IsStacked(d), NEW S \in SUBSET Lanes(d),
         \A x, y \in S : Before(d.order, x, y) => Zone(d, x) <= Zone(d, y)
  PROVE  Among(EnforceLaneZones(d).order, S) = Among(d.order, S)
<1> DEFINE L == Lanes(d)
           o == d.order
           p == EnforceLaneZones(d).order
           a == Among(o, S)
           b == Among(p, S)
<1>1. o \in Seq(L) /\ ToSet(o) = L /\ IsInjective(o)
  BY DEF IsStacked
<1>2. p \in Seq(L) /\ ToSet(p) = L /\ IsInjective(p)
  <2> DEFINE e == EnforceLaneZones(d)
  <2>1. IsStacked(e) /\ e.tracks = d.tracks
    BY EnforceFacts
  <2> HIDE DEF e
  <2>2. QED
    BY <2>1 DEF IsStacked, Lanes, e
<1>3. \A x, y \in L : Zone(d, x) < Zone(d, y) \/ (Zone(d, x) = Zone(d, y) /\ Before(o, x, y)) => Before(p, x, y)
  BY EnforceOrder
<1>4. \A x \in L : Zone(d, x) \in 0 .. 3
  BY TrackFacts DEF IsStacked
<1>8. \A x, y \in S : Before(o, x, y) => Zone(d, x) <= Zone(d, y)
  OBVIOUS
<1> HIDE DEF o, p
<1>5. a \in Seq(L) /\ ToSet(a) = L \cap S /\ IsInjective(a)
  BY <1>1, AmongFacts
<1>6. b \in Seq(L) /\ ToSet(b) = L \cap S /\ IsInjective(b)
  BY <1>2, AmongFacts
<1>7. ASSUME NEW x, NEW y, Before(a, x, y) PROVE Before(b, x, y)
  <2>1. x \in S /\ y \in S /\ Before(o, x, y)
    BY <1>1, <1>7, AmongBefore
  <2>2. Zone(d, x) <= Zone(d, y)
    BY <1>8, <2>1
  <2>3. Before(p, x, y)
    BY <1>3, <1>4, <2>1, <2>2
  <2>4. QED
    BY <1>2, <2>1, <2>3, AmongOrder
<1> HIDE DEF a, b
<1>9. a = b
  BY <1>5, <1>6, <1>7, SameOrder
<1>10. QED
  BY <1>9 DEF a, b, o, p

LEMMA ZonesBefore ==
  ASSUME NEW d, IsStacked(d)
  PROVE  InZones(d) <=> \A x, y \in Lanes(d) : Before(d.order, x, y) => Zone(d, x) <= Zone(d, y)
<1>1. \A i \in DOMAIN d.order : d.order[i] \in Lanes(d)
  BY ListFacts DEF IsStacked
<1>2. InZones(d) => \A x, y \in Lanes(d) : Before(d.order, x, y) => Zone(d, x) <= Zone(d, y)
  BY DEF InZones, Before
<1>3. ASSUME \A x, y \in Lanes(d) : Before(d.order, x, y) => Zone(d, x) <= Zone(d, y) PROVE InZones(d)
  <2> SUFFICES ASSUME NEW i \in DOMAIN d.order, NEW j \in DOMAIN d.order, i < j
               PROVE  Zone(d, d.order[i]) <= Zone(d, d.order[j])
    BY DEF InZones
  <2>1. Before(d.order, d.order[i], d.order[j])
    BY DEF Before
  <2>2. QED
    BY <1>1, <1>3, <2>1
<1>4. QED
  BY <1>2, <1>3

LEMMA AlreadyInZones ==
  ASSUME NEW d, IsStacked(d), InZones(d)
  PROVE  EnforceLaneZones(d) = d
<1> DEFINE e == EnforceLaneZones(d)
           L == Lanes(d)
<1>1. IsStacked(e) /\ Restacked(d, e) /\ e.tracks = d.tracks
  BY EnforceFacts
<1>2. Among(e.order, L) = Among(d.order, L)
  BY ZonesBefore, EnforceKeeps
<1> HIDE DEF e
<1>3. Among(d.order, L) = d.order
  BY AmongAll DEF IsStacked
<1>4. Among(e.order, L) = e.order
  BY <1>1, AmongAll DEF IsStacked, Lanes
<1>5. e = d
  BY <1>1, <1>2, <1>3, <1>4 DEF IsStacked, Shape, Restacked
<1>6. QED
  BY <1>5 DEF e

LEMMA HeadAmong ==
  ASSUME NEW X, NEW q \in Seq(X), NEW S, NEW x \in ToSet(q) \cap S, \A y \in S : ~Before(q, y, x)
  PROVE  LET a == Among(q, S) IN Len(a) \in Nat /\ Len(a) > 0 /\ a[1] = x
<1> DEFINE a == Among(q, S)
<1>1. a \in Seq(X) /\ Picks(a, q, S, Len(q)) /\ DOMAIN a = 1 .. Len(a) /\ DOMAIN q = 1 .. Len(q)
      /\ Len(a) \in Nat /\ Len(q) \in Nat /\ \E i \in DOMAIN q : x = q[i]
  BY AmongPicks, ListFacts
<1> HIDE DEF a
<1>2. PICK p \in [1 .. Len(a) -> 1 .. Len(q)] :
        /\ \A k \in 1 .. Len(a) : a[k] = q[p[k]] /\ q[p[k]] \in S
        /\ \A k, l \in 1 .. Len(a) : k < l => p[k] < p[l]
        /\ \A j \in 1 .. Len(q) : q[j] \in S => \E k \in 1 .. Len(a) : p[k] = j
  BY <1>1 DEF Picks
<1>3. PICK j \in 1 .. Len(q) : x = q[j]
  BY <1>1
<1>4. PICK k \in 1 .. Len(a) : p[k] = j
  BY <1>2, <1>3
<1>5. 1 \in 1 .. Len(a)
  BY <1>1, <1>4
<1>6. k = 1
  <2> SUFFICES ASSUME k # 1 PROVE FALSE
    OBVIOUS
  <2>1. 1 < k
    BY <1>1
  <2>2. p[1] < p[k]
    BY <1>2, <1>5, <2>1
  <2>3. p[1] \in DOMAIN q /\ p[k] \in DOMAIN q
    BY <1>1, <1>2, <1>5
  <2>4. q[p[k]] = x
    BY <1>3, <1>4
  <2>5. Before(q, q[p[1]], x)
    BY <2>2, <2>3, <2>4 DEF Before
  <2>6. q[p[1]] \in S
    BY <1>2, <1>5
  <2>7. QED
    BY <2>5, <2>6
<1>7. a[1] = x
  BY <1>2, <1>3, <1>4, <1>5, <1>6
<1>8. QED
  BY <1>1, <1>5, <1>7 DEF a

LEMMA FirstOfGlued ==
  ASSUME NEW X, NEW a \in Seq(X), NEW b \in Seq(X)
  PROVE  /\ Len(a) > 0 => Head(a \o b) = a[1]
         /\ Len(a) = 0 /\ Len(b) > 0 => Head(a \o b) = b[1]
<1> DEFINE c == a \o b
           m == Len(a)
           n == Len(b)
<1>1. /\ c \in Seq(X) /\ Len(c) = m + n /\ m \in Nat /\ n \in Nat
      /\ \A i \in 1 .. (m + n) : c[i] = IF i <= m THEN a[i] ELSE b[i - m]
  BY ConcatProperties, LenProperties
<1> HIDE DEF c
<1>2. Len(c) > 0 => Head(c) = c[1]
  <2>1. Len(c) > 0 => c # << >>
    BY <1>1, EmptySeq
  <2>2. QED
    BY <1>1, <2>1, HeadTailProperties
<1> HIDE DEF m, n
<1>3. m > 0 => c[1] = a[1] /\ Len(c) > 0
  BY <1>1
<1>4. m = 0 /\ n > 0 => c[1] = b[1] /\ Len(c) > 0
  <2> SUFFICES ASSUME m = 0, n > 0 PROVE c[1] = b[1] /\ Len(c) > 0
    OBVIOUS
  <2>1. 1 \in 1 .. (m + n) /\ ~(1 <= m) /\ 1 - m = 1
    BY <1>1
  <2>2. QED
    BY <1>1, <2>1
<1>5. QED
  BY <1>2, <1>3, <1>4 DEF c, m, n

(* The bottom-most video lane that claims the flag, or the bottom-most one  *)
(* when none does.                                                          *)
Claims(d, t) ==
  /\ t \in VideoLanes(d)
  /\ \/ t \in MainTracks(d) /\ \A u \in VideoLanes(d) \cap MainTracks(d) : ~Before(d.order, u, t)
     \/ VideoLanes(d) \cap MainTracks(d) = {} /\ \A u \in VideoLanes(d) : ~Before(d.order, u, t)

LEMMA ElectedIs ==
  ASSUME NEW d, IsStacked(d), NEW t, Claims(d, t)
  PROVE  Elected(d) = t
<1> DEFINE L == Lanes(d)
           videos == Among(d.order, VideoLanes(d))
           claims == Among(videos, MainTracks(d))
<1>1. d.order \in Seq(L) /\ ToSet(d.order) = L
  BY DEF IsStacked
<1>2. videos \in Seq(L) /\ ToSet(videos) = VideoLanes(d)
  <2>1. videos \in Seq(L) /\ ToSet(videos) = L \cap VideoLanes(d)
    BY <1>1, AmongFacts
  <2>2. QED
    BY <2>1 DEF VideoLanes
<1>3. \A u : Before(videos, u, t) => u \in VideoLanes(d) /\ Before(d.order, u, t)
  BY <1>1, AmongBefore
<1>4. t \in VideoLanes(d)
  BY DEF Claims
<1>5. Elected(d) = Head(claims \o videos)
  BY DEF Elected
<1>6. CASE t \in MainTracks(d) /\ \A u \in VideoLanes(d) \cap MainTracks(d) : ~Before(d.order, u, t)
  <2>1. \A u \in MainTracks(d) : ~Before(videos, u, t)
    BY <1>3, <1>6
  <2>2. t \in ToSet(videos) \cap MainTracks(d)
    BY <1>2, <1>4, <1>6
  <2> HIDE DEF videos
  <2>3. claims \in Seq(L)
    BY <1>2, AmongFacts
  <2>4. Len(claims) > 0 /\ claims[1] = t
    BY <1>2, <2>1, <2>2, HeadAmong
  <2> HIDE DEF claims
  <2>5. QED
    BY <1>2, <1>5, <2>3, <2>4, FirstOfGlued
<1>7. CASE VideoLanes(d) \cap MainTracks(d) = {} /\ \A u \in VideoLanes(d) : ~Before(d.order, u, t)
  <2>1. t \in ToSet(d.order) \cap VideoLanes(d)
    BY <1>1, <1>4 DEF VideoLanes
  <2>2. Len(videos) > 0 /\ videos[1] = t
    BY <1>1, <1>7, <2>1, HeadAmong
  <2> HIDE DEF videos
  <2>3. claims \in Seq(L) /\ ToSet(claims) = ToSet(videos) \cap MainTracks(d)
    BY <1>2, AmongFacts
  <2> HIDE DEF claims
  <2>4. Len(claims) = 0
    <3>1. Len(claims) \in Nat /\ DOMAIN claims = 1 .. Len(claims) /\ \A i \in DOMAIN claims : claims[i] \in ToSet(claims)
      BY <2>3, ListFacts
    <3>2. ToSet(claims) = {}
      BY <1>2, <1>7, <2>3
    <3>3. Len(claims) > 0 => 1 \in DOMAIN claims
      BY <3>1
    <3>4. QED
      BY <3>1, <3>2, <3>3
  <2>5. QED
    BY <1>2, <1>5, <2>2, <2>3, <2>4, FirstOfGlued
<1>8. QED
  BY <1>6, <1>7 DEF Claims

(* e is d with its lanes' flags only in question.                           *)
LEMMA Designated ==
  ASSUME NEW d, IsStacked(d)
  PROVE  LET e == DesignateMain(d) IN
         /\ \A t : Claims(d, t) => \A u \in Lanes(d) : e.tracks[u].main <=> u = t
         /\ VideoLanes(d) = {} => \A u \in Lanes(d) : ~e.tracks[u].main
<1> DEFINE e == DesignateMain(d)
<1>1. \A u \in Lanes(d) : e.tracks[u].main <=> u \in VideoLanes(d) /\ u = Elected(d)
  BY DesignateFacts
<1> HIDE DEF e
<1>2. \A t : Claims(d, t) => t \in VideoLanes(d) /\ t = Elected(d)
  BY ElectedIs DEF Claims
<1>3. QED
  BY <1>1, <1>2 DEF e

(* Lanes whose flags are as they should be stay so.                         *)
LEMMA FlagsKept ==
  ASSUME NEW d, IsStacked(d), \A u \in Lanes(d) : DesignateMain(d).tracks[u].main <=> d.tracks[u].main
  PROVE  DesignateMain(d) = d
<1> DEFINE e == DesignateMain(d)
<1>1. /\ IsStacked(e) /\ Restacked(d, e) /\ e.order = d.order /\ Lanes(e) = Lanes(d)
      /\ \A t \in Lanes(d) : /\ e.tracks[t].kind = d.tracks[t].kind
                             /\ e.tracks[t].junctions = d.tracks[t].junctions
  BY DesignateFacts
<1>2. \A u \in Lanes(d) : e.tracks[u].main <=> d.tracks[u].main
  OBVIOUS
<1> HIDE DEF e
<1>3. IsTracks(e.tracks) /\ IsTracks(d.tracks)
  BY <1>1 DEF IsStacked
<1>4. \A u \in Lanes(d) : e.tracks[u].main = d.tracks[u].main
  <2> TAKE u \in Lanes(d)
  <2>1. IsTrack(e.tracks[u]) /\ IsTrack(d.tracks[u])
    BY <1>1, <1>3 DEF IsTracks, Lanes
  <2>2. e.tracks[u].main \in BOOLEAN /\ d.tracks[u].main \in BOOLEAN
    BY <2>1 DEF IsTrack
  <2>3. QED
    BY <1>2, <2>2, Zenon
<1>5. e.tracks = d.tracks
  BY <1>1, <1>3, <1>4, SameTracks DEF Lanes
<1>6. e = d
  BY <1>1, <1>5 DEF IsStacked, Shape, Restacked
<1>7. QED
  BY <1>6 DEF e

LEMMA LanesFinite ==
  ASSUME NEW d, IsStacked(d), NEW S \in SUBSET Lanes(d)
  PROVE  IsFiniteSet(S)
<1> DEFINE n == Len(d.order)
           f == [i \in 1 .. n |-> d.order[i]]
<1>1. n \in Nat /\ DOMAIN d.order = 1 .. n /\ (\A i \in DOMAIN d.order : d.order[i] \in Lanes(d))
      /\ \A x \in Lanes(d) : \E i \in DOMAIN d.order : x = d.order[i]
  BY ListFacts DEF IsStacked
<1> HIDE DEF n
<1>2. f \in Surjection(1 .. n, Lanes(d))
  BY <1>1 DEF Surjection
<1>3. IsFiniteSet(1 .. n)
  <2>1. 1 \in Int /\ n \in Int
    BY <1>1
  <2>2. QED
    BY <2>1, FS_Interval
<1> HIDE DEF f
<1>4. IsFiniteSet(Lanes(d))
  BY <1>2, <1>3, FS_Surjection
<1>5. QED
  BY <1>4, FS_Subset

LEMMA NotBeforeItself ==
  ASSUME NEW d, IsStacked(d), NEW t
  PROVE  ~Before(d.order, t, t)
<1>1. DOMAIN d.order = 1 .. Len(d.order)
  BY ListFacts DEF IsStacked
<1>2. \A i, j \in DOMAIN d.order : d.order[i] = d.order[j] => i = j
  BY DEF IsStacked, IsInjective
<1>3. QED
  BY <1>1, <1>2 DEF Before

LEMMA TheMain ==
  ASSUME NEW d, IsStacked(d), OneMain(d), VideoLanes(d) # {}
  PROVE  \E m \in VideoLanes(d) : MainTracks(d) = {m}
<1>1. MainTracks(d) \subseteq VideoLanes(d) /\ Cardinality(MainTracks(d)) = 1
  BY DEF OneMain
<1>2. IsFiniteSet(MainTracks(d))
  <2>1. MainTracks(d) \in SUBSET Lanes(d)
    BY DEF MainTracks
  <2>2. QED
    BY <2>1, LanesFinite
<1>3. \E m : MainTracks(d) = {m}
  BY <1>1, <1>2, FS_Singleton
<1>4. QED
  BY <1>1, <1>3

(* A stack of lanes that are in their zones, one of them main, is as the    *)
(* normalization leaves it.                                                 *)
LEMMA AlreadyMain ==
  ASSUME NEW d, IsStacked(d), OneMain(d)
  PROVE  DesignateMain(d) = d
<1> DEFINE e == DesignateMain(d)
<1>1. MainTracks(d) \subseteq VideoLanes(d)
  BY DEF OneMain
<1>2. CASE VideoLanes(d) = {}
  <2>1. \A u \in Lanes(d) : ~e.tracks[u].main
    BY <1>2, Designated
  <2> HIDE DEF e
  <2>2. \A u \in Lanes(d) : ~d.tracks[u].main
    BY <1>1, <1>2 DEF MainTracks
  <2>3. \A u \in Lanes(d) : e.tracks[u].main <=> d.tracks[u].main
    BY <2>1, <2>2
  <2>4. QED
    BY <2>3, FlagsKept DEF e
<1>3. CASE VideoLanes(d) # {}
  <2>1. PICK m \in VideoLanes(d) : MainTracks(d) = {m}
    BY <1>3, TheMain
  <2>2. \A u \in VideoLanes(d) \cap MainTracks(d) : ~Before(d.order, u, m)
    BY <2>1, NotBeforeItself
  <2>3. Claims(d, m)
    BY <2>1, <2>2 DEF Claims
  <2>4. \A u \in Lanes(d) : e.tracks[u].main <=> u = m
    BY <2>3, Designated
  <2> HIDE DEF e
  <2>5. \A u \in Lanes(d) : e.tracks[u].main <=> d.tracks[u].main
    BY <2>1, <2>4 DEF MainTracks
  <2>6. QED
    BY <2>5, FlagsKept DEF e
<1>4. QED
  BY <1>2, <1>3

LEMMA AlreadyNormal ==
  ASSUME NEW d, IsStacked(d), IsZoned(d)
  PROVE  NormalizeLanes(d) = d
<1>1. InZones(d) /\ OneMain(d)
  BY DEF IsZoned, InZones, OneMain
<1>2. QED
  BY <1>1, AlreadyMain, AlreadyInZones DEF NormalizeLanes

(* A lane moved goes back to where it was.                                  *)
LEMMA ReorderBack ==
  ASSUME NEW d, IsStacked(d), InZones(d), NEW t \in Lanes(d), NEW index \in Nat \ {0}
  PROVE  Reorder(Reorder(d, t, index), t, IndexOf(d, t)) = d
<1> DEFINE L == Lanes(d) \ {t}
           i == IndexOf(d, t)
           rest == Among(d.order, L)
           q == InsertedAt(rest, index, t)
           m == [d EXCEPT !.order = q]
           n == EnforceLaneZones(m)
           f == Reorder(d, t, index)
           p == InsertedAt(Among(f.order, L), i, t)
           g == [f EXCEPT !.order = p]
<1>1. /\ d.order \in Seq(Lanes(d)) /\ ToSet(d.order) = Lanes(d)
      /\ IsInjective(d.order) /\ Shape(d)
  BY DEF IsStacked
<1>2. i \in DOMAIN d.order /\ d.order[i] = t /\ i \in Nat \ {0}
  BY IndexOfFacts
<1>3. InsertedAt(rest, i, t) = d.order
  <2>1. ToSet(d.order) \cap L = ToSet(d.order) \ {d.order[i]}
    BY <1>1, <1>2
  <2> HIDE DEF L, i
  <2>2. InsertedAt(Among(d.order, L), i, d.order[i]) = d.order
    BY <1>1, <1>2, <2>1, Reinserted
  <2>3. QED
    BY <1>2, <2>2
<1>4. IsStacked(f) /\ Restacked(d, f) /\ f.tracks = d.tracks /\ Lanes(f) = Lanes(d)
  BY ReorderFacts DEF Lanes
<1>5. rest \in Seq(Lanes(d)) /\ ToSet(rest) = L /\ IsInjective(rest)
  <2>1. /\ rest \in Seq(Lanes(d)) /\ ToSet(rest) = Lanes(d) \cap L /\ IsInjective(rest)
    BY <1>1, AmongFacts
  <2>2. QED
    BY <2>1
<1>6. Among(f.order, L) = rest
  <2>1. CASE i = index
    BY <2>1 DEF Reorder
  <2>2. CASE i # index
    <3>1. f = n
      BY <2>2 DEF Reorder
    <3>2. q \in Seq(Lanes(d)) /\ ToSet(q) = Lanes(d) /\ IsInjective(q)
      <4>1. t \notin L /\ L \cup {t} = Lanes(d) /\ Lanes(d) \cup {t} = Lanes(d)
        OBVIOUS
      <4> HIDE DEF L, rest
      <4>2. /\ q \in Seq(Lanes(d) \cup {t}) /\ ToSet(q) = ToSet(rest) \cup {t} /\ IsInjective(q)
        BY <1>5, <4>1, InsertFacts
      <4>3. QED
        BY <1>5, <4>1, <4>2
    <3>3. Among(q, L) = rest
      <4>1. t \notin L /\ (L \cup {t}) \cap L = L
        OBVIOUS
      <4> HIDE DEF L, rest
      <4>2. QED
        BY <1>5, <4>1, Uninserted
    <3> HIDE DEF q
    <3>4. Shape(m) /\ m.order = q /\ m.tracks = d.tracks
      BY <1>1, ReorderedFacts
    <3> HIDE DEF m
    <3>5. IsStacked(m) /\ Lanes(m) = Lanes(d)
      BY <1>1, <3>2, <3>4 DEF IsStacked, Lanes
    <3>6. \A x, y \in L : Before(m.order, x, y) => Zone(m, x) <= Zone(m, y)
      <4> SUFFICES ASSUME NEW x \in L, NEW y \in L, Before(q, x, y) PROVE Zone(m, x) <= Zone(m, y)
        BY <3>4
      <4>1. Before(rest, x, y)
        BY <3>2, <3>3, AmongOrder
      <4>2. Before(d.order, x, y)
        BY <1>1, <4>1, AmongBefore
      <4>3. Zone(d, x) <= Zone(d, y)
        BY <4>2, ZonesBefore
      <4>4. Zone(m, x) = Zone(d, x) /\ Zone(m, y) = Zone(d, y)
        BY <3>4 DEF Zone
      <4>5. QED
        BY <4>3, <4>4
    <3>7. Among(n.order, L) = Among(m.order, L)
      <4>1. L \in SUBSET Lanes(m)
        BY <3>5
      <4> HIDE DEF L
      <4>2. QED
        BY <3>5, <3>6, <4>1, EnforceKeeps
    <3>8. QED
      BY <3>1, <3>3, <3>4, <3>7
  <2>3. QED
    BY <2>1, <2>2
<1> HIDE DEF f, rest, q
<1>7. p = d.order
  BY <1>3, <1>6
<1>8. CASE IndexOf(f, t) = i
  <2>1. f.order = d.order
    <3>1. IndexOf(f, t) \in DOMAIN f.order /\ f.order[IndexOf(f, t)] = t
      BY <1>4, IndexOfFacts
    <3>2. /\ f.order \in Seq(Lanes(d)) /\ ToSet(f.order) = Lanes(d) /\ IsInjective(f.order)
      BY <1>4 DEF IsStacked
    <3>3. ToSet(f.order) \cap L = ToSet(f.order) \ {f.order[i]}
      BY <1>8, <3>1, <3>2
    <3> HIDE DEF L, i
    <3>4. InsertedAt(Among(f.order, L), i, f.order[i]) = f.order
      BY <1>8, <3>1, <3>2, <3>3, Reinserted
    <3>5. QED
      BY <1>7, <1>8, <3>1, <3>4
  <2>2. f = d
    BY <1>1, <1>4, <2>1 DEF Restacked, Shape
  <2>3. QED
    BY <1>8, <2>2 DEF Reorder, f
<1>9. CASE IndexOf(f, t) # i
  <2>1. Reorder(f, t, i) = EnforceLaneZones(g)
    BY <1>4, <1>9 DEF Reorder
  <2>2. Shape(g) /\ g.order = p /\ g.tracks = f.tracks /\ g.clips = f.clips /\ g.pool = f.pool
    BY <1>4, ReorderedFacts DEF Restacked
  <2> HIDE DEF g, p
  <2>3. g = d
    BY <1>1, <1>4, <1>7, <2>2 DEF Restacked, Shape
  <2>4. QED
    BY <2>1, <2>3, AlreadyInZones DEF f
<1>10. QED
  BY <1>8, <1>9

LEMMA ZoneOf ==
  ASSUME NEW d, IsTracks(d.tracks), NEW t \in Lanes(d)
  PROVE  /\ Zone(d, t) = 0 <=> d.tracks[t].kind = "audio"
         /\ Zone(d, t) = 1 <=> d.tracks[t].kind # "audio" /\ d.tracks[t].main
         /\ d.tracks[t].kind = "video" /\ ~d.tracks[t].main => Zone(d, t) = 2
         /\ Zone(d, t) = 2 => d.tracks[t].kind \in {"video", "sticker"} /\ ~d.tracks[t].main
         /\ Zone(d, t) \in 0 .. 3
<1>1. d.tracks[t].kind \in Kind /\ d.tracks[t].main \in BOOLEAN /\ Zone(d, t) \in 0 .. 3
  BY TrackFacts
<1>2. CASE d.tracks[t].kind = "audio"
  BY <1>1, <1>2 DEF Zone
<1>3. CASE d.tracks[t].kind # "audio" /\ d.tracks[t].main
  BY <1>1, <1>3 DEF Zone
<1>4. CASE d.tracks[t].kind = "text" /\ ~d.tracks[t].main
  BY <1>1, <1>4 DEF Zone
<1>5. CASE d.tracks[t].kind \notin {"audio", "text"} /\ ~d.tracks[t].main
  <2>1. d.tracks[t].kind \in {"video", "sticker"}
    BY <1>1, <1>5 DEF Kind
  <2>2. Zone(d, t) = 2
    BY <1>1, <1>5 DEF Zone
  <2>3. QED
    BY <1>1, <1>5, <2>1, <2>2
<1>6. QED
  BY <1>1, <1>2, <1>3, <1>4, <1>5

(* The flag as the zones and the bottom-most video lane of d have it.       *)
LEMMA MainZones ==
  ASSUME NEW d, IsStacked(d), IsZoned(d)
  PROVE  /\ InZones(d) /\ OneMain(d)
         /\ \A t \in Lanes(d) : d.tracks[t].main =>
              /\ t \in VideoLanes(d) /\ MainTracks(d) = {t}
              /\ \A u \in VideoLanes(d) \ {t} : Before(d.order, t, u) /\ ~Before(d.order, u, t)
<1>1. InZones(d) /\ OneMain(d)
  BY DEF IsZoned, InZones, OneMain
<1>2. ASSUME NEW t \in Lanes(d), d.tracks[t].main
      PROVE  /\ t \in VideoLanes(d) /\ MainTracks(d) = {t}
             /\ \A u \in VideoLanes(d) \ {t} : Before(d.order, t, u) /\ ~Before(d.order, u, t)
  <2>1. t \in MainTracks(d) /\ t \in VideoLanes(d)
    BY <1>1, <1>2 DEF MainTracks, OneMain
  <2>2. MainTracks(d) = {t}
    BY <1>1, <2>1, TheMain
  <2>3. ASSUME NEW u \in VideoLanes(d) \ {t} PROVE Before(d.order, t, u) /\ ~Before(d.order, u, t)
    <3>1. u \in Lanes(d) /\ d.tracks[u].kind = "video" /\ ~d.tracks[u].main
      BY <2>2, <2>3 DEF VideoLanes, MainTracks
    <3>2. d.tracks[t].kind = "video"
      BY <2>1 DEF VideoLanes
    <3>3. Zone(d, t) = 1 /\ Zone(d, u) = 2
      BY <1>2, <3>1, <3>2, ZoneOf DEF IsStacked
    <3>4. ~Before(d.order, u, t)
      BY <1>1, <3>1, <3>3, ZonesBefore
    <3>5. QED
      BY <2>3, <3>1, <3>4, TotalOrder DEF IsStacked
  <2>4. QED
    BY <2>1, <2>2, <2>3
<1>3. QED
  BY <1>1, <1>2

(* Lanes stacked alike, flags and all.                                      *)
LEMMA AlikeStacked ==
  ASSUME NEW d, IsStacked(d), NEW e, IsStacked(e), Lanes(e) = Lanes(d), e.order = d.order,
         \A u \in Lanes(d) : /\ e.tracks[u].kind = d.tracks[u].kind
                             /\ e.tracks[u].junctions = d.tracks[u].junctions
                             /\ e.tracks[u].main <=> d.tracks[u].main
  PROVE  e.tracks = d.tracks /\ (IsZoned(d) => IsZoned(e) /\ InZones(e)) /\ VideoLanes(e) = VideoLanes(d)
<1>1. IsTracks(e.tracks) /\ IsTracks(d.tracks)
  BY DEF IsStacked
<1>2. \A u \in Lanes(d) : e.tracks[u].main = d.tracks[u].main
  <2> TAKE u \in Lanes(d)
  <2>1. e.tracks[u].main \in BOOLEAN /\ d.tracks[u].main \in BOOLEAN
    BY <1>1, TrackFacts
  <2>2. e.tracks[u].main <=> d.tracks[u].main
    OBVIOUS
  <2>3. QED
    BY <2>1, <2>2, Zenon
<1>3. e.tracks = d.tracks
  BY <1>1, <1>2, SameTracks DEF Lanes
<1>4. VideoLanes(e) = VideoLanes(d) /\ MainTracks(e) = MainTracks(d)
  BY <1>3 DEF VideoLanes, MainTracks, Lanes
<1>5. \A u : Zone(e, u) = Zone(d, u)
  BY <1>3 DEF Zone
<1>6. IsZoned(d) => IsZoned(e)
  BY <1>4, <1>5 DEF IsZoned
<1>7. IsZoned(e) => InZones(e)
  BY DEF IsZoned, InZones
<1>8. QED
  BY <1>3, <1>4, <1>6, <1>7

(* Some lane stands below all others.                                       *)
LEMMA SomeLowest ==
  ASSUME NEW d, IsStacked(d), NEW S \in SUBSET Lanes(d), S # {}
  PROVE  \E x \in S : \A y \in S : ~Before(d.order, y, x)
<1> DEFINE a == Among(d.order, S)
<1>1. d.order \in Seq(Lanes(d)) /\ ToSet(d.order) = Lanes(d) /\ IsInjective(d.order)
  BY DEF IsStacked
<1>2. a \in Seq(Lanes(d)) /\ ToSet(a) = ToSet(d.order) \cap S /\ IsInjective(a)
  BY <1>1, AmongFacts
<1>3. \A x, y : x \in S /\ y \in S /\ Before(d.order, x, y) => Before(a, x, y)
  BY <1>1, AmongOrder
<1> HIDE DEF a
<1>4. DOMAIN a = 1 .. Len(a) /\ Len(a) \in Nat /\ \A x \in ToSet(a) : \E i \in DOMAIN a : x = a[i]
  BY <1>2, ListFacts
<1>5. 1 \in DOMAIN a /\ a[1] \in S
  <2>1. ToSet(a) # {}
    BY <1>1, <1>2
  <2>2. 1 \in DOMAIN a
    BY <1>4, <2>1
  <2>3. QED
    BY <1>2, <2>2, ListFacts
<1>6. \A y : ~Before(a, y, a[1])
  <2> SUFFICES ASSUME NEW i \in DOMAIN a, NEW j \in DOMAIN a, i < j, a[j] = a[1] PROVE FALSE
    BY DEF Before
  <2>1. j = 1
    BY <1>2, <1>5 DEF IsInjective
  <2>2. QED
    BY <1>4, <2>1
<1>7. QED
  BY <1>3, <1>5, <1>6

LEMMA SomeClaim ==
  ASSUME NEW d, IsStacked(d), VideoLanes(d) # {}
  PROVE  \E t : Claims(d, t)
<1> DEFINE S == VideoLanes(d) \cap MainTracks(d)
<1>1. S \in SUBSET Lanes(d) /\ VideoLanes(d) \in SUBSET Lanes(d)
  BY DEF VideoLanes
<1>2. CASE S # {}
  BY <1>1, <1>2, SomeLowest DEF Claims
<1>3. CASE S = {}
  BY <1>1, <1>3, SomeLowest DEF Claims
<1>4. QED
  BY <1>2, <1>3

(* What dropping lane t leaves.                                             *)
LEMMA Drops ==
  ASSUME NEW d, IsStacked(d), IsZoned(d), NEW t \in Lanes(d), Reversible(d, t)
  PROVE  LET f == DropTrack(d, t) IN
         /\ IsStacked(f) /\ Lanes(f) = Lanes(d) \ {t}
         /\ f.order = Among(d.order, Lanes(d) \ {t})
         /\ \A u \in Lanes(f) : /\ f.tracks[u].kind = d.tracks[u].kind
                                /\ f.tracks[u].junctions = d.tracks[u].junctions
         /\ \/ \A u \in Lanes(f) : f.tracks[u].main <=> d.tracks[u].main
            \/ d.tracks[t].main
<1> DEFINE L == Lanes(d) \ {t}
           m == WithoutLane(d, t)
           f == DropTrack(d, t)
<1>1. /\ IsStacked(f) /\ Lanes(f) = L
      /\ \A u \in Lanes(f) : /\ f.tracks[u].kind = d.tracks[u].kind
                             /\ f.tracks[u].junctions = d.tracks[u].junctions
  <2>1. IsStacked(f) /\ Lanes(f) = L
    BY DropTrackFacts
  <2>2. \A u \in Lanes(f) : /\ f.tracks[u].kind = d.tracks[u].kind
                            /\ f.tracks[u].junctions = d.tracks[u].junctions
    BY DropTrackFacts, Zenon
  <2> HIDE DEF f
  <2>3. QED
    BY <2>1, <2>2
<1>2. f = IF d.tracks[t].main THEN NormalizeLanes(m) ELSE m
  BY WithoutLaneFacts
<1>3. IsStacked(m) /\ Lanes(m) = L /\ m.order = Among(d.order, L)
  BY WithoutLaneFacts
<1>4. \A u \in L : m.tracks[u] = d.tracks[u] /\ Zone(m, u) = Zone(d, u)
  BY <1>3, WithoutLaneFacts
<1>5. /\ InZones(d) /\ OneMain(d)
      /\ d.tracks[t].main =>
           /\ t \in VideoLanes(d) /\ MainTracks(d) = {t}
           /\ \A u \in VideoLanes(d) \ {t} : Before(d.order, t, u) /\ ~Before(d.order, u, t)
  BY MainZones
<1> HIDE DEF f, m
<1>6. CASE ~d.tracks[t].main
  BY <1>1, <1>2, <1>3, <1>4, <1>6 DEF f
<1>7. ASSUME d.tracks[t].main PROVE f.order = Among(d.order, L)
  <2>1. f = NormalizeLanes(m)
    BY <1>2, <1>7
  <2> DEFINE n == DesignateMain(m)
  <2>2. IsStacked(n) /\ n.order = m.order /\ Lanes(n) = L /\ \A u \in L : n.tracks[u].kind = d.tracks[u].kind
    <3>1. IsStacked(n) /\ n.order = m.order /\ Lanes(n) = Lanes(m)
          /\ \A u \in Lanes(m) : n.tracks[u].kind = m.tracks[u].kind
      BY <1>3, DesignateFacts
    <3>2. QED
      BY <1>3, <1>4, <3>1
  <2>3. VideoLanes(m) = VideoLanes(d) \ {t} /\ MainTracks(m) = {}
    BY <1>3, <1>4, <1>5, <1>7 DEF VideoLanes, MainTracks
  <2>4. VideoLanes(m) = {} => \A u \in L : ~n.tracks[u].main
    BY <1>3, Designated
  <2>5. \A v : Claims(m, v) => \A u \in L : n.tracks[u].main <=> u = v
    BY <1>3, Designated
  <2> HIDE DEF n
  <2>6. IsTracks(n.tracks) /\ IsTracks(d.tracks) /\ L \subseteq Lanes(d)
    BY <2>2 DEF IsStacked
  <2>7. InZones(n)
    <3>1. CASE VideoLanes(m) = {}
      <4>1. \A u \in L : ~d.tracks[u].main
        BY <1>5, <1>7 DEF MainTracks
      <4>2. \A u \in L : Zone(n, u) = Zone(d, u)
        BY <2>2, <2>4, <3>1, <4>1 DEF Zone
      <4>3. n.order = Among(d.order, L)
        BY <1>3, <2>2
      <4>4. QED
        BY <1>5, <4>2, <4>3, FewerInZones
    <3>2. CASE VideoLanes(m) # {}
      <4>1. \A u \in Lanes(d) : d.tracks[u].kind # "sticker"
        BY <1>7, <2>3, <3>2 DEF Reversible
      <4>2. PICK v : Claims(m, v)
        BY <1>3, <2>3, <3>2, SomeClaim
      <4>3. v \in VideoLanes(m) /\ \A u \in VideoLanes(m) : ~Before(m.order, u, v)
        BY <2>3, <4>2 DEF Claims
      <4>4. \A u \in L : n.tracks[u].main <=> u = v
        BY <2>5, <4>2
      <4>5. ASSUME NEW x \in L, NEW y \in L, Before(n.order, x, y) PROVE Zone(n, x) <= Zone(n, y)
        <5>1. Before(m.order, x, y)
          BY <2>2, <4>5
        <5>2. Before(d.order, x, y)
          BY <1>3, <5>1, AmongBefore DEF IsStacked
        <5>3. Zone(d, x) <= Zone(d, y)
          BY <1>5, <5>2, ZonesBefore
        <5>4. v \in L /\ d.tracks[v].kind = "video" /\ ~d.tracks[v].main
          BY <1>5, <1>7, <2>3, <4>3 DEF VideoLanes, MainTracks
        <5>5. \A u \in L : ~d.tracks[u].main
          BY <1>5, <1>7 DEF MainTracks
        <5>6. Zone(n, v) = 1 /\ Zone(d, v) = 2
          BY <2>2, <2>6, <4>4, <5>4, ZoneOf
        <5>7. \A u \in L \ {v} : Zone(n, u) = Zone(d, u)
          BY <2>2, <4>4, <5>5 DEF Zone
        <5>8. Zone(d, x) \in 0 .. 3 /\ Zone(d, y) \in 0 .. 3
          BY <2>6, ZoneOf
        <5>9. CASE x = v
          BY <5>3, <5>6, <5>7, <5>8, <5>9
        <5>10. CASE x # v /\ y = v
          <6>1. Zone(d, x) \in 0 .. 2
            BY <5>3, <5>6, <5>8, <5>10
          <6>2. Zone(d, x) # 1
            BY <2>6, <5>5, ZoneOf
          <6>3. Zone(d, x) # 2
            <7>1. Zone(d, x) = 2 => d.tracks[x].kind = "video"
              BY <2>6, <4>1, ZoneOf
            <7>2. Zone(d, x) = 2 => x \in VideoLanes(m)
              BY <2>3, <7>1 DEF VideoLanes
            <7>3. QED
              BY <4>3, <5>1, <5>10, <7>2
          <6>4. Zone(n, x) = 0
            BY <5>7, <5>10, <6>1, <6>2, <6>3
          <6>5. QED
            BY <5>6, <5>10, <6>4
        <5>11. CASE x # v /\ y # v
          BY <5>3, <5>7, <5>11
        <5>12. QED
          BY <5>9, <5>10, <5>11
      <4>6. QED
        BY <2>2, <4>5, ZonesBefore
    <3>3. QED
      BY <3>1, <3>2
  <2>8. f = n
    BY <2>1, <2>2, <2>7, AlreadyInZones DEF NormalizeLanes, n
  <2>9. QED
    BY <1>3, <2>2, <2>8
<1>8. QED
  BY <1>1, <1>6, <1>7 DEF f

(* A lane dropped and inserted where it stood.                              *)
LEMMA DropBack ==
  ASSUME NEW d, IsStacked(d), IsZoned(d), NEW t \in Lanes(d), Reversible(d, t)
  PROVE  LET g == InsertTrack(DropTrack(d, t), t, d.tracks[t], IndexOf(d, t)) IN
         g.order = d.order /\ g.tracks = d.tracks
<1> DEFINE L == Lanes(d) \ {t}
           f == DropTrack(d, t)
           i == IndexOf(d, t)
           m == WithLane(f, t, d.tracks[t], i)
           g == InsertTrack(f, t, d.tracks[t], i)
<1>1. /\ IsStacked(f) /\ Lanes(f) = L /\ f.order = Among(d.order, L)
      /\ \A u \in Lanes(f) : /\ f.tracks[u].kind = d.tracks[u].kind
                             /\ f.tracks[u].junctions = d.tracks[u].junctions
      /\ \/ \A u \in Lanes(f) : f.tracks[u].main <=> d.tracks[u].main
         \/ d.tracks[t].main
  BY Drops
<1>2. t \in TrackId /\ IsTrack(d.tracks[t])
  BY DEF IsStacked, IsTracks, IsPartial, Lanes
<1>3. i \in Nat \ {0} /\ i \in DOMAIN d.order /\ d.order[i] = t
  BY IndexOfFacts
<1> HIDE DEF f, i
<1>4. /\ g = NormalizeLanes(m)
      /\ IsStacked(m) /\ Lanes(m) = Lanes(f) \cup {t}
      /\ m.order = InsertedAt(f.order, i, t)
      /\ m.tracks[t] = d.tracks[t] /\ \A u \in Lanes(f) : m.tracks[u] = f.tracks[u]
  <2>1. t \notin Lanes(f)
    BY <1>1
  <2> DEFINE r == d.tracks[t]
  <2>2. IsTrack(r) /\ IsStacked(f)
    BY <1>1, <1>2
  <2> HIDE DEF r
  <2>3. LET h == WithLane(f, t, r, i) IN
        /\ InsertTrack(f, t, r, i) = NormalizeLanes(h)
        /\ IsStacked(h) /\ Restacked(f, h) /\ Lanes(h) = Lanes(f) \cup {t}
        /\ h.order = InsertedAt(f.order, i, t)
        /\ h.tracks[t] = r /\ \A u \in Lanes(f) : h.tracks[u] = f.tracks[u]
    BY <1>2, <1>3, <2>1, <2>2, WithLaneFacts
  <2>4. QED
    BY <2>3 DEF r
<1>5. m.order = d.order
  <2>1. d.order \in Seq(Lanes(d)) /\ ToSet(d.order) = Lanes(d) /\ IsInjective(d.order)
    BY DEF IsStacked
  <2>2. ToSet(d.order) \cap L = ToSet(d.order) \ {d.order[i]}
    BY <1>3, <2>1
  <2>3. InsertedAt(Among(d.order, L), i, d.order[i]) = d.order
    BY <1>3, <2>1, <2>2, Reinserted
  <2>4. QED
    BY <1>1, <1>3, <1>4, <2>3
<1>6. Lanes(m) = Lanes(d)
  BY <1>1, <1>4
<1>7. \A u \in Lanes(d) : /\ m.tracks[u].kind = d.tracks[u].kind
                          /\ m.tracks[u].junctions = d.tracks[u].junctions
  BY <1>1, <1>4, <1>6
<1> HIDE DEF m, g, L
<1>8. ASSUME \A u \in Lanes(f) : f.tracks[u].main <=> d.tracks[u].main
      PROVE  g.order = d.order /\ g.tracks = d.tracks
  <2>1. \A u \in Lanes(d) : m.tracks[u].main <=> d.tracks[u].main
    <3> TAKE u \in Lanes(d)
    <3>1. CASE u = t
      BY <1>4, <3>1
    <3>2. CASE u # t
      <4>1. u \in Lanes(f)
        BY <1>1, <3>2 DEF L
      <4>2. m.tracks[u] = f.tracks[u]
        BY <1>4, <4>1
      <4>3. f.tracks[u].main <=> d.tracks[u].main
        BY <1>8, <4>1
      <4>4. QED
        BY <4>2, <4>3
    <3>3. QED
      BY <3>1, <3>2
  <2>2. m.tracks = d.tracks /\ IsZoned(m)
    BY <1>4, <1>5, <1>6, <1>7, <2>1, AlikeStacked
  <2>3. g = m
    BY <1>4, <2>2, AlreadyNormal
  <2>4. QED
    BY <1>5, <2>2, <2>3
<1>9. ASSUME d.tracks[t].main PROVE g.order = d.order /\ g.tracks = d.tracks
  <2> DEFINE n == DesignateMain(m)
  <2>1. /\ t \in VideoLanes(d) /\ MainTracks(d) = {t}
        /\ \A u \in VideoLanes(d) \ {t} : ~Before(d.order, u, t)
    BY <1>9, MainZones
  <2>2. VideoLanes(m) = VideoLanes(d) /\ t \in MainTracks(m)
    BY <1>4, <1>6, <1>7, <1>9 DEF VideoLanes, MainTracks
  <2>3. ~Before(d.order, t, t)
    BY NotBeforeItself
  <2>4. \A u \in VideoLanes(m) : ~Before(m.order, u, t)
    BY <1>5, <2>1, <2>2, <2>3
  <2>5. Claims(m, t)
    BY <2>1, <2>2, <2>4 DEF Claims
  <2>6. \A u \in Lanes(m) : n.tracks[u].main <=> u = t
    BY <1>4, <2>5, Designated
  <2>7. IsStacked(n) /\ n.order = m.order /\ Lanes(n) = Lanes(m)
        /\ \A u \in Lanes(m) : /\ n.tracks[u].kind = m.tracks[u].kind
                               /\ n.tracks[u].junctions = m.tracks[u].junctions
    BY <1>4, DesignateFacts
  <2>8. g = EnforceLaneZones(n)
    BY <1>4 DEF NormalizeLanes
  <2> HIDE DEF n
  <2>9. \A u \in Lanes(d) : n.tracks[u].main <=> d.tracks[u].main
    BY <1>6, <2>1, <2>6 DEF MainTracks
  <2>10. n.order = d.order /\ Lanes(n) = Lanes(d)
         /\ \A u \in Lanes(d) : /\ n.tracks[u].kind = d.tracks[u].kind
                                /\ n.tracks[u].junctions = d.tracks[u].junctions
    BY <1>5, <1>6, <1>7, <2>7
  <2>11. n.tracks = d.tracks /\ InZones(n)
    BY <2>7, <2>9, <2>10, AlikeStacked
  <2>12. g = n
    BY <2>7, <2>8, <2>11, AlreadyInZones
  <2>13. QED
    BY <2>10, <2>11, <2>12
<1>10. QED
  BY <1>1, <1>8, <1>9 DEF f, g, i

(* The flags of the lanes of d, and the order they stand in, when a lane t  *)
(* has been inserted among them.                                            *)
LEMMA Inserts ==
  ASSUME NEW d, IsStacked(d), IsZoned(d), NEW t \in TrackId, t \notin Lanes(d),
         NEW track, IsTrack(track), NEW index \in Nat \ {0}
  PROVE  LET f == InsertTrack(d, t, track, index) IN
         /\ IsStacked(f) /\ IsZoned(f) /\ Lanes(f) = Lanes(d) \cup {t}
         /\ \A u \in Lanes(d) : /\ f.tracks[u].kind = d.tracks[u].kind
                                /\ f.tracks[u].junctions = d.tracks[u].junctions
         /\ ~f.tracks[t].main => \A u \in Lanes(d) : f.tracks[u].main <=> d.tracks[u].main
         /\ f.tracks[t].main => \A u \in Lanes(d) : ~f.tracks[u].main
         /\ Among(f.order, Lanes(d)) = d.order
<1> DEFINE m == WithLane(d, t, track, index)
           n == DesignateMain(m)
           f == InsertTrack(d, t, track, index)
<1>1. /\ IsStacked(f) /\ IsZoned(f) /\ Lanes(f) = Lanes(d) \cup {t}
      /\ \A u \in Lanes(d) : /\ f.tracks[u].kind = d.tracks[u].kind
                             /\ f.tracks[u].junctions = d.tracks[u].junctions
  BY InsertTrackFacts
<1>2. /\ f = NormalizeLanes(m)
      /\ IsStacked(m) /\ Lanes(m) = Lanes(d) \cup {t}
      /\ m.order = InsertedAt(d.order, index, t)
      /\ m.tracks[t] = track /\ \A u \in Lanes(d) : m.tracks[u] = d.tracks[u]
  BY WithLaneFacts
<1> HIDE DEF m
<1>3. IsStacked(n) /\ n.order = m.order /\ Lanes(n) = Lanes(m)
      /\ \A u \in Lanes(m) : n.tracks[u].kind = m.tracks[u].kind
  BY <1>2, DesignateFacts
<1>4. /\ \A v : Claims(m, v) => \A u \in Lanes(m) : n.tracks[u].main <=> u = v
      /\ VideoLanes(m) = {} => \A u \in Lanes(m) : ~n.tracks[u].main
  BY <1>2, Designated
<1> HIDE DEF n
<1>5. f = EnforceLaneZones(n)
  BY <1>2 DEF NormalizeLanes, n
<1> HIDE DEF f
<1>6. f.tracks = n.tracks
  <2>1. EnforceLaneZones(n).tracks = n.tracks
    BY <1>3, EnforceFacts
  <2>2. QED
    BY <1>5, <2>1
<1>7. /\ OneMain(d)
      /\ \A v \in Lanes(d) : d.tracks[v].main => v \in VideoLanes(d) /\ MainTracks(d) = {v}
  BY MainZones
<1>8. /\ OneMain(f)
      /\ \A v \in Lanes(f) : f.tracks[v].main => v \in VideoLanes(f) /\ MainTracks(f) = {v}
  BY <1>1, MainZones
<1>9. ASSUME f.tracks[t].main, NEW u \in Lanes(d) PROVE ~f.tracks[u].main
  <2>1. MainTracks(f) = {t} /\ u # t /\ u \in Lanes(f)
    BY <1>1, <1>8, <1>9
  <2>2. QED
    BY <2>1 DEF MainTracks
<1>10. ASSUME ~f.tracks[t].main, NEW u \in Lanes(d) PROVE f.tracks[u].main <=> d.tracks[u].main
  <2>1. VideoLanes(d) \subseteq VideoLanes(m)
    BY <1>2 DEF VideoLanes
  <2>2. CASE VideoLanes(m) = {}
    <3>1. ~n.tracks[u].main
      BY <1>2, <1>4, <2>2
    <3>2. ~d.tracks[u].main
      BY <1>7, <2>1, <2>2
    <3>3. QED
      BY <1>6, <3>1, <3>2
  <2>3. CASE VideoLanes(m) # {}
    <3>1. PICK v : Claims(m, v)
      BY <1>2, <2>3, SomeClaim
    <3>2. v \in VideoLanes(m) /\ \A x \in Lanes(m) : n.tracks[x].main <=> x = v
      BY <1>4, <3>1 DEF Claims
    <3>3. v # t /\ v \in Lanes(d) /\ u # t /\ u \in Lanes(m)
      BY <1>2, <1>6, <1>10, <3>2 DEF VideoLanes
    <3>4. v \in VideoLanes(d)
      BY <1>2, <3>2, <3>3 DEF VideoLanes
    <3>5. PICK w \in VideoLanes(d) : MainTracks(d) = {w}
      BY <1>7, <3>4, TheMain
    <3>6. w \in VideoLanes(m) \cap MainTracks(m)
      <4>1. w \in Lanes(d) /\ d.tracks[w].main
        BY <3>5 DEF MainTracks
      <4>2. m.tracks[w].main /\ w \in Lanes(m)
        BY <1>2, <4>1
      <4>3. QED
        BY <2>1, <4>2 DEF MainTracks
    <3>7. v \in MainTracks(m)
      BY <3>1, <3>6 DEF Claims
    <3>8. d.tracks[v].main
      BY <1>2, <3>3, <3>7 DEF MainTracks
    <3>9. v = w
      BY <3>3, <3>5, <3>8 DEF MainTracks
    <3>10. d.tracks[u].main <=> u = w
      BY <3>5 DEF MainTracks
    <3>11. n.tracks[u].main <=> u = v
      BY <3>2, <3>3
    <3>12. QED
      BY <1>6, <3>9, <3>10, <3>11
  <2>4. QED
    BY <2>2, <2>3
<1>11. Among(f.order, Lanes(d)) = d.order
  <2>1. ASSUME NEW x \in Lanes(d), NEW y \in Lanes(d), Before(n.order, x, y)
        PROVE  Zone(n, x) <= Zone(n, y)
    <3>1. d.order \in Seq(Lanes(d)) /\ ToSet(d.order) = Lanes(d) /\ IsInjective(d.order)
          /\ IsTracks(d.tracks)
      BY DEF IsStacked
    <3>2. x # y /\ Before(m.order, x, y)
      BY <1>3, <2>1, NotBeforeItself
    <3>3. Before(d.order, x, y)
      <4>1. CASE Before(d.order, y, x)
        <5>1. Before(m.order, y, x)
          BY <1>2, <3>1, <4>1, InsertOrder
        <5>2. m.order \in Seq(Lanes(m)) /\ IsInjective(m.order) /\ ToSet(m.order) = Lanes(m)
          BY <1>2 DEF IsStacked
        <5>3. x \in Lanes(m) /\ y \in Lanes(m)
          BY <1>2
        <5>4. QED
          BY <3>2, <5>1, <5>2, <5>3, TotalOrder
      <4>2. QED
        BY <3>1, <3>2, <4>1, TotalOrder
    <3>4. Zone(d, x) <= Zone(d, y)
      <4>1. InZones(d)
        BY DEF IsZoned, InZones
      <4>2. QED
        BY <3>3, <4>1, ZonesBefore
    <3>5. /\ Zone(d, x) \in 0 .. 3 /\ Zone(d, y) \in 0 .. 3
          /\ n.tracks[x].kind = d.tracks[x].kind /\ n.tracks[y].kind = d.tracks[y].kind
      BY <1>2, <1>3, <3>1, ZoneOf
    <3>6. ASSUME NEW u \in {x, y}, n.tracks[u].main <=> d.tracks[u].main
          PROVE  Zone(n, u) = Zone(d, u)
      BY <3>5, <3>6 DEF Zone
    <3>7. CASE ~f.tracks[t].main
      BY <1>6, <1>10, <3>4, <3>6, <3>7
    <3>8. CASE f.tracks[t].main
      <4>1. ~n.tracks[x].main /\ ~n.tracks[y].main
        BY <1>6, <1>9, <3>8
      <4>2. d.tracks[x].main => ~d.tracks[y].main
        BY <1>7, <3>2 DEF MainTracks
      <4>3. CASE ~d.tracks[x].main /\ ~d.tracks[y].main
        BY <3>4, <3>6, <4>1, <4>3
      <4>4. CASE d.tracks[x].main
        <5>1. d.tracks[x].kind = "video"
          BY <1>7, <4>4 DEF VideoLanes
        <5>2. Zone(d, x) = 1 /\ Zone(n, x) = 2
          BY <3>5, <4>1, <4>4, <5>1 DEF Zone
        <5>3. Zone(d, y) # 1
          BY <3>1, <4>2, <4>4, ZoneOf
        <5>4. Zone(n, y) = Zone(d, y)
          BY <3>6, <4>1, <4>2, <4>4
        <5>5. QED
          BY <3>4, <3>5, <5>2, <5>3, <5>4
      <4>5. CASE d.tracks[y].main
        <5>1. d.tracks[y].kind = "video"
          BY <1>7, <4>5 DEF VideoLanes
        <5>2. Zone(d, y) = 1 /\ Zone(n, y) = 2
          BY <3>5, <4>1, <4>5, <5>1 DEF Zone
        <5>3. Zone(n, x) = Zone(d, x)
          BY <3>6, <4>1, <4>2, <4>5
        <5>4. QED
          BY <3>4, <3>5, <5>2, <5>3
      <4>6. QED
        BY <4>2, <4>3, <4>4, <4>5
    <3>9. QED
      BY <3>7, <3>8
  <2>2. Lanes(d) \in SUBSET Lanes(n)
    BY <1>2, <1>3
  <2>3. Among(f.order, Lanes(d)) = Among(n.order, Lanes(d))
    BY <1>3, <1>5, <2>1, <2>2, EnforceKeeps
  <2>4. Among(InsertedAt(d.order, index, t), Lanes(d)) = d.order
    <3>1. d.order \in Seq(Lanes(d)) /\ ToSet(d.order) = Lanes(d) /\ IsInjective(d.order)
      BY DEF IsStacked
    <3>2. t \notin ToSet(d.order) /\ (ToSet(d.order) \cup {t}) \cap Lanes(d) = ToSet(d.order)
      BY <3>1
    <3>3. QED
      BY <3>1, <3>2, Uninserted
  <2>5. QED
    BY <1>2, <1>3, <2>3, <2>4
<1>12. QED
  BY <1>1, <1>9, <1>10, <1>11 DEF f

(* A lane inserted and dropped, whatever clips came with it.                *)
LEMMA InsertBack ==
  ASSUME NEW d, IsStacked(d), IsZoned(d), NEW t \in TrackId, t \notin Lanes(d),
         NEW track, IsTrack(track), NEW index \in Nat \ {0},
         NEW f, IsStacked(f), f.order = InsertTrack(d, t, track, index).order,
         f.tracks = InsertTrack(d, t, track, index).tracks
  PROVE  DropTrack(f, t).order = d.order /\ DropTrack(f, t).tracks = d.tracks
<1> DEFINE i == InsertTrack(d, t, track, index)
           r == WithoutLane(f, t)
           g == DropTrack(f, t)
<1>0. /\ Lanes(i) = Lanes(d) \cup {t}
      /\ \A u \in Lanes(d) : /\ i.tracks[u].kind = d.tracks[u].kind
                             /\ i.tracks[u].junctions = d.tracks[u].junctions
      /\ ~i.tracks[t].main => \A u \in Lanes(d) : i.tracks[u].main <=> d.tracks[u].main
      /\ i.tracks[t].main => \A u \in Lanes(d) : ~i.tracks[u].main
      /\ Among(i.order, Lanes(d)) = d.order
  BY Inserts
<1> HIDE DEF i
<1>1. /\ IsStacked(f) /\ Lanes(f) = Lanes(d) \cup {t}
      /\ \A u \in Lanes(d) : /\ f.tracks[u].kind = d.tracks[u].kind
                             /\ f.tracks[u].junctions = d.tracks[u].junctions
      /\ ~f.tracks[t].main => \A u \in Lanes(d) : f.tracks[u].main <=> d.tracks[u].main
      /\ f.tracks[t].main => \A u \in Lanes(d) : ~f.tracks[u].main
      /\ Among(f.order, Lanes(d)) = d.order
  <2>1. f.order = i.order /\ f.tracks = i.tracks /\ Lanes(f) = Lanes(i)
    BY DEF i, Lanes
  <2>2. QED
    BY <1>0, <2>1
<1>2. /\ g = IF f.tracks[t].main THEN NormalizeLanes(r) ELSE r
      /\ IsStacked(r) /\ Lanes(r) = Lanes(f) \ {t}
      /\ r.order = Among(f.order, Lanes(f) \ {t})
      /\ \A u \in Lanes(r) : r.tracks[u] = f.tracks[u]
  <2>1. IsStacked(f) /\ t \in Lanes(f)
    BY <1>1
  <2>2. g = IF f.tracks[t].main THEN NormalizeLanes(r) ELSE r
    BY <2>1, WithoutLaneFacts, Zenon
  <2>3. IsStacked(r) /\ Lanes(r) = Lanes(f) \ {t} /\ r.order = Among(f.order, Lanes(f) \ {t})
    BY <2>1, WithoutLaneFacts, Zenon
  <2>4. \A u \in Lanes(r) : r.tracks[u] = f.tracks[u] /\ Zone(r, u) = Zone(f, u)
    BY <2>1, WithoutLaneFacts, Zenon
  <2> HIDE DEF r, g
  <2>5. QED
    BY <2>2, <2>3, <2>4
<1> HIDE DEF r, g
<1>3. /\ Lanes(r) = Lanes(d) /\ r.order = d.order
      /\ \A u \in Lanes(d) : /\ r.tracks[u].kind = d.tracks[u].kind
                             /\ r.tracks[u].junctions = d.tracks[u].junctions
                             /\ r.tracks[u].main = f.tracks[u].main
  BY <1>1, <1>2
<1>4. (\A u \in Lanes(d) : f.tracks[u].main <=> d.tracks[u].main)
      => r.tracks = d.tracks /\ IsZoned(r)
  <2> SUFFICES ASSUME \A u \in Lanes(d) : f.tracks[u].main <=> d.tracks[u].main
               PROVE  r.tracks = d.tracks /\ IsZoned(r)
    OBVIOUS
  <2>1. \A u \in Lanes(d) : r.tracks[u].main <=> d.tracks[u].main
    BY <1>3
  <2>2. QED
    BY <1>2, <1>3, <2>1, AlikeStacked
<1>5. CASE ~f.tracks[t].main
  BY <1>1, <1>2, <1>3, <1>4, <1>5 DEF g
<1>6. CASE f.tracks[t].main /\ VideoLanes(d) = {}
  <2>1. OneMain(d)
    BY MainZones
  <2>2. \A u \in Lanes(d) : ~d.tracks[u].main
    BY <1>6, <2>1 DEF OneMain, MainTracks
  <2>3. r.tracks = d.tracks /\ IsZoned(r)
    BY <1>1, <1>4, <1>6, <2>2
  <2>4. g = r
    BY <1>2, <1>6, <2>3, AlreadyNormal
  <2>5. QED
    BY <1>3, <2>3, <2>4 DEF g
<1>7. CASE f.tracks[t].main /\ VideoLanes(d) # {}
  <2> DEFINE n == DesignateMain(r)
  <2>1. OneMain(d)
    BY MainZones
  <2>2. PICK v \in VideoLanes(d) : MainTracks(d) = {v}
    BY <1>7, <2>1, TheMain
  <2>3. v \in Lanes(d) /\ d.tracks[v].main
    BY <2>2 DEF MainTracks
  <2>4. \A u \in VideoLanes(d) \ {v} : ~Before(d.order, u, v)
    BY <2>3, MainZones
  <2>5. ~Before(d.order, v, v)
    BY NotBeforeItself
  <2>6. VideoLanes(r) = VideoLanes(d) /\ MainTracks(r) = {}
    BY <1>1, <1>3, <1>7 DEF VideoLanes, MainTracks
  <2>7. Claims(r, v)
    BY <1>3, <2>2, <2>4, <2>5, <2>6 DEF Claims
  <2>8. \A u \in Lanes(r) : n.tracks[u].main <=> u = v
    BY <1>2, <2>7, Designated
  <2>9. IsStacked(n) /\ n.order = r.order /\ Lanes(n) = Lanes(r)
        /\ \A u \in Lanes(r) : /\ n.tracks[u].kind = r.tracks[u].kind
                               /\ n.tracks[u].junctions = r.tracks[u].junctions
    BY <1>2, DesignateFacts
  <2>10. g = EnforceLaneZones(n)
    BY <1>2, <1>7 DEF NormalizeLanes
  <2> HIDE DEF n
  <2>11. \A u \in Lanes(d) : n.tracks[u].main <=> d.tracks[u].main
    BY <1>3, <2>2, <2>8 DEF MainTracks
  <2>12. n.order = d.order /\ Lanes(n) = Lanes(d)
         /\ \A u \in Lanes(d) : /\ n.tracks[u].kind = d.tracks[u].kind
                                /\ n.tracks[u].junctions = d.tracks[u].junctions
    BY <1>3, <2>9
  <2>13. n.tracks = d.tracks /\ InZones(n)
    BY <2>9, <2>11, <2>12, AlikeStacked
  <2>14. g = n
    BY <2>9, <2>10, <2>13, AlreadyInZones
  <2>15. QED
    BY <2>12, <2>13, <2>14 DEF g
<1>8. QED
  BY <1>5, <1>6, <1>7

(* A lane moved, and moved back on any document with the core that left.    *)
LEMMA ReorderReverts ==
  ASSUME NEW d, IsDocument(d), NEW t \in Lanes(d), NEW i \in Nat \ {0}, NEW j \in Nat \ {0},
         Tidy => Reorder(Reorder(d, t, j), t, i) = d,
         NEW e, IsDocument(e), Core(e) = Core(Reorder(d, t, j))
  PROVE  t \in Lanes(e) /\ Core(Reorder(e, t, i)) = Core(d)
<1> DEFINE f == Reorder(d, t, j)
           g == Reorder(e, t, i)
<1>1. IsStacked(d) /\ IsStacked(e)
  BY StackedFacts
<1>2. f.clips = d.clips /\ f.pool = d.pool /\ f.tracks = d.tracks /\ IsStacked(f)
  BY <1>1, ReorderFacts DEF Restacked
<1>3. IsDocument(f)
  <2> HIDE DEF f
  <2>1. Lanes(f) = Lanes(d) /\ Placed(f) = Placed(d)
    BY <1>2 DEF Lanes, Placed
  <2>2. QED
    BY <1>2, <2>1, StackedFacts
<1>4. Core(e) = Core(f)
  OBVIOUS
<1> HIDE DEF f
<1>5. Lanes(f) = Lanes(d) /\ Lanes(e) = Lanes(d)
  BY <1>2, <1>4, CoreShared DEF Lanes
<1>6. g.clips = e.clips /\ g.pool = e.pool /\ g.tracks = e.tracks
  BY <1>1, <1>5, ReorderFacts DEF Restacked
<1>7. ASSUME Tidy PROVE Core(g) = Core(d)
  <2>1. e = f
    BY <1>3, <1>4, <1>7, TidyCore
  <2>2. QED
    BY <1>7, <2>1 DEF f
<1> HIDE DEF g
<1>8. ASSUME ~Tidy PROVE Core(g) = Core(d)
  <2>1. Stack(f) = Stack(d) /\ Stack(g) = Stack(e)
    BY <1>2, <1>6, <1>8, StackKept
  <2>2. e.clips = f.clips /\ e.pool = f.pool /\ Stack(e) = Stack(f)
    BY <1>4, SameCore
  <2>3. QED
    BY <1>2, <1>6, <2>1, <2>2, SameCore
<1>9. QED
  BY <1>5, <1>7, <1>8 DEF g

(* f is e without lane t.                                                   *)
Dropped(f, e, t) ==
  /\ Lanes(f) = Lanes(e) \ {t} /\ f.pool = e.pool
  /\ f.clips = Restrict(e.clips, {c \in Placed(e) : e.clips[c].track # t})
  /\ \A u \in Lanes(f) : /\ f.tracks[u].kind = e.tracks[u].kind
                         /\ f.tracks[u].junctions = e.tracks[u].junctions

LEMMA DropsLane ==
  ASSUME NEW d, IsStacked(d), NEW t \in Lanes(d)
  PROVE  Dropped(DropTrack(d, t), d, t)
<1> DEFINE S == {c \in Placed(d) : d.clips[c].track # t}
           f == DropTrack(d, t)
<1>1. Lanes(f) = Lanes(d) \ {t} /\ f.pool = d.pool
  BY DropTrackFacts
<1>2. f.clips = Restrict(d.clips, S)
  BY DropTrackFacts
<1>3. \A u \in Lanes(f) : /\ f.tracks[u].kind = d.tracks[u].kind
                         /\ f.tracks[u].junctions = d.tracks[u].junctions
  BY DropTrackFacts, Zenon
<1> HIDE DEF f
<1>4. QED
  BY <1>1, <1>2, <1>3 DEF Dropped, f

LEMMA DroppedDocument ==
  ASSUME NEW d, IsDocument(d), NEW t \in Lanes(d)
  PROVE  IsDocument(DropTrack(d, t))
<1> DEFINE S == {c \in Placed(d) : d.clips[c].track # t}
           f == DropTrack(d, t)
<1>1. IsStacked(d) /\ IsClips(d.clips) /\ d.pool \subseteq Media
      /\ \A c \in Placed(d) : d.clips[c].track \in Lanes(d)
  BY StackedFacts
<1>2. IsStacked(f)
  BY <1>1, DropTrackFacts
<1>3. Dropped(f, d, t)
  BY <1>1, DropsLane
<1> HIDE DEF f
<1>4. /\ Lanes(f) = Lanes(d) \ {t} /\ f.pool = d.pool /\ Placed(f) = S
      /\ f.clips = [c \in S |-> d.clips[c]] /\ \A c \in S : f.clips[c] = d.clips[c]
  BY <1>3 DEF Dropped, Restrict, Placed
<1>5. IsClips(f.clips)
  BY <1>1, <1>4 DEF IsClips, IsPartial, Placed
<1>6. QED
  BY <1>1, <1>2, <1>4, <1>5, StackedFacts DEF f

LEMMA RemoveTrackReverts ==
  ASSUME NEW d, IsDocument(d), Tidy => IsZoned(d), NEW t \in Lanes(d), Removable(d, t),
         NEW e, IsDocument(e), Core(e) = Core(DropTrack(d, t))
  PROVE  LET r == RestoreTrack(e, t, d.tracks[t], IndexOf(d, t), Restrict(d.clips, ClipsOn(d, t)))
         IN  r.ok /\ Core(r.doc) = Core(d)
<1> DEFINE held == Restrict(d.clips, ClipsOn(d, t))
           S == {c \in Placed(d) : d.clips[c].track # t}
           f == DropTrack(d, t)
           track == d.tracks[t]
           index == IndexOf(d, t)
           back == InsertTrack(e, t, track, index)
           h == [c \in Placed(e) \cup DOMAIN held |-> IF c \in Placed(e) THEN e.clips[c] ELSE held[c]]
           g == [back EXCEPT !.clips = h]
<1>1. IsStacked(d) /\ IsStacked(e)
  BY StackedFacts
<1>2. /\ Lanes(f) = Lanes(d) \ {t} /\ f.clips = Restrict(d.clips, S) /\ f.pool = d.pool
      /\ \A u \in Lanes(f) : /\ f.tracks[u].kind = d.tracks[u].kind
                             /\ f.tracks[u].junctions = d.tracks[u].junctions
  <2>1. Dropped(f, d, t)
    BY <1>1, DropsLane
  <2> HIDE DEF f
  <2>2. QED
    BY <2>1 DEF Dropped
<1>3. Tidy => back.order = d.order /\ back.tracks = d.tracks
  <2> SUFFICES ASSUME Tidy PROVE back.order = d.order /\ back.tracks = d.tracks
    OBVIOUS
  <2>1. e = f
    BY DroppedDocument, TidyCore
  <2>2. IsZoned(d) /\ Reversible(d, t)
    BY DEF Removable
  <2>3. LET b == InsertTrack(DropTrack(d, t), t, d.tracks[t], IndexOf(d, t)) IN
        b.order = d.order /\ b.tracks = d.tracks
    BY <1>1, <2>2, DropBack
  <2>4. QED
    BY <2>1, <2>3
<1> HIDE DEF f
<1>4. /\ e.clips = f.clips /\ Placed(e) = Placed(f) /\ e.pool = f.pool /\ Lanes(e) = Lanes(f)
      /\ \A x \in Lanes(f) : /\ e.tracks[x].kind = f.tracks[x].kind
                             /\ e.tracks[x].junctions = f.tracks[x].junctions
  <2>1. Core(e) = Core(f)
    BY DEF f
  <2>2. Stack(e) = Stack(f) /\ e.clips = f.clips /\ Placed(e) = Placed(f) /\ e.pool = f.pool
    BY <2>1, CoreShared
  <2>3. QED
    BY <2>2, StackShared
<1>5. Placed(e) = S /\ \A c \in S : e.clips[c] = d.clips[c]
  BY <1>2, <1>4 DEF Restrict, Placed
<1>6. DOMAIN held = ClipsOn(d, t) /\ \A c \in ClipsOn(d, t) : held[c] = d.clips[c]
  BY DEF Restrict
<1>7. IsTrack(track) /\ index \in Nat \ {0} /\ t \in TrackId /\ t \notin Lanes(e)
  BY <1>1, <1>2, <1>4, IndexOfFacts, TrackFacts DEF IsStacked
<1> HIDE DEF held, track, index
<1>8. /\ IsStacked(back) /\ Restacked(e, back) /\ Lanes(back) = Lanes(e) \cup {t}
      /\ \A u \in Lanes(e) : /\ back.tracks[u].kind = e.tracks[u].kind
                             /\ back.tracks[u].junctions = e.tracks[u].junctions
      /\ back.tracks[t].kind = track.kind /\ back.tracks[t].junctions = track.junctions
  BY <1>1, <1>7, InsertTrackFacts
<1> HIDE DEF back
<1>9. Shape(g) /\ g.order = back.order /\ g.tracks = back.tracks /\ g.clips = h /\ g.pool = back.pool
  BY <1>8, ReclippedFacts DEF Restacked
<1>10. h = d.clips
  <2>1. DOMAIN h = Placed(d) /\ IsPartial(h, Placed(d))
    BY <1>5, <1>6 DEF ClipsOn, IsPartial
  <2>2. \A c \in Placed(d) : h[c] = d.clips[c]
    BY <1>5, <1>6 DEF ClipsOn
  <2> HIDE DEF h
  <2>3. QED
    <3>1. IsPartial(d.clips, Placed(d)) /\ DOMAIN d.clips = Placed(d)
      BY OwnIds DEF Placed, IsPartial
    <3>2. QED
      BY <2>1, <2>2, <3>1, SameFunction
<1> HIDE DEF g, h
<1>11. Core(g) = Core(d)
  <2>1. Lanes(g) = Lanes(d) /\ Placed(g) = Placed(d)
    BY <1>2, <1>4, <1>8, <1>9, <1>10 DEF Lanes, Placed
  <2>2. \A u \in Lanes(d) : /\ g.tracks[u].kind = d.tracks[u].kind
                           /\ g.tracks[u].junctions = d.tracks[u].junctions
    BY <1>2, <1>4, <1>8, <1>9 DEF track
  <2>3. g.clips = d.clips /\ g.pool = d.pool
    BY <1>2, <1>4, <1>8, <1>9, <1>10 DEF Restacked
  <2>4. Tidy => g.order = d.order /\ \A u \in Lanes(d) : g.tracks[u].main = d.tracks[u].main
    BY <1>3, <1>9
  <2>5. IsDocument(g)
    <3>1. IsStacked(g)
      BY <1>8, <1>9 DEF IsStacked, Lanes
    <3>2. QED
      BY <2>1, <2>3, <3>1, StackedFacts
  <2>6. QED
    BY <2>1, <2>2, <2>3, <2>4, <2>5, SameLanes
<1>12. t \notin Lanes(e) /\ DOMAIN held \cap Placed(e) = {}
  BY <1>5, <1>6, <1>7 DEF ClipsOn
<1>13. RestoreTrack(e, t, track, index, held)
         = Try(t \notin Lanes(e) /\ DOMAIN held \cap Placed(e) = {}, e, g, [op |-> "RemoveTrack", id |-> t])
  BY DEF RestoreTrack, g, h, back
<1>14. QED
  BY <1>11, <1>12, <1>13 DEF Try, Accepted, held, track, index

LEMMA InsertTrackReverts ==
  ASSUME NEW d, IsDocument(d), Tidy => IsZoned(d), NEW t \in TrackId, t \notin Lanes(d),
         NEW track, IsTrack(track),
         NEW index \in Nat \ {0}, NEW held, DOMAIN held \cap Placed(d) = {},
         \A c \in DOMAIN held : held[c].track = t,
         NEW e, IsDocument(e), Core(e) = Core(RestoreTrack(d, t, track, index, held).doc)
  PROVE  LET r == RemoveTrack(e, t) IN r.ok /\ Core(r.doc) = Core(d)
<1> DEFINE back == InsertTrack(d, t, track, index)
           h == [c \in Placed(d) \cup DOMAIN held |-> IF c \in Placed(d) THEN d.clips[c] ELSE held[c]]
           f == [back EXCEPT !.clips = h]
           g == DropTrack(e, t)
<1>1. IsStacked(d) /\ IsStacked(e) /\ \A c \in Placed(d) : d.clips[c].track # t
  BY StackedFacts
<1>2. /\ IsStacked(back) /\ Restacked(d, back) /\ Lanes(back) = Lanes(d) \cup {t}
      /\ \A u \in Lanes(d) : /\ back.tracks[u].kind = d.tracks[u].kind
                             /\ back.tracks[u].junctions = d.tracks[u].junctions
  BY <1>1, InsertTrackFacts
<1>3. RestoreTrack(d, t, track, index, held)
         = Try(t \notin Lanes(d) /\ DOMAIN held \cap Placed(d) = {}, d, f, [op |-> "RemoveTrack", id |-> t])
  BY DEF RestoreTrack
<1>4. f.order = back.order /\ f.tracks = back.tracks /\ f.clips = h /\ f.pool = back.pool
  <2> HIDE DEF back, h
  <2>1. QED
    BY <1>2, ReclippedFacts DEF Restacked
<1>5. Core(e) = Core(f)
  BY <1>3 DEF Try, Accepted
<1>6. /\ DOMAIN h = Placed(d) \cup DOMAIN held /\ \A c \in Placed(d) : h[c] = d.clips[c]
      /\ \A c \in DOMAIN held \ Placed(d) : h[c] = held[c]
  OBVIOUS
<1> HIDE DEF f, h
<1>7. Tidy => g.order = d.order /\ g.tracks = d.tracks
  <2> SUFFICES ASSUME Tidy PROVE g.order = d.order /\ g.tracks = d.tracks
    OBVIOUS
  <2>1. e.order = f.order /\ e.tracks = f.tracks
    BY <1>5, SameCore, SameStack
  <2>2. e.order = InsertTrack(d, t, track, index).order /\ e.tracks = InsertTrack(d, t, track, index).tracks
    BY <1>4, <2>1
  <2>3. QED
    BY <1>1, <2>2, InsertBack
<1> HIDE DEF back
<1>8. /\ e.clips = f.clips /\ Placed(e) = Placed(f) /\ e.pool = f.pool /\ Lanes(e) = Lanes(f)
      /\ \A x \in Lanes(f) : /\ e.tracks[x].kind = f.tracks[x].kind
                             /\ e.tracks[x].junctions = f.tracks[x].junctions
  <2>1. Stack(e) = Stack(f) /\ e.clips = f.clips /\ Placed(e) = Placed(f) /\ e.pool = f.pool
    BY <1>5, CoreShared
  <2>2. QED
    BY <2>1, StackShared
<1>9. Lanes(e) = Lanes(d) \cup {t}
  BY <1>2, <1>4, <1>8 DEF Lanes
<1>10. /\ Lanes(g) = Lanes(e) \ {t} /\ g.pool = e.pool
       /\ g.clips = Restrict(e.clips, {c \in Placed(e) : e.clips[c].track # t})
       /\ \A u \in Lanes(g) : /\ g.tracks[u].kind = e.tracks[u].kind
                              /\ g.tracks[u].junctions = e.tracks[u].junctions
  <2>1. Dropped(g, e, t)
    BY <1>1, <1>9, DropsLane
  <2> HIDE DEF g
  <2>2. QED
    BY <2>1 DEF Dropped
<1>11. IsDocument(g)
  BY <1>9, DroppedDocument
<1> HIDE DEF g
<1>12. {c \in Placed(e) : e.clips[c].track # t} = Placed(d)
  BY <1>1, <1>4, <1>6, <1>8 DEF Placed
<1>13. g.clips = d.clips
  <2>1. DOMAIN g.clips = Placed(d) /\ IsPartial(g.clips, Placed(d))
    BY <1>10, <1>12 DEF Restrict, IsPartial
  <2>2. \A c \in Placed(d) : g.clips[c] = d.clips[c]
    BY <1>4, <1>6, <1>8, <1>10, <1>12 DEF Restrict
  <2>3. QED
    <3>1. IsPartial(d.clips, Placed(d)) /\ DOMAIN d.clips = Placed(d)
      BY OwnIds DEF Placed, IsPartial
    <3>2. QED
      BY <2>1, <2>2, <3>1, SameFunction
<1>14. Core(g) = Core(d)
  <2>1. Lanes(g) = Lanes(d)
    BY <1>9, <1>10
  <2>2. \A u \in Lanes(d) : /\ g.tracks[u].kind = d.tracks[u].kind
                           /\ g.tracks[u].junctions = d.tracks[u].junctions
    BY <1>2, <1>4, <1>8, <1>9, <1>10
  <2>3. g.pool = d.pool
    BY <1>2, <1>4, <1>8, <1>10 DEF Restacked
  <2>4. QED
    BY <1>7, <1>11, <1>13, <2>1, <2>2, <2>3, SameLanes
<1>15. QED
  BY <1>9, <1>14 DEF RemoveTrack, Try, Accepted, g

LEMMA GreatestIs ==
  ASSUME NEW X \in SUBSET Int, NEW m \in X, \A y \in X : m >= y
  PROVE  Max(X) = m
<1>1. \A x \in X : (\A y \in X : x >= y) => x = m
  OBVIOUS
<1>2. QED
  BY <1>1 DEF Max

LEMMA LastEnd ==
  ASSUME NEW S, IsFiniteSet(S), NEW g \in [S -> Int]
  PROVE  LET m == Max({0} \cup {g[c] : c \in S}) IN
         m \in Int /\ m >= 0 /\ (\A c \in S : g[c] <= m) /\ (m = 0 \/ \E c \in S : m = g[c])
<1> DEFINE X == {0} \cup {g[c] : c \in S}
<1>1. X \in SUBSET Int /\ 0 \in X
  OBVIOUS
<1>2. PICK m \in X : (\A y \in X : m >= y) /\ (m = 0 \/ \E c \in S : m = g[c])
  <2>1. CASE \A c \in S : g[c] <= 0
    BY <2>1
  <2>2. CASE ~ \A c \in S : g[c] <= 0
    <3> DEFINE n == [c \in S |-> -g[c]]
    <3>1. n \in [S -> Int] /\ (\A c \in S : n[c] = -g[c]) /\ S # {}
      BY <2>2
    <3> HIDE DEF n
    <3>2. PICK c \in S : \A b \in S : n[c] <= n[b]
      BY <3>1, LeastValue
    <3>3. g[c] \in X /\ \A b \in S : g[c] >= g[b]
      BY <3>1, <3>2
    <3>4. g[c] >= 0
      BY <2>2, <3>3
    <3>5. \A y \in X : g[c] >= y
      BY <3>3, <3>4
    <3>6. QED
      BY <3>3, <3>5
  <2>3. QED
    BY <2>1, <2>2
<1>3. Max(X) = m
  <2> HIDE DEF X
  <2>1. QED
    BY <1>1, <1>2, GreatestIs
<1>4. m \in Int /\ m >= 0 /\ \A c \in S : g[c] <= m
  BY <1>1, <1>2
<1>5. QED
  BY <1>2, <1>3, <1>4

LEMMA FirstOf ==
  ASSUME NEW d, IsDocument(d), IsFiniteSet(Placed(d)), NEW S \in SUBSET Placed(d), S # {}
  PROVE  /\ FirstStart(d, S) \in Int
         /\ \E c \in S : d.clips[c].start = FirstStart(d, S)
         /\ \A c \in S : FirstStart(d, S) <= d.clips[c].start
<1> DEFINE C == Placed(d)
<1>1. Within(d, C, TrackId, Media) /\ C \in SUBSET ClipId /\ IsFiniteSet(C) /\ S \in SUBSET Placed(d)
  BY AnyIds DEF Within
<1> HIDE DEF C
<1>2. QED
  BY <1>1, FirstStartFacts

(* What shift_clips compares: the first clip that moves and the last that   *)
(* stays.                                                                   *)
First(d, t, from, delta) == FirstStart(d, AtOrAfter(d, t, from)) + delta

LastStay(d, t, from) ==
  Max({0} \cup {End(d.clips[c]) : c \in ClipsOn(d, t) \ AtOrAfter(d, t, from)})

LEMMA CanShiftWhen ==
  ASSUME NEW d, NEW t, NEW from, NEW delta
  PROVE  CanShift(d, t, from, delta) <=>
           /\ delta # 0 /\ t \in Lanes(d)
           /\ AtOrAfter(d, t, from) # {} =>
                /\ First(d, t, from, delta) >= 0
                /\ delta < 0 => First(d, t, from, delta) >= LastStay(d, t, from)
  BY DEF CanShift, First, LastStay

LEMMA LastStays ==
  ASSUME NEW d, IsDocument(d), IsFiniteSet(Placed(d)), NEW t, NEW from
  PROVE  LET S == ClipsOn(d, t) \ AtOrAfter(d, t, from)
             m == LastStay(d, t, from)
         IN  /\ m \in Int /\ m >= 0 /\ \A c \in S : End(d.clips[c]) <= m
             /\ m = 0 \/ \E c \in S : m = End(d.clips[c])
<1> DEFINE S == ClipsOn(d, t) \ AtOrAfter(d, t, from)
           g == [c \in S |-> End(d.clips[c])]
           X == {g[c] : c \in S}
<1>1. S \subseteq Placed(d)
  BY DEF ClipsOn
<1>2. IsFiniteSet(S)
  BY <1>1, FS_Subset
<1>3. \A c \in S : d.clips[c] \in Clip
  BY <1>1, OwnIds
<1>4. \A c \in S : End(d.clips[c]) \in Int
  BY <1>3, ClipFields DEF End
<1>5. g \in [S -> Int] /\ \A c \in S : g[c] = End(d.clips[c])
  BY <1>4
<1>6. X = {End(d.clips[c]) : c \in S}
  BY <1>5
<1> HIDE DEF g
<1>7. LET m == Max({0} \cup X) IN
      m \in Int /\ m >= 0 /\ (\A c \in S : g[c] <= m) /\ (m = 0 \/ \E c \in S : m = g[c])
  <2> HIDE DEF S
  <2>1. QED
    BY <1>2, <1>5, LastEnd
<1>8. LastStay(d, t, from) = Max({0} \cup X)
  BY <1>6 DEF LastStay
<1> HIDE DEF X
<1>9. QED
  BY <1>5, <1>7, <1>8

(* The shift of a document whose clips are solid.                           *)
ShiftBack(d, t, from, delta) ==
  [op |-> "ShiftClips", lane |-> t, delta |-> -delta,
   from |-> IF AtOrAfter(d, t, from) = {} THEN from ELSE First(d, t, from, delta)]

LEMMA ShiftSelects ==
  ASSUME NEW d, IsDocument(d), IsFiniteSet(Placed(d)), NEW t, NEW from \in Int, NEW delta \in Int,
         CanShift(d, t, from, delta),
         NEW e, IsDocument(e), Core(e) = Core(Shifted(d, t, from, delta))
  PROVE  LET u == ShiftBack(d, t, from, delta) IN
         u.from \in Int /\ AtOrAfter(e, t, u.from) = AtOrAfter(d, t, from)
<1> DEFINE S == AtOrAfter(d, t, from)
           F == FirstStart(d, S)
           first == First(d, t, from, delta)
           v == IF S = {} THEN from ELSE first
           f == Shifted(d, t, from, delta)
<1>1. /\ Placed(f) = Placed(d) /\ \A x \in Placed(d) : Slid(f.clips[x], d.clips[x], x \in S, delta)
      /\ f.tracks = d.tracks /\ Lanes(f) = Lanes(d) /\ f.pool = d.pool
  BY ShiftedClips
<1> HIDE DEF f
<1>2. Placed(e) = Placed(d) /\ \A x \in Placed(d) : Slid(e.clips[x], d.clips[x], x \in S, delta)
  BY <1>1, CoreShared DEF f
<1>3. \A x \in Placed(d) : x \in S <=> d.clips[x].track = t /\ d.clips[x].start >= from
  BY DEF AtOrAfter, ClipsOn
<1>4. S \in SUBSET Placed(d)
  BY DEF AtOrAfter, ClipsOn
<1>5. \A x \in Placed(d) : d.clips[x] \in Clip
  BY OwnIds
<1>6. first = F + delta
  BY DEF First
<1>7. S # {} => /\ F \in Int /\ F >= from /\ (\A x \in S : F <= d.clips[x].start)
  <2> SUFFICES ASSUME S # {} PROVE F \in Int /\ F >= from /\ (\A x \in S : F <= d.clips[x].start)
    OBVIOUS
  <2> HIDE DEF S
  <2>1. PICK c \in S : d.clips[c].start = F
    BY <1>4, FirstOf
  <2>2. d.clips[c].start >= from
    BY <1>3, <1>4
  <2>3. QED
    BY <1>4, <2>1, <2>2, FirstOf
<1>8. S # {} /\ delta < 0 => \A x \in ClipsOn(d, t) \ S : End(d.clips[x]) <= first
  <2> SUFFICES ASSUME S # {}, delta < 0, NEW x \in ClipsOn(d, t) \ S PROVE End(d.clips[x]) <= first
    OBVIOUS
  <2>1. first >= LastStay(d, t, from)
    BY CanShiftWhen
  <2>2. LastStay(d, t, from) \in Int /\ End(d.clips[x]) <= LastStay(d, t, from)
    BY LastStays
  <2>3. d.clips[x] \in Clip
    BY <1>5 DEF ClipsOn
  <2>4. End(d.clips[x]) \in Int
    BY <2>3, ClipFields DEF End
  <2>5. QED
    BY <1>6, <1>7, <2>1, <2>2, <2>4
<1> HIDE DEF F, first
<1>9. v \in Int
  BY <1>6, <1>7
<1> HIDE DEF S
<1>10. ASSUME NEW x \in Placed(d)
       PROVE  e.clips[x].track = t /\ e.clips[x].start >= v <=> x \in S
  <2> DEFINE k == d.clips[x]
  <2>1. k \in Clip /\ k.start \in Int /\ k.dur \in Nat /\ k.dur > 0
    BY <1>5, ClipFields
  <2>2. /\ e.clips[x].track = k.track
        /\ e.clips[x].start = k.start + (IF x \in S THEN delta ELSE 0)
    BY <1>2 DEF Slid
  <2>3. x \in S <=> k.track = t /\ k.start >= from
    BY <1>3
  <2>4. S # {} /\ x \in S => F <= k.start
    BY <1>7
  <2>5. S # {} /\ delta < 0 /\ k.track = t /\ x \notin S => k.start + k.dur <= first
    BY <1>8 DEF ClipsOn, End
  <2>6. delta # 0
    BY CanShiftWhen
  <2> HIDE DEF k
  <2>7. CASE S = {}
    BY <2>1, <2>2, <2>3, <2>7
  <2>8. CASE S # {} /\ x \in S
    BY <1>6, <1>7, <2>1, <2>2, <2>3, <2>4, <2>8
  <2>9. CASE S # {} /\ x \notin S
    BY <1>6, <1>7, <2>1, <2>2, <2>3, <2>5, <2>6, <2>9
  <2>10. QED
    BY <2>7, <2>8, <2>9
<1>11. AtOrAfter(e, t, v) = S
  BY <1>2, <1>4, <1>10 DEF AtOrAfter, ClipsOn
<1>12. ShiftBack(d, t, from, delta).from = v
  BY DEF ShiftBack, S, first
<1>13. QED
  BY <1>9, <1>11, <1>12 DEF S

LEMMA ShiftClipsReverts ==
  ASSUME NEW d, IsDocument(d), IsFiniteSet(Placed(d)), Solid(Core(d)),
         NEW t, NEW from \in Int, NEW delta \in Int, CanShift(d, t, from, delta),
         NEW e, IsDocument(e), Core(e) = Core(Shifted(d, t, from, delta))
  PROVE  LET u == ShiftBack(d, t, from, delta)
             r == ShiftClips(e, t, u.from, u.delta)
         IN  r.ok /\ Core(r.doc) = Core(d) /\ r.doc = Shifted(e, t, u.from, u.delta)
<1> DEFINE S == AtOrAfter(d, t, from)
           F == FirstStart(d, S)
           first == First(d, t, from, delta)
           v == ShiftBack(d, t, from, delta).from
           w == -delta
           f == Shifted(d, t, from, delta)
<1>1. v \in Int /\ AtOrAfter(e, t, v) = S
  BY ShiftSelects
<1>2. w \in Int /\ delta + w = 0 /\ (w < 0 => delta > 0) /\ w # 0 /\ t \in Lanes(d)
  BY CanShiftWhen
<1>3. Core(Shifted(e, t, v, w)) = Core(d)
  <2> HIDE DEF v, w
  <2>1. QED
    BY <1>1, <1>2, ShiftedBack
<1>4. /\ Placed(f) = Placed(d) /\ \A x \in Placed(d) : Slid(f.clips[x], d.clips[x], x \in S, delta)
      /\ f.tracks = d.tracks /\ Lanes(f) = Lanes(d) /\ f.pool = d.pool
  BY ShiftedClips
<1> HIDE DEF f
<1>5. /\ e.clips = f.clips /\ Placed(e) = Placed(d) /\ Lanes(e) = Lanes(d)
      /\ \A x \in Placed(d) : Slid(e.clips[x], d.clips[x], x \in S, delta)
  BY <1>4, CoreShared DEF f
<1>6. S \in SUBSET Placed(d)
  BY DEF AtOrAfter, ClipsOn
<1>7. \A x \in Placed(d) : d.clips[x] \in Clip /\ Fits(d, x) /\ d.clips[x].start >= 0
  BY OwnIds, SolidDocument
<1>8. \A x \in Placed(d) : d.clips[x].start \in Int /\ End(d.clips[x]) \in Int
  BY <1>7, ClipFields DEF End
<1>9. S # {} => F \in Int /\ F >= 0 /\ (\A x \in S : F <= d.clips[x].start)
                /\ \E c \in S : d.clips[c].start = F
  <2> HIDE DEF S
  <2>1. QED
    BY <1>6, <1>7, FirstOf
<1>10. S # {} => FirstStart(e, S) = F + delta
  <2> SUFFICES ASSUME S # {} PROVE FirstStart(e, S) = F + delta
    OBVIOUS
  <2> DEFINE G == FirstStart(e, S)
  <2> HIDE DEF S, F
  <2>1. S \in SUBSET Placed(e) /\ IsFiniteSet(Placed(e))
    BY <1>5, <1>6
  <2>2. G \in Int /\ (\E c \in S : e.clips[c].start = G) /\ \A x \in S : G <= e.clips[x].start
    BY <2>1, FirstOf
  <2>3. \A x \in S : e.clips[x].start = d.clips[x].start + delta /\ d.clips[x].start \in Int
    BY <1>5, <1>6, <1>8 DEF Slid
  <2> HIDE DEF G
  <2>4. PICK a \in S : e.clips[a].start = G
    BY <2>2
  <2>5. PICK b \in S : d.clips[b].start = F
    BY <1>9
  <2>6. G = F + delta
    <3>1. G <= F + delta
      BY <2>2, <2>3, <2>5
    <3>2. F + delta <= G
      BY <1>9, <2>3, <2>4
    <3>3. QED
      BY <1>9, <2>2, <3>1, <3>2
  <2>7. QED
    BY <2>6 DEF G
<1>11. ASSUME S # {}, delta > 0 PROVE F >= LastStay(e, t, v)
  <2> DEFINE m == LastStay(e, t, v)
             R == ClipsOn(e, t) \ S
  <2>0. IsFiniteSet(Placed(e)) /\ AtOrAfter(e, t, v) = S
    BY <1>1, <1>5
  <2>1. m \in Int /\ (m = 0 \/ \E c \in R : m = End(e.clips[c]))
    <3> HIDE DEF S, v
    <3>1. QED
      BY <2>0, LastStays
  <2>2. PICK a \in S : d.clips[a].start = F
    BY <1>9, <1>11
  <2>3. ASSUME NEW c \in R PROVE End(e.clips[c]) <= F /\ End(e.clips[c]) \in Int
    <3>1. c \in Placed(d) /\ c \notin S /\ e.clips[c].track = t
      BY <1>5 DEF ClipsOn
    <3>2. /\ e.clips[c].track = d.clips[c].track /\ e.clips[c].start = d.clips[c].start + 0
          /\ e.clips[c].dur = d.clips[c].dur
      BY <1>5, <3>1 DEF Slid
    <3>3. End(e.clips[c]) = End(d.clips[c])
      BY <1>8, <3>1, <3>2 DEF End
    <3>4. a \in Placed(d) /\ a # c /\ d.clips[a].track = t /\ Fits(d, a)
      BY <1>6, <1>7, <2>2, <3>1 DEF AtOrAfter, ClipsOn
    <3>5. d.clips[c].start < from /\ d.clips[a].start >= from
      <4>1. ~(d.clips[c].start >= from) /\ d.clips[a].start >= from
        BY <2>2, <3>1, <3>2 DEF AtOrAfter, ClipsOn
      <4>2. QED
        BY <1>8, <3>1, <4>1
    <3>6. ~(d.clips[c].start >= d.clips[a].start)
      BY <1>8, <3>1, <3>4, <3>5
    <3>7. End(d.clips[c]) <= d.clips[a].start
      BY <3>1, <3>2, <3>4, <3>6, Apart
    <3>8. QED
      BY <1>8, <2>2, <3>1, <3>3, <3>7
  <2> HIDE DEF R
  <2>4. QED
    BY <1>9, <1>11, <2>1, <2>3 DEF m
<1>12. CanShift(e, t, v, w)
  <2>1. ASSUME AtOrAfter(e, t, v) # {}
        PROVE  First(e, t, v, w) >= 0 /\ (w < 0 => First(e, t, v, w) >= LastStay(e, t, v))
    <3>1. S # {} /\ First(e, t, v, w) = FirstStart(e, S) + w
      BY <1>1, <2>1 DEF First
    <3> HIDE DEF S, F, v, w
    <3>2. First(e, t, v, w) = F
      BY <1>2, <1>9, <1>10, <3>1
    <3>3. QED
      BY <1>2, <1>9, <1>11, <3>1, <3>2
  <2>2. QED
    BY <1>2, <1>5, <2>1, CanShiftWhen
<1>13. ShiftBack(d, t, from, delta).delta = w
  BY DEF ShiftBack
<1> HIDE DEF v, w
<1>14. QED
  BY <1>3, <1>12, <1>13 DEF ShiftClips, Try, Accepted, v

-----------------------------------------------------------------------------
(* The inverse of a step leads back *)

(* The inverse r carries is one step that leads back to the core of d.      *)
Reverts(r, d) == \E u : r.inverse = <<u>> /\ Leads(u, Core(r.doc), Core(d))

LEMMA OutcomeFacts ==
  ASSUME NEW d, NEW q
  PROVE  /\ Accepted(d, q).ok = TRUE /\ Accepted(d, q).doc = d /\ Accepted(d, q).inverse = q
         /\ Rejected(d).ok = FALSE /\ Rejected(d).doc = d /\ Rejected(d).inverse = << >>
  BY DEF Accepted, Rejected

LEMMA BackFrom ==
  ASSUME NEW d, NEW f, NEW u, NEW r, r = Accepted(f, <<u>>), Solid(Core(r.doc)),
         Cleared(u, Core(f), Core(d)),
         \A e : IsDocument(e) /\ Core(e) = Core(f) => RunStep(e, u).ok /\ Core(RunStep(e, u).doc) = Core(d)
  PROVE  Reverts(r, d)
<1> DEFINE q == <<u>>
<1>0. r = Accepted(f, q)
  OBVIOUS
<1> HIDE DEF q
<1>1. r.inverse = q /\ r.doc = f
  BY <1>0 DEF Accepted
<1>2. Leads(u, Core(f), Core(d))
  BY <1>1 DEF Leads
<1>3. QED
  BY <1>1, <1>2 DEF Reverts, q

(* Most steps need no more than to be accepted.                             *)
LEMMA ClearedPlainly ==
  ASSUME NEW u, u.op \notin {"InsertMedia", "RemoveTrack", "InsertTrack", "MoveTrack"}, NEW x, NEW y
  PROVE  Cleared(u, x, y)
  BY DEF Cleared

(* An accepted edit reverts when its step does.                             *)
LEMMA TryBack ==
  ASSUME NEW guard \in BOOLEAN, NEW d, NEW x, NEW f, NEW u,
         Try(guard, x, f, u).ok, Solid(Core(Try(guard, x, f, u).doc)),
         guard => Cleared(u, Core(f), Core(d)),
         guard => \A e : IsDocument(e) /\ Core(e) = Core(f)
                           => RunStep(e, u).ok /\ Core(RunStep(e, u).doc) = Core(d)
  PROVE  Reverts(Try(guard, x, f, u), d)
<1> DEFINE q == <<u>>
           a == Accepted(f, q)
           b == Rejected(x)
           r == Try(guard, x, f, u)
<1>0. r.ok /\ Solid(Core(r.doc))
  OBVIOUS
<1>1. r = IF guard THEN a ELSE b
  BY DEF Try
<1> HIDE DEF q
<1>2. b.ok = FALSE
  BY OutcomeFacts
<1> HIDE DEF a, b, r
<1>3. ASSUME ~guard PROVE Reverts(r, d)
  <2>1. r = b
    BY <1>1, <1>3
  <2>2. QED
    BY <2>1, <1>2, <1>0
<1>4. ASSUME guard PROVE Reverts(r, d)
  <2>1. r = a
    BY <1>1, <1>4
  <2>2. QED
    BY <2>1, <1>4, <1>0, BackFrom DEF a, q
<1>5. Reverts(r, d)
  BY <1>3, <1>4
<1>6. QED
  BY <1>5 DEF r

LEMMA RemoveClipBack ==
  ASSUME NEW d, IsDocument(d), Solid(Core(d)), NEW c,
         RemoveClip(d, c).ok, Solid(Core(RemoveClip(d, c).doc))
  PROVE  Reverts(RemoveClip(d, c), d)
<1> DEFINE u == [op |-> "InsertClip", id |-> c, clip |-> d.clips[c]]
           f == WithoutClip(d, c)
           guard == c \in Placed(d)
           r == RemoveClip(d, c)
<1>1. r = Try(guard, d, f, u)
  BY DEF RemoveClip
<1>2. guard \in BOOLEAN
  BY DEF CanAdd
<1>3. guard => c \in Placed(d)
  OBVIOUS
<1>4. Cleared(u, Core(f), Core(d)) /\ \A e : RunStep(e, u) = InsertClip(e, c, d.clips[c])
  BY ClearedPlainly DEF RunStep
<1> HIDE DEF u, guard
<1>5. ASSUME guard, NEW e, IsDocument(e), Core(e) = Core(f)
      PROVE  RunStep(e, u).ok /\ Core(RunStep(e, u).doc) = Core(d)
  BY <1>3, <1>4, <1>5, RemoveClipReverts
<1>6. r.ok /\ Solid(Core(r.doc))
  OBVIOUS
<1> HIDE DEF r, f
<1>7. Reverts(Try(guard, d, f, u), d)
  BY <1>1, <1>2, <1>4, <1>5, <1>6, TryBack
<1>8. QED
  BY <1>1, <1>7 DEF r

LEMMA InsertClipBack ==
  ASSUME NEW d, IsDocument(d), NEW c \in ClipId, NEW k \in Clip,
         InsertClip(d, c, k).ok, Solid(Core(InsertClip(d, c, k).doc))
  PROVE  Reverts(InsertClip(d, c, k), d)
<1> DEFINE u == [op |-> "RemoveClip", id |-> c]
           f == WithClip(d, c, k)
           guard == CanAdd(d, c, k)
           r == InsertClip(d, c, k)
<1>1. r = Try(guard, d, f, u)
  BY DEF InsertClip
<1>2. guard \in BOOLEAN
  BY DEF CanAdd
<1>3. guard => CanAdd(d, c, k)
  OBVIOUS
<1>4. Cleared(u, Core(f), Core(d)) /\ \A e : RunStep(e, u) = RemoveClip(e, c)
  BY ClearedPlainly DEF RunStep
<1> HIDE DEF u, guard
<1>5. ASSUME guard, NEW e, IsDocument(e), Core(e) = Core(f)
      PROVE  RunStep(e, u).ok /\ Core(RunStep(e, u).doc) = Core(d)
  BY <1>3, <1>4, <1>5, InsertClipReverts
<1>6. r.ok /\ Solid(Core(r.doc))
  OBVIOUS
<1> HIDE DEF r, f
<1>7. Reverts(Try(guard, d, f, u), d)
  BY <1>1, <1>2, <1>4, <1>5, <1>6, TryBack
<1>8. QED
  BY <1>1, <1>7 DEF r

LEMMA RestoreClipBack ==
  ASSUME NEW d, IsDocument(d), NEW c, NEW k \in Clip,
         RestoreClip(d, c, k).ok, Solid(Core(RestoreClip(d, c, k).doc))
  PROVE  Reverts(RestoreClip(d, c, k), d)
<1> DEFINE u == [op |-> "RestoreClip", id |-> c, clip |-> d.clips[c]]
           f == WithClip(d, c, [k EXCEPT !.track = d.clips[c].track])
           guard == c \in Placed(d)
           r == RestoreClip(d, c, k)
<1>1. r = Try(guard, d, f, u)
  BY DEF RestoreClip
<1>2. guard \in BOOLEAN
  BY DEF CanAdd
<1>3. guard => c \in Placed(d)
  OBVIOUS
<1>4. Cleared(u, Core(f), Core(d)) /\ \A e : RunStep(e, u) = RestoreClip(e, c, d.clips[c])
  BY ClearedPlainly DEF RunStep
<1> HIDE DEF u, guard
<1>5. ASSUME guard, NEW e, IsDocument(e), Core(e) = Core(f)
      PROVE  RunStep(e, u).ok /\ Core(RunStep(e, u).doc) = Core(d)
  BY <1>3, <1>4, <1>5, RestoreClipReverts
<1>6. r.ok /\ Solid(Core(r.doc))
  OBVIOUS
<1> HIDE DEF r, f
<1>7. Reverts(Try(guard, d, f, u), d)
  BY <1>1, <1>2, <1>4, <1>5, <1>6, TryBack
<1>8. QED
  BY <1>1, <1>7 DEF r

LEMMA RemoveTrackBack ==
  ASSUME NEW d, IsDocument(d), Solid(Core(d)), NEW t, Removable(d, t),
         RemoveTrack(d, t).ok, Solid(Core(RemoveTrack(d, t).doc))
  PROVE  Reverts(RemoveTrack(d, t), d)
<1> DEFINE u == [op |-> "InsertTrack", id |-> t, track |-> d.tracks[t],
                 index |-> IndexOf(d, t), held |-> Restrict(d.clips, ClipsOn(d, t))]
           f == DropTrack(d, t)
           guard == t \in Lanes(d)
           r == RemoveTrack(d, t)
<1>1. r = Try(guard, d, f, u)
  BY DEF RemoveTrack
<1>2. guard \in BOOLEAN
  BY DEF CanAdd
<1>3. guard => t \in Lanes(d)
  OBVIOUS
<1>4. /\ u.op = "InsertTrack" /\ u.id = t
      /\ \A e : RunStep(e, u) = RestoreTrack(e, t, d.tracks[t], IndexOf(d, t), Restrict(d.clips, ClipsOn(d, t)))
  BY DEF RunStep
<1> HIDE DEF u, guard
<1>5. Tidy => IsZoned(d)
  BY SolidDocument
<1>6. ASSUME guard, NEW e, IsDocument(e), Core(e) = Core(f)
      PROVE  RunStep(e, u).ok /\ Core(RunStep(e, u).doc) = Core(d)
  BY <1>3, <1>4, <1>5, <1>6, RemoveTrackReverts
<1>7. Cleared(u, Core(f), Core(d))
  <2>1. Removes(u, Core(d))
    BY <1>4, RemovesThere
  <2>2. QED
    BY <1>4, <2>1 DEF Cleared
<1>8. r.ok /\ Solid(Core(r.doc))
  OBVIOUS
<1> HIDE DEF r, f
<1>9. Reverts(Try(guard, d, f, u), d)
  BY <1>1, <1>2, <1>6, <1>7, <1>8, TryBack
<1>10. QED
  BY <1>1, <1>9 DEF r

LEMMA RestoreTrackBack ==
  ASSUME NEW d, IsDocument(d), Solid(Core(d)), NEW t \in TrackId, NEW track, IsTrack(track),
         NEW index \in Nat \ {0}, NEW held, \A c \in DOMAIN held : held[c].track = t,
         RestoreTrack(d, t, track, index, held).ok,
         IsDocument(RestoreTrack(d, t, track, index, held).doc),
         Removable(RestoreTrack(d, t, track, index, held).doc, t),
         Solid(Core(RestoreTrack(d, t, track, index, held).doc))
  PROVE  Reverts(RestoreTrack(d, t, track, index, held), d)
<1> DEFINE u == [op |-> "RemoveTrack", id |-> t]
           r == RestoreTrack(d, t, track, index, held)
           back == InsertTrack(d, t, track, index)
           kept == Placed(d)
           f == [back EXCEPT !.clips =
                   [c \in kept \cup DOMAIN held |-> IF c \in kept THEN d.clips[c] ELSE held[c]]]
           guard == t \notin Lanes(d) /\ DOMAIN held \cap kept = {}
<1>1. r = Try(guard, d, f, u)
  BY DEF RestoreTrack
<1>2. guard \in BOOLEAN
  OBVIOUS
<1>3. guard => t \notin Lanes(d) /\ DOMAIN held \cap Placed(d) = {}
  OBVIOUS
<1>4. u.op = "RemoveTrack" /\ u.id = t /\ \A e : RunStep(e, u) = RemoveTrack(e, t)
  BY DEF RunStep
<1>5. r.ok /\ Solid(Core(r.doc)) /\ IsDocument(r.doc) /\ Removable(r.doc, t)
  OBVIOUS
<1>6. Tidy => IsZoned(d)
  BY SolidDocument
<1> HIDE DEF u, guard, f
<1>7. guard => r.doc = f
  <2> DEFINE q == <<u>>
  <2>1. guard => r = Accepted(f, q)
    BY <1>1 DEF Try
  <2> HIDE DEF q
  <2>2. QED
    BY <2>1 DEF Accepted
<1>8. ASSUME guard, NEW e, IsDocument(e), Core(e) = Core(f)
      PROVE  RunStep(e, u).ok /\ Core(RunStep(e, u).doc) = Core(d)
  BY <1>3, <1>4, <1>6, <1>7, <1>8, InsertTrackReverts
<1> HIDE DEF r
<1>9. guard => Cleared(u, Core(f), Core(d))
  <2>1. guard => Removes(u, Core(f))
    BY <1>4, <1>5, <1>7, RemovesThere
  <2>2. QED
    BY <1>4, <2>1 DEF Cleared
<1>10. Reverts(Try(guard, d, f, u), d)
  BY <1>1, <1>2, <1>5, <1>8, <1>9, TryBack
<1>11. QED
  BY <1>1, <1>10 DEF r

(* A lane goes to j; the recorded step brings it to i.                      *)
LEMMA LaneMovedBack ==
  ASSUME NEW d, IsDocument(d), Solid(Core(d)), NEW t, NEW i, t \in Lanes(d) => i \in Nat \ {0},
         NEW j \in Nat \ {0}, t \in Lanes(d) /\ Tidy => Reorder(Reorder(d, t, j), t, i) = d,
         NEW r, r.ok, Solid(Core(r.doc)), t \in Lanes(d) => IsDocument(Reorder(d, t, j)),
         r = Try(t \in Lanes(d), d, Reorder(d, t, j), [op |-> "MoveTrack", id |-> t, from |-> i, to |-> j])
  PROVE  Reverts(r, d)
<1> DEFINE u == [op |-> "MoveTrack", id |-> t, from |-> i, to |-> j]
           f == Reorder(d, t, j)
           guard == t \in Lanes(d)
<1>1. u.op = "MoveTrack" /\ u.id = t /\ u.to = j /\ \A e : RunStep(e, u) = UnmoveTrack(e, t, i, j)
  BY DEF RunStep
<1>2. r = Try(guard, d, f, u)
  OBVIOUS
<1> HIDE DEF u
<1>3. ASSUME guard, NEW e, IsDocument(e), Core(e) = Core(f)
      PROVE  RunStep(e, u).ok /\ Core(RunStep(e, u).doc) = Core(d)
  <2> DEFINE back == [op |-> "MoveTrack", id |-> t, from |-> j, to |-> i]
             q == <<back>>
  <2>1. t \in Lanes(d) /\ i \in Nat \ {0} /\ (Tidy => Reorder(Reorder(d, t, j), t, i) = d)
        /\ Core(e) = Core(Reorder(d, t, j))
    BY <1>3
  <2>2. t \in Lanes(e) /\ Core(Reorder(e, t, i)) = Core(d)
    BY <1>3, <2>1, ReorderReverts
  <2>3. UnmoveTrack(e, t, i, j) = Accepted(Reorder(e, t, i), q)
    BY <2>2 DEF UnmoveTrack, Try
  <2> HIDE DEF q
  <2>4. QED
    BY <1>1, <2>2, <2>3 DEF Accepted
<1>4. guard => Cleared(u, Core(f), Core(d))
  <2>1. guard => IsDocument(f)
    OBVIOUS
  <2>2. Reorder(d, u.id, u.to) = f
    BY <1>1
  <2> HIDE DEF f
  <2>3. guard => Moves(u, Core(f), Core(d))
    BY <2>1, <2>2, MovesThere
  <2>4. QED
    BY <1>1, <2>3 DEF Cleared
<1>5. guard \in BOOLEAN
  OBVIOUS
<1> HIDE DEF guard, f
<1>6. Reverts(Try(guard, d, f, u), d)
  BY <1>2, <1>3, <1>4, <1>5, TryBack
<1>7. QED
  BY <1>2, <1>6

LEMMA ReorderedDocument ==
  ASSUME NEW d, IsDocument(d), NEW t \in Lanes(d), NEW j \in Nat \ {0}
  PROVE  IsDocument(Reorder(d, t, j))
<1> DEFINE f == Reorder(d, t, j)
<1>1. IsStacked(d)
  BY StackedFacts
<1>2. f.clips = d.clips /\ f.pool = d.pool /\ f.tracks = d.tracks /\ IsStacked(f)
  BY <1>1, ReorderFacts DEF Restacked
<1> HIDE DEF f
<1>3. Lanes(f) = Lanes(d) /\ Placed(f) = Placed(d)
  BY <1>2 DEF Lanes, Placed
<1>4. QED
  BY <1>2, <1>3, StackedFacts DEF f

LEMMA UnmoveTrackBack ==
  ASSUME NEW d, IsDocument(d), Solid(Core(d)), NEW t, NEW from \in Nat \ {0}, NEW to \in Nat \ {0},
         UnmoveTrack(d, t, from, to).ok, Solid(Core(UnmoveTrack(d, t, from, to).doc)),
         t \in Lanes(d) /\ Tidy => Reorder(Reorder(d, t, from), t, to) = d
  PROVE  Reverts(UnmoveTrack(d, t, from, to), d)
<1> DEFINE r == UnmoveTrack(d, t, from, to)
<1>1. r = Try(t \in Lanes(d), d, Reorder(d, t, from), [op |-> "MoveTrack", id |-> t, from |-> to, to |-> from])
  BY DEF UnmoveTrack
<1>2. r.ok /\ Solid(Core(r.doc))
  OBVIOUS
<1> HIDE DEF r
<1>3. t \in Lanes(d) => IsDocument(Reorder(d, t, from))
  BY ReorderedDocument
<1>4. Reverts(r, d)
  BY <1>1, <1>2, <1>3, LaneMovedBack
<1>5. QED
  BY <1>4 DEF r

LEMMA MoveTrackBack ==
  ASSUME NEW d, IsDocument(d), Solid(Core(d)), NEW t, NEW to \in Nat \ {0},
         MoveTrack(d, t, to).ok, Solid(Core(MoveTrack(d, t, to).doc))
  PROVE  Reverts(MoveTrack(d, t, to), d)
<1> DEFINE r == MoveTrack(d, t, to)
           i == IndexOf(d, t)
<1>1. r = Try(t \in Lanes(d), d, Reorder(d, t, to), [op |-> "MoveTrack", id |-> t, from |-> i, to |-> to])
  BY DEF MoveTrack
<1>2. IsStacked(d)
  BY StackedFacts
<1>3. t \in Lanes(d) => i \in Nat \ {0}
  BY <1>2, IndexOfFacts
<1>4. t \in Lanes(d) /\ Tidy => Reorder(Reorder(d, t, to), t, i) = d
  <2>1. Tidy => InZones(d)
    BY SolidDocument DEF IsZoned, InZones
  <2>2. QED
    BY <1>2, <2>1, ReorderBack
<1>5. r.ok /\ Solid(Core(r.doc))
  OBVIOUS
<1> HIDE DEF r, i
<1>6. t \in Lanes(d) => IsDocument(Reorder(d, t, to))
  BY ReorderedDocument
<1>7. Reverts(r, d)
  BY <1>1, <1>3, <1>4, <1>5, <1>6, LaneMovedBack
<1>8. QED
  BY <1>7 DEF r

LEMMA MoveClipBack ==
  ASSUME NEW d, IsDocument(d), Solid(Core(d)), NEW c, NEW t, NEW start \in Int,
         MoveClip(d, c, t, start).ok, Solid(Core(MoveClip(d, c, t, start).doc))
  PROVE  Reverts(MoveClip(d, c, t, start), d)
<1> DEFINE u == [op |-> "MoveClip", id |-> c, lane |-> d.clips[c].track, start |-> d.clips[c].start]
           f == WithClip(d, c, [d.clips[c] EXCEPT !.track = t, !.start = start])
           guard == /\ start >= 0
                    /\ c \in Placed(d)
                    /\ t \in Lanes(d)
                    /\ Accepts(d.tracks[t].kind, [d.clips[c] EXCEPT !.track = t, !.start = start].content)
                    /\ ~HasOverlap(d, t, [d.clips[c] EXCEPT !.track = t, !.start = start], {c})
           r == MoveClip(d, c, t, start)
<1>1. r = Try(guard, d, f, u)
  BY DEF MoveClip
<1>2. guard \in BOOLEAN
  BY DEF CanAdd
<1>3. guard => c \in Placed(d) /\ t \in Lanes(d)
  OBVIOUS
<1>4. Cleared(u, Core(f), Core(d)) /\ \A e : RunStep(e, u) = MoveClip(e, c, d.clips[c].track, d.clips[c].start)
  BY ClearedPlainly DEF RunStep
<1> HIDE DEF u, guard
<1>5. ASSUME guard, NEW e, IsDocument(e), Core(e) = Core(f)
      PROVE  RunStep(e, u).ok /\ Core(RunStep(e, u).doc) = Core(d)
  <2>1. c \in Placed(d) /\ t \in Lanes(d)
    BY <1>3, <1>5
  <2>2. IsDocument(e) /\ Core(e) = Core(f)
    BY <1>5
  <2>3. Returned(d, c, t, start, e)
    BY <2>1, <2>2, MoveClipReverts
  <2>4. LET r2 == MoveClip(e, c, d.clips[c].track, d.clips[c].start) IN r2.ok /\ Core(r2.doc) = Core(d)
    BY <2>2, <2>3 DEF Returned
  <2>5. QED
    BY <1>4, <2>4
<1>6. r.ok /\ Solid(Core(r.doc))
  OBVIOUS
<1> HIDE DEF r, f
<1>7. Reverts(Try(guard, d, f, u), d)
  BY <1>1, <1>2, <1>4, <1>5, <1>6, TryBack
<1>8. QED
  BY <1>1, <1>7 DEF r

LEMMA ShiftClipsBack ==
  ASSUME NEW d, IsDocument(d), IsFiniteSet(Placed(d)), Solid(Core(d)),
         NEW t, NEW from \in Int, NEW delta \in Int,
         ShiftClips(d, t, from, delta).ok, Solid(Core(ShiftClips(d, t, from, delta).doc))
  PROVE  Reverts(ShiftClips(d, t, from, delta), d)
<1> DEFINE u == ShiftBack(d, t, from, delta)
           f == Shifted(d, t, from, delta)
           guard == CanShift(d, t, from, delta)
           r == ShiftClips(d, t, from, delta)
<1>1. r = Try(guard, d, f, u)
  BY DEF ShiftClips, ShiftBack, First
<1>2. guard \in BOOLEAN
  BY CanShiftWhen
<1>3. guard => CanShift(d, t, from, delta)
  OBVIOUS
<1>4. Cleared(u, Core(f), Core(d)) /\ \A e : RunStep(e, u) = ShiftClips(e, t, u.from, u.delta)
  BY ClearedPlainly DEF RunStep, ShiftBack
<1> HIDE DEF u, guard
<1>5. ASSUME guard, NEW e, IsDocument(e), Core(e) = Core(f)
      PROVE  RunStep(e, u).ok /\ Core(RunStep(e, u).doc) = Core(d)
  <2>1. CanShift(d, t, from, delta) /\ Core(e) = Core(Shifted(d, t, from, delta))
    BY <1>3, <1>5
  <2>2. LET r2 == ShiftClips(e, t, u.from, u.delta) IN r2.ok /\ Core(r2.doc) = Core(d)
    BY <1>5, <2>1, ShiftClipsReverts DEF u
  <2>3. QED
    BY <1>4, <2>2
<1>6. r.ok /\ Solid(Core(r.doc))
  OBVIOUS
<1> HIDE DEF r, f
<1>7. Reverts(Try(guard, d, f, u), d)
  BY <1>1, <1>2, <1>4, <1>5, <1>6, TryBack
<1>8. QED
  BY <1>1, <1>7 DEF r

LEMMA RippleDeleteBack ==
  ASSUME NEW d, IsDocument(d), Solid(Core(d)), NEW c,
         RippleDelete(d, c).ok, Solid(Core(RippleDelete(d, c).doc))
  PROVE  Reverts(RippleDelete(d, c), d)
<1> DEFINE u == [op |-> "RestoreRipple", id |-> c, clip |-> d.clips[c]]
           f == Shifted(WithoutClip(d, c), d.clips[c].track, d.clips[c].start, -d.clips[c].dur)
           guard == c \in Placed(d)
           r == RippleDelete(d, c)
<1>1. r = Try(guard, d, f, u)
  BY DEF RippleDelete
<1>2. guard \in BOOLEAN
  BY DEF CanAdd
<1>3. guard => c \in Placed(d)
  OBVIOUS
<1>4. Cleared(u, Core(f), Core(d)) /\ \A e : RunStep(e, u) = RestoreRipple(e, c, d.clips[c])
  BY ClearedPlainly DEF RunStep
<1> HIDE DEF u, guard
<1>5. ASSUME guard, NEW e, IsDocument(e), Core(e) = Core(f)
      PROVE  RunStep(e, u).ok /\ Core(RunStep(e, u).doc) = Core(d)
  BY <1>3, <1>4, <1>5, RippleDeleteReverts
<1>6. r.ok /\ Solid(Core(r.doc))
  OBVIOUS
<1> HIDE DEF r, f
<1>7. Reverts(Try(guard, d, f, u), d)
  BY <1>1, <1>2, <1>4, <1>5, <1>6, TryBack
<1>8. QED
  BY <1>1, <1>7 DEF r

LEMMA RestoreRippleBack ==
  ASSUME NEW d, IsDocument(d), NEW c \in ClipId, NEW k \in Clip,
         RestoreRipple(d, c, k).ok, Solid(Core(RestoreRipple(d, c, k).doc))
  PROVE  Reverts(RestoreRipple(d, c, k), d)
<1> DEFINE u == [op |-> "RippleDelete", id |-> c]
           opened == Shifted(d, k.track, k.start, k.dur)
           f == WithClip(opened, c, k)
           guard == CanAdd(opened, c, k)
           r == RestoreRipple(d, c, k)
<1>1. r = Try(guard, opened, f, u)
  BY OutcomeFacts DEF RestoreRipple
<1>2. guard \in BOOLEAN
  BY DEF CanAdd
<1>3. guard => CanAdd(opened, c, k)
  OBVIOUS
<1>4. Cleared(u, Core(f), Core(d)) /\ \A e : RunStep(e, u) = RippleDelete(e, c)
  BY ClearedPlainly DEF RunStep
<1> HIDE DEF u, guard
<1>5. ASSUME guard, NEW e, IsDocument(e), Core(e) = Core(f)
      PROVE  RunStep(e, u).ok /\ Core(RunStep(e, u).doc) = Core(d)
  BY <1>3, <1>4, <1>5, RestoreRippleReverts
<1>6. r.ok /\ Solid(Core(r.doc))
  OBVIOUS
<1> HIDE DEF r, f, opened
<1>7. Reverts(Try(guard, opened, f, u), d)
  BY <1>1, <1>2, <1>4, <1>5, <1>6, TryBack
<1>8. QED
  BY <1>1, <1>7 DEF r

LEMMA MergeSplitBack ==
  ASSUME NEW d, IsDocument(d), Solid(Core(d)), NEW left, NEW right, NEW whole \in Clip,
         MergeSplit(d, left, whole, right).ok, Solid(Core(MergeSplit(d, left, whole, right).doc))
  PROVE  Reverts(MergeSplit(d, left, whole, right), d)
<1> DEFINE u == [op |-> "ReapplySplit", id |-> left, clip |-> d.clips[left],
                 tail |-> right, rest |-> d.clips[right]]
           merged == WithoutClip(d, right)
           f == WithClip(merged, left, [whole EXCEPT !.track = d.clips[left].track])
           guard == left \in Placed(merged)
           r == MergeSplit(d, left, whole, right)
<1>1. r = Try(guard, merged, f, u) /\ right \in Placed(d)
  BY OutcomeFacts DEF MergeSplit
<1>2. guard \in BOOLEAN
  OBVIOUS
<1>3. guard => left \in Placed(d) /\ left # right
  BY Unclipped
<1>4. Cleared(u, Core(f), Core(d)) /\ \A e : RunStep(e, u) = ReapplySplit(e, left, d.clips[left], right, d.clips[right])
  BY ClearedPlainly DEF RunStep
<1> HIDE DEF u, guard
<1>5. ASSUME guard, NEW e, IsDocument(e), Core(e) = Core(f)
      PROVE  RunStep(e, u).ok /\ Core(RunStep(e, u).doc) = Core(d)
  BY <1>1, <1>3, <1>4, <1>5, MergeSplitReverts
<1>6. r.ok /\ Solid(Core(r.doc))
  OBVIOUS
<1> HIDE DEF r, f, merged
<1>7. Reverts(Try(guard, merged, f, u), d)
  BY <1>1, <1>2, <1>4, <1>5, <1>6, TryBack
<1>8. QED
  BY <1>1, <1>7 DEF r

LEMMA ReapplySplitBack ==
  ASSUME NEW d, IsDocument(d), NEW left, NEW half \in Clip, NEW tail \in ClipId, NEW rest \in Clip,
         ReapplySplit(d, left, half, tail, rest).ok, Solid(Core(ReapplySplit(d, left, half, tail, rest).doc))
  PROVE  Reverts(ReapplySplit(d, left, half, tail, rest), d)
<1> DEFINE u == [op |-> "MergeSplit", id |-> left, clip |-> d.clips[left], tail |-> tail]
           cut == WithClip(d, left, [half EXCEPT !.track = d.clips[left].track])
           f == WithClip(cut, tail, rest)
           guard == CanAdd(cut, tail, rest)
           r == ReapplySplit(d, left, half, tail, rest)
<1>1. r = Try(guard, cut, f, u) /\ left \in Placed(d)
  BY OutcomeFacts DEF ReapplySplit
<1>2. guard \in BOOLEAN
  BY DEF CanAdd
<1>3. guard => CanAdd(cut, tail, rest)
  OBVIOUS
<1>4. Cleared(u, Core(f), Core(d)) /\ \A e : RunStep(e, u) = MergeSplit(e, left, d.clips[left], tail)
  BY ClearedPlainly DEF RunStep
<1> HIDE DEF u, guard
<1>5. ASSUME guard, NEW e, IsDocument(e), Core(e) = Core(f)
      PROVE  RunStep(e, u).ok /\ Core(RunStep(e, u).doc) = Core(d)
  BY <1>1, <1>3, <1>4, <1>5, ReapplySplitReverts
<1>6. r.ok /\ Solid(Core(r.doc))
  OBVIOUS
<1> HIDE DEF r, f, cut
<1>7. Reverts(Try(guard, cut, f, u), d)
  BY <1>1, <1>2, <1>4, <1>5, <1>6, TryBack
<1>8. QED
  BY <1>1, <1>7 DEF r

LEMMA RestoreTransitionsBack ==
  ASSUME NEW d, IsDocument(d), NEW snapshot, \A t \in DOMAIN snapshot : IsJunctions(snapshot[t]),
         Solid(Core(RestoreTransitions(d, snapshot).doc))
  PROVE  Reverts(RestoreTransitions(d, snapshot), d)
<1> DEFINE all == Transitions(d)
           u == [op |-> "RestoreTransitions", snapshot |-> all]
           f == WithTransitions(d, snapshot)
           r == RestoreTransitions(d, snapshot)
<1>1. r = Accepted(f, <<u>>)
  BY DEF RestoreTransitions
<1>2. Cleared(u, Core(f), Core(d)) /\ \A e : RunStep(e, u) = RestoreTransitions(e, all)
  BY ClearedPlainly DEF RunStep
<1> HIDE DEF u
<1>3. ASSUME NEW e, IsDocument(e), Core(e) = Core(f)
      PROVE  RunStep(e, u).ok /\ Core(RunStep(e, u).doc) = Core(d)
  <2>1. RestoreTransitions(e, all).ok /\ Core(RestoreTransitions(e, all).doc) = Core(d)
    BY <1>3, RestoreTransitionsReverts
  <2>2. QED
    BY <1>2, <2>1
<1>4. Solid(Core(r.doc))
  OBVIOUS
<1> HIDE DEF f, r
<1>5. QED
  BY <1>1, <1>2, <1>3, <1>4, BackFrom DEF r

LEMMA RemoveMediaBack ==
  ASSUME NEW d, IsDocument(d), NEW m, RemoveMedia(d, m).ok, Solid(Core(RemoveMedia(d, m).doc))
  PROVE  Reverts(RemoveMedia(d, m), d)
<1> DEFINE u == [op |-> "InsertMedia", medium |-> m]
           f == [d EXCEPT !.pool = @ \ {m}]
           guard == m \in d.pool /\ ~IsReferenced(d, m)
           r == RemoveMedia(d, m)
<1>1. r = Try(guard, d, f, u)
  BY DEF RemoveMedia
<1>2. guard \in BOOLEAN
  OBVIOUS
<1>3. guard => m \in d.pool
  OBVIOUS
<1>4. u.op = "InsertMedia" /\ u.medium = m /\ \A e : RunStep(e, u) = InsertMedia(e, m)
  BY DEF RunStep
<1>5. Cleared(u, Core(f), Core(d))
  <2>1. m \notin f.pool
    BY RepooledFacts, StackedFacts DEF IsStacked
  <2>2. Core(f).pool = f.pool
    BY CoreFields
  <2> HIDE DEF f, u
  <2>3. QED
    BY <1>4, <2>1, <2>2 DEF Cleared
<1> HIDE DEF u, guard
<1>6. ASSUME guard, NEW e, IsDocument(e), Core(e) = Core(f)
      PROVE  RunStep(e, u).ok /\ Core(RunStep(e, u).doc) = Core(d)
  BY <1>3, <1>4, <1>6, RemoveMediaReverts
<1>7. r.ok /\ Solid(Core(r.doc))
  OBVIOUS
<1> HIDE DEF r, f
<1>8. Reverts(Try(guard, d, f, u), d)
  BY <1>1, <1>2, <1>4, <1>5, <1>6, <1>7, TryBack
<1>9. QED
  BY <1>1, <1>8 DEF r

LEMMA InsertMediaBack ==
  ASSUME NEW d, IsDocument(d), Solid(Core(d)), NEW m \in Media, m \notin d.pool,
         Solid(Core(InsertMedia(d, m).doc))
  PROVE  Reverts(InsertMedia(d, m), d)
<1> DEFINE u == [op |-> "RemoveMedia", medium |-> m]
           f == [d EXCEPT !.pool = @ \cup {m}]
           r == InsertMedia(d, m)
<1>1. r = Accepted(f, <<u>>)
  BY DEF InsertMedia
<1>2. Cleared(u, Core(f), Core(d)) /\ \A e : RunStep(e, u) = RemoveMedia(e, m)
  BY ClearedPlainly DEF RunStep
<1> HIDE DEF u
<1>3. ASSUME NEW e, IsDocument(e), Core(e) = Core(f)
      PROVE  RunStep(e, u).ok /\ Core(RunStep(e, u).doc) = Core(d)
  BY <1>2, <1>3, InsertMediaReverts
<1>4. Solid(Core(r.doc))
  OBVIOUS
<1> HIDE DEF f, r
<1>5. QED
  BY <1>1, <1>2, <1>3, <1>4, BackFrom DEF r

LEMMA StepReverts ==
  ASSUME NEW C \in SUBSET ClipId, IsFiniteSet(C), NEW T \in SUBSET TrackId,
         NEW M \in SUBSET Media, NEW d, Within(d, C, T, M), NEW s, IsStep(s, C, T, M),
         Solid(Core(d)), Cleared(s, Core(d), Core(RunStep(d, s).doc)),
         RunStep(d, s).ok, Solid(Core(RunStep(d, s).doc))
  PROVE  Reverts(RunStep(d, s), d)
<1>0. IsDocument(d) /\ IsFiniteSet(Placed(d))
  BY FS_Subset DEF Within
<1> DEFINE f == RunStep(d, s).doc
<1>a. IsDocument(f) /\ Cleared(s, Core(d), Core(f))
  BY RunStepOutcome DEF IsOutcome, Within
<1> HIDE DEF f
<1>1. CASE s.op = "RemoveClip"
  <2>1. RunStep(d, s) = RemoveClip(d, s.id)
    BY <1>1 DEF RunStep
  <2>2. QED
    BY <1>0, <2>1, RemoveClipBack
<1>2. CASE s.op = "InsertClip"
  <2>1. RunStep(d, s) = InsertClip(d, s.id, s.clip)
    BY <1>2 DEF RunStep
  <2>2. s.id \in ClipId /\ s.clip \in Clip
    BY <1>2 DEF IsStep
  <2>3. QED
    BY <1>0, <2>1, <2>2, InsertClipBack
<1>3. CASE s.op = "RestoreClip"
  <2>1. RunStep(d, s) = RestoreClip(d, s.id, s.clip)
    BY <1>3 DEF RunStep
  <2>2. s.clip \in Clip
    BY <1>3 DEF IsStep
  <2>3. QED
    BY <1>0, <2>1, <2>2, RestoreClipBack
<1>4. CASE s.op = "RemoveTrack"
  <2>1. RunStep(d, s) = RemoveTrack(d, s.id)
    BY <1>4 DEF RunStep
  <2>2. Removable(d, s.id)
    BY <1>0, <1>a, <1>4, RemovesThere DEF Cleared
  <2>3. QED
    BY <1>0, <2>1, <2>2, RemoveTrackBack
<1>5. CASE s.op = "InsertTrack"
  <2>1. RunStep(d, s) = RestoreTrack(d, s.id, s.track, s.index, s.held)
    BY <1>5 DEF RunStep
  <2>2. /\ s.id \in TrackId /\ IsTrack(s.track) /\ s.index \in Nat \ {0} /\ IsPartial(s.held, C)
        /\ \A c \in DOMAIN s.held : s.held[c] \in Clip /\ s.held[c].track = s.id
    BY <1>5 DEF IsStep
  <2>3. Removable(RunStep(d, s).doc, s.id)
    BY <1>a, <1>5, RemovesThere DEF Cleared, f
  <2>4. IsDocument(RunStep(d, s).doc)
    BY <1>a DEF f
  <2>5. QED
    BY <1>0, <2>1, <2>2, <2>3, <2>4, RestoreTrackBack
<1>6. CASE s.op = "MoveTrack"
  <2>1. RunStep(d, s) = UnmoveTrack(d, s.id, s.from, s.to)
    BY <1>6 DEF RunStep
  <2>2. s.from \in Nat \ {0} /\ s.to \in Nat \ {0}
    BY <1>6 DEF IsStep
  <2>3. Tidy => Reorder(f, s.id, s.to) = d
    BY <1>0, <1>a, <1>6, MovesThere DEF Cleared
  <2>4. s.id \in Lanes(d) => f = Reorder(d, s.id, s.from)
    <3> DEFINE q == <<[op |-> "MoveTrack", id |-> s.id, from |-> s.to, to |-> s.from]>>
    <3>1. s.id \in Lanes(d) => RunStep(d, s) = Accepted(Reorder(d, s.id, s.from), q)
      BY <2>1 DEF UnmoveTrack, Try
    <3> HIDE DEF q
    <3>2. QED
      BY <3>1 DEF Accepted, f
  <2>5. s.id \in Lanes(d) /\ Tidy => Reorder(Reorder(d, s.id, s.from), s.id, s.to) = d
    BY <2>3, <2>4
  <2>6. QED
    BY <1>0, <2>1, <2>2, <2>5, UnmoveTrackBack
<1>7. CASE s.op = "MoveClip"
  <2>1. RunStep(d, s) = MoveClip(d, s.id, s.lane, s.start)
    BY <1>7 DEF RunStep
  <2>2. s.start \in Int
    BY <1>7 DEF IsStep
  <2>3. QED
    BY <1>0, <2>1, <2>2, MoveClipBack
<1>8. CASE s.op = "ShiftClips"
  <2>1. RunStep(d, s) = ShiftClips(d, s.lane, s.from, s.delta)
    BY <1>8 DEF RunStep
  <2>2. s.from \in Int /\ s.delta \in Int
    BY <1>8 DEF IsStep
  <2>3. QED
    BY <1>0, <2>1, <2>2, ShiftClipsBack
<1>9. CASE s.op = "RippleDelete"
  <2>1. RunStep(d, s) = RippleDelete(d, s.id)
    BY <1>9 DEF RunStep
  <2>2. QED
    BY <1>0, <2>1, RippleDeleteBack
<1>10. CASE s.op = "RestoreRipple"
  <2>1. RunStep(d, s) = RestoreRipple(d, s.id, s.clip)
    BY <1>10 DEF RunStep
  <2>2. s.id \in ClipId /\ s.clip \in Clip
    BY <1>10 DEF IsStep
  <2>3. QED
    BY <1>0, <2>1, <2>2, RestoreRippleBack
<1>11. CASE s.op = "MergeSplit"
  <2>1. RunStep(d, s) = MergeSplit(d, s.id, s.clip, s.tail)
    BY <1>11 DEF RunStep
  <2>2. s.clip \in Clip
    BY <1>11 DEF IsStep
  <2>3. QED
    BY <1>0, <2>1, <2>2, MergeSplitBack
<1>12. CASE s.op = "ReapplySplit"
  <2>1. RunStep(d, s) = ReapplySplit(d, s.id, s.clip, s.tail, s.rest)
    BY <1>12 DEF RunStep
  <2>2. s.clip \in Clip /\ s.tail \in ClipId /\ s.rest \in Clip
    BY <1>12 DEF IsStep
  <2>3. QED
    BY <1>0, <2>1, <2>2, ReapplySplitBack
<1>13. CASE s.op = "RestoreTransitions"
  <2>1. RunStep(d, s) = RestoreTransitions(d, s.snapshot)
    BY <1>13 DEF RunStep
  <2>2. \A t \in DOMAIN s.snapshot : IsJunctions(s.snapshot[t])
    BY <1>13 DEF IsStep
  <2>3. QED
    BY <1>0, <2>1, <2>2, RestoreTransitionsBack
<1>14. CASE s.op = "RemoveMedia"
  <2>1. RunStep(d, s) = RemoveMedia(d, s.medium)
    BY <1>14 DEF RunStep
  <2>2. QED
    BY <1>0, <2>1, RemoveMediaBack
<1>15. CASE s.op = "InsertMedia"
  <2>1. RunStep(d, s) = InsertMedia(d, s.medium)
    BY <1>15 DEF RunStep
  <2>2. s.medium \in Media /\ s.medium \notin d.pool
    BY <1>a, <1>15, CoreFields DEF IsStep, Cleared
  <2>3. QED
    BY <1>0, <2>1, <2>2, InsertMediaBack
<1>16. QED
  BY <1>1, <1>2, <1>3, <1>4, <1>5, <1>6, <1>7, <1>8, <1>9, <1>10, <1>11, <1>12, <1>13,
     <1>14, <1>15 DEF IsStep

-----------------------------------------------------------------------------
(* Paths of scripts *)

LEMMA PathNone ==
  ASSUME NEW x
  PROVE  Path(<< >>, x, x)
<1> DEFINE D == [i \in 0 .. 0 |-> x]
           q == << >>
<1>1. D[0] = x /\ Len(q) = 0
  OBVIOUS
<1> HIDE DEF D, q
<1>2. D[Len(q)] = x /\ \A i \in 1 .. Len(q) : Leads(q[i], D[i - 1], D[i])
  BY <1>1
<1>3. Path(q, x, x)
  BY <1>1, <1>2 DEF Path
<1>4. QED
  BY <1>3 DEF q

LEMMA PathOne ==
  ASSUME NEW u, NEW x, NEW y, Leads(u, x, y)
  PROVE  Path(<<u>>, x, y)
<1> DEFINE D == [i \in 0 .. 1 |-> IF i = 0 THEN x ELSE y]
           q == <<u>>
<1>1. D[0] = x /\ D[1] = y /\ Len(q) = 1 /\ q[1] = u
  OBVIOUS
<1> HIDE DEF D, q
<1>2. D[Len(q)] = y /\ \A i \in 1 .. Len(q) : Leads(q[i], D[i - 1], D[i])
  <2>1. ASSUME NEW i \in 1 .. Len(q) PROVE i = 1 /\ i - 1 = 0
    BY <1>1
  <2>2. QED
    BY <1>1, <2>1
<1>3. Path(q, x, y)
  BY <1>1, <1>2 DEF Path
<1>4. QED
  BY <1>3 DEF q

LEMMA GluedAt ==
  ASSUME NEW S, NEW p \in Seq(S), NEW q \in Seq(S)
  PROVE  /\ Len(p) \in Nat /\ Len(q) \in Nat /\ Len(p \o q) = Len(p) + Len(q)
         /\ \A i \in 1 .. Len(p) : (p \o q)[i] = p[i]
         /\ \A i \in 1 .. Len(q) : (p \o q)[Len(p) + i] = q[i]
  OBVIOUS

LEMMA PathCat ==
  ASSUME NEW S, NEW p \in Seq(S), NEW q \in Seq(S), NEW x, NEW y, NEW z,
         Path(p, x, y), Path(q, y, z)
  PROVE  Path(p \o q, x, z)
<1> DEFINE r == p \o q
           m == Len(p)
           n == Len(q)
<1>1. /\ m \in Nat /\ n \in Nat /\ Len(r) = m + n
      /\ \A i \in 1 .. m : r[i] = p[i]
      /\ \A i \in 1 .. n : r[m + i] = q[i]
  BY GluedAt
<1>2. PICK A : A[0] = x /\ A[m] = y /\ \A i \in 1 .. m : Leads(p[i], A[i - 1], A[i])
  BY DEF Path
<1>3. PICK B : B[0] = y /\ B[n] = z /\ \A i \in 1 .. n : Leads(q[i], B[i - 1], B[i])
  BY DEF Path
<1> DEFINE D == [i \in 0 .. m + n |-> IF i <= m THEN A[i] ELSE B[i - m]]
<1>4. /\ \A i \in 0 .. m : D[i] = A[i]
      /\ \A i \in 0 .. n : D[m + i] = B[i]
  <2>1. ASSUME NEW i \in 0 .. n PROVE D[m + i] = B[i]
    <3>1. CASE i = 0
      BY <1>1, <1>2, <1>3, <3>1
    <3>2. CASE i # 0
      BY <1>1, <3>2
    <3>3. QED
      BY <3>1, <3>2
  <2>2. ASSUME NEW i \in 0 .. m PROVE D[i] = A[i]
    BY <1>1
  <2>3. QED
    BY <2>1, <2>2
<1> HIDE DEF D, r, m, n
<1>5. D[0] = x /\ D[Len(r)] = z
  BY <1>1, <1>2, <1>3, <1>4
<1>6. ASSUME NEW i \in 1 .. Len(r) PROVE Leads(r[i], D[i - 1], D[i])
  <2>1. CASE i <= m
    <3>1. i \in 1 .. m /\ i \in 0 .. m /\ i - 1 \in 0 .. m
      BY <1>1, <2>1
    <3>2. QED
      BY <1>1, <1>2, <1>4, <3>1
  <2>2. CASE ~(i <= m)
    <3> DEFINE j == i - m
    <3>1. j \in 1 .. n /\ j \in 0 .. n /\ j - 1 \in 0 .. n /\ m + j = i /\ m + (j - 1) = i - 1
      BY <1>1, <2>2
    <3> HIDE DEF j
    <3>2. r[i] = q[j] /\ D[i] = B[j] /\ D[i - 1] = B[j - 1]
      BY <1>1, <1>4, <3>1
    <3>3. QED
      BY <1>3, <3>1, <3>2
  <2>3. QED
    BY <2>1, <2>2
<1>7. Path(r, x, z)
  BY <1>5, <1>6 DEF Path
<1>8. QED
  BY <1>7 DEF r

(* Running the steps of a path arrives at its end, and the inverse is a     *)
(* path back.                                                               *)
LEMMA RunsAlong ==
  ASSUME NEW C \in SUBSET ClipId, IsFiniteSet(C), NEW T \in SUBSET TrackId,
         NEW M \in SUBSET Media, NEW d, Within(d, C, T, M), NEW q, AreSteps(q, C, T, M),
         NEW y, Path(q, Core(d), y), Solid(y)
  PROVE  LET r == RunUntilFailure(d, q) IN
         /\ IsResult(r, d, C, T, M)
         /\ r.ok /\ Core(r.doc) = y /\ Path(r.inverse, y, Core(d))
<1> DEFINE N == Len(q)
           x == Core(d)
<1>1. /\ DOMAIN q = 1 .. N /\ N \in Nat /\ \A i \in 1 .. N : IsStep(q[i], C, T, M)
  BY StepsAreSteps
<1>2. PICK F : /\ F[0] = Accepted(d, << >>)
               /\ \A i \in 1 .. N : F[i] = Then(F[i - 1], q[i])
               /\ RunUntilFailure(d, q) = F[N]
  BY <1>1, RunFolds
<1>3. PICK D : D[0] = x /\ D[N] = y /\ \A i \in 1 .. N : Leads(q[i], D[i - 1], D[i])
  BY DEF Path
<1>4. \A i \in 0 .. N : Solid(D[i])
  <2>1. ASSUME NEW i \in 0 .. N PROVE Solid(D[i])
    <3>1. CASE i = N
      BY <1>3, <3>1
    <3>2. CASE i # N
      <4> DEFINE j == i + 1
      <4>1. j \in 1 .. N /\ j - 1 = i
        <5>1. \A n \in Nat : \A m \in 0 .. n : m # n => m + 1 \in 1 .. n /\ (m + 1) - 1 = m
          OBVIOUS
        <5>2. N \in Nat /\ i # N /\ i \in 0 .. N
          BY <1>1, <2>1, <3>2
        <5> HIDE DEF N
        <5>3. QED
          BY <5>1, <5>2
      <4> HIDE DEF j
      <4>2. QED
        BY <1>3, <4>1 DEF Leads
    <3>3. QED
      BY <3>1, <3>2
  <2>2. QED
    BY <2>1
<1> DEFINE B == {i \in 0 .. N : /\ IsResult(F[i], d, C, T, M)
                                /\ F[i].ok /\ Core(F[i].doc) = D[i]
                                /\ Path(F[i].inverse, D[i], x)}
<1>5. 0 \in B
  <2>1. IsResult(F[0], d, C, T, M) /\ 0 \in 0 .. N
    BY <1>1, <1>2, AtRest
  <2>2. F[0].ok /\ F[0].doc = d /\ F[0].inverse = << >>
    BY <1>2 DEF Accepted
  <2>3. QED
    BY <1>3, <2>1, <2>2, PathNone
<1>6. ASSUME NEW i \in 1 .. N, i - 1 \in B PROVE i \in B
  <2> DEFINE p == F[i - 1]
             s == q[i]
             v == D[i - 1]
             w == D[i]
             r == RunStep(p.doc, s)
             e == [ok |-> r.ok, doc |-> r.doc, inverse |-> r.inverse \o p.inverse]
  <2>1. /\ IsResult(p, d, C, T, M) /\ p.ok /\ Core(p.doc) = v /\ Path(p.inverse, v, x)
        /\ F[i] = Then(p, s) /\ IsStep(s, C, T, M) /\ i \in 0 .. N
        /\ Leads(s, v, w) /\ Solid(v) /\ Solid(w)
    BY <1>1, <1>2, <1>3, <1>4, <1>6
  <2>2. F[i] = e
    BY <2>1 DEF Then
  <2> HIDE DEF p, s, v, w
  <2>3. Within(p.doc, C, T, M) /\ IsDocument(p.doc) /\ p.doc.pool = v.pool
    BY <2>1, CoreFields DEF IsResult, Within
  <2>4. r.ok /\ Core(r.doc) = w
    BY <2>1, <2>3 DEF Leads
  <2>5. Reverts(r, p.doc)
    BY <2>1, <2>3, <2>4, StepReverts DEF Leads
  <2>6. IsOutcome(r, p.doc, C, T, M)
    BY <2>1, <2>3, RunStepOutcome
  <2> HIDE DEF r
  <2>7. PICK u : r.inverse = <<u>> /\ Leads(u, w, v)
    BY <2>1, <2>4, <2>5 DEF Reverts
  <2>8. Path(r.inverse, w, v)
    BY <2>7, PathOne
  <2> DEFINE a == r.inverse
             b == p.inverse
             S == ToSet(a) \cup ToSet(b)
  <2>9. AreSteps(a, C, T, M) /\ AreSteps(b, C, T, M)
    BY <2>1, <2>4, <2>6 DEF IsResult, IsOutcome
  <2>10. a \in Seq(S) /\ b \in Seq(S)
    BY <2>9, SeqMonotonic DEF AreSteps
  <2> HIDE DEF S
  <2>11. Path(a \o b, w, x)
    BY <2>1, <2>8, <2>10, PathCat
  <2>12. AreSteps(a \o b, C, T, M)
    BY <2>9, MoreSteps
  <2>13. IsResult(e, d, C, T, M)
    BY <2>1, <2>4, <2>6, <2>12 DEF IsResult, IsOutcome
  <2>14. e.ok /\ e.doc = r.doc /\ e.inverse = a \o b
    BY <2>4
  <2>15. QED
    BY <2>1, <2>2, <2>4, <2>11, <2>13, <2>14 DEF w
<1>7. N \in B
  <2> HIDE DEF B
  <2>1. 0 .. N \subseteq B
    BY <1>1, <1>5, <1>6, Climb
  <2>2. QED
    BY <2>1, <1>1
<1>8. QED
  BY <1>1, <1>2, <1>3, <1>7

LEMMA RunAlong ==
  ASSUME NEW C \in SUBSET ClipId, IsFiniteSet(C), NEW T \in SUBSET TrackId,
         NEW M \in SUBSET Media, NEW d, Within(d, C, T, M), NEW q, AreSteps(q, C, T, M),
         NEW y, Path(q, Core(d), y), Solid(y)
  PROVE  LET r == Run(d, q) IN
         /\ IsResult(r, d, C, T, M)
         /\ r.ok /\ Core(r.doc) = y /\ Path(r.inverse, y, Core(d))
<1> DEFINE r == RunUntilFailure(d, q)
           u == RunUntilFailure(r.doc, r.inverse)
<1>1. IsResult(r, d, C, T, M) /\ r.ok /\ Core(r.doc) = y /\ Path(r.inverse, y, Core(d))
  BY RunsAlong
<1>2. Run(d, q) = IF r.ok THEN r ELSE Rejected(u.doc)
  BY DEF Run
<1> HIDE DEF r, u
<1>3. QED
  BY <1>1, <1>2

LEMMA PathSteps ==
  ASSUME NEW C, NEW T, NEW M, NEW p, AreSteps(p, C, T, M), NEW q, AreSteps(q, C, T, M),
         NEW x, NEW y, NEW z, Path(p, x, y), Path(q, y, z)
  PROVE  Path(p \o q, x, z)
<1> DEFINE S == ToSet(p) \cup ToSet(q)
<1>1. p \in Seq(S) /\ q \in Seq(S)
  BY SeqMonotonic DEF AreSteps
<1> HIDE DEF S
<1>2. QED
  BY <1>1, PathCat

-----------------------------------------------------------------------------
(* What each edit leaves *)

(* What Solid asks of one clip and of two.                                  *)
Sits(d, k) ==
  /\ k.start >= 0
  /\ Accepts(d.tracks[k.track].kind, k.content)
  /\ IsMedia(k) => WindowFits(k.in, k.len) /\ k.content \in d.pool

Clear(k, l) == l.track = k.track => ~Overlaps(l, k)

LEMMA ClearBoth ==
  ASSUME NEW k, NEW l
  PROVE  Clear(k, l) <=> Clear(l, k)
  BY DEF Clear, Overlaps

LEMMA SolidParts ==
  ASSUME NEW d, IsDocument(d)
  PROVE  Solid(Core(d)) <=>
           /\ \A c \in Placed(d) : Sits(d, d.clips[c])
           /\ \A c \in Placed(d) : \A b \in Placed(d) \ {c} : Clear(d.clips[c], d.clips[b])
           /\ Tidy => IsZoned(d)
<1> DEFINE P(c) == LET k == d.clips[c] IN
                   /\ k.start >= 0
                   /\ Accepts(Core(d).stack.lanes[k.track].kind, k.content)
                   /\ IsMedia(k) => WindowFits(k.in, k.len) /\ k.content \in d.pool
                   /\ \A b \in Placed(d) \ {c} : d.clips[b].track = k.track => ~Overlaps(d.clips[b], k)
           Z == \A e : Tidy /\ IsDocument(e) /\ Core(e) = Core(d) => IsZoned(e)
<1>1. Solid(Core(d)) <=> (\A c \in Placed(d) : P(c)) /\ Z
  BY CoreFields DEF Solid, Placed
<1>2. ASSUME NEW c \in Placed(d)
      PROVE  P(c) <=> Sits(d, d.clips[c]) /\ \A b \in Placed(d) \ {c} : Clear(d.clips[c], d.clips[b])
  <2> DEFINE k == d.clips[c]
  <2>1. k.track \in Lanes(d)
    BY OwnIds
  <2>2. Core(d).stack.lanes[k.track].kind = d.tracks[k.track].kind
    BY <2>1, CoreFields
  <2> HIDE DEF k
  <2>3. QED
    BY <2>2 DEF Sits, Clear, k
<1>3. Z <=> (Tidy => IsZoned(d))
  BY SolidZoned, Zenon
<1> HIDE DEF P, Z
<1>4. QED
  BY <1>1, <1>2, <1>3

(* Zones are a matter of the lanes alone.                                   *)
LEMMA StackZoned ==
  ASSUME NEW d, NEW e, Stack(e) = Stack(d), Tidy => IsZoned(d)
  PROVE  Tidy => IsZoned(e)
<1>1. ASSUME Tidy PROVE IsZoned(e)
  <2>1. e.order = d.order /\ e.tracks = d.tracks /\ Lanes(e) = Lanes(d)
    BY <1>1, SameStack
  <2>2. \A t : Zone(e, t) = Zone(d, t)
    BY <2>1 DEF Zone
  <2>3. MainTracks(e) = MainTracks(d) /\ VideoLanes(e) = VideoLanes(d)
    BY <2>1 DEF MainTracks, VideoLanes
  <2>4. QED
    BY <1>1, <2>1, <2>2, <2>3 DEF IsZoned
<1>2. QED
  BY <1>1

LEMMA OverlapParts ==
  ASSUME NEW d, NEW k, NEW S
  PROVE  ~HasOverlap(d, k.track, k, S) <=> \A x \in Placed(d) \ S : Clear(k, d.clips[x])
  BY DEF HasOverlap, ClipsOn, Clear

(* e keeps some of the clips of d, on lanes of the same kind.               *)
LEMMA SolidFewer ==
  ASSUME NEW d, IsDocument(d), Solid(Core(d)),
         NEW e, IsDocument(e), Placed(e) \subseteq Placed(d),
         \A c \in Placed(e) : /\ e.clips[c] = d.clips[c]
                              /\ e.tracks[d.clips[c].track].kind = d.tracks[d.clips[c].track].kind
                              /\ d.clips[c].content \in d.pool => d.clips[c].content \in e.pool,
         Tidy /\ IsZoned(d) => IsZoned(e)
  PROVE  Solid(Core(e))
<1>1. /\ \A c \in Placed(d) : Sits(d, d.clips[c])
      /\ \A c \in Placed(d) : \A b \in Placed(d) \ {c} : Clear(d.clips[c], d.clips[b])
      /\ Tidy => IsZoned(d)
  BY SolidParts
<1>2. ASSUME NEW c \in Placed(e) PROVE Sits(e, e.clips[c])
  <2>1. /\ e.clips[c] = d.clips[c] /\ Sits(d, d.clips[c])
        /\ e.tracks[d.clips[c].track].kind = d.tracks[d.clips[c].track].kind
        /\ d.clips[c].content \in d.pool => d.clips[c].content \in e.pool
    BY <1>1
  <2> DEFINE k == d.clips[c]
  <2> HIDE DEF k
  <2>2. QED
    BY <2>1 DEF Sits, k
<1>3. \A c \in Placed(e) : \A b \in Placed(e) \ {c} : Clear(e.clips[c], e.clips[b])
  <2>1. ASSUME NEW c \in Placed(e), NEW b \in Placed(e) \ {c} PROVE Clear(e.clips[c], e.clips[b])
    <3>1. e.clips[c] = d.clips[c] /\ e.clips[b] = d.clips[b] /\ c \in Placed(d) /\ b \in Placed(d) \ {c}
      OBVIOUS
    <3>2. QED
      BY <1>1, <3>1
  <2>2. QED
    BY <2>1
<1>4. QED
  BY <1>1, <1>2, <1>3, SolidParts

LEMMA SolidWith ==
  ASSUME NEW d, IsDocument(d), Solid(Core(d)), NEW c \in ClipId, NEW k \in Clip,
         k.track \in Lanes(d), Sits(d, k), \A x \in Placed(d) \ {c} : Clear(k, d.clips[x])
  PROVE  Solid(Core(WithClip(d, c, k)))
<1> DEFINE e == WithClip(d, c, k)
<1>1. /\ IsDocument(e) /\ Placed(e) = Placed(d) \cup {c} /\ e.clips[c] = k
      /\ \A x \in Placed(d) \ {c} : e.clips[x] = d.clips[x]
      /\ e.tracks = d.tracks /\ e.pool = d.pool /\ Stack(e) = Stack(d)
  BY Clipped
<1> HIDE DEF e
<1>2. /\ \A x \in Placed(d) : Sits(d, d.clips[x])
      /\ \A x \in Placed(d) : \A b \in Placed(d) \ {x} : Clear(d.clips[x], d.clips[b])
      /\ Tidy => IsZoned(d)
  BY SolidParts
<1>3. \A l : Sits(e, l) <=> Sits(d, l)
  BY <1>1 DEF Sits
<1>4. \A x \in Placed(e) : Sits(e, e.clips[x])
  BY <1>1, <1>2, <1>3
<1>5. ASSUME NEW x \in Placed(e), NEW b \in Placed(e) \ {x} PROVE Clear(e.clips[x], e.clips[b])
  <2>1. CASE x = c
    BY <1>1, <2>1
  <2>2. CASE b = c
    BY <1>1, <2>2, ClearBoth
  <2>3. CASE x # c /\ b # c
    BY <1>1, <1>2, <2>3
  <2>4. QED
    BY <2>1, <2>2, <2>3
<1>8. Tidy => IsZoned(e)
  BY <1>1, <1>2, StackZoned
<1>6. Solid(Core(e))
  BY <1>1, <1>4, <1>5, <1>8, SolidParts
<1>7. QED
  BY <1>6 DEF e

(* What an edit must leave: an accepted one a solid document and a path     *)
(* back, a rejected one the document it was given.                          *)
Edited(r, d) ==
  IF r.ok THEN Solid(Core(r.doc)) /\ Path(r.inverse, Core(r.doc), Core(d)) ELSE r.doc = d

LEMMA EditedBy ==
  ASSUME NEW r, NEW d, r.ok \in BOOLEAN,
         r.ok => Solid(Core(r.doc)) /\ Reverts(r, d), ~r.ok => r.doc = d
  PROVE  Edited(r, d)
<1>1. CASE r.ok
  <2>1. PICK u : r.inverse = <<u>> /\ Leads(u, Core(r.doc), Core(d))
    BY <1>1 DEF Reverts
  <2>2. Path(r.inverse, Core(r.doc), Core(d))
    BY <2>1, PathOne
  <2>3. QED
    BY <1>1, <2>2 DEF Edited
<1>2. CASE ~r.ok
  BY <1>2 DEF Edited
<1>3. QED
  BY <1>1, <1>2

LEMMA EditedTry ==
  ASSUME NEW d, NEW f, NEW u, NEW guard \in BOOLEAN,
         guard => Solid(Core(f)),
         Try(guard, d, f, u).ok /\ Solid(Core(Try(guard, d, f, u).doc)) => Reverts(Try(guard, d, f, u), d)
  PROVE  Edited(Try(guard, d, f, u), d)
<1> DEFINE r == Try(guard, d, f, u)
           q == <<u>>
<1>1. r = IF guard THEN Accepted(f, q) ELSE Rejected(d)
  BY DEF Try
<1>0. r.ok /\ Solid(Core(r.doc)) => Reverts(r, d)
  OBVIOUS
<1> HIDE DEF r, q
<1>2. CASE guard
  <2>1. r = Accepted(f, q)
    BY <1>1, <1>2
  <2>2. r.ok = TRUE /\ r.doc = f
    BY <2>1 DEF Accepted
  <2>3. Edited(r, d)
    <3>1. Solid(Core(r.doc))
      BY <1>2, <2>2
    <3>2. Reverts(r, d)
      BY <1>0, <2>2, <3>1
    <3>3. r.ok \in BOOLEAN /\ (~r.ok => r.doc = d)
      BY <2>2
    <3>4. QED
      BY <3>1, <3>2, <3>3, EditedBy
  <2>4. QED
    BY <2>3 DEF r
<1>3. CASE ~guard
  <2>1. r = Rejected(d)
    BY <1>1, <1>3
  <2>2. r.ok = FALSE /\ r.doc = d
    BY <2>1 DEF Rejected
  <2>3. Edited(r, d)
    BY <2>2 DEF Edited
  <2>4. QED
    BY <2>3 DEF r
<1>4. QED
  BY <1>2, <1>3

LEMMA EditedNot ==
  ASSUME NEW d
  PROVE  Edited(Rejected(d), d)
  BY OutcomeFacts DEF Edited

LEMMA InsertClipEdited ==
  ASSUME NEW d, IsDocument(d), Solid(Core(d)), NEW c \in ClipId, NEW k \in Clip, k.start >= 0,
         IsMedia(k) => WindowFits(k.in, k.len) /\ k.content \in d.pool
  PROVE  Edited(InsertClip(d, c, k), d)
<1> DEFINE u == [op |-> "RemoveClip", id |-> c]
           f == WithClip(d, c, k)
           guard == CanAdd(d, c, k)
<1>1. InsertClip(d, c, k) = Try(guard, d, f, u)
  BY DEF InsertClip
<1>2. guard \in BOOLEAN
  BY DEF CanAdd
<1>3. guard => Solid(Core(f))
  <2>1. ASSUME guard PROVE Solid(Core(f))
    <3>1. /\ k.track \in Lanes(d) /\ Accepts(d.tracks[k.track].kind, k.content)
          /\ ~HasOverlap(d, k.track, k, {})
      BY <2>1 DEF CanAdd
    <3>2. Sits(d, k)
      BY <3>1 DEF Sits
    <3>3. \A x \in Placed(d) \ {c} : Clear(k, d.clips[x])
      <4>1. \A x \in Placed(d) \ {} : Clear(k, d.clips[x])
        BY <3>1, OverlapParts
      <4>2. QED
        BY <4>1
    <3>4. QED
      BY <3>1, <3>2, <3>3, SolidWith
  <2>2. QED
    BY <2>1
<1>4. InsertClip(d, c, k).ok /\ Solid(Core(InsertClip(d, c, k).doc)) => Reverts(InsertClip(d, c, k), d)
  BY InsertClipBack
<1> HIDE DEF u, f, guard
<1>5. Edited(Try(guard, d, f, u), d)
  BY <1>1, <1>2, <1>3, <1>4, EditedTry
<1>6. QED
  BY <1>1, <1>5

LEMMA RemoveClipEdited ==
  ASSUME NEW d, IsDocument(d), Solid(Core(d)), NEW c
  PROVE  Edited(RemoveClip(d, c), d)
<1> DEFINE u == [op |-> "InsertClip", id |-> c, clip |-> d.clips[c]]
           f == WithoutClip(d, c)
           guard == c \in Placed(d)
<1>1. RemoveClip(d, c) = Try(guard, d, f, u)
  BY DEF RemoveClip
<1>2. guard \in BOOLEAN
  BY DEF CanAdd
<1>3. guard => Solid(Core(f))
  <2>1. /\ IsDocument(f) /\ Placed(f) \subseteq Placed(d) /\ f.tracks = d.tracks /\ f.pool = d.pool
        /\ \A x \in Placed(f) : f.clips[x] = d.clips[x]
        /\ Stack(f) = Stack(d)
    BY Unclipped
  <2> HIDE DEF f
  <2>2. Tidy /\ IsZoned(d) => IsZoned(f)
    BY <2>1, StackZoned
  <2>3. QED
    BY <2>1, <2>2, SolidFewer
<1>4. RemoveClip(d, c).ok /\ Solid(Core(RemoveClip(d, c).doc)) => Reverts(RemoveClip(d, c), d)
  BY RemoveClipBack
<1> HIDE DEF u, f, guard
<1>5. Edited(Try(guard, d, f, u), d)
  BY <1>1, <1>2, <1>3, <1>4, EditedTry
<1>6. QED
  BY <1>1, <1>5

LEMMA MoveClipEdited ==
  ASSUME NEW d, IsDocument(d), Solid(Core(d)), NEW c, NEW t, NEW start \in Int
  PROVE  Edited(MoveClip(d, c, t, start), d)
<1> DEFINE u == [op |-> "MoveClip", id |-> c, lane |-> d.clips[c].track, start |-> d.clips[c].start]
           f == WithClip(d, c, [d.clips[c] EXCEPT !.track = t, !.start = start])
           guard == /\ start >= 0
                    /\ c \in Placed(d)
                    /\ t \in Lanes(d)
                    /\ Accepts(d.tracks[t].kind, [d.clips[c] EXCEPT !.track = t, !.start = start].content)
                    /\ ~HasOverlap(d, t, [d.clips[c] EXCEPT !.track = t, !.start = start], {c})
<1>1. MoveClip(d, c, t, start) = Try(guard, d, f, u)
  BY DEF MoveClip
<1>2. guard \in BOOLEAN
  BY DEF CanAdd
<1>3. guard => Solid(Core(f))
  <2>1. ASSUME guard PROVE Solid(Core(f))
    <3> DEFINE k == [d.clips[c] EXCEPT !.track = t, !.start = start]
    <3>1. /\ start >= 0 /\ c \in Placed(d) /\ t \in Lanes(d) /\ Accepts(d.tracks[t].kind, k.content)
          /\ ~HasOverlap(d, t, k, {c})
      BY <2>1
    <3>2. c \in ClipId /\ t \in TrackId /\ d.clips[c] \in Clip /\ Sits(d, d.clips[c])
      BY <3>1, OwnIds, SolidParts
    <3>3. Put(k, d.clips[c], t, start)
      BY <3>2, PutClip
    <3>4. f = WithClip(d, c, k)
      OBVIOUS
    <3> HIDE DEF k, f
    <3>5. k \in Clip /\ k.track = t
      BY <3>3 DEF Put
    <3>6. Sits(d, k)
      BY <3>1, <3>2, <3>3 DEF Sits, Put, IsMedia
    <3>7. \A x \in Placed(d) \ {c} : Clear(k, d.clips[x])
      BY <3>1, <3>5, OverlapParts
    <3>8. QED
      BY <3>1, <3>2, <3>4, <3>5, <3>6, <3>7, SolidWith
  <2>2. QED
    BY <2>1
<1>4. MoveClip(d, c, t, start).ok /\ Solid(Core(MoveClip(d, c, t, start).doc)) => Reverts(MoveClip(d, c, t, start), d)
  BY MoveClipBack
<1> HIDE DEF u, f, guard
<1>5. Edited(Try(guard, d, f, u), d)
  BY <1>1, <1>2, <1>3, <1>4, EditedTry
<1>6. QED
  BY <1>1, <1>5

LEMMA ReplaceEdited ==
  ASSUME NEW d, IsDocument(d), Solid(Core(d)), NEW c \in Placed(d), NEW k \in Clip,
         k.track = d.clips[c].track, k.content = d.clips[c].content, k.start >= 0,
         IsMedia(k) => WindowFits(k.in, k.len)
  PROVE  Edited(Replace(d, c, k), d)
<1>1. c \in ClipId /\ d.clips[c] \in Clip /\ d.clips[c].track \in Lanes(d) /\ Sits(d, d.clips[c])
  BY OwnIds, SolidParts
<1>2. CASE HasOverlap(d, k.track, k, {c})
  <2>1. Replace(d, c, k) = Rejected(d)
    BY <1>2 DEF Replace
  <2>2. QED
    BY <2>1, EditedNot
<1>3. CASE ~HasOverlap(d, k.track, k, {c})
  <2> DEFINE u == [op |-> "RestoreClip", id |-> c, clip |-> d.clips[c]]
             f == WithClip(d, c, [k EXCEPT !.track = d.clips[c].track])
             guard == c \in Placed(d)
             r == RestoreClip(d, c, k)
  <2>1. r = Try(guard, d, f, u)
    BY DEF RestoreClip
  <2>2. f = WithClip(d, c, k)
    <3>1. [k EXCEPT !.track = d.clips[c].track] = k
      BY <1>1, OwnLane
    <3>2. QED
      BY <3>1
  <2>3. r.ok /\ Solid(Core(r.doc)) => Reverts(r, d)
    BY RestoreClipBack
  <2>4. guard \in BOOLEAN
    OBVIOUS
  <2> HIDE DEF u, f, guard
  <2>5. Solid(Core(f))
    <3>1. Sits(d, k)
      BY <1>1 DEF Sits, IsMedia
    <3>2. \A x \in Placed(d) \ {c} : Clear(k, d.clips[x])
      BY <1>3, OverlapParts
    <3>3. QED
      BY <1>1, <2>2, <3>1, <3>2, SolidWith
  <2>6. Edited(Try(guard, d, f, u), d)
    BY <2>1, <2>3, <2>4, <2>5, EditedTry
  <2>7. Replace(d, c, k) = r
    BY <1>3 DEF Replace
  <2>8. QED
    BY <2>1, <2>6, <2>7
<1>4. QED
  BY <1>2, <1>3

(* A lane less, solid as before.                                            *)
LEMMA DropsSolid ==
  ASSUME NEW d, IsDocument(d), Solid(Core(d)), NEW t \in Lanes(d)
  PROVE  Solid(Core(DropTrack(d, t)))
<1> DEFINE f == DropTrack(d, t)
<1>1. Dropped(f, d, t)
  BY StackedFacts, DropsLane
<1>2. IsDocument(f)
  BY DroppedDocument
<1>3. IsZoned(d) => IsZoned(f)
  BY StackedFacts, DropTrackFacts
<1> HIDE DEF f
<1>4. /\ Lanes(f) = Lanes(d) \ {t} /\ f.pool = d.pool
      /\ Placed(f) = {c \in Placed(d) : d.clips[c].track # t}
      /\ \A c \in Placed(f) : f.clips[c] = d.clips[c]
      /\ \A u \in Lanes(f) : f.tracks[u].kind = d.tracks[u].kind
  BY <1>1 DEF Dropped, Restrict, Placed
<1>5. \A c \in Placed(f) : d.clips[c].track \in Lanes(f)
  BY <1>4, OwnIds
<1>6. Solid(Core(f))
  BY <1>2, <1>3, <1>4, <1>5, SolidFewer
<1>7. QED
  BY <1>6 DEF f

LEMMA RemoveTrackEdited ==
  ASSUME NEW d, IsDocument(d), Solid(Core(d)), NEW t, Removable(d, t)
  PROVE  Edited(RemoveTrack(d, t), d)
<1> DEFINE u == [op |-> "InsertTrack", id |-> t, track |-> d.tracks[t],
                 index |-> IndexOf(d, t), held |-> Restrict(d.clips, ClipsOn(d, t))]
           f == DropTrack(d, t)
           guard == t \in Lanes(d)
<1>1. RemoveTrack(d, t) = Try(guard, d, f, u)
  BY DEF RemoveTrack
<1>2. guard \in BOOLEAN
  BY DEF CanAdd
<1>3. guard => Solid(Core(f))
  BY DropsSolid
<1>4. RemoveTrack(d, t).ok /\ Solid(Core(RemoveTrack(d, t).doc)) => Reverts(RemoveTrack(d, t), d)
  BY RemoveTrackBack
<1> HIDE DEF u, f, guard
<1>5. Edited(Try(guard, d, f, u), d)
  BY <1>1, <1>2, <1>3, <1>4, EditedTry
<1>6. QED
  BY <1>1, <1>5

LEMMA RepoolsDocument ==
  ASSUME NEW d, IsDocument(d), NEW p \in SUBSET Media
  PROVE  LET e == [d EXCEPT !.pool = p] IN
         /\ IsDocument(e) /\ e.clips = d.clips /\ e.tracks = d.tracks /\ e.pool = p /\ Lanes(e) = Lanes(d)
         /\ Stack(e) = Stack(d)
<1> DEFINE e == [d EXCEPT !.pool = p]
<1>1. Within(d, ClipId, TrackId, Media)
  BY AnyIds
<1>2. Within(e, ClipId, TrackId, Media) /\ e.clips = d.clips /\ e.tracks = d.tracks /\ e.pool = p
      /\ Lanes(e) = Lanes(d)
  BY <1>1, RepoolWithin
<1>3. e.order = d.order
  BY StackedFacts, RepooledFacts DEF IsStacked
<1> HIDE DEF e
<1>4. Stack(e) = Stack(d)
  BY <1>2, <1>3, StackKept
<1>5. IsDocument(e)
  BY <1>2 DEF Within
<1>6. QED
  BY <1>2, <1>4, <1>5 DEF e

LEMMA RemoveMediaEdited ==
  ASSUME NEW d, IsDocument(d), Solid(Core(d)), NEW m
  PROVE  Edited(RemoveMedia(d, m), d)
<1> DEFINE u == [op |-> "InsertMedia", medium |-> m]
           f == [d EXCEPT !.pool = @ \ {m}]
           guard == m \in d.pool /\ ~IsReferenced(d, m)
<1>1. RemoveMedia(d, m) = Try(guard, d, f, u)
  BY DEF RemoveMedia
<1>2. guard \in BOOLEAN
  BY DEF CanAdd
<1>3. guard => Solid(Core(f))
  <2>1. ASSUME guard PROVE Solid(Core(f))
    <3>1. /\ IsDocument(f) /\ f.clips = d.clips /\ f.tracks = d.tracks /\ f.pool = d.pool \ {m}
          /\ Stack(f) = Stack(d)
      <4> DEFINE p == d.pool \ {m}
      <4>1. p \in SUBSET Media
        BY OwnIds
      <4>2. f = [d EXCEPT !.pool = p]
        OBVIOUS
      <4> HIDE DEF p, f
      <4>3. IsDocument(f) /\ f.clips = d.clips /\ f.tracks = d.tracks /\ f.pool = p /\ Stack(f) = Stack(d)
        BY <4>1, <4>2, RepoolsDocument
      <4>4. QED
        BY <4>3 DEF p
    <3> HIDE DEF f
    <3>2. \A c \in Placed(d) : d.clips[c].content # m
      BY <2>1 DEF IsReferenced
    <3>3. Placed(f) = Placed(d)
      BY <3>1 DEF Placed
    <3>4. Tidy /\ IsZoned(d) => IsZoned(f)
      BY <3>1, StackZoned
    <3>5. QED
      BY <3>1, <3>2, <3>3, <3>4, SolidFewer
  <2>2. QED
    BY <2>1
<1>4. RemoveMedia(d, m).ok /\ Solid(Core(RemoveMedia(d, m).doc)) => Reverts(RemoveMedia(d, m), d)
  BY RemoveMediaBack
<1> HIDE DEF u, f, guard
<1>5. Edited(Try(guard, d, f, u), d)
  BY <1>1, <1>2, <1>3, <1>4, EditedTry
<1>6. QED
  BY <1>1, <1>5

LEMMA AddClipEdited ==
  ASSUME NEW d, IsDocument(d), Solid(Core(d)), NEW c \in ClipId, NEW t \in TrackId, NEW m \in Media,
         NEW in \in Int, NEW len \in Int, NEW start \in Nat
  PROVE  Edited(AddClip(d, c, t, m, in, len, start), d)
<1> DEFINE k == MediaClip(t, m, in, len, start)
           guard == m \in d.pool /\ WindowFits(in, len)
<1>1. AddClip(d, c, t, m, in, len, start) = IF guard THEN InsertClip(d, c, k) ELSE Rejected(d)
  BY DEF AddClip
<1>2. ASSUME guard PROVE Edited(InsertClip(d, c, k), d)
  <2>1. k \in Clip /\ k.start >= 0 /\ k.in = in /\ k.len = len /\ k.content = m
    BY <1>2 DEF WindowFits, MediaClip, Clip, Content
  <2> HIDE DEF k
  <2>2. QED
    BY <1>2, <2>1, InsertClipEdited
<1> HIDE DEF guard, k
<1>3. QED
  BY <1>1, <1>2, EditedNot

LEMMA AddGeneratedEdited ==
  ASSUME NEW d, IsDocument(d), Solid(Core(d)), NEW c \in ClipId, NEW t \in TrackId,
         NEW content \in Generated, content \notin Media,
         NEW start \in Nat, NEW dur \in Int
  PROVE  Edited(AddGenerated(d, c, t, content, start, dur), d)
<1> DEFINE k == GeneratedClip(t, content, start, dur)
<1>1. AddGenerated(d, c, t, content, start, dur) = IF dur > 0 THEN InsertClip(d, c, k) ELSE Rejected(d)
  BY DEF AddGenerated
<1>2. ASSUME dur > 0 PROVE Edited(InsertClip(d, c, k), d)
  <2>1. k \in Clip /\ k.start >= 0 /\ k.content = content
    BY <1>2 DEF GeneratedClip, Clip, Content
  <2> HIDE DEF k
  <2>2. QED
    BY <2>1, InsertClipEdited DEF IsMedia
<1> HIDE DEF k
<1>3. QED
  BY <1>1, <1>2, EditedNot

LEMMA DuplicateClipEdited ==
  ASSUME NEW d, IsDocument(d), Solid(Core(d)), NEW c \in ClipId, NEW of, NEW t \in TrackId, NEW start \in Int
  PROVE  Edited(DuplicateClip(d, c, of, t, start), d)
<1> DEFINE k == [d.clips[of] EXCEPT !.track = t, !.start = start]
           guard == start >= 0 /\ of \in Placed(d)
<1>1. DuplicateClip(d, c, of, t, start) = IF guard THEN InsertClip(d, c, k) ELSE Rejected(d)
  BY DEF DuplicateClip
<1>2. ASSUME guard PROVE Edited(InsertClip(d, c, k), d)
  <2>1. d.clips[of] \in Clip /\ Sits(d, d.clips[of])
    BY <1>2, OwnIds, SolidParts
  <2>2. Put(k, d.clips[of], t, start)
    BY <2>1, PutClip
  <2> HIDE DEF k
  <2>3. k \in Clip /\ k.start >= 0 /\ (IsMedia(k) => WindowFits(k.in, k.len) /\ k.content \in d.pool)
    BY <1>2, <2>1, <2>2 DEF Put, Sits, IsMedia
  <2>4. QED
    BY <2>3, InsertClipEdited
<1> HIDE DEF guard, k
<1>3. QED
  BY <1>1, <1>2, EditedNot

LEMMA TrimClipEdited ==
  ASSUME NEW d, IsDocument(d), Solid(Core(d)), NEW c, NEW start \in Nat, NEW dur \in Int
  PROVE  Edited(TrimClip(d, c, start, dur), d)
<1> DEFINE k == Trimmed(d.clips[c], start, dur)
           guard == c \in Placed(d) /\ dur > 0 /\ (IsMedia(k) => WindowFits(k.in, k.len))
<1>1. TrimClip(d, c, start, dur) = IF guard THEN Replace(d, c, k) ELSE Rejected(d)
  BY DEF TrimClip
<1>2. ASSUME guard PROVE Edited(Replace(d, c, k), d)
  <2>1. c \in Placed(d) /\ d.clips[c] \in Clip /\ dur \in Nat \ {0}
    BY <1>2, OwnIds
  <2>2. LET l == Trimmed(d.clips[c], start, dur) IN IsMedia(l) => WindowFits(l.in, l.len)
    BY <1>2
  <2>3. /\ k \in Clip /\ k.track = d.clips[c].track /\ k.content = d.clips[c].content /\ k.start = start
    BY <2>1, <2>2, TrimmedFacts
  <2>4. IsMedia(k) => WindowFits(k.in, k.len)
    BY <1>2
  <2> HIDE DEF k
  <2>5. k.start >= 0
    BY <2>3
  <2>6. QED
    BY <2>1, <2>3, <2>4, <2>5, ReplaceEdited
<1> HIDE DEF k, guard
<1>3. QED
  BY <1>1, <1>2, EditedNot

LEMMA SetClipSpeedEdited ==
  ASSUME NEW d, IsDocument(d), Solid(Core(d)), NEW c, NEW speed \in Int
  PROVE  Edited(SetClipSpeed(d, c, speed), d)
<1> DEFINE k == Retimed(d.clips[c], speed)
           guard == c \in Placed(d) /\ speed > 0 /\ IsMedia(d.clips[c])
<1>1. SetClipSpeed(d, c, speed) = IF guard THEN Replace(d, c, k) ELSE Rejected(d)
  BY DEF SetClipSpeed
<1>2. ASSUME guard PROVE Edited(Replace(d, c, k), d)
  <2>1. c \in Placed(d) /\ d.clips[c] \in Clip /\ speed \in Nat \ {0} /\ Sits(d, d.clips[c])
    BY <1>2, OwnIds, SolidParts
  <2>2. /\ k \in Clip /\ k.track = d.clips[c].track /\ k.content = d.clips[c].content
        /\ k.start = d.clips[c].start /\ k.in = d.clips[c].in /\ k.len = d.clips[c].len
    BY <2>1, RetimedFacts
  <2> HIDE DEF k
  <2>3. k.start >= 0 /\ (IsMedia(k) => WindowFits(k.in, k.len))
    BY <2>1, <2>2 DEF Sits, IsMedia
  <2>4. QED
    BY <2>1, <2>2, <2>3, ReplaceEdited
<1> HIDE DEF k, guard
<1>3. QED
  BY <1>1, <1>2, EditedNot

LEMMA MoveTrackEdited ==
  ASSUME NEW d, IsDocument(d), Solid(Core(d)), NEW t \in Lanes(d), NEW index \in Nat \ {0}
  PROVE  Edited(MoveTrack(d, t, index), d)
<1> DEFINE u == [op |-> "MoveTrack", id |-> t, from |-> IndexOf(d, t), to |-> index]
           f == Reorder(d, t, index)
           guard == t \in Lanes(d)
           r == MoveTrack(d, t, index)
<1>1. r = Try(guard, d, f, u)
  BY DEF MoveTrack
<1>2. Solid(Core(f))
  <2>1. IsDocument(f)
    BY ReorderedDocument
  <2>2. Restacked(d, f) /\ f.tracks = d.tracks /\ (IsZoned(d) => IsZoned(f))
    BY StackedFacts, ReorderFacts
  <2> HIDE DEF f
  <2>3. f.clips = d.clips /\ f.pool = d.pool /\ Placed(f) = Placed(d)
    BY <2>2 DEF Restacked, Placed
  <2>4. QED
    BY <2>1, <2>2, <2>3, SolidFewer
<1>3. r.ok /\ Solid(Core(r.doc)) => Reverts(r, d)
  BY MoveTrackBack
<1>4. guard \in BOOLEAN
  OBVIOUS
<1> HIDE DEF u, f, guard, r
<1>5. Edited(Try(guard, d, f, u), d)
  BY <1>1, <1>2, <1>3, <1>4, EditedTry
<1>6. QED
  BY <1>1, <1>5 DEF r

(* A new lane is main only when it is the only video lane.                  *)
LEMMA InsertsPlain ==
  ASSUME NEW d, IsStacked(d), IsZoned(d), NEW t \in TrackId, t \notin Lanes(d),
         NEW track, IsTrack(track), ~track.main, NEW index \in Nat \ {0}
  PROVE  LET f == InsertTrack(d, t, track, index) IN
         f.tracks[t].main => VideoLanes(f) = {t}
<1> DEFINE m == WithLane(d, t, track, index)
           n == DesignateMain(m)
           f == InsertTrack(d, t, track, index)
<1>1. IsStacked(f) /\ IsZoned(f) /\ Lanes(f) = Lanes(d) \cup {t}
      /\ \A u \in Lanes(d) : f.tracks[u].kind = d.tracks[u].kind
  BY InsertTrackFacts
<1>2. /\ f = NormalizeLanes(m)
      /\ IsStacked(m) /\ Lanes(m) = Lanes(d) \cup {t}
      /\ m.tracks[t] = track /\ \A u \in Lanes(d) : m.tracks[u] = d.tracks[u]
  BY WithLaneFacts
<1> HIDE DEF m
<1>3. IsStacked(n)
  BY <1>2, DesignateFacts
<1>4. \A v : Claims(m, v) => \A u \in Lanes(m) : n.tracks[u].main <=> u = v
  BY <1>2, Designated
<1> HIDE DEF n
<1>5. f.tracks = n.tracks
  <2>1. EnforceLaneZones(n).tracks = n.tracks
    BY <1>3, EnforceFacts
  <2>2. QED
    BY <1>2, <2>1 DEF NormalizeLanes, n
<1> HIDE DEF f
<1>6. OneMain(d)
  BY MainZones
<1>7. ASSUME f.tracks[t].main, VideoLanes(d) # {} PROVE FALSE
  <2>1. PICK w \in VideoLanes(d) : MainTracks(d) = {w}
    BY <1>6, <1>7, TheMain
  <2>2. w \in VideoLanes(m) \cap MainTracks(m) /\ t \notin MainTracks(m)
    <3>1. w \in Lanes(d) /\ d.tracks[w].main /\ d.tracks[w].kind = "video"
      BY <2>1 DEF MainTracks, VideoLanes
    <3>2. m.tracks[w].main /\ m.tracks[w].kind = "video" /\ w \in Lanes(m) /\ ~m.tracks[t].main
      BY <1>2, <3>1
    <3>3. QED
      BY <3>2 DEF MainTracks, VideoLanes
  <2>3. PICK v : Claims(m, v)
    BY <1>2, <2>2, SomeClaim
  <2>4. v \in MainTracks(m) /\ t \in Lanes(m)
    BY <1>2, <2>2, <2>3 DEF Claims
  <2>5. f.tracks[t].main <=> t = v
    BY <1>4, <1>5, <2>3, <2>4
  <2>6. QED
    BY <1>7, <2>2, <2>4, <2>5
<1>8. ASSUME f.tracks[t].main, VideoLanes(d) = {} PROVE VideoLanes(f) = {t}
  <2>1. t \in VideoLanes(f)
    BY <1>1, <1>8, MainZones
  <2>2. \A u \in VideoLanes(f) : u = t
    BY <1>1, <1>8 DEF VideoLanes
  <2>3. QED
    BY <2>1, <2>2
<1>9. f.tracks[t].main => VideoLanes(f) = {t}
  BY <1>7, <1>8
<1>10. QED
  BY <1>9 DEF f

LEMMA AddTrackEdited ==
  ASSUME NEW d, IsDocument(d), Solid(Core(d)), NEW t \in TrackId, t \notin Lanes(d),
         NEW kind \in Kind, NEW index \in Nat \ {0}
  PROVE  Edited(AddTrack(d, t, kind, index), d)
<1> DEFINE n == NewTrack(kind)
           f == InsertTrack(d, t, n, index)
           u == [op |-> "RemoveTrack", id |-> t]
           r == AddTrack(d, t, kind, index)
           none == << >>
<1>0. ~n.main
  BY DEF NewTrack
<1>1. IsTrack(n)
  <2>1. IsJunctions(<< >>)
    BY DEF IsJunctions, IsPartial
  <2> DEFINE j == << >>
  <2> HIDE DEF j
  <2>2. IsTrack([kind |-> kind, main |-> FALSE, junctions |-> j])
    BY <2>1 DEF IsTrack, j
  <2>3. QED
    BY <2>2 DEF NewTrack, j
<1>2. r = Accepted(f, <<u>>)
  BY DEF AddTrack
<1>3. DOMAIN none = {}
  OBVIOUS
<1>4. u.op = "RemoveTrack" /\ u.id = t /\ \A e : RunStep(e, u) = RemoveTrack(e, t)
  BY DEF RunStep
<1>15. Tidy => IsZoned(d)
  BY SolidDocument
<1> HIDE DEF n, u, none
<1>5. IsStacked(d) /\ \A c \in Placed(d) : d.clips[c].track \in Lanes(d)
  BY StackedFacts
<1>16. Removable(f, t)
  <2>1. ASSUME Tidy, f.tracks[t].main PROVE VideoLanes(f) = {t}
    BY <1>0, <1>1, <1>5, <1>15, <2>1, InsertsPlain
  <2> HIDE DEF f
  <2>2. ASSUME Tidy PROVE Reversible(f, t)
    <3>1. CASE f.tracks[t].main
      BY <2>1, <2>2, <3>1 DEF Reversible
    <3>2. CASE ~f.tracks[t].main
      BY <3>2 DEF Reversible
    <3>3. QED
      BY <3>1, <3>2
  <2>3. QED
    BY <2>2 DEF Removable
<1>6. /\ IsStacked(f) /\ IsZoned(f) /\ Restacked(d, f) /\ Lanes(f) = Lanes(d) \cup {t}
      /\ \A x \in Lanes(d) : f.tracks[x].kind = d.tracks[x].kind
  BY <1>1, <1>5, InsertTrackFacts
<1>7. IsDocument(f)
  <2> HIDE DEF f
  <2>1. QED
    BY <1>5, <1>6, StackedFacts DEF Restacked, Placed
<1>8. Solid(Core(f))
  <2> HIDE DEF f
  <2>1. f.clips = d.clips /\ f.pool = d.pool /\ Placed(f) = Placed(d)
    BY <1>6 DEF Restacked, Placed
  <2>2. QED
    BY <1>5, <1>6, <1>7, <2>1, SolidFewer
<1>9. Core(RestoreTrack(d, t, n, index, none).doc) = Core(f)
  <2> DEFINE h == [c \in Placed(d) \cup DOMAIN none |-> IF c \in Placed(d) THEN d.clips[c] ELSE none[c]]
             g == [f EXCEPT !.clips = h]
             v == <<[op |-> "RemoveTrack", id |-> t]>>
  <2>1. RestoreTrack(d, t, n, index, none) = Accepted(g, v)
    BY <1>3 DEF RestoreTrack, Try
  <2> HIDE DEF f, v
  <2>2. g.clips = h /\ g.tracks = f.tracks /\ g.pool = f.pool /\ g.order = f.order
    BY <1>6, ReclippedFacts DEF Restacked
  <2>3. h = d.clips
    <3>1. /\ DOMAIN h = Placed(d) /\ IsPartial(h, Placed(d)) /\ \A c \in DOMAIN h : h[c] = d.clips[c]
      BY <1>3 DEF IsPartial
    <3>2. IsPartial(d.clips, Placed(d)) /\ DOMAIN d.clips = Placed(d)
      BY OwnIds DEF IsPartial, Placed
    <3> HIDE DEF h
    <3>3. QED
      BY <3>1, <3>2, SameFunction
  <2> HIDE DEF g, h
  <2>4. g.clips = f.clips
    BY <1>6, <2>2, <2>3 DEF Restacked
  <2>8. Stack(g) = Stack(f)
    BY <2>2, StackKept
  <2>5. Core(g) = Core(f)
    BY <2>2, <2>4, <2>8, SameCore
  <2>6. RestoreTrack(d, t, n, index, none).doc = g
    BY <2>1 DEF Accepted
  <2>7. QED
    BY <2>5, <2>6
<1>10. ASSUME NEW e, IsDocument(e), Core(e) = Core(f)
       PROVE  RunStep(e, u).ok /\ Core(RunStep(e, u).doc) = Core(d)
  <2>1. Core(e) = Core(RestoreTrack(d, t, n, index, none).doc)
    BY <1>9, <1>10
  <2>2. DOMAIN none \cap Placed(d) = {} /\ \A c \in DOMAIN none : none[c].track = t
    BY <1>3
  <2>3. LET r2 == RemoveTrack(e, t) IN r2.ok /\ Core(r2.doc) = Core(d)
    BY <1>1, <1>10, <1>15, <2>1, <2>2, InsertTrackReverts
  <2>4. QED
    BY <1>4, <2>3
<1>11. r.doc = f /\ r.ok = TRUE
  <2> DEFINE q == <<u>>
  <2>1. r = Accepted(f, q)
    BY <1>2
  <2> HIDE DEF q
  <2>2. QED
    BY <2>1 DEF Accepted
<1>17. Cleared(u, Core(f), Core(d))
  <2> HIDE DEF f
  <2>1. Removes(u, Core(f))
    BY <1>4, <1>7, <1>16, RemovesThere
  <2>2. QED
    BY <1>4, <2>1 DEF Cleared
<1> HIDE DEF f, r
<1>12. Reverts(r, d)
  <2>1. r = Accepted(f, <<u>>) /\ Solid(Core(r.doc))
    BY <1>2, <1>8, <1>11 DEF f, r
  <2>2. QED
    BY <1>10, <1>17, <2>1, BackFrom
<1>13. Edited(r, d)
  <2>1. Solid(Core(r.doc)) /\ r.ok \in BOOLEAN /\ (~r.ok => r.doc = d)
    BY <1>8, <1>11
  <2>2. QED
    BY <1>12, <2>1, EditedBy
<1>14. QED
  BY <1>13 DEF r

(* A shift that keeps what it moves after what stays.                       *)
LEMMA ShiftSolid ==
  ASSUME NEW d, IsDocument(d), Solid(Core(d)), NEW t, NEW from \in Int, NEW delta \in Int,
         \A y \in AtOrAfter(d, t, from) :
           /\ d.clips[y].start + delta >= 0
           /\ \A x \in ClipsOn(d, t) \ AtOrAfter(d, t, from) :
                End(d.clips[x]) <= d.clips[y].start + delta
  PROVE  Solid(Core(Shifted(d, t, from, delta)))
<1> DEFINE e == Shifted(d, t, from, delta)
           moving == AtOrAfter(d, t, from)
<1>1. /\ IsDocument(e) /\ Placed(e) = Placed(d)
      /\ \A x \in Placed(d) : Slid(e.clips[x], d.clips[x], x \in moving, delta)
      /\ e.tracks = d.tracks /\ e.pool = d.pool /\ Stack(e) = Stack(d)
  BY ShiftedClips
<1>2. /\ \A x \in Placed(d) : Sits(d, d.clips[x]) /\ d.clips[x] \in Clip
      /\ \A x \in Placed(d) : \A b \in Placed(d) \ {x} : Clear(d.clips[x], d.clips[b])
      /\ Tidy => IsZoned(d)
  BY SolidParts, OwnIds
<1>3. \A x \in Placed(d) : x \in ClipsOn(d, t) <=> d.clips[x].track = t
  BY DEF ClipsOn
<1>4. moving \subseteq ClipsOn(d, t)
  BY DEF AtOrAfter
<1>5. \A y \in moving : /\ d.clips[y].start + delta >= 0
                        /\ \A x \in ClipsOn(d, t) \ moving : End(d.clips[x]) <= d.clips[y].start + delta
  OBVIOUS
<1> HIDE DEF e, moving
<1>6. ASSUME NEW x \in Placed(e) PROVE Sits(e, e.clips[x])
  <2> DEFINE k == d.clips[x]
             l == e.clips[x]
  <2>1. Slid(l, k, x \in moving, delta) /\ Sits(d, k) /\ k \in Clip
    BY <1>1, <1>2
  <2>2. x \in moving => k.start + delta >= 0
    BY <1>5
  <2> HIDE DEF k, l
  <2>3. k.start \in Int
    BY <2>1 DEF Clip
  <2>4. l.start >= 0
    BY <2>1, <2>2, <2>3 DEF Slid, Sits
  <2>5. Sits(e, l)
    BY <1>1, <2>1, <2>4 DEF Slid, Sits, IsMedia
  <2>6. QED
    BY <2>5 DEF l
<1>7. ASSUME NEW x \in Placed(d), NEW y \in Placed(d) \ {x},
             (x \in moving) => (y \in moving)
      PROVE  Clear(e.clips[x], e.clips[y])
  <2> DEFINE k == d.clips[x]
             l == d.clips[y]
             k2 == e.clips[x]
             l2 == e.clips[y]
  <2>1. /\ Slid(k2, k, x \in moving, delta) /\ Slid(l2, l, y \in moving, delta)
        /\ Clear(k, l) /\ k \in Clip /\ l \in Clip
    BY <1>1, <1>2
  <2>2. k.track = l.track /\ y \in moving /\ x \notin moving => End(k) <= l.start + delta
    BY <1>3, <1>4, <1>5
  <2> HIDE DEF k, l, k2, l2
  <2>3. /\ k.start \in Int /\ k.dur \in Nat \ {0} /\ l.start \in Int /\ l.dur \in Nat \ {0}
        /\ k2.dur = k.dur /\ l2.dur = l.dur /\ k2.track = k.track /\ l2.track = l.track
    BY <2>1 DEF Clip, Slid
  <2>4. k2.start = k.start + (IF x \in moving THEN delta ELSE 0)
        /\ l2.start = l.start + (IF y \in moving THEN delta ELSE 0)
    BY <2>1 DEF Slid
  <2>5. CASE x \in moving /\ y \in moving
    <3>1. k2.start = k.start + delta /\ l2.start = l.start + delta
      BY <2>4, <2>5
    <3>2. Clear(k2, l2)
      BY <2>1, <2>3, <3>1 DEF Clear, Overlaps, End
    <3>3. QED
      BY <3>2 DEF k2, l2
  <2>6. CASE x \notin moving /\ y \notin moving
    <3>1. k2.start = k.start /\ l2.start = l.start
      BY <2>3, <2>4, <2>6
    <3>2. Clear(k2, l2)
      BY <2>1, <2>3, <3>1 DEF Clear, Overlaps, End
    <3>3. QED
      BY <3>2 DEF k2, l2
  <2>7. CASE x \notin moving /\ y \in moving
    <3>1. k2.start = k.start /\ l2.start = l.start + delta
      BY <2>3, <2>4, <2>7
    <3>2. Clear(k2, l2)
      BY <2>2, <2>3, <2>7, <3>1 DEF Clear, Overlaps, End
    <3>3. QED
      BY <3>2 DEF k2, l2
  <2>8. QED
    BY <1>7, <2>5, <2>6, <2>7
<1>8. ASSUME NEW x \in Placed(e), NEW y \in Placed(e) \ {x} PROVE Clear(e.clips[x], e.clips[y])
  <2>1. CASE (x \in moving) => (y \in moving)
    BY <1>1, <1>7, <2>1
  <2>2. CASE ~((x \in moving) => (y \in moving))
    <3>1. Clear(e.clips[y], e.clips[x])
      BY <1>1, <1>7, <2>2
    <3>2. QED
      BY <3>1, ClearBoth
  <2>3. QED
    BY <2>1, <2>2
<1>11. Tidy => IsZoned(e)
  BY <1>1, <1>2, StackZoned
<1>9. Solid(Core(e))
  BY <1>1, <1>6, <1>8, <1>11, SolidParts
<1>10. QED
  BY <1>9 DEF e

LEMMA ShiftClipsEdited ==
  ASSUME NEW d, IsDocument(d), IsFiniteSet(Placed(d)), Solid(Core(d)),
         NEW t, NEW from \in Int, NEW delta \in Int
  PROVE  Edited(ShiftClips(d, t, from, delta), d)
<1> DEFINE u == ShiftBack(d, t, from, delta)
           f == Shifted(d, t, from, delta)
           guard == CanShift(d, t, from, delta)
           moving == AtOrAfter(d, t, from)
           first == First(d, t, from, delta)
           last == LastStay(d, t, from)
<1>1. ShiftClips(d, t, from, delta) = Try(guard, d, f, u)
  BY DEF ShiftClips, ShiftBack, First
<1>2. guard \in BOOLEAN
  BY CanShiftWhen
<1>3. ASSUME guard PROVE Solid(Core(f))
  <2>1. delta # 0 /\ (moving # {} => first >= 0 /\ (delta < 0 => first >= last))
    BY <1>3, CanShiftWhen
  <2>2. last \in Int /\ \A x \in ClipsOn(d, t) \ moving : End(d.clips[x]) <= last
    BY LastStays
  <2>3. moving \in SUBSET Placed(d) /\ ClipsOn(d, t) \in SUBSET Placed(d)
    BY DEF AtOrAfter, ClipsOn
  <2>4. moving # {} => FirstStart(d, moving) \in Int /\ \A y \in moving : FirstStart(d, moving) <= d.clips[y].start
    BY <2>3, FirstOf
  <2>5. first = FirstStart(d, moving) + delta
    BY DEF First
  <2>6. \A x \in Placed(d) : d.clips[x] \in Clip
    BY OwnIds
  <2>7. /\ \A y \in moving : d.clips[y].start >= from /\ d.clips[y].track = t
        /\ \A x \in ClipsOn(d, t) \ moving : ~(d.clips[x].start >= from) /\ d.clips[x].track = t
    BY DEF AtOrAfter, ClipsOn
  <2>8. \A x \in Placed(d) : \A b \in Placed(d) \ {x} : Clear(d.clips[x], d.clips[b])
    BY SolidParts
  <2> HIDE DEF moving, first, last
  <2>9. ASSUME NEW y \in moving PROVE d.clips[y].start + delta >= 0 /\ d.clips[y].start + delta >= first
    <3>1. FirstStart(d, moving) \in Int /\ FirstStart(d, moving) <= d.clips[y].start /\ first >= 0
      BY <2>1, <2>4
    <3>2. d.clips[y].start \in Int
      BY <2>3, <2>6 DEF Clip
    <3>3. QED
      BY <2>5, <3>1, <3>2
  <2>10. ASSUME NEW y \in moving, NEW x \in ClipsOn(d, t) \ moving
         PROVE  End(d.clips[x]) <= d.clips[y].start + delta
    <3> DEFINE k == d.clips[x]
               l == d.clips[y]
    <3>1. k \in Clip /\ l \in Clip /\ Clear(k, l) /\ k.track = l.track
      BY <2>3, <2>6, <2>7, <2>8
    <3>2. l.start >= from /\ ~(k.start >= from)
      BY <2>7
    <3>3. End(k) <= last
      BY <2>2
    <3>4. l.start + delta >= first /\ (delta < 0 => first >= last) /\ delta # 0
      BY <2>1, <2>9
    <3>5. first \in Int
      BY <2>4, <2>5
    <3> HIDE DEF k, l
    <3>6. k.start \in Int /\ k.dur \in Nat \ {0} /\ l.start \in Int /\ l.dur \in Nat \ {0}
      BY <3>1 DEF Clip
    <3>7. End(k) <= l.start
      BY <3>1, <3>2, <3>6 DEF Clear, Overlaps, End
    <3>8. End(k) \in Int
      BY <3>6 DEF End
    <3>9. End(k) <= l.start + delta
      BY <2>2, <3>3, <3>4, <3>5, <3>6, <3>7, <3>8
    <3>10. QED
      BY <3>9 DEF k, l
  <2>11. QED
    BY <2>9, <2>10, ShiftSolid DEF moving
<1>4. ShiftClips(d, t, from, delta).ok /\ Solid(Core(ShiftClips(d, t, from, delta).doc))
        => Reverts(ShiftClips(d, t, from, delta), d)
  BY ShiftClipsBack
<1> HIDE DEF u, f, guard
<1>5. Edited(Try(guard, d, f, u), d)
  BY <1>1, <1>2, <1>3, <1>4, EditedTry
<1>6. QED
  BY <1>1, <1>5

LEMMA RippleDeleteEdited ==
  ASSUME NEW d, IsDocument(d), Solid(Core(d)), NEW c
  PROVE  Edited(RippleDelete(d, c), d)
<1> DEFINE k == d.clips[c]
           u == [op |-> "RestoreRipple", id |-> c, clip |-> k]
           w == WithoutClip(d, c)
           f == Shifted(w, k.track, k.start, -k.dur)
           guard == c \in Placed(d)
           moving == AtOrAfter(w, k.track, k.start)
<1>1. RippleDelete(d, c) = Try(guard, d, f, u)
  BY DEF RippleDelete
<1>2. guard \in BOOLEAN
  OBVIOUS
<1>3. ASSUME guard PROVE Solid(Core(f))
  <2>1. /\ IsDocument(w) /\ Placed(w) = Placed(d) \ {c} /\ \A x \in Placed(w) : w.clips[x] = d.clips[x]
        /\ w.tracks = d.tracks /\ w.pool = d.pool /\ Stack(w) = Stack(d)
    BY Unclipped
  <2>2. Solid(Core(w))
    <3> HIDE DEF w
    <3>1. Tidy /\ IsZoned(d) => IsZoned(w)
      BY <2>1, StackZoned
    <3>2. QED
      BY <2>1, <3>1, SolidFewer
  <2>3. k \in Clip /\ Fits(d, c) /\ k.start >= 0
    BY <1>3, OwnIds, SolidDocument
  <2>4. ASSUME NEW y \in Placed(w), w.clips[y].track = k.track
        PROVE  IF w.clips[y].start >= k.start THEN w.clips[y].start >= End(k) ELSE End(w.clips[y]) <= k.start
    <3>1. y \in Placed(d) /\ y # c /\ w.clips[y] = d.clips[y]
      BY <2>1
    <3>2. QED
      BY <1>3, <2>3, <2>4, <3>1, Apart
  <2>5. \A y \in Placed(w) : w.clips[y] \in Clip
    BY <2>1, OwnIds
  <2>6. /\ \A y \in moving : y \in Placed(w) /\ w.clips[y].start >= k.start /\ w.clips[y].track = k.track
        /\ \A x \in ClipsOn(w, k.track) \ moving :
             x \in Placed(w) /\ ~(w.clips[x].start >= k.start) /\ w.clips[x].track = k.track
    BY DEF AtOrAfter, ClipsOn
  <2> HIDE DEF w, moving, k
  <2>7. k.start \in Int /\ k.dur \in Nat \ {0} /\ -k.dur \in Int
    BY <2>3 DEF Clip
  <2>8. ASSUME NEW y \in moving
        PROVE  w.clips[y].start + (-k.dur) >= k.start /\ w.clips[y].start \in Int
    <3>1. w.clips[y].start >= End(k) /\ w.clips[y] \in Clip
      BY <2>4, <2>5, <2>6
    <3>2. w.clips[y].start \in Int
      BY <3>1 DEF Clip
    <3>3. QED
      BY <2>7, <3>1, <3>2 DEF End
  <2>9. ASSUME NEW y \in moving, NEW x \in ClipsOn(w, k.track) \ moving
        PROVE  End(w.clips[x]) <= w.clips[y].start + (-k.dur)
    <3>1. End(w.clips[x]) <= k.start /\ w.clips[x] \in Clip
      BY <2>4, <2>5, <2>6
    <3>2. End(w.clips[x]) \in Int
      BY <3>1 DEF Clip, End
    <3>3. QED
      BY <2>7, <2>8, <3>1, <3>2
  <2>10. \A y \in moving : w.clips[y].start + (-k.dur) >= 0
    BY <2>3, <2>7, <2>8
  <2> DEFINE m == -k.dur
             a == k.track
             b == k.start
  <2>11. \A y \in AtOrAfter(w, a, b) :
           /\ w.clips[y].start + m >= 0
           /\ \A x \in ClipsOn(w, a) \ AtOrAfter(w, a, b) : End(w.clips[x]) <= w.clips[y].start + m
    BY <2>9, <2>10 DEF moving
  <2>12. b \in Int /\ m \in Int
    BY <2>7
  <2> HIDE DEF m, a, b
  <2>13. Solid(Core(Shifted(w, a, b, m)))
    BY <2>1, <2>2, <2>11, <2>12, ShiftSolid
  <2>14. QED
    BY <2>13 DEF m, a, b
<1>4. RippleDelete(d, c).ok /\ Solid(Core(RippleDelete(d, c).doc)) => Reverts(RippleDelete(d, c), d)
  BY RippleDeleteBack
<1> HIDE DEF u, f, guard
<1>5. Edited(Try(guard, d, f, u), d)
  BY <1>1, <1>2, <1>3, <1>4, EditedTry
<1>6. QED
  BY <1>1, <1>5

LEMMA InsertMediaEdited ==
  ASSUME NEW d, IsDocument(d), Solid(Core(d)), NEW m \in Media, m \notin d.pool
  PROVE  Edited(InsertMedia(d, m), d)
<1> DEFINE p == d.pool \cup {m}
           f == [d EXCEPT !.pool = @ \cup {m}]
           q == <<[op |-> "RemoveMedia", medium |-> m]>>
           r == InsertMedia(d, m)
<1>1. r = Accepted(f, q)
  BY DEF InsertMedia
<1>2. p \in SUBSET Media
  BY OwnIds
<1>3. f = [d EXCEPT !.pool = p]
  OBVIOUS
<1> HIDE DEF p, f, q
<1>4. IsDocument(f) /\ f.clips = d.clips /\ f.tracks = d.tracks /\ f.pool = p /\ Stack(f) = Stack(d)
  BY <1>2, <1>3, RepoolsDocument
<1>5. Solid(Core(f))
  <2>1. Placed(f) = Placed(d) /\ d.pool \subseteq f.pool
    BY <1>4 DEF Placed, p
  <2>2. Tidy /\ IsZoned(d) => IsZoned(f)
    BY <1>4, StackZoned
  <2>3. QED
    BY <1>4, <2>1, <2>2, SolidFewer
<1>6. r.ok = TRUE /\ r.doc = f
  BY <1>1 DEF Accepted
<1>7. Solid(Core(r.doc))
  BY <1>5, <1>6
<1>8. Reverts(r, d)
  BY <1>7, InsertMediaBack
<1> HIDE DEF r
<1>9. r.ok \in BOOLEAN /\ (~r.ok => r.doc = d)
  BY <1>6
<1>10. Edited(r, d)
  BY <1>7, <1>8, <1>9, EditedBy
<1>11. QED
  BY <1>10 DEF r

(* Other transitions, as solid.                                             *)
LEMMA RewiredSolid ==
  ASSUME NEW d, IsDocument(d), Solid(Core(d)), NEW e, Rewired(d, e)
  PROVE  Solid(Core(e))
<1>1. /\ IsDocument(e) /\ e.clips = d.clips /\ e.pool = d.pool /\ e.order = d.order /\ Lanes(e) = Lanes(d)
      /\ \A t \in Lanes(d) : e.tracks[t].kind = d.tracks[t].kind /\ e.tracks[t].main = d.tracks[t].main
  BY DEF Rewired
<1>2. Placed(e) = Placed(d) /\ \A c \in Placed(d) : d.clips[c].track \in Lanes(d)
  BY <1>1, OwnIds DEF Placed
<1>3. ASSUME IsZoned(d) PROVE IsZoned(e)
  <2>1. MainTracks(e) = MainTracks(d) /\ VideoLanes(e) = VideoLanes(d)
    BY <1>1 DEF MainTracks, VideoLanes
  <2>2. \A t \in Lanes(d) : Zone(e, t) = Zone(d, t)
    BY <1>1 DEF Zone
  <2>3. \A i \in DOMAIN d.order : d.order[i] \in Lanes(d)
    BY ListFacts DEF IsDocument
  <2>4. QED
    BY <2>1, <2>2, <2>3, <1>1, <1>3 DEF IsZoned
<1>4. QED
  BY <1>1, <1>2, <1>3, SolidFewer

(* The transitions that f has, taken from a document that has them too, are *)
(* put back.                                                                *)
LEMMA RestoreLeads ==
  ASSUME NEW d, IsDocument(d), NEW f, IsDocument(f), Lanes(f) \subseteq Lanes(d),
         \A t \in Lanes(f) : f.tracks[t].junctions = d.tracks[t].junctions,
         NEW p, Rewired(f, p), Solid(Core(p))
  PROVE  Leads([op |-> "RestoreTransitions", snapshot |-> Transitions(d)], Core(p), Core(f))
<1> DEFINE n == Transitions(d)
           u == [op |-> "RestoreTransitions", snapshot |-> n]
<1>1. /\ \A t \in DOMAIN n : IsJunctions(n[t])
      /\ \A t \in Lanes(f) : t \in DOMAIN n /\ n[t] = f.tracks[t].junctions
  BY SnapshotFacts
<1> HIDE DEF n
<1>2. Cleared(u, Core(p), Core(f)) /\ \A e : RunStep(e, u) = RestoreTransitions(e, n)
  BY ClearedPlainly DEF RunStep
<1>3. ASSUME NEW e, IsDocument(e), Core(e) = Core(p)
      PROVE  RunStep(e, u).ok /\ Core(RunStep(e, u).doc) = Core(f)
  <2> DEFINE q == <<[op |-> "RestoreTransitions", snapshot |-> Transitions(e)]>>
  <2>1. Core(WithTransitions(e, n)) = Core(f)
    BY <1>1, <1>3, JunctionsBack
  <2>2. RestoreTransitions(e, n) = Accepted(WithTransitions(e, n), q)
    BY DEF RestoreTransitions
  <2> HIDE DEF q
  <2>3. QED
    BY <1>2, <2>1, <2>2 DEF Accepted
<1>4. Leads(u, Core(p), Core(f))
  BY <1>2, <1>3 DEF Leads
<1>5. QED
  BY <1>4 DEF n

LEMMA SetJunctionsEdited ==
  ASSUME NEW d, IsDocument(d), Solid(Core(d)), NEW t \in Lanes(d), NEW js,
         IsDocument(SetJunctions(d, t, js).doc)
  PROVE  Edited(SetJunctions(d, t, js), d)
<1> DEFINE f == [d.tracks EXCEPT ![t].junctions = js]
           e == [d EXCEPT !.tracks = f]
           u == [op |-> "RestoreTransitions", snapshot |-> Transitions(d)]
           q == <<u>>
           r == SetJunctions(d, t, js)
<1>1. r = Accepted(e, q)
  BY DEF SetJunctions, WithJunctions
<1>2. DOMAIN f = Lanes(d)
  BY DEF Lanes
<1>3. ASSUME NEW x \in Lanes(d) PROVE f[x].kind = d.tracks[x].kind /\ f[x].main = d.tracks[x].main
  <2> DEFINE k == d.tracks[x]
  <2>1. f[x] = IF x = t THEN [k EXCEPT !.junctions = js] ELSE k
    BY DEF Lanes
  <2>2. IsTrack(k)
    BY AnyIds, JunctionsOf
  <2> HIDE DEF f, k
  <2>3. [k EXCEPT !.junctions = js].kind = k.kind /\ [k EXCEPT !.junctions = js].main = k.main
    BY <2>2, RejoinedTrack
  <2>4. f[x].kind = k.kind /\ f[x].main = k.main
    BY <2>1, <2>3
  <2>5. QED
    BY <2>4 DEF k
<1>0. IsDocument(r.doc)
  OBVIOUS
<1> HIDE DEF f
<1>4. e.tracks = f /\ e.clips = d.clips /\ e.pool = d.pool /\ e.order = d.order
  BY StackedFacts, RetrackedFacts DEF IsStacked
<1> HIDE DEF e, q, r
<1>5. r.ok = TRUE /\ r.doc = e /\ r.inverse = q
  BY <1>1 DEF Accepted
<1>6. Rewired(d, e)
  <2>1. Lanes(e) = Lanes(d)
    BY <1>2, <1>4 DEF Lanes
  <2>2. \A x \in Lanes(d) : e.tracks[x].kind = d.tracks[x].kind /\ e.tracks[x].main = d.tracks[x].main
    BY <1>3, <1>4
  <2>3. QED
    BY <1>0, <1>4, <1>5, <2>1, <2>2 DEF Rewired
<1>7. Solid(Core(e))
  BY <1>6, RewiredSolid
<1>8. Leads(u, Core(e), Core(d))
  BY <1>6, <1>7, RestoreLeads
<1> HIDE DEF u
<1>9. Path(q, Core(e), Core(d))
  BY <1>8, PathOne DEF q
<1>10. Edited(r, d)
  BY <1>5, <1>7, <1>9 DEF Edited
<1>11. QED
  BY <1>10 DEF r

LEMMA AddTransitionEdited ==
  ASSUME NEW d, IsDocument(d), Solid(Core(d)), NEW left
  PROVE  Edited(AddTransition(d, left), d)
<1> DEFINE t == d.clips[left].track
           js == d.tracks[t].junctions
           more == [x \in DOMAIN js \cup {left} |->
                      IF x = left
                      THEN [right |-> CHOOSE c \in RightNeighbors(d, left) : TRUE, window |-> DefaultWindow]
                      ELSE js[x]]
           guard == SupportsTransitions(d.tracks[t].kind) /\ RightNeighbors(d, left) # {}
<1>0. IsDocument(AddTransition(d, left).doc)
  <2>1. Within(d, ClipId, TrackId, Media)
    BY AnyIds
  <2>2. IsOutcome(AddTransition(d, left), d, ClipId, TrackId, Media)
    BY <2>1, AddTransitionOutcome
  <2>3. QED
    BY <2>2 DEF IsOutcome, Within
<1>1. CASE left \in Placed(d) /\ guard
  <2>1. t \in Lanes(d)
    BY <1>1, OwnIds
  <2>2. AddTransition(d, left) = SetJunctions(d, t, more)
    BY <1>1 DEF AddTransition
  <2>4. IsDocument(AddTransition(d, left).doc)
    BY <1>0
  <2> HIDE DEF t, more
  <2>5. IsDocument(SetJunctions(d, t, more).doc)
    BY <2>2, <2>4
  <2>3. QED
    BY <2>1, <2>2, <2>5, SetJunctionsEdited
<1>2. CASE ~(left \in Placed(d) /\ guard)
  <2>1. AddTransition(d, left) = Rejected(d)
    BY <1>2 DEF AddTransition
  <2>2. QED
    BY <2>1, EditedNot
<1>3. QED
  BY <1>1, <1>2

LEMMA RemoveTransitionEdited ==
  ASSUME NEW d, IsDocument(d), Solid(Core(d)), NEW left
  PROVE  Edited(RemoveTransition(d, left), d)
<1> DEFINE t == d.clips[left].track
           js == d.tracks[t].junctions
           less == Restrict(js, DOMAIN js \ {left})
<1>0. IsDocument(RemoveTransition(d, left).doc)
  <2>1. Within(d, ClipId, TrackId, Media)
    BY AnyIds
  <2>2. IsOutcome(RemoveTransition(d, left), d, ClipId, TrackId, Media)
    BY <2>1, RemoveTransitionOutcome
  <2>3. QED
    BY <2>2 DEF IsOutcome, Within
<1>1. CASE HasJunction(d, left)
  <2>1. t \in Lanes(d)
    BY <1>1, OwnIds DEF HasJunction
  <2>2. RemoveTransition(d, left) = SetJunctions(d, t, less)
    BY <1>1 DEF RemoveTransition
  <2>4. IsDocument(RemoveTransition(d, left).doc)
    BY <1>0
  <2> HIDE DEF t, less
  <2>5. IsDocument(SetJunctions(d, t, less).doc)
    BY <2>2, <2>4
  <2>3. QED
    BY <2>1, <2>2, <2>5, SetJunctionsEdited
<1>2. CASE ~HasJunction(d, left)
  <2>1. RemoveTransition(d, left) = Rejected(d)
    BY <1>2 DEF RemoveTransition
  <2>2. QED
    BY <2>1, EditedNot
<1>3. QED
  BY <1>1, <1>2

LEMMA SetTransitionEdited ==
  ASSUME NEW d, IsDocument(d), Solid(Core(d)), NEW left, NEW window \in Int
  PROVE  Edited(SetTransition(d, left, window), d)
<1> DEFINE t == d.clips[left].track
           js == [d.tracks[t].junctions EXCEPT ![left].window = IF window < 1 THEN 1 ELSE window]
<1>0. IsDocument(SetTransition(d, left, window).doc)
  <2>1. Within(d, ClipId, TrackId, Media)
    BY AnyIds
  <2>2. IsOutcome(SetTransition(d, left, window), d, ClipId, TrackId, Media)
    BY <2>1, SetTransitionOutcome
  <2>3. QED
    BY <2>2 DEF IsOutcome, Within
<1>1. CASE HasJunction(d, left)
  <2>1. t \in Lanes(d)
    BY <1>1, OwnIds DEF HasJunction
  <2>2. SetTransition(d, left, window) = SetJunctions(d, t, js)
    BY <1>1 DEF SetTransition
  <2>4. IsDocument(SetTransition(d, left, window).doc)
    BY <1>0
  <2> HIDE DEF t, js
  <2>5. IsDocument(SetJunctions(d, t, js).doc)
    BY <2>2, <2>4
  <2>3. QED
    BY <2>1, <2>2, <2>5, SetJunctionsEdited
<1>2. CASE ~HasJunction(d, left)
  <2>1. SetTransition(d, left, window) = Rejected(d)
    BY <1>2 DEF SetTransition
  <2>2. QED
    BY <2>1, EditedNot
<1>3. QED
  BY <1>1, <1>2

LEMMA SplitClipEdited ==
  ASSUME NEW d, IsDocument(d), Solid(Core(d)), NEW c \in ClipId, c \notin Placed(d), NEW of, NEW at \in Int
  PROVE  Edited(SplitClip(d, c, of, at), d)
<1> DEFINE k == d.clips[of]
           head == LeftHalf(k, at)
           tail == RightHalf(k, at)
           cut == WithClip(d, of, head)
           f == WithClip(cut, c, tail)
           u == [op |-> "MergeSplit", id |-> of, clip |-> k, tail |-> c]
           guard == of \in Placed(d) /\ CanSplit(k, at)
           r == SplitClip(d, c, of, at)
<1>1. r = Try(guard, d, f, u)
  BY DEF SplitClip
<1>2. CASE ~guard
  <2>1. r = Rejected(d)
    BY <1>1, <1>2 DEF Try
  <2>2. QED
    BY <2>1, EditedNot
<1>3. CASE guard
  <2>1. of \in Placed(d) /\ CanSplit(k, at)
    BY <1>3
  <2>2. of \in ClipId /\ k \in Clip /\ k.track \in Lanes(d) /\ Sits(d, k)
    BY <2>1, OwnIds, SolidParts
  <2>3. /\ head \in Clip /\ head.track = k.track /\ head.content = k.content /\ head.start = k.start
        /\ head.dur = at - k.start /\ head.in = k.in /\ head.len = Consumed(k, at)
    BY <2>1, <2>2, HalvesFacts
  <2>4. /\ tail \in Clip /\ tail.track = k.track /\ tail.content = k.content /\ tail.start = at
        /\ tail.dur = End(k) - at /\ tail.in = k.in + Consumed(k, at) /\ tail.len = k.len - Consumed(k, at)
    BY <2>1, <2>2, HalvesFacts
  <2>5. \A x \in Placed(d) \ {of} : Clear(k, d.clips[x]) /\ d.clips[x] \in Clip
    BY <2>1, SolidParts, OwnIds
  <2>6. \A e : RunStep(e, u) = MergeSplit(e, of, k, c)
    BY DEF RunStep
  <2>7. Cleared(u, Core(f), Core(d))
    BY ClearedPlainly
  <2>8. k = d.clips[of]
    OBVIOUS
  <2>9. Consumed(k, at) = head.len
    BY <2>3
  <2>10. IsMedia(k) => 0 < head.len /\ head.len < k.len
    BY <2>1, <2>9 DEF CanSplit
  <2>11. k.start < at /\ at < End(k)
    BY <2>1 DEF CanSplit
  <2> HIDE DEF u, k, head, tail
  <2>12. k.start \in Int /\ k.dur \in Nat /\ k.in \in Nat /\ k.len \in Nat /\ head.len \in Nat
    BY <2>2, <2>3 DEF Clip
  <2>13. Sits(d, head)
    <3>1. IsMedia(head) => WindowFits(head.in, head.len) /\ head.content \in d.pool
      BY <2>2, <2>3, <2>10, <2>12, TimelineAssumption DEF Sits, IsMedia, WindowFits
    <3>2. QED
      BY <2>2, <2>3, <3>1 DEF Sits
  <2>14. Sits(d, tail)
    <3>1. IsMedia(tail) => WindowFits(tail.in, tail.len) /\ tail.content \in d.pool
      BY <2>2, <2>4, <2>9, <2>10, <2>12, TimelineAssumption DEF Sits, IsMedia, WindowFits
    <3>2. tail.start >= 0
      BY <2>2, <2>4, <2>11, <2>12 DEF Sits
    <3>3. QED
      BY <2>2, <2>4, <3>1, <3>2 DEF Sits
  <2>15. \A x \in Placed(d) \ {of} : Clear(head, d.clips[x]) /\ Clear(tail, d.clips[x])
    <3>1. ASSUME NEW l \in Clip, Clear(k, l) PROVE Clear(head, l) /\ Clear(tail, l)
      <4>1. l.start \in Int /\ l.dur \in Nat
        BY DEF Clip
      <4>2. End(k) = k.start + k.dur /\ End(head) = at /\ End(tail) = End(k) /\ End(k) \in Int
        BY <2>3, <2>4, <2>12 DEF End
      <4>3. Clear(head, l)
        BY <2>3, <2>11, <2>12, <3>1, <4>1, <4>2 DEF Clear, Overlaps
      <4>4. Clear(tail, l)
        <5>1. ASSUME l.track = k.track PROVE ~Overlaps(l, tail)
          <6>1. l.start >= End(k) \/ k.start >= End(l)
            BY <3>1, <4>1, <4>2, <2>12, <5>1 DEF Clear, Overlaps, End
          <6>2. End(l) \in Int
            BY <4>1 DEF End
          <6>3. l.start >= End(tail) \/ tail.start >= End(l)
            BY <2>4, <2>11, <2>12, <4>1, <4>2, <6>1, <6>2
          <6>4. tail.start \in Int /\ End(tail) \in Int
            BY <2>4, <4>2
          <6>5. QED
            BY <4>1, <6>2, <6>3, <6>4 DEF Overlaps
        <5>2. QED
          BY <2>4, <5>1 DEF Clear
      <4>5. QED
        BY <4>3, <4>4
    <3>2. QED
      BY <2>5, <3>1
  <2>16. Solid(Core(cut))
    BY <2>2, <2>3, <2>13, <2>15, SolidWith
  <2>17. /\ IsDocument(cut) /\ Placed(cut) = Placed(d) \cup {of} /\ cut.clips[of] = head
         /\ \A x \in Placed(d) \ {of} : cut.clips[x] = d.clips[x]
         /\ cut.tracks = d.tracks /\ Lanes(cut) = Lanes(d) /\ cut.pool = d.pool
    BY <2>2, <2>3, Clipped
  <2> HIDE DEF cut
  <2>18. Sits(cut, tail)
    BY <2>14, <2>17 DEF Sits
  <2>19. Clear(tail, head)
    <3>1. End(head) = at
      BY <2>3, <2>12 DEF End
    <3>2. QED
      BY <2>4, <3>1 DEF Clear, Overlaps
  <2>20. \A x \in Placed(cut) : Clear(tail, cut.clips[x])
    BY <2>15, <2>17, <2>19
  <2>21. tail.track \in Lanes(cut)
    BY <2>2, <2>4, <2>17
  <2>22. Solid(Core(f))
    BY <2>4, <2>16, <2>17, <2>18, <2>20, <2>21, SolidWith
  <2>23. CanAdd(cut, c, tail)
    <3>1. ~HasOverlap(cut, tail.track, tail, {})
      BY <2>20, OverlapParts
    <3>2. c \notin Placed(cut)
      BY <2>1, <2>17
    <3>3. QED
      BY <2>18, <2>21, <3>1, <3>2 DEF CanAdd, Sits
  <2>24. [head EXCEPT !.track = k.track] = head
    BY <2>2, <2>3, OwnLane
  <2>25. WithClip(d, of, [head EXCEPT !.track = d.clips[of].track]) = cut
    BY <2>8, <2>24 DEF cut
  <2>26. ASSUME NEW e, IsDocument(e), Core(e) = Core(f)
         PROVE  RunStep(e, u).ok /\ Core(RunStep(e, u).doc) = Core(d)
    <3>1. CanAdd(WithClip(d, of, [head EXCEPT !.track = d.clips[of].track]), c, tail)
      BY <2>23, <2>25
    <3>2. Core(e) = Core(WithClip(WithClip(d, of, [head EXCEPT !.track = d.clips[of].track]), c, tail))
      BY <2>25, <2>26
    <3>3. of \in Placed(d) /\ head \in Clip /\ tail \in Clip
      BY <2>1, <2>3, <2>4
    <3>4. LET m == MergeSplit(e, of, d.clips[of], c) IN m.ok /\ Core(m.doc) = Core(d)
      BY <2>26, <3>1, <3>2, <3>3, ReapplySplitReverts
    <3>5. QED
      BY <2>6, <2>8, <3>4
  <2> DEFINE q == <<u>>
  <2>27. r = Accepted(f, q)
    BY <1>1, <1>3 DEF Try
  <2> HIDE DEF f, q
  <2>28. r.ok = TRUE /\ r.doc = f
    BY <2>27 DEF Accepted
  <2>29. Solid(Core(r.doc))
    BY <2>22, <2>28
  <2>30. Reverts(r, d)
    <3>1. r = Accepted(f, <<u>>)
      BY <2>27 DEF q
    <3>2. QED
      BY <2>7, <2>26, <2>29, <3>1, BackFrom
  <2>31. r.ok \in BOOLEAN /\ (~r.ok => r.doc = d)
    BY <2>28
  <2> HIDE DEF r
  <2>32. Edited(r, d)
    BY <2>29, <2>30, <2>31, EditedBy
  <2>33. QED
    BY <2>32 DEF r
<1>4. QED
  BY <1>2, <1>3

LEMMA PruneRewires ==
  ASSUME NEW d, IsDocument(d)
  PROVE  Rewired(d, Prune(d))
<1> DEFINE e == Prune(d)
<1>1. /\ e.clips = d.clips /\ Lanes(e) = Lanes(d) /\ e.pool = d.pool
      /\ \A t \in Lanes(d) : e.tracks[t].kind = d.tracks[t].kind /\ e.tracks[t].main = d.tracks[t].main
      /\ IsDocument(e)
  <2>1. Within(d, ClipId, TrackId, Media)
    BY AnyIds
  <2>2. LET f == Prune(d) IN
        /\ Within(f, ClipId, TrackId, Media) /\ (IsZoned(d) <=> IsZoned(f))
        /\ f.clips = d.clips /\ Lanes(f) = Lanes(d) /\ f.pool = d.pool
        /\ \A t \in Lanes(d) : f.tracks[t].kind = d.tracks[t].kind /\ f.tracks[t].main = d.tracks[t].main
    BY <2>1, PruneWithin
  <2>3. QED
    BY <2>2 DEF Within
<1>2. e.order = d.order
  BY DEF IsDocument, Prune, WithTransitions
<1> HIDE DEF e
<1>3. Rewired(d, e)
  BY <1>1, <1>2 DEF Rewired
<1>4. QED
  BY <1>3 DEF e

(* The edit leaves the kinds and the transitions of the lanes it leaves.    *)
LeavesLanes(e, d) ==
  /\ Lanes(e) \subseteq Lanes(d)
  /\ \A t \in Lanes(e) : /\ e.tracks[t].kind = d.tracks[t].kind
                         /\ e.tracks[t].junctions = d.tracks[t].junctions

LEMMA StructuralEdited ==
  ASSUME NEW C, NEW T, NEW M, NEW d, Within(d, C, T, M), NEW r, IsOutcome(r, d, C, T, M), Edited(r, d),
         r.ok => LeavesLanes(r.doc, d)
  PROVE  Edited(Structural(d, r), d)
<1> DEFINE pruned == Prune(r.doc)
           restore == [op |-> "RestoreTransitions", snapshot |-> Transitions(d)]
           p == <<restore>>
           guard == ~r.ok \/ ~HasTransitions(d) \/ pruned = r.doc
           s == Structural(d, r)
<1>1. s = IF guard THEN r ELSE Accepted(pruned, p \o r.inverse)
  BY DEF Structural
<1>2. CASE guard
  BY <1>1, <1>2
<1>3. CASE ~guard
  <2>1. r.ok /\ IsDocument(d) /\ IsDocument(r.doc) /\ AreSteps(r.inverse, C, T, M)
    BY <1>3 DEF IsOutcome, Within
  <2>2. Solid(Core(r.doc)) /\ Path(r.inverse, Core(r.doc), Core(d))
    BY <2>1 DEF Edited
  <2>3. Rewired(r.doc, pruned) /\ Solid(Core(pruned))
    BY <2>1, <2>2, PruneRewires, RewiredSolid
  <2>4. IsStep(restore, C, T, M)
    BY TransitionsFacts
  <2>5. Leads(restore, Core(pruned), Core(r.doc))
    <3>1. /\ Lanes(r.doc) \subseteq Lanes(d)
          /\ \A t \in Lanes(r.doc) : r.doc.tracks[t].junctions = d.tracks[t].junctions
      BY <2>1 DEF LeavesLanes
    <3>2. QED
      BY <2>1, <2>3, <3>1, RestoreLeads
  <2> HIDE DEF restore
  <2>6. AreSteps(p, C, T, M)
    BY <2>4, OneStep
  <2>7. Path(p, Core(pruned), Core(r.doc))
    BY <2>5, PathOne
  <2> HIDE DEF p
  <2>8. Path(p \o r.inverse, Core(pruned), Core(d))
    BY <2>1, <2>2, <2>6, <2>7, PathSteps
  <2> DEFINE q == p \o r.inverse
  <2>9. s = Accepted(pruned, q)
    BY <1>1, <1>3
  <2>10. Path(q, Core(pruned), Core(d))
    BY <2>8
  <2> HIDE DEF pruned, q
  <2>11. s.ok = TRUE /\ s.doc = pruned /\ s.inverse = q
    BY <2>9 DEF Accepted
  <2> HIDE DEF s
  <2>12. Edited(s, d)
    BY <2>3, <2>10, <2>11 DEF Edited
  <2>13. QED
    BY <2>12 DEF s
<1>4. QED
  BY <1>2, <1>3

(* A script of one step.                                                    *)
LEMMA RunsOne ==
  ASSUME NEW d, NEW u, RunStep(d, u).ok
  PROVE  Run(d, <<u>>).ok /\ Run(d, <<u>>).doc = RunStep(d, u).doc
<1> DEFINE q == <<u>>
           none == << >>
<1>1. DOMAIN q = 1 .. Len(q) /\ Len(q) \in Nat /\ Len(q) = 1 /\ q[1] = u
  OBVIOUS
<1> HIDE DEF q
<1>2. PICK F : /\ F[0] = Accepted(d, << >>)
               /\ \A i \in 1 .. Len(q) : F[i] = Then(F[i - 1], q[i])
               /\ RunUntilFailure(d, q) = F[Len(q)]
  BY <1>1, RunFolds
<1>3. F[0] = Accepted(d, none)
  BY <1>2
<1> HIDE DEF none
<1>4. F[0].ok = TRUE /\ F[0].doc = d
  BY <1>3 DEF Accepted
<1>5. 1 \in 1 .. Len(q) /\ 1 - 1 = 0
  BY <1>1
<1>6. F[1] = Then(F[0], u) /\ RunUntilFailure(d, q) = F[1]
  <2>1. F[1] = Then(F[1 - 1], q[1])
    BY <1>2, <1>5
  <2>2. QED
    BY <1>1, <1>2, <1>5, <2>1
<1> DEFINE r == RunStep(d, u)
<1>7. Then(F[0], u) = [ok |-> r.ok, doc |-> r.doc, inverse |-> r.inverse \o F[0].inverse]
  BY <1>4 DEF Then
<1> HIDE DEF r
<1>8. F[1].ok = r.ok /\ F[1].doc = r.doc
  BY <1>6, <1>7
<1>9. r.ok
  BY DEF r
<1>10. Run(d, q) = IF F[1].ok THEN F[1] ELSE Rejected(RunUntilFailure(F[1].doc, F[1].inverse).doc)
  BY <1>6 DEF Run
<1>11. Run(d, q) = F[1]
  BY <1>8, <1>9, <1>10
<1>12. QED
  BY <1>8, <1>9, <1>11 DEF r, q

LEMMA ShiftedRest ==
  ASSUME NEW d, IsDocument(d), NEW t, NEW from \in Int, NEW delta \in Int
  PROVE  LET e == Shifted(d, t, from, delta) IN
         IsDocument(e) /\ e.order = d.order /\ e.tracks = d.tracks /\ e.pool = d.pool
<1> DEFINE f == [c \in DOMAIN d.clips |-> [d.clips[c] EXCEPT !.start =
                   d.clips[c].start + (IF c \in AtOrAfter(d, t, from) THEN delta ELSE 0)]]
           e == Shifted(d, t, from, delta)
<1>1. e = [d EXCEPT !.clips = f]
  BY DEF Shifted
<1>2. IsDocument(e)
  BY ShiftedClips
<1> HIDE DEF f, e
<1>3. e.order = d.order /\ e.tracks = d.tracks /\ e.pool = d.pool
  BY <1>1, StackedFacts, ReclippedFacts DEF IsStacked
<1>4. QED
  BY <1>2, <1>3 DEF e

(* A shift that is reverted leaves no trace at all.                         *)
LEMMA ShiftUndone ==
  ASSUME NEW d, IsDocument(d), IsFiniteSet(Placed(d)), Solid(Core(d)),
         NEW t, NEW from \in Int, NEW delta \in Int, ShiftClips(d, t, from, delta).ok
  PROVE  LET hole == ShiftClips(d, t, from, delta) IN Run(hole.doc, hole.inverse).doc = d
<1> DEFINE hole == ShiftClips(d, t, from, delta)
           u == ShiftBack(d, t, from, delta)
           f == Shifted(d, t, from, delta)
           q == <<u>>
           guard == CanShift(d, t, from, delta)
<1>1. hole = IF guard THEN Accepted(f, q) ELSE Rejected(d)
  BY DEF ShiftClips, ShiftBack, First, Try
<1>2. u.op = "ShiftClips" /\ u.lane = t /\ u.delta = -delta
  BY DEF ShiftBack
<1>3. RunStep(f, u) = ShiftClips(f, t, u.from, u.delta)
  BY DEF RunStep, ShiftBack
<1>4. hole.ok
  OBVIOUS
<1> HIDE DEF q, hole
<1>5. guard
  <2>1. ASSUME ~guard PROVE FALSE
    <3>1. hole = Rejected(d)
      BY <1>1, <2>1
    <3>2. QED
      BY <1>4, <3>1 DEF Rejected
  <2>2. QED
    BY <2>1
<1>6. hole.doc = f /\ hole.inverse = q
  <2> HIDE DEF f
  <2>1. hole = Accepted(f, q)
    BY <1>1, <1>5
  <2>2. QED
    BY <2>1 DEF Accepted
<1>7. IsDocument(f) /\ f.order = d.order /\ f.tracks = d.tracks /\ f.pool = d.pool
  BY ShiftedRest
<1>8. LET r == ShiftClips(f, t, u.from, u.delta)
      IN  r.ok /\ Core(r.doc) = Core(d) /\ r.doc = Shifted(f, t, u.from, u.delta)
  BY <1>5, <1>7, ShiftClipsReverts
<1>9. u.from \in Int
  BY <1>5, <1>7, ShiftSelects
<1> HIDE DEF f, u, guard
<1> DEFINE g == Shifted(f, t, u.from, u.delta)
<1>10. u.delta \in Int
  BY <1>2
<1>11. IsDocument(g) /\ g.order = f.order /\ g.tracks = f.tracks /\ g.pool = f.pool
  BY <1>7, <1>9, <1>10, ShiftedRest
<1>12. RunStep(f, u).ok /\ RunStep(f, u).doc = g /\ Core(g) = Core(d)
  BY <1>3, <1>8
<1> HIDE DEF g
<1>13. g.clips = d.clips
  BY <1>12, CoreFields
<1>14. g = d
  BY <1>7, <1>11, <1>13, StackedFacts DEF IsStacked, Shape
<1>15. Run(f, <<u>>).doc = g
  BY <1>12, RunsOne
<1>16. Run(hole.doc, hole.inverse).doc = d
  BY <1>6, <1>14, <1>15 DEF q
<1>17. QED
  BY <1>16 DEF hole

LEMMA RippleInsertEdited ==
  ASSUME NEW C \in SUBSET ClipId, IsFiniteSet(C), NEW T \in SUBSET TrackId,
         NEW M \in SUBSET Media, NEW d, Within(d, C, T, M), Solid(Core(d)),
         NEW c \in C, NEW t \in TrackId, NEW m \in Media, NEW in \in Int, NEW len \in Int, NEW at \in Nat
  PROVE  Edited(RippleInsert(d, c, t, m, in, len, at), d)
<1> DEFINE w == Max({1, len})
           hole == ShiftClips(d, t, at, w)
           add == AddClip(hole.doc, c, t, m, in, len, at)
           back == Run(hole.doc, hole.inverse)
           q == add.inverse \o hole.inverse
           r == RippleInsert(d, c, t, m, in, len, at)
<1>0. r = CASE ~hole.ok -> Rejected(d)
            [] hole.ok /\ add.ok -> Accepted(add.doc, q)
            [] hole.ok /\ ~add.ok -> Rejected(back.doc)
  BY DEF RippleInsert
<1>1. w \in Int /\ at \in Int
  BY DEF Max
<1>2. IsDocument(d) /\ IsFiniteSet(Placed(d))
  BY FS_Subset DEF Within
<1> HIDE DEF w
<1>3. IsOutcome(hole, d, C, T, M)
  BY <1>1, ShiftClipsOutcome
<1>4. Edited(hole, d)
  BY <1>1, <1>2, ShiftClipsEdited
<1>5. hole.ok => back.doc = d
  BY <1>1, <1>2, ShiftUndone
<1> HIDE DEF hole
<1>6. /\ Within(hole.doc, C, T, M) /\ IsDocument(hole.doc)
      /\ AreSteps(hole.inverse, C, T, M) /\ hole.ok \in BOOLEAN
  BY <1>3 DEF IsOutcome, Within
<1>7. IsOutcome(add, hole.doc, C, T, M)
  BY <1>1, <1>6, AddClipOutcome
<1>8. hole.ok => Solid(Core(hole.doc)) /\ Path(hole.inverse, Core(hole.doc), Core(d))
  BY <1>4 DEF Edited
<1>9. hole.ok => Edited(add, hole.doc)
  BY <1>6, <1>8, AddClipEdited
<1> HIDE DEF add, back
<1>10. CASE ~hole.ok
  <2>1. r = Rejected(d)
    BY <1>0, <1>10
  <2>2. QED
    BY <2>1, EditedNot
<1>11. CASE hole.ok /\ add.ok
  <2>1. Solid(Core(add.doc)) /\ Path(add.inverse, Core(add.doc), Core(hole.doc))
    BY <1>9, <1>11 DEF Edited
  <2>2. AreSteps(add.inverse, C, T, M)
    BY <1>7 DEF IsOutcome
  <2>3. Path(q, Core(add.doc), Core(d))
    BY <1>6, <1>8, <1>11, <2>1, <2>2, PathSteps
  <2>4. r = Accepted(add.doc, q)
    BY <1>0, <1>11
  <2> HIDE DEF q
  <2>5. r.ok = TRUE /\ r.doc = add.doc /\ r.inverse = q
    BY <2>4 DEF Accepted
  <2> HIDE DEF r
  <2>6. Edited(r, d)
    BY <2>1, <2>3, <2>5 DEF Edited
  <2>7. QED
    BY <2>6 DEF r
<1>12. CASE hole.ok /\ ~add.ok
  <2>1. r = Rejected(d)
    BY <1>0, <1>5, <1>12
  <2>2. QED
    BY <2>1, EditedNot
<1>13. add.ok \in BOOLEAN
  BY <1>7 DEF IsOutcome
<1>14. QED
  BY <1>6, <1>10, <1>11, <1>12, <1>13
=============================================================================
