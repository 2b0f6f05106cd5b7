----------------------------- MODULE FiniteSums -----------------------------
(***************************************************************************)
(* Sums over finite sets, for the proofs: that what MapThenSumSet and the  *)
(* like choose exists, and what it is bounded by.  The sum over a set is   *)
(* defined by recursion on the set; where an induction would be used, the  *)
(* proofs take a smallest set for which the claim fails.                   *)
(***************************************************************************)
EXTENDS Integers, FiniteSets, FiniteSetTheorems, TLAPS

-----------------------------------------------------------------------------
(* Least members.                                                          *)

\* A set of naturals has a least member.
LEMMA Smallest ==
  ASSUME NEW T \in SUBSET Nat, T # {}
  PROVE  \E x \in T : \A y \in T : x <= y
<1> DEFINE R == {ss \in Nat \X Nat : ss[1] < ss[2]}
<1>1. IsWellFoundedOn(R, Nat)
  BY NatLessThanWellFounded DEF OpToRel
<1>2. PICK x \in T : \A y \in T : ~(<<y, x>> \in R)
  <2> HIDE DEF R
  <2> QED BY <1>1, WFMin
<1>3. ASSUME NEW y \in T PROVE x <= y
  <2>1. x \in Nat /\ y \in Nat /\ ~(<<y, x>> \in R)
    BY <1>2
  <2>2. ~(y < x)
    BY <2>1
  <2> QED
    BY <2>1, <2>2
<1> QED
  BY <1>3

-----------------------------------------------------------------------------
(* Sums over finite sets.                                                  *)

\* g holds the partial sums of w, taken one element at a time.
Sums(w, g) ==
    g = [s \in SUBSET DOMAIN w |->
            IF s = {} THEN 0
            ELSE w[CHOOSE x \in s : TRUE] + g[s \ {CHOOSE x \in s : TRUE}]]

\* The partial sums up to a size.
UpTo(S, n) == {s \in SUBSET S : Cardinality(s) <= n}
SumsTo(w, n, g) ==
    g = [s \in UpTo(DOMAIN w, n) |->
            IF s = {} THEN 0
            ELSE w[CHOOSE x \in s : TRUE] + g[s \ {CHOOSE x \in s : TRUE}]]

\* A set without the element the sum takes next is one smaller.
LEMMA OneLess ==
    ASSUME NEW S, IsFiniteSet(S), NEW s \in SUBSET S, s # {}
    PROVE  /\ (CHOOSE x \in s : TRUE) \in s
           /\ s \ {CHOOSE x \in s : TRUE} \in SUBSET S
           /\ Cardinality(s) \in Nat \ {0}
           /\ Cardinality(s \ {CHOOSE x \in s : TRUE}) = Cardinality(s) - 1
<1>1. PICK x : x = CHOOSE y \in s : TRUE
  OBVIOUS
<1>2. x \in s
  BY <1>1
<1>3. IsFiniteSet(s)
  BY FS_Subset
<1>4. Cardinality(s) \in Nat /\ Cardinality(s) # 0
  BY <1>3, FS_CardinalityType, FS_EmptySet
<1>5. Cardinality(s \ {x}) = Cardinality(s) - 1
  BY <1>2, <1>3, FS_RemoveElement
<1> QED  BY <1>1, <1>2, <1>4, <1>5

\* What there is to sum has partial sums of every size.
LEMMA SumsToExist ==
    ASSUME NEW S, IsFiniteSet(S), NEW w, DOMAIN w = S, NEW n \in Nat
    PROVE  \E g : SumsTo(w, n, g)
<1> DEFINE Bad == {m \in Nat : ~\E g : SumsTo(w, m, g)}
<1>1. SUFFICES ASSUME Bad # {} PROVE FALSE
  OBVIOUS
<1>2. PICK m \in Bad : \A k \in Bad : m <= k
  <2>1. Bad \in SUBSET Nat
    OBVIOUS
  <2> HIDE DEF Bad
  <2> QED  BY <1>1, <2>1, Smallest
<1>3. m \in Nat /\ ~\E g : SumsTo(w, m, g)
  OBVIOUS
<1>4. CASE m = 0
  <2>1. PICK g : g = [s \in UpTo(S, 0) |-> 0]
    OBVIOUS
  <2>2. \A s \in UpTo(S, 0) : s = {}
    <3> SUFFICES ASSUME NEW s \in UpTo(S, 0), s # {} PROVE FALSE
      OBVIOUS
    <3>1. s \in SUBSET S /\ Cardinality(s) <= 0
      BY DEF UpTo
    <3>2. Cardinality(s) \in Nat \ {0}
      BY <3>1, OneLess
    <3> QED  BY <3>1, <3>2
  <2>3. SumsTo(w, 0, g)
    BY <2>1, <2>2 DEF SumsTo
  <2> QED  BY <1>3, <1>4, <2>3
<1>5. CASE m # 0
  <2>1. m - 1 \in Nat /\ ~(m <= m - 1)
    BY <1>3, <1>5
  <2>2. PICK g : SumsTo(w, m - 1, g)
    BY <1>2, <2>1
  <2>3. PICK h : h = [s \in UpTo(S, m) |->
                         IF s = {} THEN 0
                         ELSE w[CHOOSE x \in s : TRUE] + g[s \ {CHOOSE x \in s : TRUE}]]
    OBVIOUS
  <2>4. \A s \in UpTo(S, m - 1) : s \in UpTo(S, m) /\ g[s] = h[s]
    <3> SUFFICES ASSUME NEW s \in UpTo(S, m - 1) PROVE s \in UpTo(S, m) /\ g[s] = h[s]
      OBVIOUS
    <3>1. s \in UpTo(S, m)
      <4>1. s \in SUBSET S /\ Cardinality(s) <= m - 1
        BY DEF UpTo
      <4>2. Cardinality(s) \in Nat
        BY <4>1, FS_Subset, FS_CardinalityType
      <4> QED  BY <4>1, <4>2, <1>3 DEF UpTo
    <3> QED  BY <3>1, <2>2, <2>3 DEF SumsTo
  <2>5. ASSUME NEW s \in UpTo(S, m), s # {}
        PROVE  g[s \ {CHOOSE x \in s : TRUE}] = h[s \ {CHOOSE x \in s : TRUE}]
    <3>1. PICK t : t = s \ {CHOOSE x \in s : TRUE}
      OBVIOUS
    <3>2. s \in SUBSET S /\ Cardinality(s) <= m
      BY DEF UpTo
    <3>3. t \in SUBSET S /\ Cardinality(s) \in Nat /\ Cardinality(t) = Cardinality(s) - 1
      BY <2>5, <3>1, <3>2, OneLess
    <3>4. t \in UpTo(S, m - 1)
      BY <3>2, <3>3, <1>3 DEF UpTo
    <3> QED  BY <3>1, <3>4, <2>4
  <2>6. SumsTo(w, m, h)
    <3> DEFINE Over(k, s) == IF s = {} THEN 0
                             ELSE w[CHOOSE x \in s : TRUE] + k[s \ {CHOOSE x \in s : TRUE}]
    <3>1. \A s \in UpTo(S, m) : Over(g, s) = Over(h, s)
      BY <2>5
    <3>2. h = [s \in UpTo(S, m) |-> Over(g, s)]
      BY <2>3
    <3>3. h = [s \in UpTo(S, m) |-> Over(h, s)]
      <4> HIDE DEF Over
      <4> QED  BY <3>1, <3>2
    <3> QED  BY <3>3 DEF SumsTo
  <2> QED  BY <1>3, <2>6
<1> QED  BY <1>4, <1>5

\* What there is to sum has all its partial sums.
LEMMA SumsExist ==
    ASSUME NEW S, IsFiniteSet(S), NEW w, DOMAIN w = S
    PROVE  \E g : Sums(w, g)
<1>1. Cardinality(S) \in Nat
  BY FS_CardinalityType
<1>2. PICK g : SumsTo(w, Cardinality(S), g)
  BY <1>1, SumsToExist
<1>3. UpTo(S, Cardinality(S)) = SUBSET S
  BY FS_Subset DEF UpTo
<1>4. Sums(w, g)
  BY <1>2, <1>3 DEF SumsTo, Sums
<1> QED  BY <1>4

\* Among some of the subsets of a finite set is a smallest.
LEMMA LeastSet ==
    ASSUME NEW S, IsFiniteSet(S), NEW Q \in SUBSET SUBSET S, Q # {}
    PROVE  \E s \in Q : \A t \in Q : Cardinality(s) <= Cardinality(t)
<1> DEFINE sizes == {Cardinality(s) : s \in Q}
<1>1. \A s \in Q : Cardinality(s) \in Nat
  BY FS_Subset, FS_CardinalityType
<1>2. sizes \in SUBSET Nat /\ sizes # {}
  BY <1>1
<1>3. PICK m \in sizes : \A k \in sizes : m <= k
  <2> HIDE DEF sizes
  <2> QED  BY <1>2, Smallest
<1>4. PICK s \in Q : m = Cardinality(s)
  OBVIOUS
<1> QED  BY <1>3, <1>4

\* A partial sum takes one element, then what is left of the set.
LEMMA SumsTake ==
    ASSUME NEW S, IsFiniteSet(S), NEW w, DOMAIN w = S, NEW g, Sums(w, g),
           NEW s \in SUBSET S, s # {}
    PROVE  \E x \in s : /\ g[s] = w[x] + g[s \ {x}]
                       /\ s \ {x} \in SUBSET S
                       /\ Cardinality(s) \in Nat
                       /\ Cardinality(s \ {x}) = Cardinality(s) - 1
<1>1. PICK x : x = CHOOSE y \in s : TRUE
  OBVIOUS
<1>2. /\ x \in s /\ s \ {x} \in SUBSET S /\ Cardinality(s) \in Nat
      /\ Cardinality(s \ {x}) = Cardinality(s) - 1
  BY <1>1, OneLess
<1>3. g[s] = w[x] + g[s \ {x}]
  BY <1>1 DEF Sums
<1> QED  BY <1>2, <1>3

\* Integers add up to integers.
LEMMA SumsTyped ==
    ASSUME NEW S, IsFiniteSet(S), NEW w \in [S -> Int], NEW g, Sums(w, g)
    PROVE  \A s \in SUBSET S : g[s] \in Int
<1> DEFINE Bad == {s \in SUBSET S : g[s] \notin Int}
<1>1. SUFFICES ASSUME Bad # {} PROVE FALSE
  OBVIOUS
<1>2. PICK s \in Bad : \A t \in Bad : Cardinality(s) <= Cardinality(t)
  <2>1. Bad \in SUBSET SUBSET S
    OBVIOUS
  <2> HIDE DEF Bad
  <2> QED  BY <1>1, <2>1, LeastSet
<1>3. s \in SUBSET S /\ g[s] \notin Int
  OBVIOUS
<1>4. CASE s = {}
  <2>1. g[s] = 0
    BY <1>4 DEF Sums
  <2> QED  BY <1>3, <2>1
<1>5. CASE s # {}
  <2>1. PICK x \in s : /\ g[s] = w[x] + g[s \ {x}] /\ s \ {x} \in SUBSET S
                       /\ Cardinality(s) \in Nat
                       /\ Cardinality(s \ {x}) = Cardinality(s) - 1
    BY <1>3, <1>5, SumsTake
  <2>2. PICK t : t = s \ {x}
    OBVIOUS
  <2>3. t \in SUBSET S /\ ~(Cardinality(s) <= Cardinality(t))
    BY <2>1, <2>2
  <2>4. g[t] \in Int
    BY <1>2, <2>3
  <2>5. w[x] \in Int
    BY <1>3
  <2> QED  BY <1>3, <2>1, <2>2, <2>4, <2>5
<1> QED  BY <1>4, <1>5

\* What adds at most ten bits each adds up to as much times their number.
LEMMA SumsBounded ==
    ASSUME NEW S, IsFiniteSet(S), NEW w \in [S -> 0..60], NEW g, Sums(w, g)
    PROVE  \A s \in SUBSET S : g[s] \in Nat /\ g[s] <= 60 * Cardinality(s)
<1> DEFINE Bound(s) == g[s] \in Nat /\ g[s] <= 60 * Cardinality(s)
           Bad == {s \in SUBSET S : ~Bound(s)}
<1>1. SUFFICES ASSUME Bad # {} PROVE FALSE
  OBVIOUS
<1>2. PICK s \in Bad : \A t \in Bad : Cardinality(s) <= Cardinality(t)
  <2>1. Bad \in SUBSET SUBSET S
    OBVIOUS
  <2> HIDE DEF Bad
  <2> QED  BY <1>1, <2>1, LeastSet
<1>3. s \in SUBSET S /\ ~Bound(s)
  OBVIOUS
<1>4. CASE s = {}
  <2>1. g[s] = 0 /\ Cardinality(s) = 0
    BY <1>4, FS_EmptySet DEF Sums
  <2> QED  BY <1>3, <2>1
<1>5. CASE s # {}
  <2>1. PICK x \in s : /\ g[s] = w[x] + g[s \ {x}] /\ s \ {x} \in SUBSET S
                       /\ Cardinality(s) \in Nat
                       /\ Cardinality(s \ {x}) = Cardinality(s) - 1
    BY <1>3, <1>5, SumsTake
  <2>2. PICK t, c : t = s \ {x} /\ c = Cardinality(s)
    OBVIOUS
  <2>3. t \in SUBSET S /\ Cardinality(t) = c - 1 /\ c \in Nat
    BY <2>1, <2>2
  <2>4. t \notin Bad
    BY <1>2, <2>2, <2>3
  <2>5. g[t] \in Nat /\ g[t] <= 60 * (c - 1)
    BY <2>3, <2>4
  <2>6. w[x] \in Nat /\ w[x] <= 60
    BY <1>3
  <2>7. g[s] = w[x] + g[t]
    BY <2>1, <2>2
  <2>8. g[s] \in Nat /\ g[s] <= 60 * c
    BY <2>3, <2>5, <2>6, <2>7
  <2> QED  BY <1>3, <2>2, <2>8
<1> QED  BY <1>4, <1>5

\* Where one thing adds something else, the sums differ by as much.
LEMMA SumsMove ==
    ASSUME NEW S, IsFiniteSet(S), NEW w \in [S -> Int], NEW v \in [S -> Int],
           NEW g, Sums(w, g), NEW h, Sums(v, h), NEW p \in S,
           \A x \in S : x # p => v[x] = w[x]
    PROVE  \A s \in SUBSET S : /\ g[s] \in Int
                               /\ h[s] = g[s] + (IF p \in s THEN v[p] - w[p] ELSE 0)
<1> DEFINE Moved(s) == /\ g[s] \in Int
                       /\ h[s] = g[s] + (IF p \in s THEN v[p] - w[p] ELSE 0)
           Bad == {s \in SUBSET S : ~Moved(s)}
<1>1. SUFFICES ASSUME Bad # {} PROVE FALSE
  OBVIOUS
<1>2. PICK s \in Bad : \A t \in Bad : Cardinality(s) <= Cardinality(t)
  <2>1. Bad \in SUBSET SUBSET S
    OBVIOUS
  <2> HIDE DEF Bad
  <2> QED  BY <1>1, <2>1, LeastSet
<1>3. s \in SUBSET S /\ ~Moved(s)
  OBVIOUS
<1>4. CASE s = {}
  <2>1. g[s] = 0 /\ h[s] = 0
    BY <1>4 DEF Sums
  <2> QED  BY <1>3, <1>4, <2>1
<1>5. CASE s # {}
  <2>1. PICK x : x = CHOOSE y \in s : TRUE
    OBVIOUS
  <2>2. PICK t : t = s \ {x}
    OBVIOUS
  <2>3. /\ x \in s /\ t \in SUBSET S /\ Cardinality(s) \in Nat
        /\ Cardinality(t) = Cardinality(s) - 1
    BY <1>3, <1>5, <2>1, <2>2, OneLess
  <2>4. g[s] = w[x] + g[t] /\ h[s] = v[x] + h[t]
    BY <1>3, <1>5, <2>1, <2>2 DEF Sums
  <2>5. t \notin Bad
    BY <1>2, <2>3
  <2>6. Moved(t)
    BY <2>3, <2>5
  <2>7. CASE x = p
    <3>1. p \notin t /\ p \in s
      BY <2>2, <2>3, <2>7
    <3> QED  BY <1>3, <2>4, <2>6, <2>7, <3>1
  <2>8. CASE x # p
    <3>1. v[x] = w[x] /\ (p \in t <=> p \in s) /\ w[x] \in Int
      BY <1>3, <2>2, <2>3, <2>8
    <3> QED  BY <1>3, <2>4, <2>6, <3>1
  <2> QED  BY <2>7, <2>8
<1> QED  BY <1>4, <1>5
=============================================================================
