--------------------------- MODULE InductionLemmas ---------------------------
(***************************************************************************)
(* Induction and recursion for the proofs of the components.  The          *)
(* library's theorems on induction take an operator; the ones below take   *)
(* sets and functions instead, and follow from the well-foundedness of the *)
(* order of the natural numbers (WFMin, which takes a set).  The folds of  *)
(* the community modules are recursive functions on the subsets of a       *)
(* finite set; SetRecursion and LeftRecursion say that there are such      *)
(* functions.                                                              *)
(***************************************************************************)
EXTENDS Integers, Sequences, FiniteSets, FiniteSetsExt, FiniteSetTheorems, WellFoundedInduction, TLAPS

\* A set of numbers that has 0 and, with a number, the next one has them all.
LEMMA Induction ==
  ASSUME NEW S, 0 \in S, \A n \in Nat : n \in S => n + 1 \in S
  PROVE  Nat \subseteq S
<1> DEFINE Less == {p \in Nat \X Nat : p[1] < p[2]}
<1>1. \A j, k \in Nat : <<j, k>> \in Less <=> j < k
  OBVIOUS
<1>2. IsWellFoundedOn(Less, Nat)
  BY NatLessThanWellFounded DEF OpToRel
<1> HIDE DEF Less
<1>3. ASSUME Nat \ S # {}
      PROVE  \E m \in Nat \ S : \A k \in Nat \ S : <<k, m>> \notin Less
  BY <1>2, <1>3, WFMin
<1>4. SUFFICES ASSUME Nat \ S # {} PROVE FALSE
  OBVIOUS
<1>5. PICK m \in Nat \ S : \A k \in Nat \ S : <<k, m>> \notin Less
  BY <1>3, <1>4
<1>6. m - 1 \in Nat /\ m - 1 < m
  BY <1>5
<1>7. m - 1 \in S
  BY <1>1, <1>5, <1>6
<1> QED BY <1>5, <1>6, <1>7

\* A first value and a function from each value to the next; the sequence they define.
Starts(V, first, H) == first \in V /\ H \in [V -> V]
Follows(f, V, first, H) == /\ f \in [Nat -> V]
                           /\ f[0] = first
                           /\ \A n \in Nat : f[n + 1] = H[f[n]]

\* A function on the numbers can be defined by its first value and by what follows a value.
LEMMA Recursion ==
  ASSUME NEW V, NEW first, NEW H, Starts(V, first, H)
  PROVE  \E f : Follows(f, V, first, H)
<1>0. first \in V /\ H \in [V -> V]
  BY DEF Starts
<1> DEFINE Upto(n) == {g \in [0 .. n -> V] : g[0] = first /\ \A k \in 0 .. n - 1 : g[k + 1] = H[g[k]]}
           Some(n) == CHOOSE g \in Upto(n) : TRUE
<1>1. ASSUME NEW n \in Nat, NEW m \in Nat, NEW g \in Upto(n), NEW h \in Upto(m)
      PROVE  \A k \in 0 .. n : k <= m => g[k] = h[k]
  <2> DEFINE Same == {k \in Nat : k <= n /\ k <= m => g[k] = h[k]}
  <2>1. 0 \in Same
    OBVIOUS
  <2>2. ASSUME NEW k \in Nat, k \in Same
        PROVE  k + 1 \in Same
    <3>1. SUFFICES ASSUME k + 1 <= n, k + 1 <= m PROVE g[k + 1] = h[k + 1]
      OBVIOUS
    <3>2. k \in 0 .. n - 1 /\ k \in 0 .. m - 1 /\ g[k] = h[k]
      BY <2>2, <3>1
    <3> QED BY <3>2
  <2> HIDE DEF Same
  <2>3. Nat \subseteq Same
    BY <2>1, <2>2, Induction
  <2> QED BY <2>3 DEF Same
<1>2. ASSUME NEW n \in Nat PROVE Upto(n) # {}
  <2> DEFINE Good == {k \in Nat : Upto(k) # {}}
  <2>1. 0 \in Good
    <3>1. [k \in 0 .. 0 |-> first] \in Upto(0)
      BY <1>0
    <3> QED BY <3>1
  <2>2. ASSUME NEW k \in Nat, k \in Good
        PROVE  k + 1 \in Good
    <3>1. PICK g \in Upto(k) : TRUE
      BY <2>2
    <3> DEFINE h == [j \in 0 .. k + 1 |-> IF j = k + 1 THEN H[g[k]] ELSE g[j]]
    <3>2. g \in [0 .. k -> V] /\ g[0] = first /\ \A j \in 0 .. k - 1 : g[j + 1] = H[g[j]]
      BY <3>1
    <3>3. h \in [0 .. k + 1 -> V]
      BY <1>0, <3>2
    <3>4. h[0] = first
      BY <3>2
    <3>5. ASSUME NEW j \in 0 .. k
          PROVE  h[j + 1] = H[h[j]]
      <4>1. h[j] = g[j]
        OBVIOUS
      <4>2. CASE j = k
        BY <4>1, <4>2
      <4>3. CASE j # k
        <5>1. j \in 0 .. k - 1 /\ h[j + 1] = g[j + 1]
          BY <4>3
        <5> QED BY <3>2, <4>1, <5>1
      <4> QED BY <4>2, <4>3
    <3>6. 0 .. (k + 1) - 1 = 0 .. k
      OBVIOUS
    <3> HIDE DEF h
    <3>7. h \in Upto(k + 1)
      BY <3>3, <3>4, <3>5, <3>6
    <3> QED BY <3>7
  <2> HIDE DEF Good, Upto
  <2>3. Nat \subseteq Good
    BY <2>1, <2>2, Induction
  <2> QED BY <2>3 DEF Good
<1>3. \A n \in Nat : Some(n) \in Upto(n)
  BY <1>2
<1> HIDE DEF Some
<1> DEFINE f == [n \in Nat |-> Some(n)[n]]
<1>4. ASSUME NEW n \in Nat
      PROVE  f[n] \in V /\ f[n + 1] = H[f[n]]
  <2>1. Some(n) \in Upto(n) /\ Some(n + 1) \in Upto(n + 1)
    BY <1>3
  <2>2. Some(n)[n] = Some(n + 1)[n]
    <3> HIDE DEF Upto
    <3>0. n + 1 \in Nat
      OBVIOUS
    <3>1. \A k \in 0 .. n : k <= n + 1 => Some(n)[k] = Some(n + 1)[k]
      BY <1>1, <2>1, <3>0
    <3> QED BY <3>1
  <2>3. Some(n)[n] \in V /\ Some(n + 1)[n + 1] = H[Some(n + 1)[n]]
    BY <2>1
  <2> QED BY <2>2, <2>3
<1>5. f[0] = first
  <2>1. Some(0) \in Upto(0)
    BY <1>3
  <2> QED BY <2>1
<1> HIDE DEF f
<1>6. f \in [Nat -> V]
  BY <1>4 DEF f
<1> QED BY <1>4, <1>5, <1>6 DEF Follows

\* A set of numbers that is not empty has a least one.
LEMMA LeastNumber ==
  ASSUME NEW N \in SUBSET Nat, N # {}
  PROVE  \E m \in N : \A k \in N : m <= k
<1> DEFINE Less == {p \in Nat \X Nat : p[1] < p[2]}
<1>1. \A j, k \in Nat : <<j, k>> \in Less <=> j < k
  OBVIOUS
<1>2. IsWellFoundedOn(Less, Nat)
  BY NatLessThanWellFounded DEF OpToRel
<1> HIDE DEF Less
<1>3. PICK m \in N : \A k \in N : <<k, m>> \notin Less
  BY <1>2, WFMin
<1>4. \A k \in N : ~(k < m)
  BY <1>1, <1>3
<1> QED BY <1>3, <1>4

\* A set of numbers that is not empty and has a bound has a greatest one.
LEMMA GreatestNumber ==
  ASSUME NEW n \in Nat, NEW N \in SUBSET (0 .. n), N # {}
  PROVE  \E m \in N : \A k \in N : k <= m
<1> DEFINE From == {n - k : k \in N}
<1>0. \A k \in N : k \in 0 .. n /\ n - k \in Nat
  OBVIOUS
<1>1. From \in SUBSET Nat /\ From # {}
  BY <1>0
<1> HIDE DEF From
<1>2. PICK l \in From : \A k \in From : l <= k
  BY <1>1, LeastNumber
<1> USE DEF From
<1>3. PICK m \in N : l = n - m
  BY <1>2
<1>4. ASSUME NEW k \in N PROVE k <= m
  <2>1. n - m <= n - k
    BY <1>2, <1>3
  <2> QED BY <2>1
<1> QED BY <1>4

-----------------------------------------------------------------------------
(* Recursion over the subsets of a finite set, as the folds do it: pick[s]   *)
(* is the element of s that is folded last.                                  *)

Picking(D, pick) == \A s \in SUBSET D : s # {} => pick[s] \in s

FoldsOver(f, D, base, pick, H) ==
  /\ f[{}] = base
  /\ \A s \in SUBSET D : s # {} => f[s] = H[<<f[s \ {pick[s]}], pick[s]>>]

\* There is a function that folds the subsets of a finite set.
LEMMA SetRecursion ==
  ASSUME NEW D, IsFiniteSet(D), NEW V, NEW base \in V, NEW pick, Picking(D, pick),
         NEW H \in [V \X D -> V]
  PROVE  \E f \in [SUBSET D -> V] : FoldsOver(f, D, base, pick, H)
<1> DEFINE Upto(n) == {s \in SUBSET D : Cardinality(s) <= n}
           Folds(f, n) == /\ f \in [Upto(n) -> V]
                          /\ f[{}] = base
                          /\ \A s \in Upto(n) : s # {} => f[s] = H[<<f[s \ {pick[s]}], pick[s]>>]
           Good == {n \in Nat : \E f : Folds(f, n)}
<1>1. ASSUME NEW s \in SUBSET D
      PROVE  IsFiniteSet(s) /\ Cardinality(s) \in Nat
  BY FS_Subset, FS_CardinalityType
<1>2. ASSUME NEW s \in SUBSET D, s # {}
      PROVE  /\ pick[s] \in s /\ s \ {pick[s]} \in SUBSET D
             /\ Cardinality(s \ {pick[s]}) = Cardinality(s) - 1
  <2>1. pick[s] \in s
    BY <1>2 DEF Picking
  <2> QED BY <2>1, <1>1, FS_RemoveElement
<1>3. 0 \in Good
  <2> DEFINE f == [s \in Upto(0) |-> base]
  <2>1. \A s \in Upto(0) : s = {}
    <3> TAKE s \in Upto(0)
    <3>1. Cardinality(s) = 0 /\ IsFiniteSet(s)
      BY <1>1
    <3> QED BY <3>1, FS_EmptySet
  <2>2. {} \in Upto(0)
    BY FS_EmptySet
  <2>3. Folds(f, 0)
    BY <2>1, <2>2
  <2> QED BY <2>3
<1>4. ASSUME NEW n \in Nat, n \in Good PROVE n + 1 \in Good
  <2>1. PICK f : Folds(f, n)
    BY <1>4
  <2> DEFINE Value(s) == H[<<f[s \ {pick[s]}], pick[s]>>]
             g == [s \in Upto(n + 1) |-> IF s \in Upto(n) THEN f[s] ELSE Value(s)]
  <2>2. {} \in Upto(n) /\ {} \in Upto(n + 1)
    BY FS_EmptySet
  <2>3. ASSUME NEW s \in Upto(n + 1), s # {}
        PROVE  /\ s \ {pick[s]} \in Upto(n) /\ s \ {pick[s]} \in Upto(n + 1)
               /\ pick[s] \in D /\ Value(s) \in V
    <3>1. s \ {pick[s]} \in Upto(n) /\ s \ {pick[s]} \in Upto(n + 1) /\ pick[s] \in D
      BY <2>3, <1>1, <1>2
    <3>2. f[s \ {pick[s]}] \in V
      BY <2>1, <3>1
    <3> QED BY <3>1, <3>2
  <2>4. ASSUME NEW s \in Upto(n + 1)
        PROVE  g[s] \in V /\ (s # {} => g[s] = H[<<g[s \ {pick[s]}], pick[s]>>])
    <3>1. CASE s \in Upto(n)
      <4>1. g[s] = f[s] /\ f[s] \in V
        BY <2>1, <3>1
      <4>2. ASSUME s # {} PROVE g[s] = H[<<g[s \ {pick[s]}], pick[s]>>]
        <5>1. g[s \ {pick[s]}] = f[s \ {pick[s]}]
          BY <2>3, <4>2
        <5>2. f[s] = Value(s)
          BY <2>1, <3>1, <4>2
        <5> QED BY <4>1, <5>1, <5>2
      <4> QED BY <4>1, <4>2
    <3>2. CASE s \notin Upto(n)
      <4>1. s # {} /\ g[s] = Value(s)
        BY <2>2, <3>2
      <4>2. g[s \ {pick[s]}] = f[s \ {pick[s]}] /\ Value(s) \in V
        BY <2>3, <4>1
      <4> QED BY <4>1, <4>2
    <3> QED BY <3>1, <3>2
  <2>5. g[{}] = base
    BY <2>1, <2>2
  <2>6. g \in [Upto(n + 1) -> V]
    BY <2>4
  <2> HIDE DEF g, Upto
  <2>7. Folds(g, n + 1)
    BY <2>4, <2>5, <2>6
  <2> QED BY <2>7
<1> HIDE DEF Good
<1>5. Cardinality(D) \in Good
  BY <1>3, <1>4, Induction, FS_CardinalityType
<1>6. PICK f : Folds(f, Cardinality(D))
  BY <1>5 DEF Good
<1>7. Upto(Cardinality(D)) = SUBSET D
  BY FS_Subset
<1> HIDE DEF Upto
<1> QED BY <1>6, <1>7 DEF FoldsOver

\* The greatest of the first numbers, and of any of them.
LEMMA MaxOfFirst ==
  ASSUME NEW n \in Nat
  PROVE  /\ \A s \in SUBSET (1 .. n) : s # {} => Max(s) \in s
         /\ \A k \in 0 .. n - 1 : Max(1 .. k + 1) = k + 1
<1>1. ASSUME NEW s \in SUBSET (1 .. n), s # {} PROVE Max(s) \in s
  <2>1. s \in SUBSET (0 .. n)
    OBVIOUS
  <2>2. PICK m \in s : \A k \in s : k <= m
    BY <1>1, <2>1, GreatestNumber
  <2>3. \A k \in s : m >= k
    BY <2>2
  <2> QED BY <2>3 DEF Max
<1>2. ASSUME NEW k \in 0 .. n - 1 PROVE Max(1 .. k + 1) = k + 1
  <2>1. k + 1 \in 1 .. k + 1 /\ \A j \in 1 .. k + 1 : k + 1 >= j
    OBVIOUS
  <2>2. \A m \in 1 .. k + 1 : (\A j \in 1 .. k + 1 : m >= j) => m = k + 1
    BY <2>1
  <2> QED BY <2>1, <2>2 DEF Max
<1> QED BY <1>1, <1>2

FoldsLeft(f, n, base, H) ==
  /\ f[{}] = base
  /\ \A s \in SUBSET (1 .. n) : s # {} => f[s] = H[<<f[s \ {Max(s)}], Max(s)>>]

\* There is a function that folds the numbers from 1 to n, the greatest last (FoldLeft).
LEMMA LeftRecursion ==
  ASSUME NEW n \in Nat, NEW V, NEW base \in V, NEW H \in [V \X (1 .. n) -> V]
  PROVE  \E f \in [SUBSET (1 .. n) -> V] : FoldsLeft(f, n, base, H)
<1> DEFINE pick == [s \in SUBSET (1 .. n) |-> Max(s)]
<1>1. Picking(1 .. n, pick)
  BY MaxOfFirst DEF Picking
<1>2. IsFiniteSet(1 .. n)
  BY FS_Interval
<1> HIDE DEF pick
<1>3. PICK f \in [SUBSET (1 .. n) -> V] : FoldsOver(f, 1 .. n, base, pick, H)
  BY <1>1, <1>2, SetRecursion
<1>4. \A s \in SUBSET (1 .. n) : pick[s] = Max(s)
  BY DEF pick
<1>5. FoldsLeft(f, n, base, H)
  BY <1>3, <1>4 DEF FoldsOver, FoldsLeft
<1> QED BY <1>5

\* What a fold from the left is on the first k numbers, step by step.
LEMMA FirstNumbers ==
  ASSUME NEW n \in Nat, NEW k \in 0 .. n - 1
  PROVE  /\ 1 .. 0 = {} /\ 1 .. k + 1 \in SUBSET (1 .. n) /\ 1 .. k + 1 # {}
         /\ Max(1 .. k + 1) = k + 1 /\ (1 .. k + 1) \ {k + 1} = 1 .. k
<1>1. 1 .. 0 = {} /\ 1 .. k + 1 \in SUBSET (1 .. n) /\ 1 .. k + 1 # {}
  OBVIOUS
<1>2. (1 .. k + 1) \ {k + 1} = 1 .. k
  OBVIOUS
<1> QED BY <1>1, <1>2, MaxOfFirst

\* A function on the subsets of the first n numbers that obeys the rule of a fold wherever
\* the fold so far is in V.
ObeysFold(sum, n, V, base, H) ==
  /\ sum[{}] = base
  /\ \A s \in SUBSET (1 .. n) : s # {} /\ sum[s \ {Max(s)}] \in V =>
       sum[s] = H[<<sum[s \ {Max(s)}], Max(s)>>]

\* The fold of the first k numbers, for every k up to n.
StepsOf(f, sum, n, V, base, H) ==
  /\ f[0] = base /\ f[n] = sum[1 .. n]
  /\ \A k \in 0 .. n : f[k] \in V
  /\ \A k \in 0 .. n - 1 : f[k + 1] = H[<<f[k], k + 1>>]

\* A fold from the left goes from one number to the next.
LEMMA LeftSteps ==
  ASSUME NEW n \in Nat, NEW V, NEW base \in V, NEW H \in [V \X (1 .. n) -> V],
         NEW sum, ObeysFold(sum, n, V, base, H)
  PROVE  \E f : StepsOf(f, sum, n, V, base, H)
<1> DEFINE f == [k \in 0 .. n |-> sum[1 .. k]]
<1>1. f[0] = base
  <2>1. 1 .. 0 = {}
    OBVIOUS
  <2> QED BY <2>1 DEF ObeysFold
<1>2. ASSUME NEW k \in 0 .. n - 1, f[k] \in V
      PROVE  f[k + 1] = H[<<f[k], k + 1>>] /\ f[k + 1] \in V
  <2>1. f[k] = sum[1 .. k] /\ f[k + 1] = sum[1 .. k + 1]
    OBVIOUS
  <2>2. sum[1 .. k + 1] = H[<<sum[1 .. k], k + 1>>]
    <3> DEFINE s == 1 .. k + 1
    <3>1. s \in SUBSET (1 .. n) /\ s # {} /\ Max(s) = k + 1 /\ s \ {k + 1} = 1 .. k
      BY FirstNumbers
    <3>2. sum[s \ {Max(s)}] \in V
      BY <1>2, <2>1, <3>1
    <3> HIDE DEF s
    <3>3. sum[s] = H[<<sum[s \ {Max(s)}], Max(s)>>]
      BY <3>1, <3>2 DEF ObeysFold
    <3>4. sum[s] = H[<<sum[1 .. k], k + 1>>]
      BY <3>1, <3>3
    <3> QED BY <3>4 DEF s
  <2> HIDE DEF f
  <2>3. <<f[k], k + 1>> \in V \X (1 .. n)
    BY <1>2
  <2> QED BY <2>1, <2>2, <2>3
<1> HIDE DEF f
<1> DEFINE Good == {k \in Nat : k <= n => f[k] \in V}
<1>3. 0 \in Good
  BY <1>1
<1>4. ASSUME NEW k \in Nat, k \in Good PROVE k + 1 \in Good
  <2>1. SUFFICES ASSUME k + 1 <= n PROVE f[k + 1] \in V
    OBVIOUS
  <2>2. k \in 0 .. n - 1 /\ f[k] \in V
    BY <1>4, <2>1
  <2> QED BY <1>2, <2>2
<1> HIDE DEF Good
<1>5. Nat \subseteq Good
  BY <1>3, <1>4, Induction
<1>6. \A k \in 0 .. n : f[k] \in V
  BY <1>5 DEF Good
<1>7. sum[1 .. n] = f[n]
  BY DEF f
<1> QED BY <1>1, <1>2, <1>6, <1>7 DEF StepsOf
=============================================================================
