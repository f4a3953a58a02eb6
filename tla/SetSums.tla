------------------------------- MODULE SetSums -------------------------------
(***************************************************************************)
(* Lemmas about sums over finite sets, the ones MapThenSumSet computes:    *)
(* they exist, are integers, and an element may be added or taken away in  *)
(* any order.                                                              *)
(*                                                                         *)
(* The induction theorems of the library take an operator as a parameter,  *)
(* which no prover here can instantiate.  These lemmas are proved from the *)
(* minimal elements of a well-founded relation, with sets in the place of  *)
(* predicates; a sum is the function that its recursion determines.        *)
(***************************************************************************)
EXTENDS Integers, FiniteSets, FiniteSetsExt, FiniteSetTheorems, WellFoundedInduction, TLAPS

(* A set of naturals has a least element.                                  *)
LEMMA LeastNatural ==
  ASSUME NEW N, N \subseteq Nat, N # {}
  PROVE  \E n \in N : \A m \in N : ~(m < n)
  <1>1. PICK n \in N : \A m \in N : ~(<<m, n>> \in OpToRel(<, Nat))
    BY NatLessThanWellFounded, WFMin
  <1>2. QED
    BY <1>1 DEF OpToRel

(* Induction over the subsets of a finite set, for a set of subsets.       *)
LEMMA SubsetInduction ==
  ASSUME NEW T, IsFiniteSet(T), NEW Good,
         \A s \in SUBSET T :
           (\A r \in SUBSET s : r # s => r \in Good) => s \in Good
  PROVE  SUBSET T \subseteq Good
  <1> DEFINE Sizes == {n \in Nat : \E s \in SUBSET T : s \notin Good /\ Cardinality(s) = n}
  <1>1. \A s \in SUBSET T : IsFiniteSet(s) /\ Cardinality(s) \in Nat
    BY FS_Subset, FS_CardinalityType
  <1> SUFFICES ASSUME NEW s \in SUBSET T, s \notin Good PROVE FALSE
    OBVIOUS
  <1>2. Sizes # {} /\ Sizes \subseteq Nat
    BY <1>1
  <1> HIDE DEF Sizes
  <1>4. PICK n \in Sizes : \A m \in Sizes : ~(m < n)
    BY <1>2, LeastNatural
  <1> USE DEF Sizes
  <1>5. PICK t \in SUBSET T : t \notin Good /\ Cardinality(t) = n
    OBVIOUS
  <1>6. ASSUME NEW r \in SUBSET t, r # t
        PROVE  r \in Good
    <2>1. Cardinality(r) \in Nat /\ Cardinality(r) < n
      <3>1. Cardinality(r) \in Nat /\ Cardinality(t) \in Nat
        BY <1>1
      <3>2. Cardinality(r) <= Cardinality(t) /\ Cardinality(r) # Cardinality(t)
        BY <1>1, <1>6, FS_Subset
      <3>3. QED
        BY <1>5, <3>1, <3>2
    <2>2. Cardinality(r) \notin Sizes
      BY <1>4, <2>1
    <2>3. QED
      BY <2>1, <2>2
  <1>7. QED
    BY <1>5, <1>6

(* f sums w over the subsets of S, one chosen element after another.       *)
Some(s) == CHOOSE x \in s : TRUE

Sums(f, w, S) ==
  f = [s \in SUBSET S |-> IF s = {} THEN 0 ELSE w[Some(s)] + f[s \ {Some(s)}]]

(* The element counted first is one of the set.                            *)
LEMMA SomeIn == \A s : s # {} => Some(s) \in s
  BY DEF Some

(* The recursion determines a function on the subsets of a finite set.     *)
LEMMA SumsExist ==
  ASSUME NEW S, IsFiniteSet(S), NEW w \in [S -> Int]
  PROVE  \E f : Sums(f, w, S)
  <1> DEFINE Rec(f, s) == IF s = {} THEN 0 ELSE w[Some(s)] + f[s \ {Some(s)}]
             To(n) == \E f \in [SUBSET S -> Int] :
                        \A s \in SUBSET S : Cardinality(s) <= n => f[s] = Rec(f, s)
             Missed == {n \in Nat : ~To(n)}
  <1>1. \A s \in SUBSET S : IsFiniteSet(s) /\ Cardinality(s) \in Nat
    BY FS_Subset, FS_CardinalityType
  <1>2. To(0)
    <2>1. \A s \in SUBSET S : Cardinality(s) <= 0 => s = {}
      BY <1>1, FS_EmptySet
    <2>2. [s \in SUBSET S |-> 0] \in [SUBSET S -> Int]
      OBVIOUS
    <2>3. QED
      BY <2>1, <2>2
  <1>3. ASSUME NEW n \in Nat, To(n)
        PROVE  To(n + 1)
    <2>1. PICK f \in [SUBSET S -> Int] :
            \A s \in SUBSET S : Cardinality(s) <= n => f[s] = Rec(f, s)
      BY <1>3
    <2> DEFINE g == [s \in SUBSET S |-> Rec(f, s)]
    <2>2. \A s \in SUBSET S : s # {} => Some(s) \in S /\ s \ {Some(s)} \in SUBSET S
      BY SomeIn
    <2>3. g \in [SUBSET S -> Int]
      BY <2>2
    <2>4. ASSUME NEW s \in SUBSET S, Cardinality(s) <= n + 1
          PROVE  g[s] = Rec(g, s)
      <3>1. CASE s = {}
        BY <3>1
      <3>2. CASE s # {}
        <4>1. Some(s) \in s
          BY <3>2, SomeIn
        <4>2. s \ {Some(s)} \in SUBSET S /\ Cardinality(s \ {Some(s)}) <= n
          BY <1>1, <2>4, <4>1, FS_RemoveElement
        <4>3. g[s \ {Some(s)}] = f[s \ {Some(s)}]
          BY <2>1, <4>2
        <4>4. QED
          BY <3>2, <4>3
      <3>3. QED
        BY <3>1, <3>2
    <2> HIDE DEF g, Rec
    <2>5. QED
      BY <2>3, <2>4
  <1> HIDE DEF To
  <1>4. Missed = {}
    <2> SUFFICES ASSUME Missed # {} PROVE FALSE
      OBVIOUS
    <2>1. PICK n \in Missed : \A m \in Missed : ~(m < n)
      BY LeastNatural
    <2>2. n \in Nat /\ n # 0
      BY <1>2
    <2>3. n - 1 \in Nat /\ n - 1 < n /\ (n - 1) + 1 = n
      BY <2>2
    <2>4. n - 1 \notin Missed
      BY <2>1, <2>3
    <2>5. To(n - 1)
      BY <2>3, <2>4
    <2>6. To(n)
      BY <1>3, <2>3, <2>5
    <2>7. QED
      BY <2>6
  <1>5. To(Cardinality(S))
    BY <1>1, <1>4
  <1>6. PICK f \in [SUBSET S -> Int] :
          \A s \in SUBSET S : Cardinality(s) <= Cardinality(S) => f[s] = Rec(f, s)
    BY <1>5 DEF To
  <1>7. \A s \in SUBSET S : f[s] = Rec(f, s)
    BY <1>6, FS_Subset
  <1>8. f = [s \in SUBSET S |-> f[s]]
    OBVIOUS
  <1>9. f = [s \in SUBSET S |-> Rec(f, s)]
    BY <1>7, <1>8
  <1>10. QED
    BY <1>9 DEF Sums

(* One step of the recursion.                                              *)
LEMMA SumsAt ==
  ASSUME NEW S, NEW w, NEW f, Sums(f, w, S), NEW s \in SUBSET S
  PROVE  f[s] = IF s = {} THEN 0 ELSE w[Some(s)] + f[s \ {Some(s)}]
  BY DEF Sums

(* A sum of integers is an integer.                                        *)
LEMMA SumsInt ==
  ASSUME NEW S, IsFiniteSet(S), NEW w \in [S -> Int], NEW f, Sums(f, w, S)
  PROVE  \A s \in SUBSET S : f[s] \in Int
  <1> DEFINE Good == {s \in SUBSET S : f[s] \in Int}
  <1>1. ASSUME NEW s \in SUBSET S, \A r \in SUBSET s : r # s => r \in Good
        PROVE  s \in Good
    <2>1. CASE s = {}
      BY <2>1, SumsAt
    <2>2. CASE s # {}
      <3>1. Some(s) \in s
        BY <2>2, SomeIn
      <3>2. s \ {Some(s)} \in Good
        BY <1>1, <3>1
      <3>3. w[Some(s)] \in Int
        BY <3>1
      <3>4. f[s] = w[Some(s)] + f[s \ {Some(s)}]
        BY <2>2, SumsAt
      <3>5. QED
        BY <3>2, <3>3, <3>4
    <2>3. QED
      BY <2>1, <2>2
  <1> HIDE DEF Good
  <1>2. SUBSET S \subseteq Good
    BY <1>1, SubsetInduction
  <1>3. QED
    BY <1>2 DEF Good

(* Any element may be counted first.                                       *)
LEMMA SumsAny ==
  ASSUME NEW S, IsFiniteSet(S), NEW w \in [S -> Int], NEW f, Sums(f, w, S)
  PROVE  \A s \in SUBSET S : \A x \in s : f[s] = w[x] + f[s \ {x}]
  <1> DEFINE Good == {s \in SUBSET S : \A x \in s : f[s] = w[x] + f[s \ {x}]}
  <1>1. ASSUME NEW s \in SUBSET S, \A r \in SUBSET s : r # s => r \in Good
        PROVE  s \in Good
    <2> SUFFICES ASSUME NEW x \in s PROVE f[s] = w[x] + f[s \ {x}]
      OBVIOUS
    <2>1. /\ Some(s) \in s
          /\ f[s] = w[Some(s)] + f[s \ {Some(s)}]
      BY SumsAt, SomeIn
    <2>2. CASE x = Some(s)
      BY <2>1, <2>2
    <2>3. CASE x # Some(s)
      <3> DEFINE c == Some(s)
                 both == (s \ {c}) \ {x}
      <3>1. s \ {c} \in Good /\ s \ {x} \in Good
        BY <1>1, <2>1
      <3>2. x \in s \ {c} /\ c \in s \ {x} /\ (s \ {x}) \ {c} = both
        BY <2>1, <2>3
      <3>3. f[s \ {c}] = w[x] + f[both]
        BY <3>1, <3>2
      <3>4. f[s \ {x}] = w[c] + f[both]
        BY <3>1, <3>2
      <3>5. w[x] \in Int /\ w[c] \in Int /\ f[both] \in Int
        BY <2>1, SumsInt
      <3> HIDE DEF c, both
      <3>6. QED
        BY <2>1, <3>3, <3>4, <3>5 DEF c
    <2>4. QED
      BY <2>2, <2>3
  <1> HIDE DEF Good
  <1>2. SUBSET S \subseteq Good
    BY <1>1, SubsetInduction
  <1>3. QED
    BY <1>2 DEF Good

(* Sums over a set and over a larger one agree.                            *)
LEMMA SumsAgree ==
  ASSUME NEW T, IsFiniteSet(T), NEW v, NEW g, Sums(g, v, T),
         NEW S \in SUBSET T, NEW w, NEW f, Sums(f, w, S), \A x \in S : w[x] = v[x]
  PROVE  \A s \in SUBSET S : f[s] = g[s]
  <1> DEFINE Good == {s \in SUBSET S : f[s] = g[s]}
  <1>a. \A s \in SUBSET S : f[s] = IF s = {} THEN 0 ELSE w[Some(s)] + f[s \ {Some(s)}]
    BY DEF Sums
  <1>b. \A s \in SUBSET T : g[s] = IF s = {} THEN 0 ELSE v[Some(s)] + g[s \ {Some(s)}]
    BY DEF Sums
  <1>1. ASSUME NEW s \in SUBSET S, \A r \in SUBSET s : r # s => r \in Good
        PROVE  s \in Good
    <2>0. s \in SUBSET T
      OBVIOUS
    <2>1. CASE s = {}
      BY <2>0, <2>1, <1>a, <1>b
    <2>2. CASE s # {}
      <3>1. Some(s) \in s
        BY <2>2, SomeIn
      <3>2. f[s \ {Some(s)}] = g[s \ {Some(s)}]
        BY <1>1, <3>1
      <3>3. f[s] = w[Some(s)] + f[s \ {Some(s)}]
        BY <2>2, <1>a
      <3>4. g[s] = v[Some(s)] + g[s \ {Some(s)}]
        BY <2>0, <2>2, <1>b
      <3>5. QED
        BY <3>1, <3>2, <3>3, <3>4
    <2>3. QED
      BY <2>1, <2>2
  <1> HIDE DEF Good
  <1>2. IsFiniteSet(S)
    BY FS_Subset
  <1>3. SUBSET S \subseteq Good
    BY <1>1, <1>2, SubsetInduction
  <1>4. QED
    BY <1>3 DEF Good
(* The sum over two disjoint sets is the sum of theirs.                    *)
LEMMA SumsUnion ==
  ASSUME NEW S, IsFiniteSet(S), NEW w \in [S -> Int], NEW f, Sums(f, w, S),
         NEW A \in SUBSET S, NEW B \in SUBSET S, A \cap B = {}
  PROVE  f[A \cup B] = f[A] + f[B]
  <1> DEFINE T == S \ B
             Good == {s \in SUBSET T : f[s \cup B] = f[s] + f[B]}
  <1> HIDE DEF Good, T
  <1>0. IsFiniteSet(T)
    BY FS_Subset DEF T
  <1>1. \A s \in SUBSET S : f[s] \in Int
    BY SumsInt
  <1>2. ASSUME NEW s \in SUBSET S, NEW x \in s
        PROVE  f[s] = w[x] + f[s \ {x}]
    BY SumsAny
  <1>3. f[{}] = 0
    BY DEF Sums
  <1>4. ASSUME NEW s \in SUBSET T, \A r \in SUBSET s : r # s => r \in Good
        PROVE  s \in Good
    <2> USE DEF Good, T
    <2>1. CASE s = {}
      <3>1. s \cup B = B
        BY <2>1
      <3>2. QED
        BY <1>1, <1>3, <2>1, <3>1
    <2>2. CASE s # {}
      <3>1. PICK x \in s : TRUE
        BY <2>2
      <3>2. s \ {x} \in Good
        BY <1>4
      <3>3. (s \cup B) \ {x} = (s \ {x}) \cup B /\ s \cup B \in SUBSET S /\ s \in SUBSET S
        OBVIOUS
      <3>4. f[s \cup B] = w[x] + f[(s \ {x}) \cup B]
        BY <1>2, <3>3
      <3>5. f[s] = w[x] + f[s \ {x}]
        BY <1>2, <3>3
      <3>6. f[(s \ {x}) \cup B] = f[s \ {x}] + f[B]
        BY <3>2
      <3>7. w[x] \in Int /\ f[s \ {x}] \in Int /\ f[B] \in Int
        BY <1>1
      <3>8. QED
        BY <3>4, <3>5, <3>6, <3>7
    <2>3. QED
      BY <2>1, <2>2
  <1>5. A \in SUBSET T
    BY DEF T
  <1>6. SUBSET T \subseteq Good
    BY <1>0, <1>4, SubsetInduction
  <1>7. QED
    BY <1>5, <1>6 DEF Good
=============================================================================
