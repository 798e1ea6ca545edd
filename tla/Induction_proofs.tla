-------------------------- MODULE Induction_proofs --------------------------
(***************************************************************************)
(* Facts about data of any size that the proofs of several components      *)
(* need.  The induction theorems of the library take a predicate as their  *)
(* parameter, which the backends cannot instantiate; here induction goes   *)
(* through the least element of the set of counterexamples.                *)
(***************************************************************************)
EXTENDS Integers, FiniteSetTheorems, WellFoundedInduction, TLAPS

\* A set of naturals that is not empty has a least element.
LEMMA LeastNatural ==
    ASSUME NEW S \in SUBSET Nat, S # {}
    PROVE  \E x \in S : \A y \in S : x <= y
  <1> DEFINE R == OpToRel(<, Nat)
  <1>1. R = {ss \in Nat \X Nat : ss[1] < ss[2]}
    BY DEF OpToRel
  <1>2. IsWellFoundedOn(R, Nat)
    BY NatLessThanWellFounded
  <1> HIDE DEF R
  <1>3. PICK x \in S : \A y \in S : <<y, x>> \notin R
    BY <1>2, WFMin
  <1>4. \A y \in S : ~(y < x)
    BY <1>1, <1>3
  <1> QED BY <1>4

\* A bounded set of naturals that is not empty has a greatest element.
LEMMA GreatestNatural ==
    ASSUME NEW n \in Nat, NEW S \in SUBSET (0..n), S # {}
    PROVE  \E x \in S : \A y \in S : x >= y
  <1> DEFINE T == {x \in 0..n : n - x \in S}
  <1>1. T \in SUBSET Nat
    OBVIOUS
  <1>2. T # {}
    <2>1. PICK x \in S : TRUE
      OBVIOUS
    <2>2. n - x \in 0..n /\ n - (n - x) = x
      OBVIOUS
    <2> QED BY <2>1, <2>2
  <1>3. PICK t \in T : \A y \in T : t <= y
    BY <1>1, <1>2, LeastNatural
  <1>4. \A y \in S : n - t >= y
    <2> TAKE y \in S
    <2>1. y \in 0..n /\ n - y \in 0..n /\ n - (n - y) = y
      OBVIOUS
    <2>2. t <= n - y
      BY <1>3, <2>1
    <2> QED BY <2>1, <2>2
  <1>5. n - t \in S
    OBVIOUS
  <1> QED BY <1>4, <1>5

\* Induction over the naturals, for a set instead of a predicate.
LEMMA NaturalsInductive ==
    ASSUME NEW G \in SUBSET Nat, 0 \in G, \A n \in G : n + 1 \in G
    PROVE  G = Nat
  <1> SUFFICES ASSUME Nat \ G # {} PROVE FALSE
    OBVIOUS
  <1>1. PICK m \in Nat \ G : \A n \in Nat \ G : m <= n
    BY LeastNatural
  <1>2. m - 1 \in Nat /\ m - 1 \in G
    BY <1>1
  <1>3. (m - 1) + 1 = m
    BY <1>1
  <1> QED BY <1>2, <1>3

-----------------------------------------------------------------------------
(* Sums over a finite set, as the folds of the community modules and the   *)
(* recursive functions of this project compute them: an element is chosen, *)
(* the rest is added.                                                      *)

AnyOf(s) == CHOOSE x \in s : TRUE

Smaller(S, n) == {s \in SUBSET S : IsFiniteSet(s) /\ Cardinality(s) <= n}

AddUp(f, h, s) == IF s = {} THEN 0 ELSE f[AnyOf(s)] + h[s \ {AnyOf(s)}]

\* h computes the sums of f over the subsets of S.
IsSum(h, f, S) == h = [s \in SUBSET S |-> AddUp(f, h, s)]

LEMMA AnyElement ==
    ASSUME NEW S, NEW n \in Nat, NEW s \in Smaller(S, n + 1), s # {}
    PROVE  /\ AnyOf(s) \in s /\ AnyOf(s) \in S
           /\ s \ {AnyOf(s)} \in Smaller(S, n)
  <1>1. AnyOf(s) \in s
    BY DEF AnyOf
  <1>2. /\ IsFiniteSet(s \ {AnyOf(s)}) /\ Cardinality(s \ {AnyOf(s)}) = Cardinality(s) - 1
        /\ Cardinality(s) \in Nat /\ Cardinality(s) <= n + 1
    BY <1>1, FS_RemoveElement, FS_CardinalityType DEF Smaller
  <1> QED BY <1>1, <1>2 DEF Smaller

LEMMA OnlyEmptyIsSmallest ==
    ASSUME NEW S, NEW s \in Smaller(S, 0)
    PROVE  s = {}
  BY FS_EmptySet, FS_CardinalityType DEF Smaller

\* There is such a function.
LEMMA SumExists ==
    ASSUME NEW S, IsFiniteSet(S), NEW f, \A x \in S : f[x] \in Int
    PROVE  \E h : IsSum(h, f, S)
  <1> DEFINE Upto(h, n) == /\ h \in [Smaller(S, n) -> Int]
                           /\ \A s \in Smaller(S, n) : h[s] = AddUp(f, h, s)
             G == {n \in Nat : \E h : Upto(h, n)}
  <1>1. 0 \in G
    <2> DEFINE zero == [s \in Smaller(S, 0) |-> 0]
    <2>1. Upto(zero, 0)
      BY OnlyEmptyIsSmallest DEF AddUp
    <2> QED BY <2>1
  <1>2. \A n \in G : n + 1 \in G
    <2> TAKE n \in G
    <2>1. n \in Nat /\ n + 1 \in Nat
      OBVIOUS
    <2>2. PICK h : Upto(h, n)
      OBVIOUS
    <2> DEFINE more == [s \in Smaller(S, n + 1) |-> AddUp(f, h, s)]
    <2>3. \A s \in Smaller(S, n + 1) : s # {} =>
              AnyOf(s) \in S /\ s \ {AnyOf(s)} \in Smaller(S, n)
      BY <2>1, AnyElement
    <2>4. \A s \in Smaller(S, n) : s \in Smaller(S, n + 1) /\ more[s] = h[s]
      <3>1. \A s \in Smaller(S, n) : s \in Smaller(S, n + 1)
        <4> TAKE s \in Smaller(S, n)
        <4>1. /\ s \in SUBSET S /\ IsFiniteSet(s)
              /\ Cardinality(s) \in Nat /\ Cardinality(s) <= n
          BY FS_CardinalityType DEF Smaller
        <4>2. Cardinality(s) <= n + 1
          BY <2>1, <4>1
        <4> QED BY <4>1, <4>2 DEF Smaller
      <3> QED BY <2>2, <3>1
    <2>5. more \in [Smaller(S, n + 1) -> Int]
      <3>1. \A s \in Smaller(S, n + 1) : AddUp(f, h, s) \in Int
        BY <2>2, <2>3 DEF AddUp
      <3> QED BY <3>1
    <2>6. \A s \in Smaller(S, n + 1) : more[s] = AddUp(f, more, s)
      BY <2>3, <2>4 DEF AddUp
    <2>7. Upto(more, n + 1)
      BY <2>5, <2>6
    <2> QED BY <2>1, <2>7
  <1> HIDE DEF Upto
  <1>3. G = Nat
    BY <1>1, <1>2, NaturalsInductive
  <1>4. Cardinality(S) \in Nat /\ SUBSET S = Smaller(S, Cardinality(S))
    <2>1. Cardinality(S) \in Nat
      BY FS_CardinalityType
    <2>2. \A s \in SUBSET S : IsFiniteSet(s) /\ Cardinality(s) <= Cardinality(S)
      BY FS_Subset
    <2> QED BY <2>1, <2>2 DEF Smaller
  <1>5. PICK h : Upto(h, Cardinality(S))
    BY <1>3, <1>4
  <1>6. h = [s \in SUBSET S |-> AddUp(f, h, s)]
    BY <1>4, <1>5 DEF Upto
  <1> QED BY <1>6 DEF IsSum

\* Its values are integers, and it does not matter which element goes first.
LEMMA SumFacts ==
    ASSUME NEW S, IsFiniteSet(S), NEW f, \A x \in S : f[x] \in Int, NEW h, IsSum(h, f, S)
    PROVE  /\ h[{}] = 0
           /\ \A s \in SUBSET S : h[s] \in Int
           /\ \A s \in SUBSET S : \A x \in s : h[s] = f[x] + h[s \ {x}]
  <1>1. \A s \in SUBSET S : h[s] = AddUp(f, h, s)
    BY DEF IsSum
  <1>2. h[{}] = 0
    BY <1>1 DEF AddUp
  <1> DEFINE Good(s) == h[s] \in Int /\ \A x \in s : h[s] = f[x] + h[s \ {x}]
             G == {n \in Nat : \A s \in Smaller(S, n) : Good(s)}
  <1>3. 0 \in G
    <2>1. Good({})
      BY <1>2
    <2>2. \A s \in Smaller(S, 0) : s = {}
      BY OnlyEmptyIsSmallest
    <2> HIDE DEF Good
    <2> QED BY <2>1, <2>2
  <1>4. \A n \in G : n + 1 \in G
    <2> TAKE n \in G
    <2>1. n \in Nat /\ n + 1 \in Nat
      OBVIOUS
    <2> SUFFICES ASSUME NEW s \in Smaller(S, n + 1) PROVE Good(s)
      BY <2>1
    <2>2. CASE s = {}
      BY <1>2, <2>2
    <2>3. CASE s # {}
      <3> DEFINE a == AnyOf(s)
      <3>1. a \in s /\ a \in S /\ s \ {a} \in Smaller(S, n) /\ s \in SUBSET S
        BY <2>1, <2>3, AnyElement DEF Smaller
      <3>2. h[s] = f[a] + h[s \ {a}]
        BY <1>1, <2>3, <3>1 DEF AddUp
      <3> HIDE DEF a
      <3>3. Good(s \ {a})
        BY <3>1
      <3>4. h[s] \in Int
        BY <3>1, <3>2, <3>3
      <3>5. ASSUME NEW x \in s PROVE h[s] = f[x] + h[s \ {x}]
        <4>1. CASE x = a
          BY <3>2, <4>1
        <4>2. CASE x # a
          <5>1. /\ x \in s \ {a} /\ a \in s \ {x} /\ x \in S
                /\ (s \ {a}) \ {x} = (s \ {x}) \ {a}
            BY <3>1, <4>2
          <5>2. s \ {x} \in Smaller(S, n)
            <6>1. /\ IsFiniteSet(s) /\ IsFiniteSet(s \ {x}) /\ Cardinality(s \ {x}) = Cardinality(s) - 1
                  /\ Cardinality(s) \in Nat /\ Cardinality(s) <= n + 1
              BY FS_RemoveElement, FS_CardinalityType DEF Smaller
            <6> QED BY <2>1, <3>1, <6>1 DEF Smaller
          <5>3. Good(s \ {x})
            BY <5>2
          <5>4. /\ h[s \ {a}] = f[x] + h[(s \ {a}) \ {x}]
                /\ h[s \ {x}] = f[a] + h[(s \ {a}) \ {x}]
            BY <3>3, <5>1, <5>3
          <5>5. h[(s \ {a}) \ {x}] \in Int
            <6>1. (s \ {a}) \ {x} \in Smaller(S, n)
              <7>1. /\ IsFiniteSet(s \ {a}) /\ Cardinality(s \ {a}) \in Nat
                    /\ Cardinality(s \ {a}) <= n /\ s \ {a} \in SUBSET S
                BY <3>1, FS_CardinalityType DEF Smaller
              <7>2. /\ IsFiniteSet((s \ {a}) \ {x})
                    /\ Cardinality((s \ {a}) \ {x}) = Cardinality(s \ {a}) - 1
                BY <5>1, <7>1, FS_RemoveElement
              <7> QED BY <2>1, <7>1, <7>2 DEF Smaller
            <6> QED BY <6>1
          <5> QED BY <3>1, <3>2, <5>1, <5>4, <5>5
        <4> QED BY <4>1, <4>2
      <3> QED BY <3>4, <3>5
    <2> QED BY <2>2, <2>3
  <1>5. G = Nat
    <2> HIDE DEF Good
    <2> QED BY <1>3, <1>4, NaturalsInductive
  <1>6. Cardinality(S) \in Nat /\ \A s \in SUBSET S : s \in Smaller(S, Cardinality(S))
    BY FS_CardinalityType, FS_Subset DEF Smaller
  <1>7. \A s \in SUBSET S : Good(s)
    BY <1>5, <1>6
  <1> QED BY <1>2, <1>7

-----------------------------------------------------------------------------
(***************************************************************************)
(* Induction over the subsets of a finite set, and what sums obey.         *)
(***************************************************************************)

LEMMA SubsetsInductive ==
    ASSUME NEW S, IsFiniteSet(S), NEW G \in SUBSET (SUBSET S), {} \in G,
           \A s \in G : \A x \in S \ s : s \cup {x} \in G
    PROVE  G = SUBSET S
  <1> DEFINE N == {n \in Nat : Smaller(S, n) \subseteq G}
  <1>1. 0 \in N
    BY OnlyEmptyIsSmallest
  <1>2. \A n \in N : n + 1 \in N
    <2> TAKE n \in N
    <2>1. n \in Nat /\ n + 1 \in Nat /\ Smaller(S, n) \subseteq G
      OBVIOUS
    <2>2. ASSUME NEW s \in Smaller(S, n + 1) PROVE s \in G
      <3>1. CASE s = {}
        BY <3>1
      <3>2. CASE s # {}
        <4>1. /\ AnyOf(s) \in s /\ AnyOf(s) \in S
              /\ s \ {AnyOf(s)} \in Smaller(S, n)
          BY <2>1, <3>2, AnyElement
        <4>2. s = (s \ {AnyOf(s)}) \cup {AnyOf(s)} /\ AnyOf(s) \notin s \ {AnyOf(s)}
          BY <4>1
        <4> QED BY <2>1, <4>1, <4>2
      <3> QED BY <3>1, <3>2
    <2> QED BY <2>1, <2>2
  <1>3. N = Nat
    BY <1>1, <1>2, NaturalsInductive
  <1>4. Cardinality(S) \in Nat /\ \A s \in SUBSET S : s \in Smaller(S, Cardinality(S))
    BY FS_CardinalityType, FS_Subset DEF Smaller
  <1> QED BY <1>3, <1>4

SumOf(f, S) == (CHOOSE h : IsSum(h, f, S))[S]

\* A sum depends on what is added and on nothing else.
LEMMA SumUnique ==
    ASSUME NEW S, IsFiniteSet(S), NEW T, IsFiniteSet(T), NEW f, NEW g,
           \A x \in S : f[x] \in Int, \A x \in T : g[x] \in Int,
           NEW h, IsSum(h, f, S), NEW k, IsSum(k, g, T),
           NEW U, U \subseteq S, U \subseteq T, \A x \in U : f[x] = g[x]
    PROVE  h[U] = k[U]
  <1> DEFINE G == {s \in SUBSET U : h[s] = k[s]}
  <1>1. /\ h[{}] = 0
        /\ \A s \in SUBSET S : \A x \in s : h[s] = f[x] + h[s \ {x}]
    <2>1. h[{}] = 0
      BY SumFacts
    <2>2. ASSUME NEW s \in SUBSET S, NEW x \in s PROVE h[s] = f[x] + h[s \ {x}]
      BY SumFacts
    <2> QED BY <2>1, <2>2
  <1>2. /\ k[{}] = 0
        /\ \A s \in SUBSET T : \A x \in s : k[s] = g[x] + k[s \ {x}]
    <2>1. k[{}] = 0
      BY SumFacts
    <2>2. ASSUME NEW s \in SUBSET T, NEW x \in s PROVE k[s] = g[x] + k[s \ {x}]
      BY SumFacts
    <2> QED BY <2>1, <2>2
  <1>3. {} \in G
    BY <1>1, <1>2
  <1>4. ASSUME NEW s \in G, NEW x \in U \ s PROVE s \cup {x} \in G
    <2>1. (s \cup {x}) \ {x} = s /\ s \cup {x} \in SUBSET U /\ x \in s \cup {x}
      OBVIOUS
    <2>2. s \cup {x} \in SUBSET S /\ s \cup {x} \in SUBSET T
      BY <2>1
    <2>3. h[s \cup {x}] = f[x] + h[s]
      BY <1>1, <2>1, <2>2
    <2>4. k[s \cup {x}] = g[x] + k[s]
      BY <1>2, <2>1, <2>2
    <2>5. h[s] = k[s] /\ f[x] = g[x]
      OBVIOUS
    <2> QED BY <2>1, <2>3, <2>4, <2>5
  <1>5. IsFiniteSet(U)
    BY FS_Subset
  <1>6. G = SUBSET U
    <2> HIDE DEF G
    <2>1. G \in SUBSET (SUBSET U)
      BY DEF G
    <2> QED BY <1>3, <1>4, <1>5, <2>1, SubsetsInductive
  <1> QED BY <1>6

LEMMA SumOfSum ==
    ASSUME NEW S, IsFiniteSet(S), NEW f, \A x \in S : f[x] \in Int
    PROVE  \E h : IsSum(h, f, S) /\ SumOf(f, S) = h[S]
  BY SumExists DEF SumOf

\* Sums of functions that agree agree.
LEMMA SumOfSame ==
    ASSUME NEW S, IsFiniteSet(S), NEW f, \A x \in S : f[x] \in Int,
           NEW g, \A x \in S : g[x] = f[x]
    PROVE  SumOf(g, S) = SumOf(f, S)
  <1>1. \A x \in S : g[x] \in Int
    OBVIOUS
  <1>2. PICK h : IsSum(h, f, S) /\ SumOf(f, S) = h[S]
    BY SumOfSum
  <1>3. PICK k : IsSum(k, g, S) /\ SumOf(g, S) = k[S]
    BY <1>1, SumOfSum
  <1>4. h[S] = k[S]
    BY <1>1, <1>2, <1>3, SumUnique
  <1> QED BY <1>2, <1>3, <1>4

LEMMA SumOfEmpty ==
    ASSUME NEW f
    PROVE  SumOf(f, {}) = 0
  <1>1. IsFiniteSet({})
    BY FS_EmptySet
  <1>2. PICK h : IsSum(h, f, {}) /\ SumOf(f, {}) = h[{}]
    BY <1>1, SumOfSum
  <1> QED BY <1>1, <1>2, SumFacts

LEMMA SumOfInt ==
    ASSUME NEW S, IsFiniteSet(S), NEW f, \A x \in S : f[x] \in Int
    PROVE  SumOf(f, S) \in Int
  <1>1. PICK h : IsSum(h, f, S) /\ SumOf(f, S) = h[S]
    BY SumOfSum
  <1> QED BY <1>1, SumFacts

\* One element taken out.
LEMMA SumOfRemove ==
    ASSUME NEW S, IsFiniteSet(S), NEW f, \A x \in S : f[x] \in Int, NEW x \in S
    PROVE  SumOf(f, S) = f[x] + SumOf(f, S \ {x})
  <1>1. PICK h : IsSum(h, f, S) /\ SumOf(f, S) = h[S]
    BY SumOfSum
  <1>2. h[S] = f[x] + h[S \ {x}]
    BY <1>1, SumFacts
  <1> DEFINE T == S \ {x}
  <1>3. IsFiniteSet(T) /\ T \subseteq S /\ \A y \in T : f[y] \in Int
    BY FS_Subset
  <1> HIDE DEF T
  <1>4. PICK k : IsSum(k, f, T) /\ SumOf(f, T) = k[T]
    BY <1>3, SumOfSum
  <1>5. h[T] = k[T]
    BY <1>1, <1>3, <1>4, SumUnique
  <1> QED BY <1>1, <1>2, <1>4, <1>5 DEF T

\* One element added.
LEMMA SumOfAdd ==
    ASSUME NEW S, IsFiniteSet(S), NEW f, \A y \in S : f[y] \in Int, NEW x, x \notin S, f[x] \in Int
    PROVE  SumOf(f, S \cup {x}) = f[x] + SumOf(f, S)
  <1> DEFINE T == S \cup {x}
  <1>1. IsFiniteSet(T) /\ x \in T /\ T \ {x} = S /\ \A y \in T : f[y] \in Int
    BY FS_AddElement
  <1> HIDE DEF T
  <1>2. SumOf(f, T) = f[x] + SumOf(f, T \ {x})
    BY <1>1, SumOfRemove
  <1> QED BY <1>1, <1>2 DEF T

\* Two disjoint sets.
LEMMA SumOfUnion ==
    ASSUME NEW S, IsFiniteSet(S), NEW T, IsFiniteSet(T), S \cap T = {},
           NEW f, \A x \in S \cup T : f[x] \in Int
    PROVE  SumOf(f, S \cup T) = SumOf(f, S) + SumOf(f, T)
  <1> DEFINE G == {s \in SUBSET T : SumOf(f, S \cup s) = SumOf(f, S) + SumOf(f, s)}
  <1>1. {} \in G
    <2>1. SumOf(f, S) \in Int /\ SumOf(f, {}) = 0 /\ S \cup {} = S
      BY SumOfInt, SumOfEmpty
    <2> QED BY <2>1
  <1>2. ASSUME NEW s \in G, NEW x \in T \ s PROVE s \cup {x} \in G
    <2>1. IsFiniteSet(s) /\ IsFiniteSet(S \cup s)
      BY FS_Subset, FS_Union
    <2>2. /\ x \notin S \cup s /\ f[x] \in Int
          /\ \A y \in s : f[y] \in Int
          /\ \A y \in S \cup s : f[y] \in Int
          /\ S \cup (s \cup {x}) = (S \cup s) \cup {x}
      OBVIOUS
    <2>3. SumOf(f, s \cup {x}) = f[x] + SumOf(f, s)
      BY <2>1, <2>2, SumOfAdd
    <2>4. SumOf(f, (S \cup s) \cup {x}) = f[x] + SumOf(f, S \cup s)
      BY <2>1, <2>2, SumOfAdd
    <2>5. SumOf(f, S) \in Int /\ SumOf(f, s) \in Int
      BY <2>1, <2>2, SumOfInt
    <2>6. SumOf(f, S \cup s) = SumOf(f, S) + SumOf(f, s)
      OBVIOUS
    <2>7. SumOf(f, S \cup (s \cup {x})) = f[x] + (SumOf(f, S) + SumOf(f, s))
      <3>1. SumOf(f, S \cup (s \cup {x})) = SumOf(f, (S \cup s) \cup {x})
        BY <2>2
      <3> QED BY <2>4, <2>6, <3>1
    <2>8. f[x] + (SumOf(f, S) + SumOf(f, s)) = SumOf(f, S) + (f[x] + SumOf(f, s))
      BY <2>2, <2>5
    <2>9. s \cup {x} \in SUBSET T
      OBVIOUS
    <2> QED BY <2>3, <2>7, <2>8, <2>9
  <1>3. G = SUBSET T
    <2> HIDE DEF G
    <2>1. G \in SUBSET (SUBSET T)
      BY DEF G
    <2> QED BY <1>1, <1>2, <2>1, SubsetsInductive
  <1> QED BY <1>3

\* Nothing negative is added.
LEMMA SumOfNat ==
    ASSUME NEW S, IsFiniteSet(S), NEW f, \A x \in S : f[x] \in Nat
    PROVE  SumOf(f, S) \in Nat
  <1> DEFINE G == {s \in SUBSET S : SumOf(f, s) \in Nat}
  <1>1. {} \in G
    BY SumOfEmpty
  <1>2. ASSUME NEW s \in G, NEW x \in S \ s PROVE s \cup {x} \in G
    <2>1. IsFiniteSet(s) /\ x \notin s /\ f[x] \in Int /\ \A y \in s : f[y] \in Int
      BY FS_Subset
    <2>2. SumOf(f, s \cup {x}) = f[x] + SumOf(f, s)
      BY <2>1, SumOfAdd
    <2> QED BY <2>2
  <1>3. G = SUBSET S
    <2> HIDE DEF G
    <2>1. G \in SUBSET (SUBSET S)
      BY DEF G
    <2> QED BY <1>1, <1>2, <2>1, SubsetsInductive
  <1> QED BY <1>3

\* A part adds up to no more than the whole.
LEMMA SumOfPart ==
    ASSUME NEW S, IsFiniteSet(S), NEW f, \A x \in S : f[x] \in Nat,
           NEW T, T \subseteq S
    PROVE  SumOf(f, T) \in Nat /\ SumOf(f, S) \in Nat /\ SumOf(f, T) <= SumOf(f, S)
  <1> DEFINE R == S \ T
  <1>1. /\ IsFiniteSet(T) /\ IsFiniteSet(R) /\ T \cap R = {} /\ T \cup R = S
        /\ \A x \in T \cup R : f[x] \in Int
        /\ \A x \in T : f[x] \in Nat
        /\ \A x \in R : f[x] \in Nat
    BY FS_Subset
  <1> HIDE DEF R
  <1>2. SumOf(f, T \cup R) = SumOf(f, T) + SumOf(f, R)
    BY <1>1, SumOfUnion
  <1>3. SumOf(f, T) \in Nat /\ SumOf(f, R) \in Nat
    BY <1>1, SumOfNat
  <1>4. SumOf(f, S) = SumOf(f, T) + SumOf(f, R)
    BY <1>1, <1>2
  <1> QED BY <1>3, <1>4

\* Sums of sums.
LEMMA SumOfPlus ==
    ASSUME NEW S, IsFiniteSet(S), NEW f, \A x \in S : f[x] \in Int,
           NEW g, \A x \in S : g[x] \in Int, NEW k, \A x \in S : k[x] = f[x] + g[x]
    PROVE  SumOf(k, S) = SumOf(f, S) + SumOf(g, S)
  <1> DEFINE G == {s \in SUBSET S : SumOf(k, s) = SumOf(f, s) + SumOf(g, s)}
  <1>1. {} \in G
    BY SumOfEmpty
  <1>2. ASSUME NEW s \in G, NEW x \in S \ s PROVE s \cup {x} \in G
    <2>1. /\ IsFiniteSet(s) /\ x \notin s
          /\ f[x] \in Int /\ \A y \in s : f[y] \in Int
          /\ g[x] \in Int /\ \A y \in s : g[y] \in Int
          /\ k[x] = f[x] + g[x]
          /\ k[x] \in Int /\ \A y \in s : k[y] \in Int
      BY FS_Subset
    <2>2. SumOf(f, s \cup {x}) = f[x] + SumOf(f, s)
      BY <2>1, SumOfAdd
    <2>3. SumOf(g, s \cup {x}) = g[x] + SumOf(g, s)
      BY <2>1, SumOfAdd
    <2>4. SumOf(k, s \cup {x}) = k[x] + SumOf(k, s)
      BY <2>1, SumOfAdd
    <2>5. SumOf(f, s) \in Int /\ SumOf(g, s) \in Int
      BY <2>1, SumOfInt
    <2> QED BY <2>1, <2>2, <2>3, <2>4, <2>5
  <1>3. G = SUBSET S
    <2> HIDE DEF G
    <2>1. G \in SUBSET (SUBSET S)
      BY DEF G
    <2> QED BY <1>1, <1>2, <2>1, SubsetsInductive
  <1> QED BY <1>3

\* One of the values changes.
LEMMA SumOfChange ==
    ASSUME NEW S, IsFiniteSet(S), NEW f, \A x \in S : f[x] \in Int, NEW x \in S,
           NEW g, \A y \in S \ {x} : g[y] = f[y], g[x] \in Int
    PROVE  SumOf(g, S) = SumOf(f, S) + g[x] - f[x]
  <1> DEFINE T == S \ {x}
  <1>1. IsFiniteSet(T) /\ (\A y \in T : f[y] \in Int) /\ \A y \in T : g[y] = f[y]
    BY FS_Subset
  <1>2. \A y \in S : g[y] \in Int
    OBVIOUS
  <1>3. SumOf(f, S) = f[x] + SumOf(f, T) /\ SumOf(g, S) = g[x] + SumOf(g, T)
    BY <1>2, SumOfRemove
  <1> HIDE DEF T
  <1>4. SumOf(g, T) = SumOf(f, T) /\ SumOf(f, T) \in Int
    BY <1>1, SumOfSame, SumOfInt
  <1> QED BY <1>3, <1>4

\* What the summands are called does not matter.
LEMMA SumOfRenamed ==
    ASSUME NEW S, IsFiniteSet(S), NEW T, NEW f, \A x \in S : f[x] \in Int,
           NEW e \in [S -> T], \A x, y \in S : e[x] = e[y] => x = y,
           \A z \in T : \E x \in S : e[x] = z,
           NEW g, \A x \in S : g[e[x]] = f[x]
    PROVE  SumOf(g, T) = SumOf(f, S)
  <1> DEFINE Image(s) == {e[x] : x \in s}
             G == {s \in SUBSET S : IsFiniteSet(Image(s)) /\ SumOf(g, Image(s)) = SumOf(f, s)}
  <1>1. {} \in G
    BY SumOfEmpty, FS_EmptySet
  <1>2. ASSUME NEW s \in G, NEW x \in S \ s PROVE s \cup {x} \in G
    <2>1. /\ IsFiniteSet(s) /\ x \notin s /\ f[x] \in Int /\ \A y \in s : f[y] \in Int
      BY FS_Subset
    <2>2. /\ e[x] \notin Image(s) /\ g[e[x]] = f[x]
          /\ \A z \in Image(s) : g[z] \in Int
          /\ Image(s \cup {x}) = Image(s) \cup {e[x]}
      OBVIOUS
    <2>3. SumOf(f, s \cup {x}) = f[x] + SumOf(f, s)
      BY <2>1, SumOfAdd
    <2>4. IsFiniteSet(Image(s)) /\ SumOf(g, Image(s)) = SumOf(f, s)
      OBVIOUS
    <2> HIDE DEF Image
    <2>5. SumOf(g, Image(s) \cup {e[x]}) = g[e[x]] + SumOf(g, Image(s))
      BY <2>1, <2>2, <2>4, SumOfAdd
    <2>6. IsFiniteSet(Image(s) \cup {e[x]})
      BY <2>4, FS_AddElement
    <2> QED BY <2>2, <2>3, <2>4, <2>5, <2>6
  <1>3. G = SUBSET S
    <2> HIDE DEF G
    <2>1. G \in SUBSET (SUBSET S)
      BY DEF G
    <2> QED BY <1>1, <1>2, <2>1, SubsetsInductive
  <1>4. Image(S) = T
    OBVIOUS
  <1> QED BY <1>3, <1>4

LEMMA SumOfZero ==
    ASSUME NEW S, IsFiniteSet(S), NEW f, \A x \in S : f[x] = 0
    PROVE  SumOf(f, S) = 0
  <1>1. \A x \in S : f[x] \in Int /\ f[x] = f[x] + f[x]
    OBVIOUS
  <1> DEFINE a == SumOf(f, S)
  <1>2. a = a + a /\ a \in Int
    BY <1>1, SumOfPlus, SumOfInt
  <1> HIDE DEF a
  <1>3. a = 0
    BY <1>2
  <1> QED BY <1>3 DEF a

\* What is zero outside a part adds up over the part.
LEMMA SumOfSupport ==
    ASSUME NEW S, IsFiniteSet(S), NEW f, \A x \in S : f[x] \in Int,
           NEW T, T \subseteq S, \A x \in S \ T : f[x] = 0
    PROVE  SumOf(f, S) = SumOf(f, T)
  <1> DEFINE R == S \ T
  <1>1. /\ IsFiniteSet(T) /\ IsFiniteSet(R) /\ T \cap R = {} /\ T \cup R = S
        /\ \A x \in T : f[x] \in Int
        /\ \A x \in T \cup R : f[x] \in Int
        /\ \A x \in R : f[x] = 0
    BY FS_Subset
  <1> HIDE DEF R
  <1>2. SumOf(f, T \cup R) = SumOf(f, T) + SumOf(f, R)
    BY <1>1, SumOfUnion
  <1>3. SumOf(f, R) = 0 /\ SumOf(f, T) \in Int
    BY <1>1, SumOfZero, SumOfInt
  <1>4. SumOf(f, S) = SumOf(f, T) + SumOf(f, R)
    BY <1>1, <1>2
  <1> QED BY <1>3, <1>4

\* The sum as a recursive function computes it.
LEMMA SumIsComputed ==
    ASSUME NEW S, IsFiniteSet(S), NEW f, \A x \in S : f[x] \in Int,
           NEW sum, sum = [s \in SUBSET S |->
                              IF s = {} THEN 0
                              ELSE LET x == CHOOSE x \in s : TRUE IN f[x] + sum[s \ {x}]]
    PROVE  sum[S] = SumOf(f, S)
  <1>1. IsSum(sum, f, S)
    BY DEF IsSum, AddUp, AnyOf
  <1>2. PICK k : IsSum(k, f, S) /\ SumOf(f, S) = k[S]
    BY SumOfSum
  <1> QED BY <1>1, <1>2, SumUnique

\* Every element of a finite set that is not empty is outdone by one of them.
LEMMA GreatestElement ==
    ASSUME NEW S, IsFiniteSet(S), S # {}, NEW f, \A x \in S : f[x] \in Int
    PROVE  \E x \in S : \A y \in S : f[x] >= f[y]
  <1> DEFINE G == {s \in SUBSET S : s = {} \/ \E x \in s : \A y \in s : f[x] >= f[y]}
  <1>1. {} \in G
    OBVIOUS
  <1>2. ASSUME NEW s \in G, NEW x \in S \ s PROVE s \cup {x} \in G
    <2>1. CASE s = {}
      <3>1. \A y \in s \cup {x} : f[x] >= f[y]
        BY <2>1
      <3> QED BY <3>1
    <2>2. CASE s # {}
      <3>1. PICK z \in s : \A y \in s : f[z] >= f[y]
        BY <2>2
      <3>2. f[x] \in Int /\ f[z] \in Int /\ \A y \in s : f[y] \in Int
        BY <3>1
      <3>3. CASE f[z] >= f[x]
        <4>1. \A y \in s \cup {x} : f[z] >= f[y]
          BY <3>1, <3>3
        <4> QED BY <4>1
      <3>4. CASE ~(f[z] >= f[x])
        <4>1. \A y \in s \cup {x} : f[x] >= f[y]
          BY <3>1, <3>2, <3>4
        <4> QED BY <4>1
      <3> QED BY <3>3, <3>4
    <2> QED BY <2>1, <2>2
  <1>3. G = SUBSET S
    <2> HIDE DEF G
    <2>1. G \in SUBSET (SUBSET S)
      BY DEF G
    <2> QED BY <1>1, <1>2, <2>1, SubsetsInductive
  <1>4. S \in G
    BY <1>3
  <1> QED BY <1>4

LEMMA Distributes ==
    ASSUME NEW a \in Int, NEW b \in Int, NEW c \in Int
    PROVE  (a + b) * c = a * c + b * c /\ a * c \in Int /\ 0 * c = 0
  OBVIOUS

\* A common factor.
LEMMA SumOfTimes ==
    ASSUME NEW S, IsFiniteSet(S), NEW f, \A x \in S : f[x] \in Int,
           NEW c \in Int, NEW g, \A x \in S : g[x] = f[x] * c
    PROVE  SumOf(g, S) = SumOf(f, S) * c
  <1> DEFINE G == {s \in SUBSET S : SumOf(g, s) = SumOf(f, s) * c}
  <1>1. {} \in G
    <2>1. SumOf(g, {}) = 0 /\ SumOf(f, {}) = 0 /\ 0 * c = 0
      BY SumOfEmpty, Distributes
    <2> QED BY <2>1
  <1>2. ASSUME NEW s \in G, NEW x \in S \ s PROVE s \cup {x} \in G
    <2>1. /\ IsFiniteSet(s) /\ x \notin s
          /\ f[x] \in Int /\ \A y \in s : f[y] \in Int
          /\ g[x] = f[x] * c
      BY FS_Subset
    <2>2. g[x] \in Int /\ \A y \in s : g[y] \in Int
      <3>1. \A y \in S : f[y] * c \in Int
        BY Distributes
      <3> QED BY <3>1
    <2>3. SumOf(f, s \cup {x}) = f[x] + SumOf(f, s)
      BY <2>1, SumOfAdd
    <2>4. SumOf(g, s \cup {x}) = g[x] + SumOf(g, s)
      BY <2>1, <2>2, SumOfAdd
    <2>5. SumOf(f, s) \in Int /\ SumOf(g, s) = SumOf(f, s) * c
      BY <2>1, SumOfInt
    <2> DEFINE a == f[x]
               b == SumOf(f, s)
    <2>6. a \in Int /\ b \in Int
      BY <2>1, <2>5
    <2> HIDE DEF a, b
    <2>7. (a + b) * c = a * c + b * c
      BY <2>6, Distributes
    <2> QED BY <2>1, <2>3, <2>4, <2>5, <2>7 DEF a, b
  <1>3. G = SUBSET S
    <2> HIDE DEF G
    <2>1. G \in SUBSET (SUBSET S)
      BY DEF G
    <2> QED BY <1>1, <1>2, <2>1, SubsetsInductive
  <1> QED BY <1>3

\* Group by group: g names the group of an element, k the sum of a group.
LEMMA SumOfGroups ==
    ASSUME NEW S, IsFiniteSet(S), NEW f, \A x \in S : f[x] \in Int,
           NEW I, IsFiniteSet(I), NEW g, \A x \in S : g[x] \in I,
           NEW k, \A i \in I : k[i] = SumOf(f, {x \in S : g[x] = i})
    PROVE  SumOf(k, I) = SumOf(f, S)
  <1> DEFINE Of(J) == {x \in S : g[x] \in J}
             G == {J \in SUBSET I : SumOf(k, J) = SumOf(f, Of(J))}
  <1>1. {} \in G
    <2>1. Of({}) = {}
      OBVIOUS
    <2> QED BY <2>1, SumOfEmpty
  <1>2. ASSUME NEW J \in G, NEW i \in I \ J PROVE J \cup {i} \in G
    <2> DEFINE one == {x \in S : g[x] = i}
    <2>1. /\ IsFiniteSet(J) /\ IsFiniteSet(Of(J)) /\ IsFiniteSet(one)
          /\ i \notin J
          /\ Of(J) \cap one = {} /\ Of(J \cup {i}) = Of(J) \cup one
          /\ \A x \in Of(J) \cup one : f[x] \in Int
          /\ \A x \in one : f[x] \in Int
      BY FS_Subset
    <2>2. \A j \in J \cup {i} : k[j] \in Int
      <3> TAKE j \in J \cup {i}
      <3> DEFINE T == {x \in S : g[x] = j}
      <3>1. IsFiniteSet(T) /\ \A x \in T : f[x] \in Int
        BY FS_Subset
      <3> HIDE DEF T
      <3>2. SumOf(f, T) \in Int
        BY <3>1, SumOfInt
      <3> QED BY <3>2 DEF T
    <2>3. k[i] = SumOf(f, one) /\ SumOf(k, J) = SumOf(f, Of(J))
      OBVIOUS
    <2> HIDE DEF Of, one
    <2>4. SumOf(k, J \cup {i}) = k[i] + SumOf(k, J)
      BY <2>1, <2>2, SumOfAdd
    <2>5. SumOf(f, Of(J) \cup one) = SumOf(f, Of(J)) + SumOf(f, one)
      BY <2>1, SumOfUnion
    <2>6. SumOf(f, one) \in Int /\ SumOf(k, J) \in Int
      <3>1. \A j \in J : k[j] \in Int
        BY <2>2
      <3> QED BY <2>1, <3>1, SumOfInt
    <2> DEFINE a == SumOf(f, one)
               b == SumOf(k, J)
    <2>7. a \in Int /\ b \in Int /\ SumOf(k, J \cup {i}) = a + b
          /\ SumOf(f, Of(J) \cup one) = b + a
      BY <2>3, <2>4, <2>5, <2>6
    <2>8. a + b = b + a
      <3> HIDE DEF a, b
      <3> QED BY <2>7
    <2>9. SumOf(k, J \cup {i}) = SumOf(f, Of(J \cup {i}))
      BY <2>1, <2>7, <2>8
    <2> QED BY <2>9 DEF Of
  <1>3. G = SUBSET I
    <2> HIDE DEF G
    <2>1. G \in SUBSET (SUBSET I)
      BY DEF G
    <2> QED BY <1>1, <1>2, <2>1, SubsetsInductive
  <1>4. Of(I) = S
    OBVIOUS
  <1> QED BY <1>3, <1>4

\* The same, with the groups named.
LEMMA SumOfNamedGroups ==
    ASSUME NEW S, IsFiniteSet(S), NEW f, \A x \in S : f[x] \in Int,
           NEW I, IsFiniteSet(I), NEW group, \A i \in I : group[i] \subseteq S,
           NEW g, \A x \in S : g[x] \in I /\ x \in group[g[x]],
           \A i \in I : \A x \in group[i] : g[x] = i,
           NEW k, \A i \in I : k[i] = SumOf(f, group[i])
    PROVE  SumOf(k, I) = SumOf(f, S)
  <1>1. ASSUME NEW i \in I PROVE group[i] = {x \in S : g[x] = i}
    OBVIOUS
  <1>2. \A i \in I : k[i] = SumOf(f, {x \in S : g[x] = i})
    BY <1>1
  <1> QED BY <1>2, SumOfGroups
=============================================================================
