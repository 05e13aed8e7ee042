------------------------------ MODULE SumFacts ------------------------------
(***************************************************************************)
(* Sums of natural numbers over finite sets and along sequences, for the   *)
(* proofs about what is counted with folds: claims, quantities.  The folds *)
(* of the community modules iterate over CHOOSE; here is what they come to *)
(* and that the order does not matter.                                     *)
(***************************************************************************)
EXTENDS Integers, Sequences, FiniteSets, FiniteSetTheorems, SequenceTheorems,
        WellFoundedInduction, TLAPS

-----------------------------------------------------------------------------
(* Induction, with a set in the place of a predicate.                      *)

\* A set of numbers has a least member.
LEMMA NatMin ==
  ASSUME NEW T, T \subseteq Nat, T # {}
  PROVE  \E x \in T : \A y \in T : x <= y
<1>1. IsWellFoundedOn(OpToRel(<, Nat), Nat)
  BY NatLessThanWellFounded
<1>2. PICK x \in T : \A y \in T : ~(<<y, x>> \in OpToRel(<, Nat))
  BY <1>1, WFMin
<1>3. \A y \in T : ~(y < x)
  BY <1>2, Zenon DEF OpToRel
<1> QED
  BY <1>3

\* Induction over the numbers, as membership in a set.
LEMMA NatSetInduction ==
  ASSUME NEW S, 0 \in S, \A n \in Nat : n \in S => n + 1 \in S
  PROVE  Nat \subseteq S
<1> SUFFICES ASSUME Nat \ S # {} PROVE FALSE
  OBVIOUS
<1>1. PICK x \in Nat \ S : \A y \in Nat \ S : x <= y
  BY NatMin
<1>2. x - 1 \in Nat
  BY <1>1
<1>3. x - 1 \in S
  BY <1>1, <1>2
<1> QED
  BY <1>1, <1>2, <1>3

-----------------------------------------------------------------------------
(* Sums over a finite set.                                                 *)

\* The iteration by which MapThenSumSet adds: Sums says that `it' is that of f.
Pick(s) == CHOOSE x \in s : TRUE

SumOver(f, S, it) ==
  it = [s \in SUBSET S |-> IF s = {} THEN 0 ELSE f[Pick(s)] + it[s \ {Pick(s)}]]

Sums(f, S, it) ==
  \A s \in SUBSET S : it[s] = IF s = {} THEN 0 ELSE f[Pick(s)] + it[s \ {Pick(s)}]

Sum(f, S) == (CHOOSE it : SumOver(f, S, it))[S]

\* Taking members out of a finite set one by one.
LEMMA PickFacts ==
  ASSUME NEW S, IsFiniteSet(S), NEW s \in SUBSET S
  PROVE  /\ IsFiniteSet(s) /\ Cardinality(s) \in Nat /\ Cardinality(s) <= Cardinality(S)
         /\ Cardinality(s) = 0 <=> s = {}
         /\ s # {} => /\ Pick(s) \in s
                      /\ s \ {Pick(s)} \in SUBSET S
                      /\ Cardinality(s \ {Pick(s)}) = Cardinality(s) - 1
<1>1. IsFiniteSet(s) /\ Cardinality(s) <= Cardinality(S)
  BY FS_Subset
<1>2. Cardinality(s) \in Nat /\ (Cardinality(s) = 0 <=> s = {})
  BY <1>1, FS_CardinalityType, FS_EmptySet
<1>3. s # {} => Pick(s) \in s
  BY DEF Pick
<1>4. s # {} => Cardinality(s \ {Pick(s)}) = Cardinality(s) - 1
  BY <1>1, <1>3, FS_RemoveElement
<1> QED
  BY <1>1, <1>2, <1>3, <1>4

\* A finite set is used up when elements are taken out one by one.
LEMMA SubsetInduction ==
  ASSUME NEW S, IsFiniteSet(S), NEW T, {} \in T,
         \A s \in SUBSET S : s # {} /\ s \ {Pick(s)} \in T => s \in T
  PROVE  SUBSET S \subseteq T
<1> DEFINE N == {n \in Nat : \A s \in SUBSET S : Cardinality(s) <= n => s \in T}
<1>1. 0 \in N
  <2> SUFFICES ASSUME NEW s \in SUBSET S, Cardinality(s) <= 0 PROVE s \in T
    OBVIOUS
  <2>1. Cardinality(s) \in Nat /\ (Cardinality(s) = 0 <=> s = {})
    BY PickFacts
  <2>2. Cardinality(s) = 0
    BY ONLY <2>1, Cardinality(s) <= 0
  <2> QED
    BY <2>1, <2>2
<1>2. ASSUME NEW n \in Nat, n \in N PROVE n + 1 \in N
  <2> SUFFICES ASSUME NEW s \in SUBSET S, Cardinality(s) <= n + 1 PROVE s \in T
    OBVIOUS
  <2>1. CASE s = {}
    BY <2>1
  <2>2. CASE s # {}
    <3>1. s \ {Pick(s)} \in SUBSET S /\ Cardinality(s \ {Pick(s)}) = Cardinality(s) - 1
          /\ Cardinality(s) \in Nat
      BY <2>2, PickFacts
    <3>2. s \ {Pick(s)} \in T
      BY <1>2, <3>1
    <3> QED
      BY <2>2, <3>2
  <2> QED
    BY <2>1, <2>2
<1> HIDE DEF N
<1>3. Nat \subseteq N
  BY <1>1, <1>2, NatSetInduction
<1>4. Cardinality(S) \in Nat
  BY FS_CardinalityType
<1>5. \A s \in SUBSET S : Cardinality(s) <= Cardinality(S)
  BY PickFacts
<1> QED
  BY <1>3, <1>4, <1>5 DEF N

\* What the fold of the community modules needs: the recursion has a solution.
LEMMA SumExists ==
  ASSUME NEW S, IsFiniteSet(S), NEW f \in [S -> Nat]
  PROVE  \E it \in [SUBSET S -> Nat] : SumOver(f, S, it)
<1> DEFINE Solves(it, s) == it[s] = IF s = {} THEN 0 ELSE f[Pick(s)] + it[s \ {Pick(s)}]
           N == {n \in Nat : \E it \in [SUBSET S -> Nat] :
                               \A s \in SUBSET S : Cardinality(s) <= n => Solves(it, s)}
<1>1. 0 \in N
  <2> DEFINE it == [s \in SUBSET S |-> 0]
  <2>1. it \in [SUBSET S -> Nat]
    OBVIOUS
  <2>2. \A s \in SUBSET S : Cardinality(s) <= 0 => Solves(it, s)
    <3> SUFFICES ASSUME NEW s \in SUBSET S, Cardinality(s) <= 0 PROVE Solves(it, s)
      OBVIOUS
    <3>1. Cardinality(s) \in Nat /\ (Cardinality(s) = 0 <=> s = {})
      BY PickFacts
    <3>2. Cardinality(s) = 0
      BY ONLY <3>1, Cardinality(s) <= 0
    <3> QED
      BY <3>1, <3>2
  <2> HIDE DEF it, Solves
  <2> QED
    BY <2>1, <2>2
<1>2. ASSUME NEW n \in Nat, n \in N PROVE n + 1 \in N
  <2>1. PICK it \in [SUBSET S -> Nat] : \A s \in SUBSET S : Cardinality(s) <= n => Solves(it, s)
    BY <1>2
  <2> DEFINE new == [s \in SUBSET S |-> IF s = {} THEN 0 ELSE f[Pick(s)] + it[s \ {Pick(s)}]]
  <2>2. new \in [SUBSET S -> Nat]
    <3>1. ASSUME NEW s \in SUBSET S, s # {} PROVE f[Pick(s)] + it[s \ {Pick(s)}] \in Nat
      <4>1. Pick(s) \in S /\ s \ {Pick(s)} \in SUBSET S
        BY <3>1, PickFacts
      <4>2. f[Pick(s)] \in Nat /\ it[s \ {Pick(s)}] \in Nat
        BY <4>1
      <4> QED
        BY <4>2
    <3> QED
      BY <3>1
  <2>3. ASSUME NEW s \in SUBSET S, Cardinality(s) <= n + 1 PROVE Solves(new, s)
    <3>1. CASE s = {}
      BY <3>1
    <3>2. CASE s # {}
      <4> DEFINE r == s \ {Pick(s)}
      <4>1. r \in SUBSET S /\ Cardinality(r) = Cardinality(s) - 1 /\ Cardinality(s) \in Nat
        BY <3>2, PickFacts
      <4>2. Cardinality(r) <= n
        BY <2>3, <4>1
      <4>3. it[r] = IF r = {} THEN 0 ELSE f[Pick(r)] + it[r \ {Pick(r)}]
        BY <2>1, <4>1, <4>2
      <4>4. new[r] = IF r = {} THEN 0 ELSE f[Pick(r)] + it[r \ {Pick(r)}]
        BY <4>1
      <4>5. new[s] = f[Pick(s)] + it[r]
        BY <3>2
      <4> HIDE DEF r, new
      <4>6. new[s] = f[Pick(s)] + new[r]
        BY ONLY <4>3, <4>4, <4>5
      <4> QED
        BY <3>2, <4>6 DEF r
    <3> QED
      BY <3>1, <3>2
  <2>4. n + 1 \in Nat
    OBVIOUS
  <2> HIDE DEF new, Solves
  <2> QED
    BY <2>2, <2>3, <2>4
<1>3. Nat \subseteq N
  <2> HIDE DEF N
  <2> QED
    BY <1>1, <1>2, NatSetInduction
<1>4. Cardinality(S) \in Nat
  BY FS_CardinalityType
<1>5. PICK it \in [SUBSET S -> Nat] : \A s \in SUBSET S : Cardinality(s) <= Cardinality(S) => Solves(it, s)
  <2> HIDE DEF Solves
  <2> QED
    BY <1>3, <1>4
<1>6. \A s \in SUBSET S : Solves(it, s)
  <2>1. \A s \in SUBSET S : Cardinality(s) <= Cardinality(S)
    BY PickFacts
  <2> HIDE DEF Solves
  <2> QED
    BY <1>5, <2>1
<1>7. it = [s \in SUBSET S |-> it[s]]
  BY <1>5
<1>8. SumOver(f, S, it)
  BY <1>6, <1>7 DEF SumOver
<1> QED
  BY <1>5, <1>8

\* Sum is the iteration's value.
LEMMA SumIs ==
  ASSUME NEW S, IsFiniteSet(S), NEW f \in [S -> Nat]
  PROVE  \E it : Sums(f, S, it) /\ Sum(f, S) = it[S]
<1> DEFINE it == CHOOSE i : SumOver(f, S, i)
<1>1. \E i : SumOver(f, S, i)
  BY SumExists
<1>2. SumOver(f, S, it)
  BY <1>1, Zenon
<1>3. Sum(f, S) = it[S]
  BY DEF Sum
<1> HIDE DEF it
<1>4. Sums(f, S, it)
  BY <1>2 DEF SumOver, Sums
<1> QED
  BY <1>3, <1>4

\* The sum of zeros.
LEMMA SumOfNothing ==
  ASSUME NEW S, IsFiniteSet(S), NEW f \in [S -> Nat], \A x \in S : f[x] = 0
  PROVE  Sum(f, S) = 0
<1>0. PICK it : Sums(f, S, it) /\ Sum(f, S) = it[S]
  BY SumIs
<1>1. \A s \in SUBSET S : it[s] = IF s = {} THEN 0 ELSE f[Pick(s)] + it[s \ {Pick(s)}]
  BY <1>0 DEF Sums
<1> DEFINE T == {s \in SUBSET S : it[s] = 0}
<1>2. {} \in T
  BY <1>1
<1>3. ASSUME NEW s \in SUBSET S, s # {}, s \ {Pick(s)} \in T PROVE s \in T
  <2>1. f[Pick(s)] = 0
    BY <1>3, PickFacts
  <2>2. it[s \ {Pick(s)}] = 0
    BY <1>3
  <2>3. it[s] = f[Pick(s)] + it[s \ {Pick(s)}]
    BY <1>1, <1>3
  <2> QED
    BY <2>1, <2>2, <2>3
<1> HIDE DEF T
<1>4. SUBSET S \subseteq T
  BY <1>2, <1>3, SubsetInduction
<1> QED
  BY <1>0, <1>4 DEF T

\* One summand grows by one.
LEMMA SumGrows ==
  ASSUME NEW S, IsFiniteSet(S), NEW f \in [S -> Nat], NEW p \in S, NEW g \in [S -> Nat],
         g[p] = f[p] + 1, \A x \in S \ {p} : g[x] = f[x]
  PROVE  Sum(g, S) = Sum(f, S) + 1
<1>1. PICK i : Sums(f, S, i) /\ Sum(f, S) = i[S]
  BY SumIs
<1>2. PICK j : Sums(g, S, j) /\ Sum(g, S) = j[S]
  BY SumIs
<1>3. \A s \in SUBSET S : i[s] = IF s = {} THEN 0 ELSE f[Pick(s)] + i[s \ {Pick(s)}]
  BY <1>1 DEF Sums
<1>4. \A s \in SUBSET S : j[s] = IF s = {} THEN 0 ELSE g[Pick(s)] + j[s \ {Pick(s)}]
  BY <1>2 DEF Sums
<1> DEFINE T == {s \in SUBSET S : i[s] \in Nat /\ j[s] = i[s] + (IF p \in s THEN 1 ELSE 0)}
<1>5. {} \in T
  <2>1. {} \in SUBSET S /\ i[{}] = 0 /\ j[{}] = 0
    BY <1>3, <1>4
  <2> QED
    BY <2>1
<1>6. ASSUME NEW s \in SUBSET S, s # {}, s \ {Pick(s)} \in T PROVE s \in T
  <2> DEFINE x == Pick(s)
             r == s \ {x}
  <2>1. x \in s /\ x \in S
    BY <1>6, PickFacts
  <2>2. i[r] \in Nat /\ j[r] = i[r] + (IF p \in r THEN 1 ELSE 0)
    BY <1>6
  <2>3. i[s] = f[x] + i[r] /\ j[s] = g[x] + j[r]
    BY <1>3, <1>4, <1>6
  <2>4. f[x] \in Nat /\ g[x] = f[x] + (IF x = p THEN 1 ELSE 0)
    BY <2>1
  <2>5. (p \in s <=> (x = p \/ p \in r)) /\ ~(x = p /\ p \in r)
    BY <2>1
  <2> HIDE DEF x, r
  <2>6. i[s] \in Nat /\ j[s] = i[s] + (IF p \in s THEN 1 ELSE 0)
    BY ONLY <2>2, <2>3, <2>4, <2>5
  <2> QED
    BY <2>6
<1> HIDE DEF T
<1>7. SUBSET S \subseteq T
  BY <1>5, <1>6, SubsetInduction
<1>8. S \in T
  BY <1>7
<1> QED
  BY <1>1, <1>2, <1>8 DEF T

\* No summand is greater than its counterpart.
LEMMA SumBounded ==
  ASSUME NEW S, IsFiniteSet(S), NEW f \in [S -> Nat], NEW g \in [S -> Nat],
         \A x \in S : f[x] <= g[x]
  PROVE  Sum(f, S) <= Sum(g, S) /\ Sum(f, S) \in Nat /\ Sum(g, S) \in Nat
<1>1. PICK i : Sums(f, S, i) /\ Sum(f, S) = i[S]
  BY SumIs
<1>2. PICK j : Sums(g, S, j) /\ Sum(g, S) = j[S]
  BY SumIs
<1>3. \A s \in SUBSET S : i[s] = IF s = {} THEN 0 ELSE f[Pick(s)] + i[s \ {Pick(s)}]
  BY <1>1 DEF Sums
<1>4. \A s \in SUBSET S : j[s] = IF s = {} THEN 0 ELSE g[Pick(s)] + j[s \ {Pick(s)}]
  BY <1>2 DEF Sums
<1> DEFINE T == {s \in SUBSET S : i[s] \in Nat /\ j[s] \in Nat /\ i[s] <= j[s]}
<1>5. {} \in T
  <2>1. {} \in SUBSET S /\ i[{}] = 0 /\ j[{}] = 0
    BY <1>3, <1>4
  <2> QED
    BY <2>1
<1>6. ASSUME NEW s \in SUBSET S, s # {}, s \ {Pick(s)} \in T PROVE s \in T
  <2> DEFINE x == Pick(s)
             r == s \ {x}
  <2>1. x \in S
    BY <1>6, PickFacts
  <2>2. i[r] \in Nat /\ j[r] \in Nat /\ i[r] <= j[r]
    BY <1>6
  <2>3. i[s] = f[x] + i[r] /\ j[s] = g[x] + j[r]
    BY <1>3, <1>4, <1>6
  <2>4. f[x] \in Nat /\ g[x] \in Nat /\ f[x] <= g[x]
    BY <2>1
  <2> HIDE DEF x, r
  <2>5. i[s] \in Nat /\ j[s] \in Nat /\ i[s] <= j[s]
    BY ONLY <2>2, <2>3, <2>4
  <2> QED
    BY <2>5
<1> HIDE DEF T
<1>7. SUBSET S \subseteq T
  BY <1>5, <1>6, SubsetInduction
<1>8. S \in T
  BY <1>7
<1> QED
  BY <1>1, <1>2, <1>8 DEF T

\* What iterates like this adds up too: the order in a summand does not matter.
Counts(f, S, it) ==
  \A s \in SUBSET S : it[s] = IF s = {} THEN 0 ELSE it[s \ {Pick(s)}] + f[Pick(s)]

CountOver(f, S, it) ==
  it = [s \in SUBSET S |-> IF s = {} THEN 0 ELSE it[s \ {Pick(s)}] + f[Pick(s)]]

LEMMA CountExists ==
  ASSUME NEW S, IsFiniteSet(S), NEW f \in [S -> Nat]
  PROVE  \E it : CountOver(f, S, it)
<1>1. PICK it \in [SUBSET S -> Nat] : SumOver(f, S, it)
  BY SumExists
<1>2. ASSUME NEW s \in SUBSET S
      PROVE  it[s] = IF s = {} THEN 0 ELSE it[s \ {Pick(s)}] + f[Pick(s)]
  <2>1. it[s] = IF s = {} THEN 0 ELSE f[Pick(s)] + it[s \ {Pick(s)}]
    BY <1>1 DEF SumOver
  <2>2. s # {} => f[Pick(s)] \in Nat /\ it[s \ {Pick(s)}] \in Nat
    <3>1. s # {} => Pick(s) \in S /\ s \ {Pick(s)} \in SUBSET S
      BY PickFacts
    <3> QED
      BY <3>1
  <2> QED
    BY <2>1, <2>2
<1>3. it = [s \in SUBSET S |-> it[s]]
  OBVIOUS
<1>4. CountOver(f, S, it)
  BY <1>2, <1>3 DEF CountOver
<1> QED
  BY <1>4

\* An iteration over a set is one over its subsets.
LEMMA SumLocal ==
  ASSUME NEW S, IsFiniteSet(S), NEW f \in [S -> Nat], NEW i,
         Sums(f, S, i) \/ Counts(f, S, i),
         NEW R \in SUBSET S, NEW g \in [R -> Nat], \A x \in R : g[x] = f[x]
  PROVE  i[R] = Sum(g, R) /\ Sum(g, R) \in Nat
<1>0. IsFiniteSet(R)
  BY FS_Subset
<1>1. PICK j : Sums(g, R, j) /\ Sum(g, R) = j[R]
  BY <1>0, SumIs
<1>2. \A s \in SUBSET R : j[s] = IF s = {} THEN 0 ELSE g[Pick(s)] + j[s \ {Pick(s)}]
  BY <1>1 DEF Sums
<1>3. \A s \in SUBSET S : \/ i[s] = IF s = {} THEN 0 ELSE f[Pick(s)] + i[s \ {Pick(s)}]
                          \/ i[s] = IF s = {} THEN 0 ELSE i[s \ {Pick(s)}] + f[Pick(s)]
  BY DEF Sums, Counts
<1> DEFINE T == {s \in SUBSET R : i[s] \in Nat /\ j[s] = i[s]}
<1>4. {} \in T
  <2>1. {} \in SUBSET S /\ i[{}] = 0 /\ j[{}] = 0
    BY <1>2, <1>3
  <2> QED
    BY <2>1
<1>5. ASSUME NEW s \in SUBSET R, s # {}, s \ {Pick(s)} \in T PROVE s \in T
  <2> DEFINE x == Pick(s)
             r == s \ {x}
  <2>1. x \in R /\ f[x] \in Nat /\ g[x] = f[x]
    BY <1>0, <1>5, PickFacts
  <2>2. i[r] \in Nat /\ j[r] = i[r]
    BY <1>5
  <2>3. j[s] = g[x] + j[r]
    BY <1>2, <1>5
  <2>4. i[s] = f[x] + i[r] \/ i[s] = i[r] + f[x]
    BY <1>3, <1>5
  <2> HIDE DEF x, r
  <2>5. i[s] \in Nat /\ j[s] = i[s]
    BY ONLY <2>1, <2>2, <2>3, <2>4
  <2> QED
    BY <2>5
<1> HIDE DEF T
<1>6. SUBSET R \subseteq T
  BY <1>0, <1>4, <1>5, SubsetInduction
<1>7. R \in T
  BY <1>6
<1> QED
  BY <1>1, <1>7 DEF T

\* Induction over the subsets of a finite set, from all smaller ones.
LEMMA SmallerInduction ==
  ASSUME NEW S, IsFiniteSet(S), NEW T,
         \A s \in SUBSET S : (\A r \in SUBSET s : r # s => r \in T) => s \in T
  PROVE  SUBSET S \subseteq T
<1> DEFINE N == {n \in Nat : \A s \in SUBSET S : Cardinality(s) <= n => s \in T}
<1>1. 0 \in N
  <2> SUFFICES ASSUME NEW s \in SUBSET S, Cardinality(s) <= 0 PROVE s \in T
    OBVIOUS
  <2>1. Cardinality(s) \in Nat /\ (Cardinality(s) = 0 <=> s = {})
    BY PickFacts
  <2>2. Cardinality(s) = 0
    BY ONLY <2>1, Cardinality(s) <= 0
  <2> QED
    BY <2>1, <2>2
<1>2. ASSUME NEW n \in Nat, n \in N PROVE n + 1 \in N
  <2> SUFFICES ASSUME NEW s \in SUBSET S, Cardinality(s) <= n + 1 PROVE s \in T
    OBVIOUS
  <2>1. IsFiniteSet(s) /\ Cardinality(s) \in Nat
    BY PickFacts
  <2>2. ASSUME NEW r \in SUBSET s, r # s PROVE r \in T
    <3>1. Cardinality(r) \in Nat /\ Cardinality(r) <= Cardinality(s)
      BY <2>1, PickFacts
    <3>2. Cardinality(r) # Cardinality(s)
      BY <2>1, <2>2, FS_Subset
    <3>3. Cardinality(r) <= n
      BY ONLY <2>1, <3>1, <3>2, n \in Nat, Cardinality(s) <= n + 1
    <3> QED
      BY <1>2, <3>3
  <2> QED
    BY <2>2
<1> HIDE DEF N
<1>3. Nat \subseteq N
  BY <1>1, <1>2, NatSetInduction
<1>4. Cardinality(S) \in Nat
  BY FS_CardinalityType
<1>5. \A s \in SUBSET S : Cardinality(s) <= Cardinality(S)
  BY PickFacts
<1> QED
  BY <1>3, <1>4, <1>5 DEF N

\* A summand can be taken out first, whichever it is.
LEMMA SumRemove ==
  ASSUME NEW S, IsFiniteSet(S), NEW f \in [S -> Nat], NEW p \in S,
         NEW g \in [S \ {p} -> Nat], \A x \in S \ {p} : g[x] = f[x]
  PROVE  Sum(f, S) = f[p] + Sum(g, S \ {p}) /\ Sum(g, S \ {p}) \in Nat
<1>1. PICK i : Sums(f, S, i) /\ Sum(f, S) = i[S]
  BY SumIs
<1>2. \A s \in SUBSET S : i[s] = IF s = {} THEN 0 ELSE f[Pick(s)] + i[s \ {Pick(s)}]
  BY <1>1 DEF Sums
<1> DEFINE Splits(s) == i[s] \in Nat /\ \A q \in s : i[s] = f[q] + i[s \ {q}]
           T == {s \in SUBSET S : Splits(s)}
<1>3. ASSUME NEW s \in SUBSET S, \A r \in SUBSET s : r # s => r \in T PROVE s \in T
  <2>1. CASE s = {}
    <3>1. i[s] = 0
      BY <1>2, <2>1
    <3> QED
      BY <2>1, <3>1
  <2>2. CASE s # {}
    <3> DEFINE x == Pick(s)
               r == s \ {x}
    <3>1. x \in s /\ x \in S /\ f[x] \in Nat
      BY <2>2, PickFacts
    <3>2. r \in T
      BY <1>3, <3>1
    <3>3. i[r] \in Nat /\ \A q \in r : i[r] = f[q] + i[r \ {q}]
      BY <3>2
    <3>4. i[s] = f[x] + i[r]
      BY <1>2, <2>2
    <3>5. ASSUME NEW q \in s, q # x PROVE i[s] = f[q] + i[s \ {q}]
      <4>1. q \in r /\ f[q] \in Nat /\ r \ {q} = (s \ {q}) \ {x}
        BY <3>5
      <4>2. s \ {q} \in T /\ x \in s \ {q}
        BY <1>3, <3>1, <3>5
      <4>3. i[s \ {q}] = f[x] + i[(s \ {q}) \ {x}]
        BY <4>2
      <4>4. r \ {q} \in T
        BY <1>3, <4>1
      <4>5. i[r \ {q}] \in Nat
        BY <4>4
      <4>6. i[r] = f[q] + i[r \ {q}]
        BY <3>3, <4>1
      <4> HIDE DEF x, r
      <4>7. i[s \ {q}] = f[x] + i[r \ {q}]
        BY <4>1, <4>3
      <4> QED
        BY ONLY <3>1, <3>4, <4>1, <4>5, <4>6, <4>7
    <3>6. ASSUME NEW q \in s PROVE i[s] = f[q] + i[s \ {q}]
      BY <3>4, <3>5
    <3>7. i[s] \in Nat
      <4> HIDE DEF x, r
      <4> QED
        BY ONLY <3>1, <3>3, <3>4
    <3> QED
      BY <3>6, <3>7
  <2> QED
    BY <2>1, <2>2
<1>4. SUBSET S \subseteq T
  <2> HIDE DEF T
  <2> QED
    BY <1>3, SmallerInduction
<1>5. i[S] = f[p] + i[S \ {p}]
  BY <1>4
<1>6. S \ {p} \in SUBSET S
  OBVIOUS
<1>7. i[S \ {p}] = Sum(g, S \ {p}) /\ Sum(g, S \ {p}) \in Nat
  BY <1>1, <1>6, SumLocal
<1> QED
  BY <1>1, <1>5, <1>7

-----------------------------------------------------------------------------
(* Sums along a sequence.                                                  *)

Total(w) == Sum(w, DOMAIN w)

LEMMA TotalType ==
  ASSUME NEW w \in Seq(Nat)
  PROVE  IsFiniteSet(DOMAIN w) /\ w \in [DOMAIN w -> Nat] /\ Total(w) \in Nat
<1>1. DOMAIN w = 1 .. Len(w) /\ Len(w) \in Nat /\ w \in [DOMAIN w -> Nat]
  OBVIOUS
<1>2. IsFiniteSet(DOMAIN w)
  BY <1>1, FS_Interval
<1>3. PICK i : Sums(w, DOMAIN w, i)
  BY <1>1, <1>2, SumIs
<1>4. Total(w) \in Nat
  <2>1. DOMAIN w \in SUBSET DOMAIN w
    OBVIOUS
  <2> QED
    BY <1>1, <1>2, <1>3, <2>1, SumLocal DEF Total
<1> QED
  BY <1>1, <1>2, <1>4

LEMMA TotalOfNothing ==
  ASSUME NEW w \in Seq(Nat), \A i \in DOMAIN w : w[i] = 0
  PROVE  Total(w) = 0
BY TotalType, SumOfNothing DEF Total

LEMMA TotalAppend ==
  ASSUME NEW w \in Seq(Nat), NEW x \in Nat
  PROVE  Total(Append(w, x)) = Total(w) + x
<1> DEFINE v == Append(w, x)
           n == Len(w) + 1
<1>1. /\ v \in Seq(Nat) /\ Len(w) \in Nat /\ DOMAIN w = 1 .. Len(w) /\ DOMAIN v = 1 .. n
      /\ v[n] = x /\ \A i \in DOMAIN w : v[i] = w[i]
  OBVIOUS
<1>2. DOMAIN v \ {n} = DOMAIN w /\ n \in DOMAIN v
  BY <1>1
<1>3. IsFiniteSet(DOMAIN v) /\ v \in [DOMAIN v -> Nat] /\ w \in [DOMAIN w -> Nat] /\ Total(w) \in Nat
  BY <1>1, TotalType
<1> HIDE DEF v, n
<1>4. Sum(v, DOMAIN v) = v[n] + Sum(w, DOMAIN v \ {n})
  <2>1. w \in [DOMAIN v \ {n} -> Nat] /\ \A i \in DOMAIN v \ {n} : w[i] = v[i]
    BY <1>1, <1>2, <1>3
  <2> QED
    BY <1>2, <1>3, <2>1, SumRemove
<1>5. Total(v) = x + Total(w)
  BY <1>1, <1>2, <1>4 DEF Total
<1> QED
  BY <1>3, <1>5 DEF v

LEMMA ConcatNumbers ==
  ASSUME NEW s \in Seq(Nat), NEW t \in Seq(Nat), NEW u \in Seq(Nat)
  PROVE  (s \o t) \o u = s \o (t \o u)
BY ConcatAssociative

LEMMA TotalConcat ==
  ASSUME NEW w \in Seq(Nat), NEW v \in Seq(Nat)
  PROVE  Total(w \o v) = Total(w) + Total(v)
<1> DEFINE N == {n \in Nat : \A u \in Seq(Nat) : Len(u) = n => Total(w \o u) = Total(w) + Total(u)}
<1>1. 0 \in N
  <2> SUFFICES ASSUME NEW u \in Seq(Nat), Len(u) = 0 PROVE Total(w \o u) = Total(w) + Total(u)
    OBVIOUS
  <2>1. u = <<>> /\ DOMAIN u = {}
    OBVIOUS
  <2>2. w \o u = w
    BY <2>1
  <2>3. Total(u) = 0 /\ Total(w) \in Nat
    BY <2>1, TotalOfNothing, TotalType
  <2> QED
    BY <2>2, <2>3
<1>2. ASSUME NEW n \in Nat, n \in N PROVE n + 1 \in N
  <2> SUFFICES ASSUME NEW u \in Seq(Nat), Len(u) = n + 1 PROVE Total(w \o u) = Total(w) + Total(u)
    OBVIOUS
  <2> DEFINE t == SubSeq(u, 1, n)
             x == u[n + 1]
  <2>1. t \in Seq(Nat) /\ Len(t) = n /\ x \in Nat
    OBVIOUS
  <2>2. u = Append(t, x)
    OBVIOUS
  <2> HIDE DEF t, x
  <2>3. w \o u = Append(w \o t, x) /\ w \o t \in Seq(Nat)
    <3>1. w \o t \in Seq(Nat) /\ <<x>> \in Seq(Nat)
      BY <2>1
    <3>2. u = t \o <<x>> /\ Append(w \o t, x) = (w \o t) \o <<x>>
      BY <2>1, <2>2, <3>1, AppendIsConcat
    <3>3. w \o (t \o <<x>>) = (w \o t) \o <<x>>
      BY <2>1, <3>1, ConcatNumbers
    <3> QED
      BY <3>1, <3>2, <3>3
  <2>4. Total(w \o t) = Total(w) + Total(t)
    BY <1>2, <2>1
  <2>5. Total(w \o u) = Total(w \o t) + x /\ Total(u) = Total(t) + x
    BY <2>1, <2>2, <2>3, TotalAppend
  <2>6. Total(w) \in Nat /\ Total(t) \in Nat
    BY <2>1, TotalType
  <2> QED
    BY <2>1, <2>4, <2>5, <2>6
<1>3. Nat \subseteq N
  <2> HIDE DEF N
  <2> QED
    BY <1>1, <1>2, NatSetInduction
<1>4. Len(v) \in Nat
  OBVIOUS
<1> QED
  BY <1>3, <1>4

\* All but one of the summands are zero.
LEMMA TotalSingle ==
  ASSUME NEW w \in Seq(Nat), NEW i \in DOMAIN w, \A j \in DOMAIN w \ {i} : w[j] = 0
  PROVE  Total(w) = w[i]
<1> DEFINE S == DOMAIN w
           g == [j \in S \ {i} |-> 0]
<1>1. IsFiniteSet(S) /\ w \in [S -> Nat]
  BY TotalType
<1>2. g \in [S \ {i} -> Nat] /\ (\A j \in S \ {i} : g[j] = 0 /\ g[j] = w[j]) /\ IsFiniteSet(S \ {i})
  BY <1>1, FS_Subset
<1>3. w[i] \in Nat
  BY <1>1
<1> HIDE DEF S, g
<1>4. Sum(g, S \ {i}) = 0
  BY <1>2, SumOfNothing
<1>5. Sum(w, S) = w[i] + Sum(g, S \ {i})
  BY <1>1, <1>2, SumRemove DEF S
<1> QED
  BY <1>3, <1>4, <1>5 DEF S, Total

=============================================================================
