----------------------------- MODULE Arithmetic -----------------------------
(***************************************************************************)
(* Facts that the proofs of several modules rest on: induction over the    *)
(* naturals and over finite sets, division with a rest, sums, recursion,   *)
(* multiples and powers of two.                                            *)
(*                                                                         *)
(* Induction is stated about a set of numbers in place of a predicate,     *)
(* as the provers take sets as arguments and not operators.                *)
(***************************************************************************)
EXTENDS Integers, FiniteSets, Functions, FiniteSetTheorems, TLAPS

-----------------------------------------------------------------------------
(* Induction.                                                              *)

\* A set of naturals that has 0 and with every number the next has them all.
LEMMA SetInduction ==
  ASSUME NEW T, 0 \in T, \A n \in Nat : n \in T => n + 1 \in T
  PROVE  \A n \in Nat : n \in T
<1> DEFINE R == OpToRel(<, Nat)
           U == Nat \ T
<1>1. IsWellFoundedOn(R, Nat)
  BY NatLessThanWellFounded
<1>2. SUFFICES ASSUME U # {} PROVE FALSE
  OBVIOUS
<1>3. PICK x \in U : \A y \in U : ~(<<y, x>> \in R)
  BY <1>1, <1>2, WFMin
<1>4. \A y \in U : ~(y < x)
  BY <1>3 DEF OpToRel
<1>5. x \in Nat /\ x # 0 /\ x \notin T
  BY <1>3
<1>6. x - 1 \in Nat /\ x - 1 < x /\ (x - 1) + 1 = x
  BY <1>5
<1>7. x - 1 \in T
  BY <1>4, <1>6
<1> QED
  BY <1>5, <1>6, <1>7

\* A set of naturals that is not empty has a least element.
LEMMA LeastNat ==
  ASSUME NEW U \in SUBSET Nat, U # {}
  PROVE  \E x \in U : \A y \in U : x <= y
<1> DEFINE R == OpToRel(<, Nat)
<1>1. IsWellFoundedOn(R, Nat)
  BY NatLessThanWellFounded
<1>2. PICK x \in U : \A y \in U : ~(<<y, x>> \in R)
  BY <1>1, WFMin
<1>3. \A y \in U : ~(y < x)
  BY <1>2 DEF OpToRel
<1> QED
  BY <1>3

\* A set of naturals with an upper bound has a greatest element.
LEMMA GreatestNat ==
  ASSUME NEW U \in SUBSET Nat, U # {}, NEW b \in Nat, \A x \in U : x <= b
  PROVE  \E x \in U : \A y \in U : y <= x
<1> DEFINE D == {b - x : x \in U}
<1>1. D \in SUBSET Nat /\ D # {}
  <2>1. \A x \in U : x \in Nat /\ b - x \in Nat
    OBVIOUS
  <2> QED
    BY <2>1
<1>2. PICK d \in D : \A y \in D : d <= y
  <2> HIDE DEF D
  <2> QED
    BY <1>1, LeastNat
<1>3. PICK x \in U : d = b - x
  BY <1>2
<1>4. ASSUME NEW y \in U PROVE y <= x
  <2>1. b - y \in D /\ b - x <= b - y
    BY <1>2, <1>3
  <2> QED
    BY <2>1
<1> QED
  BY <1>4

\* A property of subsets, given as their set, that holds of the empty set and is
\* kept by each added element holds of the whole finite set.
LEMMA FiniteInduction ==
  ASSUME NEW S, NEW T, IsFiniteSet(S), {} \in T,
         \A A \in SUBSET S : \A x \in S \ A : A \in T => A \cup {x} \in T
  PROVE  S \in T
<1> DEFINE U == {n \in Nat : \A A \in SUBSET S : Cardinality(A) = n => A \in T}
<1>1. \A A \in SUBSET S : IsFiniteSet(A) /\ Cardinality(A) \in Nat
  BY FS_Subset, FS_CardinalityType
<1>2. 0 \in U
  BY <1>1, FS_EmptySet
<1>3. ASSUME NEW n \in Nat, n \in U PROVE n + 1 \in U
  <2> SUFFICES ASSUME NEW A \in SUBSET S, Cardinality(A) = n + 1 PROVE A \in T
    OBVIOUS
  <2>1. PICK x : x \in A
    <3>1. Cardinality(A) # Cardinality({})
      BY FS_EmptySet
    <3> QED
      BY <3>1
  <2>2. IsFiniteSet(A) /\ Cardinality(A \ {x}) = Cardinality(A) - 1
    BY <1>1, <2>1, FS_RemoveElement
  <2>3. A \ {x} \in SUBSET S /\ Cardinality(A \ {x}) = n /\ x \in S \ (A \ {x})
    BY <2>1, <2>2
  <2>4. A \ {x} \in T
    BY <1>3, <2>3
  <2>5. (A \ {x}) \cup {x} \in T
    BY <2>3, <2>4
  <2>6. (A \ {x}) \cup {x} = A
    BY <2>1
  <2> QED
    BY <2>5, <2>6
<1>4. Cardinality(S) \in U
  <2> HIDE DEF U
  <2>1. \A n \in Nat : n \in U
    BY <1>2, <1>3, SetInduction
  <2> QED
    BY <1>1, <2>1
<1> QED
  BY <1>4

-----------------------------------------------------------------------------
(* Division with a rest.                                                   *)

\* Quotient and remainder, the facts about \div and % that the SMT solver needs.
LEMMA DivMod ==
  ASSUME NEW a \in Nat, NEW d \in Nat \ {0}
  PROVE  /\ a \div d \in Nat /\ a % d \in 0..d-1
         /\ a = (a \div d) * d + (a % d)
  BY Z3T(30)

\* A number in the q-th unit of d has quotient q and the remainder that is left.
LEMMA DivUnique ==
  ASSUME NEW q \in Nat, NEW d \in Nat \ {0}, NEW x \in 0..d-1
  PROVE  (q * d + x) \div d = q /\ (q * d + x) % d = x
  BY Z3T(30)

\* Adding w whole units to a number adds w to the quotient.
LEMMA DivShift ==
  ASSUME NEW a \in Nat, NEW w \in Nat, NEW d \in Nat \ {0}
  PROVE  (a + w * d) \div d = (a \div d) + w
<1> DEFINE q == a \div d
           x == a % d
<1>1. q \in Nat /\ x \in 0..d-1 /\ a = q * d + x
  BY DivMod
<1>2. a + w * d = (q + w) * d + x
  BY <1>1, Z3T(30)
<1>3. ((q + w) * d + x) \div d = q + w
  <2> HIDE DEF q, x
  <2>1. q + w \in Nat
    BY <1>1
  <2> QED
    BY <1>1, <2>1, DivUnique
<1> QED
  BY <1>2, <1>3

\* The quotient grows with the number.
LEMMA DivMonotone ==
  ASSUME NEW a \in Nat, NEW b \in Nat, NEW d \in Nat \ {0}, a <= b
  PROVE  a \div d <= b \div d
<1> DEFINE p == a \div d
           q == b \div d
           x == a % d
           y == b % d
<1>1. p \in Nat /\ x \in 0..d-1 /\ a = p * d + x
  BY DivMod
<1>2. q \in Nat /\ y \in 0..d-1 /\ b = q * d + y
  BY DivMod
<1>3. ASSUME q < p PROVE FALSE
  <2> HIDE DEF p, q, x, y
  <2>1. PICK k \in Nat : p = q + 1 + k
    <3>1. p - q - 1 \in Nat /\ p = q + 1 + (p - q - 1)
      BY <1>1, <1>2, <1>3
    <3> QED
      BY <3>1
  <2>2. p * d = q * d + d + k * d
    BY <1>1, <1>2, <2>1, Z3T(30)
  <2>3. k * d \in Nat /\ q * d \in Nat
    BY <1>2, <2>1, Z3T(30)
  <2> QED
    BY <1>1, <1>2, <2>2, <2>3
<1> QED
  BY <1>1, <1>2, <1>3

\* Adding nr to m within one unit of d, or exactly up to the next one.
LEMMA DivStep ==
  ASSUME NEW m \in Nat, NEW d \in Nat \ {0}, NEW nr \in Nat, (m % d) + nr <= d
  PROVE  /\ (m % d) + nr < d => /\ (m + nr) \div d = m \div d
                               /\ (m + nr) % d = (m % d) + nr
         /\ (m % d) + nr = d => /\ (m + nr) \div d = (m \div d) + 1
                               /\ (m + nr) % d = 0
<1> DEFINE q == m \div d
           x == m % d
<1>1. q \in Nat /\ x \in 0..d-1 /\ m = q * d + x
  BY DivMod
<1> HIDE DEF q, x
<1>2. ASSUME x + nr < d PROVE (m + nr) \div d = q /\ (m + nr) % d = x + nr
  <2>1. q * d \in Nat
    BY <1>1, Z3T(30)
  <2>2. m + nr = q * d + (x + nr) /\ x + nr \in 0..d-1
    BY <1>1, <1>2, <2>1
  <2> DEFINE y == x + nr
  <2> HIDE DEF y
  <2>3. (q * d + y) \div d = q /\ (q * d + y) % d = y
    BY <1>1, <2>2, DivUnique DEF y
  <2> QED
    BY <2>2, <2>3 DEF y
<1>3. ASSUME x + nr = d PROVE (m + nr) \div d = q + 1 /\ (m + nr) % d = 0
  <2>1. q * d \in Nat /\ (q + 1) * d = q * d + d
    BY <1>1, Z3T(30)
  <2>2. m + nr = (q + 1) * d + 0 /\ q + 1 \in Nat /\ 0 \in 0..d-1
    BY <1>1, <1>3, <2>1
  <2>3. ((q + 1) * d + 0) \div d = q + 1 /\ ((q + 1) * d + 0) % d = 0
    BY <2>2, DivUnique
  <2> QED
    BY <2>2, <2>3
<1> QED
  BY <1>2, <1>3 DEF q, x

-----------------------------------------------------------------------------
(* Sums over finite sets, as SumFunctionOnSet folds them.                  *)

\* The element of s that the fold takes first.
Pick(s) == CHOOSE x \in s : TRUE

\* it is the function the fold is defined by, on the subsets of S in D.
Folds(it, f, D) ==
  it = [s \in D |-> IF s = {} THEN 0 ELSE f[Pick(s)] + it[s \ {Pick(s)}]]

\* What is taken from a set that is not empty is one of its elements.
LEMMA PickIn == ASSUME NEW s, s # {} PROVE Pick(s) \in s
  BY DEF Pick

\* A sum is the value at the set itself of the function the fold is defined by.
LEMMA SumUnfolds ==
  ASSUME NEW f, NEW S
  PROVE  SumFunctionOnSet(f, S) = (CHOOSE it : Folds(it, f, SUBSET S))[S]
  BY DEF SumFunctionOnSet, FoldFunctionOnSet, MapThenFoldSet, Folds, Pick

\* There is such a function when the set is finite and the numbers are natural.
LEMMA FoldExists ==
  ASSUME NEW S, IsFiniteSet(S), NEW f, \A x \in S : f[x] \in Nat
  PROVE  \E it \in [SUBSET S -> Nat] : Folds(it, f, SUBSET S)
<1> DEFINE Small(n) == {s \in SUBSET S : Cardinality(s) <= n}
           T == {n \in Nat : \E it \in [Small(n) -> Nat] : Folds(it, f, Small(n))}
<1>1. \A s \in SUBSET S : IsFiniteSet(s) /\ Cardinality(s) \in Nat /\ Cardinality(s) <= Cardinality(S)
  BY FS_Subset, FS_CardinalityType
<1>2. 0 \in T
  <2> DEFINE it == [s \in Small(0) |-> 0]
  <2>1. \A s \in Small(0) : s = {}
    BY <1>1, FS_EmptySet
  <2>2. it \in [Small(0) -> Nat]
    OBVIOUS
  <2>3. Folds(it, f, Small(0))
    BY <2>1 DEF Folds
  <2> HIDE DEF it
  <2> QED
    BY <2>2, <2>3
<1>3. ASSUME NEW n \in Nat, n \in T PROVE n + 1 \in T
  <2> HIDE DEF T
  <2>1. PICK it \in [Small(n) -> Nat] : Folds(it, f, Small(n))
    BY <1>3 DEF T
  <2> DEFINE value(s) == IF s = {} THEN 0 ELSE f[Pick(s)] + it[s \ {Pick(s)}]
             jt == [s \in Small(n + 1) |-> value(s)]
  <2>2. ASSUME NEW s \in Small(n + 1), s # {}
        PROVE  Pick(s) \in s /\ s \ {Pick(s)} \in Small(n) /\ s \ {Pick(s)} \in Small(n + 1)
    <3>1. Pick(s) \in s /\ s \in SUBSET S /\ IsFiniteSet(s)
      BY <1>1, <2>2, PickIn
    <3>2. Cardinality(s \ {Pick(s)}) = Cardinality(s) - 1
      BY <3>1, FS_RemoveElement, SMTT(60)
    <3>3. Cardinality(s) \in Nat /\ Cardinality(s) <= n + 1
      BY <1>1
    <3> QED
      BY <3>1, <3>2, <3>3
  <2>3. \A s \in Small(n) : it[s] = value(s) /\ s \in Small(n + 1)
    <3>1. \A s \in Small(n) : it[s] = value(s)
      BY <2>1 DEF Folds
    <3>2. \A s \in Small(n) : s \in Small(n + 1)
      BY <1>1
    <3> QED
      BY <3>1, <3>2
  <2>4. \A s \in Small(n + 1) : value(s) \in Nat
    <3> SUFFICES ASSUME NEW s \in Small(n + 1), s # {} PROVE value(s) \in Nat
      OBVIOUS
    <3>1. f[Pick(s)] \in Nat /\ it[s \ {Pick(s)}] \in Nat
      <4> HIDE DEF Small
      <4>1. Pick(s) \in S
        BY <2>2 DEF Small
      <4> QED
        BY <2>1, <2>2, <4>1
    <3> QED
      BY <3>1
  <2>5. jt \in [Small(n + 1) -> Nat]
    <3> HIDE DEF Small, value
    <3> QED
      BY <2>4
  <2>6. Folds(jt, f, Small(n + 1))
    <3>1. \A s \in Small(n + 1) : s # {} => jt[s \ {Pick(s)}] = it[s \ {Pick(s)}]
      <4> HIDE DEF Small, value
      <4> QED
        BY <2>2, <2>3
    <3> HIDE DEF Small
    <3>2. jt = [s \in Small(n + 1) |-> IF s = {} THEN 0 ELSE f[Pick(s)] + jt[s \ {Pick(s)}]]
      <4>1. \A s \in Small(n + 1) : value(s) = IF s = {} THEN 0 ELSE f[Pick(s)] + jt[s \ {Pick(s)}]
        <5> HIDE DEF jt
        <5> QED
          BY <3>1
      <4> HIDE DEF value
      <4> QED
        BY <4>1
    <3> HIDE DEF jt
    <3> QED
      BY <3>2 DEF Folds
  <2> HIDE DEF jt
  <2> QED
    BY <2>5, <2>6 DEF T
<1>4. Cardinality(S) \in T
  <2> HIDE DEF T
  <2>1. \A n \in Nat : n \in T
    BY <1>2, <1>3, SetInduction
  <2> QED
    BY <1>1, <2>1
<1>5. Small(Cardinality(S)) = SUBSET S
  BY <1>1
<1> HIDE DEF Small
<1> QED
  BY <1>4, <1>5

\* The function is unique, also on the subsets of a smaller set.
LEMMA FoldUnique ==
  ASSUME NEW S, NEW R, NEW f, NEW it, NEW jt, IsFiniteSet(S), R \in SUBSET S,
         Folds(it, f, SUBSET S), Folds(jt, f, SUBSET R)
  PROVE  it[R] = jt[R]
<1> DEFINE T == {n \in Nat : \A s \in SUBSET R : Cardinality(s) = n => it[s] = jt[s]}
<1>1. \A s \in SUBSET R : s \in SUBSET S /\ IsFiniteSet(s) /\ Cardinality(s) \in Nat
  BY FS_Subset, FS_CardinalityType
<1>2. \A s \in SUBSET R :
        /\ it[s] = IF s = {} THEN 0 ELSE f[Pick(s)] + it[s \ {Pick(s)}]
        /\ jt[s] = IF s = {} THEN 0 ELSE f[Pick(s)] + jt[s \ {Pick(s)}]
  BY <1>1 DEF Folds
<1>3. 0 \in T
  BY <1>1, <1>2, FS_EmptySet
<1>4. ASSUME NEW n \in Nat, n \in T PROVE n + 1 \in T
  <2> SUFFICES ASSUME NEW s \in SUBSET R, Cardinality(s) = n + 1 PROVE it[s] = jt[s]
    OBVIOUS
  <2>1. s # {}
    BY <1>1, FS_EmptySet
  <2>2. Pick(s) \in s
    BY <2>1, PickIn
  <2>3. s \ {Pick(s)} \in SUBSET R /\ Cardinality(s \ {Pick(s)}) = n
    BY <1>1, <2>2, FS_RemoveElement, SMTT(60)
  <2>4. it[s \ {Pick(s)}] = jt[s \ {Pick(s)}]
    BY <1>4, <2>3
  <2> QED
    BY <1>2, <2>1, <2>4
<1>5. Cardinality(R) \in T
  <2> HIDE DEF T
  <2>1. \A n \in Nat : n \in T
    BY <1>3, <1>4, SetInduction
  <2> QED
    BY <1>1, <2>1
<1> QED
  BY <1>5

\* The empty sum is 0.
LEMMA SumEmpty == ASSUME NEW f PROVE SumFunctionOnSet(f, {}) = 0
<1>1. PICK it : Folds(it, f, SUBSET {})
  BY FS_EmptySet, FoldExists
<1> DEFINE jt == CHOOSE kt : Folds(kt, f, SUBSET {})
<1>2. Folds(jt, f, SUBSET {})
  BY <1>1
<1>3. jt[{}] = 0
  BY <1>2 DEF Folds
<1> QED
  BY <1>3, SumUnfolds

\* The sum over a set that is not empty, by the element that is taken first.
LEMMA SumPicks ==
  ASSUME NEW S, IsFiniteSet(S), S # {}, NEW f, \A x \in S : f[x] \in Nat
  PROVE  SumFunctionOnSet(f, S) = f[Pick(S)] + SumFunctionOnSet(f, S \ {Pick(S)})
<1> DEFINE R == S \ {Pick(S)}
           it == CHOOSE it : Folds(it, f, SUBSET S)
           jt == CHOOSE jt : Folds(jt, f, SUBSET R)
<1>1. R \in SUBSET S /\ IsFiniteSet(R)
  BY FS_Subset
<1>2. Folds(it, f, SUBSET S)
  BY FoldExists
<1>3. Folds(jt, f, SUBSET R)
  <2> HIDE DEF R
  <2>1. \E kt : Folds(kt, f, SUBSET R)
    BY <1>1, FoldExists
  <2> QED
    BY <2>1
<1>4. it[R] = jt[R]
  <2> HIDE DEF R, it, jt
  <2> QED
    BY <1>1, <1>2, <1>3, FoldUnique, ZenonT(60)
<1>5. it[S] = f[Pick(S)] + it[R]
  <2> HIDE DEF it
  <2> QED
    BY <1>2 DEF Folds
<1> QED
  BY <1>4, <1>5, SumUnfolds

\* A sum of naturals is one.
LEMMA SumNatural ==
  ASSUME NEW S, IsFiniteSet(S), NEW f, \A x \in S : f[x] \in Nat
  PROVE  SumFunctionOnSet(f, S) \in Nat
<1> DEFINE jt == CHOOSE kt : Folds(kt, f, SUBSET S)
<1>1. PICK it \in [SUBSET S -> Nat] : Folds(it, f, SUBSET S)
  BY FoldExists
<1>2. Folds(jt, f, SUBSET S)
  BY <1>1
<1>3. it[S] = jt[S]
  <2> HIDE DEF jt
  <2>1. S \in SUBSET S
    OBVIOUS
  <2> QED
    BY <1>1, <1>2, <2>1, FoldUnique, Zenon
<1> QED
  BY <1>1, <1>3, SumUnfolds

\* Any element can be taken out of a sum.
LEMMA SumRemove ==
  ASSUME NEW S, IsFiniteSet(S), NEW f, \A x \in S : f[x] \in Nat
  PROVE  /\ SumFunctionOnSet(f, S) \in Nat
         /\ \A x \in S : SumFunctionOnSet(f, S) = f[x] + SumFunctionOnSet(f, S \ {x})
<1> DEFINE Sum(s) == SumFunctionOnSet(f, s)
           Good(s) == Sum(s) \in Nat /\ \A x \in s : Sum(s) = f[x] + Sum(s \ {x})
           T == {n \in Nat : \A s \in SUBSET S : Cardinality(s) = n => Good(s)}
<1>1. \A s \in SUBSET S : IsFiniteSet(s) /\ Cardinality(s) \in Nat
  BY FS_Subset, FS_CardinalityType
<1>2. 0 \in T
  <2>1. \A s \in SUBSET S : Cardinality(s) = 0 => s = {}
    BY <1>1, FS_EmptySet
  <2>2. Good({})
    BY SumEmpty
  <2> HIDE DEF Good
  <2> QED
    BY <2>1, <2>2
<1>3. ASSUME NEW n \in Nat, n \in T PROVE n + 1 \in T
  <2> SUFFICES ASSUME NEW s \in SUBSET S, Cardinality(s) = n + 1 PROVE Good(s)
    OBVIOUS
  <2> DEFINE p == Pick(s)
  <2>1. s # {} /\ p \in s
    <3>1. s # {}
      BY FS_EmptySet
    <3> QED
      BY <3>1, PickIn
  <2>2. Sum(s) = f[p] + Sum(s \ {p})
    BY <1>1, <2>1, SumPicks
  <2>3. ASSUME NEW x \in s PROVE s \ {x} \in SUBSET S /\ Cardinality(s \ {x}) = n
    <3>1. IsFiniteSet(s) /\ x \in s /\ Cardinality(s) = n + 1
      BY <1>1
    <3>2. Cardinality(s \ {x}) = Cardinality(s) - 1
      BY <3>1, FS_RemoveElement
    <3> QED
      BY <3>1, <3>2
  <2>4. ASSUME NEW x \in s PROVE Good(s \ {x})
    <3> HIDE DEF Good
    <3> QED
      BY <1>3, <2>3
  <2> HIDE DEF p, T, Sum
  <2>5. f[p] \in Nat /\ Sum(s) \in Nat
    BY <2>1, <2>2, <2>4
  <2>6. ASSUME NEW x \in s, x # p PROVE Sum(s) = f[x] + Sum(s \ {x})
    <3>1. Sum(s \ {p}) = f[x] + Sum((s \ {p}) \ {x})
      BY <2>1, <2>4, <2>6
    <3>2. Sum(s \ {x}) = f[p] + Sum((s \ {x}) \ {p})
      BY <2>1, <2>4, <2>6
    <3>3. Sum((s \ {p}) \ {x}) = Sum((s \ {x}) \ {p})
      <4>1. (s \ {p}) \ {x} = (s \ {x}) \ {p}
        OBVIOUS
      <4> QED
        BY <4>1
    <3>4. f[x] \in Nat /\ Sum((s \ {p}) \ {x}) \in Nat
      <4>1. Good(s \ {p}) /\ s \ {p} \in SUBSET S /\ x \in s \ {p} /\ IsFiniteSet(s \ {p})
        BY <1>1, <2>1, <2>3, <2>4, <2>6
      <4> DEFINE r == s \ {p}
      <4>2. Cardinality(r) = n /\ Cardinality(r \ {x}) = n - 1 /\ n - 1 \in Nat
        <5>1. Cardinality(r) = n
          BY <2>1, <2>3
        <5>2. Cardinality(r \ {x}) = Cardinality(r) - 1 /\ Cardinality(r \ {x}) \in Nat
          BY <1>1, <4>1, FS_RemoveElement
        <5> QED
          BY <5>1, <5>2
      <4>3. f[x] \in Nat /\ Sum(r) = f[x] + Sum(r \ {x}) /\ Sum(r) \in Nat
        BY <4>1
      <4>4. Sum(r \ {x}) \in Nat
        <5>1. r \ {x} \in SUBSET S /\ IsFiniteSet(r \ {x})
          BY <1>1
        <5> QED
          BY <5>1, SumNatural DEF Sum
      <4> QED
        BY <4>3, <4>4
    <3> QED
      BY <2>2, <2>5, <3>1, <3>2, <3>3, <3>4
  <2> QED
    BY <2>2, <2>5, <2>6
<1>4. Cardinality(S) \in T
  <2> HIDE DEF T
  <2>1. \A n \in Nat : n \in T
    BY <1>2, <1>3, SetInduction
  <2> QED
    BY <1>1, <2>1
<1> QED
  BY <1>4

\* An element that is not in the set adds its number to the sum.
LEMMA SumAdd ==
  ASSUME NEW S, NEW f, NEW x, IsFiniteSet(S), \A y \in S \cup {x} : f[y] \in Nat, x \notin S
  PROVE  SumFunctionOnSet(f, S \cup {x}) = f[x] + SumFunctionOnSet(f, S)
<1>1. IsFiniteSet(S \cup {x}) /\ (S \cup {x}) \ {x} = S
  BY FS_AddElement
<1>2. SumFunctionOnSet(f, S \cup {x}) = f[x] + SumFunctionOnSet(f, (S \cup {x}) \ {x})
  BY <1>1, SumRemove
<1> QED
  BY <1>1, <1>2

\* The sum over two disjoint sets is the sum of the sums.
LEMMA SumUnion ==
  ASSUME NEW S, NEW R, NEW f, IsFiniteSet(S), IsFiniteSet(R), S \cap R = {},
         \A x \in S \cup R : f[x] \in Nat
  PROVE  SumFunctionOnSet(f, S \cup R) = SumFunctionOnSet(f, S) + SumFunctionOnSet(f, R)
<1> DEFINE Sum(A) == SumFunctionOnSet(f, A)
           T == {A \in SUBSET R : Sum(S \cup A) = Sum(S) + Sum(A)}
<1>1. {} \in T
  <2>1. S \cup {} = S /\ Sum({}) = 0 /\ Sum(S) \in Nat
    BY SumEmpty, SumNatural
  <2> HIDE DEF Sum
  <2> QED
    BY <2>1
<1>2. ASSUME NEW A \in SUBSET R, NEW x \in R \ A, A \in T PROVE A \cup {x} \in T
  <2>1. IsFiniteSet(A) /\ IsFiniteSet(S \cup A)
    BY FS_Subset, FS_Union
  <2>2. Sum(A \cup {x}) = f[x] + Sum(A)
    BY <2>1, SumAdd
  <2>3. x \notin S \cup A /\ \A y \in (S \cup A) \cup {x} : f[y] \in Nat
    OBVIOUS
  <2>4. Sum((S \cup A) \cup {x}) = f[x] + Sum(S \cup A)
    BY <2>1, <2>3, SumAdd
  <2>5. f[x] \in Nat /\ Sum(S) \in Nat /\ Sum(A) \in Nat
    BY <2>1, SumNatural
  <2>6. S \cup (A \cup {x}) = (S \cup A) \cup {x}
    OBVIOUS
  <2>7. Sum(S \cup (A \cup {x})) = Sum((S \cup A) \cup {x})
    BY <2>6
  <2> HIDE DEF Sum
  <2> QED
    BY <1>2, <2>2, <2>4, <2>5, <2>7
<1>3. R \in T
  <2> HIDE DEF T
  <2> QED
    BY <1>1, <1>2, FiniteInduction
<1> QED
  BY <1>3

\* More elements do not make a sum smaller.
LEMMA SumSubset ==
  ASSUME NEW S, NEW R, NEW f, IsFiniteSet(S), R \subseteq S, \A x \in S : f[x] \in Nat
  PROVE  SumFunctionOnSet(f, R) <= SumFunctionOnSet(f, S)
<1>1. IsFiniteSet(R) /\ IsFiniteSet(S \ R) /\ R \cup (S \ R) = S /\ R \cap (S \ R) = {}
  BY FS_Subset
<1>2. SumFunctionOnSet(f, R \cup (S \ R)) = SumFunctionOnSet(f, R) + SumFunctionOnSet(f, S \ R)
  <2>1. \A x \in R \cup (S \ R) : f[x] \in Nat
    BY <1>1
  <2> QED
    BY <1>1, <2>1, SumUnion
<1>3. SumFunctionOnSet(f, R) \in Nat /\ SumFunctionOnSet(f, S \ R) \in Nat
  BY <1>1, SumNatural
<1>4. SumFunctionOnSet(f, S) = SumFunctionOnSet(f, R) + SumFunctionOnSet(f, S \ R)
  BY <1>1, <1>2
<1> QED
  BY <1>3, <1>4

\* Nor do larger ones.
LEMMA SumMonotone ==
  ASSUME NEW S, NEW f, NEW g, IsFiniteSet(S),
         \A x \in S : f[x] \in Nat /\ g[x] \in Nat /\ f[x] <= g[x]
  PROVE  SumFunctionOnSet(f, S) <= SumFunctionOnSet(g, S)
<1> DEFINE F(A) == SumFunctionOnSet(f, A)
           G(A) == SumFunctionOnSet(g, A)
           T == {A \in SUBSET S : F(A) <= G(A)}
<1>1. {} \in T
  BY SumEmpty
<1>2. ASSUME NEW A \in SUBSET S, NEW x \in S \ A, A \in T PROVE A \cup {x} \in T
  <2>1. IsFiniteSet(A)
    BY FS_Subset
  <2>2. F(A \cup {x}) = f[x] + F(A) /\ G(A \cup {x}) = g[x] + G(A)
    BY <2>1, SumAdd
  <2>3. F(A) \in Nat /\ G(A) \in Nat /\ f[x] \in Nat /\ g[x] \in Nat /\ f[x] <= g[x]
    BY <2>1, SumNatural
  <2> HIDE DEF F, G
  <2> QED
    BY <1>2, <2>2, <2>3
<1>3. S \in T
  <2> HIDE DEF T
  <2> QED
    BY <1>1, <1>2, FiniteInduction
<1> QED
  BY <1>3

\* A sum depends on the values at its elements only.
LEMMA SumEqual ==
  ASSUME NEW S, NEW f, NEW g, IsFiniteSet(S), \A x \in S : f[x] \in Nat /\ f[x] = g[x]
  PROVE  SumFunctionOnSet(f, S) = SumFunctionOnSet(g, S)
<1>1. SumFunctionOnSet(f, S) <= SumFunctionOnSet(g, S) /\ SumFunctionOnSet(g, S) <= SumFunctionOnSet(f, S)
  BY SumMonotone
<1>2. SumFunctionOnSet(f, S) \in Nat /\ SumFunctionOnSet(g, S) \in Nat
  BY SumNatural
<1> QED
  BY <1>1, <1>2

-----------------------------------------------------------------------------
(* Recursion along a measure.                                              *)

\* f is what the recursion computes: where T, it combines by G what it has for the
\* next argument N; elsewhere it is V.
Solves(f, S, T, N, G, V) ==
  \A x \in S : f[x] = IF T[x] THEN G[x][f[N[x]]] ELSE V[x]

\* The measure m is bounded and falls with every step.
Falls(S, T, N, m, b) ==
  /\ m \in [S -> Nat] /\ \A x \in S : m[x] < b
  /\ \A x \in S : T[x] => N[x] \in S /\ m[N[x]] < m[x]

\* There is a function that a recursion computes if a measure falls.
LEMMA RecursionExists ==
  ASSUME NEW S, NEW R, NEW T, NEW N, NEW G, NEW V, NEW m, NEW b \in Nat,
         Falls(S, T, N, m, b),
         G \in [S -> [R -> R]], V \in [S -> R]
  PROVE  \E f \in [S -> R] : Solves(f, S, T, N, G, V)
<1> DEFINE Low(n) == {x \in S : m[x] < n}
           U == {n \in Nat : \E f \in [Low(n) -> R] : Solves(f, Low(n), T, N, G, V)}
<1>1. /\ m \in [S -> Nat] /\ \A x \in S : m[x] < b
      /\ \A x \in S : T[x] => N[x] \in S /\ m[N[x]] < m[x]
  BY DEF Falls
<1>2. 0 \in U
  <2>1. Low(0) = {}
    BY <1>1
  <2> DEFINE f == [x \in {} |-> 0]
  <2>2. f \in [{} -> R] /\ Solves(f, {}, T, N, G, V)
    BY DEF Solves
  <2> HIDE DEF f, Low
  <2> QED
    BY <2>1, <2>2
<1>3. ASSUME NEW n \in Nat, n \in U PROVE n + 1 \in U
  <2> HIDE DEF U
  <2>1. PICK f \in [Low(n) -> R] : Solves(f, Low(n), T, N, G, V)
    BY <1>3 DEF U
  <2> DEFINE value(x) == IF T[x] THEN G[x][f[N[x]]] ELSE V[x]
             g == [x \in Low(n + 1) |-> value(x)]
  <2>2. \A x \in Low(n + 1) : x \in S /\ (T[x] => N[x] \in Low(n) /\ N[x] \in Low(n + 1))
    BY <1>1
  <2>3. \A x \in Low(n) : f[x] = value(x) /\ x \in Low(n + 1)
    <3>1. \A x \in Low(n) : x \in Low(n + 1)
      BY <1>1
    <3> HIDE DEF Low
    <3> QED
      BY <2>1, <3>1 DEF Solves
  <2> HIDE DEF Low
  <2>4. \A x \in Low(n + 1) : value(x) \in R
    BY <2>1, <2>2
  <2>5. g \in [Low(n + 1) -> R]
    <3> HIDE DEF value
    <3> QED
      BY <2>4
  <2>6. \A x \in Low(n) : g[x] = f[x]
    <3> HIDE DEF value
    <3> QED
      BY <2>3
  <2>7. \A x \in Low(n + 1) : g[x] = value(x)
    <3> HIDE DEF value
    <3> QED
      OBVIOUS
  <2> HIDE DEF g
  <2>8. Solves(g, Low(n + 1), T, N, G, V)
    BY <2>2, <2>6, <2>7 DEF Solves
  <2> QED
    BY <2>5, <2>8 DEF U
<1>4. b \in U
  <2> HIDE DEF U
  <2>1. \A n \in Nat : n \in U
    BY <1>2, <1>3, SetInduction
  <2> QED
    BY <2>1
<1>5. Low(b) = S
  BY <1>1
<1> HIDE DEF Low
<1> QED
  BY <1>4, <1>5

\* G[x] asks of a function only what it has for arguments of smaller measure.
Looks(G, S, R, m, b) ==
  /\ G \in [S -> [[S -> R] -> R]] /\ m \in [S -> Nat] /\ \A x \in S : m[x] < b
  /\ \A x \in S : \A f, g \in [S -> R] :
       (\A y \in S : m[y] < m[x] => f[y] = g[y]) => G[x][f] = G[x][g]

\* There is a function that satisfies a recursion which asks for any number of smaller
\* arguments.
LEMMA WideRecursionExists ==
  ASSUME NEW S, NEW R, NEW m, NEW b \in Nat, NEW G, Looks(G, S, R, m, b), NEW r \in R
  PROVE  \E f \in [S -> R] : \A x \in S : f[x] = G[x][f]
<1> DEFINE U == {n \in Nat : \E f \in [S -> R] : \A x \in S : m[x] < n => f[x] = G[x][f]}
<1>0. /\ G \in [S -> [[S -> R] -> R]] /\ m \in [S -> Nat] /\ \A x \in S : m[x] < b
      /\ \A x \in S : \A f, g \in [S -> R] :
           (\A y \in S : m[y] < m[x] => f[y] = g[y]) => G[x][f] = G[x][g]
  BY DEF Looks
<1>1. 0 \in U
  <2> DEFINE f == [x \in S |-> r]
  <2>1. f \in [S -> R]
    OBVIOUS
  <2>2. \A x \in S : ~(m[x] < 0)
    BY <1>0
  <2> HIDE DEF f
  <2> QED
    BY <2>1, <2>2
<1>2. ASSUME NEW n \in Nat, n \in U PROVE n + 1 \in U
  <2>1. PICK f \in [S -> R] : \A x \in S : m[x] < n => f[x] = G[x][f]
    BY <1>2
  <2> DEFINE g == [x \in S |-> IF m[x] < n THEN f[x] ELSE G[x][f]]
  <2>2. g \in [S -> R]
    <3>1. \A x \in S : f[x] \in R /\ G[x][f] \in R
      BY <1>0, <2>1
    <3> QED
      BY <3>1
  <2>3. \A x \in S : g[x] = G[x][f]
    BY <1>0, <2>1
  <2>4. \A x \in S : m[x] < n => g[x] = f[x]
    OBVIOUS
  <2> HIDE DEF g
  <2>5. ASSUME NEW x \in S, m[x] < n + 1 PROVE g[x] = G[x][g]
    <3>1. m[x] \in Nat /\ m[x] <= n /\ \A y \in S : m[y] \in Nat
      BY <1>0, <2>5
    <3>2. \A y \in S : m[y] < m[x] => f[y] = g[y]
      BY <2>4, <3>1
    <3>3. G[x][f] = G[x][g]
      BY <1>0, <2>1, <2>2, <3>2
    <3> QED
      BY <2>3, <3>3
  <2> QED
    BY <2>2, <2>5
<1>3. b \in U
  <2> HIDE DEF U
  <2>1. \A n \in Nat : n \in U
    BY <1>1, <1>2, SetInduction
  <2> QED
    BY <2>1
<1> QED
  BY <1>0, <1>3

\* A set that has every element of S of which it has all those of smaller measure
\* has all of S.
LEMMA MeasureInduction ==
  ASSUME NEW S, NEW m \in [S -> Nat], NEW T,
         \A x \in S : (\A y \in S : m[y] < m[x] => y \in T) => x \in T
  PROVE  \A x \in S : x \in T
<1> DEFINE U == {m[x] : x \in S \ T}
<1> SUFFICES ASSUME NEW z \in S, z \notin T PROVE FALSE
  OBVIOUS
<1>1. U \in SUBSET Nat /\ U # {}
  OBVIOUS
<1>2. PICK k \in U : \A y \in U : k <= y
  <2> HIDE DEF U
  <2> QED
    BY <1>1, LeastNat
<1>3. PICK x \in S \ T : m[x] = k
  BY <1>2
<1>4. \A y \in S : m[y] < m[x] => y \in T
  BY <1>2, <1>3, SMTT(60)
<1> QED
  BY <1>3, <1>4

-----------------------------------------------------------------------------
(* Recursion step by step.                                                 *)

\* G has for each of n steps what it makes of a value of R.
StepMaps(G, n, R) == G \in [1..n -> [R -> R]]

\* f takes the steps of G from base on.
Takes(f, G, n, base) == f[0] = base /\ \A i \in 1..n : f[i] = G[i][f[i - 1]]

\* Such a function exists.
LEMMA StepsExist ==
  ASSUME NEW n \in Nat, NEW R, NEW base \in R, NEW G, StepMaps(G, n, R)
  PROVE  \E f \in [0..n -> R] : Takes(f, G, n, base)
<1> DEFINE S == 0..n
           T == [i \in S |-> i # 0]
           N == [i \in S |-> i - 1]
           H == [i \in S |-> IF i = 0 THEN [r \in R |-> r] ELSE G[i]]
           V == [i \in S |-> base]
           m == [i \in S |-> i]
<1>0. G \in [1..n -> [R -> R]]
  BY DEF StepMaps
<1>1. Falls(S, T, N, m, n + 1)
  <2>1. m \in [S -> Nat] /\ \A i \in S : m[i] < n + 1
    OBVIOUS
  <2>2. \A i \in S : T[i] => N[i] \in S /\ m[N[i]] < m[i]
    <3>1. \A i \in S : (T[i] <=> i # 0) /\ N[i] = i - 1 /\ m[i] = i
      OBVIOUS
    <3>2. \A i \in S : i # 0 => i - 1 \in S /\ i - 1 < i
      OBVIOUS
    <3> HIDE DEF S, T, N, m
    <3> QED
      BY <3>1, <3>2
  <2> HIDE DEF S, T, N, m
  <2> QED
    BY <2>1, <2>2 DEF Falls
<1>2. H \in [S -> [R -> R]] /\ V \in [S -> R] /\ n + 1 \in Nat
  <2>1. ASSUME NEW i \in S PROVE (IF i = 0 THEN [r \in R |-> r] ELSE G[i]) \in [R -> R]
    <3>1. i = 0 \/ i \in 1..n
      OBVIOUS
    <3> QED
      BY <1>0, <3>1
  <2> QED
    BY <2>1
<1>3. PICK f : f \in [S -> R] /\ Solves(f, S, T, N, H, V)
  <2> HIDE DEF S, T, N, H, V, m
  <2> QED
    BY <1>1, <1>2, RecursionExists
<1>4. f[0] = base
  <2>0. 0 \in S
    OBVIOUS
  <2>1. ~T[0] /\ V[0] = base
    BY <2>0
  <2> HIDE DEF S, T, N, H, V
  <2> QED
    BY <1>3, <2>0, <2>1 DEF Solves
<1>5. ASSUME NEW i \in 1..n PROVE f[i] = G[i][f[i - 1]]
  <2>0. i \in S /\ i # 0
    OBVIOUS
  <2>1. T[i] /\ N[i] = i - 1 /\ H[i] = G[i]
    BY <2>0
  <2> HIDE DEF S, T, N, H, V
  <2> QED
    BY <1>3, <2>0, <2>1 DEF Solves
<1> QED
  BY <1>3, <1>4, <1>5 DEF Takes

\* What a recursion by steps keeps at its base and at every step, it keeps.
LEMMA StepsKeep ==
  ASSUME NEW n \in Nat, NEW T, 0 \in T,
         \A i \in 1..n : i - 1 \in T => i \in T
  PROVE  \A i \in 0..n : i \in T
<1> DEFINE U == {i \in Nat : i <= n => i \in T}
<1>1. 0 \in U
  OBVIOUS
<1>2. ASSUME NEW i \in Nat, i \in U PROVE i + 1 \in U
  <2> SUFFICES ASSUME i + 1 <= n PROVE i + 1 \in T
    OBVIOUS
  <2>1. i + 1 \in 1..n /\ (i + 1) - 1 = i /\ i \in T
    BY <1>2
  <2> QED
    BY <2>1
<1>3. \A i \in Nat : i \in U
  <2> HIDE DEF U
  <2> QED
    BY <1>1, <1>2, SetInduction
<1> QED
  BY <1>3

\* What holds of no element, and of a set when it holds without the picked one, holds
\* of every subset.
LEMMA PickInduction ==
  ASSUME NEW D, IsFiniteSet(D), NEW T, {} \in T,
         \A s \in SUBSET D : s # {} /\ s \ {Pick(s)} \in T => s \in T
  PROVE  \A s \in SUBSET D : s \in T
<1> DEFINE S == SUBSET D
           m == [s \in S |-> Cardinality(s)]
<1>1. \A s \in S : IsFiniteSet(s) /\ Cardinality(s) \in Nat
  BY FS_Subset, FS_CardinalityType
<1>2. m \in [S -> Nat]
  BY <1>1
<1>3. ASSUME NEW s \in S, \A y \in S : m[y] < m[s] => y \in T PROVE s \in T
  <2>1. CASE s = {}
    BY <2>1
  <2>2. CASE s # {}
    <3>1. s \ {Pick(s)} \in S /\ Cardinality(s \ {Pick(s)}) < Cardinality(s)
      <4>1. Pick(s) \in s
        BY <2>2, PickIn
      <4>2. Cardinality(s \ {Pick(s)}) = Cardinality(s) - 1
        BY <1>1, <4>1, FS_RemoveElement
      <4> QED
        BY <1>1, <4>2
    <3>2. m[s \ {Pick(s)}] < m[s]
      BY <3>1
    <3>3. s \ {Pick(s)} \in T
      <4> HIDE DEF m, S
      <4> QED
        BY <1>3, <3>1, <3>2
    <3> QED
      BY <2>2, <3>3
  <2> QED
    BY <2>1, <2>2
<1> HIDE DEF m, S
<1>4. \A s \in S : s \in T
  BY <1>2, <1>3, MeasureInduction
<1> QED
  BY <1>4 DEF S

-----------------------------------------------------------------------------
(* Multiples.                                                              *)

\* b is a whole number of p.
Multiple(b, p) == \E n \in Nat : b = p * n

\* That is, without a rest.
LEMMA MultipleRest ==
  ASSUME NEW b \in Nat, NEW p \in Nat \ {0}
  PROVE  Multiple(b, p) <=> b % p = 0
<1>1. b \div p \in Nat /\ b % p \in 0..p-1 /\ b = (b \div p) * p + (b % p)
  BY DivMod
<1>2. ASSUME b % p = 0 PROVE Multiple(b, p)
  <2>1. b = p * (b \div p)
    <3> DEFINE q == b \div p
    <3> HIDE DEF q
    <3>1. \A x, y \in Nat : x * y = y * x /\ x * y \in Nat
      BY Z3T(30)
    <3>2. q \in Nat /\ b = q * p + 0
      BY <1>1, <1>2 DEF q
    <3>3. b = p * q
      BY <3>1, <3>2
    <3> QED
      BY <3>3 DEF q
  <2> QED
    BY <1>1, <2>1 DEF Multiple
<1>3. ASSUME Multiple(b, p) PROVE b % p = 0
  <2>1. PICK n \in Nat : b = p * n
    BY <1>3 DEF Multiple
  <2>2. (n * p + 0) % p = 0
    <3>1. 0 \in 0..p-1
      OBVIOUS
    <3> QED
      BY <3>1, DivUnique
  <2>3. n * p + 0 = p * n
    <3>1. \A x, y \in Nat : x * y = y * x /\ x * y \in Nat
      BY Z3T(30)
    <3> QED
      BY <3>1
  <2> QED
    BY <2>1, <2>2, <2>3
<1> QED
  BY <1>2, <1>3

\* Zero and the number itself are multiples of it, and so are sums, differences,
\* doubles and multiples of multiples.
LEMMA MultipleClosed ==
  ASSUME NEW a \in Nat, NEW b \in Nat, NEW p \in Nat \ {0}
  PROVE  /\ Multiple(0, p) /\ Multiple(p, p)
         /\ Multiple(a, p) /\ Multiple(b, p) => Multiple(a + b, p)
         /\ Multiple(a, p) /\ Multiple(b, p) /\ b <= a => Multiple(a - b, p)
         /\ Multiple(b, p) <=> Multiple(2 * b, 2 * p)
<1>1. Multiple(0, p) /\ Multiple(p, p)
  <2>1. 0 = p * 0 /\ p = p * 1
    OBVIOUS
  <2> QED
    BY <2>1 DEF Multiple
<1>2. ASSUME Multiple(a, p), Multiple(b, p) PROVE Multiple(a + b, p) /\ (b <= a => Multiple(a - b, p))
  <2>1. PICK n \in Nat : a = p * n
    BY <1>2 DEF Multiple
  <2>2. PICK m \in Nat : b = p * m
    BY <1>2 DEF Multiple
  <2>3. a + b = p * (n + m)
    BY <2>1, <2>2, Z3T(30)
  <2>4. ASSUME b <= a PROVE Multiple(a - b, p)
    <3>1. CASE m <= n
      <4>1. a - b = p * (n - m)
        BY <2>1, <2>2, <3>1, Z3T(30)
      <4> QED
        BY <3>1, <4>1 DEF Multiple
    <3>2. CASE n < m
      <4>1. PICK k \in Nat : m = n + 1 + k
        <5>1. m - n - 1 \in Nat /\ m = n + 1 + (m - n - 1)
          BY <3>2
        <5> QED
          BY <5>1
      <4>2. p * m = p * n + p + p * k /\ p * k \in Nat
        BY <4>1, Z3T(30)
      <4> QED
        BY <2>1, <2>2, <2>4, <4>2
    <3> QED
      BY <3>1, <3>2
  <2>5. Multiple(a + b, p)
    <3>1. PICK k \in Nat : k = n + m
      OBVIOUS
    <3>2. a + b = p * k
      BY <2>3, <3>1
    <3> QED
      BY <3>2 DEF Multiple
  <2> QED
    BY <2>4, <2>5
<1>3. Multiple(b, p) <=> Multiple(2 * b, 2 * p)
  <2>1. \A n \in Nat : (b = p * n) <=> (2 * b = (2 * p) * n)
    <3> TAKE n \in Nat
    <3>1. (2 * p) * n = 2 * (p * n) /\ p * n \in Nat
      BY Z3T(30)
    <3> QED
      BY <3>1
  <2> QED
    BY <2>1 DEF Multiple
<1> QED
  BY <1>1, <1>2, <1>3

\* A multiple of a multiple is one.
LEMMA MultipleOfMultiple ==
  ASSUME NEW a \in Nat, NEW b \in Nat, NEW p \in Nat \ {0}, Multiple(a, b), Multiple(b, p)
  PROVE  Multiple(a, p)
<1>1. PICK n \in Nat : a = b * n
  BY DEF Multiple
<1>2. PICK m \in Nat : b = p * m
  BY DEF Multiple
<1>3. a = p * (m * n) /\ m * n \in Nat
  <2>1. \A x, y, z \in Nat : (x * y) * z = x * (y * z) /\ y * z \in Nat
    BY Z3T(30)
  <2> QED
    BY <1>1, <1>2, <2>1
<1> QED
  BY <1>3 DEF Multiple

\* There is nothing between a multiple and the next one.
LEMMA MultipleGap ==
  ASSUME NEW a \in Nat, NEW b \in Nat, NEW p \in Nat \ {0}, Multiple(a, p), Multiple(b, p), a < b
  PROVE  a + p <= b
<1>1. PICK n \in Nat : a = p * n
  BY DEF Multiple
<1>2. PICK m \in Nat : b = p * m
  BY DEF Multiple
<1>3. CASE n < m
  <2>1. PICK k \in Nat : m = n + 1 + k
    <3>1. m - n - 1 \in Nat /\ m = n + 1 + (m - n - 1)
      BY <1>3
    <3> QED
      BY <3>1
  <2>2. p * m = p * n + p + p * k /\ p * k \in Nat
    BY <2>1, Z3T(30)
  <2> QED
    BY <1>1, <1>2, <2>2
<1>4. CASE m <= n
  <2>1. PICK k \in Nat : n = m + k
    <3>1. n - m \in Nat /\ n = m + (n - m)
      BY <1>4
    <3> QED
      BY <3>1
  <2>2. p * n = p * m + p * k /\ p * k \in Nat
    BY <2>1, Z3T(30)
  <2> QED
    BY <1>1, <1>2, <2>2
<1> QED
  BY <1>3, <1>4

\* Of a multiple of p, and the one before it, one is a multiple of 2p.
LEMMA MultipleHalves ==
  ASSUME NEW b \in Nat, NEW p \in Nat \ {0}, Multiple(b, p)
  PROVE  /\ Multiple(b, 2 * p) \/ (p <= b /\ Multiple(b - p, 2 * p))
         /\ ~(Multiple(b, 2 * p) /\ p <= b /\ Multiple(b - p, 2 * p))
<1>1. PICK n \in Nat : b = p * n
  BY DEF Multiple
<1>2. PICK m \in Nat : n = 2 * m \/ n = 2 * m + 1
  <2>1. n \div 2 \in Nat /\ (n = 2 * (n \div 2) \/ n = 2 * (n \div 2) + 1)
    OBVIOUS
  <2> QED
    BY <2>1
<1>3. CASE n = 2 * m
  <2>1. p * (2 * m) = (2 * p) * m
    BY Z3T(30)
  <2> QED
    <3>1. Multiple(b, 2 * p)
      BY <1>1, <1>3, <2>1 DEF Multiple
    <3>2. ASSUME p <= b, Multiple(b - p, 2 * p) PROVE FALSE
      <4>1. b - p \in Nat /\ 2 * p \in Nat \ {0} /\ b - p < b
        BY <3>2
      <4>2. (b - p) + 2 * p <= b
        BY <3>1, <3>2, <4>1, MultipleGap
      <4> QED
        BY <3>2, <4>2
    <3> QED
      BY <3>1, <3>2
<1>4. CASE n = 2 * m + 1
  <2>1. p * (2 * m + 1) = (2 * p) * m + p /\ (2 * p) * m \in Nat
    BY Z3T(30)
  <2>2. p <= b /\ b - p = (2 * p) * m
    BY <1>1, <1>4, <2>1
  <2>3. Multiple(b - p, 2 * p)
    BY <2>2 DEF Multiple
  <2>4. ASSUME Multiple(b, 2 * p) PROVE FALSE
    <3>1. b - p \in Nat /\ 2 * p \in Nat \ {0} /\ b - p < b
      BY <2>2
    <3>2. (b - p) + 2 * p <= b
      BY <2>3, <2>4, <3>1, MultipleGap
    <3> QED
      BY <2>2, <3>2
  <2> QED
    BY <2>2, <2>3, <2>4
<1> QED
  BY <1>2, <1>3, <1>4

-----------------------------------------------------------------------------
(* Powers of two.                                                          *)

\* f holds the first powers of two, by doubling.
Doubles(f, n) == f = [i \in 0..n |-> IF i = 0 THEN 1 ELSE 2 * f[i - 1]]

\* The function that is defined by doubling does so.
LEMMA DoublingRecursion ==
  ASSUME NEW n \in Nat, NEW f, f = CHOOSE g : Doubles(g, n)
  PROVE  /\ f \in [0..n -> Nat \ {0}]
         /\ f[0] = 1 /\ \A i \in 0..n-1 : f[i + 1] = 2 * f[i]
<1> DEFINE S == 0..n
           R == Nat \ {0}
           T == [i \in S |-> i # 0]
           N == [i \in S |-> i - 1]
           G == [i \in S |-> [y \in R |-> 2 * y]]
           V == [i \in S |-> 1]
           m == [i \in S |-> i]
<1>1. PICK g \in [S -> R] : Solves(g, S, T, N, G, V)
  <2>1. Falls(S, T, N, m, n + 1)
    <3>1. m \in [S -> Nat] /\ \A i \in S : m[i] < n + 1
      OBVIOUS
    <3>2. \A i \in S : T[i] => N[i] \in S /\ m[N[i]] < m[i]
      <4>1. \A i \in S : (T[i] <=> i # 0) /\ N[i] = i - 1 /\ m[i] = i
        OBVIOUS
      <4>2. \A i \in S : i # 0 => i - 1 \in S /\ i - 1 < i
        OBVIOUS
      <4> HIDE DEF S, T, N, m
      <4> QED
        BY <4>1, <4>2
    <3> HIDE DEF S, T, N, m
    <3> QED
      BY <3>1, <3>2 DEF Falls
  <2>2. G \in [S -> [R -> R]] /\ V \in [S -> R] /\ n + 1 \in Nat
    OBVIOUS
  <2> HIDE DEF S, R, T, N, G, V, m
  <2> QED
    BY <2>1, <2>2, RecursionExists
<1>2. \A i \in S : g[i] = IF i = 0 THEN 1 ELSE 2 * g[i - 1]
  <2> SUFFICES ASSUME NEW i \in S PROVE g[i] = IF i = 0 THEN 1 ELSE 2 * g[i - 1]
    OBVIOUS
  <2>1. g[i] = IF T[i] THEN G[i][g[N[i]]] ELSE V[i]
    BY <1>1 DEF Solves
  <2>2. (T[i] <=> i # 0) /\ N[i] = i - 1 /\ V[i] = 1 /\ \A y \in R : G[i][y] = 2 * y
    OBVIOUS
  <2>3. i # 0 => g[i - 1] \in R
    <3>1. i # 0 => i - 1 \in S
      OBVIOUS
    <3> HIDE DEF S, R
    <3> QED
      BY <1>1, <3>1
  <2> HIDE DEF T, N, V, G, R
  <2> QED
    BY <2>1, <2>2, <2>3
<1>3. Doubles(g, n)
  <2>1. g = [i \in S |-> g[i]]
    BY <1>1
  <2> QED
    BY <1>2, <2>1 DEF Doubles
<1>4. Doubles(f, n)
  BY <1>3
<1>5. DOMAIN f = S /\ \A i \in S : f[i] = IF i = 0 THEN 1 ELSE 2 * f[i - 1]
  BY <1>4 DEF Doubles
<1>6. f[0] = 1 /\ \A i \in 0..n-1 : f[i + 1] = 2 * f[i]
  <2>1. 0 \in S /\ \A i \in 0..n-1 : i + 1 \in S /\ i + 1 # 0 /\ (i + 1) - 1 = i
    OBVIOUS
  <2> HIDE DEF S
  <2> QED
    BY <1>5, <2>1
<1>7. \A i \in S : f[i] \in R
  <2> DEFINE U == {i \in Nat : i <= n => f[i] \in R}
  <2>1. 0 \in U
    BY <1>6
  <2>2. ASSUME NEW i \in Nat, i \in U PROVE i + 1 \in U
    <3> SUFFICES ASSUME i + 1 <= n PROVE f[i + 1] \in R
      OBVIOUS
    <3>1. i \in 0..n-1 /\ f[i] \in R
      BY <2>2
    <3>2. f[i + 1] = 2 * f[i]
      BY <1>6, <3>1
    <3> QED
      BY <3>1, <3>2
  <2>3. \A i \in Nat : i \in U
    <3> HIDE DEF U
    <3> QED
      BY <2>1, <2>2, SetInduction
  <2> QED
    BY <2>3
<1>8. f = [i \in S |-> f[i]]
  BY <1>4, <1>5 DEF Doubles
<1> HIDE DEF S, R
<1>9. f \in [S -> R]
  BY <1>7, <1>8
<1> QED
  BY <1>6, <1>9 DEF S, R

\* A larger power of two is a multiple of twice each smaller one.
LEMMA DoublingMultiples ==
  ASSUME NEW n \in Nat, NEW f, f = CHOOSE g : Doubles(g, n),
         NEW i \in 0..n, NEW j \in 0..n, i < j
  PROVE  Multiple(f[j], 2 * f[i]) /\ f[i] < f[j]
<1> DEFINE p == 2 * f[i]
           U == {k \in Nat : i + 1 + k <= n =>
                   Multiple(f[i + 1 + k], p) /\ f[i] < f[i + 1 + k]}
<1>0. /\ \A k \in 0..n : f[k] \in Nat \ {0}
      /\ \A k \in 0..n-1 : f[k + 1] = 2 * f[k]
      /\ f[i] \in Nat \ {0} /\ p \in Nat \ {0}
  <2>1. f \in [0..n -> Nat \ {0}] /\ \A k \in 0..n-1 : f[k + 1] = 2 * f[k]
    BY DoublingRecursion
  <2>2. \A k \in 0..n : f[k] \in Nat \ {0}
    BY <2>1
  <2> QED
    BY <2>1, <2>2
<1>1. 0 \in U
  <2> SUFFICES ASSUME i + 1 <= n
               PROVE  Multiple(f[i + 1], p) /\ f[i] < f[i + 1]
    OBVIOUS
  <2>1. i \in 0..n-1
    BY <1>0
  <2>2. f[i + 1] = p
    BY <1>0, <2>1
  <2>3. Multiple(p, p)
    <3> HIDE DEF p
    <3> QED
      BY <1>0, MultipleClosed
  <2> QED
    BY <1>0, <2>2, <2>3
<1>2. ASSUME NEW k \in Nat, k \in U PROVE k + 1 \in U
  <2> SUFFICES ASSUME i + 1 + (k + 1) <= n
               PROVE  Multiple(f[i + 1 + (k + 1)], p) /\ f[i] < f[i + 1 + (k + 1)]
    OBVIOUS
  <2> DEFINE a == f[i + 1 + k]
  <2>1. i + 1 + k \in 0..n-1 /\ i + 1 + (k + 1) = (i + 1 + k) + 1 /\ i + 1 + k \in 0..n
    BY <1>0
  <2>2. f[i + 1 + (k + 1)] = 2 * a /\ a \in Nat \ {0} /\ 2 * a = a + a
    BY <1>0, <2>1
  <2>3. Multiple(a, p) /\ f[i] < a
    BY <1>2, <2>1
  <2>4. Multiple(a + a, p)
    <3> HIDE DEF a, p
    <3> QED
      BY <1>0, <2>2, <2>3, MultipleClosed
  <2> QED
    BY <1>0, <2>2, <2>3, <2>4
<1>3. \A k \in Nat : k \in U
  <2> HIDE DEF U
  <2> QED
    BY <1>1, <1>2, SetInduction
<1>4. j - i - 1 \in Nat /\ i + 1 + (j - i - 1) = j
  BY <1>0
<1>5. j - i - 1 \in U
  <2> HIDE DEF U
  <2> QED
    BY <1>3, <1>4
<1> QED
  BY <1>4, <1>5

-----------------------------------------------------------------------------
(* Folds over a finite set in an order of choice.                          *)

\* it is the function a fold over the subsets of D is defined by: c chooses what is
\* taken first, and G combines it with the fold of the rest.
FoldsWith(it, G, c, base, D) ==
  it = [s \in SUBSET D |-> IF s = {} THEN base ELSE G[c[s]][it[s \ {c[s]}]]]

\* c chooses an element of every set.
Chooses(c, D) == \A s \in SUBSET D : s # {} => c[s] \in s

\* There is such a function.
LEMMA FoldWithExists ==
  ASSUME NEW D, IsFiniteSet(D), NEW R, NEW base \in R, NEW G \in [D -> [R -> R]],
         NEW c, Chooses(c, D)
  PROVE  \E it \in [SUBSET D -> R] : FoldsWith(it, G, c, base, D)
<1> DEFINE S == SUBSET D
           T == [s \in S |-> s # {}]
           N == [s \in S |-> s \ {c[s]}]
           H == [s \in S |-> IF s = {} THEN [r \in R |-> r] ELSE G[c[s]]]
           V == [s \in S |-> base]
           m == [s \in S |-> Cardinality(s)]
           b == Cardinality(D) + 1
<1>1. \A s \in S : IsFiniteSet(s) /\ Cardinality(s) \in Nat /\ Cardinality(s) <= Cardinality(D)
  BY FS_Subset, FS_CardinalityType
<1>2. b \in Nat /\ \A s \in S : Cardinality(s) < b
  BY <1>1
<1>3. ASSUME NEW s \in S, s # {}
      PROVE  s \ {c[s]} \in S /\ Cardinality(s \ {c[s]}) < Cardinality(s)
  <2>1. c[s] \in s /\ IsFiniteSet(s)
    BY <1>1, <1>3 DEF Chooses
  <2>2. Cardinality(s \ {c[s]}) = Cardinality(s) - 1
    BY <2>1, FS_RemoveElement
  <2> QED
    BY <1>1, <2>2
<1>4. Falls(S, T, N, m, b)
  <2>1. m \in [S -> Nat]
    BY <1>1
  <2>2. \A s \in S : m[s] < b
    BY <1>2
  <2>3. \A s \in S : T[s] => N[s] \in S /\ m[N[s]] < m[s]
    BY <1>3
  <2> HIDE DEF T, N, m, b, S
  <2> QED
    BY <2>1, <2>2, <2>3 DEF Falls
<1>5. H \in [S -> [R -> R]]
  <2>1. ASSUME NEW s \in S PROVE (IF s = {} THEN [r \in R |-> r] ELSE G[c[s]]) \in [R -> R]
    <3>1. CASE s = {}
      BY <3>1
    <3>2. CASE s # {}
      <4>1. c[s] \in D
        BY <3>2 DEF Chooses
      <4> QED
        BY <3>2, <4>1
    <3> QED
      BY <3>1, <3>2
  <2> QED
    BY <2>1
<1>6. V \in [S -> R]
  OBVIOUS
<1>7. PICK it : it \in [S -> R] /\ Solves(it, S, T, N, H, V)
  <2> HIDE DEF S, T, N, H, V, m, b
  <2>1. \E it \in [S -> R] : Solves(it, S, T, N, H, V)
    BY <1>2, <1>4, <1>5, <1>6, RecursionExists
  <2> QED
    BY <2>1
<1>8. ASSUME NEW s \in S PROVE it[s] = IF s = {} THEN base ELSE G[c[s]][it[s \ {c[s]}]]
  <2>1. it[s] = IF T[s] THEN H[s][it[N[s]]] ELSE V[s]
    BY <1>7 DEF Solves
  <2>2. /\ T[s] = (s # {}) /\ V[s] = base /\ N[s] = s \ {c[s]}
        /\ H[s] = IF s = {} THEN [r \in R |-> r] ELSE G[c[s]]
    OBVIOUS
  <2> HIDE DEF T, V, N, H
  <2> QED
    BY <2>1, <2>2
<1>9. it = [s \in S |-> IF s = {} THEN base ELSE G[c[s]][it[s \ {c[s]}]]]
  <2> DEFINE jt == [s \in S |-> IF s = {} THEN base ELSE G[c[s]][it[s \ {c[s]}]]]
  <2>1. DOMAIN jt = S /\ DOMAIN it = S /\ \A s \in S : it[s] = jt[s]
    BY <1>7, <1>8
  <2>2. jt = [s \in S |-> jt[s]] /\ it = [s \in S |-> it[s]]
    BY <1>7
  <2> HIDE DEF jt, S
  <2>3. it = jt
    BY <2>1, <2>2
  <2> QED
    BY <2>3 DEF jt, S
<1> QED
  BY <1>7, <1>9 DEF FoldsWith
=============================================================================
