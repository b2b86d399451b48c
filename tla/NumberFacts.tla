----------------------------- MODULE NumberFacts -----------------------------
(***************************************************************************)
(* Facts about numbers and finite sums that the other proofs need: least   *)
(* elements, induction along the numbers and over the subsets of a finite  *)
(* set (by least counterexample, on sets, which every prover can           *)
(* instantiate), division, roots, and what SumFunctionOnSet of module      *)
(* Functions does when a summand changes, comes or goes.                   *)
(***************************************************************************)
EXTENDS Integers, FiniteSets, Functions, TLAPS, FiniteSetTheorems, WellFoundedInduction

(* A set of natural numbers that is not empty has a least element.         *)
LEMMA LeastNumber ==
  ASSUME NEW T, T \subseteq Nat, T # {}
  PROVE  \E n \in T : \A k \in T : n <= k
<1> DEFINE R == OpToRel(<, Nat)
<1>1. PICK n \in T : \A k \in T : ~ (<<k, n>> \in R)
  BY NatLessThanWellFounded, WFMin
<1>2. \A k \in Nat : k < n => <<k, n>> \in R
  BY DEF OpToRel
<1>3. \A k \in T : ~ (k < n)
  BY <1>1, <1>2
<1> HIDE DEF R
<1> QED BY <1>1, <1>3

(* What holds at 0 and passes from each number to the next holds for all.  *)
LEMMA NumbersReached ==
  ASSUME NEW T, 0 \in T, \A n \in Nat : n \in T => n + 1 \in T
  PROVE  \A n \in Nat : n \in T
<1> SUFFICES ASSUME NEW m \in Nat, m \notin T PROVE FALSE
  OBVIOUS
<1> DEFINE missed == Nat \ T
<1>1. missed \subseteq Nat /\ missed # {}
  OBVIOUS
<1>2. PICK n \in missed : \A k \in missed : n <= k
  BY <1>1, LeastNumber
<1>3. n \in Nat /\ n # 0 /\ n \notin T
  BY <1>2
<1>4. n - 1 \in Nat /\ (n - 1) + 1 = n
  BY <1>3
<1>5. n - 1 \in T
  <2> SUFFICES ASSUME n - 1 \in missed PROVE FALSE
    BY <1>4
  <2>1. n <= n - 1
    BY <1>2
  <2> QED BY <1>3, <2>1
<1> QED BY <1>3, <1>4, <1>5

(* What holds of the empty set and survives one more element holds of      *)
(* every finite set.                                                       *)
LEMMA SetsReached ==
  ASSUME NEW S, IsFiniteSet(S), NEW F, {} \in F,
         \A s \in SUBSET S, x \in S : s \in F /\ x \notin s => s \cup {x} \in F
  PROVE  \A s \in SUBSET S : s \in F
<1> DEFINE T == {n \in Nat : \A s \in SUBSET S : Cardinality(s) = n => s \in F}
<1>1. \A s \in SUBSET S : IsFiniteSet(s) /\ Cardinality(s) \in Nat
  BY FS_Subset, FS_CardinalityType
<1>2. 0 \in T
  BY <1>1, FS_EmptySet
<1>3. ASSUME NEW n \in Nat, n \in T PROVE n + 1 \in T
  <2> SUFFICES ASSUME NEW s \in SUBSET S, Cardinality(s) = n + 1 PROVE s \in F
    OBVIOUS
  <2>1. PICK x : x \in s
    BY <1>1, FS_EmptySet
  <2>2. Cardinality(s \ {x}) = Cardinality(s) - 1
    BY <1>1, <2>1, FS_RemoveElement
  <2>3. s \ {x} \in F
    BY <1>3, <2>2
  <2>4. s = (s \ {x}) \cup {x}
    BY <2>1
  <2> QED BY <2>1, <2>3, <2>4
<1> HIDE DEF T
<1>4. \A n \in Nat : n \in T
  BY <1>2, <1>3, NumbersReached
<1> QED BY <1>1, <1>4 DEF T

----------------------------------------------------------------------------
LEMMA DivFact ==
  ASSUME NEW n \in Nat, NEW d \in Nat \ {0}
  PROVE  /\ n \div d \in Nat
         /\ d * (n \div d) <= n
         /\ n < d * (n \div d) + d
OBVIOUS

LEMMA ProductFacts ==
  ASSUME NEW d \in Nat, NEW k \in Int
  PROVE  /\ d * k \in Int
         /\ d * (k + 1) = d * k + d
         /\ k >= 0 => d * k >= 0
         /\ k <= 0 => d * k <= 0
OBVIOUS

(* A number of whole portions that fit is at most the quotient.            *)
LEMMA QuotientBounds ==
  ASSUME NEW n \in Nat, NEW d \in Nat \ {0}, NEW k \in Int, d * k <= n
  PROVE  k <= n \div d
<1> DEFINE q == n \div d
<1>1. q \in Nat /\ n < d * q + d
  BY DivFact
<1> HIDE DEF q
<1> SUFFICES ASSUME k - (q + 1) >= 0 PROVE FALSE
  BY <1>1 DEF q
<1>2. d * (k - (q + 1)) >= 0
  BY <1>1, ProductFacts
<1>3. d * (k - (q + 1)) = d * k - (d * q + d)
  BY <1>1
<1> QED BY <1>1, <1>2, <1>3, ProductFacts

(* A number less than one portion more has at most so many portions.       *)
LEMMA QuotientAtMost ==
  ASSUME NEW n \in Nat, NEW d \in Nat \ {0}, NEW k \in Nat, n < d * (k + 1)
  PROVE  n \div d <= k
<1> DEFINE q == n \div d
<1>1. q \in Nat /\ d * q <= n
  BY DivFact
<1> HIDE DEF q
<1> SUFFICES ASSUME q - (k + 1) >= 0 PROVE FALSE
  BY <1>1 DEF q
<1>2. d * (q - (k + 1)) >= 0
  BY <1>1, ProductFacts
<1>3. d * (q - (k + 1)) = d * q - d * (k + 1)
  BY <1>1
<1>4. d * q \in Nat /\ d * (k + 1) \in Nat
  BY <1>1
<1> QED BY <1>1, <1>2, <1>3, <1>4

LEMMA QuotientMonotone ==
  ASSUME NEW a \in Nat, NEW b \in Nat, a <= b, NEW d \in Nat \ {0}, NEW e \in Nat \ {0}, e <= d
  PROVE  a \div d <= b \div e
<1> DEFINE k == a \div d
<1>1. k \in Nat /\ d * k <= a
  BY DivFact
<1> HIDE DEF k
<1>2. e * k <= d * k /\ e * k \in Nat /\ d * k \in Nat
  BY <1>1
<1>3. e * k <= b /\ k \in Int
  BY <1>1, <1>2
<1> QED BY <1>3, QuotientBounds DEF k

(* The remainder of a number within a turn, and of one in the next turn.   *)
LEMMA RemainderFacts ==
  ASSUME NEW n \in Nat \ {0}, NEW k \in 0..n-1
  PROVE  k % n = k /\ (n + k) % n = k
OBVIOUS

(* Every natural number has a root rounded down: below the least number    *)
(* whose successor's square is larger.                                     *)
LEMMA IntegerRoot ==
  ASSUME NEW n \in Nat
  PROVE  \E r \in Nat : r * r <= n /\ n < (r + 1) * (r + 1)
<1> DEFINE T == {r \in Nat : n < (r + 1) * (r + 1)}
<1>1. n \in T
  OBVIOUS
<1>2. PICK r \in T : \A k \in T : r <= k
  BY <1>1, LeastNumber
<1>3. r * r <= n
  <2>1. CASE r = 0
    BY <2>1
  <2>2. CASE r # 0
    <3>1. r - 1 \in Nat /\ r - 1 < r
      BY <2>2
    <3>2. r - 1 \notin T
      BY <1>2, <3>1
    <3>3. ~ (n < r * r)
      BY <3>1, <3>2
    <3> QED BY <3>3
  <2> QED BY <2>1, <2>2
<1> QED BY <1>3

(* The root is found in the range that is searched for it.                 *)
LEMMA RootFact ==
  ASSUME NEW p \in Nat \ {0}, NEW x \in Nat
  PROVE  (CHOOSE r \in 0..x + p : r * r <= x * p /\ x * p < (r + 1) * (r + 1)) \in Nat
<1>1. p \in Nat \ {0} /\ x * p \in Nat
  OBVIOUS
<1>2. PICK r \in Nat : r * r <= x * p /\ x * p < (r + 1) * (r + 1)
  BY <1>1, IntegerRoot
<1>3. r <= x + p
  <2> SUFFICES ASSUME r > x + p PROVE FALSE
    BY <1>1, <1>2
  <2>1. r * r >= (x + p) * (x + p)
    BY <1>1
  <2>2. (x + p) * (x + p) > x * p
    BY <1>1
  <2>3. (x + p) * (x + p) \in Nat /\ r * r \in Nat
    BY <1>1
  <2> QED BY <1>1, <1>2, <2>1, <2>2, <2>3
<1> DEFINE Root(q) == q * q <= x * p /\ x * p < (q + 1) * (q + 1)
<1>4. r \in 0..x + p /\ Root(r)
  BY <1>1, <1>2, <1>3
<1> HIDE DEF Root
<1>5. (CHOOSE q \in 0..x + p : Root(q)) \in 0..x + p
  BY <1>4
<1> QED BY <1>5 DEF Root

----------------------------------------------------------------------------
(* The recursion behind SumFunctionOnSet: take any element, go on without. *)
Picked(s) == CHOOSE x \in s : TRUE
Sums(it, f, S) ==
  it = [s \in SUBSET S |-> IF s = {} THEN 0 ELSE f[Picked(s)] + it[s \ {Picked(s)}]]

LEMMA PickedFact == \A s : s # {} => Picked(s) \in s
BY DEF Picked

(* A function that follows it exists for every finite set.                 *)
LEMMA SumsExist ==
  ASSUME NEW f, NEW S, IsFiniteSet(S)
  PROVE  \E it : Sums(it, f, S)
<1> DEFINE Step(it, s) == IF s = {} THEN 0 ELSE f[Picked(s)] + it[s \ {Picked(s)}]
           UpTo(it, n) == \A s \in SUBSET S : Cardinality(s) <= n => it[s] = Step(it, s)
           T == {n \in Nat : \E it : UpTo(it, n)}
<1>1. \A s \in SUBSET S : IsFiniteSet(s) /\ Cardinality(s) \in Nat
  BY FS_Subset, FS_CardinalityType
<1>2. \A s \in SUBSET S : s # {} =>
        s \ {Picked(s)} \in SUBSET S /\ Cardinality(s \ {Picked(s)}) = Cardinality(s) - 1
  BY <1>1, PickedFact, FS_RemoveElement
<1>3. 0 \in T
  <2>1. UpTo([s \in SUBSET S |-> 0], 0)
    BY <1>1, FS_EmptySet
  <2> QED BY <2>1
<1>4. ASSUME NEW n \in Nat, n \in T PROVE n + 1 \in T
  <2>1. PICK it : UpTo(it, n)
    BY <1>4
  <2> DEFINE longer == [s \in SUBSET S |-> Step(it, s)]
  <2>2. \A s \in SUBSET S : Cardinality(s) <= n => longer[s] = it[s]
    BY <2>1
  <2>3. ASSUME NEW s \in SUBSET S, Cardinality(s) <= n + 1, s # {}
        PROVE  longer[s] = Step(longer, s)
    <3>1. s \ {Picked(s)} \in SUBSET S /\ Cardinality(s \ {Picked(s)}) <= n
      BY <1>1, <1>2, <2>3
    <3>2. longer[s \ {Picked(s)}] = it[s \ {Picked(s)}]
      BY <2>2, <3>1
    <3> QED BY <2>3, <3>2
  <2>4. UpTo(longer, n + 1)
    BY <2>3
  <2> HIDE DEF UpTo, longer
  <2> QED BY <2>4
<1> HIDE DEF T
<1>5. Cardinality(S) \in T
  BY <1>1, <1>3, <1>4, NumbersReached
<1>6. PICK it : UpTo(it, Cardinality(S))
  BY <1>5 DEF T
<1> DEFINE whole == [s \in SUBSET S |-> it[s]]
<1>7. \A s \in SUBSET S : Cardinality(s) <= Cardinality(S)
  BY FS_Subset
<1>8. \A s \in SUBSET S : whole[s] = Step(whole, s)
  <2> SUFFICES ASSUME NEW s \in SUBSET S PROVE it[s] = Step(whole, s)
    OBVIOUS
  <2>1. it[s] = Step(it, s)
    BY <1>6, <1>7
  <2>2. CASE s = {}
    BY <2>1, <2>2
  <2>3. CASE s # {}
    BY <1>2, <2>1, <2>3
  <2> QED BY <2>2, <2>3
<1>9. whole = [s \in SUBSET S |-> Step(whole, s)]
  BY <1>8
<1> QED BY <1>9 DEF Sums

LEMMA SumIsSums ==
  ASSUME NEW f, NEW S, IsFiniteSet(S)
  PROVE  \E it : Sums(it, f, S) /\ SumFunctionOnSet(f, S) = it[S]
<1>1. SumFunctionOnSet(f, S) = (CHOOSE it : Sums(it, f, S))[S]
  BY DEF SumFunctionOnSet, FoldFunctionOnSet, MapThenFoldSet, Sums, Picked
<1> QED BY <1>1, SumsExist

(* The value does not depend on the set the recursion started from.        *)
LEMMA SumsAgree ==
  ASSUME NEW f, NEW S, IsFiniteSet(S), NEW R \in SUBSET S,
         NEW it, Sums(it, f, S), NEW jt, Sums(jt, f, R)
  PROVE  it[R] = jt[R]
<1> DEFINE F == {s \in SUBSET R : it[s] = jt[s]}
           T == {n \in Nat : \A s \in SUBSET R : Cardinality(s) <= n => it[s] = jt[s]}
<1>1. IsFiniteSet(R)
  BY FS_Subset
<1>2. \A s \in SUBSET R : IsFiniteSet(s) /\ Cardinality(s) \in Nat /\ s \in SUBSET S
  BY <1>1, FS_Subset, FS_CardinalityType
<1>3. \A s \in SUBSET R : s # {} =>
        s \ {Picked(s)} \in SUBSET R /\ Cardinality(s \ {Picked(s)}) = Cardinality(s) - 1
  BY <1>2, PickedFact, FS_RemoveElement
<1>4. \A s \in SUBSET R : s = {} => it[s] = jt[s]
  BY <1>2 DEF Sums
<1>5. 0 \in T
  BY <1>2, <1>4, FS_EmptySet
<1>6. ASSUME NEW n \in Nat, n \in T PROVE n + 1 \in T
  <2> SUFFICES ASSUME NEW s \in SUBSET R, Cardinality(s) <= n + 1, s # {}
               PROVE  it[s] = jt[s]
    BY <1>4
  <2>1. it[s \ {Picked(s)}] = jt[s \ {Picked(s)}]
    BY <1>2, <1>3, <1>6
  <2>2. it[s] = f[Picked(s)] + it[s \ {Picked(s)}]
    BY <1>2 DEF Sums
  <2>3. jt[s] = f[Picked(s)] + jt[s \ {Picked(s)}]
    BY DEF Sums
  <2> QED BY <2>1, <2>2, <2>3
<1> HIDE DEF T
<1>7. Cardinality(R) \in T
  BY <1>2, <1>5, <1>6, NumbersReached
<1> QED BY <1>2, <1>7 DEF T

LEMMA SumOfNone == \A f : SumFunctionOnSet(f, {}) = 0
<1> SUFFICES ASSUME NEW f PROVE SumFunctionOnSet(f, {}) = 0
  OBVIOUS
<1>1. PICK it : Sums(it, f, {}) /\ SumFunctionOnSet(f, {}) = it[{}]
  BY SumIsSums, FS_EmptySet
<1> QED BY <1>1 DEF Sums

LEMMA SumOfPicked ==
  ASSUME NEW f, NEW S, IsFiniteSet(S), S # {}
  PROVE  SumFunctionOnSet(f, S) = f[Picked(S)] + SumFunctionOnSet(f, S \ {Picked(S)})
<1> DEFINE R == S \ {Picked(S)}
<1>1. IsFiniteSet(R) /\ R \in SUBSET S
  BY FS_Subset
<1>2. PICK it : Sums(it, f, S) /\ SumFunctionOnSet(f, S) = it[S]
  BY SumIsSums
<1>3. PICK jt : Sums(jt, f, R) /\ SumFunctionOnSet(f, R) = jt[R]
  BY <1>1, SumIsSums
<1>4. it[R] = jt[R]
  BY <1>1, <1>2, <1>3, SumsAgree
<1>5. it[S] = f[Picked(S)] + it[R]
  BY <1>2 DEF Sums
<1> QED BY <1>2, <1>3, <1>4, <1>5

LEMMA SumIsInt ==
  ASSUME NEW f, NEW S, IsFiniteSet(S), \A x \in S : f[x] \in Int
  PROVE  \A s \in SUBSET S : SumFunctionOnSet(f, s) \in Int
<1> DEFINE T == {n \in Nat : \A s \in SUBSET S :
                               Cardinality(s) <= n => SumFunctionOnSet(f, s) \in Int}
<1>1. \A s \in SUBSET S : IsFiniteSet(s) /\ Cardinality(s) \in Nat
  BY FS_Subset, FS_CardinalityType
<1>2. \A s \in SUBSET S : Cardinality(s) <= 0 => s = {}
  BY <1>1, FS_EmptySet
<1>3. 0 \in T
  BY <1>2, SumOfNone
<1>4. ASSUME NEW n \in Nat, n \in T PROVE n + 1 \in T
  <2> SUFFICES ASSUME NEW s \in SUBSET S, Cardinality(s) <= n + 1, s # {}
               PROVE  SumFunctionOnSet(f, s) \in Int
    BY SumOfNone
  <2>1. Cardinality(s \ {Picked(s)}) = Cardinality(s) - 1 /\ Picked(s) \in S
    BY <1>1, PickedFact, FS_RemoveElement
  <2>2. SumFunctionOnSet(f, s \ {Picked(s)}) \in Int
    BY <1>1, <1>4, <2>1
  <2> QED BY <1>1, <2>1, <2>2, SumOfPicked
<1> HIDE DEF T
<1>5. Cardinality(S) \in T
  BY <1>1, <1>3, <1>4, NumbersReached
<1>6. \A s \in SUBSET S : Cardinality(s) <= Cardinality(S)
  BY FS_Subset
<1> QED BY <1>1, <1>5, <1>6 DEF T

(* Any element may be the first to be added.                               *)
LEMMA SumOfAny ==
  ASSUME NEW f, NEW S, IsFiniteSet(S), \A x \in S : f[x] \in Int
  PROVE  \A s \in SUBSET S, x \in S : x \in s =>
           SumFunctionOnSet(f, s) = f[x] + SumFunctionOnSet(f, s \ {x})
<1> DEFINE Any(s) == \A x \in s : SumFunctionOnSet(f, s) = f[x] + SumFunctionOnSet(f, s \ {x})
           T == {n \in Nat : \A s \in SUBSET S : Cardinality(s) <= n => Any(s)}
<1>1. \A s \in SUBSET S : IsFiniteSet(s) /\ Cardinality(s) \in Nat
  BY FS_Subset, FS_CardinalityType
<1>2. \A s \in SUBSET S : SumFunctionOnSet(f, s) \in Int
  BY SumIsInt
<1>3. 0 \in T
  <2>1. \A s \in SUBSET S : Cardinality(s) <= 0 => s = {}
    BY <1>1, FS_EmptySet
  <2> QED BY <2>1
<1>4. ASSUME NEW n \in Nat, n \in T PROVE n + 1 \in T
  <2> SUFFICES ASSUME NEW s \in SUBSET S, Cardinality(s) <= n + 1, NEW x \in s
               PROVE  SumFunctionOnSet(f, s) = f[x] + SumFunctionOnSet(f, s \ {x})
    OBVIOUS
  <2>1. PICK c \in s : c = Picked(s)
    BY PickedFact
  <2>2. SumFunctionOnSet(f, s) = f[c] + SumFunctionOnSet(f, s \ {c})
    BY <1>1, <2>1, SumOfPicked
  <2>3. CASE x = c
    BY <2>2, <2>3
  <2>4. CASE x # c
    <3>1. Cardinality(s \ {c}) <= n /\ Cardinality(s \ {x}) <= n
      BY <1>1, FS_RemoveElement
    <3>2. Any(s \ {c}) /\ Any(s \ {x})
      BY <1>4, <3>1
    <3>3. (s \ {c}) \ {x} = (s \ {x}) \ {c}
      OBVIOUS
    <3> DEFINE rest == SumFunctionOnSet(f, (s \ {c}) \ {x})
    <3>4. SumFunctionOnSet(f, s \ {c}) = f[x] + rest
      BY <2>4, <3>2
    <3>5. SumFunctionOnSet(f, s \ {x}) = f[c] + rest
      BY <2>4, <3>2, <3>3
    <3>6. rest \in Int /\ f[x] \in Int /\ f[c] \in Int
      BY <1>2
    <3> HIDE DEF rest
    <3> QED BY <2>2, <3>4, <3>5, <3>6
  <2> QED BY <2>3, <2>4
<1> HIDE DEF T
<1>5. Cardinality(S) \in T
  BY <1>1, <1>3, <1>4, NumbersReached
<1>6. \A s \in SUBSET S : Cardinality(s) <= Cardinality(S)
  BY FS_Subset
<1> QED BY <1>1, <1>5, <1>6 DEF T

----------------------------------------------------------------------------
(* What the books use.                                                     *)

(* An element that comes adds its summand.                                 *)
LEMMA SumAdd ==
  ASSUME NEW f, NEW S, IsFiniteSet(S), NEW x, x \notin S,
         \A y \in S \cup {x} : f[y] \in Int
  PROVE  SumFunctionOnSet(f, S \cup {x}) = f[x] + SumFunctionOnSet(f, S)
<1> DEFINE U == S \cup {x}
<1>1. IsFiniteSet(U)
  BY FS_AddElement
<1>2. U \in SUBSET U /\ x \in U /\ U \ {x} = S
  OBVIOUS
<1> HIDE DEF U
<1>3. \A y \in U : f[y] \in Int
  BY DEF U
<1>4. SumFunctionOnSet(f, U) = f[x] + SumFunctionOnSet(f, U \ {x})
  BY <1>1, <1>2, <1>3, SumOfAny
<1> QED BY <1>2, <1>4 DEF U

(* Functions that agree on a set have the same sum over it.                *)
LEMMA SumSame ==
  ASSUME NEW f, NEW g, NEW S, IsFiniteSet(S),
         \A x \in S : f[x] \in Int /\ g[x] = f[x]
  PROVE  SumFunctionOnSet(g, S) = SumFunctionOnSet(f, S)
<1> DEFINE F == {s \in SUBSET S : SumFunctionOnSet(g, s) = SumFunctionOnSet(f, s)}
<1>1. {} \in F
  BY SumOfNone
<1>2. ASSUME NEW s \in SUBSET S, NEW x \in S, s \in F, x \notin s
      PROVE  s \cup {x} \in F
  <2>1. IsFiniteSet(s)
    BY FS_Subset
  <2>2. SumFunctionOnSet(g, s \cup {x}) = g[x] + SumFunctionOnSet(g, s)
    BY <1>2, <2>1, SumAdd
  <2>3. SumFunctionOnSet(f, s \cup {x}) = f[x] + SumFunctionOnSet(f, s)
    BY <1>2, <2>1, SumAdd
  <2> QED BY <1>2, <2>2, <2>3
<1> HIDE DEF F
<1>3. S \in F
  BY <1>1, <1>2, SetsReached
<1> QED BY <1>3 DEF F

LEMMA SumIsZero ==
  ASSUME NEW f, NEW S, IsFiniteSet(S), \A x \in S : f[x] = 0
  PROVE  SumFunctionOnSet(f, S) = 0
<1> DEFINE F == {s \in SUBSET S : SumFunctionOnSet(f, s) = 0}
<1>1. {} \in F
  BY SumOfNone
<1>2. ASSUME NEW s \in SUBSET S, NEW x \in S, s \in F, x \notin s
      PROVE  s \cup {x} \in F
  <2>1. IsFiniteSet(s) /\ \A y \in s \cup {x} : f[y] \in Int
    BY FS_Subset
  <2>2. SumFunctionOnSet(f, s \cup {x}) = f[x] + SumFunctionOnSet(f, s)
    BY <1>2, <2>1, SumAdd
  <2> QED BY <1>2, <2>2
<1> HIDE DEF F
<1>3. S \in F
  BY <1>1, <1>2, SetsReached
<1> QED BY <1>3 DEF F

(* A sum of natural numbers is one, and no summand exceeds it.             *)
LEMMA SumIsNat ==
  ASSUME NEW f, NEW S, IsFiniteSet(S), \A x \in S : f[x] \in Nat
  PROVE  /\ SumFunctionOnSet(f, S) \in Nat
         /\ \A x \in S : f[x] <= SumFunctionOnSet(f, S)
<1> DEFINE F == {s \in SUBSET S : SumFunctionOnSet(f, s) \in Nat}
<1>1. {} \in F
  BY SumOfNone
<1>2. ASSUME NEW s \in SUBSET S, NEW x \in S, s \in F, x \notin s
      PROVE  s \cup {x} \in F
  <2>1. IsFiniteSet(s) /\ \A y \in s \cup {x} : f[y] \in Int
    BY FS_Subset
  <2>2. SumFunctionOnSet(f, s \cup {x}) = f[x] + SumFunctionOnSet(f, s)
    BY <1>2, <2>1, SumAdd
  <2> QED BY <1>2, <2>2
<1> HIDE DEF F
<1>3. \A s \in SUBSET S : s \in F
  BY <1>1, <1>2, SetsReached
<1>4. ASSUME NEW x \in S PROVE f[x] <= SumFunctionOnSet(f, S)
  <2>1. \A y \in S : f[y] \in Int
    OBVIOUS
  <2>2. SumFunctionOnSet(f, S) = f[x] + SumFunctionOnSet(f, S \ {x})
    BY <2>1, SumOfAny
  <2>3. SumFunctionOnSet(f, S \ {x}) \in Nat
    BY <1>3 DEF F
  <2> QED BY <2>2, <2>3
<1> QED BY <1>3, <1>4 DEF F

(* One summand changes: the sum changes by as much.                        *)
LEMMA SumChange ==
  ASSUME NEW f, NEW g, NEW S, IsFiniteSet(S), NEW x \in S,
         \A y \in S : f[y] \in Int, g[x] \in Int,
         \A y \in S : y # x => g[y] = f[y]
  PROVE  SumFunctionOnSet(g, S) = SumFunctionOnSet(f, S) + g[x] - f[x]
<1> DEFINE R == S \ {x}
<1>1. IsFiniteSet(R) /\ R \in SUBSET S
  BY FS_Subset
<1>2. \A y \in S : g[y] \in Int
  OBVIOUS
<1>3. SumFunctionOnSet(f, S) = f[x] + SumFunctionOnSet(f, R)
  BY SumOfAny
<1>4. SumFunctionOnSet(g, S) = g[x] + SumFunctionOnSet(g, R)
  BY <1>2, SumOfAny
<1>5. \A y \in R : f[y] \in Int /\ g[y] = f[y]
  OBVIOUS
<1>6. SumFunctionOnSet(g, R) = SumFunctionOnSet(f, R)
  BY <1>1, <1>5, SumSame
<1>7. SumFunctionOnSet(f, R) \in Int
  BY <1>1, SumIsInt
<1> QED BY <1>3, <1>4, <1>6, <1>7

(* Sums of sums.                                                           *)
LEMMA SumsAdd ==
  ASSUME NEW f, NEW g, NEW h, NEW S, IsFiniteSet(S),
         \A x \in S : f[x] \in Int /\ g[x] \in Int /\ h[x] = f[x] + g[x]
  PROVE  SumFunctionOnSet(h, S) = SumFunctionOnSet(f, S) + SumFunctionOnSet(g, S)
<1> DEFINE F == {s \in SUBSET S :
                   SumFunctionOnSet(h, s) = SumFunctionOnSet(f, s) + SumFunctionOnSet(g, s)}
<1>1. {} \in F
  BY SumOfNone
<1>2. ASSUME NEW s \in SUBSET S, NEW x \in S, s \in F, x \notin s
      PROVE  s \cup {x} \in F
  <2>1. IsFiniteSet(s) /\ \A y \in S : f[y] \in Int /\ g[y] \in Int /\ h[y] \in Int
    BY FS_Subset
  <2>2. /\ SumFunctionOnSet(h, s \cup {x}) = h[x] + SumFunctionOnSet(h, s)
        /\ SumFunctionOnSet(f, s \cup {x}) = f[x] + SumFunctionOnSet(f, s)
        /\ SumFunctionOnSet(g, s \cup {x}) = g[x] + SumFunctionOnSet(g, s)
    BY <1>2, <2>1, SumAdd
  <2>3. SumFunctionOnSet(f, s) \in Int /\ SumFunctionOnSet(g, s) \in Int
    BY <2>1, SumIsInt
  <2> DEFINE u == s \cup {x}
  <2>4. /\ u \in SUBSET S
        /\ SumFunctionOnSet(h, u) = SumFunctionOnSet(f, u) + SumFunctionOnSet(g, u)
    BY <1>2, <2>2, <2>3
  <2> HIDE DEF u
  <2>5. u \in F
    BY <2>4
  <2> HIDE DEF F
  <2> QED BY <2>5 DEF u
<1> HIDE DEF F
<1>3. S \in F
  BY <1>1, <1>2, SetsReached
<1> QED BY <1>3 DEF F

(* A set sums to a part of it and the rest.                                *)
LEMMA SumSplit ==
  ASSUME NEW f, NEW S, IsFiniteSet(S), NEW R \in SUBSET S, \A x \in S : f[x] \in Int
  PROVE  SumFunctionOnSet(f, S) = SumFunctionOnSet(f, R) + SumFunctionOnSet(f, S \ R)
<1> DEFINE F == {s \in SUBSET R :
                   SumFunctionOnSet(f, (S \ R) \cup s)
                     = SumFunctionOnSet(f, s) + SumFunctionOnSet(f, S \ R)}
<1>1. IsFiniteSet(R) /\ IsFiniteSet(S \ R) /\ SumFunctionOnSet(f, S \ R) \in Int
  BY FS_Subset, SumIsInt
<1>2. {} \in F
  BY <1>1, SumOfNone
<1>3. ASSUME NEW s \in SUBSET R, NEW x \in R, s \in F, x \notin s
      PROVE  s \cup {x} \in F
  <2> DEFINE t == (S \ R) \cup s
  <2>1. /\ IsFiniteSet(s) /\ IsFiniteSet(t) /\ x \notin t
        /\ s \in SUBSET S /\ t \in SUBSET S /\ (S \ R) \cup (s \cup {x}) = t \cup {x}
    BY <1>3, FS_Subset
  <2>2. SumFunctionOnSet(f, t) \in Int /\ SumFunctionOnSet(f, s) \in Int /\ f[x] \in Int
    BY <2>1, SumIsInt
  <2>3. \A y \in t \cup {x} : f[y] \in Int
    BY <2>1
  <2>4. \A y \in s \cup {x} : f[y] \in Int
    BY <2>1
  <2>5. SumFunctionOnSet(f, t) = SumFunctionOnSet(f, s) + SumFunctionOnSet(f, S \ R)
    BY <1>3
  <2> HIDE DEF t
  <2>6. SumFunctionOnSet(f, t \cup {x}) = f[x] + SumFunctionOnSet(f, t)
    BY <2>1, <2>3, SumAdd
  <2>7. SumFunctionOnSet(f, s \cup {x}) = f[x] + SumFunctionOnSet(f, s)
    BY <1>3, <2>1, <2>4, SumAdd
  <2>8. SumFunctionOnSet(f, t \cup {x})
          = SumFunctionOnSet(f, s \cup {x}) + SumFunctionOnSet(f, S \ R)
    BY <1>1, <2>2, <2>5, <2>6, <2>7
  <2> DEFINE u == s \cup {x}
  <2>9. /\ u \in SUBSET R
        /\ SumFunctionOnSet(f, (S \ R) \cup u)
             = SumFunctionOnSet(f, u) + SumFunctionOnSet(f, S \ R)
    BY <1>3, <2>1, <2>8
  <2> HIDE DEF u
  <2>10. u \in F
    BY <2>9
  <2> HIDE DEF F
  <2> QED BY <2>10 DEF u
<1> HIDE DEF F
<1>4. R \in F
  <2>1. \A s \in SUBSET R : s \in F
    BY <1>1, <1>2, <1>3, SetsReached
  <2> QED BY <2>1
<1>5. (S \ R) \cup R = S
  OBVIOUS
<1> QED BY <1>4, <1>5 DEF F

LEMMA SumMonotone ==
  ASSUME NEW f, NEW g, NEW S, IsFiniteSet(S),
         \A x \in S : f[x] \in Int /\ g[x] \in Int /\ f[x] <= g[x]
  PROVE  SumFunctionOnSet(f, S) <= SumFunctionOnSet(g, S)
<1> DEFINE gap == [x \in S |-> g[x] - f[x]]
<1>1. \A x \in S : gap[x] \in Nat /\ gap[x] \in Int /\ g[x] = f[x] + gap[x]
  OBVIOUS
<1> HIDE DEF gap
<1>2. SumFunctionOnSet(gap, S) \in Nat
  BY <1>1, SumIsNat
<1>3. SumFunctionOnSet(f, S) \in Int
  <2>1. \A x \in S : f[x] \in Int
    OBVIOUS
  <2>2. \A s \in SUBSET S : SumFunctionOnSet(f, s) \in Int
    BY <2>1, SumIsInt
  <2> QED BY <2>2
<1>4. SumFunctionOnSet(g, S) = SumFunctionOnSet(f, S) + SumFunctionOnSet(gap, S)
  <2>1. \A x \in S : f[x] \in Int /\ gap[x] \in Int /\ g[x] = f[x] + gap[x]
    BY <1>1
  <2> QED BY <2>1, SumsAdd
<1> QED BY <1>2, <1>3, <1>4

LEMMA SumOfEqual ==
  ASSUME NEW f, NEW S, IsFiniteSet(S), NEW c \in Int, \A x \in S : f[x] = c
  PROVE  SumFunctionOnSet(f, S) = c * Cardinality(S)
<1> DEFINE F == {s \in SUBSET S : SumFunctionOnSet(f, s) = c * Cardinality(s)}
<1>1. {} \in F
  BY SumOfNone, FS_EmptySet
<1>2. ASSUME NEW s \in SUBSET S, NEW x \in S, s \in F, x \notin s
      PROVE  s \cup {x} \in F
  <2>1. IsFiniteSet(s) /\ Cardinality(s) \in Nat /\ Cardinality(s \cup {x}) = Cardinality(s) + 1
    BY <1>2, FS_Subset, FS_CardinalityType, FS_AddElement
  <2>2. \A y \in s \cup {x} : f[y] \in Int
    OBVIOUS
  <2>3. SumFunctionOnSet(f, s \cup {x}) = f[x] + SumFunctionOnSet(f, s)
    BY <1>2, <2>1, <2>2, SumAdd
  <2>4. f[x] = c /\ SumFunctionOnSet(f, s) = c * Cardinality(s)
    BY <1>2
  <2>5. \A k \in Nat : c * (k + 1) = c + c * k
    OBVIOUS
  <2> QED BY <2>1, <2>3, <2>4, <2>5
<1> HIDE DEF F
<1>3. \A s \in SUBSET S : s \in F
  BY <1>1, <1>2, SetsReached
<1>4. S \in F
  BY <1>3
<1> QED BY <1>4 DEF F

LEMMA SpanFacts ==
  ASSUME NEW m \in Nat PROVE IsFiniteSet(2 .. m + 1) /\ Cardinality(2 .. m + 1) = m
<1>1. \A a, b \in Int : IsFiniteSet(a .. b)
                        /\ Cardinality(a .. b) = IF a > b THEN 0 ELSE b - a + 1
  BY FS_Interval
<1> DEFINE n == m + 1
<1>2. n \in Int /\ 2 \in Int
  OBVIOUS
<1> HIDE DEF n
<1>3. IsFiniteSet(2 .. n) /\ Cardinality(2 .. n) = IF 2 > n THEN 0 ELSE n - 2 + 1
  BY <1>1, <1>2
<1>4. (IF 2 > n THEN 0 ELSE n - 2 + 1) = m
  BY DEF n
<1> QED BY <1>3, <1>4 DEF n

(* The weights 1 .. m times the same: m * (m + 1) / 2 of it.               *)
LEMMA WeightedSum ==
  ASSUME NEW f, NEW c \in Int, NEW m \in Nat, \A i \in 2 .. m + 1 : f[i] = (i - 1) * c
  PROVE  SumFunctionOnSet(f, 2 .. m + 1) = c * ((m * (m + 1)) \div 2)
<1> DEFINE half(k) == (k * (k + 1)) \div 2
           T == {n \in Nat : n <= m => SumFunctionOnSet(f, 2 .. n + 1) = c * half(n)}
<1>1. 0 \in T
  <2>1. 2 .. 0 + 1 = {} /\ half(0) = 0
    OBVIOUS
  <2> QED BY <2>1, SumOfNone
<1>2. ASSUME NEW n \in Nat, n \in T PROVE n + 1 \in T
  <2> SUFFICES ASSUME n + 1 <= m
               PROVE  SumFunctionOnSet(f, 2 .. (n + 1) + 1) = c * half(n + 1)
    OBVIOUS
  <2>1. SumFunctionOnSet(f, 2 .. n + 1) = c * half(n)
    BY <1>2
  <2>2. /\ 2 .. (n + 1) + 1 = (2 .. n + 1) \cup {n + 2} /\ n + 2 \notin 2 .. n + 1
        /\ IsFiniteSet(2 .. n + 1)
    <3>1. 2 \in Int /\ n + 1 \in Int
      OBVIOUS
    <3>2. IsFiniteSet(2 .. n + 1)
      BY <3>1, FS_Interval
    <3>3. 2 .. (n + 1) + 1 = (2 .. n + 1) \cup {n + 2} /\ n + 2 \notin 2 .. n + 1
      OBVIOUS
    <3> QED BY <3>2, <3>3
  <2>3. \A i \in (2 .. n + 1) \cup {n + 2} : i \in 2 .. m + 1 /\ f[i] \in Int
    OBVIOUS
  <2>4. f[n + 2] = (n + 1) * c
    OBVIOUS
  <2>5. SumFunctionOnSet(f, (2 .. n + 1) \cup {n + 2}) = f[n + 2] + SumFunctionOnSet(f, 2 .. n + 1)
    BY <2>2, <2>3, SumAdd
  <2>6. half(n + 1) = half(n) + (n + 1) /\ half(n) \in Nat
    <3> DEFINE p == n * (n + 1)
    <3>1. p \in Nat /\ (n + 1) * ((n + 1) + 1) = p + 2 * (n + 1)
      OBVIOUS
    <3> HIDE DEF p
    <3>2. (p + 2 * (n + 1)) \div 2 = p \div 2 + (n + 1) /\ p \div 2 \in Nat
      BY <3>1
    <3> QED BY <3>1, <3>2 DEF p
  <2> HIDE DEF half
  <2>7. c * (half(n) + (n + 1)) = c * half(n) + (n + 1) * c
    BY <2>6
  <2>8. c * half(n) \in Int /\ (n + 1) * c \in Int
    BY <2>6
  <2>9. SumFunctionOnSet(f, 2 .. (n + 1) + 1) = (n + 1) * c + c * half(n)
    BY <2>1, <2>2, <2>4, <2>5
  <2> QED BY <2>6, <2>7, <2>8, <2>9
<1> HIDE DEF T
<1>3. \A n \in Nat : n \in T
  BY <1>1, <1>2, NumbersReached
<1>4. m \in T
  BY <1>3
<1> QED BY <1>4 DEF T
=============================================================================
