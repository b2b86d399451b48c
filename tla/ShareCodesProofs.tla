-------------------------- MODULE ShareCodesProofs --------------------------
(***************************************************************************)
(* Proofs about ShareCodes over any finite field, whatever its addition    *)
(* and multiplication are, for any threshold, contents and number of       *)
(* changed pieces.                                                         *)
(***************************************************************************)
EXTENDS ShareCodes, NumberFacts

LEMMA OrderFacts ==
  /\ Order \in Nat \ {0} /\ Order >= 3 /\ 0 \in Field /\ 1 \in Field /\ 0 # 1
  /\ Field \subseteq Nat /\ Field \subseteq Int
BY CodesAssumption DEF Field

-----------------------------------------------------------------------------
(* What follows from the laws of a field.                                  *)
LEMMA FieldTypes ==
  /\ 0 \in Field /\ 1 \in Field /\ 0 # 1
  /\ \A a, b \in Field: Plus(a, b) \in Field
  /\ \A a, b \in Field: Times(a, b) \in Field
BY OrderFacts, FieldAssumption DEF FieldLaws

LEMMA PlusLaws ==
  ASSUME NEW a \in Field, NEW b \in Field, NEW c \in Field
  PROVE  /\ Plus(a, b) \in Field /\ Plus(a, b) = Plus(b, a)
         /\ Plus(Plus(a, b), c) = Plus(a, Plus(b, c))
BY FieldAssumption DEF FieldLaws

LEMMA PlusZero ==
  ASSUME NEW a \in Field
  PROVE  Plus(a, 0) = a /\ Plus(0, a) = a
<1>1. Plus(a, 0) = a
  BY FieldAssumption DEF FieldLaws
<1>2. Plus(0, a) = Plus(a, 0)
  BY FieldTypes, PlusLaws
<1> QED BY <1>1, <1>2

LEMMA TimesLaws ==
  ASSUME NEW a \in Field, NEW b \in Field, NEW c \in Field
  PROVE  /\ Times(a, b) \in Field /\ Times(a, b) = Times(b, a)
         /\ Times(Times(a, b), c) = Times(a, Times(b, c))
         /\ Times(a, Plus(b, c)) = Plus(Times(a, b), Times(a, c))
BY FieldAssumption DEF FieldLaws

LEMMA TimesOne ==
  ASSUME NEW a \in Field
  PROVE  Times(a, 1) = a /\ Times(1, a) = a
<1>1. Times(a, 1) = a
  BY FieldAssumption DEF FieldLaws
<1>2. Times(1, a) = Times(a, 1)
  BY FieldTypes, TimesLaws
<1> QED BY <1>1, <1>2

LEMMA PlusCancels ==
  ASSUME NEW a \in Field, NEW b \in Field, NEW c \in Field, Plus(a, c) = Plus(b, c)
  PROVE  a = b
<1>1. PICK d \in Field: Plus(c, d) = 0
  BY FieldAssumption DEF FieldLaws
<1>2. Plus(Plus(a, c), d) = Plus(a, Plus(c, d)) /\ Plus(Plus(b, c), d) = Plus(b, Plus(c, d))
  BY PlusLaws
<1>3. Plus(a, 0) = a /\ Plus(b, 0) = b
  BY PlusZero
<1> QED BY <1>1, <1>2, <1>3

LEMMA PlusSwaps ==
  ASSUME NEW a \in Field, NEW b \in Field, NEW c \in Field, NEW d \in Field
  PROVE  Plus(Plus(a, b), Plus(c, d)) = Plus(Plus(a, c), Plus(b, d))
<1>1. Plus(c, d) \in Field /\ Plus(b, d) \in Field
  BY FieldTypes
<1>2. Plus(Plus(a, b), Plus(c, d)) = Plus(a, Plus(b, Plus(c, d)))
  BY <1>1, PlusLaws
<1>3. Plus(b, Plus(c, d)) = Plus(Plus(b, c), d) /\ Plus(Plus(c, b), d) = Plus(c, Plus(b, d))
  BY PlusLaws
<1>4. Plus(b, c) = Plus(c, b)
  BY PlusLaws
<1>5. Plus(Plus(a, c), Plus(b, d)) = Plus(a, Plus(c, Plus(b, d)))
  BY <1>1, PlusLaws
<1> QED BY <1>2, <1>3, <1>4, <1>5

LEMMA TimesZero ==
  ASSUME NEW a \in Field
  PROVE  Times(a, 0) = 0 /\ Times(0, a) = 0
<1> DEFINE z == Times(a, 0)
<1>1. 0 \in Field /\ z \in Field
  BY FieldTypes
<1>2. Times(a, Plus(0, 0)) = Plus(z, z) /\ Times(0, a) = z
  BY <1>1, TimesLaws
<1>3. Plus(0, 0) = 0
  BY <1>1, PlusZero
<1> HIDE DEF z
<1>4. Plus(z, z) = Plus(0, z)
  <2>1. Plus(z, z) = z
    BY <1>2, <1>3 DEF z
  <2> QED BY <1>1, <2>1, PlusZero
<1>5. z = 0
  BY <1>1, <1>4, PlusCancels
<1> QED BY <1>2, <1>5 DEF z

LEMMA NegativeFacts ==
  ASSUME NEW a \in Field
  PROVE  Negative(a) \in Field /\ Plus(a, Negative(a)) = 0 /\ Plus(Negative(a), a) = 0
<1>1. \E b \in Field: Plus(a, b) = 0
  BY FieldAssumption DEF FieldLaws
<1>2. Negative(a) \in Field /\ Plus(a, Negative(a)) = 0
  BY <1>1 DEF Negative
<1>3. Plus(Negative(a), a) = Plus(a, Negative(a))
  BY <1>2, PlusLaws
<1> QED BY <1>2, <1>3

LEMMA NegativeZero == Negative(0) = 0
<1>1. 0 \in Field
  BY FieldTypes
<1>2. Negative(0) \in Field /\ Plus(0, Negative(0)) = 0
  BY <1>1, NegativeFacts
<1> QED BY <1>2, PlusZero

(* A term moves to the other side as its opposite.                         *)
LEMMA Moved ==
  ASSUME NEW a \in Field, NEW c \in Field, NEW b \in Field, NEW n \in Field, Plus(b, n) = 0
  PROVE  Plus(a, n) = c <=> a = Plus(c, b)
<1>1. Plus(n, b) = 0
  BY PlusLaws
<1>2. Plus(Plus(a, n), b) = Plus(a, Plus(n, b)) /\ Plus(Plus(c, b), n) = Plus(c, Plus(b, n))
  BY PlusLaws
<1>3. Plus(a, 0) = a /\ Plus(c, 0) = c
  BY PlusZero
<1> QED BY <1>1, <1>2, <1>3

LEMMA Opposites ==
  ASSUME NEW a \in Field, NEW b \in Field
  PROVE  Plus(Times(a, b), Times(Negative(a), b)) = 0
<1>1. Negative(a) \in Field /\ Plus(a, Negative(a)) = 0
  BY NegativeFacts
<1>2. Times(b, Plus(a, Negative(a))) = Plus(Times(b, a), Times(b, Negative(a)))
  BY <1>1, TimesLaws
<1>3. Times(b, a) = Times(a, b) /\ Times(b, Negative(a)) = Times(Negative(a), b)
  BY <1>1, TimesLaws
<1>4. Times(b, 0) = 0
  BY TimesZero
<1> QED BY <1>1, <1>2, <1>3, <1>4

LEMMA DifferentElements ==
  ASSUME NEW a \in Field, NEW b \in Field, a # b
  PROVE  Plus(a, Negative(b)) # 0
<1>1. Negative(b) \in Field /\ Plus(b, Negative(b)) = 0 /\ 0 \in Field
  BY NegativeFacts, FieldTypes
<1>2. Plus(a, Negative(b)) = 0 <=> a = Plus(0, b)
  BY <1>1, Moved
<1> QED BY <1>2, PlusZero

LEMMA InverseFacts ==
  ASSUME NEW a \in Field, a # 0
  PROVE  FieldInverse(a) \in Field /\ Times(a, FieldInverse(a)) = 1
<1>1. \E b \in Field: Times(a, b) = 1
  BY FieldAssumption DEF FieldLaws
<1> QED BY <1>1 DEF FieldInverse

LEMMA NoZeroDivisors ==
  ASSUME NEW a \in Field, NEW b \in Field, Times(a, b) = 0, a # 0
  PROVE  b = 0
<1> DEFINE d == FieldInverse(a)
<1>1. d \in Field /\ Times(a, d) = 1
  BY InverseFacts
<1> HIDE DEF d
<1>2. Times(Times(d, a), b) = Times(d, Times(a, b)) /\ Times(d, a) = Times(a, d)
  BY <1>1, TimesLaws
<1>3. Times(d, 0) = 0 /\ Times(1, b) = b
  BY <1>1, TimesZero, TimesOne
<1> QED BY <1>1, <1>2, <1>3

-----------------------------------------------------------------------------
(* Polynomials: nothing after the last coefficient that counts.            *)
Polynomials == {p \in Seq(Field): p # <<>> => p[Len(p)] # 0}

LEMMA CoefficientFacts ==
  ASSUME NEW p \in Seq(Field)
  PROVE  /\ \A k \in Int: Coefficient(p, k) \in Field
         /\ \A k \in Int: ~ (1 <= k /\ k <= Len(p)) => Coefficient(p, k) = 0
         /\ \A k \in 1 .. Len(p): Coefficient(p, k) = p[k]
<1>1. DOMAIN p = 1 .. Len(p) /\ Len(p) \in Nat /\ \A k \in 1 .. Len(p): p[k] \in Field
  OBVIOUS
<1> QED BY <1>1, OrderFacts DEF Coefficient

LEMMA CoefficientTypes ==
  ASSUME NEW p \in Seq(Field)
  PROVE  /\ \A k \in 1 .. Len(p): p[k] \in Field
         /\ \A k \in Nat \ {0}: Coefficient(p, k) \in Field
         /\ \A k \in Int: k > Len(p) => Coefficient(p, k) = 0
<1>1. DOMAIN p = 1 .. Len(p) /\ Len(p) \in Nat /\ \A k \in 1 .. Len(p): p[k] \in Field
  OBVIOUS
<1>2. \A k \in Int: Coefficient(p, k) \in Field
  BY CoefficientFacts
<1>3. \A k \in Int: k > Len(p) => Coefficient(p, k) = 0
  <2> SUFFICES ASSUME NEW k \in Int, k > Len(p) PROVE Coefficient(p, k) = 0
    OBVIOUS
  <2>1. ~ (1 <= k /\ k <= Len(p))
    BY <1>1
  <2> QED BY <2>1, CoefficientFacts
<1>4. \A k \in Nat \ {0}: k \in Int
  OBVIOUS
<1> QED BY <1>1, <1>2, <1>3, <1>4

LEMMA MaxFacts ==
  ASSUME NEW n \in Nat, NEW S \in SUBSET (0 .. n), S # {}
  PROVE  Max(S) \in S /\ \A y \in S: y <= Max(S)
<1> DEFINE T == {n - i : i \in S}
<1>1. T \subseteq Nat /\ T # {}
  <2>1. \A i \in S: i \in 0 .. n
    OBVIOUS
  <2>2. \A i \in S: n - i \in Nat
    BY <2>1
  <2>3. \E i \in S: n - i \in T
    OBVIOUS
  <2> QED BY <2>2, <2>3
<1>2. PICK m \in T: \A k \in T: m <= k
  BY <1>1, LeastNumber
<1>3. PICK x \in S: m = n - x
  BY <1>2
<1>4. \A y \in S: x >= y
  <2> SUFFICES ASSUME NEW y \in S PROVE x >= y
    OBVIOUS
  <2>1. n - y \in T
    OBVIOUS
  <2>2. n - x <= n - y
    BY <1>2, <1>3, <2>1
  <2> QED BY <2>2
<1>5. Max(S) \in S /\ \A y \in S: Max(S) >= y
  BY <1>4 DEF Max
<1> QED BY <1>5

LEMMA TrimmedFacts ==
  ASSUME NEW p \in Seq(Field)
  PROVE  /\ Trimmed(p) \in Polynomials /\ Trimmed(p) \in Seq(Field)
         /\ Len(Trimmed(p)) <= Len(p) /\ Len(Trimmed(p)) \in Nat
         /\ \A k \in Int: Coefficient(Trimmed(p), k) = Coefficient(p, k)
<1> DEFINE S == {0} \cup {i \in DOMAIN p: p[i] # 0}
           m == Max(S)
           t == SubSeq(p, 1, m)
<1>1. Len(p) \in Nat /\ DOMAIN p = 1 .. Len(p)
  OBVIOUS
<1>2. S \in SUBSET (0 .. Len(p)) /\ S # {}
  BY <1>1
<1>3. m \in S /\ \A y \in S: y <= m
  BY <1>1, <1>2, MaxFacts
<1>4. \A i \in 1 .. Len(p): i > m => p[i] = 0
  <2> SUFFICES ASSUME NEW i \in 1 .. Len(p), i > m, p[i] # 0 PROVE FALSE
    OBVIOUS
  <2>1. i \in S
    BY <1>1
  <2> QED BY <1>2, <1>3, <2>1
<1>5. m \in 0 .. Len(p) /\ (m # 0 => p[m] # 0)
  BY <1>2, <1>3
<1> HIDE DEF m, S
<1>6. t \in Seq(Field) /\ Len(t) = m /\ \A i \in 1 .. m: t[i] = p[i]
  <2>1. 1 \in 1 .. Len(p) + 1 /\ m \in 1 - 1 .. Len(p)
    BY <1>1, <1>5
  <2>2. \A i \in 1 .. m: p[i] \in Field
    BY <1>1, <1>5
  <2> QED BY <1>1, <1>5, <2>1, <2>2
<1> HIDE DEF t
<1>7. t \in Polynomials
  <2>1. t # <<>> => m # 0
    BY <1>5, <1>6
  <2> QED BY <1>5, <1>6, <2>1 DEF Polynomials
<1>8. ASSUME NEW k \in Int PROVE Coefficient(t, k) = Coefficient(p, k)
  <2>1. CASE k \in 1 .. m
    BY <1>5, <1>6, <2>1, CoefficientFacts
  <2>2. CASE k \in m + 1 .. Len(p)
    BY <1>4, <1>5, <1>6, <2>2, CoefficientFacts
  <2>3. CASE ~ (1 <= k /\ k <= Len(p))
    BY <1>5, <1>6, <2>3, CoefficientFacts
  <2> QED BY <1>1, <1>5, <2>1, <2>2, <2>3
<1>9. Trimmed(p) = t
  BY DEF Trimmed, t, m, S
<1> QED BY <1>5, <1>6, <1>7, <1>8, <1>9

(* The coefficients say which polynomial it is.                            *)
LEMMA ShortPolynomial ==
  ASSUME NEW p \in Polynomials, NEW n \in Nat, \A k \in Nat: k > n => Coefficient(p, k) = 0
  PROVE  Len(p) <= n
<1>1. p \in Seq(Field) /\ Len(p) \in Nat /\ (p # <<>> => p[Len(p)] # 0)
  BY DEF Polynomials
<1> SUFFICES ASSUME Len(p) > n PROVE FALSE
  BY <1>1
<1>2. Len(p) \in 1 .. Len(p) /\ p # <<>>
  BY <1>1
<1>3. Coefficient(p, Len(p)) = p[Len(p)]
  BY <1>1, <1>2, CoefficientFacts
<1> QED BY <1>1, <1>2, <1>3

LEMMA SamePolynomial ==
  ASSUME NEW p \in Polynomials, NEW q \in Polynomials,
         \A k \in Nat \ {0}: Coefficient(p, k) = Coefficient(q, k)
  PROVE  p = q
<1>1. p \in Seq(Field) /\ q \in Seq(Field) /\ Len(p) \in Nat /\ Len(q) \in Nat
  BY DEF Polynomials
<1>2. Len(p) <= Len(q)
  <2>1. \A k \in Nat: k > Len(q) => Coefficient(p, k) = 0
    BY <1>1, CoefficientFacts
  <2> QED BY <1>1, <2>1, ShortPolynomial
<1>3. Len(q) <= Len(p)
  <2>1. \A k \in Nat: k > Len(p) => Coefficient(q, k) = 0
    BY <1>1, CoefficientFacts
  <2> QED BY <1>1, <2>1, ShortPolynomial
<1>4. Len(p) = Len(q)
  BY <1>1, <1>2, <1>3
<1>5. \A k \in 1 .. Len(p): p[k] = q[k]
  BY <1>1, <1>4, CoefficientFacts
<1> QED BY <1>1, <1>4, <1>5

-----------------------------------------------------------------------------
(* Horner's scheme.                                                        *)
HornerStep(h, f, x) ==
  [i \in 1 .. Len(f) + 1 |-> IF i = Len(f) + 1 THEN 0 ELSE Plus(f[i], Times(x, h[i + 1]))]

LEMMA HornerExists ==
  ASSUME NEW f \in Seq(Field), NEW x
  PROVE  \E h: h = HornerStep(h, f, x)
<1> DEFINE m == Len(f)
           From(n) == m + 1 - n .. m + 1
           Right(h, i) == h[i] = IF i = m + 1 THEN 0 ELSE Plus(f[i], Times(x, h[i + 1]))
           T == {n \in Nat: n <= m => \E h: \A i \in From(n): Right(h, i)}
<1>1. m \in Nat
  OBVIOUS
<1> HIDE DEF m
<1>2. 0 \in T
  <2> DEFINE h == [i \in {m + 1} |-> 0]
  <2>1. \A i \in From(0): i = m + 1
    BY <1>1
  <2>2. \A i \in From(0): Right(h, i)
    BY <2>1
  <2> QED BY <2>2
<1>3. ASSUME NEW n \in Nat, n \in T PROVE n + 1 \in T
  <2> SUFFICES ASSUME n + 1 <= m PROVE \E h: \A i \in From(n + 1): Right(h, i)
    OBVIOUS
  <2>1. PICK g: \A i \in From(n): Right(g, i)
    BY <1>1, <1>3
  <2> DEFINE h == [i \in From(n + 1) |->
                     IF i = m - n THEN Plus(f[i], Times(x, g[i + 1])) ELSE g[i]]
  <2>2. \A i \in From(n): i \in From(n + 1) /\ i # m - n /\ i \in Int /\ m + 1 - n <= i /\ i <= m + 1
    BY <1>1
  <2>3. \A i \in From(n): h[i] = g[i]
    BY <2>2
  <2>4. ASSUME NEW i \in From(n) PROVE Right(h, i)
    <3>1. CASE i = m + 1
      <4>1. h[i] = g[i] /\ g[i] = 0
        BY <2>1, <2>3, <3>1
      <4> HIDE DEF h
      <4> QED BY <3>1, <4>1
    <3>2. CASE i # m + 1
      <4>1. i + 1 \in From(n)
        BY <1>1, <2>2, <3>2
      <4>2. h[i] = g[i] /\ h[i + 1] = g[i + 1]
        BY <2>3, <4>1
      <4>3. g[i] = Plus(f[i], Times(x, g[i + 1]))
        BY <2>1, <3>2
      <4> HIDE DEF h
      <4> QED BY <3>2, <4>2, <4>3
    <3> QED BY <3>1, <3>2
  <2>5. Right(h, m - n)
    <3>1. m - n \in From(n + 1) /\ m - n # m + 1 /\ (m - n) + 1 \in From(n)
      BY <1>1
    <3> QED BY <2>3, <3>1
  <2>6. \A i \in From(n + 1): i = m - n \/ i \in From(n)
    BY <1>1
  <2> HIDE DEF h, Right
  <2> QED BY <2>4, <2>5, <2>6
<1> HIDE DEF T
<1>4. m \in T
  BY <1>1, <1>2, <1>3, NumbersReached
<1>5. PICK h: \A i \in From(m): Right(h, i)
  BY <1>1, <1>4 DEF T
<1> DEFINE whole == [i \in 1 .. m + 1 |-> h[i]]
<1>6. \A i \in 1 .. m + 1: whole[i] = HornerStep(whole, f, x)[i]
  <2> SUFFICES ASSUME NEW i \in 1 .. m + 1 PROVE whole[i] = HornerStep(whole, f, x)[i]
    OBVIOUS
  <2>1. i \in From(m) /\ Right(h, i)
    BY <1>1, <1>5
  <2>2. i # m + 1 => i + 1 \in 1 .. m + 1
    BY <1>1
  <2> QED BY <2>1, <2>2 DEF HornerStep, m
<1>7. whole = HornerStep(whole, f, x)
  BY <1>6 DEF HornerStep, m
<1> QED BY <1>7

LEMMA HornerFacts ==
  ASSUME NEW f \in Seq(Field), NEW x \in Field
  PROVE  /\ Horner(f, x) = HornerStep(Horner(f, x), f, x)
         /\ \A i \in 1 .. Len(f) + 1: Horner(f, x)[i] \in Field
         /\ Horner(f, x)[Len(f) + 1] = 0
         /\ \A i \in 1 .. Len(f): Horner(f, x)[i] = Plus(f[i], Times(x, Horner(f, x)[i + 1]))
<1> DEFINE h == Horner(f, x)
           m == Len(f)
           T == {n \in Nat: n <= m => h[m + 1 - n] \in Field}
<1>1. m \in Nat /\ \A i \in 1 .. m: f[i] \in Field
  OBVIOUS
<1>2. h = HornerStep(h, f, x)
  <2>1. h = CHOOSE g: g = HornerStep(g, f, x)
    BY DEF Horner, HornerStep
  <2> HIDE DEF h
  <2> QED BY <2>1, HornerExists
<1> HIDE DEF h
<1>3. h[m + 1] = 0 /\ \A i \in 1 .. m: h[i] = Plus(f[i], Times(x, h[i + 1]))
  <2>1. m + 1 \in 1 .. m + 1
    BY <1>1
  <2>2. h[m + 1] = 0
    BY <1>2, <2>1 DEF HornerStep
  <2>3. ASSUME NEW i \in 1 .. m PROVE h[i] = Plus(f[i], Times(x, h[i + 1]))
    <3>1. i \in 1 .. m + 1 /\ i # m + 1
      BY <1>1
    <3> QED BY <1>2, <3>1 DEF HornerStep
  <2> QED BY <2>2, <2>3
<1>4. 0 \in T
  BY <1>1, <1>3, OrderFacts
<1>5. ASSUME NEW n \in Nat, n \in T PROVE n + 1 \in T
  <2> SUFFICES ASSUME n + 1 <= m PROVE h[m + 1 - (n + 1)] \in Field
    OBVIOUS
  <2>1. m - n \in 1 .. m /\ (m - n) + 1 = m + 1 - n /\ m + 1 - (n + 1) = m - n
    BY <1>1
  <2>2. h[m + 1 - n] \in Field
    BY <1>1, <1>5
  <2>3. Plus(f[m - n], Times(x, h[m + 1 - n])) \in Field
    BY <1>1, <2>1, <2>2, FieldTypes
  <2>4. h[m - n] = Plus(f[m - n], Times(x, h[m + 1 - n]))
    BY <1>3, <2>1
  <2> QED BY <2>1, <2>3, <2>4
<1> HIDE DEF T
<1>6. \A n \in Nat: n \in T
  BY <1>4, <1>5, NumbersReached
<1>7. ASSUME NEW i \in 1 .. m + 1 PROVE h[i] \in Field
  <2>1. m + 1 - i \in Nat /\ m + 1 - i <= m /\ m + 1 - (m + 1 - i) = i
    BY <1>1
  <2>2. m + 1 - i \in T
    BY <1>6, <2>1
  <2> QED BY <2>1, <2>2 DEF T
<1> QED BY <1>2, <1>3, <1>7 DEF h, m

(* The scheme continued with 0 beyond the last coefficient.                *)
Passed(f, x, k) == IF k \in 1 .. Len(f) + 1 THEN Horner(f, x)[k] ELSE 0

LEMMA PassedFacts ==
  ASSUME NEW f \in Seq(Field), NEW x \in Field
  PROVE  /\ \A k \in Nat \ {0}: Passed(f, x, k) \in Field
         /\ \A k \in Nat \ {0}: k > Len(f) => Passed(f, x, k) = 0
         /\ \A k \in Nat \ {0}:
              Passed(f, x, k) = Plus(Coefficient(f, k), Times(x, Passed(f, x, k + 1)))
         /\ Passed(f, x, 1) = Evaluate(f, x)
         /\ Evaluate(f, x) \in Field
<1>1. Len(f) \in Nat
  OBVIOUS
<1>2. ASSUME NEW k \in Nat \ {0}
      PROVE  Passed(f, x, k) \in Field /\ (k > Len(f) => Passed(f, x, k) = 0)
  BY <1>1, HornerFacts, OrderFacts DEF Passed
<1>3. ASSUME NEW k \in Nat \ {0}
      PROVE  Passed(f, x, k) = Plus(Coefficient(f, k), Times(x, Passed(f, x, k + 1)))
  <2>1. CASE k \in 1 .. Len(f)
    <3>1. k \in 1 .. Len(f) + 1 /\ k + 1 \in 1 .. Len(f) + 1
      BY <1>1, <2>1
    <3> QED BY <1>1, <2>1, <3>1, HornerFacts, CoefficientFacts DEF Passed
  <2>2. CASE k \notin 1 .. Len(f)
    <3>1. k > Len(f) /\ k + 1 > Len(f) /\ k + 1 \in Nat \ {0} /\ ~ (1 <= k /\ k <= Len(f))
      BY <1>1, <2>2
    <3>2. Passed(f, x, k) = 0 /\ Passed(f, x, k + 1) = 0 /\ Coefficient(f, k) = 0
      BY <1>2, <3>1, CoefficientFacts
    <3>3. Times(x, 0) = 0 /\ Plus(0, 0) = 0
      BY FieldTypes, TimesZero, PlusZero
    <3> QED BY <3>2, <3>3
  <2> QED BY <2>1, <2>2
<1>4. 1 \in 1 .. Len(f) + 1 /\ 1 \in Nat \ {0}
  BY <1>1
<1>5. Passed(f, x, 1) = Evaluate(f, x)
  BY <1>4 DEF Passed, Evaluate
<1> QED BY <1>2, <1>3, <1>4, <1>5

(* Nothing else follows the scheme and is 0 from some point on.            *)
LEMMA PassedUnique ==
  ASSUME NEW f \in Seq(Field), NEW x \in Field, NEW g, NEW N \in Nat,
         \A k \in Nat \ {0}: k > N => g[k] = 0,
         \A k \in Nat \ {0}: g[k] = Plus(Coefficient(f, k), Times(x, g[k + 1]))
  PROVE  \A k \in Nat \ {0}: g[k] = Passed(f, x, k)
<1> DEFINE M == Len(f) + N
           T == {n \in Nat: \A k \in Nat \ {0}: k + n > M => g[k] = Passed(f, x, k)}
<1>1. Len(f) \in Nat
  OBVIOUS
<1>2. 0 \in T
  <2> SUFFICES ASSUME NEW k \in Nat \ {0}, k + 0 > M PROVE g[k] = Passed(f, x, k)
    OBVIOUS
  <2>1. k > N /\ k > Len(f)
    BY <1>1, SMTT(30)
  <2>2. g[k] = 0
    BY <2>1
  <2>3. Passed(f, x, k) = 0
    BY <2>1, PassedFacts
  <2> QED BY <2>2, <2>3
<1>3. ASSUME NEW n \in Nat, n \in T PROVE n + 1 \in T
  <2> SUFFICES ASSUME NEW k \in Nat \ {0}, k + (n + 1) > M PROVE g[k] = Passed(f, x, k)
    OBVIOUS
  <2>1. k + 1 \in Nat \ {0} /\ (k + 1) + n > M
    BY <1>1
  <2>2. g[k + 1] = Passed(f, x, k + 1)
    BY <1>3, <2>1
  <2>3. Passed(f, x, k) = Plus(Coefficient(f, k), Times(x, Passed(f, x, k + 1)))
    BY PassedFacts
  <2>4. g[k] = Plus(Coefficient(f, k), Times(x, g[k + 1]))
    OBVIOUS
  <2> QED BY <2>2, <2>3, <2>4, Zenon
<1> HIDE DEF T
<1>4. \A n \in Nat: n \in T
  BY <1>2, <1>3, NumbersReached
<1> SUFFICES ASSUME NEW k \in Nat \ {0} PROVE g[k] = Passed(f, x, k)
  OBVIOUS
<1>5. M \in Nat /\ k + M > M
  BY <1>1
<1> QED BY <1>4, <1>5 DEF T

(* Equal coefficients, equal values.                                       *)
LEMMA EvaluateSame ==
  ASSUME NEW f \in Seq(Field), NEW g \in Seq(Field), NEW x \in Field,
         \A k \in Nat \ {0}: Coefficient(f, k) = Coefficient(g, k)
  PROVE  Evaluate(f, x) = Evaluate(g, x)
<1> DEFINE s == [k \in Nat \ {0} |-> Passed(f, x, k)]
<1>1. Len(f) \in Nat
  OBVIOUS
<1>2. \A k \in Nat \ {0}: k + 1 \in Nat \ {0} /\ s[k] = Passed(f, x, k) /\ s[k + 1] = Passed(f, x, k + 1)
  OBVIOUS
<1> HIDE DEF s
<1>3. \A k \in Nat \ {0}: k > Len(f) => s[k] = 0
  BY <1>2, PassedFacts
<1>4. \A k \in Nat \ {0}: s[k] = Plus(Coefficient(g, k), Times(x, s[k + 1]))
  <2> SUFFICES ASSUME NEW k \in Nat \ {0}
               PROVE  s[k] = Plus(Coefficient(g, k), Times(x, s[k + 1]))
    OBVIOUS
  <2>1. Passed(f, x, k) = Plus(Coefficient(f, k), Times(x, Passed(f, x, k + 1)))
    BY PassedFacts
  <2> QED BY <1>2, <2>1
<1>5. 1 \in Nat \ {0}
  OBVIOUS
<1>6. \A k \in Nat \ {0}: s[k] = Passed(g, x, k)
  BY <1>1, <1>3, <1>4, PassedUnique
<1>7. s[1] = Passed(f, x, 1) /\ s[1] = Passed(g, x, 1)
  BY <1>2, <1>5, <1>6
<1> QED BY <1>7, PassedFacts

-----------------------------------------------------------------------------
(* The coefficients of sums and products.                                  *)
SumStep(s, f) ==
  [i \in 1 .. Len(f) + 1 |-> IF i = Len(f) + 1 THEN 0 ELSE Plus(f[i], s[i + 1])]

(* A sum is the value at 1 of the polynomial with its terms.               *)
LEMMA SumIsValue ==
  ASSUME NEW f \in Seq(Field)
  PROVE  FieldSum(f) = Evaluate(f, 1)
<1> DEFINE m == Len(f)
           h == Horner(f, 1)
           sum == CHOOSE s: s = SumStep(s, f)
<1>1. m \in Nat
  OBVIOUS
<1>2. /\ h = HornerStep(h, f, 1) /\ h[m + 1] = 0
      /\ \A i \in 1 .. m + 1: h[i] \in Field
      /\ \A i \in 1 .. m: h[i] = Plus(f[i], Times(1, h[i + 1]))
  BY HornerFacts, FieldTypes
<1> HIDE DEF h
<1>3. \A i \in 1 .. m: h[i] = Plus(f[i], h[i + 1])
  <2> SUFFICES ASSUME NEW i \in 1 .. m PROVE h[i] = Plus(f[i], h[i + 1])
    OBVIOUS
  <2>1. i + 1 \in 1 .. m + 1
    BY <1>1
  <2>2. Times(1, h[i + 1]) = h[i + 1]
    BY <1>2, <2>1, TimesOne
  <2> QED BY <1>2, <2>2
<1>4. h = SumStep(h, f)
  <2>1. ASSUME NEW i \in 1 .. m + 1 PROVE HornerStep(h, f, 1)[i] = SumStep(h, f)[i]
    <3>1. HornerStep(h, f, 1)[i] = h[i]
      BY <1>2
    <3>2. CASE i = m + 1
      BY <1>1, <1>2, <3>1, <3>2 DEF SumStep
    <3>3. CASE i # m + 1
      <4>1. i \in 1 .. m
        BY <1>1, <3>3
      <4>2. SumStep(h, f)[i] = Plus(f[i], h[i + 1])
        BY <3>3 DEF SumStep
      <4> QED BY <1>3, <3>1, <4>1, <4>2
    <3> QED BY <3>2, <3>3
  <2>2. HornerStep(h, f, 1) = SumStep(h, f)
    BY <2>1 DEF HornerStep, SumStep
  <2> QED BY <1>2, <2>2
<1>5. sum = SumStep(sum, f)
  BY <1>4
<1>6. FieldSum(f) = sum[1]
  BY DEF FieldSum, SumStep
<1> HIDE DEF sum
<1>7. sum[m + 1] = 0 /\ \A i \in 1 .. m: sum[i] = Plus(f[i], sum[i + 1])
  <2>1. m + 1 \in 1 .. m + 1
    BY <1>1
  <2>2. sum[m + 1] = 0
    BY <1>5, <2>1 DEF SumStep
  <2>3. ASSUME NEW i \in 1 .. m PROVE sum[i] = Plus(f[i], sum[i + 1])
    <3>1. i \in 1 .. m + 1 /\ i # m + 1
      BY <1>1
    <3> QED BY <1>5, <3>1 DEF SumStep
  <2> QED BY <2>2, <2>3
<1> DEFINE T == {n \in Nat: n <= m => sum[m + 1 - n] = h[m + 1 - n]}
<1>8. 0 \in T
  BY <1>1, <1>2, <1>7
<1>9. ASSUME NEW n \in Nat, n \in T PROVE n + 1 \in T
  <2> SUFFICES ASSUME n + 1 <= m PROVE sum[m + 1 - (n + 1)] = h[m + 1 - (n + 1)]
    OBVIOUS
  <2>1. m - n \in 1 .. m /\ (m - n) + 1 = m + 1 - n /\ m + 1 - (n + 1) = m - n
    BY <1>1
  <2>2. sum[m + 1 - n] = h[m + 1 - n]
    BY <1>1, <1>9
  <2>3. sum[m - n] = Plus(f[m - n], sum[(m - n) + 1]) /\ h[m - n] = Plus(f[m - n], h[(m - n) + 1])
    BY <1>3, <1>7, <2>1
  <2> QED BY <2>1, <2>2, <2>3
<1> HIDE DEF T
<1>10. m \in T
  BY <1>1, <1>8, <1>9, NumbersReached
<1>11. sum[m + 1 - m] = h[m + 1 - m] /\ m + 1 - m = 1
  BY <1>1, <1>10 DEF T
<1> QED BY <1>6, <1>11 DEF h, Evaluate

LEMMA SumOfTwo ==
  ASSUME NEW f \in Seq(Field), NEW j \in Nat,
         \A i \in 1 .. Len(f): i # j /\ i # j + 1 => f[i] = 0
  PROVE  FieldSum(f) = Plus(Coefficient(f, j), Coefficient(f, j + 1))
<1> DEFINE a == Coefficient(f, j)
           b == Coefficient(f, j + 1)
           g == [k \in Nat \ {0} |->
                   IF k <= j THEN Plus(a, b) ELSE IF k = j + 1 THEN b ELSE 0]
<1>1. a \in Field /\ b \in Field /\ 0 \in Field /\ 1 \in Field /\ Plus(a, b) \in Field
  <2>1. j \in Int /\ j + 1 \in Int
    OBVIOUS
  <2> QED BY <2>1, CoefficientFacts, FieldTypes
<1>2. \A k \in Nat \ {0}: k + 1 \in Nat \ {0}
  OBVIOUS
<1>3. /\ \A k \in Nat \ {0}: k <= j => g[k] = Plus(a, b)
      /\ \A k \in Nat \ {0}: k = j + 1 => g[k] = b
      /\ \A k \in Nat \ {0}: k > j + 1 => g[k] = 0
  <2> HIDE DEF a, b
  <2> QED OBVIOUS
<1> HIDE DEF g
<1>4. \A k \in Nat \ {0}: k # j /\ k # j + 1 => Coefficient(f, k) = 0
  <2> SUFFICES ASSUME NEW k \in Nat \ {0}, k # j, k # j + 1 PROVE Coefficient(f, k) = 0
    OBVIOUS
  <2>1. CASE k \in 1 .. Len(f)
    BY <2>1, CoefficientFacts
  <2>2. CASE k \notin 1 .. Len(f)
    <3>1. k \in Int /\ ~ (1 <= k /\ k <= Len(f))
      <4>1. Len(f) \in Nat
        OBVIOUS
      <4> QED BY <2>2, <4>1
    <3> QED BY <3>1, CoefficientFacts
  <2> QED BY <2>1, <2>2
<1>5. ASSUME NEW k \in Nat \ {0}
      PROVE  g[k] = Plus(Coefficient(f, k), Times(1, g[k + 1]))
  <2>1. g[k + 1] \in Field
    <3>1. k + 1 <= j \/ k + 1 = j + 1 \/ k + 1 > j + 1
      OBVIOUS
    <3> QED BY <1>1, <1>2, <1>3, <3>1
  <2>2. Times(1, g[k + 1]) = g[k + 1]
    BY <2>1, TimesOne
  <2>3. CASE k < j
    <3>1. g[k] = Plus(a, b) /\ g[k + 1] = Plus(a, b) /\ Coefficient(f, k) = 0
      BY <1>2, <1>3, <1>4, <2>3
    <3>2. Plus(0, Plus(a, b)) = Plus(a, b)
      BY <1>1, PlusZero
    <3> HIDE DEF a, b
    <3> QED BY <2>2, <3>1, <3>2
  <2>4. CASE k = j
    <3>1. g[k] = Plus(a, b) /\ g[k + 1] = b
      BY <1>2, <1>3, <2>4
    <3> QED BY <2>2, <2>4, <3>1
  <2>5. CASE k = j + 1
    <3>1. g[k] = b /\ g[k + 1] = 0
      BY <1>2, <1>3, <2>5
    <3>2. Plus(b, 0) = b
      BY <1>1, PlusZero
    <3> QED BY <2>2, <2>5, <3>1, <3>2
  <2>6. CASE k > j + 1
    <3>1. g[k] = 0 /\ g[k + 1] = 0 /\ Coefficient(f, k) = 0
      BY <1>2, <1>3, <1>4, <2>6
    <3>2. Plus(0, 0) = 0
      BY <1>1, PlusZero
    <3> QED BY <2>2, <3>1, <3>2
  <2>7. k < j \/ k = j \/ k = j + 1 \/ k > j + 1
    OBVIOUS
  <2> QED BY <2>3, <2>4, <2>5, <2>6, <2>7
<1> HIDE DEF a, b
<1>6. j + 1 \in Nat /\ 1 \in Nat \ {0}
  OBVIOUS
<1>7. \A k \in Nat \ {0}: g[k] = Passed(f, 1, k)
  <2> DEFINE N == j + 1
  <2>1. N \in Nat /\ \A k \in Nat \ {0}: k > N => g[k] = 0
    BY <1>3, <1>6
  <2> HIDE DEF N
  <2>2. \A k \in Nat \ {0}: g[k] = Plus(Coefficient(f, k), Times(1, g[k + 1]))
    BY <1>5
  <2> DEFINE x == 1
  <2>3. x \in Field /\ \A k \in Nat \ {0}: g[k] = Plus(Coefficient(f, k), Times(x, g[k + 1]))
    BY <1>1, <2>2
  <2> HIDE DEF x
  <2>4. \A k \in Nat \ {0}: g[k] = Passed(f, x, k)
    BY <2>1, <2>3, PassedUnique
  <2> QED BY <2>4 DEF x
<1>8. Passed(f, 1, 1) = Evaluate(f, 1)
  BY <1>1, PassedFacts
<1>9. g[1] = Plus(a, b)
  <2>1. CASE j = 0
    <3>1. a = 0
      <4>1. 0 \in Int /\ ~ (1 <= 0 /\ 0 <= Len(f))
        OBVIOUS
      <4> QED BY <2>1, <4>1, CoefficientFacts DEF a
    <3>2. g[1] = b /\ Plus(0, b) = b
      BY <1>1, <1>3, <1>6, <2>1, PlusZero
    <3> QED BY <3>1, <3>2
  <2>2. CASE j # 0
    BY <1>3, <1>6, <2>2
  <2> QED BY <2>1, <2>2
<1>10. FieldSum(f) = Evaluate(f, 1)
  BY SumIsValue
<1> QED BY <1>6, <1>7, <1>8, <1>9, <1>10 DEF a, b

LEMMA ValuesMakeSequence ==
  ASSUME NEW m \in Nat, NEW e, e = [i \in 1 .. m |-> e[i]], \A i \in 1 .. m: e[i] \in Field
  PROVE  e \in Seq(Field) /\ Len(e) = m /\ DOMAIN e = 1 .. m
OBVIOUS

LEMMA AddFacts ==
  ASSUME NEW p \in Seq(Field), NEW q \in Seq(Field)
  PROVE  /\ AddPolynomials(p, q) \in Polynomials /\ AddPolynomials(p, q) \in Seq(Field)
         /\ \A n \in Nat: Len(p) <= n /\ Len(q) <= n => Len(AddPolynomials(p, q)) <= n
         /\ \A k \in Nat \ {0}: Coefficient(AddPolynomials(p, q), k)
                                  = Plus(Coefficient(p, k), Coefficient(q, k))
<1> DEFINE m == Max({Len(p), Len(q)})
           e == [i \in 1 .. m |-> Plus(Coefficient(p, i), Coefficient(q, i))]
<1>1. Len(p) \in Nat /\ Len(q) \in Nat
  OBVIOUS
<1>2. m \in {Len(p), Len(q)} /\ m \in Nat /\ Len(p) <= m /\ Len(q) <= m
  <2>1. Len(p) + Len(q) \in Nat /\ {Len(p), Len(q)} \in SUBSET (0 .. Len(p) + Len(q))
    BY <1>1
  <2>2. {Len(p), Len(q)} # {}
    OBVIOUS
  <2> QED BY <1>1, <2>1, <2>2, MaxFacts
<1> HIDE DEF m
<1>3. \A k \in Nat \ {0}: Plus(Coefficient(p, k), Coefficient(q, k)) \in Field
  BY CoefficientTypes, FieldTypes
<1>4. e \in Seq(Field) /\ Len(e) = m /\ \A i \in 1 .. m: e[i] = Plus(Coefficient(p, i), Coefficient(q, i))
  BY <1>2, <1>3
<1>5. AddPolynomials(p, q) = Trimmed(e)
  BY DEF AddPolynomials, m, e
<1> HIDE DEF e
<1>6. ASSUME NEW k \in Nat \ {0}
      PROVE  Coefficient(e, k) = Plus(Coefficient(p, k), Coefficient(q, k))
  <2>1. CASE k \in 1 .. m
    BY <1>4, <2>1, CoefficientFacts
  <2>2. CASE k \notin 1 .. m
    <3>1. k > m /\ k > Len(p) /\ k > Len(q)
      BY <1>1, <1>2, <2>2
    <3>2. Coefficient(e, k) = 0 /\ Coefficient(p, k) = 0 /\ Coefficient(q, k) = 0
      BY <1>1, <1>2, <1>4, <3>1, CoefficientTypes
    <3>3. Plus(0, 0) = 0
      BY FieldTypes, PlusZero
    <3> QED BY <3>2, <3>3
  <2> QED BY <2>1, <2>2
<1>7. Len(Trimmed(e)) <= m /\ Len(Trimmed(e)) \in Nat
  BY <1>4, TrimmedFacts
<1>8. \A k \in Nat \ {0}: Coefficient(Trimmed(e), k) = Coefficient(e, k)
  BY <1>4, TrimmedFacts
<1> QED BY <1>1, <1>2, <1>4, <1>5, <1>6, <1>7, <1>8, TrimmedFacts

(* The k-th coefficient of a product is the sum of those that lie on its   *)
(* diagonal.                                                               *)
Diagonal(p, q, k) == [i \in DOMAIN p |-> Times(p[i], Coefficient(q, k + 1 - i))]

LEMMA DiagonalFacts ==
  ASSUME NEW p \in Seq(Field), NEW q \in Seq(Field), NEW k \in Int
  PROVE  /\ Diagonal(p, q, k) \in Seq(Field) /\ Len(Diagonal(p, q, k)) = Len(p)
         /\ \A i \in 1 .. Len(p): Diagonal(p, q, k)[i] = Times(p[i], Coefficient(q, k + 1 - i))
<1> DEFINE D == Diagonal(p, q, k)
<1>1. Len(p) \in Nat /\ DOMAIN p = 1 .. Len(p)
  OBVIOUS
<1>2. \A i \in 1 .. Len(p): D[i] = Times(p[i], Coefficient(q, k + 1 - i))
  BY <1>1 DEF Diagonal
<1>3. D = [i \in 1 .. Len(p) |-> D[i]]
  BY <1>1 DEF Diagonal
<1> HIDE DEF D
<1>4. \A i \in 1 .. Len(p): D[i] \in Field
  <2> SUFFICES ASSUME NEW i \in 1 .. Len(p) PROVE D[i] \in Field
    OBVIOUS
  <2>1. k + 1 - i \in Int
    BY <1>1
  <2>2. p[i] \in Field /\ Coefficient(q, k + 1 - i) \in Field
    BY <2>1, CoefficientFacts, CoefficientTypes
  <2> QED BY <1>2, <2>2, FieldTypes
<1> QED BY <1>1, <1>2, <1>3, <1>4, ValuesMakeSequence DEF D

LEMMA MultiplyFacts ==
  ASSUME NEW p \in Seq(Field), NEW q \in Seq(Field)
  PROVE  /\ MultiplyPolynomials(p, q) \in Polynomials /\ MultiplyPolynomials(p, q) \in Seq(Field)
         /\ \A k \in Nat \ {0}: Coefficient(MultiplyPolynomials(p, q), k) = FieldSum(Diagonal(p, q, k))
<1> DEFINE m == Len(p) + Len(q)
           D(k) == Diagonal(p, q, k)
           e == [k \in 1 .. m |-> FieldSum(D(k))]
<1>1. Len(p) \in Nat /\ Len(q) \in Nat /\ m \in Nat /\ DOMAIN p = 1 .. Len(p)
  OBVIOUS
<1>2. \A k \in Nat \ {0}: FieldSum(D(k)) \in Field
  <2> SUFFICES ASSUME NEW k \in Nat \ {0} PROVE FieldSum(D(k)) \in Field
    OBVIOUS
  <2>1. D(k) \in Seq(Field)
    BY DiagonalFacts
  <2> HIDE DEF D
  <2>2. FieldSum(D(k)) = Evaluate(D(k), 1)
    BY <2>1, SumIsValue
  <2> QED BY <2>1, <2>2, PassedFacts, FieldTypes
<1>3. e \in Seq(Field) /\ Len(e) = m /\ \A k \in 1 .. m: e[k] = FieldSum(D(k))
  <2>1. \A k \in 1 .. m: k \in Nat \ {0}
    BY <1>1
  <2> HIDE DEF m, D
  <2> QED BY <1>1, <1>2, <2>1
<1>4. MultiplyPolynomials(p, q) = Trimmed(e)
  BY <1>1 DEF MultiplyPolynomials, Diagonal
<1> HIDE DEF e
<1>5. ASSUME NEW k \in Nat \ {0}
      PROVE  Coefficient(e, k) = FieldSum(D(k))
  <2>1. CASE k \in 1 .. m
    BY <1>3, <2>1, CoefficientFacts
  <2>2. CASE k \notin 1 .. m
    <3> DEFINE d == Diagonal(p, q, k)
    <3>1. k > m
      BY <1>1, <2>2
    <3>2. d \in Seq(Field) /\ Len(d) = Len(p) /\ \A i \in 1 .. Len(p): d[i] = Times(p[i], Coefficient(q, k + 1 - i))
      BY DiagonalFacts
    <3> HIDE DEF d
    <3>3. \A i \in 1 .. Len(p): d[i] = 0
      <4> SUFFICES ASSUME NEW i \in 1 .. Len(p) PROVE d[i] = 0
        OBVIOUS
      <4>1. k + 1 - i \in Int /\ k + 1 - i > Len(q)
        BY <1>1, <3>1
      <4>2. Coefficient(q, k + 1 - i) = 0 /\ p[i] \in Field
        BY <1>1, <4>1, CoefficientTypes
      <4> QED BY <3>2, <4>2, TimesZero
    <3>4. FieldSum(d) = Plus(Coefficient(d, 1), Coefficient(d, 1 + 1))
      <4>1. 1 \in Nat /\ \A i \in 1 .. Len(d): d[i] = 0
        BY <3>2, <3>3
      <4> QED BY <3>2, <4>1, SumOfTwo
    <3>5. \A j \in Int: Coefficient(d, j) = 0
      BY <3>2, <3>3 DEF Coefficient
    <3>6. Plus(0, 0) = 0
      BY FieldTypes, PlusZero
    <3>7. Coefficient(d, 1) = 0 /\ Coefficient(d, 1 + 1) = 0
      BY <3>5
    <3>8. Coefficient(e, k) = 0
      BY <1>1, <1>3, <3>1, CoefficientTypes
    <3> QED BY <3>4, <3>6, <3>7, <3>8 DEF d
  <2> QED BY <2>1, <2>2
<1>6. \A k \in Nat \ {0}: Coefficient(Trimmed(e), k) = Coefficient(e, k)
  BY <1>3, TrimmedFacts
<1> QED BY <1>3, <1>4, <1>5, <1>6, TrimmedFacts

LEMMA ScaleFacts ==
  ASSUME NEW c \in Field, NEW q \in Seq(Field)
  PROVE  /\ MultiplyPolynomials(<<c>>, q) \in Polynomials
         /\ MultiplyPolynomials(<<c>>, q) \in Seq(Field)
         /\ Len(MultiplyPolynomials(<<c>>, q)) <= Len(q)
         /\ \A k \in Nat \ {0}: Coefficient(MultiplyPolynomials(<<c>>, q), k)
                                  = Times(c, Coefficient(q, k))
<1> DEFINE p == <<c>>
           e == MultiplyPolynomials(p, q)
<1>1. p \in Seq(Field) /\ Len(p) = 1 /\ p[1] = c
  OBVIOUS
<1>2. Len(q) \in Nat
  OBVIOUS
<1> HIDE DEF p
<1>3. e \in Polynomials /\ e \in Seq(Field)
  BY <1>1, MultiplyFacts
<1>4. ASSUME NEW k \in Nat \ {0} PROVE Coefficient(e, k) = Times(c, Coefficient(q, k))
  <2> DEFINE D == Diagonal(p, q, k)
  <2>1. Coefficient(e, k) = FieldSum(D)
    BY <1>1, MultiplyFacts
  <2>2. D \in Seq(Field) /\ Len(D) = 1 /\ D[1] = Times(c, Coefficient(q, k))
    <3>1. k \in Int /\ 1 \in 1 .. Len(p) /\ k + 1 - 1 = k
      BY <1>1
    <3>2. D[1] = Times(p[1], Coefficient(q, k + 1 - 1))
      BY <1>1, <3>1, DiagonalFacts
    <3>3. D \in Seq(Field) /\ Len(D) = Len(p)
      BY <1>1, <3>1, DiagonalFacts
    <3> QED BY <1>1, <3>1, <3>2, <3>3
  <2> HIDE DEF D
  <2>3. FieldSum(D) = Plus(Coefficient(D, 1), Coefficient(D, 1 + 1))
    <3>1. 1 \in Nat /\ \A i \in 1 .. Len(D): i = 1
      BY <2>2
    <3> QED BY <2>2, <3>1, SumOfTwo
  <2>4. Coefficient(D, 1) = D[1] /\ Coefficient(D, 1 + 1) = 0 /\ D[1] \in Field
    <3>1. 1 \in 1 .. Len(D) /\ 1 + 1 \in Int /\ 1 + 1 > Len(D)
      BY <2>2
    <3> QED BY <2>2, <3>1, CoefficientFacts, CoefficientTypes
  <2>5. Plus(D[1], 0) = D[1]
    BY <2>4, PlusZero
  <2> QED BY <2>1, <2>2, <2>3, <2>4, <2>5
<1> HIDE DEF e
<1>5. Len(e) <= Len(q)
  <2>1. \A k \in Nat: k > Len(q) => Coefficient(e, k) = 0
    <3> SUFFICES ASSUME NEW k \in Nat, k > Len(q) PROVE Coefficient(e, k) = 0
      OBVIOUS
    <3>1. Coefficient(q, k) = 0 /\ k \in Nat \ {0}
      BY <1>2, CoefficientTypes
    <3> QED BY <1>4, <3>1, TimesZero
  <2> QED BY <1>2, <1>3, <2>1, ShortPolynomial
<1> QED BY <1>3, <1>4, <1>5 DEF e, p

LEMMA TimesFacts ==
  ASSUME NEW p \in Seq(Field), NEW n \in Field
  PROVE  /\ MultiplyPolynomials(p, <<n, 1>>) \in Polynomials
         /\ MultiplyPolynomials(p, <<n, 1>>) \in Seq(Field)
         /\ Len(MultiplyPolynomials(p, <<n, 1>>)) <= Len(p) + 1
         /\ \A k \in Nat \ {0}: Coefficient(MultiplyPolynomials(p, <<n, 1>>), k)
                                  = Plus(Coefficient(p, k - 1), Times(n, Coefficient(p, k)))
<1> DEFINE q == <<n, 1>>
           e == MultiplyPolynomials(p, q)
<1>1. 1 \in Field /\ 0 \in Field
  BY FieldTypes
<1>2. q \in Seq(Field) /\ Len(q) = 2 /\ q[1] = n /\ q[2] = 1
  BY <1>1
<1>3. Coefficient(q, 1) = n /\ Coefficient(q, 2) = 1
  <2>1. 1 \in 1 .. Len(q) /\ 2 \in 1 .. Len(q)
    BY <1>2
  <2> QED BY <1>2, <2>1, CoefficientFacts
<1>4. \A k \in Int: k # 1 /\ k # 2 => Coefficient(q, k) = 0
  <2> SUFFICES ASSUME NEW k \in Int, k # 1, k # 2 PROVE Coefficient(q, k) = 0
    OBVIOUS
  <2>1. ~ (1 <= k /\ k <= Len(q))
    BY <1>2
  <2> QED BY <1>2, <2>1, CoefficientFacts
<1>5. Len(p) \in Nat /\ DOMAIN p = 1 .. Len(p)
  OBVIOUS
<1> HIDE DEF q
<1>6. e \in Polynomials /\ e \in Seq(Field)
  BY <1>2, MultiplyFacts
<1>7. ASSUME NEW k \in Nat \ {0}
      PROVE  Coefficient(e, k) = Plus(Coefficient(p, k - 1), Times(n, Coefficient(p, k)))
  <2> DEFINE D == Diagonal(p, q, k)
             j == k - 1
             S == 1 .. Len(p)
  <2>1. Coefficient(e, k) = FieldSum(D)
    BY <1>2, MultiplyFacts
  <2>2. D \in Seq(Field) /\ Len(D) = Len(p)
    BY <1>2, DiagonalFacts
  <2>3. \A i \in S: D[i] = Times(p[i], Coefficient(q, k + 1 - i)) /\ p[i] \in Field
    <3>1. k \in Int
      OBVIOUS
    <3>2. \A i \in S: D[i] = Times(p[i], Coefficient(q, k + 1 - i))
      BY <1>2, <3>1, DiagonalFacts
    <3>3. \A i \in S: p[i] \in Field
      BY CoefficientTypes
    <3> QED BY <3>2, <3>3
  <2>4. k \in Int /\ j \in Int /\ j \in Nat /\ j + 1 = k /\ k + 1 - k = 1 /\ k + 1 - j = 2
    OBVIOUS
  <2> HIDE DEF D, j
  <2>5. k \in S => D[k] = Times(n, p[k])
    <3> SUFFICES ASSUME k \in S PROVE D[k] = Times(n, p[k])
      OBVIOUS
    <3>1. D[k] = Times(p[k], n) /\ p[k] \in Field
      BY <1>3, <2>3, <2>4
    <3> QED BY <3>1, TimesLaws
  <2>6. j \in S => D[j] = p[j]
    <3> SUFFICES ASSUME j \in S PROVE D[j] = p[j]
      OBVIOUS
    <3>1. D[j] = Times(p[j], 1) /\ p[j] \in Field
      BY <1>3, <2>3, <2>4
    <3> QED BY <3>1, TimesOne
  <2>7. \A i \in S: i # j /\ i # j + 1 => D[i] = 0
    <3> SUFFICES ASSUME NEW i \in S, i # j, i # j + 1 PROVE D[i] = 0
      OBVIOUS
    <3>1. k + 1 - i \in Int /\ k + 1 - i # 1 /\ k + 1 - i # 2
      BY <1>5 DEF j
    <3>2. Coefficient(q, k + 1 - i) = 0
      BY <1>4, <3>1
    <3> QED BY <2>3, <3>2, TimesZero
  <2>8. FieldSum(D) = Plus(Coefficient(D, j), Coefficient(D, j + 1))
    BY <2>2, <2>4, <2>7, SumOfTwo
  <2>9. /\ Coefficient(p, k) = (IF k \in S THEN p[k] ELSE 0)
        /\ Coefficient(p, j) = (IF j \in S THEN p[j] ELSE 0)
    BY <1>5 DEF Coefficient
  <2>10. /\ Coefficient(D, k) = (IF k \in S THEN D[k] ELSE 0)
         /\ Coefficient(D, j) = (IF j \in S THEN D[j] ELSE 0)
    <3>1. DOMAIN D = S
      BY <2>2
    <3> QED BY <3>1 DEF Coefficient
  <2>11. Times(n, 0) = 0
    BY TimesZero
  <2>12. Coefficient(D, k) = Times(n, Coefficient(p, k)) /\ Coefficient(D, j) = Coefficient(p, j)
    BY <2>5, <2>6, <2>9, <2>10, <2>11
  <2> QED BY <2>1, <2>4, <2>8, <2>12 DEF j
<1> HIDE DEF e
<1>8. Len(e) <= Len(p) + 1
  <2>1. \A k \in Nat: k > Len(p) + 1 => Coefficient(e, k) = 0
    <3> SUFFICES ASSUME NEW k \in Nat, k > Len(p) + 1 PROVE Coefficient(e, k) = 0
      OBVIOUS
    <3>1. k \in Int /\ k - 1 \in Int /\ k \in Nat \ {0} /\ k > Len(p) /\ k - 1 > Len(p)
      BY <1>5
    <3>2. Coefficient(p, k) = 0 /\ Coefficient(p, k - 1) = 0
      BY <3>1, CoefficientTypes
    <3>3. Times(n, 0) = 0 /\ Plus(0, 0) = 0
      BY <1>1, TimesZero, PlusZero
    <3> QED BY <1>7, <3>1, <3>2, <3>3
  <2>2. Len(p) + 1 \in Nat
    BY <1>5
  <2> QED BY <1>6, <2>1, <2>2, ShortPolynomial
<1> QED BY <1>6, <1>7, <1>8 DEF e, q

-----------------------------------------------------------------------------
(* The value of a sum and of a product.                                    *)
LEMMA EvaluateAdd ==
  ASSUME NEW p \in Seq(Field), NEW q \in Seq(Field), NEW x \in Field
  PROVE  Evaluate(AddPolynomials(p, q), x) = Plus(Evaluate(p, x), Evaluate(q, x))
<1> DEFINE e == AddPolynomials(p, q)
           g == [k \in Nat \ {0} |-> Plus(Passed(p, x, k), Passed(q, x, k))]
           N == Len(p) + Len(q)
<1>1. e \in Seq(Field)
  BY AddFacts
<1>2. N \in Nat /\ Len(p) \in Nat /\ Len(q) \in Nat
  OBVIOUS
<1>3. \A k \in Nat \ {0}: k + 1 \in Nat \ {0}
  OBVIOUS
<1>4. \A k \in Nat \ {0}: g[k] = Plus(Passed(p, x, k), Passed(q, x, k))
  OBVIOUS
<1> HIDE DEF g
<1>5. ASSUME NEW k \in Nat \ {0}, k > N PROVE g[k] = 0
  <2>1. k > Len(p) /\ k > Len(q)
    BY <1>2, <1>5
  <2>2. Passed(p, x, k) = 0 /\ Passed(q, x, k) = 0
    BY <2>1, PassedFacts
  <2> QED BY <1>4, <2>2, FieldTypes, PlusZero
<1>6. ASSUME NEW k \in Nat \ {0} PROVE g[k] = Plus(Coefficient(e, k), Times(x, g[k + 1]))
  <2> DEFINE a == Coefficient(p, k)
             b == Coefficient(q, k)
             u == Passed(p, x, k + 1)
             v == Passed(q, x, k + 1)
  <2>1. a \in Field /\ b \in Field
    BY CoefficientTypes
  <2>2. u \in Field /\ v \in Field
    BY <1>3, PassedFacts
  <2>3. Passed(p, x, k) = Plus(a, Times(x, u)) /\ Passed(q, x, k) = Plus(b, Times(x, v))
    BY PassedFacts
  <2>4. Coefficient(e, k) = Plus(a, b)
    BY AddFacts
  <2>5. g[k + 1] = Plus(u, v)
    BY <1>3, <1>4
  <2> HIDE DEF a, b, u, v, e
  <2>6. g[k] = Plus(Plus(a, Times(x, u)), Plus(b, Times(x, v)))
    BY <1>4, <2>3
  <2>7. Times(x, u) \in Field /\ Times(x, v) \in Field
    BY <2>2, FieldTypes
  <2>8. Plus(Plus(a, Times(x, u)), Plus(b, Times(x, v)))
          = Plus(Plus(a, b), Plus(Times(x, u), Times(x, v)))
    BY <2>1, <2>7, PlusSwaps
  <2>9. Times(x, Plus(u, v)) = Plus(Times(x, u), Times(x, v))
    BY <2>2, TimesLaws
  <2> QED BY <2>4, <2>5, <2>6, <2>8, <2>9
<1> HIDE DEF e, N
<1>7. \A k \in Nat \ {0}: g[k] = Passed(e, x, k)
  BY <1>1, <1>2, <1>5, <1>6, PassedUnique
<1>8. 1 \in Nat \ {0}
  OBVIOUS
<1>9. g[1] = Passed(e, x, 1) /\ g[1] = Plus(Passed(p, x, 1), Passed(q, x, 1))
  BY <1>4, <1>7, <1>8
<1>10. Passed(e, x, 1) = Evaluate(e, x)
  BY <1>1, PassedFacts
<1>11. Passed(p, x, 1) = Evaluate(p, x) /\ Passed(q, x, 1) = Evaluate(q, x)
  BY PassedFacts
<1> QED BY <1>9, <1>10, <1>11 DEF e

LEMMA EvaluateScale ==
  ASSUME NEW c \in Field, NEW q \in Seq(Field), NEW x \in Field
  PROVE  Evaluate(MultiplyPolynomials(<<c>>, q), x) = Times(c, Evaluate(q, x))
<1> DEFINE e == MultiplyPolynomials(<<c>>, q)
           g == [k \in Nat \ {0} |-> Times(c, Passed(q, x, k))]
<1>1. e \in Seq(Field)
  BY ScaleFacts
<1>2. Len(q) \in Nat
  OBVIOUS
<1>3. \A k \in Nat \ {0}: k + 1 \in Nat \ {0}
  OBVIOUS
<1>4. \A k \in Nat \ {0}: g[k] = Times(c, Passed(q, x, k))
  OBVIOUS
<1> HIDE DEF g
<1>5. ASSUME NEW k \in Nat \ {0}, k > Len(q) PROVE g[k] = 0
  <2>1. Passed(q, x, k) = 0
    BY <1>2, <1>5, PassedFacts
  <2> QED BY <1>4, <2>1, TimesZero
<1>6. ASSUME NEW k \in Nat \ {0} PROVE g[k] = Plus(Coefficient(e, k), Times(x, g[k + 1]))
  <2> DEFINE b == Coefficient(q, k)
             v == Passed(q, x, k + 1)
  <2>1. b \in Field /\ v \in Field
    BY <1>3, CoefficientTypes, PassedFacts
  <2>2. Passed(q, x, k) = Plus(b, Times(x, v))
    BY PassedFacts
  <2>3. Coefficient(e, k) = Times(c, b)
    BY ScaleFacts
  <2>4. g[k + 1] = Times(c, v)
    BY <1>3, <1>4
  <2> HIDE DEF b, v, e
  <2>5. g[k] = Times(c, Plus(b, Times(x, v)))
    BY <1>4, <2>2
  <2>6. Times(c, Plus(b, Times(x, v))) = Plus(Times(c, b), Times(c, Times(x, v)))
    <3>1. Times(x, v) \in Field
      BY <2>1, FieldTypes
    <3> QED BY <2>1, <3>1, TimesLaws
  <2>7. Times(c, Times(x, v)) = Times(x, Times(c, v))
    <3>1. Times(Times(c, x), v) = Times(c, Times(x, v)) /\ Times(Times(x, c), v) = Times(x, Times(c, v))
      BY <2>1, TimesLaws
    <3>2. Times(c, x) = Times(x, c)
      BY TimesLaws
    <3> QED BY <3>1, <3>2
  <2> QED BY <2>3, <2>4, <2>5, <2>6, <2>7
<1> HIDE DEF e
<1>7. \A k \in Nat \ {0}: g[k] = Passed(e, x, k)
  BY <1>1, <1>2, <1>5, <1>6, PassedUnique
<1>8. 1 \in Nat \ {0}
  OBVIOUS
<1>9. g[1] = Passed(e, x, 1) /\ g[1] = Times(c, Passed(q, x, 1))
  BY <1>4, <1>7, <1>8
<1>10. Passed(e, x, 1) = Evaluate(e, x)
  BY <1>1, PassedFacts
<1>11. Passed(q, x, 1) = Evaluate(q, x)
  BY PassedFacts
<1> QED BY <1>9, <1>10, <1>11 DEF e

TimesStep(a, b, n, x, u, v) ==
  u = Plus(b, Times(x, v)) =>
    Plus(Plus(a, Times(x, u)), Times(n, u))
      = Plus(Plus(a, Times(n, b)), Times(x, Plus(u, Times(n, v))))

LEMMA TimesRearranged ==
  ASSUME NEW a \in Field, NEW b \in Field, NEW n \in Field,
         NEW x \in Field, NEW u \in Field, NEW v \in Field
  PROVE  TimesStep(a, b, n, x, u, v)
<1> SUFFICES ASSUME u = Plus(b, Times(x, v))
             PROVE  Plus(Plus(a, Times(x, u)), Times(n, u))
                      = Plus(Plus(a, Times(n, b)), Times(x, Plus(u, Times(n, v))))
  BY DEF TimesStep
<1> DEFINE xu == Times(x, u)
           nb == Times(n, b)
           xnv == Times(x, Times(n, v))
<1>1. Times(x, v) \in Field /\ Times(n, v) \in Field /\ xu \in Field /\ nb \in Field
  BY FieldTypes
<1>2. xnv \in Field
  BY <1>1, FieldTypes
<1>3. Times(n, Plus(b, Times(x, v))) = Plus(nb, Times(n, Times(x, v)))
  BY <1>1, TimesLaws
<1>4. Times(n, Times(x, v)) = xnv
  <2>1. Times(Times(n, x), v) = Times(n, Times(x, v)) /\ Times(Times(x, n), v) = xnv
    BY TimesLaws
  <2>2. Times(n, x) = Times(x, n)
    BY TimesLaws
  <2> QED BY <2>1, <2>2
<1>5. Times(x, Plus(u, Times(n, v))) = Plus(xu, xnv)
  BY <1>1, TimesLaws
<1>6. Times(n, u) = Plus(nb, xnv)
  BY <1>3, <1>4
<1> HIDE DEF xu, nb, xnv
<1>7. Plus(Plus(a, xu), Plus(nb, xnv)) = Plus(Plus(a, nb), Plus(xu, xnv))
  BY <1>1, <1>2, PlusSwaps
<1> QED BY <1>5, <1>6, <1>7 DEF xu, nb

(* A factor X - r multiplies the value by x - r: it makes it 0 at r.       *)
LEMMA EvaluateTimes ==
  ASSUME NEW p \in Seq(Field), NEW n \in Field, NEW x \in Field
  PROVE  Evaluate(MultiplyPolynomials(p, <<n, 1>>), x) = Times(Plus(x, n), Evaluate(p, x))
<1> DEFINE e == MultiplyPolynomials(p, <<n, 1>>)
           H == [k \in Nat |-> IF k = 0 THEN Times(x, Passed(p, x, 1)) ELSE Passed(p, x, k)]
           g == [k \in Nat \ {0} |-> Plus(H[k - 1], Times(n, H[k]))]
           N == Len(p) + 1
<1>1. e \in Seq(Field)
  BY TimesFacts
<1>2. N \in Nat /\ Len(p) \in Nat
  OBVIOUS
<1>3. \A k \in Nat \ {0}: k + 1 \in Nat \ {0} /\ k - 1 \in Nat /\ (k + 1) - 1 = k
  OBVIOUS
<1>4. \A k \in Nat \ {0}: g[k] = Plus(H[k - 1], Times(n, H[k]))
  OBVIOUS
<1>5. H[0] = Times(x, Passed(p, x, 1)) /\ \A k \in Nat \ {0}: H[k] = Passed(p, x, k)
  OBVIOUS
<1> HIDE DEF g, H
<1>6. \A k \in Nat \ {0}: H[k] \in Field /\ H[k] = Plus(Coefficient(p, k), Times(x, H[k + 1]))
  <2> SUFFICES ASSUME NEW k \in Nat \ {0}
               PROVE  H[k] \in Field /\ H[k] = Plus(Coefficient(p, k), Times(x, H[k + 1]))
    OBVIOUS
  <2>1. H[k] = Passed(p, x, k) /\ H[k + 1] = Passed(p, x, k + 1)
    BY <1>3, <1>5
  <2>2. Passed(p, x, k) \in Field
    BY PassedFacts
  <2>3. Passed(p, x, k) = Plus(Coefficient(p, k), Times(x, Passed(p, x, k + 1)))
    BY PassedFacts
  <2> QED BY <2>1, <2>2, <2>3
<1>7. ASSUME NEW k \in Nat \ {0}
      PROVE  H[k - 1] = Plus(Coefficient(p, k - 1), Times(x, H[k]))
  <2>1. CASE k = 1
    <3>1. ~ (1 <= 0 /\ 0 <= Len(p)) /\ 0 \in Int /\ k - 1 = 0
      BY <2>1
    <3>2. Coefficient(p, 0) = 0
      BY <3>1, CoefficientFacts
    <3>3. H[1] \in Field /\ H[1] = Passed(p, x, 1)
      <4>1. 1 \in Nat \ {0}
        OBVIOUS
      <4> QED BY <1>5, <1>6, <4>1
    <3>4. Plus(0, Times(x, H[1])) = Times(x, H[1])
      <4>1. Times(x, H[1]) \in Field
        BY <3>3, FieldTypes
      <4> QED BY <4>1, PlusZero
    <3> QED BY <1>5, <2>1, <3>1, <3>2, <3>3, <3>4
  <2>2. CASE k # 1
    <3>1. k - 1 \in Nat \ {0} /\ (k - 1) + 1 = k
      BY <2>2
    <3> QED BY <1>6, <3>1
  <2> QED BY <2>1, <2>2
<1>8. ASSUME NEW k \in Nat \ {0}, k > N PROVE g[k] = 0
  <2>1. k - 1 \in Nat \ {0} /\ k - 1 > Len(p) /\ k > Len(p)
    BY <1>2, <1>8
  <2>2. H[k] = 0 /\ H[k - 1] = 0
    BY <1>5, <2>1, PassedFacts
  <2>3. Times(n, 0) = 0 /\ Plus(0, 0) = 0
    BY FieldTypes, TimesZero, PlusZero
  <2> QED BY <1>4, <2>2, <2>3
<1>9. ASSUME NEW k \in Nat \ {0} PROVE g[k] = Plus(Coefficient(e, k), Times(x, g[k + 1]))
  <2> DEFINE a == Coefficient(p, k - 1)
             b == Coefficient(p, k)
             u == H[k]
             v == H[k + 1]
  <2>1. a \in Field /\ b \in Field
    <3>1. k - 1 \in Int
      OBVIOUS
    <3> QED BY <3>1, CoefficientFacts, CoefficientTypes
  <2>2. u \in Field /\ v \in Field /\ u = Plus(b, Times(x, v))
    BY <1>3, <1>6
  <2>3. H[k - 1] = Plus(a, Times(x, u))
    BY <1>7
  <2>4. Coefficient(e, k) = Plus(a, Times(n, b))
    BY TimesFacts
  <2>5. g[k + 1] = Plus(u, Times(n, v))
    BY <1>3, <1>4
  <2>6. g[k] = Plus(Plus(a, Times(x, u)), Times(n, u))
    BY <1>4, <2>3
  <2> HIDE DEF a, b, u, v, e
  <2>7. TimesStep(a, b, n, x, u, v)
    BY <2>1, <2>2, TimesRearranged
  <2> QED BY <2>2, <2>4, <2>5, <2>6, <2>7 DEF TimesStep
<1> HIDE DEF e, N
<1>10. \A k \in Nat \ {0}: g[k] = Passed(e, x, k)
  BY <1>1, <1>2, <1>8, <1>9, PassedUnique
<1>11. g[1] = Passed(e, x, 1) /\ g[1] = Plus(H[0], Times(n, H[1])) /\ H[1] = Passed(p, x, 1)
  <2>1. 1 \in Nat \ {0} /\ 1 - 1 = 0
    OBVIOUS
  <2> QED BY <1>4, <1>5, <1>10, <2>1
<1>12. Passed(e, x, 1) = Evaluate(e, x) /\ Passed(p, x, 1) = Evaluate(p, x) /\ Evaluate(p, x) \in Field
  BY <1>1, PassedFacts
<1> DEFINE v == Evaluate(p, x)
<1>13. Plus(Times(x, v), Times(n, v)) = Times(Plus(x, n), v)
  <2>1. v \in Field /\ Plus(x, n) \in Field
    BY <1>12, FieldTypes
  <2> HIDE DEF v
  <2>2. Times(v, Plus(x, n)) = Plus(Times(v, x), Times(v, n))
    BY <2>1, TimesLaws
  <2>3. Times(v, x) = Times(x, v) /\ Times(v, n) = Times(n, v) /\ Times(v, Plus(x, n)) = Times(Plus(x, n), v)
    BY <2>1, TimesLaws
  <2> QED BY <2>2, <2>3
<1> QED BY <1>5, <1>11, <1>12, <1>13 DEF e

-----------------------------------------------------------------------------
(* Division by X - x: a proof opens a commitment in one way only.          *)
LEMMA QuotientFacts ==
  ASSUME NEW f \in Seq(Field), NEW x \in Field
  PROVE  /\ Quotient(f, x) \in Polynomials /\ Quotient(f, x) \in Seq(Field)
         /\ \A n \in Nat: Len(f) <= n + 1 => Len(Quotient(f, x)) <= n
         /\ \A k \in Nat \ {0}: Coefficient(Quotient(f, x), k) = Passed(f, x, k + 1)
<1> DEFINE m == Len(f) - 1
           e == [i \in 1 .. m |-> Horner(f, x)[i + 1]]
<1>1. Len(f) \in Nat
  OBVIOUS
<1>2. \A i \in 1 .. m: i + 1 \in 1 .. Len(f) + 1
  BY <1>1
<1>3. \A i \in 1 .. m: Horner(f, x)[i + 1] \in Field
  BY <1>2, HornerFacts, OrderFacts
<1>4. CASE Len(f) = 0
  <2>1. 1 .. m = 1 .. 0
    BY <1>4
  <2>2. e = [i \in 1 .. 0 |-> Horner(f, x)[i + 1]]
    BY <2>1
  <2>3. e \in Seq(Field) /\ Len(e) = 0
    <3>1. [i \in 1 .. 0 |-> Horner(f, x)[i + 1]] \in Seq(Field)
      OBVIOUS
    <3>2. Len([i \in 1 .. 0 |-> Horner(f, x)[i + 1]]) = 0
      OBVIOUS
    <3> QED BY <2>2, <3>1, <3>2
  <2>4. Quotient(f, x) = Trimmed(e)
    BY DEF Quotient
  <2> HIDE DEF e
  <2>5. Quotient(f, x) \in Polynomials /\ Quotient(f, x) \in Seq(Field) /\ Len(Quotient(f, x)) <= 0
    BY <2>3, <2>4, TrimmedFacts
  <2>6. \A k \in Int: Coefficient(Quotient(f, x), k) = Coefficient(e, k)
    BY <2>3, <2>4, TrimmedFacts
  <2>7. ASSUME NEW k \in Nat \ {0} PROVE Coefficient(Quotient(f, x), k) = Passed(f, x, k + 1)
    <3>1. k \in Int /\ k > Len(e) /\ k + 1 > Len(f) /\ k + 1 \in Nat \ {0}
      BY <1>4, <2>3
    <3>2. Coefficient(e, k) = 0 /\ Passed(f, x, k + 1) = 0
      BY <2>3, <3>1, CoefficientTypes, PassedFacts
    <3> QED BY <2>6, <3>1, <3>2
  <2>8. Len(Quotient(f, x)) \in Nat
    BY <2>5
  <2> QED BY <2>5, <2>7, <2>8
<1>5. CASE Len(f) # 0
  <2>1. m \in Nat /\ m + 1 = Len(f)
    BY <1>1, <1>5
  <2>2. e \in Seq(Field) /\ Len(e) = m /\ \A i \in 1 .. m: e[i] = Horner(f, x)[i + 1]
    <3> HIDE DEF m
    <3> QED BY <1>3, <2>1
  <2>3. Quotient(f, x) = Trimmed(e)
    BY DEF Quotient
  <2> HIDE DEF e, m
  <2>4. /\ Quotient(f, x) \in Polynomials /\ Quotient(f, x) \in Seq(Field)
        /\ Len(Quotient(f, x)) <= m /\ Len(Quotient(f, x)) \in Nat
    BY <2>2, <2>3, TrimmedFacts
  <2>5. \A k \in Int: Coefficient(Quotient(f, x), k) = Coefficient(e, k)
    BY <2>2, <2>3, TrimmedFacts
  <2>6. ASSUME NEW k \in Nat \ {0} PROVE Coefficient(Quotient(f, x), k) = Passed(f, x, k + 1)
    <3>1. CASE k \in 1 .. m
      <4>1. k + 1 \in 1 .. Len(f) + 1 /\ k \in Int
        BY <2>1, <3>1
      <4>2. Coefficient(e, k) = Horner(f, x)[k + 1]
        BY <2>2, <3>1, CoefficientFacts
      <4> QED BY <2>5, <4>1, <4>2 DEF Passed
    <3>2. CASE k \notin 1 .. m
      <4>1. k \in Int /\ k > Len(e) /\ k + 1 > Len(f) /\ k + 1 \in Nat \ {0}
        BY <2>1, <2>2, <3>2
      <4>2. Coefficient(e, k) = 0 /\ Passed(f, x, k + 1) = 0
        BY <2>2, <4>1, CoefficientTypes, PassedFacts
      <4> QED BY <2>5, <4>1, <4>2
    <3> QED BY <3>1, <3>2
  <2>7. \A n \in Nat: Len(f) <= n + 1 => Len(Quotient(f, x)) <= n
    BY <2>1, <2>4
  <2> QED BY <2>4, <2>6, <2>7
<1> QED BY <1>4, <1>5

Transposed(a, v, w, n) == a = Plus(v, n) <=> v = Plus(a, w)

LEMMA Transpose ==
  ASSUME NEW a \in Field, NEW v \in Field, NEW w \in Field, NEW n \in Field, Plus(w, n) = 0
  PROVE  Transposed(a, v, w, n)
<1>1. Plus(v, n) = a <=> v = Plus(a, w)
  BY Moved
<1> QED BY <1>1 DEF Transposed

(* The coefficients of a proof, after the value it is for.                 *)
Opened(v, q) == [k \in Nat \ {0} |-> IF k = 1 THEN v ELSE Coefficient(q, k - 1)]

LEMMA OpeningStep ==
  ASSUME NEW f \in Polynomials, NEW q \in Seq(Field), NEW v \in Field, NEW x \in Field
  PROVE  AddPolynomials(f, <<Negative(v)>>) = MultiplyPolynomials(q, <<Negative(x), 1>>)
           <=> \A k \in Nat \ {0}:
                 Opened(v, q)[k] = Plus(Coefficient(f, k), Times(x, Opened(v, q)[k + 1]))
<1> DEFINE n == <<Negative(v)>>
           y == Negative(x)
           e == AddPolynomials(f, n)
           m == MultiplyPolynomials(q, <<Negative(x), 1>>)
           g == Opened(v, q)
<1>1. f \in Seq(Field) /\ 0 \in Field
  BY FieldTypes DEF Polynomials
<1>2. Negative(v) \in Field /\ Plus(v, Negative(v)) = 0 /\ y \in Field
  BY NegativeFacts
<1>3. n \in Seq(Field) /\ Len(n) = 1 /\ n[1] = Negative(v)
  BY <1>2
<1>4. Coefficient(n, 1) = Negative(v) /\ \A k \in Int: k > 1 => Coefficient(n, k) = 0
  <2>1. 1 \in 1 .. Len(n)
    BY <1>3
  <2>2. Coefficient(n, 1) = n[1]
    BY <1>3, <2>1, CoefficientFacts
  <2> QED BY <1>3, <2>2, CoefficientTypes
<1> HIDE DEF n
<1>5. e \in Polynomials /\ \A k \in Nat \ {0}: Coefficient(e, k) = Plus(Coefficient(f, k), Coefficient(n, k))
  BY <1>1, <1>3, AddFacts
<1>6. m \in Polynomials /\ \A k \in Nat \ {0}: Coefficient(m, k) = Plus(Coefficient(q, k - 1), Times(y, Coefficient(q, k)))
  BY <1>2, TimesFacts
<1> HIDE DEF e, m
<1>7. \A k \in Nat \ {0}: g[k] = (IF k = 1 THEN v ELSE Coefficient(q, k - 1)) /\ g[k + 1] = Coefficient(q, k)
  <2> SUFFICES ASSUME NEW k \in Nat \ {0}
               PROVE  g[k] = (IF k = 1 THEN v ELSE Coefficient(q, k - 1)) /\ g[k + 1] = Coefficient(q, k)
    OBVIOUS
  <2>1. k + 1 \in Nat \ {0} /\ k + 1 # 1 /\ (k + 1) - 1 = k
    OBVIOUS
  <2> QED BY <2>1 DEF Opened
<1>8. ASSUME NEW k \in Nat \ {0}
      PROVE  Coefficient(e, k) = Coefficient(m, k) <=> g[k] = Plus(Coefficient(f, k), Times(x, g[k + 1]))
  <2> DEFINE a == Coefficient(f, k)
             b == Coefficient(q, k)
             c == Coefficient(q, k - 1)
             w == Times(x, b)
             z == Times(y, b)
  <2>1. k \in Int /\ k - 1 \in Int
    OBVIOUS
  <2>2. a \in Field /\ b \in Field /\ c \in Field
    BY <1>1, <2>1, CoefficientFacts
  <2>3. w \in Field /\ z \in Field /\ Plus(w, z) = 0
    BY <1>2, <2>2, FieldTypes, Opposites
  <2>4. Coefficient(m, k) = Plus(c, z) /\ g[k + 1] = b
    BY <1>6, <1>7
  <2>5. CASE k = 1
    <3>1. ~ (1 <= k - 1 /\ k - 1 <= Len(q)) /\ g[k] = v
      BY <1>7, <2>5
    <3>2. c = 0
      BY <2>1, <3>1, CoefficientFacts
    <3>3. Coefficient(e, k) = Plus(a, Negative(v))
      BY <1>4, <1>5, <2>5
    <3> HIDE DEF a, b, c, w, z
    <3>4. Plus(0, z) = z
      BY <2>3, PlusZero
    <3>5. Plus(a, Negative(v)) = z <=> a = Plus(z, v)
      BY <1>2, <2>2, <2>3, Moved
    <3>6. Plus(z, v) = Plus(v, z)
      BY <2>3, PlusLaws
    <3>7. a = Plus(v, z) <=> v = Plus(a, w)
      <4>1. Transposed(a, v, w, z)
        BY <2>2, <2>3, Transpose
      <4> QED BY <4>1 DEF Transposed
    <3> QED BY <2>4, <3>1, <3>2, <3>3, <3>4, <3>5, <3>6, <3>7 DEF w, a
  <2>6. CASE k # 1
    <3>1. k > 1 /\ g[k] = c
      BY <1>7, <2>6
    <3>2. Coefficient(n, k) = 0 /\ Plus(a, 0) = a
      BY <1>4, <2>1, <2>2, <3>1, PlusZero
    <3>3. Coefficient(e, k) = a
      BY <1>5, <3>2
    <3> HIDE DEF a, b, c, w, z
    <3>4. a = Plus(c, z) <=> c = Plus(a, w)
      <4>1. Transposed(a, c, w, z)
        BY <2>2, <2>3, Transpose
      <4> QED BY <4>1 DEF Transposed
    <3> QED BY <2>4, <3>1, <3>3, <3>4 DEF w, a
  <2> QED BY <2>5, <2>6
<1>9. e = m <=> \A k \in Nat \ {0}: Coefficient(e, k) = Coefficient(m, k)
  BY <1>5, <1>6, SamePolynomial
<1> QED BY <1>8, <1>9 DEF e, m, n

(* The proof of a value opens the commitment, and nothing else does: no    *)
(* other value, and no other proof of the same value (verify_kzg_proof).   *)
THEOREM OpensExactly ==
  ASSUME NEW f \in Polynomials, NEW q \in Polynomials, NEW v \in Field, NEW x \in Field
  PROVE  AddPolynomials(f, <<Negative(v)>>) = MultiplyPolynomials(q, <<Negative(x), 1>>)
           <=> v = Evaluate(f, x) /\ q = Quotient(f, x)
<1> DEFINE g == Opened(v, q)
           Follows == \A k \in Nat \ {0}: g[k] = Plus(Coefficient(f, k), Times(x, g[k + 1]))
<1>1. f \in Seq(Field) /\ q \in Seq(Field) /\ Len(q) \in Nat
  BY DEF Polynomials
<1>2. \A k \in Nat \ {0}: g[k] = (IF k = 1 THEN v ELSE Coefficient(q, k - 1)) /\ g[k + 1] = Coefficient(q, k)
  <2> SUFFICES ASSUME NEW k \in Nat \ {0}
               PROVE  g[k] = (IF k = 1 THEN v ELSE Coefficient(q, k - 1)) /\ g[k + 1] = Coefficient(q, k)
    OBVIOUS
  <2>1. k + 1 \in Nat \ {0} /\ k + 1 # 1 /\ (k + 1) - 1 = k
    OBVIOUS
  <2> QED BY <2>1 DEF Opened
<1> HIDE DEF g
<1>3. Follows => v = Evaluate(f, x) /\ q = Quotient(f, x)
  <2> SUFFICES ASSUME Follows PROVE v = Evaluate(f, x) /\ q = Quotient(f, x)
    OBVIOUS
  <2>1. \A k \in Nat \ {0}: k > Len(q) + 1 => g[k] = 0
    <3> SUFFICES ASSUME NEW k \in Nat \ {0}, k > Len(q) + 1 PROVE g[k] = 0
      OBVIOUS
    <3>1. k # 1 /\ k - 1 \in Int /\ k - 1 > Len(q)
      <4> DEFINE n == Len(q)
      <4>1. n \in Nat /\ k > n + 1
        BY <1>1
      <4> HIDE DEF n
      <4>2. k # 1 /\ k - 1 \in Int /\ k - 1 > n
        BY <4>1
      <4> QED BY <4>2 DEF n
    <3>2. Coefficient(q, k - 1) = 0
      BY <1>1, <3>1, CoefficientTypes
    <3> QED BY <1>2, <3>1, <3>2
  <2>2. Len(q) + 1 \in Nat
    BY <1>1
  <2>3. \A k \in Nat \ {0}: g[k] = Passed(f, x, k)
    BY <1>1, <2>1, <2>2, PassedUnique
  <2>4. 1 \in Nat \ {0}
    OBVIOUS
  <2>5. v = Evaluate(f, x)
    BY <1>1, <1>2, <2>3, <2>4, PassedFacts
  <2>6. \A k \in Nat \ {0}: Coefficient(q, k) = Coefficient(Quotient(f, x), k)
    <3> SUFFICES ASSUME NEW k \in Nat \ {0} PROVE Coefficient(q, k) = Coefficient(Quotient(f, x), k)
      OBVIOUS
    <3>1. k + 1 \in Nat \ {0}
      OBVIOUS
    <3>2. Coefficient(q, k) = Passed(f, x, k + 1)
      BY <1>2, <2>3, <3>1
    <3>3. Coefficient(Quotient(f, x), k) = Passed(f, x, k + 1)
      BY <1>1, QuotientFacts
    <3> QED BY <3>2, <3>3
  <2>7. Quotient(f, x) \in Polynomials
    BY <1>1, QuotientFacts
  <2>8. q = Quotient(f, x)
    BY <2>6, <2>7, SamePolynomial
  <2> QED BY <2>5, <2>8
<1>4. v = Evaluate(f, x) /\ q = Quotient(f, x) => Follows
  <2> SUFFICES ASSUME v = Evaluate(f, x), q = Quotient(f, x), NEW k \in Nat \ {0}
               PROVE  g[k] = Plus(Coefficient(f, k), Times(x, g[k + 1]))
    OBVIOUS
  <2>1. \A j \in Nat \ {0}: Coefficient(q, j) = Passed(f, x, j + 1)
    BY <1>1, QuotientFacts
  <2>2. g[k + 1] = Passed(f, x, k + 1)
    BY <1>2, <2>1
  <2>3. g[k] = Passed(f, x, k)
    <3>1. CASE k = 1
      BY <1>1, <1>2, <3>1, PassedFacts
    <3>2. CASE k # 1
      <4>1. k - 1 \in Nat \ {0} /\ (k - 1) + 1 = k
        BY <3>2
      <4> QED BY <1>2, <2>1, <3>2, <4>1
    <3> QED BY <3>1, <3>2
  <2> QED BY <1>1, <2>2, <2>3, PassedFacts
<1>5. AddPolynomials(f, <<Negative(v)>>) = MultiplyPolynomials(q, <<Negative(x), 1>>) <=> Follows
  BY <1>1, OpeningStep DEF g
<1> QED BY <1>3, <1>4, <1>5

-----------------------------------------------------------------------------
(* A polynomial that is not 0 has fewer roots than coefficients.           *)
LEMMA NoPolynomial ==
  /\ <<>> \in Polynomials /\ <<>> \in Seq(Field) /\ Len(<<>>) = 0
  /\ \A k \in Int: Coefficient(<<>>, k) = 0
  /\ \A x \in Field: Evaluate(<<>>, x) = 0
<1>1. <<>> \in Seq(Field) /\ Len(<<>>) = 0
  OBVIOUS
<1>2. <<>> \in Polynomials
  BY <1>1 DEF Polynomials
<1>3. \A k \in Int: ~ (1 <= k /\ k <= 0)
  OBVIOUS
<1>4. \A k \in Int: Coefficient(<<>>, k) = 0
  BY <1>1, <1>3, CoefficientFacts
<1>5. ASSUME NEW x \in Field PROVE Evaluate(<<>>, x) = 0
  <2>1. Passed(<<>>, x, 1) = Evaluate(<<>>, x)
    BY <1>1, PassedFacts
  <2>2. 1 \in Nat \ {0} /\ 1 > Len(<<>>)
    BY <1>1
  <2> QED BY <1>1, <2>1, <2>2, PassedFacts
<1> QED BY <1>1, <1>2, <1>4, <1>5

(* A polynomial that is 0 in as many places as it has coefficients is 0:   *)
(* shares of two contents agree in fewer places than the threshold.        *)
THEOREM FewRoots ==
  ASSUME NEW p \in Polynomials, NEW S \in SUBSET Field, IsFiniteSet(S), Len(p) <= Cardinality(S),
         \A x \in S: Evaluate(p, x) = 0
  PROVE  p = <<>>
<1> DEFINE Vanishes(f, R) == \A x \in R: Evaluate(f, x) = 0
           T == {n \in Nat: \A f \in Polynomials, R \in SUBSET S:
                              Len(f) <= n /\ Len(f) <= Cardinality(R) /\ Vanishes(f, R) => f = <<>>}
<1>1. \A f \in Polynomials: f \in Seq(Field) /\ Len(f) \in Nat
  BY DEF Polynomials
<1>2. \A R \in SUBSET S: IsFiniteSet(R) /\ Cardinality(R) \in Nat
  BY FS_Subset, FS_CardinalityType
<1>3. \A f \in Polynomials: Len(f) <= 0 => f = <<>>
  <2> SUFFICES ASSUME NEW f \in Polynomials, Len(f) <= 0 PROVE f = <<>>
    OBVIOUS
  <2>1. Len(f) = 0 /\ f \in Seq(Field)
    BY <1>1
  <2> QED BY <2>1
<1>4. 0 \in T
  BY <1>3
<1>5. ASSUME NEW n \in Nat, n \in T PROVE n + 1 \in T
  <2> SUFFICES ASSUME NEW f \in Polynomials, NEW R \in SUBSET S,
                      Len(f) <= n + 1, Len(f) <= Cardinality(R), Vanishes(f, R), f # <<>>
               PROVE  FALSE
    OBVIOUS
  <2>1. Len(f) \in Nat \ {0} /\ f \in Seq(Field)
    <3>1. f \in Seq(Field) /\ Len(f) \in Nat
      BY <1>1
    <3>2. Len(f) # 0
      BY <1>3, <3>1
    <3> QED BY <3>1, <3>2
  <2>2. R # {}
    BY <1>2, <2>1, FS_EmptySet
  <2>3. PICK r \in R: TRUE
    BY <2>2
  <2> DEFINE q == Quotient(f, r)
             Q == R \ {r}
             m == MultiplyPolynomials(q, <<Negative(r), 1>>)
  <2>4. r \in Field /\ Evaluate(f, r) = 0 /\ Negative(r) \in Field
    BY <2>3, NegativeFacts
  <2>5. q \in Polynomials /\ q \in Seq(Field) /\ Len(q) <= Len(f) - 1 /\ Len(q) \in Nat
    <3>1. q \in Polynomials /\ q \in Seq(Field) /\ \A k \in Nat: Len(f) <= k + 1 => Len(q) <= k
      BY <2>1, <2>4, QuotientFacts
    <3>2. Len(f) - 1 \in Nat /\ Len(f) <= (Len(f) - 1) + 1
      BY <2>1
    <3> QED BY <1>1, <3>1, <3>2
  <2>6. Q \in SUBSET S /\ Cardinality(Q) = Cardinality(R) - 1
    BY <1>2, <2>3, FS_RemoveElement
  <2>7. AddPolynomials(f, <<Negative(0)>>) = m
    BY <2>4, <2>5, FieldTypes, OpensExactly
  <2>8. m = f
    <3> DEFINE e == AddPolynomials(f, <<Negative(0)>>)
               z == <<Negative(0)>>
    <3>1. Negative(0) = 0
      BY NegativeZero
    <3>2. z \in Seq(Field) /\ Len(z) = 1 /\ z[1] = 0
      BY <3>1, FieldTypes
    <3> HIDE DEF z
    <3>3. \A k \in Nat \ {0}: Coefficient(z, k) = 0
      BY <3>2 DEF Coefficient
    <3>4. e \in Polynomials /\ \A k \in Nat \ {0}: Coefficient(e, k) = Plus(Coefficient(f, k), Coefficient(z, k))
      BY <2>1, <3>2, AddFacts DEF z
    <3>5. \A k \in Nat \ {0}: Coefficient(e, k) = Coefficient(f, k)
      <4> SUFFICES ASSUME NEW k \in Nat \ {0} PROVE Coefficient(e, k) = Coefficient(f, k)
        OBVIOUS
      <4>1. Coefficient(f, k) \in Field
        BY <2>1, CoefficientTypes
      <4> QED BY <3>3, <3>4, <4>1, PlusZero
    <3> HIDE DEF e
    <3>6. e = f
      BY <3>4, <3>5, SamePolynomial
    <3> QED BY <2>7, <3>6 DEF e
  <2>9. ASSUME NEW x \in Q PROVE Evaluate(q, x) = 0
    <3>1. x \in Field /\ x # r
      OBVIOUS
    <3>2. Evaluate(f, x) = 0
      OBVIOUS
    <3>3. Evaluate(m, x) = Times(Plus(x, Negative(r)), Evaluate(q, x))
      BY <2>4, <2>5, <3>1, EvaluateTimes
    <3>4. Evaluate(q, x) \in Field
      BY <2>5, <3>1, PassedFacts
    <3>5. Plus(x, Negative(r)) \in Field /\ Plus(x, Negative(r)) # 0
      BY <2>4, <3>1, FieldTypes, DifferentElements
    <3>6. Times(Plus(x, Negative(r)), Evaluate(q, x)) = 0
      BY <2>8, <3>2, <3>3
    <3> QED BY <3>4, <3>5, <3>6, NoZeroDivisors
  <2> HIDE DEF q, Q, m
  <2>10. q = <<>>
    <3>1. Len(q) <= n /\ Len(q) <= Cardinality(Q)
      BY <1>2, <2>1, <2>5, <2>6
    <3>2. Vanishes(q, Q)
      BY <2>9
    <3> QED BY <1>5, <2>5, <2>6, <3>1, <3>2
  <2>11. \A k \in Nat \ {0}: Coefficient(f, k) = Coefficient(<<>>, k)
    <3> SUFFICES ASSUME NEW k \in Nat \ {0} PROVE Coefficient(f, k) = Coefficient(<<>>, k)
      OBVIOUS
    <3>1. Coefficient(m, k) = Plus(Coefficient(q, k - 1), Times(Negative(r), Coefficient(q, k)))
      BY <2>4, <2>5, TimesFacts DEF m
    <3>2. k \in Int /\ k - 1 \in Int
      OBVIOUS
    <3>3. Coefficient(q, k - 1) = 0 /\ Coefficient(q, k) = 0 /\ Coefficient(<<>>, k) = 0
      BY <2>10, <3>2, NoPolynomial
    <3>4. Times(Negative(r), 0) = 0 /\ Plus(0, 0) = 0
      BY <2>4, FieldTypes, TimesZero, PlusZero
    <3> QED BY <2>8, <3>1, <3>3, <3>4
  <2> QED BY <2>11, NoPolynomial, SamePolynomial
<1> HIDE DEF T
<1>6. Len(p) \in T
  BY <1>1, <1>4, <1>5, NumbersReached
<1>7. S \in SUBSET S /\ Len(p) <= Len(p)
  BY <1>1
<1> QED BY <1>6, <1>7 DEF T

(* Few values decide which polynomial it is.                               *)
THEOREM ValuesDecide ==
  ASSUME NEW f \in Polynomials, NEW g \in Polynomials, NEW S \in SUBSET Field, IsFiniteSet(S),
         Len(f) <= Cardinality(S), Len(g) <= Cardinality(S),
         \A x \in S: Evaluate(f, x) = Evaluate(g, x)
  PROVE  f = g
<1> DEFINE c == Negative(1)
           m == MultiplyPolynomials(<<c>>, g)
           d == AddPolynomials(f, m)
           n == Cardinality(S)
<1>1. f \in Seq(Field) /\ g \in Seq(Field) /\ Len(f) \in Nat /\ Len(g) \in Nat /\ n \in Nat
  BY FS_CardinalityType DEF Polynomials
<1>2. c \in Field /\ \A b \in Field: Times(c, b) \in Field /\ Plus(b, Times(c, b)) = 0
  <2>1. 1 \in Field /\ c \in Field
    BY FieldTypes, NegativeFacts
  <2>2. ASSUME NEW b \in Field PROVE Plus(b, Times(c, b)) = 0
    <3>1. Plus(Times(1, b), Times(c, b)) = 0
      BY <2>1, Opposites
    <3> QED BY <3>1, TimesOne
  <2> HIDE DEF c
  <2> QED BY <2>1, <2>2, FieldTypes
<1> HIDE DEF c, n
<1>3. m \in Seq(Field) /\ Len(m) <= Len(g) /\ \A k \in Nat \ {0}: Coefficient(m, k) = Times(c, Coefficient(g, k))
  BY <1>1, <1>2, ScaleFacts
<1>4. ASSUME NEW x \in Field PROVE Evaluate(m, x) = Times(c, Evaluate(g, x))
  BY <1>1, <1>2, EvaluateScale
<1> HIDE DEF m
<1>5. /\ d \in Polynomials
      /\ \A k \in Nat: Len(f) <= k /\ Len(m) <= k => Len(d) <= k
      /\ \A k \in Nat \ {0}: Coefficient(d, k) = Plus(Coefficient(f, k), Coefficient(m, k))
  BY <1>1, <1>3, AddFacts
<1>6. Len(d) <= n
  <2>1. Len(m) \in Nat
    BY <1>3
  <2>2. Len(f) <= n /\ Len(m) <= n
    BY <1>1, <1>3, <2>1 DEF n
  <2> QED BY <1>1, <1>5, <2>2
<1>7. ASSUME NEW x \in S PROVE Evaluate(d, x) = 0
  <2> DEFINE a == Evaluate(g, x)
  <2>1. a \in Field
    BY <1>1, PassedFacts
  <2>2. Evaluate(d, x) = Plus(Evaluate(f, x), Evaluate(m, x))
    BY <1>1, <1>3, EvaluateAdd
  <2>3. Evaluate(d, x) = Plus(a, Times(c, a))
    BY <1>4, <2>2
  <2> QED BY <1>2, <2>1, <2>3
<1> HIDE DEF d
<1>8. d = <<>>
  BY <1>5, <1>6, <1>7, FewRoots DEF n
<1>9. ASSUME NEW k \in Nat \ {0} PROVE Coefficient(f, k) = Coefficient(g, k)
  <2> DEFINE a == Coefficient(f, k)
             b == Coefficient(g, k)
  <2>1. a \in Field /\ b \in Field
    BY <1>1, CoefficientTypes
  <2>2. Coefficient(d, k) = 0
    BY <1>8, NoPolynomial
  <2>3. Plus(a, Times(c, b)) = 0
    BY <1>3, <1>5, <2>2
  <2> HIDE DEF a, b
  <2>4. Times(c, b) \in Field /\ Plus(b, Times(c, b)) = 0
    BY <1>2, <2>1
  <2>5. a = b
    BY <2>1, <2>3, <2>4, PlusCancels
  <2> QED BY <2>5 DEF a, b
<1> QED BY <1>9, SamePolynomial

-----------------------------------------------------------------------------
(* The recursion behind FoldSet: take any element, go on without.          *)
Steps(it, step, base, S) ==
  it = [s \in SUBSET S |-> IF s = {} THEN base ELSE step[<<Picked(s), it[s \ {Picked(s)}]>>]]

LEMMA PickedLeaves ==
  ASSUME NEW S, IsFiniteSet(S)
  PROVE  /\ \A s \in SUBSET S: IsFiniteSet(s) /\ Cardinality(s) \in Nat
         /\ \A s \in SUBSET S: s # {} => /\ Picked(s) \in s /\ s \ {Picked(s)} \in SUBSET S
                                         /\ Cardinality(s \ {Picked(s)}) = Cardinality(s) - 1
<1>1. \A s \in SUBSET S: IsFiniteSet(s) /\ Cardinality(s) \in Nat
  BY FS_Subset, FS_CardinalityType
<1> QED BY <1>1, PickedFact, FS_RemoveElement

LEMMA PickedReached ==
  ASSUME NEW S, IsFiniteSet(S), NEW F, {} \in F,
         \A s \in SUBSET S: s # {} /\ s \ {Picked(s)} \in F => s \in F
  PROVE  \A s \in SUBSET S: s \in F
<1> DEFINE T == {n \in Nat: \A s \in SUBSET S: Cardinality(s) <= n => s \in F}
<1>1. 0 \in T
  <2>1. \A s \in SUBSET S: Cardinality(s) <= 0 => s = {}
    BY PickedLeaves, FS_EmptySet
  <2> QED BY <2>1
<1>2. ASSUME NEW n \in Nat, n \in T PROVE n + 1 \in T
  <2> SUFFICES ASSUME NEW s \in SUBSET S, Cardinality(s) <= n + 1 PROVE s \in F
    OBVIOUS
  <2>1. CASE s # {}
    <3>1. s \ {Picked(s)} \in SUBSET S /\ Cardinality(s \ {Picked(s)}) <= n
      BY <2>1, PickedLeaves
    <3> QED BY <1>2, <2>1, <3>1
  <2> QED BY <2>1
<1> HIDE DEF T
<1>3. \A n \in Nat: n \in T
  BY <1>1, <1>2, NumbersReached
<1> SUFFICES ASSUME NEW s \in SUBSET S PROVE s \in F
  OBVIOUS
<1>4. Cardinality(s) \in T /\ Cardinality(s) <= Cardinality(s)
  BY <1>3, PickedLeaves
<1> QED BY <1>4 DEF T

LEMMA StepsExist ==
  ASSUME NEW step, NEW base, NEW S, IsFiniteSet(S)
  PROVE  \E it: Steps(it, step, base, S)
<1> DEFINE Next1(it, s) == IF s = {} THEN base ELSE step[<<Picked(s), it[s \ {Picked(s)}]>>]
           UpTo(it, n) == \A s \in SUBSET S: Cardinality(s) <= n => it[s] = Next1(it, s)
           T == {n \in Nat: \E it: UpTo(it, n)}
<1>1. 0 \in T
  <2>1. UpTo([s \in SUBSET S |-> base], 0)
    BY PickedLeaves, FS_EmptySet
  <2> QED BY <2>1
<1>2. ASSUME NEW n \in Nat, n \in T PROVE n + 1 \in T
  <2>1. PICK it: UpTo(it, n)
    BY <1>2
  <2> DEFINE longer == [s \in SUBSET S |-> Next1(it, s)]
  <2>2. \A s \in SUBSET S: Cardinality(s) <= n => longer[s] = it[s]
    BY <2>1
  <2>3. ASSUME NEW s \in SUBSET S, Cardinality(s) <= n + 1, s # {}
        PROVE  longer[s] = Next1(longer, s)
    <3>1. s \ {Picked(s)} \in SUBSET S /\ Cardinality(s \ {Picked(s)}) <= n
      BY <2>3, PickedLeaves
    <3>2. longer[s \ {Picked(s)}] = it[s \ {Picked(s)}]
      BY <2>2, <3>1
    <3> QED BY <2>3, <3>2
  <2>4. UpTo(longer, n + 1)
    BY <2>3
  <2> HIDE DEF UpTo, longer
  <2> QED BY <2>4
<1> HIDE DEF T
<1>3. Cardinality(S) \in T
  <2>1. Cardinality(S) \in Nat
    BY FS_CardinalityType
  <2> QED BY <1>1, <1>2, <2>1, NumbersReached
<1>4. PICK it: UpTo(it, Cardinality(S))
  BY <1>3 DEF T
<1> DEFINE whole == [s \in SUBSET S |-> it[s]]
<1>5. \A s \in SUBSET S: whole[s] = Next1(whole, s)
  <2> SUFFICES ASSUME NEW s \in SUBSET S PROVE it[s] = Next1(whole, s)
    OBVIOUS
  <2>1. it[s] = Next1(it, s)
    BY <1>4, FS_Subset
  <2>2. s # {} => s \ {Picked(s)} \in SUBSET S
    OBVIOUS
  <2> QED BY <2>1, <2>2
<1>6. whole = [s \in SUBSET S |-> Next1(whole, s)]
  BY <1>5
<1> QED BY <1>6 DEF Steps

LEMMA StepsStay ==
  ASSUME NEW step, NEW base, NEW S, IsFiniteSet(S), NEW it, Steps(it, step, base, S),
         NEW V, base \in V, \A x \in S, v \in V: step[<<x, v>>] \in V
  PROVE  \A s \in SUBSET S: it[s] \in V
<1> DEFINE F == {s \in SUBSET S: it[s] \in V}
<1>1. {} \in F
  BY DEF Steps
<1>2. ASSUME NEW s \in SUBSET S, s # {}, s \ {Picked(s)} \in F PROVE s \in F
  <2>1. it[s] = step[<<Picked(s), it[s \ {Picked(s)}]>>]
    BY <1>2 DEF Steps
  <2>2. Picked(s) \in S /\ it[s \ {Picked(s)}] \in V
    BY <1>2, PickedFact
  <2> QED BY <2>1, <2>2
<1> HIDE DEF F
<1>3. \A s \in SUBSET S: s \in F
  BY <1>1, <1>2, PickedReached
<1> QED BY <1>3 DEF F

(* A fold's own recursion, once its step keeps to a set of values V.       *)
BasisSteps(it, S) ==
  it = [s \in SUBSET S |->
          IF s = {} THEN <<1>>
          ELSE MultiplyPolynomials(it[s \ {Picked(s)}], <<Negative(Picked(s)), 1>>)]

DenominatorSteps(it, S, at) ==
  it = [s \in SUBSET S |->
          IF s = {} THEN 1 ELSE Times(it[s \ {Picked(s)}], Plus(at, Negative(Picked(s))))]

Term(points, at) ==
  MultiplyPolynomials(
    <<Times(points[at], FieldInverse(Denominator(DOMAIN points, at)))>>,
    Basis(DOMAIN points, at))

LagrangeSteps(it, S, points) ==
  it = [s \in SUBSET S |->
          IF s = {} THEN <<>>
          ELSE AddPolynomials(it[s \ {Picked(s)}], Term(points, Picked(s)))]

LEMMA OneIsPolynomial == <<1>> \in Polynomials /\ Len(<<1>>) = 1
<1>1. 1 \in Field
  BY OrderFacts
<1>2. <<1>> \in Seq(Field) /\ Len(<<1>>) = 1 /\ <<1>>[1] = 1
  BY <1>1
<1> QED BY <1>2 DEF Polynomials

LEMMA BasisIsSteps ==
  ASSUME NEW xs \in SUBSET Field, IsFiniteSet(xs), NEW at
  PROVE  \E it: BasisSteps(it, xs \ {at}) /\ Basis(xs, at) = it[xs \ {at}]
<1> DEFINE S == xs \ {at}
           step == [u \in S \X Polynomials |-> MultiplyPolynomials(u[2], <<Negative(u[1]), 1>>)]
<1>1. IsFiniteSet(S) /\ S \in SUBSET Field
  BY FS_Subset
<1>2. Basis(xs, at) = (CHOOSE it: BasisSteps(it, S))[S]
  BY DEF Basis, FoldSet, MapThenFoldSet, BasisSteps, Picked
<1> HIDE DEF S
<1>3. \A x \in S, v \in Polynomials: step[<<x, v>>] = MultiplyPolynomials(v, <<Negative(x), 1>>)
  OBVIOUS
<1> HIDE DEF step
<1>4. ASSUME NEW x \in S, NEW v \in Polynomials PROVE step[<<x, v>>] \in Polynomials
  <2>1. v \in Seq(Field) /\ Negative(x) \in Field
    BY <1>1, NegativeFacts DEF Polynomials
  <2> QED BY <1>3, <2>1, TimesFacts
<1>5. PICK it: Steps(it, step, <<1>>, S)
  BY <1>1, StepsExist
<1>6. \A s \in SUBSET S: it[s] \in Polynomials
  BY <1>1, <1>4, <1>5, OneIsPolynomial, StepsStay
<1>7. BasisSteps(it, S)
  <2>1. \A s \in SUBSET S: s # {} =>
          step[<<Picked(s), it[s \ {Picked(s)}]>>]
            = MultiplyPolynomials(it[s \ {Picked(s)}], <<Negative(Picked(s)), 1>>)
    BY <1>1, <1>3, <1>6, PickedLeaves
  <2> QED BY <1>5, <2>1 DEF Steps, BasisSteps
<1> QED BY <1>2, <1>7 DEF S

LEMMA DenominatorIsSteps ==
  ASSUME NEW xs \in SUBSET Field, IsFiniteSet(xs), NEW at \in Field
  PROVE  \E it: DenominatorSteps(it, xs \ {at}, at) /\ Denominator(xs, at) = it[xs \ {at}]
<1> DEFINE S == xs \ {at}
           step == [u \in S \X Field |-> Times(u[2], Plus(at, Negative(u[1])))]
<1>1. IsFiniteSet(S) /\ S \in SUBSET Field
  BY FS_Subset
<1>2. Denominator(xs, at) = (CHOOSE it: DenominatorSteps(it, S, at))[S]
  BY DEF Denominator, FoldSet, MapThenFoldSet, DenominatorSteps, Picked
<1> HIDE DEF S
<1>3. \A x \in S, v \in Field: step[<<x, v>>] = Times(v, Plus(at, Negative(x)))
  OBVIOUS
<1> HIDE DEF step
<1>4. ASSUME NEW x \in S, NEW v \in Field PROVE step[<<x, v>>] \in Field
  <2>1. Negative(x) \in Field
    BY <1>1, NegativeFacts
  <2>2. Times(v, Plus(at, Negative(x))) \in Field
    BY <2>1, FieldTypes
  <2> QED BY <1>3, <2>2
<1>5. PICK it: Steps(it, step, 1, S)
  BY <1>1, StepsExist
<1>6. \A s \in SUBSET S: it[s] \in Field
  <2>1. 1 \in Field
    BY FieldTypes
  <2> QED BY <1>1, <1>4, <1>5, <2>1, StepsStay
<1>7. DenominatorSteps(it, S, at)
  <2>1. \A s \in SUBSET S: s # {} =>
          step[<<Picked(s), it[s \ {Picked(s)}]>>] = Times(it[s \ {Picked(s)}], Plus(at, Negative(Picked(s))))
    BY <1>1, <1>3, <1>6, PickedLeaves
  <2> QED BY <1>5, <2>1 DEF Steps, DenominatorSteps
<1> QED BY <1>2, <1>7 DEF S

(* 0 at every other point, and not 0 at its own.                           *)
LEMMA BasisFacts ==
  ASSUME NEW xs \in SUBSET Field, IsFiniteSet(xs), NEW at \in xs
  PROVE  /\ Basis(xs, at) \in Polynomials /\ Len(Basis(xs, at)) <= Cardinality(xs)
         /\ \A z \in xs: z # at => Evaluate(Basis(xs, at), z) = 0
         /\ Denominator(xs, at) = Evaluate(Basis(xs, at), at)
         /\ Denominator(xs, at) \in Field /\ Denominator(xs, at) # 0
<1> DEFINE S == xs \ {at}
<1>1. IsFiniteSet(S) /\ S \in SUBSET Field /\ at \in Field /\ at \notin S
  BY FS_Subset
<1>2. Cardinality(S) = Cardinality(xs) - 1 /\ Cardinality(xs) \in Nat
  BY FS_RemoveElement, FS_CardinalityType
<1>3. PICK b: BasisSteps(b, S) /\ Basis(xs, at) = b[S]
  BY BasisIsSteps
<1>4. PICK d: DenominatorSteps(d, S, at) /\ Denominator(xs, at) = d[S]
  BY <1>1, DenominatorIsSteps
<1> HIDE DEF S
<1> DEFINE Good(s) == /\ b[s] \in Polynomials /\ Len(b[s]) <= Cardinality(s) + 1
                      /\ \A z \in s: Evaluate(b[s], z) = 0
                      /\ d[s] = Evaluate(b[s], at) /\ d[s] # 0
           F == {s \in SUBSET S: Good(s)}
<1>5. {} \in F
  <2>1. b[{}] = <<1>> /\ d[{}] = 1
    BY <1>3, <1>4 DEF BasisSteps, DenominatorSteps
  <2>2. <<1>> \in Polynomials /\ Len(<<1>>) = 1 /\ Cardinality({}) = 0
    BY OneIsPolynomial, FS_EmptySet
  <2>3. Evaluate(<<1>>, at) = 1
    <3> DEFINE p == <<1>>
    <3>1. p \in Seq(Field) /\ Len(p) = 1 /\ p[1] = 1
      BY FieldTypes
    <3> HIDE DEF p
    <3>2. Passed(p, at, 1) = Plus(Coefficient(p, 1), Times(at, Passed(p, at, 2))) /\ Passed(p, at, 2) = 0
      <4>1. 1 \in Nat \ {0} /\ 2 \in Nat \ {0} /\ 1 + 1 = 2 /\ 2 > Len(p)
        BY <3>1
      <4>2. \A k \in Nat \ {0}: Passed(p, at, k) = Plus(Coefficient(p, k), Times(at, Passed(p, at, k + 1)))
        BY <1>1, <3>1, PassedFacts
      <4>3. \A k \in Nat \ {0}: k > Len(p) => Passed(p, at, k) = 0
        BY <1>1, <3>1, PassedFacts
      <4> QED BY <4>1, <4>2, <4>3
    <3>3. Coefficient(p, 1) = 1
      BY <3>1 DEF Coefficient
    <3>4. Times(at, 0) = 0 /\ Plus(1, 0) = 1
      BY <1>1, FieldTypes, TimesZero, PlusZero
    <3>5. Passed(p, at, 1) = Evaluate(p, at)
      BY <1>1, <3>1, PassedFacts
    <3> QED BY <3>2, <3>3, <3>4, <3>5 DEF p
  <2>4. Len(b[{}]) <= Cardinality({}) + 1
    BY <2>1, <2>2
  <2>5. b[{}] \in Polynomials /\ d[{}] = Evaluate(b[{}], at) /\ d[{}] # 0
    BY <2>1, <2>2, <2>3
  <2>6. Good({})
    BY <2>4, <2>5
  <2> HIDE DEF Good
  <2> QED BY <2>6
<1>6. ASSUME NEW s \in SUBSET S, s # {}, s \ {Picked(s)} \in F PROVE s \in F
  <2> DEFINE x == Picked(s)
             r == s \ {x}
             p == b[r]
             q == MultiplyPolynomials(p, <<Negative(x), 1>>)
  <2>1. x \in s /\ x \in S /\ r \in SUBSET S /\ Cardinality(r) = Cardinality(s) - 1 /\ Cardinality(s) \in Nat
    BY <1>1, <1>6, PickedLeaves
  <2>2. x \in Field /\ at # x
    BY <1>1, <2>1
  <2>3. p \in Polynomials /\ p \in Seq(Field) /\ Len(p) <= Cardinality(r) + 1 /\ Len(p) \in Nat
    BY <1>6 DEF Polynomials
  <2>4. \A z \in r: Evaluate(p, z) = 0
    BY <1>6
  <2>5. d[r] = Evaluate(p, at) /\ d[r] # 0
    BY <1>6
  <2> DEFINE n == Negative(x)
  <2>6. b[s] = q
    BY <1>3, <1>6 DEF BasisSteps
  <2>7. d[s] = Times(d[r], Plus(at, n))
    BY <1>4, <1>6 DEF DenominatorSteps
  <2>18. n \in Field /\ Plus(x, n) = 0 /\ Plus(at, n) # 0
    BY <1>1, <2>2, NegativeFacts, DifferentElements
  <2> HIDE DEF x, r, p, n
  <2>8. q \in Polynomials /\ Len(q) <= Len(p) + 1 /\ Len(q) \in Nat
    <3>1. Len(q) \in Nat /\ q \in Polynomials /\ Len(q) <= Len(p) + 1
      BY <2>3, <2>18, TimesFacts DEF n
    <3> QED BY <3>1
  <2>9. Len(q) <= Cardinality(s) + 1
    BY <2>1, <2>3, <2>8
  <2>10. \A z \in Field: Evaluate(q, z) = Times(Plus(z, n), Evaluate(p, z)) /\ Evaluate(p, z) \in Field
    BY <2>3, <2>18, EvaluateTimes, PassedFacts DEF n
  <2> HIDE DEF q
  <2>11. ASSUME NEW z \in s PROVE Evaluate(q, z) = 0
    <3>1. z \in Field
      BY <1>1
    <3>2. CASE z = x
      <4>1. Times(0, Evaluate(p, z)) = 0
        BY <2>10, <3>1, TimesZero
      <4> QED BY <2>10, <2>18, <3>1, <3>2, <4>1
    <3>3. CASE z # x
      <4>1. Evaluate(p, z) = 0
        BY <2>4, <3>3 DEF r
      <4>2. Plus(z, n) \in Field
        BY <2>18, <3>1, FieldTypes
      <4>3. Times(Plus(z, n), 0) = 0
        BY <4>2, TimesZero
      <4> QED BY <2>10, <3>1, <4>1, <4>3
    <3> QED BY <3>2, <3>3
  <2> DEFINE v == Evaluate(p, at)
             y == Plus(at, n)
  <2>12. v \in Field /\ v # 0 /\ y \in Field /\ y # 0
    BY <1>1, <2>5, <2>10, <2>18, FieldTypes
  <2>13. d[s] = Times(v, y) /\ Evaluate(q, at) = Times(y, v)
    BY <1>1, <2>5, <2>7, <2>10
  <2> HIDE DEF v, y
  <2>14. Times(v, y) = Times(y, v)
    BY <2>12, TimesLaws
  <2>15. Times(y, v) # 0
    BY <2>12, NoZeroDivisors
  <2>17. Good(s)
    BY <2>6, <2>8, <2>9, <2>11, <2>13, <2>14, <2>15
  <2> QED BY <2>17
<1> HIDE DEF F
<1>7. S \in F
  BY <1>1, <1>5, <1>6, PickedReached
<1>8. Good(S)
  BY <1>7 DEF F
<1>9. Evaluate(b[S], at) \in Field
  BY <1>1, <1>8, PassedFacts DEF Polynomials
<1>10. Len(b[S]) <= Cardinality(xs)
  <2>1. Cardinality(S) + 1 = Cardinality(xs)
    BY <1>2
  <2> QED BY <1>8, <2>1
<1> QED BY <1>3, <1>4, <1>8, <1>9, <1>10 DEF S

(* The term of a point: its value there, 0 at every other point.           *)
LEMMA TermFacts ==
  ASSUME NEW xs \in SUBSET Field, IsFiniteSet(xs), NEW points \in [xs -> Field], NEW at \in xs
  PROVE  /\ Term(points, at) \in Polynomials /\ Len(Term(points, at)) <= Cardinality(xs)
         /\ \A z \in xs: Evaluate(Term(points, at), z) = IF z = at THEN points[at] ELSE 0
<1> DEFINE b == Basis(xs, at)
           d == Denominator(xs, at)
           i == FieldInverse(d)
           y == points[at]
           c == Times(y, i)
           t == MultiplyPolynomials(<<c>>, b)
<1>1. DOMAIN points = xs /\ y \in Field /\ at \in Field
  OBVIOUS
<1>2. /\ b \in Polynomials /\ Len(b) <= Cardinality(xs) /\ d \in Field /\ d # 0
      /\ d = Evaluate(b, at) /\ \A z \in xs: z # at => Evaluate(b, z) = 0
  BY BasisFacts
<1>3. Term(points, at) = t
  BY <1>1 DEF Term
<1> HIDE DEF b, d, y
<1>4. b \in Seq(Field) /\ Len(b) \in Nat /\ Cardinality(xs) \in Nat
  BY <1>2, FS_CardinalityType DEF Polynomials
<1>5. i \in Field /\ Times(d, i) = 1
  BY <1>2, InverseFacts
<1> HIDE DEF i
<1>8. c \in Field
  BY <1>1, <1>5, FieldTypes DEF y
<1>9. Times(c, d) = y
  <2>1. Times(Times(y, i), d) = Times(y, Times(i, d))
    BY <1>1, <1>2, <1>5, TimesLaws DEF y
  <2>2. Times(i, d) = Times(d, i)
    BY <1>2, <1>5, TimesLaws
  <2>3. Times(y, 1) = y
    BY <1>1, TimesOne DEF y
  <2> QED BY <1>5, <2>1, <2>2, <2>3
<1> HIDE DEF c
<1>10. t \in Polynomials /\ Len(t) <= Len(b)
  BY <1>4, <1>8, ScaleFacts
<1>11. \A z \in Field: Evaluate(t, z) = Times(c, Evaluate(b, z))
  BY <1>4, <1>8, EvaluateScale
<1>12. Len(t) <= Cardinality(xs)
  <2>1. Len(t) \in Nat
    BY <1>10 DEF Polynomials
  <2> QED BY <1>2, <1>4, <1>10, <2>1
<1>13. ASSUME NEW z \in xs PROVE Evaluate(t, z) = IF z = at THEN y ELSE 0
  <2>1. CASE z = at
    BY <1>1, <1>2, <1>9, <1>11, <2>1
  <2>2. CASE z # at
    <3>1. Evaluate(b, z) = 0 /\ Times(c, 0) = 0
      BY <1>2, <1>8, <2>2, TimesZero
    <3> QED BY <1>11, <2>2, <3>1
  <2> QED BY <2>1, <2>2
<1> QED BY <1>3, <1>10, <1>12, <1>13 DEF y

LEMMA LagrangeIsSteps ==
  ASSUME NEW xs \in SUBSET Field, IsFiniteSet(xs), NEW points \in [xs -> Field]
  PROVE  \E it: LagrangeSteps(it, xs, points) /\ LagrangeInterpolate(points) = it[xs]
<1> DEFINE step == [u \in xs \X Polynomials |-> AddPolynomials(u[2], Term(points, u[1]))]
<1>1. DOMAIN points = xs
  OBVIOUS
<1>2. LagrangeInterpolate(points) = (CHOOSE it: LagrangeSteps(it, DOMAIN points, points))[DOMAIN points]
  BY DEF LagrangeInterpolate, FoldSet, MapThenFoldSet, LagrangeSteps, Picked, Term
<1>3. \A x \in xs, v \in Polynomials: step[<<x, v>>] = AddPolynomials(v, Term(points, x))
  OBVIOUS
<1> HIDE DEF step
<1>4. ASSUME NEW x \in xs, NEW v \in Polynomials PROVE step[<<x, v>>] \in Polynomials
  <2>1. v \in Seq(Field)
    BY DEF Polynomials
  <2>2. Term(points, x) \in Seq(Field)
    BY TermFacts DEF Polynomials
  <2> QED BY <1>3, <2>1, <2>2, AddFacts
<1>5. PICK it: Steps(it, step, <<>>, xs)
  BY StepsExist
<1>6. \A s \in SUBSET xs: it[s] \in Polynomials
  BY <1>4, <1>5, NoPolynomial, StepsStay
<1>7. LagrangeSteps(it, xs, points)
  <2>1. \A s \in SUBSET xs: s # {} =>
          step[<<Picked(s), it[s \ {Picked(s)}]>>] = AddPolynomials(it[s \ {Picked(s)}], Term(points, Picked(s)))
    BY <1>3, <1>6, PickedLeaves
  <2> QED BY <1>5, <2>1 DEF Steps, LagrangeSteps
<1> QED BY <1>1, <1>2, <1>7

(* Interpolation meets every point with at most as many coefficients.      *)
LEMMA LagrangeFacts ==
  ASSUME NEW xs \in SUBSET Field, IsFiniteSet(xs), NEW points \in [xs -> Field]
  PROVE  /\ LagrangeInterpolate(points) \in Polynomials
         /\ Len(LagrangeInterpolate(points)) <= Cardinality(xs)
         /\ \A z \in xs: Evaluate(LagrangeInterpolate(points), z) = points[z]
<1> DEFINE n == Cardinality(xs)
<1>1. n \in Nat
  BY FS_CardinalityType
<1> HIDE DEF n
<1>2. PICK it: LagrangeSteps(it, xs, points) /\ LagrangeInterpolate(points) = it[xs]
  BY LagrangeIsSteps
<1> DEFINE Good(s) == /\ it[s] \in Polynomials /\ Len(it[s]) <= n
                      /\ \A z \in xs: Evaluate(it[s], z) = IF z \in s THEN points[z] ELSE 0
           F == {s \in SUBSET xs: Good(s)}
<1>3. {} \in F
  <2>1. it[{}] = <<>>
    BY <1>2 DEF LagrangeSteps
  <2>2. it[{}] \in Polynomials /\ Len(it[{}]) <= n
    BY <1>1, <2>1, NoPolynomial
  <2>3. \A z \in xs: Evaluate(it[{}], z) = 0
    BY <2>1, NoPolynomial
  <2>4. Good({})
    BY <2>2, <2>3
  <2> HIDE DEF Good
  <2> QED BY <2>4
<1>4. ASSUME NEW s \in SUBSET xs, s # {}, s \ {Picked(s)} \in F PROVE s \in F
  <2> DEFINE x == Picked(s)
             r == s \ {x}
             p == it[r]
             t == Term(points, x)
             q == AddPolynomials(p, t)
  <2>1. x \in s /\ x \in xs
    BY <1>4, PickedFact
  <2>2. it[s] = q
    BY <1>2, <1>4 DEF LagrangeSteps
  <2>3. p \in Polynomials /\ Len(p) <= n /\ \A z \in xs: Evaluate(p, z) = IF z \in r THEN points[z] ELSE 0
    BY <1>4
  <2>4. p \in Seq(Field)
    BY <2>3 DEF Polynomials
  <2> HIDE DEF x, p
  <2>5. /\ t \in Polynomials /\ t \in Seq(Field) /\ Len(t) <= n
        /\ \A z \in xs: Evaluate(t, z) = IF z = x THEN points[x] ELSE 0
    BY <2>1, TermFacts DEF n, Polynomials
  <2> HIDE DEF t
  <2>6. q \in Polynomials /\ Len(q) <= n
    BY <1>1, <2>3, <2>4, <2>5, AddFacts
  <2>7. ASSUME NEW z \in xs PROVE Evaluate(q, z) = IF z \in s THEN points[z] ELSE 0
    <3>1. Evaluate(q, z) = Plus(Evaluate(p, z), Evaluate(t, z))
      BY <2>4, <2>5, EvaluateAdd
    <3> DEFINE y == points[z]
    <3>2. y \in Field
      OBVIOUS
    <3>3. Plus(y, 0) = y /\ Plus(0, y) = y /\ Plus(0, 0) = 0
      BY <3>2, FieldTypes, PlusZero
    <3>4. CASE z = x
      <4>1. Evaluate(p, z) = 0 /\ Evaluate(t, z) = y
        BY <2>3, <2>5, <3>4
      <4> QED BY <2>1, <3>1, <3>3, <3>4, <4>1
    <3>5. CASE z # x /\ z \in s
      <4>1. Evaluate(p, z) = y /\ Evaluate(t, z) = 0
        BY <2>3, <2>5, <3>5
      <4> QED BY <3>1, <3>3, <3>5, <4>1
    <3>6. CASE z # x /\ z \notin s
      <4>1. Evaluate(p, z) = 0 /\ Evaluate(t, z) = 0
        BY <2>3, <2>5, <3>6
      <4> QED BY <3>1, <3>3, <3>6, <4>1
    <3> QED BY <3>4, <3>5, <3>6
  <2>8. Good(s)
    BY <2>2, <2>6, <2>7
  <2> HIDE DEF Good
  <2> QED BY <2>8
<1> HIDE DEF F
<1>5. xs \in F
  BY <1>3, <1>4, PickedReached
<1>6. Good(xs)
  BY <1>5 DEF F
<1> QED BY <1>2, <1>6 DEF n

(* Any quorum of values of a polynomial gives the polynomial back: that is *)
(* what recovery and regeneration from shares rest on.                     *)
THEOREM InterpolationIsExact ==
  ASSUME NEW f \in Polynomials, NEW S \in SUBSET Field, IsFiniteSet(S), Len(f) <= Cardinality(S)
  PROVE  LagrangeInterpolate([x \in S |-> Evaluate(f, x)]) = f
<1> DEFINE points == [x \in S |-> Evaluate(f, x)]
           g == LagrangeInterpolate(points)
<1>1. points \in [S -> Field] /\ \A x \in S: points[x] = Evaluate(f, x)
  BY PassedFacts DEF Polynomials
<1> HIDE DEF points
<1>2. g \in Polynomials /\ Len(g) <= Cardinality(S) /\ \A x \in S: Evaluate(g, x) = points[x]
  BY <1>1, LagrangeFacts
<1> HIDE DEF g
<1>3. g = f
  BY <1>1, <1>2, ValuesDecide
<1> QED BY <1>3 DEF g, points

-----------------------------------------------------------------------------
(* The powers of tau, in their order: what load_srs_from_ceremony_text     *)
(* takes the first lines of the setup for.                                 *)
PowersOfTau == \A i \in 1 .. NumG1: SetupFile[i] = [j \in 1 .. i |-> IF j = i THEN 1 ELSE 0]

LEMMA CommitmentFacts ==
  ASSUME PowersOfTau, NEW f \in Polynomials, Len(f) <= NumG1
  PROVE  Commitment(f) = f
<1> DEFINE P == PowersOfG1
           m == Max({0} \cup {Len(P[i]) : i \in DOMAIN f})
           D(k) == [i \in DOMAIN f |-> Times(f[i], Coefficient(P[i], k))]
           e == [k \in 1 .. m |-> FieldSum(D(k))]
           S == 1 .. Len(f)
<1>1. f \in Seq(Field) /\ Len(f) \in Nat /\ DOMAIN f = S /\ IsFiniteSet(S)
  <2>1. f \in Seq(Field)
    BY DEF Polynomials
  <2> QED BY <2>1, FS_Interval
<1>2. NumG1 \in Nat /\ NumG1 <= Len(SetupFile) /\ SetupFile \in Seq(Seq(0 .. Order - 1)) /\ Len(SetupFile) \in Nat
  <2>1. SetupFile \in Seq(Seq(0 .. Order - 1)) /\ NumG1 \in Needed .. Len(SetupFile) /\ Needed \in Nat
    BY CodesAssumption
  <2>2. Len(SetupFile) \in Nat
    BY <2>1
  <2> QED BY <2>1, <2>2
<1>3. ASSUME NEW i \in S PROVE P[i] = [j \in 1 .. i |-> IF j = i THEN 1 ELSE 0]
  <2>1. i \in 1 .. NumG1
    BY <1>1, <1>2
  <2>2. P[i] = SetupFile[i]
    <3> DEFINE T == Seq(0 .. Order - 1)
               s == SetupFile
               n == NumG1
    <3>1. s \in Seq(T) /\ Len(s) \in Nat /\ n \in 0 .. Len(s) /\ n \in Nat /\ i \in 1 .. n
      BY <1>2, <2>1
    <3>2. P = SubSeq(s, 1, n)
      BY DEF PowersOfG1
    <3> HIDE DEF T, s, n
    <3>3. \A j \in 1 .. n: s[j] \in T
      BY <3>1
    <3>4. SubSeq(s, 1, n)[i] = s[i]
      BY <3>1, <3>3
    <3> QED BY <3>2, <3>4 DEF s
  <2> QED BY <2>1, <2>2 DEF PowersOfTau
<1> HIDE DEF P, S
<1>4. \A i \in S: i \in Nat \ {0} /\ i <= Len(f) /\ Len(P[i]) = i
  <2> SUFFICES ASSUME NEW i \in S PROVE i \in Nat \ {0} /\ i <= Len(f) /\ Len(P[i]) = i
    OBVIOUS
  <2>1. i \in Nat \ {0} /\ i <= Len(f)
    BY <1>1 DEF S
  <2> DEFINE Unit(j) == IF j = i THEN 1 ELSE 0
  <2>2. Len([j \in 1 .. i |-> Unit(j)]) = i
    <3> HIDE DEF Unit
    <3> QED BY <2>1
  <2> QED BY <1>3, <2>1, <2>2
<1>5. \A i \in S: \A k \in Nat \ {0}: Coefficient(P[i], k) = IF k = i THEN 1 ELSE 0
  <2> SUFFICES ASSUME NEW i \in S, NEW k \in Nat \ {0}
               PROVE  Coefficient(P[i], k) = IF k = i THEN 1 ELSE 0
    OBVIOUS
  <2>1. DOMAIN P[i] = 1 .. i /\ i \in 1 .. i
    BY <1>3, <1>4
  <2>2. k \in 1 .. i => P[i][k] = IF k = i THEN 1 ELSE 0
    BY <1>3
  <2> QED BY <2>1, <2>2 DEF Coefficient
<1>6. m \in Nat /\ \A i \in S: i <= m
  <2> DEFINE M == {0} \cup {Len(P[i]) : i \in DOMAIN f}
  <2>1. M \in SUBSET (0 .. Len(f)) /\ M # {}
    BY <1>1, <1>4
  <2>2. Max(M) \in M /\ \A y \in M: y <= Max(M)
    BY <1>1, <2>1, MaxFacts
  <2>3. \A i \in S: i \in M
    BY <1>1, <1>4
  <2> HIDE DEF M
  <2>4. Max(M) \in 0 .. Len(f)
    BY <2>1, <2>2
  <2>5. Max(M) \in Nat /\ \A i \in S: i <= Max(M)
    BY <1>1, <2>2, <2>3, <2>4
  <2> QED BY <2>5 DEF M
<1> HIDE DEF m
<1>7. ASSUME NEW k \in Nat \ {0} PROVE FieldSum(D(k)) = Coefficient(f, k)
  <2> DEFINE g == D(k)
  <2>1. \A i \in S: f[i] \in Field
    BY <1>1, CoefficientTypes DEF S
  <2>2. \A i \in S: g[i] = IF i = k THEN f[i] ELSE 0
    <3> SUFFICES ASSUME NEW i \in S PROVE g[i] = IF i = k THEN f[i] ELSE 0
      OBVIOUS
    <3>1. Times(f[i], 1) = f[i] /\ Times(f[i], 0) = 0
      BY <2>1, TimesOne, TimesZero
    <3> QED BY <1>1, <1>5, <3>1
  <2>3. g = [i \in 1 .. Len(f) |-> g[i]] /\ \A i \in 1 .. Len(f): g[i] \in Field
    <3>1. DOMAIN f = 1 .. Len(f)
      BY <1>1
    <3> QED BY <2>1, <2>2, <3>1, FieldTypes DEF S
  <2> HIDE DEF g
  <2>4. g \in Seq(Field) /\ Len(g) = Len(f) /\ DOMAIN g = S
    BY <1>1, <2>3, ValuesMakeSequence DEF S
  <2>5. \A i \in 1 .. Len(g): i # k /\ i # k + 1 => g[i] = 0
    BY <2>2, <2>4 DEF S
  <2>6. k \in Nat /\ k # k + 1 /\ k \in Int /\ k + 1 \in Int
    OBVIOUS
  <2>7. FieldSum(g) = Plus(Coefficient(g, k), Coefficient(g, k + 1))
    BY <2>4, <2>5, <2>6, SumOfTwo
  <2>8. Coefficient(g, k) = Coefficient(f, k) /\ Coefficient(g, k + 1) = 0
    BY <1>1, <2>2, <2>4, <2>6 DEF Coefficient
  <2>9. Coefficient(f, k) \in Field
    BY <1>1, CoefficientTypes
  <2> QED BY <2>7, <2>8, <2>9, PlusZero DEF g
<1>8. e \in Seq(Field) /\ Len(e) = m /\ \A k \in 1 .. m: e[k] = Coefficient(f, k)
  <2>1. \A k \in 1 .. m: k \in Nat \ {0}
    BY <1>6
  <2>2. \A k \in 1 .. m: FieldSum(D(k)) = Coefficient(f, k)
    BY <1>7, <2>1
  <2>3. \A k \in 1 .. m: Coefficient(f, k) \in Field
    BY <1>1, <2>1, CoefficientTypes
  <2> HIDE DEF D
  <2> QED BY <1>6, <2>2, <2>3
<1>9. Commitment(f) = Trimmed(e)
  BY DEF Commitment, P, m
<1> HIDE DEF e
<1>10. Trimmed(e) \in Polynomials
  BY <1>8, TrimmedFacts
<1>11. ASSUME NEW k \in Nat \ {0} PROVE Coefficient(Trimmed(e), k) = Coefficient(f, k)
  <2>1. Coefficient(Trimmed(e), k) = Coefficient(e, k)
    BY <1>8, TrimmedFacts
  <2>2. CASE k \in 1 .. m
    BY <1>8, <2>1, <2>2, CoefficientFacts
  <2>3. CASE k \notin 1 .. m
    <3>1. k \in Int /\ k > m /\ k \notin S
      BY <1>6, <2>3
    <3>2. Coefficient(f, k) = 0
      BY <1>1, <3>1 DEF Coefficient
    <3>3. Coefficient(e, k) = 0
      BY <1>8, <3>1, CoefficientTypes
    <3> QED BY <2>1, <3>2, <3>3
  <2> QED BY <2>2, <2>3
<1> QED BY <1>9, <1>10, <1>11, SamePolynomial

-----------------------------------------------------------------------------
(* Indices, scalars and shares.                                            *)
LEMMA IndexFacts ==
  /\ AllIndices \in SUBSET Field /\ IsFiniteSet(AllIndices) /\ 1 .. Needed \in SUBSET Field
  /\ Needed \in Nat /\ Needed >= 2 /\ NumG1 \in Nat /\ Needed <= NumG1
<1>1. Needed \in Nat /\ Dealt \in Nat /\ Needed >= 2 /\ Needed <= Dealt /\ Dealt < Order /\ Order \in Nat
  BY CodesAssumption
<1>2. NumG1 \in Nat /\ Needed <= NumG1
  <2>1. NumG1 \in Needed .. Len(SetupFile)
    BY CodesAssumption
  <2> QED BY <1>1, <2>1
<1>3. AllIndices \in SUBSET Field
  <2>1. Spares \subseteq Dealt + 1 .. Order - 1
    BY CodesAssumption
  <2>2. \A i \in Dealt + 1 .. Order - 1: i \in 0 .. Order - 1
    BY <1>1
  <2>3. \A i \in 1 .. Dealt: i \in 0 .. Order - 1
    BY <1>1
  <2> QED BY <2>1, <2>2, <2>3 DEF AllIndices, Indices, Field
<1>4. IsFiniteSet(Field)
  <2>1. 0 \in Int /\ Order - 1 \in Int
    BY <1>1
  <2> QED BY <2>1, FS_Interval DEF Field
<1>5. IsFiniteSet(AllIndices)
  BY <1>3, <1>4, FS_Subset
<1>6. 1 .. Needed \in SUBSET Field
  BY <1>1 DEF Field
<1> QED BY <1>1, <1>2, <1>3, <1>5, <1>6

LEMMA QuorumFacts ==
  ASSUME NEW S \in Quorums
  PROVE  /\ S \in SUBSET Present /\ S \in SUBSET AllIndices /\ S \in SUBSET Field
         /\ IsFiniteSet(S) /\ Cardinality(S) = Needed /\ S # {}
<1>1. S \in SUBSET Present /\ Cardinality(S) = Needed
  BY DEF Quorums
<1>2. S \in SUBSET AllIndices
  BY <1>1 DEF Present
<1>3. S # {}
  BY <1>1, IndexFacts, FS_EmptySet
<1> QED BY <1>1, <1>2, <1>3, IndexFacts, FS_Subset

LEMMA ByteFacts ==
  ASSUME NEW bytes \in Payloads
  PROVE  /\ bytes \in Seq(Field) /\ bytes # <<>> /\ Len(bytes) \in Nat \ {0}
         /\ \A k \in Int: Coefficient(bytes, k) \in Field
<1>1. bytes \in Seq(0 .. ByteBase - 1) /\ bytes # <<>> /\ ByteBase \in Nat /\ ByteBase <= Order /\ Order \in Nat
  BY CodesAssumption
<1>2. 0 .. ByteBase - 1 \subseteq Field
  BY <1>1 DEF Field
<1>3. bytes \in Seq(Field)
  BY <1>1, <1>2
<1>4. Len(bytes) \in Nat /\ Len(bytes) # 0
  BY <1>1
<1> QED BY <1>1, <1>3, <1>4, CoefficientFacts

(* The digits of a number, put together from the last one on.              *)
NumberStep(h, bytes) ==
  [j \in 1 .. Len(bytes) + 1 |-> IF j = Len(bytes) + 1 THEN 0 ELSE bytes[j] + ByteBase * h[j + 1]]

LEMMA NumberExists ==
  ASSUME NEW bytes \in Seq(Field)
  PROVE  \E h: h = NumberStep(h, bytes)
<1> DEFINE m == Len(bytes)
           From(n) == m + 1 - n .. m + 1
           Right(h, i) == h[i] = IF i = m + 1 THEN 0 ELSE bytes[i] + ByteBase * h[i + 1]
           T == {n \in Nat: n <= m => \E h: \A i \in From(n): Right(h, i)}
<1>1. m \in Nat
  OBVIOUS
<1> HIDE DEF m
<1>2. 0 \in T
  <2> DEFINE h == [i \in {m + 1} |-> 0]
  <2>1. \A i \in From(0): i = m + 1
    BY <1>1
  <2>2. \A i \in From(0): Right(h, i)
    BY <2>1
  <2> QED BY <2>2
<1>3. ASSUME NEW n \in Nat, n \in T PROVE n + 1 \in T
  <2> SUFFICES ASSUME n + 1 <= m PROVE \E h: \A i \in From(n + 1): Right(h, i)
    OBVIOUS
  <2>1. PICK g: \A i \in From(n): Right(g, i)
    BY <1>1, <1>3
  <2> DEFINE h == [i \in From(n + 1) |-> IF i = m - n THEN bytes[i] + ByteBase * g[i + 1] ELSE g[i]]
  <2>2. \A i \in From(n): /\ i \in From(n + 1) /\ i # m - n /\ i \in Int
                          /\ i # m + 1 => i + 1 \in From(n)
    BY <1>1
  <2>3. \A i \in From(n): h[i] = g[i]
    BY <2>2
  <2>4. m - n \in From(n + 1) /\ m - n # m + 1 /\ (m - n) + 1 \in From(n)
    BY <1>1
  <2>5. h[m - n] = bytes[m - n] + ByteBase * g[(m - n) + 1]
    BY <2>4
  <2> HIDE DEF h
  <2>6. ASSUME NEW i \in From(n) PROVE Right(h, i)
    BY <2>1, <2>2, <2>3
  <2>7. Right(h, m - n)
    BY <2>3, <2>4, <2>5
  <2>8. \A i \in From(n + 1): i = m - n \/ i \in From(n)
    BY <1>1
  <2> HIDE DEF Right
  <2> QED BY <2>6, <2>7, <2>8
<1> HIDE DEF T
<1>4. m \in T
  BY <1>1, <1>2, <1>3, NumbersReached
<1>5. PICK h: \A i \in From(m): Right(h, i)
  BY <1>1, <1>4 DEF T
<1> DEFINE whole == [i \in 1 .. m + 1 |-> h[i]]
<1>6. \A i \in 1 .. m + 1: whole[i] = NumberStep(whole, bytes)[i]
  <2> SUFFICES ASSUME NEW i \in 1 .. m + 1 PROVE whole[i] = NumberStep(whole, bytes)[i]
    OBVIOUS
  <2>1. i \in From(m) /\ Right(h, i)
    BY <1>1, <1>5
  <2>2. i # m + 1 => i + 1 \in 1 .. m + 1
    BY <1>1
  <2> QED BY <2>1, <2>2 DEF NumberStep, m
<1>7. whole = NumberStep(whole, bytes)
  BY <1>6 DEF NumberStep, m
<1> QED BY <1>7

LEMMA LittleEndianFacts ==
  ASSUME NEW bytes \in Seq(Field)
  PROVE  LittleEndian(bytes) \in Field
<1> DEFINE h == CHOOSE g: g = NumberStep(g, bytes)
           m == Len(bytes)
           T == {n \in Nat: n <= m => h[m + 1 - n] \in Int}
<1>1. m \in Nat /\ (\A i \in 1 .. m: bytes[i] \in Int) /\ ByteBase \in Int
  <2>1. m \in Nat /\ \A i \in 1 .. m: bytes[i] \in Field
    OBVIOUS
  <2>2. Field \subseteq Int
    BY OrderFacts
  <2>3. ByteBase \in Int
    BY CodesAssumption
  <2> QED BY <2>1, <2>2, <2>3
<1>2. h = NumberStep(h, bytes)
  BY NumberExists
<1>3. LittleEndian(bytes) = h[1] % Order
  BY DEF LittleEndian, NumberStep
<1> HIDE DEF h
<1>4. h[m + 1] = 0 /\ \A i \in 1 .. m: h[i] = bytes[i] + ByteBase * h[i + 1]
  <2>1. m + 1 \in 1 .. m + 1 /\ \A i \in 1 .. m: i \in 1 .. m + 1 /\ i # m + 1
    BY <1>1
  <2> QED BY <1>2, <2>1 DEF NumberStep
<1> HIDE DEF m
<1>5. 0 \in T
  <2>1. m + 1 - 0 = m + 1
    BY <1>1
  <2> QED BY <1>4, <2>1
<1>6. ASSUME NEW n \in Nat, n \in T PROVE n + 1 \in T
  <2> SUFFICES ASSUME n + 1 <= m PROVE h[m + 1 - (n + 1)] \in Int
    OBVIOUS
  <2>1. m - n \in 1 .. m /\ (m - n) + 1 = m + 1 - n /\ m + 1 - (n + 1) = m - n /\ n <= m
    BY <1>1
  <2>2. h[m + 1 - n] \in Int /\ bytes[m - n] \in Int
    BY <1>1, <1>6, <2>1
  <2> DEFINE digit == bytes[m - n]
             rest == h[m + 1 - n]
  <2>3. digit + ByteBase * rest \in Int
    <3> HIDE DEF digit, rest
    <3>1. digit \in Int /\ rest \in Int /\ ByteBase \in Int
      BY <1>1, <2>2 DEF digit, rest
    <3> QED BY <3>1
  <2> QED BY <1>4, <2>1, <2>3
<1> HIDE DEF T
<1>7. m \in T
  BY <1>1, <1>5, <1>6, NumbersReached
<1>8. h[1] \in Int
  <2>1. m + 1 - m = 1
    BY <1>1
  <2> QED BY <1>1, <1>7, <2>1 DEF T
<1> DEFINE a == h[1]
<1> HIDE DEF a
<1>9. a % Order \in Field
  BY <1>8, OrderFacts DEF Field, a
<1> QED BY <1>3, <1>9 DEF a

LEMMA ScalarFacts ==
  ASSUME NEW bytes \in Payloads
  PROVE  EncodeToScalars(bytes) \in Seq(Field) /\ Len(EncodeToScalars(bytes)) \in Nat
<1> DEFINE n == (Len(bytes) + ChunkBytes - 1) \div ChunkBytes
           chunk(i) == [j \in 1 .. ChunkBytes |-> Coefficient(bytes, (i - 1) * ChunkBytes + j)]
           e == [i \in 1 .. n |-> LittleEndian(chunk(i))]
<1>1. ChunkBytes \in Nat \ {0}
  BY CodesAssumption
<1>2. n \in Nat
  <2> DEFINE a == Len(bytes) + ChunkBytes - 1
  <2>1. a \in Nat
    BY <1>1, ByteFacts
  <2> HIDE DEF a
  <2>2. a \div ChunkBytes \in Nat
    BY <1>1, <2>1, DivFact
  <2> QED BY <2>2 DEF a
<1> HIDE DEF n
<1>3. ASSUME NEW i \in 1 .. n PROVE LittleEndian(chunk(i)) \in Field
  <2>1. \A j \in 1 .. ChunkBytes: Coefficient(bytes, (i - 1) * ChunkBytes + j) \in Field
    <3> SUFFICES ASSUME NEW j \in 1 .. ChunkBytes
                 PROVE  Coefficient(bytes, (i - 1) * ChunkBytes + j) \in Field
      OBVIOUS
    <3>1. (i - 1) * ChunkBytes + j \in Int
      BY <1>1, <1>2
    <3> QED BY <3>1, ByteFacts
  <2>2. chunk(i) \in Seq(Field)
    BY <1>1, <2>1
  <2> QED BY <2>2, LittleEndianFacts
<1> HIDE DEF chunk
<1>4. e \in Seq(Field) /\ Len(e) = n
  BY <1>2, <1>3
<1>5. EncodeToScalars(bytes) = e
  BY DEF EncodeToScalars, n, chunk
<1> QED BY <1>2, <1>4, <1>5

LEMMA SplitFacts ==
  ASSUME NEW scalars \in Seq(Field), Len(scalars) <= Needed,
         NEW random \in [1 .. Needed - Len(scalars) -> Field \ {0}]
  PROVE  /\ ConstructPolynomial(scalars, random) \in Polynomials
         /\ Len(ConstructPolynomial(scalars, random)) <= Needed
<1> DEFINE n == Needed - Len(scalars)
           p == scalars \o random
<1>1. n \in Nat /\ Len(scalars) \in Nat /\ Needed \in Nat /\ Len(scalars) + n = Needed
  BY IndexFacts
<1>2. random \in Seq(Field) /\ Len(random) = n
  <2>1. random \in [1 .. n -> Field]
    OBVIOUS
  <2> HIDE DEF n
  <2> QED BY <1>1, <2>1
<1>3. p \in Seq(Field) /\ Len(p) = Needed
  BY <1>1, <1>2
<1> HIDE DEF p
<1>4. Trimmed(p) \in Polynomials /\ Len(Trimmed(p)) <= Needed
  BY <1>3, TrimmedFacts
<1> QED BY <1>4 DEF ConstructPolynomial, p

(* A piece opens the commitment exactly when it is the share of its index. *)
VssPiece == [value: Field, proof: Polynomials]

LEMMA ShareFacts ==
  ASSUME PowersOfTau, NEW f \in Polynomials, Len(f) <= Needed, NEW i \in Field
  PROVE  /\ Share(f, i) = [value |-> Evaluate(f, i), proof |-> Quotient(f, i)]
         /\ Share(f, i) \in VssPiece /\ Commitment(f) = f
         /\ Commitment(Quotient(f, i)) = Quotient(f, i)
         /\ \A piece \in VssPiece: Opens(Commitment(f), i, piece) <=> piece = Share(f, i)
<1>1. f \in Seq(Field) /\ Len(f) \in Nat
  BY DEF Polynomials
<1>2. Commitment(f) = f
  <2>1. Len(f) <= NumG1
    BY <1>1, IndexFacts
  <2> QED BY <2>1, CommitmentFacts
<1> DEFINE q == Quotient(f, i)
<1>3. q \in Polynomials /\ Len(q) <= Needed
  <2>1. \A n \in Nat: Len(f) <= n + 1 => Len(q) <= n
    BY <1>1, QuotientFacts
  <2>2. Len(f) <= Needed + 1
    BY <1>1, IndexFacts
  <2> QED BY <1>1, <2>1, <2>2, QuotientFacts, IndexFacts
<1>4. Evaluate(f, i) \in Field
  BY <1>1, PassedFacts
<1> HIDE DEF q
<1>5. Commitment(q) = q
  <2>1. Len(q) \in Nat
    BY <1>3 DEF Polynomials
  <2>2. Len(q) <= NumG1
    BY <1>3, <2>1, IndexFacts
  <2> QED BY <1>3, <2>2, CommitmentFacts
<1>6. Share(f, i) = [value |-> Evaluate(f, i), proof |-> q]
  BY <1>5 DEF Share, q
<1>7. ASSUME NEW piece \in VssPiece PROVE Opens(f, i, piece) <=> piece = Share(f, i)
  <2>1. piece.value \in Field /\ piece.proof \in Polynomials
        /\ piece = [value |-> piece.value, proof |-> piece.proof]
    BY DEF VssPiece
  <2>2. Opens(f, i, piece) <=> piece.value = Evaluate(f, i) /\ piece.proof = q
    BY <2>1, OpensExactly DEF Opens, q
  <2> QED BY <1>6, <2>1, <2>2
<1> QED BY <1>2, <1>3, <1>4, <1>5, <1>6, <1>7 DEF q, VssPiece

-----------------------------------------------------------------------------
(* Hybrid shards: what a quorum of honest ones yields.                     *)
LEMMA EvaluateAtZero ==
  ASSUME NEW f \in Seq(Field) PROVE Evaluate(f, 0) = Coefficient(f, 1)
<1>1. 1 \in Nat \ {0} /\ 0 \in Field /\ 1 + 1 \in Nat \ {0}
  BY OrderFacts
<1> DEFINE a == Coefficient(f, 1)
           u == Passed(f, 0, 1 + 1)
<1>2. a \in Field /\ u \in Field
  BY <1>1, CoefficientTypes, PassedFacts
<1>3. Passed(f, 0, 1) = Plus(a, Times(0, u)) /\ Passed(f, 0, 1) = Evaluate(f, 0)
  BY <1>1, PassedFacts
<1> HIDE DEF a, u
<1>4. Times(0, u) = 0 /\ Plus(a, 0) = a
  BY <1>2, TimesZero, PlusZero
<1> QED BY <1>3, <1>4 DEF a

DataCurve(bytes, j) == LagrangeInterpolate([d \in 1 .. Needed |-> DataChunk(bytes, d)[j]])

LEMMA ShardFacts ==
  ASSUME NEW bytes \in Payloads
  PROVE  /\ ShardSize(Len(bytes)) \in Nat \ {0} /\ Len(bytes) <= Needed * ShardSize(Len(bytes))
         /\ \A j \in 1 .. ShardSize(Len(bytes)):
              /\ DataCurve(bytes, j) \in Polynomials /\ Len(DataCurve(bytes, j)) <= Needed
              /\ \A d \in 1 .. Needed: Evaluate(DataCurve(bytes, j), d)
                                         = Coefficient(bytes, (d - 1) * ShardSize(Len(bytes)) + j)
<1> DEFINE len == Len(bytes)
           size == ShardSize(len)
           a == len + Needed - 1
<1>1. len \in Nat \ {0} /\ Needed \in Nat \ {0} /\ a \in Nat
  BY ByteFacts, IndexFacts
<1>2. size = a \div Needed
  BY DEF ShardSize
<1>3. size \in Nat /\ Needed * size <= a /\ a < Needed * size + Needed
  <2> HIDE DEF a, size
  <2> QED BY <1>1, <1>2, DivFact
<1> HIDE DEF size, len
<1>4. len <= Needed * size
  BY <1>1, <1>3
<1>5. size # 0
  BY <1>1, <1>4
<1>6. ASSUME NEW j \in 1 .. size
      PROVE  /\ DataCurve(bytes, j) \in Polynomials /\ Len(DataCurve(bytes, j)) <= Needed
             /\ \A d \in 1 .. Needed: Evaluate(DataCurve(bytes, j), d)
                                        = Coefficient(bytes, (d - 1) * size + j)
  <2> DEFINE points == [d \in 1 .. Needed |-> DataChunk(bytes, d)[j]]
  <2>1. \A d \in 1 .. Needed: DataChunk(bytes, d)[j] = Coefficient(bytes, (d - 1) * size + j)
    BY DEF DataChunk, size, len
  <2>2. \A d \in 1 .. Needed: Coefficient(bytes, (d - 1) * size + j) \in Field
    <3> SUFFICES ASSUME NEW d \in 1 .. Needed PROVE Coefficient(bytes, (d - 1) * size + j) \in Field
      OBVIOUS
    <3>1. (d - 1) * size + j \in Int
      BY <1>1, <1>3
    <3> QED BY <3>1, ByteFacts
  <2>3. points \in [1 .. Needed -> Field] /\ \A d \in 1 .. Needed: points[d] = Coefficient(bytes, (d - 1) * size + j)
    BY <2>1, <2>2
  <2>4. IsFiniteSet(1 .. Needed) /\ Cardinality(1 .. Needed) = Needed
    BY <1>1, FS_Interval
  <2>5. DataCurve(bytes, j) = LagrangeInterpolate(points)
    BY DEF DataCurve
  <2> HIDE DEF points
  <2>6. 1 .. Needed \in SUBSET Field
    BY IndexFacts
  <2>7. /\ LagrangeInterpolate(points) \in Polynomials
        /\ Len(LagrangeInterpolate(points)) <= Cardinality(1 .. Needed)
        /\ \A z \in 1 .. Needed: Evaluate(LagrangeInterpolate(points), z) = points[z]
    BY <2>3, <2>4, <2>6, LagrangeFacts
  <2> QED BY <2>3, <2>4, <2>5, <2>7
<1> QED BY <1>3, <1>4, <1>5, <1>6 DEF size, len

LEMMA ModFacts ==
  ASSUME NEW p \in Nat \ {0}, NEW a \in Int
  PROVE  /\ a % p \in 0 .. p - 1
         /\ a \div p \in Int
         /\ a = p * (a \div p) + (a % p)
OBVIOUS

LEMMA RsDecodeFacts ==
  ASSUME payload \in Payloads, NEW S \in Quorums, \A i \in S: pieces[i].chunk = Chunk(payload, i)
  PROVE  RsDecode(S) = payload
<1> DEFINE len == Len(payload)
           size == ShardSize(len)
           At(j) == LagrangeInterpolate([i \in S |-> pieces[i].chunk[j]])
           Byte(k) == Evaluate(At(((k - 1) % size) + 1), ((k - 1) \div size) + 1)
<1>1. len \in Nat \ {0} /\ payload \in Seq(Field) /\ Needed \in Nat \ {0}
  BY ByteFacts, IndexFacts
<1>2. size \in Nat \ {0} /\ len <= Needed * size
  BY ShardFacts
<1>3. ASSUME NEW j \in 1 .. size PROVE At(j) = DataCurve(payload, j)
  <2> DEFINE g == DataCurve(payload, j)
  <2>1. \A i \in S: pieces[i].chunk[j] = Evaluate(g, i)
    BY <1>3 DEF Chunk, DataCurve
  <2>2. [i \in S |-> pieces[i].chunk[j]] = [i \in S |-> Evaluate(g, i)]
    BY <2>1
  <2>3. g \in Polynomials /\ Len(g) <= Needed
    BY <1>3, ShardFacts
  <2> HIDE DEF g
  <2>4. LagrangeInterpolate([x \in S |-> Evaluate(g, x)]) = g
    BY <2>3, QuorumFacts, InterpolationIsExact
  <2> QED BY <2>2, <2>4 DEF g
<1>4. ASSUME NEW k \in 1 .. len PROVE Byte(k) = payload[k]
  <2> DEFINE n == k - 1
             q == n \div size
             r == n % size
  <2>1. n \in Nat /\ n < Needed * size
    <3> DEFINE all == Needed * size
    <3>1. all \in Nat /\ len <= all
      BY <1>1, <1>2
    <3> HIDE DEF all, len
    <3> QED BY <1>1, <3>1 DEF all
  <2>2. r \in 0 .. size - 1 /\ q \in Int /\ n = size * q + r
    <3>1. size \in Nat \ {0} /\ n \in Int
      BY <1>2, <2>1
    <3> HIDE DEF n, size
    <3> QED BY <3>1, ModFacts
  <2>3. q \in Nat
    <3> HIDE DEF n, size
    <3> QED BY <1>2, <2>1, DivFact
  <2>4. q <= Needed - 1
    <3> DEFINE m == Needed - 1
    <3>1. m \in Nat /\ m + 1 = Needed
      BY <1>1
    <3> HIDE DEF n, size, m
    <3>2. n < size * (m + 1)
      BY <1>1, <1>2, <2>1, <3>1
    <3>3. n \div size <= m
      BY <1>2, <2>1, <3>1, <3>2, QuotientAtMost
    <3> QED BY <3>3 DEF m
  <2> HIDE DEF q, r, size
  <2> DEFINE j == r + 1
             d == q + 1
  <2>5. j \in 1 .. size /\ d \in 1 .. Needed
    BY <1>1, <1>2, <2>2, <2>3, <2>4
  <2>6. (d - 1) * size + j = k
    <3>1. d - 1 = q /\ q * size = size * q
      BY <1>2, <2>3
    <3>2. k = n + 1 /\ n \in Nat
      BY <1>1, <2>1
    <3> DEFINE w == size * q
    <3>3. w \in Int /\ n = w + r
      BY <1>2, <2>2, <2>3
    <3> HIDE DEF w, n
    <3>4. w + (r + 1) = k
      BY <2>2, <3>2, <3>3
    <3> QED BY <3>1, <3>4 DEF w
  <2>7. At(j) = DataCurve(payload, j)
    BY <1>3, <2>5 DEF size
  <2>8. Evaluate(DataCurve(payload, j), d) = Coefficient(payload, (d - 1) * size + j)
    BY <2>5, ShardFacts DEF size
  <2>9. Coefficient(payload, k) = payload[k]
    BY <1>1, CoefficientFacts
  <2>10. Byte(k) = Evaluate(At(j), d)
    BY DEF q, r, size
  <2> HIDE DEF At, Byte, j, d
  <2> QED BY <2>6, <2>7, <2>8, <2>9, <2>10
<1>5. Min({len, Needed * size}) = len
  <2> DEFINE all == Needed * size
  <2>1. all \in Nat /\ len <= all
    BY <1>1, <1>2
  <2> HIDE DEF all, len
  <2>2. Min({len, all}) = CHOOSE x \in {len, all}: \A y \in {len, all}: x <= y
    BY DEF Min
  <2>3. \A x \in {len, all}: (\A y \in {len, all}: x <= y) <=> x = len
    BY <1>1, <2>1
  <2>4. \E x \in {len, all}: \A y \in {len, all}: x <= y
    BY <2>3
  <2>5. Min({len, all}) \in {len, all} /\ \A y \in {len, all}: Min({len, all}) <= y
    BY <2>2, <2>4
  <2> QED BY <2>3, <2>5 DEF all
<1>6. RsDecode(S) = [k \in 1 .. len |-> Byte(k)]
  BY <1>5 DEF RsDecode
<1>7. [k \in 1 .. len |-> Byte(k)] = [k \in 1 .. len |-> payload[k]]
  BY <1>4
<1>8. payload = [k \in 1 .. len |-> payload[k]]
  BY <1>1
<1> QED BY <1>6, <1>7, <1>8

LEMMA KeyFacts ==
  ASSUME curve \in [1 .. Needed -> Field], NEW S \in Quorums, \A i \in S: pieces[i].key = Evaluate(curve, i)
  PROVE  KeyRecover(S) = curve[1]
<1> DEFINE g == Trimmed(curve)
<1>1. curve \in Seq(Field) /\ Len(curve) = Needed /\ 1 \in 1 .. Needed
  BY IndexFacts
<1>2. g \in Polynomials /\ g \in Seq(Field) /\ Len(g) <= Needed /\ \A k \in Int: Coefficient(g, k) = Coefficient(curve, k)
  BY <1>1, TrimmedFacts
<1> HIDE DEF g
<1>3. ASSUME NEW i \in S PROVE pieces[i].key = Evaluate(g, i)
  <2>1. i \in Field
    BY QuorumFacts
  <2>2. \A k \in Nat \ {0}: Coefficient(curve, k) = Coefficient(g, k)
    BY <1>2
  <2>3. Evaluate(curve, i) = Evaluate(g, i)
    BY <1>1, <1>2, <2>1, <2>2, EvaluateSame
  <2> QED BY <2>3
<1>4. [i \in S |-> pieces[i].key] = [x \in S |-> Evaluate(g, x)]
  BY <1>3
<1>5. LagrangeInterpolate([x \in S |-> Evaluate(g, x)]) = g
  BY <1>2, QuorumFacts, InterpolationIsExact
<1>6. KeyRecover(S) = Evaluate(g, 0)
  BY <1>4, <1>5 DEF KeyRecover
<1>7. Coefficient(g, 1) = curve[1]
  BY <1>1, <1>2, CoefficientFacts
<1> QED BY <1>2, <1>6, <1>7, EvaluateAtZero

-----------------------------------------------------------------------------
(* The inductive invariant: which pieces are shares, and of what.          *)
SceneTypes ==
  /\ payload \in Payloads /\ DOMAIN pieces = AllIndices
  /\ curve = Lost => \A i \in AllIndices: pieces[i] = Lost

VssPieces ==
  scheme = "vss" =>
    /\ spoilt \subseteq Present
    /\ curve # Lost =>
         /\ curve \in Polynomials /\ Len(curve) <= Needed
         /\ \A i \in Present: /\ pieces[i] \in VssPiece
                              /\ i \notin spoilt <=> pieces[i] = Share(curve, i)

HybridPiece(coefficients, bytes, i) ==
  [chunk |-> Chunk(bytes, i), hash |-> Chunk(bytes, i), key |-> Evaluate(coefficients, i)]

HybridPieces ==
  scheme = "hybrid" /\ curve # Lost =>
    /\ curve \in [1 .. Needed -> Field]
    /\ \A i \in Present: i \notin spoilt => pieces[i] = HybridPiece(curve, payload, i)

CodesInv == SceneTypes /\ VssPieces /\ HybridPieces /\ HybridRecovers

LEMMA NotLost ==
  /\ \A f \in Polynomials: f # Lost
  /\ \A f \in [1 .. Needed -> Field]: f # Lost
  /\ \A piece \in VssPiece: piece # Lost
<1>1. \A f \in Polynomials: f \in Seq(Field)
  BY DEF Polynomials
<1>2. \A f \in [1 .. Needed -> Field]: f \in Seq(Field)
  BY IndexFacts
<1>3. Lost \notin Seq(Field) \cup [value: Field, proof: Seq(Field)]
  BY LostAssumption
<1>4. \A piece \in VssPiece: piece \in [value: Field, proof: Seq(Field)]
  BY <1>1 DEF VssPiece
<1> QED BY <1>1, <1>2, <1>3, <1>4

LEMMA PresentFacts ==
  ASSUME CodesInv
  PROVE  /\ Present \in SUBSET AllIndices /\ Present \in SUBSET Field
         /\ Present # {} => curve # Lost
         /\ \A i \in AllIndices: i \in Present <=> pieces[i] # Lost
<1>1. Present \in SUBSET AllIndices /\ \A i \in AllIndices: i \in Present <=> pieces[i] # Lost
  BY DEF Present
<1>2. curve = Lost => Present = {}
  BY DEF CodesInv, SceneTypes, Present
<1> QED BY <1>1, <1>2, IndexFacts

LEMMA CodesInitInv == CodesInit => CodesInv
<1> SUFFICES ASSUME CodesInit PROVE CodesInv
  OBVIOUS
<1>1. SceneTypes
  BY DEF CodesInit, SceneTypes
<1>2. VssPieces
  BY DEF CodesInit, VssPieces
<1>3. HybridPieces
  BY DEF CodesInit, HybridPieces
<1>4. HybridRecovers
  BY DEF CodesInit, HybridRecovers, NoOutcome
<1> QED BY <1>1, <1>2, <1>3, <1>4 DEF CodesInv

(* vss_split deals shares of a polynomial that Needed of them determine.   *)
LEMMA VssSplitInv == ASSUME PowersOfTau, CodesInv, VssSplit PROVE CodesInv'
<1> DEFINE scalars == EncodeToScalars(payload)
<1>1. scheme = "vss" /\ curve = Lost /\ payload \in Payloads
  BY DEF VssSplit, CodesInv, SceneTypes
<1>2. scalars \in Seq(Field) /\ Len(scalars) <= Needed
  BY <1>1, ScalarFacts DEF VssSplit
<1>3. PICK random \in [1 .. Needed - Len(scalars) -> Field \ {0}]:
        /\ curve' = ConstructPolynomial(scalars, random)
        /\ pieces' = [i \in AllIndices |->
                        IF i \in Indices THEN Share(ConstructPolynomial(scalars, random), i) ELSE Lost]
  BY DEF VssSplit
<1> DEFINE f == ConstructPolynomial(scalars, random)
<1>4. f \in Polynomials /\ Len(f) <= Needed
  BY <1>2, SplitFacts
<1> HIDE DEF f, scalars
<1>5. curve' = f /\ pieces' = [i \in AllIndices |-> IF i \in Indices THEN Share(f, i) ELSE Lost]
  BY <1>3 DEF f, scalars
<1>6. scheme' = scheme /\ payload' = payload /\ spoilt' = spoilt /\ outcome' = outcome
  BY DEF VssSplit
<1>7. spoilt = {}
  BY <1>1, PresentFacts DEF CodesInv, VssPieces
<1>8. curve' # Lost
  BY <1>4, <1>5, NotLost
<1>9. SceneTypes'
  BY <1>1, <1>5, <1>6, <1>8 DEF SceneTypes
<1>10. \A i \in Present': pieces'[i] = Share(f, i) /\ i \in AllIndices
  BY <1>5 DEF Present
<1>11. \A i \in AllIndices: Share(f, i) \in VssPiece
  BY <1>4, ShareFacts, IndexFacts
<1>12. VssPieces'
  <2>1. spoilt' \subseteq Present'
    BY <1>6, <1>7
  <2>2. \A i \in Present': pieces'[i] \in VssPiece /\ (i \notin spoilt' <=> pieces'[i] = Share(curve', i))
    BY <1>5, <1>6, <1>7, <1>10, <1>11
  <2> QED BY <1>4, <1>5, <2>1, <2>2 DEF VssPieces
<1>13. HybridPieces' /\ HybridRecovers'
  BY <1>1, <1>6 DEF HybridPieces, HybridRecovers
<1> QED BY <1>9, <1>12, <1>13 DEF CodesInv

(* Recovery changes the outcome only.                                      *)
LEMMA VssRecoverInv == ASSUME CodesInv, VssRecover PROVE CodesInv'
<1>1. /\ scheme' = scheme /\ payload' = payload /\ spoilt' = spoilt /\ curve' = curve
      /\ pieces' = pieces /\ scheme = "vss"
  BY DEF VssRecover
<1>2. Present' = Present
  BY <1>1 DEF Present
<1>3. SceneTypes' /\ VssPieces' /\ HybridPieces'
  BY <1>1, <1>2 DEF CodesInv, SceneTypes, VssPieces, HybridPieces
<1>4. HybridRecovers'
  BY <1>1 DEF HybridRecovers
<1> QED BY <1>3, <1>4 DEF CodesInv

(* A quorum of untouched shares determines the polynomial.                 *)
LEMMA QuorumCurve ==
  ASSUME CodesInv, PowersOfTau, scheme = "vss", NEW S \in Quorums
  PROVE  /\ curve # Lost /\ LagrangeInterpolate(Points(S)) \in Polynomials
         /\ Len(LagrangeInterpolate(Points(S))) <= Needed
         /\ S \cap spoilt = {} => LagrangeInterpolate(Points(S)) = curve
<1>1. S \in SUBSET Present /\ S \in SUBSET Field /\ IsFiniteSet(S) /\ Cardinality(S) = Needed /\ S # {}
  BY QuorumFacts
<1>2. curve # Lost
  BY <1>1, PresentFacts
<1>3. /\ curve \in Polynomials /\ Len(curve) <= Needed
      /\ \A i \in S: pieces[i] \in VssPiece /\ (i \notin spoilt <=> pieces[i] = Share(curve, i))
  BY <1>1, <1>2 DEF CodesInv, VssPieces
<1>4. Points(S) \in [S -> Field]
  BY <1>3 DEF Points, VssPiece
<1>5. /\ LagrangeInterpolate(Points(S)) \in Polynomials
      /\ Len(LagrangeInterpolate(Points(S))) <= Needed
  BY <1>1, <1>4, LagrangeFacts
<1>6. ASSUME S \cap spoilt = {} PROVE LagrangeInterpolate(Points(S)) = curve
  <2>1. \A i \in S: pieces[i].value = Evaluate(curve, i)
    <3> SUFFICES ASSUME NEW i \in S PROVE pieces[i].value = Evaluate(curve, i)
      OBVIOUS
    <3>1. pieces[i] = Share(curve, i)
      BY <1>3, <1>6
    <3>2. Share(curve, i).value = Evaluate(curve, i)
      BY DEF Share
    <3> QED BY <3>1, <3>2
  <2>2. Points(S) = [x \in S |-> Evaluate(curve, x)]
    BY <2>1 DEF Points
  <2> QED BY <1>1, <1>3, <2>2, InterpolationIsExact
<1> QED BY <1>2, <1>5, <1>6

(* What is regenerated commits to the same: it is the same polynomial.     *)
LEMMA RegenerateShareInv == ASSUME PowersOfTau, CodesInv, RegenerateShare PROVE CodesInv'
<1>1. PICK S \in Quorums, new \in Spares \ Present:
        /\ scheme = "vss" /\ SameCommitment(LagrangeInterpolate(Points(S)))
        /\ pieces' = [pieces EXCEPT ![new] = Share(LagrangeInterpolate(Points(S)), new)]
        /\ UNCHANGED <<scheme, payload, curve, spoilt, spoils, outcome>>
  BY DEF RegenerateShare
<1> DEFINE f == LagrangeInterpolate(Points(S))
<1>2. curve # Lost /\ f \in Polynomials /\ Len(f) <= Needed
  BY <1>1, QuorumCurve
<1>3. curve \in Polynomials /\ Len(curve) <= Needed /\ spoilt \subseteq Present
  BY <1>1, <1>2 DEF CodesInv, VssPieces
<1>4. Commitment(f) = Commitment(curve) /\ pieces' = [pieces EXCEPT ![new] = Share(f, new)]
  BY <1>1 DEF SameCommitment
<1> HIDE DEF f
<1>5. Commitment(f) = f /\ Commitment(curve) = curve
  BY <1>2, <1>3, ShareFacts, OrderFacts
<1>6. pieces' = [pieces EXCEPT ![new] = Share(curve, new)]
  BY <1>4, <1>5
<1>7. new \in AllIndices /\ new \in Field /\ new \notin spoilt
  BY <1>3, IndexFacts DEF AllIndices
<1>8. Share(curve, new) \in VssPiece
  BY <1>3, <1>7, ShareFacts
<1>9. DOMAIN pieces = AllIndices
  BY DEF CodesInv, SceneTypes
<1>10. Present' = Present \cup {new}
  <2>1. Share(curve, new) # Lost
    BY <1>8, NotLost
  <2>2. \A i \in AllIndices: pieces'[i] # Lost <=> i \in Present \cup {new}
    BY <1>6, <1>7, <1>9, <2>1, PresentFacts
  <2> QED BY <1>7, <2>2, PresentFacts DEF Present
<1>11. SceneTypes'
  BY <1>1, <1>2, <1>6, <1>9 DEF CodesInv, SceneTypes
<1>12. \A i \in Present': pieces'[i] \in VssPiece /\ (i \notin spoilt <=> pieces'[i] = Share(curve, i))
  <2> SUFFICES ASSUME NEW i \in Present \cup {new}
               PROVE  pieces'[i] \in VssPiece /\ (i \notin spoilt <=> pieces'[i] = Share(curve, i))
    BY <1>10
  <2>1. CASE i = new
    BY <1>6, <1>7, <1>8, <1>9, <2>1
  <2>2. CASE i # new
    <3>1. i \in Present /\ pieces'[i] = pieces[i]
      BY <1>6, <1>9, <2>2, PresentFacts
    <3> QED BY <1>1, <1>2, <3>1 DEF CodesInv, VssPieces
  <2> QED BY <2>1, <2>2
<1>13. VssPieces'
  <2>1. spoilt' \subseteq Present' /\ curve' = curve /\ spoilt' = spoilt
    BY <1>1, <1>3, <1>10
  <2> QED BY <1>3, <1>12, <2>1 DEF VssPieces
<1>14. HybridPieces' /\ HybridRecovers'
  BY <1>1 DEF HybridPieces, HybridRecovers
<1> QED BY <1>11, <1>13, <1>14 DEF CodesInv

(* A proof made again makes a share whole exactly when its value is right. *)
LEMMA VssProveInv == ASSUME PowersOfTau, CodesInv, VssProve PROVE CodesInv'
<1>1. PICK j \in Present:
        /\ scheme = "vss"
        /\ pieces' = [pieces EXCEPT ![j] = ChallengeProof(curve, j, pieces[j].value)]
        /\ spoilt' = IF pieces[j].value = Evaluate(curve, j) THEN spoilt \ {j} ELSE spoilt
        /\ UNCHANGED <<scheme, payload, curve, spoils, outcome>>
  BY DEF VssProve
<1>2. curve # Lost /\ j \in AllIndices /\ j \in Field /\ DOMAIN pieces = AllIndices
  BY PresentFacts DEF CodesInv, SceneTypes
<1>3. /\ curve \in Polynomials /\ Len(curve) <= Needed /\ spoilt \subseteq Present
      /\ \A i \in Present: pieces[i] \in VssPiece /\ (i \notin spoilt <=> pieces[i] = Share(curve, i))
  BY <1>1, <1>2 DEF CodesInv, VssPieces
<1> DEFINE v == pieces[j].value
           new == [value |-> v, proof |-> Quotient(curve, j)]
<1>4. /\ Share(curve, j) = [value |-> Evaluate(curve, j), proof |-> Quotient(curve, j)]
      /\ Share(curve, j) \in VssPiece /\ Commitment(Quotient(curve, j)) = Quotient(curve, j)
  BY <1>2, <1>3, ShareFacts
<1>5. ChallengeProof(curve, j, v) = new
  BY <1>4 DEF ChallengeProof
<1>6. v \in Field /\ Quotient(curve, j) \in Polynomials
  BY <1>3, <1>4 DEF VssPiece
<1>7. new \in VssPiece /\ (new = Share(curve, j) <=> v = Evaluate(curve, j))
  BY <1>4, <1>6 DEF VssPiece
<1>8. v # Evaluate(curve, j) => j \in spoilt
  <2>1. j \notin spoilt => pieces[j] = Share(curve, j)
    BY <1>3
  <2> QED BY <1>4, <2>1
<1>9. pieces' = [pieces EXCEPT ![j] = new] /\ spoilt' = IF v = Evaluate(curve, j) THEN spoilt \ {j} ELSE spoilt
  BY <1>1, <1>5
<1> HIDE DEF new, v
<1>10. new # Lost
  BY <1>7, NotLost
<1>11. Present' = Present
  <2>1. \A i \in AllIndices: pieces'[i] # Lost <=> i \in Present
    BY <1>2, <1>9, <1>10, PresentFacts
  <2> QED BY <2>1, PresentFacts DEF Present
<1>12. SceneTypes'
  BY <1>1, <1>2, <1>9 DEF CodesInv, SceneTypes
<1>13. \A i \in Present: pieces'[i] \in VssPiece /\ (i \notin spoilt' <=> pieces'[i] = Share(curve, i))
  <2> SUFFICES ASSUME NEW i \in Present
               PROVE  pieces'[i] \in VssPiece /\ (i \notin spoilt' <=> pieces'[i] = Share(curve, i))
    OBVIOUS
  <2>1. CASE i = j
    <3>1. pieces'[i] = new
      BY <1>2, <1>9, <2>1
    <3>2. i \notin spoilt' <=> v = Evaluate(curve, j)
      BY <1>8, <1>9, <2>1
    <3> QED BY <1>7, <2>1, <3>1, <3>2
  <2>2. CASE i # j
    <3>1. pieces'[i] = pieces[i] /\ (i \in spoilt' <=> i \in spoilt)
      BY <1>2, <1>9, <2>2
    <3> QED BY <1>3, <3>1
  <2> QED BY <2>1, <2>2
<1>14. VssPieces'
  <2>1. spoilt' \subseteq Present' /\ curve' = curve
    BY <1>1, <1>3, <1>9, <1>11
  <2> QED BY <1>3, <1>11, <1>13, <2>1 DEF VssPieces
<1>15. HybridPieces' /\ HybridRecovers'
  BY <1>1 DEF HybridPieces, HybridRecovers
<1> QED BY <1>12, <1>14, <1>15 DEF CodesInv

(* key_split and rs_encode make honest shards of one curve and one content. *)
LEMMA HybridSplitInv == ASSUME CodesInv, HybridSplit PROVE CodesInv'
<1>1. PICK c \in [1 .. Needed -> Field]:
        /\ scheme = "hybrid" /\ curve' = c
        /\ pieces' = [i \in AllIndices |->
                        IF i \in Indices
                        THEN [chunk |-> Chunk(payload, i), hash |-> Chunk(payload, i),
                              key |-> KeySplit(c)[i]]
                        ELSE Lost]
        /\ UNCHANGED <<scheme, payload, spoilt, spoils, outcome>>
  BY DEF HybridSplit
<1>2. curve' # Lost
  BY <1>1, NotLost
<1>3. SceneTypes'
  BY <1>1, <1>2 DEF CodesInv, SceneTypes
<1>4. VssPieces'
  BY <1>1 DEF VssPieces
<1>5. \A i \in Present': pieces'[i] = HybridPiece(c, payload, i)
  <2> SUFFICES ASSUME NEW i \in Present' PROVE pieces'[i] = HybridPiece(c, payload, i)
    OBVIOUS
  <2>1. i \in AllIndices /\ pieces'[i] # Lost
    BY DEF Present
  <2>2. i \in Indices
    BY <1>1, <2>1
  <2>3. KeySplit(c)[i] = Evaluate(c, i)
    BY <2>2 DEF KeySplit
  <2> QED BY <1>1, <2>1, <2>2, <2>3 DEF HybridPiece
<1>6. HybridPieces'
  BY <1>1, <1>5 DEF HybridPieces
<1>7. HybridRecovers'
  BY <1>1 DEF CodesInv, HybridRecovers
<1> QED BY <1>3, <1>4, <1>6, <1>7 DEF CodesInv

(* Untouched shards decode to the ciphertext and give its key; whatever    *)
(* else comes out of the others, the cipher refuses it.                    *)
LEMMA HybridRecoverInv == ASSUME CodesInv, HybridRecover PROVE CodesInv'
<1>1. PICK S \in Quorums:
        /\ scheme = "hybrid"
        /\ outcome' = [intact |-> S \cap spoilt = {},
                       result |-> IF \A i \in S: pieces[i].hash = pieces[i].chunk
                                  THEN Decrypt(RsDecode(S), KeyRecover(S))
                                  ELSE NoContent]
        /\ UNCHANGED <<scheme, payload, curve, pieces, spoilt, spoils>>
  BY DEF HybridRecover
<1>2. S \in SUBSET Present /\ S # {}
  BY QuorumFacts
<1>3. curve # Lost
  BY <1>2, PresentFacts
<1>4. payload \in Payloads /\ curve \in [1 .. Needed -> Field]
  BY <1>1, <1>3 DEF CodesInv, SceneTypes, HybridPieces
<1>5. outcome'.result \in {payload, NoContent}
  BY <1>1 DEF Decrypt
<1>6. ASSUME S \cap spoilt = {} PROVE outcome'.result = payload
  <2>1. \A i \in S: pieces[i] = HybridPiece(curve, payload, i)
    BY <1>1, <1>2, <1>3, <1>6 DEF CodesInv, HybridPieces
  <2>2. ASSUME NEW i \in S
        PROVE  /\ pieces[i].chunk = Chunk(payload, i) /\ pieces[i].hash = Chunk(payload, i)
               /\ pieces[i].key = Evaluate(curve, i)
    <3>1. pieces[i] = HybridPiece(curve, payload, i)
      BY <2>1
    <3>2. /\ HybridPiece(curve, payload, i).chunk = Chunk(payload, i)
          /\ HybridPiece(curve, payload, i).hash = Chunk(payload, i)
          /\ HybridPiece(curve, payload, i).key = Evaluate(curve, i)
      BY DEF HybridPiece
    <3> QED BY <3>1, <3>2
  <2>3. RsDecode(S) = payload
    BY <1>4, <2>2, RsDecodeFacts
  <2>4. KeyRecover(S) = curve[1]
    BY <1>4, <2>2, KeyFacts
  <2>5. \A i \in S: pieces[i].hash = pieces[i].chunk
    BY <2>2
  <2> QED BY <1>1, <2>3, <2>4, <2>5 DEF Decrypt
<1>7. outcome'.intact = (S \cap spoilt = {})
  BY <1>1
<1>8. outcome'.intact => outcome'.result = payload
  BY <1>6, <1>7
<1>9. HybridRecovers'
  BY <1>1, <1>5, <1>8 DEF HybridRecovers
<1>10. Present' = Present
  BY <1>1 DEF Present
<1>11. SceneTypes' /\ VssPieces' /\ HybridPieces'
  BY <1>1, <1>10 DEF CodesInv, SceneTypes, VssPieces, HybridPieces
<1> QED BY <1>9, <1>11 DEF CodesInv

LEMMA LosePieceInv == ASSUME CodesInv, LosePiece PROVE CodesInv'
<1>1. PICK j \in Present:
        /\ pieces' = [pieces EXCEPT ![j] = Lost] /\ spoilt' = spoilt \ {j}
        /\ UNCHANGED <<scheme, payload, curve, outcome>>
  BY DEF LosePiece
<1>2. j \in AllIndices /\ DOMAIN pieces = AllIndices
  BY PresentFacts DEF CodesInv, SceneTypes
<1>3. Present' = Present \ {j}
  <2>1. \A i \in AllIndices: pieces'[i] # Lost <=> i \in Present \ {j}
    BY <1>1, <1>2, PresentFacts
  <2> QED BY <2>1, PresentFacts DEF Present
<1>4. \A i \in Present': i \in Present /\ pieces'[i] = pieces[i] /\ (i \in spoilt' <=> i \in spoilt)
  BY <1>1, <1>2, <1>3, PresentFacts
<1>5. SceneTypes'
  BY <1>1, <1>2 DEF CodesInv, SceneTypes
<1>6. VssPieces'
  <2> SUFFICES ASSUME scheme = "vss" PROVE VssPieces'
    BY <1>1 DEF VssPieces
  <2>1. spoilt' \subseteq Present'
    BY <1>1, <1>3 DEF CodesInv, VssPieces
  <2>2. curve # Lost => /\ curve \in Polynomials /\ Len(curve) <= Needed
                        /\ \A i \in Present: /\ pieces[i] \in VssPiece
                                             /\ i \notin spoilt <=> pieces[i] = Share(curve, i)
    BY DEF CodesInv, VssPieces
  <2>3. curve # Lost => \A i \in Present': /\ pieces'[i] \in VssPiece
                                           /\ i \notin spoilt' <=> pieces'[i] = Share(curve, i)
    BY <1>4, <2>2
  <2>4. curve' = curve
    BY <1>1
  <2> QED BY <2>1, <2>2, <2>3, <2>4 DEF VssPieces
<1>7. HybridPieces'
  <2> SUFFICES ASSUME scheme = "hybrid", curve # Lost PROVE HybridPieces'
    BY <1>1 DEF HybridPieces
  <2>1. /\ curve \in [1 .. Needed -> Field]
        /\ \A i \in Present: i \notin spoilt => pieces[i] = HybridPiece(curve, payload, i)
    BY DEF CodesInv, HybridPieces
  <2>2. \A i \in Present': i \notin spoilt' => pieces'[i] = HybridPiece(curve, payload, i)
    BY <1>4, <2>1
  <2>3. curve' = curve /\ payload' = payload
    BY <1>1
  <2> QED BY <2>1, <2>2, <2>3 DEF HybridPieces
<1>8. HybridRecovers'
  BY <1>1 DEF CodesInv, HybridRecovers
<1> QED BY <1>5, <1>6, <1>7, <1>8 DEF CodesInv

(* What a holder changed is no share any more.                             *)
LEMMA ChangePieceInv == ASSUME scheme = "vss" => PowersOfTau, CodesInv, ChangePiece PROVE CodesInv'
<1>1. PICK j \in Present, y \in Field:
        /\ spoilt' = spoilt \cup {j}
        /\ IF scheme = "vss"
           THEN \/ y # Evaluate(curve, j) /\ pieces' = [pieces EXCEPT ![j].value = y]
                \/ LET proof == AddPolynomials(pieces[j].proof, <<y>>)
                   IN proof # Share(curve, j).proof /\ pieces' = [pieces EXCEPT ![j].proof = proof]
           ELSE \/ y # Evaluate(curve, j) /\ pieces' = [pieces EXCEPT ![j].key = y]
                \/ \E hashToo \in BOOLEAN:
                     LET chunk == [pieces[j].chunk EXCEPT ![1] = y]
                     IN /\ chunk # Chunk(payload, j)
                        /\ pieces' = [pieces EXCEPT ![j].chunk = chunk,
                                                    ![j].hash = IF hashToo THEN chunk ELSE @]
        /\ UNCHANGED <<scheme, payload, curve, outcome>>
  BY DEF ChangePiece
<1>2. j \in AllIndices /\ j \in Field /\ DOMAIN pieces = AllIndices /\ curve # Lost
  BY PresentFacts DEF CodesInv, SceneTypes
<1>3. DOMAIN pieces' = AllIndices /\ \A i \in AllIndices: i # j => pieces'[i] = pieces[i]
  <2>1. CASE scheme = "vss"
    BY <1>1, <1>2, <2>1
  <2>2. CASE scheme # "vss"
    BY <1>1, <1>2, <2>2
  <2> QED BY <2>1, <2>2
<1>4. \A i \in Present': i # j => i \in Present
  BY <1>3, PresentFacts DEF Present
<1>5. SceneTypes'
  BY <1>1, <1>2, <1>3 DEF CodesInv, SceneTypes
<1>6. VssPieces'
  <2> SUFFICES ASSUME scheme = "vss" PROVE VssPieces'
    BY <1>1 DEF VssPieces
  <2>1. /\ curve \in Polynomials /\ Len(curve) <= Needed /\ spoilt \subseteq Present
        /\ \A i \in Present: pieces[i] \in VssPiece /\ (i \notin spoilt <=> pieces[i] = Share(curve, i))
    BY <1>2 DEF CodesInv, VssPieces
  <2>2. pieces'[j] \in VssPiece /\ pieces'[j] # Share(curve, j)
    <3> DEFINE p == AddPolynomials(pieces[j].proof, <<y>>)
    <3>1. pieces[j].value \in Field /\ pieces[j].proof \in Polynomials /\ pieces[j] \in VssPiece
      BY <2>1 DEF VssPiece
    <3>2. p \in Polynomials
      <4>1. <<y>> \in Seq(Field) /\ pieces[j].proof \in Seq(Field)
        BY <3>1 DEF Polynomials
      <4> QED BY <4>1, AddFacts
    <3>3. Share(curve, j).value = Evaluate(curve, j)
      BY DEF Share
    <3> HIDE DEF p
    <3>4. CASE y # Evaluate(curve, j) /\ pieces' = [pieces EXCEPT ![j].value = y]
      <4>1. pieces'[j] = [pieces[j] EXCEPT !.value = y]
        BY <1>2, <3>4
      <4>2. pieces'[j] \in VssPiece /\ pieces'[j].value = y
        BY <3>1, <4>1 DEF VssPiece
      <4> QED BY <3>3, <3>4, <4>2
    <3>5. CASE p # Share(curve, j).proof /\ pieces' = [pieces EXCEPT ![j].proof = p]
      <4>1. pieces'[j] = [pieces[j] EXCEPT !.proof = p]
        BY <1>2, <3>5
      <4>2. pieces'[j] \in VssPiece /\ pieces'[j].proof = p
        BY <3>1, <3>2, <4>1 DEF VssPiece
      <4> QED BY <3>5, <4>2
    <3> QED BY <1>1, <3>4, <3>5 DEF p
  <2>3. j \in Present'
    BY <1>2, <2>2, NotLost DEF Present
  <2>4. spoilt' \subseteq Present'
    <3> SUFFICES ASSUME NEW i \in spoilt', i # j PROVE i \in Present'
      BY <2>3
    <3>1. i \in Present /\ i \in AllIndices
      BY <1>1, <2>1, PresentFacts
    <3>2. pieces'[i] # Lost
      BY <1>3, <3>1, PresentFacts
    <3> QED BY <3>1, <3>2 DEF Present
  <2>5. \A i \in Present': /\ pieces'[i] \in VssPiece
                           /\ i \notin spoilt' <=> pieces'[i] = Share(curve, i)
    <3> SUFFICES ASSUME NEW i \in Present'
                 PROVE  pieces'[i] \in VssPiece /\ (i \notin spoilt' <=> pieces'[i] = Share(curve, i))
      OBVIOUS
    <3>1. CASE i = j
      BY <1>1, <2>2, <3>1
    <3>2. CASE i # j
      <4>1. i \in Present /\ pieces'[i] = pieces[i] /\ (i \in spoilt' <=> i \in spoilt)
        BY <1>1, <1>3, <1>4, <3>2, PresentFacts
      <4> QED BY <2>1, <4>1
    <3> QED BY <3>1, <3>2
  <2>6. curve' = curve
    BY <1>1
  <2> QED BY <2>1, <2>4, <2>5, <2>6 DEF VssPieces
<1>7. HybridPieces'
  <2> SUFFICES ASSUME scheme = "hybrid" PROVE HybridPieces'
    BY <1>1 DEF HybridPieces
  <2>1. /\ curve \in [1 .. Needed -> Field]
        /\ \A i \in Present: i \notin spoilt => pieces[i] = HybridPiece(curve, payload, i)
    BY <1>2 DEF CodesInv, HybridPieces
  <2>2. \A i \in Present': i \notin spoilt' => pieces'[i] = HybridPiece(curve, payload, i)
    <3> SUFFICES ASSUME NEW i \in Present', i \notin spoilt'
                 PROVE  pieces'[i] = HybridPiece(curve, payload, i)
      OBVIOUS
    <3>1. i # j /\ i \notin spoilt
      BY <1>1
    <3>2. i \in Present /\ pieces'[i] = pieces[i]
      BY <1>3, <1>4, <3>1, PresentFacts
    <3> QED BY <2>1, <3>1, <3>2
  <2>3. curve' = curve /\ payload' = payload
    BY <1>1
  <2> QED BY <2>1, <2>2, <2>3 DEF HybridPieces
<1>8. HybridRecovers'
  BY <1>1 DEF CodesInv, HybridRecovers
<1> QED BY <1>5, <1>6, <1>7, <1>8 DEF CodesInv

LEMMA StutterInv == ASSUME CodesInv, UNCHANGED codesVars PROVE CodesInv'
<1>1. /\ scheme' = scheme /\ payload' = payload /\ curve' = curve /\ pieces' = pieces
      /\ spoilt' = spoilt /\ outcome' = outcome
  BY DEF codesVars
<1>2. Present' = Present
  BY <1>1 DEF Present
<1> QED BY <1>1, <1>2 DEF CodesInv, SceneTypes, VssPieces, HybridPieces, HybridRecovers

LEMMA CodesStep == ASSUME PowersOfTau, CodesInv, [CodesNext]_codesVars PROVE CodesInv'
<1>1. CASE VssSplit
  BY <1>1, VssSplitInv
<1>2. CASE VssRecover
  BY <1>2, VssRecoverInv
<1>3. CASE VssProve
  BY <1>3, VssProveInv
<1>4. CASE RegenerateShare
  BY <1>4, RegenerateShareInv
<1>5. CASE HybridSplit
  BY <1>5, HybridSplitInv
<1>6. CASE HybridRecover
  BY <1>6, HybridRecoverInv
<1>7. CASE LosePiece
  BY <1>7, LosePieceInv
<1>8. CASE ChangePiece
  BY <1>8, ChangePieceInv
<1>9. CASE UNCHANGED codesVars
  BY <1>9, StutterInv
<1> QED BY <1>1, <1>2, <1>3, <1>4, <1>5, <1>6, <1>7, <1>8, <1>9 DEF CodesNext

(* Whatever is split, proved, regenerated, lost and changed, in whatever   *)
(* order: a stored piece is a share of the content's polynomial exactly    *)
(* when its holder left it alone (vss_split, regenerate_share,             *)
(* generate_proof_for_challenge).                                          *)
THEOREM CodesInvariant == ASSUME PowersOfTau PROVE CodesSpec => []CodesInv
<1>1. CodesInit => CodesInv
  BY CodesInitInv
<1>2. CodesInv /\ [CodesNext]_codesVars => CodesInv'
  BY CodesStep
<1> QED BY <1>1, <1>2, PTL DEF CodesSpec

LEMMA SharesVerifyFacts == ASSUME PowersOfTau, CodesInv PROVE SharesVerify
<1> SUFFICES ASSUME scheme = "vss", NEW i \in Present
             PROVE  Opens(Commitment(curve), i, pieces[i]) <=> i \notin spoilt
  BY DEF SharesVerify
<1>1. curve # Lost /\ i \in Field
  BY PresentFacts
<1>2. /\ curve \in Polynomials /\ Len(curve) <= Needed
      /\ pieces[i] \in VssPiece /\ (i \notin spoilt <=> pieces[i] = Share(curve, i))
  BY <1>1 DEF CodesInv, VssPieces
<1>3. Opens(Commitment(curve), i, pieces[i]) <=> pieces[i] = Share(curve, i)
  BY <1>1, <1>2, ShareFacts
<1> QED BY <1>2, <1>3

(* verify_kzg_proof accepts what a holder kept and what a repair made, and *)
(* refuses every share whose value or proof was changed.                   *)
THEOREM SharesAlwaysVerify == ASSUME PowersOfTau PROVE CodesSpec => []SharesVerify
<1>1. CodesInv => SharesVerify
  BY SharesVerifyFacts
<1> QED BY <1>1, CodesInvariant, PTL

(* A threshold of untouched shares gives the polynomial that was split,    *)
(* whichever they are and whatever was regenerated in between.             *)
UntouchedQuorums ==
  scheme = "vss" => \A S \in Quorums: S \cap spoilt = {} => LagrangeInterpolate(Points(S)) = curve

(* vss_recover and regenerate_share work on the polynomial of the split as *)
(* long as the shares they are given were left alone.                      *)
THEOREM QuorumsAgree == ASSUME PowersOfTau PROVE CodesSpec => []UntouchedQuorums
<1>1. CodesInv => UntouchedQuorums
  BY QuorumCurve DEF UntouchedQuorums
<1> QED BY <1>1, CodesInvariant, PTL
-----------------------------------------------------------------------------
(* Hybrid shards need no trusted setup: their part of the invariant keeps  *)
(* itself.                                                                 *)
HybridInv == SceneTypes /\ HybridPieces /\ HybridRecovers

LEMMA HybridSceneStep ==
  ASSUME HybridInv, scheme = "hybrid", [CodesNext]_codesVars
  PROVE  HybridInv'
<1>1. CodesInv
  BY DEF HybridInv, CodesInv, VssPieces
<1>2. CASE HybridSplit
  BY <1>1, <1>2, HybridSplitInv DEF CodesInv, HybridInv
<1>3. CASE HybridRecover
  BY <1>1, <1>3, HybridRecoverInv DEF CodesInv, HybridInv
<1>4. CASE LosePiece
  BY <1>1, <1>4, LosePieceInv DEF CodesInv, HybridInv
<1>5. CASE ChangePiece
  <2>1. scheme = "vss" => PowersOfTau
    OBVIOUS
  <2> QED BY <1>1, <1>5, <2>1, ChangePieceInv DEF CodesInv, HybridInv
<1>6. CASE UNCHANGED codesVars
  BY <1>1, <1>6, StutterInv DEF CodesInv, HybridInv
<1>7. ~ VssSplit /\ ~ VssRecover /\ ~ VssProve /\ ~ RegenerateShare
  BY DEF VssSplit, VssRecover, VssProve, RegenerateShare
<1> QED BY <1>2, <1>3, <1>4, <1>5, <1>6, <1>7 DEF CodesNext

LEMMA VssSceneStep ==
  ASSUME HybridInv, scheme # "hybrid", [CodesNext]_codesVars
  PROVE  HybridInv'
<1>1. SceneTypes
  BY DEF HybridInv
<1>2. CASE VssSplit
  <2> DEFINE scalars == EncodeToScalars(payload)
  <2>1. PICK random \in [1 .. Needed - Len(scalars) -> Field \ {0}]:
          /\ curve' = ConstructPolynomial(scalars, random)
          /\ pieces' = [i \in AllIndices |->
                          IF i \in Indices THEN Share(ConstructPolynomial(scalars, random), i) ELSE Lost]
    BY <1>2 DEF VssSplit
  <2>2. scalars \in Seq(Field) /\ Len(scalars) <= Needed
    BY <1>1, <1>2, ScalarFacts DEF VssSplit, SceneTypes
  <2> HIDE DEF scalars
  <2>3. ConstructPolynomial(scalars, random) # Lost
    BY <2>2, SplitFacts, NotLost
  <2>4. scheme' = scheme /\ payload' = payload
    BY <1>2 DEF VssSplit
  <2> QED BY <1>1, <2>1, <2>3, <2>4 DEF SceneTypes, HybridInv, HybridPieces, HybridRecovers
<1>3. CASE UNCHANGED <<scheme, payload, curve, pieces>>
  BY <1>1, <1>3 DEF SceneTypes, HybridInv, HybridPieces, HybridRecovers
<1>4. CASE /\ UNCHANGED <<scheme, payload, curve>> /\ curve # Lost
           /\ DOMAIN pieces' = DOMAIN pieces
  BY <1>1, <1>4 DEF SceneTypes, HybridInv, HybridPieces, HybridRecovers
<1>5. \A i \in Present: curve # Lost
  BY <1>1 DEF SceneTypes, Present
<1>6. CASE VssProve
  BY <1>4, <1>5, <1>6 DEF VssProve
<1>7. CASE RegenerateShare
  <2>1. \A S \in Quorums: S \in SUBSET Present /\ S # {}
    BY QuorumFacts
  <2> QED BY <1>4, <1>5, <1>7, <2>1 DEF RegenerateShare
<1>8. CASE LosePiece
  BY <1>4, <1>5, <1>8 DEF LosePiece
<1>9. CASE ChangePiece
  <2>1. PICK j \in Present: UNCHANGED <<scheme, payload, curve>> /\ DOMAIN pieces' = DOMAIN pieces
    BY <1>9 DEF ChangePiece
  <2> QED BY <1>4, <1>5, <2>1
<1>10. CASE VssRecover
  BY <1>3, <1>10 DEF VssRecover
<1>11. CASE UNCHANGED codesVars
  BY <1>3, <1>11 DEF codesVars
<1>12. CASE HybridSplit \/ HybridRecover
  BY <1>12 DEF HybridSplit, HybridRecover
<1> QED BY <1>2, <1>6, <1>7, <1>8, <1>9, <1>10, <1>11, <1>12 DEF CodesNext

(* Any threshold of hybrid shards nobody changed gives the content back,   *)
(* and no other gives anything else (rs_encode, rs_decode, key_split,      *)
(* key_recover), in every field and for every threshold.                   *)
THEOREM HybridAlwaysRecovers == CodesSpec => []HybridRecovers
<1>1. CodesInit => HybridInv
  BY CodesInitInv DEF CodesInv, HybridInv
<1>2. HybridInv /\ [CodesNext]_codesVars => HybridInv'
  BY HybridSceneStep, VssSceneStep
<1>3. HybridInv => HybridRecovers
  BY DEF HybridInv
<1> QED BY <1>1, <1>2, <1>3, PTL DEF CodesSpec
=============================================================================
