---------------------------- MODULE MCShareCodes ----------------------------
(***************************************************************************)
(* The codes over small fields: verifiable shares over the numbers modulo  *)
(* 5, with bytes of one bit, two of them to a scalar; hybrid shards over   *)
(* the field of 4 elements, whose bytes are its elements as those of the   *)
(* code are those of GF(256).                                              *)
(***************************************************************************)
EXTENDS ShareCodes, Bitwise

\* Fr: arithmetic modulo a prime.
PlusModulo(a, b) == (a + b) % Order
TimesModulo(a, b) == (a * b) % Order

\* gf256_mul, for bytes of so many bits: shift, and reduce by the polynomial
\* whose low bits are given.
GaloisTimes(bits, reduction, x, y) ==
  LET turn[i \in 0 .. bits] ==
        IF i = 0 THEN [a |-> x, b |-> y, result |-> 0]
        ELSE LET t == turn[i - 1]
                 shifted == (2 * t.a) % 2 ^ bits
             IN [a |-> IF t.a >= 2 ^ (bits - 1) THEN shifted ^^ reduction ELSE shifted,
                 b |-> t.b \div 2,
                 result |-> IF t.b % 2 = 1 THEN t.result ^^ t.a ELSE t.result]
  IN turn[bits].result

\* The field of 4 elements, tabulated.
FourPlus == [a, b \in 0 .. 3 |-> a ^^ b]
FourTimes == [a, b \in 0 .. 3 |-> GaloisTimes(2, 3, a, b)]
PlusFour(a, b) == FourPlus[a, b]
TimesFour(a, b) == FourTimes[a, b]

\* init_test_srs: powers of tau.
TestSetup == [i \in 1 .. 4 |-> [j \in 1 .. i |-> IF j = i THEN 1 ELSE 0]]

\* trusted_setup.txt: the points of the Lagrange basis over the four roots of
\* unity, then (after those of G2) the powers of tau.
LagrangePoints == [i \in 1 .. 4 |->
  MultiplyPolynomials(<<FieldInverse(Denominator(1 .. 4, i))>>, Basis(1 .. 4, i))]
CeremonySetup == LagrangePoints \o TestSetup

\* Contents of one scalar, of two, and of two with a short last chunk.
Contents == {<<1>>, <<1, 0, 1>>, <<1, 1, 0, 1>>}

\* Contents of two scalars the second of which is 0.
EndingInZeros == {<<1, 0, 1>>, <<1, 1, 0>>}

\* Ciphertexts of one byte, and of three or four: two to a chunk, with and
\* without a short last one.
Ciphertexts == {<<1>>, <<3, 0, 2>>, <<2, 1, 0, 3>>}

\* Three shards, of which two are needed: an index is not 0.
Shards == INSTANCE ShareCodes
  WITH Order <- 4, Plus <- PlusFour, Times <- TimesFour, ByteBase <- 4, ChunkBytes <- 1,
       Dealt <- 3, Spares <- {}, Payloads <- Ciphertexts

\* Both fields are fields.
ASSUME SmallFields == FieldLaws /\ Shards!FieldLaws

\* So is GF(256).  Shifting, reducing and XOR make gf256_mul a sum over the bits
\* of each factor, so the laws of bits are those of bytes; in a field of 256
\* elements the power 254 that gf256_inv raises to is the inverse.
Bytes == 0 .. 255
Bits == {2 ^ i : i \in 0 .. 7}
ByteTimes(a, b) == GaloisTimes(8, 27, a, b)
ASSUME ByteField ==
  /\ \A a, b \in Bits: ByteTimes(a, b) = ByteTimes(b, a)
  /\ \A a, b, c \in Bits: ByteTimes(ByteTimes(a, b), c) = ByteTimes(a, ByteTimes(b, c))
  /\ \A a \in Bits: ByteTimes(a, 1) = a
  /\ \A a \in Bytes \ {0}: \E b \in Bytes: ByteTimes(a, b) = 1
=============================================================================
