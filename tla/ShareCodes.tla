----------------------------- MODULE ShareCodes -----------------------------
(***************************************************************************)
(* The codes that spread a post over storage nodes, over a finite field    *)
(* whose addition and multiplication are parameters: the scalars Fr for    *)
(* verifiable shares, GF(256) for hybrid shards.                           *)
(* Verifiable shares: the content is a polynomial, a share its value at an *)
(* index, with a KZG proof; lost shares are made again from others.        *)
(* Hybrid shards: the ciphertext is spread by Reed-Solomon, its key by     *)
(* Shamir's scheme.  A group element [p(tau)] stands for the polynomial p: *)
(* nobody knows tau, so equal elements mean equal polynomials.             *)
(***************************************************************************)
EXTENDS Integers, Sequences, SequencesExt, FiniteSetsExt

CONSTANTS
  Order,       \* the number of elements of the field, written 0 .. Order - 1
  Plus(_, _),  \* its addition: modulo the order in Fr, XOR in GF(256)
  Times(_, _), \* its multiplication
  Needed,      \* threshold: shares it takes
  Dealt,       \* share_count
  Spares,      \* indices repairs may use
  Payloads,    \* contents: sequences of bytes
  ByteBase,    \* 256
  ChunkBytes,  \* BYTES_PER_SCALAR
  SetupFile,   \* G1 points of the trusted setup, in the order of its lines
  NumG1,       \* the count in its first line
  MaxSpoils,   \* bound on shares lost or changed
  Lost

ASSUME CodesAssumption ==
  /\ {Order, Needed, Dealt, ByteBase, ChunkBytes} \subseteq Nat \ {0} /\ MaxSpoils \in Nat
  /\ Needed >= 2 /\ Needed <= Dealt /\ Dealt < Order
  /\ ByteBase <= Order /\ ByteBase ^ ChunkBytes <= Order
  /\ Spares \subseteq Dealt + 1 .. Order - 1
  /\ NumG1 \in Needed .. Len(SetupFile)
  /\ SetupFile \in Seq(Seq(0 .. Order - 1))
  /\ Payloads \subseteq Seq(0 .. ByteBase - 1) \ {<<>>}

Field == 0 .. Order - 1

FieldLaws ==
  /\ \A a, b \in Field:
       /\ Plus(a, b) \in Field /\ Plus(a, b) = Plus(b, a)
       /\ Times(a, b) \in Field /\ Times(a, b) = Times(b, a)
  /\ \A a, b, c \in Field:
       /\ Plus(Plus(a, b), c) = Plus(a, Plus(b, c))
       /\ Times(Times(a, b), c) = Times(a, Times(b, c))
       /\ Times(a, Plus(b, c)) = Plus(Times(a, b), Times(a, c))
  /\ \A a \in Field: Plus(a, 0) = a /\ Times(a, 1) = a /\ \E b \in Field: Plus(a, b) = 0
  /\ \A a \in Field \ {0}: \E b \in Field: Times(a, b) = 1

\* Fr and GF(256) are fields.
ASSUME FieldAssumption == FieldLaws

VARIABLES
  scheme,   \* "vss" or "hybrid"
  payload,  \* the content, compressed if that helps
  curve,    \* its polynomial, or that of the key; Lost before the split
  pieces,   \* [index -> [value, proof]] or [index -> [chunk, key]], Lost where there is none
  spoilt,   \* history: indices whose piece was changed by its holder
  spoils,   \* pieces lost or changed so far
  outcome   \* the last recovery: [intact, result]

codesVars == <<scheme, payload, curve, pieces, spoilt, spoils, outcome>>

Indices == 1 .. Dealt
AllIndices == Indices \cup Spares

\* No polynomial and no piece is Lost.
ASSUME LostAssumption ==
  /\ Lost \notin Seq(Field) \cup [value: Field, proof: Seq(Field)]
  /\ Lost \notin [chunk: Seq(Field), hash: Seq(Field), key: Field]

NoContent == <<>>    \* contents are never empty
NoOutcome == [intact |-> FALSE, result |-> NoContent]

CodesInit ==
  /\ scheme \in {"vss", "hybrid"} /\ payload \in Payloads
  /\ curve = Lost /\ pieces = [i \in AllIndices |-> Lost]
  /\ spoilt = {} /\ spoils = 0 /\ outcome = NoOutcome
-----------------------------------------------------------------------------
(* Polynomials: sequences of coefficients, the constant first, the last one
   never 0. *)

\* The sum of a sequence of elements, from the last one on.
FieldSum(f) ==
  LET sum[i \in 1 .. Len(f) + 1] == IF i = Len(f) + 1 THEN 0 ELSE Plus(f[i], sum[i + 1])
  IN sum[1]

Negative(a) == CHOOSE b \in Field: Plus(a, b) = 0
FieldInverse(a) == CHOOSE b \in Field: Times(a, b) = 1
Coefficient(p, i) == IF i \in DOMAIN p THEN p[i] ELSE 0

Trimmed(p) == SubSeq(p, 1, Max({0} \cup {i \in DOMAIN p: p[i] # 0}))

\* Horner's scheme, from the highest coefficient down.
Horner(f, x) ==
  LET h[i \in 1 .. Len(f) + 1] ==
        IF i = Len(f) + 1 THEN 0 ELSE Plus(f[i], Times(x, h[i + 1]))
  IN h

Evaluate(f, x) == Horner(f, x)[1]

AddPolynomials(p, q) ==
  Trimmed([i \in 1 .. Max({Len(p), Len(q)}) |-> Plus(Coefficient(p, i), Coefficient(q, i))])

MultiplyPolynomials(p, q) ==
  Trimmed([k \in 1 .. Len(p) + Len(q) |->
             FieldSum([i \in DOMAIN p |-> Times(p[i], Coefficient(q, k + 1 - i))])])

Basis(xs, at) ==
  FoldSet(LAMBDA x, acc: MultiplyPolynomials(acc, <<Negative(x), 1>>), <<1>>, xs \ {at})
Denominator(xs, at) ==
  FoldSet(LAMBDA x, acc: Times(acc, Plus(at, Negative(x))), 1, xs \ {at})

\* Points are a function from each x to its y.
LagrangeInterpolate(points) ==
  FoldSet(LAMBDA at, acc:
            LET scale == Times(points[at], FieldInverse(Denominator(DOMAIN points, at)))
            IN AddPolynomials(acc, MultiplyPolynomials(<<scale>>, Basis(DOMAIN points, at))),
          <<>>, DOMAIN points)

\* (f - f(x)) / (X - x): the division leaves what Horner's scheme passes through.
Quotient(f, x) == Trimmed([i \in 1 .. Len(f) - 1 |-> Horner(f, x)[i + 1]])

\* load_srs_from_ceremony_text takes the first NumG1 points for powers of tau.
PowersOfG1 == SubSeq(SetupFile, 1, NumG1)

\* compute_commitment: the sum of f[i] times the i-th power.
Commitment(f) ==
  Trimmed([k \in 1 .. Max({0} \cup {Len(PowersOfG1[i]) : i \in DOMAIN f}) |->
             FieldSum([i \in DOMAIN f |-> Times(f[i], Coefficient(PowersOfG1[i], k))])])

Share(f, i) == [value |-> Evaluate(f, i), proof |-> Commitment(Quotient(f, i))]

\* verify_kzg_proof: C - [y] against the proof times [tau - x].
Opens(commitment, i, piece) ==
  AddPolynomials(commitment, <<Negative(piece.value)>>)
    = MultiplyPolynomials(piece.proof, <<Negative(i), 1>>)
-----------------------------------------------------------------------------
(* Bytes and scalars. *)

\* from_le_bytes_mod_order: bytes are the digits of a number, the last the highest.
LittleEndian(bytes) ==
  LET number[j \in 1 .. Len(bytes) + 1] ==
        IF j = Len(bytes) + 1 THEN 0 ELSE bytes[j] + ByteBase * number[j + 1]
  IN number[1] % Order

\* The last chunk is filled up with 0.
EncodeToScalars(bytes) ==
  [i \in 1 .. (Len(bytes) + ChunkBytes - 1) \div ChunkBytes |->
     LittleEndian([j \in 1 .. ChunkBytes |-> Coefficient(bytes, (i - 1) * ChunkBytes + j)])]

DecodeFromScalars(scalars, len) ==
  [j \in 1 .. Min({len, ChunkBytes * Len(scalars)}) |->
     (scalars[((j - 1) \div ChunkBytes) + 1] \div ByteBase ^ ((j - 1) % ChunkBytes)) % ByteBase]

\* Random coefficients fill up to the threshold; they are never 0.
ConstructPolynomial(scalars, random) == Trimmed(scalars \o random)

VssSplit ==
  LET scalars == EncodeToScalars(payload)
  IN /\ scheme = "vss" /\ curve = Lost /\ Len(scalars) <= Needed
     /\ \E random \in [1 .. Needed - Len(scalars) -> Field \ {0}]:
          LET f == ConstructPolynomial(scalars, random)
          IN /\ curve' = f
             /\ pieces' = [i \in AllIndices |-> IF i \in Indices THEN Share(f, i) ELSE Lost]
     /\ UNCHANGED <<scheme, payload, spoilt, spoils, outcome>>

Present == {i \in AllIndices: pieces[i] # Lost}
Quorums == {S \in SUBSET Present: Cardinality(S) = Needed}
Points(S) == [i \in S |-> pieces[i].value]

VssRecover == \E S \in Quorums:
  /\ scheme = "vss"
  /\ outcome' = [intact |-> S \cap spoilt = {},
                 result |-> DecodeFromScalars(LagrangeInterpolate(Points(S)), Len(payload))]
  /\ UNCHANGED <<scheme, payload, curve, pieces, spoilt, spoils>>

(* A slip, used by the mutation runs only: the donors are believed. *)
AnyPolynomial(f) == f # Lost

SameCommitment(f) == Commitment(f) = Commitment(curve)

\* A polynomial that commits to something else is refused.
RegenerateShare == \E S \in Quorums, new \in Spares \ Present:
  LET f == LagrangeInterpolate(Points(S))
  IN /\ scheme = "vss" /\ SameCommitment(f)
     /\ pieces' = [pieces EXCEPT ![new] = Share(f, new)]
     /\ UNCHANGED <<scheme, payload, curve, spoilt, spoils, outcome>>

\* generate_proof_for_challenge: a new proof for the value as it is stored.
ChallengeProof(f, i, value) == [value |-> value, proof |-> Commitment(Quotient(f, i))]

\* A holder proves its share from the coefficients.
VssProve == \E i \in Present:
  /\ scheme = "vss"
  /\ pieces' = [pieces EXCEPT ![i] = ChallengeProof(curve, i, @.value)]
  /\ spoilt' = IF pieces[i].value = Evaluate(curve, i) THEN spoilt \ {i} ELSE spoilt
  /\ UNCHANGED <<scheme, payload, curve, spoils, outcome>>
-----------------------------------------------------------------------------
(* Hybrid shards: chunk i - 1 and key share i. *)

(* A slip, used by the mutation runs only: the last, shorter chunk is forgotten. *)
ShardSizeDown(len) == Max({1, len \div Needed})

ShardSize(len) == (len + Needed - 1) \div Needed

\* rs_encode: the first chunks are the data, the others lie on the same curves.
DataChunk(bytes, i) ==
  [j \in 1 .. ShardSize(Len(bytes)) |-> Coefficient(bytes, (i - 1) * ShardSize(Len(bytes)) + j)]
Chunk(bytes, i) ==
  [j \in 1 .. ShardSize(Len(bytes)) |->
     Evaluate(LagrangeInterpolate([d \in 1 .. Needed |-> DataChunk(bytes, d)[j]]), i)]

\* key_split: the key is the constant, the other coefficients are random.
KeySplit(coefficients) == [i \in Indices |-> Evaluate(coefficients, i)]

HybridSplit == \E coefficients \in [1 .. Needed -> Field]:
  /\ scheme = "hybrid" /\ curve = Lost
  /\ curve' = coefficients
  /\ pieces' = [i \in AllIndices |->
                  IF i \in Indices
                  THEN [chunk |-> Chunk(payload, i), hash |-> Chunk(payload, i),
                        key |-> KeySplit(coefficients)[i]]
                  ELSE Lost]
  /\ UNCHANGED <<scheme, payload, spoilt, spoils, outcome>>

KeyRecover(S) == Evaluate(LagrangeInterpolate([i \in S |-> pieces[i].key]), 0)

\* rs_decode: the data chunks again, without the padding.
RsDecode(S) ==
  LET size == ShardSize(Len(payload))
      At(j) == LagrangeInterpolate([i \in S |-> pieces[i].chunk[j]])
  IN [k \in 1 .. Min({Len(payload), Needed * size}) |->
        Evaluate(At(((k - 1) % size) + 1), ((k - 1) \div size) + 1)]

\* AES-GCM: with the wrong key, or changed, a ciphertext is refused.
Decrypt(ciphertext, key) ==
  IF key = curve[1] /\ ciphertext = payload THEN payload ELSE NoContent

HybridRecover == \E S \in Quorums:
  /\ scheme = "hybrid"
  /\ outcome' = [intact |-> S \cap spoilt = {},
                 result |-> IF \A i \in S: pieces[i].hash = pieces[i].chunk
                            THEN Decrypt(RsDecode(S), KeyRecover(S))
                            ELSE NoContent]
  /\ UNCHANGED <<scheme, payload, curve, pieces, spoilt, spoils>>
-----------------------------------------------------------------------------
(* Storage nodes lose pieces and change them. *)
Spoil == spoils < MaxSpoils /\ spoils' = spoils + 1

LosePiece == \E i \in Present:
  /\ Spoil /\ pieces' = [pieces EXCEPT ![i] = Lost] /\ spoilt' = spoilt \ {i}
  /\ UNCHANGED <<scheme, payload, curve, outcome>>

ChangePiece == \E i \in Present, y \in Field:
  /\ Spoil /\ spoilt' = spoilt \cup {i}
  /\ IF scheme = "vss"
     THEN \/ y # Evaluate(curve, i) /\ pieces' = [pieces EXCEPT ![i].value = y]
          \/ LET proof == AddPolynomials(pieces[i].proof, <<y>>)
             IN proof # Share(curve, i).proof /\ pieces' = [pieces EXCEPT ![i].proof = proof]
     ELSE \/ y # Evaluate(curve, i) /\ pieces' = [pieces EXCEPT ![i].key = y]
          \/ \E hashToo \in BOOLEAN:
               LET chunk == [pieces[i].chunk EXCEPT ![1] = y]
               IN /\ chunk # Chunk(payload, i)
                  /\ pieces' = [pieces EXCEPT ![i].chunk = chunk,
                                              ![i].hash = IF hashToo THEN chunk ELSE @]
  /\ UNCHANGED <<scheme, payload, curve, outcome>>

CodesNext ==
  \/ VssSplit \/ VssRecover \/ VssProve \/ RegenerateShare \/ HybridSplit \/ HybridRecover
  \/ LosePiece \/ ChangePiece

CodesSpec == CodesInit /\ [][CodesNext]_codesVars
-----------------------------------------------------------------------------
(* The proof tells a share from a forgery: a piece opens the commitment exactly
   when its holder left it alone, and what repairs added opens it too, whatever
   the donors sent.  That takes powers of tau; with the ceremony's file, which
   begins with the Lagrange points, shares do not open their commitment. *)
SharesVerify ==
  scheme = "vss" =>
    \A i \in Present: Opens(Commitment(curve), i, pieces[i]) <=> i \notin spoilt

(* Any quorum of untouched hybrid shards gives the content back, and no quorum
   gives anything else: a changed chunk or key share is noticed. *)
HybridRecovers ==
  scheme = "hybrid" =>
    /\ outcome.intact => outcome.result = payload
    /\ outcome.result \in {payload, NoContent}

(* vss_recover gives the data back: any quorum of untouched shares yields the
   content that was split.  It does not when the content fills all the scalars
   and the last one is 0: the interpolated polynomial is shorter, and nobody
   compares the length. *)
VssRecovers ==
  scheme = "vss" /\ outcome.intact => outcome.result = payload
=============================================================================
