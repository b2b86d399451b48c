-------------------------- MODULE ChainNodeProofs --------------------------
(***************************************************************************)
(* Proofs about what clients reach on a blockchain node, for any clients,  *)
(* nodes, clocks, amounts and limits: the faucet's claims, the way of a    *)
(* fragment through the node to a storage node, the books of the direct    *)
(* messages; and about what the end of a block decides, the difficulty and *)
(* the authorities to come.                                                *)
(***************************************************************************)
EXTENDS FaucetClaims, StorageGateway, DirectMessages, BlockProduction, NumberFacts

Paid == {a \in Claimants: claims[a] # NotYet}

(* The pool holds well-formed claims only; the counters count the accounts *)
(* with an entry in FaucetClaims.                                          *)
FaucetInv ==
  /\ offers \subseteq Claims
  /\ claims \in [Claimants -> Nat \cup {NotYet}]
  /\ totalClaims \in Nat /\ totalClaims = Cardinality(Paid)
  /\ totalMinted \in Nat /\ totalMinted = RewardAmount * totalClaims
  /\ TotalCap > 0 => totalMinted <= TotalCap

LEMMA PaidFinite == IsFiniteSet(Paid) /\ Cardinality(Paid) \in Nat
<1>1. Paid \subseteq Claimants
  BY DEF Paid
<1> QED BY <1>1, FS_Subset, FS_CardinalityType, FaucetAssumption

LEMMA FaucetStart == FaucetInit => FaucetInv
<1> SUFFICES ASSUME FaucetInit PROVE FaucetInv
  OBVIOUS
<1>1. Paid = {}
  BY DEF Paid, FaucetInit
<1>2. Cardinality(Paid) = 0
  BY <1>1, FS_EmptySet
<1>3. RewardAmount * 0 = 0
  BY FaucetAssumption
<1> QED BY <1>2, <1>3, FaucetAssumption DEF FaucetInit, FaucetInv

(* A claim that runs adds its account, which had no entry, and the reward  *)
(* the cap still has room for.                                             *)
LEMMA ClaimStep ==
  ASSUME FaucetInv, NEW c \in offers, ValidClaim(c),
         claims' = [claims EXCEPT ![c.who] = c.block],
         totalClaims' = totalClaims + 1,
         totalMinted' = totalMinted + RewardAmount
  PROVE  /\ claims' \in [Claimants -> Nat \cup {NotYet}]
         /\ totalClaims' \in Nat /\ totalClaims' = Cardinality(Paid')
         /\ totalMinted' \in Nat /\ totalMinted' = RewardAmount * totalClaims'
         /\ TotalCap > 0 => totalMinted' <= TotalCap
<1>1. c.who \in Claimants /\ c.block \in Nat /\ c.block # NotYet
  BY FaucetAssumption DEF FaucetInv, Claims, NotYet
<1>2. c.who \notin Paid /\ Paid' = Paid \cup {c.who}
  BY <1>1 DEF FaucetInv, Paid, ValidClaim
<1>3. Cardinality(Paid') = Cardinality(Paid) + 1
  BY <1>2, PaidFinite, FS_AddElement
<1>4. RewardAmount * (totalClaims + 1) = RewardAmount * totalClaims + RewardAmount
  BY FaucetAssumption DEF FaucetInv
<1>5. claims' \in [Claimants -> Nat \cup {NotYet}]
  BY <1>1 DEF FaucetInv
<1>6. TotalCap > 0 => totalMinted' <= TotalCap
  BY DEF ValidClaim, CapOpen
<1>7. totalMinted' \in Nat /\ totalClaims' \in Nat
  BY FaucetAssumption DEF FaucetInv
<1> QED BY <1>3, <1>4, <1>5, <1>6, <1>7 DEF FaucetInv

LEMMA FaucetStep == FaucetInv /\ [FaucetNext]_faucetVars => FaucetInv'
<1> SUFFICES ASSUME FaucetInv, [FaucetNext]_faucetVars PROVE FaucetInv'
  OBVIOUS
<1>1. CASE ValidateUnsigned
  BY <1>1 DEF ValidateUnsigned, FaucetInv, Paid
<1>2. CASE Claim
  <2>1. PICK c \in offers:
          /\ offers' = offers \ {c}
          /\ IF ValidClaim(c)
             THEN /\ claims' = [claims EXCEPT ![c.who] = c.block]
                  /\ totalClaims' = totalClaims + 1
                  /\ totalMinted' = totalMinted + RewardAmount
             ELSE UNCHANGED <<claims, totalClaims, totalMinted>>
    BY <1>2 DEF Claim
  <2>2. offers' \subseteq Claims
    BY <2>1 DEF FaucetInv
  <2>3. CASE ValidClaim(c)
    BY <2>1, <2>2, <2>3, ClaimStep DEF FaucetInv
  <2>4. CASE ~ValidClaim(c)
    BY <2>1, <2>2, <2>4 DEF FaucetInv, Paid
  <2> QED BY <2>3, <2>4
<1>3. CASE ClaimBlockEnds
  BY <1>3 DEF ClaimBlockEnds, FaucetInv, Paid
<1>4. CASE UNCHANGED faucetVars
  BY <1>4 DEF faucetVars, FaucetInv, Paid
<1> QED BY <1>1, <1>2, <1>3, <1>4 DEF FaucetNext

(* However claims race from the pool into blocks, what the faucet minted is *)
(* one reward for each account that claimed and never above the cap.        *)
THEOREM FaucetSunsetHolds == FaucetSpec => []FaucetSunset
<1>1. FaucetInv => FaucetSunset
  BY DEF FaucetInv, FaucetSunset, Paid
<1> QED BY <1>1, FaucetStart, FaucetStep, PTL DEF FaucetSpec

(* An account is paid once: its entry is never removed or written again.   *)
THEOREM OneClaimEach ==
  FaucetSpec =>
    [][\A a \in Claimants: claims[a] # NotYet => claims'[a] = claims[a]]_faucetVars
<1>1. FaucetInv /\ [FaucetNext]_faucetVars =>
        [\A a \in Claimants: claims[a] # NotYet => claims'[a] = claims[a]]_faucetVars
  BY DEF FaucetInv, FaucetNext, ValidateUnsigned, Claim, ClaimBlockEnds, ValidClaim, faucetVars
<1> QED BY <1>1, FaucetStart, FaucetStep, PTL DEF FaucetSpec

-----------------------------------------------------------------------------
(* A nonce belongs to one signed header, counted by requests.              *)
NoncesAreUnique ==
  /\ IsFiniteSet(requests)
  /\ \A q \in requests: q.auth.id \in 1 .. Cardinality(requests) /\ q.auth.id \in Signatures
  /\ \A p, q \in requests: p.auth.id = q.auth.id => p.auth = q.auth

(* What travels was signed, and only by clocks that are not ahead unless   *)
(* skew says so.                                                           *)
SignedBefore == \A q \in requests:
  /\ q.auth.stamp \in Int /\ q.auth.skew \in Int
  /\ q.auth.skew <= 0 => q.auth.stamp <= now

TravelsSigned ==
  /\ admitted \subseteq requests
  /\ \A c \in calls: c.req \in requests /\ c.auth = c.req.auth

MemoryTypes ==
  /\ now \in Nat /\ awake \subseteq Servers
  /\ nonces \in [Servers -> [Signatures -> Nat \cup {Never}]]
  /\ ran \in [Servers -> [Signatures -> Nat]]

(* The signature ran out, or the node remembers it for longer than that.   *)
Spent(s, auth) ==
  \/ now - auth.stamp > Validity
  \/ nonces[s][auth.id] # Never /\ nonces[s][auth.id] >= auth.stamp

RanIsRemembered ==
  /\ \A s \in Servers, n \in Signatures: n > Cardinality(requests) => ran[s][n] = 0
  /\ \A s \in Servers, q \in requests: q.auth.skew <= 0 =>
       \/ ran[s][q.auth.id] = 0
       \/ ran[s][q.auth.id] = 1 /\ Spent(s, q.auth)

GatewayInv ==
  NoncesAreUnique /\ SignedBefore /\ TravelsSigned /\ MemoryTypes /\ RanIsRemembered

LEMMA SignaturesAreNumbers == Signatures \subseteq Nat
<1>1. PICK k : k = Cardinality(Signatures)
  OBVIOUS
<1>2. k \in Nat /\ Signatures = 1 .. k
  BY <1>1, AuthAssumption, FS_CardinalityType
<1> QED BY <1>2

LEMMA GatewayStarts == GatewayInit => GatewayInv
<1> SUFFICES ASSUME GatewayInit PROVE GatewayInv
  OBVIOUS
<1>1. requests = {} /\ admitted = {} /\ calls = {} /\ awake = Servers
  BY DEF GatewayInit
<1>2. NoncesAreUnique /\ SignedBefore /\ TravelsSigned
  BY <1>1, FS_EmptySet DEF NoncesAreUnique, SignedBefore, TravelsSigned
<1>3. /\ now = 0 /\ nonces = [s \in Servers |-> [n \in Signatures |-> Never]]
      /\ ran = [s \in Servers |-> [n \in Signatures |-> 0]]
  BY DEF GatewayInit, AuthInit
<1>4. MemoryTypes /\ RanIsRemembered
  BY <1>1, <1>3 DEF MemoryTypes, RanIsRemembered
<1> QED BY <1>2, <1>4 DEF GatewayInv

(* Sign takes the next free nonce.                                         *)
LEMMA SignStep ==
  ASSUME GatewayInv, NEW kind, NEW root, NEW index, NEW proven, NEW skew \in Skews,
         Sign(kind, root, index, proven, skew)
  PROVE  GatewayInv'
<1>0. PICK id : id = Cardinality(requests) + 1
  OBVIOUS
<1> DEFINE auth == [id |-> id, stamp |-> now + skew, skew |-> skew, payload |-> "signed"]
<1>1. PICK new : new = [auth |-> auth, kind |-> kind, root |-> root, index |-> index,
                        proven |-> proven]
  OBVIOUS
<1>2. /\ id \in Signatures /\ requests' = requests \cup {new}
      /\ UNCHANGED <<admitted, calls, now, awake, nonces, ran>>
  BY <1>0, <1>1 DEF Sign
<1>3. Cardinality(requests) \in Nat /\ id \in Nat
  BY <1>0, FS_CardinalityType DEF GatewayInv, NoncesAreUnique
<1>4. /\ new.auth.id = id /\ new.auth.stamp = now + skew /\ new.auth.skew = skew
      /\ \A q \in requests: q.auth.id # id
  BY <1>0, <1>1, <1>3 DEF GatewayInv, NoncesAreUnique
<1>5. new \notin requests
  BY <1>4
<1>6. IsFiniteSet(requests') /\ Cardinality(requests') = id
  BY <1>0, <1>2, <1>5, FS_AddElement DEF GatewayInv, NoncesAreUnique
<1>7. NoncesAreUnique'
  <2>1. \A q \in requests': q.auth.id \in 1 .. id /\ q.auth.id \in Signatures
    BY <1>0, <1>2, <1>3, <1>4 DEF GatewayInv, NoncesAreUnique
  <2>2. \A p, q \in requests': p.auth.id = q.auth.id => p.auth = q.auth
    BY <1>2, <1>4 DEF GatewayInv, NoncesAreUnique
  <2> QED BY <1>2, <1>6, <2>1, <2>2 DEF NoncesAreUnique
<1>8. SignedBefore'
  BY <1>2, <1>4, GatewayAssumption DEF GatewayInv, SignedBefore, MemoryTypes
<1>9. TravelsSigned'
  BY <1>2 DEF GatewayInv, TravelsSigned
<1>10. MemoryTypes'
  BY <1>2 DEF GatewayInv, MemoryTypes
<1>11. RanIsRemembered'
  <2>1. \A s \in Servers: ran[s][id] = 0
    BY <1>0, <1>2, <1>3 DEF GatewayInv, RanIsRemembered
  <2>2. \A s \in Servers, n \in Signatures: n > id => ran[s][n] = 0
    <3> SUFFICES ASSUME NEW s \in Servers, NEW n \in Signatures, n > id
                 PROVE  ran[s][n] = 0
      OBVIOUS
    <3>1. n \in Int
      BY SignaturesAreNumbers
    <3> QED BY <1>0, <1>3, <3>1 DEF GatewayInv, RanIsRemembered
  <2>3. ASSUME NEW s \in Servers, NEW q \in requests', q.auth.skew <= 0
        PROVE  \/ ran'[s][q.auth.id] = 0
               \/ ran'[s][q.auth.id] = 1 /\ Spent(s, q.auth)'
    <3>1. CASE q = new
      BY <1>2, <1>4, <2>1, <3>1
    <3>2. CASE q # new
      BY <1>2, <2>3, <3>2 DEF GatewayInv, RanIsRemembered, Spent
    <3> QED BY <3>1, <3>2
  <2> QED BY <1>2, <1>6, <2>2, <2>3 DEF RanIsRemembered
<1> QED BY <1>7, <1>8, <1>9, <1>10, <1>11 DEF GatewayInv

(* What runs was timely and its nonce unused: it had not run before.       *)
LEMMA StoreStep ==
  ASSUME GatewayInv, HandleStore
  PROVE  GatewayInv'
<1>1. PICK c \in calls, fits \in BOOLEAN, heard \in BOOLEAN :
        /\ c.to \in awake
        /\ calls' = calls \ {c}
        /\ IF Seen(Verdict(c.to, c)) THEN Remember(c.to, c.auth.id) ELSE UNCHANGED nonces
        /\ IF Verdict(c.to, c) = "Ok" /\ fits /\ TakesIn(c.req)
           THEN ran' = [ran EXCEPT ![c.to][c.auth.id] = @ + 1]
           ELSE ran' = ran
        /\ UNCHANGED <<awake, requests, admitted, now>>
  BY DEF HandleStore
<1>2. PICK t, a : t = c.to /\ a = c.auth
  OBVIOUS
<1>3. t \in Servers /\ c.req \in requests /\ a = c.req.auth /\ a.id \in Signatures
  BY <1>1, <1>2 DEF GatewayInv, MemoryTypes, TravelsSigned, NoncesAreUnique
<1>4. NoncesAreUnique' /\ SignedBefore' /\ TravelsSigned'
  BY <1>1 DEF GatewayInv, NoncesAreUnique, SignedBefore, TravelsSigned
<1>5. now \in Nat /\ now # Never /\ a.stamp \in Int /\ Validity \in Nat
  BY <1>3, AuthAssumption DEF GatewayInv, MemoryTypes, SignedBefore
<1>6. nonces' = nonces \/ nonces' = [nonces EXCEPT ![t][a.id] = now]
  BY <1>1, <1>2 DEF Remember
<1>7. \A s \in Servers, n \in Signatures:
        nonces'[s][n] = nonces[s][n] \/ nonces'[s][n] = now
  BY <1>3, <1>6 DEF GatewayInv, MemoryTypes
<1>8. nonces' \in [Servers -> [Signatures -> Nat \cup {Never}]]
  BY <1>3, <1>5, <1>6 DEF GatewayInv, MemoryTypes
(* What was spent stays spent: a nonce is only ever inserted later.        *)
<1>9. ASSUME NEW s \in Servers, NEW q \in requests, q.auth.skew <= 0, Spent(s, q.auth)
      PROVE  Spent(s, q.auth)'
  <2>1. q.auth.id \in Signatures /\ q.auth.stamp \in Int /\ q.auth.stamp <= now
    BY <1>9 DEF GatewayInv, NoncesAreUnique, SignedBefore
  <2>2. now' = now
    BY <1>1
  <2> QED BY <1>5, <1>7, <1>9, <2>1, <2>2 DEF Spent
<1>10. CASE ran' = ran
  BY <1>1, <1>4, <1>8, <1>9, <1>10 DEF GatewayInv, MemoryTypes, RanIsRemembered
<1>11. CASE Verdict(c.to, c) = "Ok" /\ ran' = [ran EXCEPT ![t][a.id] = @ + 1]
  <2>1. Timely(a.stamp) /\ ~Used(t, a.id)
    BY <1>2, <1>11 DEF Verdict
  <2>2. nonces' = [nonces EXCEPT ![t][a.id] = now]
    BY <1>1, <1>2, <1>11 DEF Seen, Remember
  <2>3. nonces[t][a.id] \in Nat \cup {Never}
    BY <1>3 DEF GatewayInv, MemoryTypes
  <2>4. ~Spent(t, a) \/ a.skew > 0
    BY <1>3, <1>5, <2>1, <2>3 DEF Spent, Timely, Used
  <2>5. a.skew <= 0 => ran[t][a.id] = 0
    BY <1>3, <2>4 DEF GatewayInv, RanIsRemembered, SignedBefore
  <2>6. ran[t][a.id] \in Nat /\ ran'[t][a.id] = ran[t][a.id] + 1
    BY <1>3, <1>11 DEF GatewayInv, MemoryTypes
  <2>7. ran' \in [Servers -> [Signatures -> Nat]]
    BY <1>3, <1>11 DEF GatewayInv, MemoryTypes
  <2>8. \A s \in Servers, n \in Signatures: <<s, n>> # <<t, a.id>> => ran'[s][n] = ran[s][n]
    BY <1>3, <1>11 DEF GatewayInv, MemoryTypes
  <2>9. nonces'[t][a.id] = now
    BY <1>3, <2>2 DEF GatewayInv, MemoryTypes
  <2>10. ASSUME NEW s \in Servers, NEW n \in Signatures, n > Cardinality(requests)
         PROVE  ran'[s][n] = 0
    <3>1. a.id \in 1 .. Cardinality(requests) /\ Cardinality(requests) \in Nat
      BY <1>3, FS_CardinalityType DEF GatewayInv, NoncesAreUnique
    <3>2. n # a.id
      BY <2>10, <3>1
    <3> QED BY <2>8, <2>10, <3>2 DEF GatewayInv, RanIsRemembered
  <2>11. ASSUME NEW s \in Servers, NEW q \in requests, q.auth.skew <= 0
         PROVE  \/ ran'[s][q.auth.id] = 0
                \/ ran'[s][q.auth.id] = 1 /\ Spent(s, q.auth)'
    <3>1. CASE s = t /\ q.auth.id = a.id
      <4>1. q.auth = a
        BY <1>3, <3>1 DEF GatewayInv, NoncesAreUnique
      <4>2. ran'[s][q.auth.id] = 1
        BY <2>5, <2>6, <2>11, <3>1, <4>1
      <4>3. a.stamp <= now
        BY <1>3, <2>11, <4>1 DEF GatewayInv, SignedBefore
      <4> QED BY <1>5, <2>9, <3>1, <4>1, <4>2, <4>3 DEF Spent
    <3>2. CASE ~(s = t /\ q.auth.id = a.id)
      <4>1. q.auth.id \in Signatures
        BY DEF GatewayInv, NoncesAreUnique
      <4>2. ran'[s][q.auth.id] = ran[s][q.auth.id]
        BY <2>8, <3>2, <4>1
      <4> QED BY <1>9, <2>11, <4>2 DEF GatewayInv, RanIsRemembered
    <3> QED BY <3>1, <3>2
  <2>12. MemoryTypes'
    BY <1>1, <1>8, <2>7 DEF GatewayInv, MemoryTypes
  <2>13. RanIsRemembered'
    BY <1>1, <2>10, <2>11 DEF RanIsRemembered
  <2> QED BY <1>4, <2>12, <2>13 DEF GatewayInv
<1> QED BY <1>1, <1>2, <1>10, <1>11

(* A node forgets a nonce when its signature has run out.                  *)
LEMMA ForgetStep ==
  ASSUME GatewayInv, NonceGc, UNCHANGED <<requests, admitted, calls, awake, ran>>
  PROVE  GatewayInv'
<1>1. PICK t \in Servers :
        nonces' = [nonces EXCEPT ![t] = [n \in Signatures |->
                     IF Used(t, n) THEN @[n] ELSE Never]]
  BY DEF NonceGc
<1>2. now' = now
  BY DEF NonceGc
<1>3. \A s \in Servers, n \in Signatures:
        nonces'[s][n] = IF s # t \/ Used(t, n) THEN nonces[s][n] ELSE Never
  BY <1>1 DEF GatewayInv, MemoryTypes
<1>4. nonces' \in [Servers -> [Signatures -> Nat \cup {Never}]]
  BY <1>1 DEF GatewayInv, MemoryTypes
<1>5. ASSUME NEW s \in Servers, NEW q \in requests, Spent(s, q.auth)
      PROVE  Spent(s, q.auth)'
  <2>1. q.auth.id \in Signatures /\ q.auth.stamp \in Int /\ now \in Nat /\ Validity \in Nat
    BY AuthAssumption DEF GatewayInv, NoncesAreUnique, SignedBefore, MemoryTypes
  <2>2. nonces[s][q.auth.id] \in Nat \cup {Never}
    BY <2>1 DEF GatewayInv, MemoryTypes
  <2>3. CASE nonces'[s][q.auth.id] = nonces[s][q.auth.id]
    BY <1>2, <1>5, <2>3 DEF Spent
  <2>4. CASE ~Used(s, q.auth.id)
    BY <1>2, <1>5, <2>1, <2>2, <2>4 DEF Spent, Used
  <2> QED BY <1>3, <2>1, <2>3, <2>4
<1> QED BY <1>2, <1>4, <1>5
       DEF GatewayInv, NoncesAreUnique, SignedBefore, TravelsSigned, MemoryTypes, RanIsRemembered

LEMMA TimeStep ==
  ASSUME GatewayInv, TimeGoesOn, UNCHANGED <<requests, admitted, calls, awake, ran>>
  PROVE  GatewayInv'
<1>1. now' = now + 1 /\ now \in Nat /\ nonces' = nonces /\ Validity \in Nat
  BY AuthAssumption DEF TimeGoesOn, GatewayInv, MemoryTypes
<1>2. SignedBefore'
  BY <1>1 DEF GatewayInv, SignedBefore
<1>3. ASSUME NEW s \in Servers, NEW q \in requests, Spent(s, q.auth)
      PROVE  Spent(s, q.auth)'
  BY <1>1, <1>3 DEF GatewayInv, SignedBefore, Spent
<1> QED BY <1>1, <1>2, <1>3
       DEF GatewayInv, NoncesAreUnique, TravelsSigned, MemoryTypes, RanIsRemembered

(* A stop forgets the nonces, and what ran before it counts no more.       *)
LEMMA StopStep ==
  ASSUME GatewayInv, ServerStops
  PROVE  GatewayInv'
<1>1. PICK t \in awake :
        /\ awake' = awake \ {t}
        /\ nonces' = [nonces EXCEPT ![t] = [n \in Signatures |-> Never]]
        /\ ran' = [ran EXCEPT ![t] = [n \in Signatures |-> 0]]
        /\ UNCHANGED <<requests, admitted, calls, now>>
  BY DEF ServerStops
<1>2. \A s \in Servers, n \in Signatures:
        ran'[s][n] = 0 \/ (ran'[s][n] = ran[s][n] /\ nonces'[s][n] = nonces[s][n])
  BY <1>1 DEF GatewayInv, MemoryTypes
<1>3. MemoryTypes'
  BY <1>1 DEF GatewayInv, MemoryTypes
<1>4. RanIsRemembered'
  BY <1>1, <1>2 DEF GatewayInv, NoncesAreUnique, RanIsRemembered, Spent
<1> QED BY <1>1, <1>3, <1>4
       DEF GatewayInv, NoncesAreUnique, SignedBefore, TravelsSigned

(* What leaves requests, memories and the clock alone.                     *)
LEMMA QuietStep ==
  ASSUME GatewayInv, UNCHANGED <<requests, now, nonces, ran>>,
         awake' \subseteq Servers, TravelsSigned'
  PROVE  GatewayInv'
BY DEF GatewayInv, NoncesAreUnique, SignedBefore, MemoryTypes, RanIsRemembered, Spent

LEMMA GatewayStep == GatewayInv /\ [GatewayNext]_gatewayVars => GatewayInv'
<1> SUFFICES ASSUME GatewayInv, [GatewayNext]_gatewayVars PROVE GatewayInv'
  OBVIOUS
<1>0. awake \subseteq Servers /\ TravelsSigned
  BY DEF GatewayInv, MemoryTypes
<1>1. CASE \E kind \in Kinds, root \in Roots, input \in Inputs, skew \in Skews:
             Sign(kind, root, input[1], input[2], skew)
  BY <1>1, SignStep
<1>2. CASE Admit
  BY <1>0, <1>2, QuietStep DEF Admit, TravelsSigned
<1>3. CASE Place
  <2>1. PICK r \in admitted : calls' = calls \/ calls' = calls \cup {Forwarded(r)}
    BY <1>3 DEF Place
  <2>2. Forwarded(r).req = r /\ Forwarded(r).auth = r.auth
    BY DEF Forwarded
  <2>3. TravelsSigned'
    BY <1>0, <1>3, <2>1, <2>2 DEF Place, TravelsSigned
  <2> QED BY <1>0, <1>3, <2>3, QuietStep DEF Place
<1>4. CASE HandleStore
  BY <1>4, StoreStep
<1>5. CASE LoseCall
  BY <1>0, <1>5, QuietStep DEF LoseCall, TravelsSigned
<1>6. CASE DirectoryChanges
  BY <1>0, <1>6, QuietStep DEF DirectoryChanges, TravelsSigned
<1>7. CASE ServerStops
  BY <1>7, StopStep
<1>8. CASE ServerStarts
  BY <1>0, <1>8, QuietStep DEF ServerStarts, TravelsSigned
<1>9. CASE NonceGc /\ UNCHANGED <<live, awake, shelves, requests, sends, admitted, calls,
                                  acked, placings, ran, troubles>>
  BY <1>9, ForgetStep
<1>10. CASE TimeGoesOn /\ UNCHANGED <<live, awake, shelves, requests, sends, admitted, calls,
                                      acked, placings, ran, troubles>>
  BY <1>10, TimeStep
<1>11. CASE UNCHANGED gatewayVars
  BY <1>0, <1>11, QuietStep DEF gatewayVars, TravelsSigned
<1> QED BY <1>1, <1>2, <1>3, <1>4, <1>5, <1>6, <1>7, <1>8, <1>9, <1>10, <1>11
       DEF GatewayNext

(* auth.rs keeps a nonce for as long as its signature is valid, so that a  *)
(* request sent again, delayed or forwarded twice runs at most once        *)
(* between two starts of a storage node, if its clock is not ahead.        *)
THEOREM RunsOnceHolds == GatewaySpec => []RunsOnce
<1>1. GatewayInv => RunsOnce
  BY DEF GatewayInv, NoncesAreUnique, RanIsRemembered, RunsOnce
<1> QED
  BY <1>1, GatewayStarts, GatewayStep, PTL DEF GatewaySpec

(* Lists hold a node once at most.                                         *)
LEMMA ListFacts ==
  ASSUME NEW list \in Lists
  PROVE  /\ list \in Seq(Servers) /\ Len(list) \in Nat
         /\ \A i, j \in 1 .. Len(list) : list[i] = list[j] => i = j
<1>1. PICK S \in SUBSET Servers : list \in SetToSeqs(S)
  BY DEF Lists
<1>2. IsFiniteSet(S) /\ Cardinality(S) \in Nat
  BY GatewayAssumption, FS_Subset, FS_CardinalityType
<1>3. /\ list \in [1 .. Cardinality(S) -> S]
      /\ \A i, j \in 1 .. Cardinality(S) : i # j => list[i] # list[j]
  BY <1>1 DEF SetToSeqs
<1>4. list \in Seq(Servers) /\ Len(list) = Cardinality(S)
  BY <1>2, <1>3
<1> QED BY <1>2, <1>3, <1>4

(* Numbers less than n apart have different remainders.                    *)
LEMMA DifferentRemainders ==
  ASSUME NEW n \in Nat \ {0}, NEW a \in Nat, NEW b \in Nat, a < b, b - a < n
  PROVE  a % n # b % n /\ a % n \in 0 .. n - 1
<1> DEFINE q == a \div n
           r == b \div n
           x == a % n
           y == b % n
<1>1. /\ q \in Int /\ r \in Int /\ x \in 0 .. n - 1 /\ y \in 0 .. n - 1
      /\ a = n * q + x /\ b = n * r + y
  OBVIOUS
<1> HIDE DEF q, r, x, y
<1> SUFFICES ASSUME x = y PROVE FALSE
  BY <1>1 DEF x, y
<1>2. n * (r - q) = b - a
  BY <1>1
<1>3. r - q \in Int
  BY <1>1
<1>4. CASE r - q <= 0
  <2>1. n * (r - q) <= 0
    BY <1>3, <1>4, ProductFacts
  <2> QED BY <1>2, <2>1
<1>5. CASE ~(r - q <= 0)
  <2>1. r - q - 1 \in Int /\ r - q - 1 >= 0 /\ r - q - 1 + 1 = r - q
    BY <1>3, <1>5
  <2>2. n * (r - q - 1) >= 0 /\ n * (r - q - 1 + 1) = n * (r - q - 1) + n
        /\ n * (r - q - 1) \in Int
    BY <2>1, ProductFacts
  <2> QED BY <1>2, <2>1, <2>2
<1> QED BY <1>4, <1>5

Placed(p) ==
  /\ p.list \in Lists
  /\ p.piece[1] = "fragment" =>
       /\ p.piece[2] \in Roots /\ p.piece[3] \in 0 .. Total - 1
       /\ Len(p.list) >= Total =>
            p.to = p.list[(((Seed[p.piece[2]] + p.piece[3]) % Word) % Len(p.list)) + 1]

(* Fragments are placed by the rule, and an acknowledged piece is somewhere. *)
PlacesInv ==
  /\ live \in Lists
  /\ \A q \in requests : q.root \in Roots /\ q.index \in Nat
  /\ \A q \in admitted : q.root \in Roots /\ (q.kind = "fragment" => q.index \in 0 .. Total - 1)
  /\ \A p \in placings : Placed(p)

ShelvesInv ==
  /\ awake \subseteq Servers /\ shelves = [s \in Servers |-> shelves[s]]
  /\ \A p \in acked : \E s \in Servers : p \in shelves[s]

LEMMA PlacesStart == GatewayInit => PlacesInv
BY DEF GatewayInit, PlacesInv

LEMMA PlacesStep == PlacesInv /\ [GatewayNext]_gatewayVars => PlacesInv'
<1> SUFFICES ASSUME PlacesInv, [GatewayNext]_gatewayVars PROVE PlacesInv'
  OBVIOUS
<1>1. ASSUME NEW kind \in Kinds, NEW root \in Roots, NEW input \in Inputs, NEW skew \in Skews,
             Sign(kind, root, input[1], input[2], skew)
      PROVE  PlacesInv'
  <2>1. input[1] \in Nat
    BY GatewayAssumption
  <2>2. PICK q : /\ requests' = requests \cup {q} /\ q.root = root /\ q.index = input[1]
                 /\ UNCHANGED <<live, admitted, placings>>
    <3> DEFINE auth == [id |-> Cardinality(requests) + 1, stamp |-> now + skew, skew |-> skew,
                        payload |-> "signed"]
               new == [auth |-> auth, kind |-> kind, root |-> root, index |-> input[1],
                       proven |-> input[2]]
    <3>1. requests' = requests \cup {new} /\ UNCHANGED <<live, admitted, placings>>
      BY <1>1 DEF Sign
    <3>2. new.root = root /\ new.index = input[1]
      OBVIOUS
    <3> HIDE DEF new
    <3> QED BY <3>1, <3>2
  <2> QED BY <2>1, <2>2 DEF PlacesInv, Placed
<1>2. CASE Admit
  <2>1. PICK q \in requests :
          /\ admitted' = IF Enough(q) /\ WellFormed(q) THEN admitted \cup {q} ELSE admitted
          /\ UNCHANGED <<live, requests, placings>>
    BY <1>2 DEF Admit
  <2>2. WellFormed(q) /\ q.kind = "fragment" => q.index \in 0 .. Total - 1
    BY GatewayAssumption DEF WellFormed, PlacesInv
  <2> QED BY <2>1, <2>2 DEF PlacesInv, Placed
<1>3. CASE Place
  <2>1. PICK r \in admitted :
          /\ admitted' = admitted \ {r}
          /\ \/ placings' = placings
             \/ placings' = placings \cup {[piece |-> Piece(r), to |-> Chosen(r), list |-> live]}
          /\ UNCHANGED <<live, requests>>
    BY <1>3 DEF Place
  <2> DEFINE p == [piece |-> Piece(r), to |-> Chosen(r), list |-> live]
  <2>2. /\ p.piece[1] = r.kind /\ p.piece[2] = r.root /\ p.piece[3] = r.index
        /\ p.to = Chosen(r) /\ p.list = live
    BY DEF Piece
  <2>3. placings' = placings \/ placings' = placings \cup {p}
    BY <2>1
  <2> HIDE DEF p
  <2>4. ASSUME r.kind = "fragment", Len(live) >= Total
        PROVE  Chosen(r) = live[(((Seed[r.root] + r.index) % Word) % Len(live)) + 1]
    <3>1. Total >= 1 /\ Total \in Nat
      BY <2>4, GatewayAssumption DEF PlacesInv
    <3>2. live # <<>>
      BY <2>4, <3>1
    <3> QED BY <3>2 DEF Chosen, Candidates, Slot
  <2>5. Placed(p)
    BY <2>2, <2>4 DEF Placed, PlacesInv
  <2> QED BY <2>1, <2>3, <2>5 DEF PlacesInv, Placed
<1>4. CASE DirectoryChanges
  BY <1>4 DEF DirectoryChanges, PlacesInv, Placed
<1>5. CASE HandleStore
  BY <1>5 DEF HandleStore, PlacesInv, Placed
<1>6. CASE \/ LoseCall \/ ServerStops \/ ServerStarts \/ UNCHANGED gatewayVars
           \/ (NonceGc \/ TimeGoesOn) /\ UNCHANGED <<live, awake, shelves, requests, sends,
                admitted, calls, acked, placings, ran, troubles>>
  BY <1>6 DEF LoseCall, ServerStops, ServerStarts, gatewayVars, PlacesInv, Placed
<1> QED BY <1>1, <1>2, <1>3, <1>4, <1>5, <1>6 DEF GatewayNext

LEMMA PlacedApart == PlacesInv => SpreadOut
<1> SUFFICES ASSUME PlacesInv, NEW p \in placings, NEW q \in placings,
                    p.piece[1] = "fragment", q.piece[1] = "fragment",
                    p.list = q.list, Len(p.list) >= Total,
                    p.piece[2] = q.piece[2], p.piece[3] # q.piece[3],
                    Seed[p.piece[2]] + Total <= Word
             PROVE  p.to # q.to
  BY DEF SpreadOut
<1> DEFINE list == p.list
           n == Len(list)
           s == Seed[p.piece[2]]
           i == p.piece[3]
           j == q.piece[3]
<1>1. list \in Lists /\ q.list = list
  BY DEF PlacesInv, Placed
<1>2. /\ i \in 0 .. Total - 1 /\ j \in 0 .. Total - 1 /\ i # j
      /\ p.to = list[(((s + i) % Word) % n) + 1] /\ q.to = list[(((s + j) % Word) % n) + 1]
  BY <1>1 DEF PlacesInv, Placed
<1>3. s \in Nat /\ Total \in Nat /\ Word \in Nat \ {0} /\ s + Total <= Word
  <2>1. p.piece[2] \in Roots
    BY DEF PlacesInv, Placed
  <2>2. /\ Total \in Nat /\ Word \in Nat \ {0}
        /\ Seed \in [Roots -> 0 .. Word - 1]
    BY GatewayAssumption
  <2> QED BY <2>1, <2>2
<1> HIDE DEF n, s, i, j
<1>4. n \in Nat \ {0} /\ n >= Total
  BY <1>1, <1>2, <1>3, ListFacts DEF n
<1>5. (s + i) % Word = s + i /\ (s + j) % Word = s + j
  <2>1. s + i \in 0 .. Word - 1 /\ s + j \in 0 .. Word - 1
    BY <1>2, <1>3
  <2> QED BY <1>3, <2>1, RemainderFacts
<1>6. /\ (s + i) % n # (s + j) % n
      /\ (s + i) % n \in 0 .. n - 1 /\ (s + j) % n \in 0 .. n - 1
  <2>1. s + i \in Nat /\ s + j \in Nat /\ s + i # s + j
        /\ (s + i) - (s + j) < n /\ (s + j) - (s + i) < n
    <3>1. i \in Nat /\ j \in Nat /\ i # j /\ i < Total /\ j < Total
      BY <1>2, <1>3
    <3> QED BY <1>3, <1>4, <3>1
  <2>2. (s + i) % n \in 0 .. n - 1 /\ (s + j) % n \in 0 .. n - 1
    <3>1. \A x \in Nat, k \in Nat \ {0} : x % k \in 0 .. k - 1
      OBVIOUS
    <3> QED BY <1>4, <2>1, <3>1
  <2>3. CASE s + i < s + j
    BY <1>4, <2>1, <2>2, <2>3, DifferentRemainders
  <2>4. CASE s + j < s + i
    BY <1>4, <2>1, <2>2, <2>4, DifferentRemainders
  <2> QED BY <2>1, <2>3, <2>4
<1>7. ((s + i) % n) + 1 \in 1 .. n /\ ((s + j) % n) + 1 \in 1 .. n
      /\ ((s + i) % n) + 1 # ((s + j) % n) + 1
  <2>1. \A x, y \in 0 .. n - 1 : x + 1 \in 1 .. n /\ (x # y => x + 1 # y + 1)
    BY <1>4
  <2> QED BY <1>6, <2>1
<1> QED BY <1>1, <1>2, <1>5, <1>7, ListFacts DEF n

(* For any nodes, seeds, widths and leaf counts: fragments of one post that *)
(* were placed under one list of enough nodes lie on different nodes, as   *)
(* long as seed and index do not wrap.                                     *)
THEOREM FragmentsSpreadOut == GatewaySpec => []SpreadOut
BY PlacesStart, PlacesStep, PlacedApart, PTL DEF GatewaySpec

-----------------------------------------------------------------------------
(* Reading.  A list made of a set's elements has all of them.              *)
LEMMA AllListed ==
  ASSUME NEW S, IsFiniteSet(S), NEW order \in SetToSeqs(S)
  PROVE  order \in Seq(S) /\ ToSet(order) = S
<1>1. Cardinality(S) \in Nat
  BY FS_CardinalityType
<1>2. order \in Injection(1 .. Cardinality(S), S)
  BY DEF SetToSeqs, Injection, IsInjective
<1>3. Cardinality(1 .. Cardinality(S)) = Cardinality(S)
  BY <1>1, FS_Interval
<1>4. order \in Surjection(1 .. Cardinality(S), S)
  BY <1>2, <1>3, FS_Injection
<1>5. order \in [1 .. Cardinality(S) -> S] /\ \A x \in S : \E i \in 1 .. Cardinality(S) : order[i] = x
  BY <1>4 DEF Surjection
<1> QED BY <1>1, <1>5 DEF ToSet

(* What get_all_storage_clients has gathered after so many URLs.           *)
Gathers(w, shuffled, n) ==
  w = [i \in 0 .. n |-> IF i = 0 THEN shuffled ELSE With(w[i - 1], OnChain[i])]

LEMMA GathersExist ==
  ASSUME NEW shuffled
  PROVE  \A n \in Nat : \E w : Gathers(w, shuffled, n)
<1> DEFINE T == {n \in Nat : \E w : Gathers(w, shuffled, n)}
<1>1. 0 \in T
  <2>1. Gathers([i \in 0 .. 0 |-> shuffled], shuffled, 0)
    BY DEF Gathers
  <2> QED BY <2>1
<1>2. ASSUME NEW n \in Nat, n \in T PROVE n + 1 \in T
  <2>1. PICK w : Gathers(w, shuffled, n)
    BY <1>2
  <2> DEFINE v == [i \in 0 .. n + 1 |-> IF i = n + 1 THEN With(w[n], OnChain[n + 1]) ELSE w[i]]
  <2>2. \A i \in 0 .. n : w[i] = IF i = 0 THEN shuffled ELSE With(w[i - 1], OnChain[i])
    BY <2>1 DEF Gathers
  <2>3. \A i \in 0 .. n : v[i] = w[i]
    OBVIOUS
  <2>4. v[n + 1] = With(v[n], OnChain[n + 1])
    BY <2>3
  <2>5. ASSUME NEW i \in 0 .. n + 1
        PROVE  v[i] = IF i = 0 THEN shuffled ELSE With(v[i - 1], OnChain[i])
    <3>1. CASE i = n + 1
      BY <2>4, <3>1
    <3>2. CASE i \in 0 .. n
      <4>1. i # 0 => v[i - 1] = w[i - 1]
        BY <2>3, <3>2
      <4> QED BY <2>2, <2>3, <3>2, <4>1
    <3> QED BY <3>1, <3>2
  <2>6. v = [i \in 0 .. n + 1 |-> v[i]]
    OBVIOUS
  <2> HIDE DEF v
  <2>7. Gathers(v, shuffled, n + 1)
    BY <2>5, <2>6 DEF Gathers
  <2> QED BY <2>7
<1> HIDE DEF T
<1>3. \A n \in Nat : n \in T
  BY <1>1, <1>2, NumbersReached
<1> QED BY <1>3 DEF T

LEMMA WithFact ==
  ASSUME NEW list \in Seq(Servers), NEW url \in Servers
  PROVE  /\ With(list, url) \in Seq(Servers)
         /\ ToSet(list) \subseteq ToSet(With(list, url)) /\ url \in ToSet(With(list, url))
<1>1. CASE url \in ToSet(list)
  BY <1>1 DEF With
<1>2. CASE url \notin ToSet(list)
  <2>1. With(list, url) = Append(list, url)
    BY <1>2 DEF With
  <2>2. /\ Append(list, url) \in Seq(Servers)
        /\ DOMAIN Append(list, url) = 1 .. Len(list) + 1 /\ DOMAIN list = 1 .. Len(list)
        /\ Append(list, url)[Len(list) + 1] = url
        /\ \A i \in 1 .. Len(list) : Append(list, url)[i] = list[i]
    OBVIOUS
  <2>3. Len(list) + 1 \in 1 .. Len(list) + 1 /\ 1 .. Len(list) \subseteq 1 .. Len(list) + 1
    OBVIOUS
  <2> QED BY <2>1, <2>2, <2>3 DEF ToSet
<1> QED BY <1>1, <1>2

(* The list a read goes through has the shuffled nodes and those on chain. *)
LEMMA ReadListHasAll ==
  ASSUME NEW shuffled \in Seq(Servers)
  PROVE  ToSet(shuffled) \cup ToSet(OnChain) \subseteq ToSet(ReadList(shuffled))
<1> DEFINE last == Len(OnChain)
           w == CHOOSE w : Gathers(w, shuffled, last)
<1>1. last \in Nat /\ OnChain \in Seq(Servers)
  BY GatewayAssumption
<1>2. Gathers(w, shuffled, last)
  BY <1>1, GathersExist
<1>3. ReadList(shuffled) = w[last]
  BY DEF ReadList, Gathers
<1> HIDE DEF w, last
<1>4. /\ w[0] = shuffled
      /\ \A i \in 1 .. last : w[i] = With(w[i - 1], OnChain[i])
  BY <1>1, <1>2 DEF Gathers
<1> DEFINE Has(n) == /\ w[n] \in Seq(Servers) /\ ToSet(shuffled) \subseteq ToSet(w[n])
                     /\ \A i \in 1 .. n : OnChain[i] \in ToSet(w[n])
           T == {n \in Nat : n <= last => Has(n)}
<1>5. 0 \in T
  BY <1>4
<1>6. ASSUME NEW n \in Nat, n \in T PROVE n + 1 \in T
  <2> SUFFICES ASSUME n + 1 <= last PROVE Has(n + 1)
    OBVIOUS
  <2>1. Has(n)
    BY <1>1, <1>6
  <2>2. n + 1 \in 1 .. last /\ OnChain[n + 1] \in Servers /\ n + 1 - 1 = n
    BY <1>1 DEF last
  <2>3. w[n + 1] = With(w[n], OnChain[n + 1])
    BY <1>4, <2>2
  <2>4. /\ w[n + 1] \in Seq(Servers) /\ ToSet(w[n]) \subseteq ToSet(w[n + 1])
        /\ OnChain[n + 1] \in ToSet(w[n + 1])
    BY <2>1, <2>2, <2>3, WithFact
  <2>5. \A i \in 1 .. n + 1 : i = n + 1 \/ i \in 1 .. n
    OBVIOUS
  <2> QED BY <2>1, <2>4, <2>5
<1> HIDE DEF T
<1>7. \A n \in Nat : n \in T
  BY <1>5, <1>6, NumbersReached
<1>8. Has(last)
  BY <1>1, <1>7 DEF T
<1>9. DOMAIN OnChain = 1 .. last
  BY <1>1 DEF last
<1> QED BY <1>3, <1>8, <1>9 DEF ToSet

LEMMA ShelvesStart == GatewayInit => ShelvesInv
BY DEF GatewayInit, ShelvesInv

LEMMA ShelvesStep == ShelvesInv /\ [GatewayNext]_gatewayVars => ShelvesInv'
<1> SUFFICES ASSUME ShelvesInv, [GatewayNext]_gatewayVars PROVE ShelvesInv'
  OBVIOUS
<1>1. CASE HandleStore
  <2>1. PICK c \in calls :
          /\ c.to \in awake /\ awake' = awake
          /\ \/ /\ shelves' = [shelves EXCEPT ![c.to] = @ \cup {Piece(c.req)}]
                /\ acked' = acked \cup {Piece(c.req)} \/ acked' = acked
             \/ UNCHANGED <<shelves, acked>>
    BY <1>1 DEF HandleStore
  <2>2. CASE shelves' = [shelves EXCEPT ![c.to] = @ \cup {Piece(c.req)}]
    <3>1. c.to \in Servers
      BY <2>1 DEF ShelvesInv
    <3>2. /\ shelves' = [s \in Servers |-> shelves'[s]] /\ Piece(c.req) \in shelves'[c.to]
          /\ \A s \in Servers : shelves[s] \subseteq shelves'[s]
      BY <2>2, <3>1 DEF ShelvesInv
    <3> QED BY <2>1, <3>1, <3>2 DEF ShelvesInv
  <2>3. CASE UNCHANGED <<shelves, acked>>
    BY <2>1, <2>3 DEF ShelvesInv
  <2> QED BY <2>1, <2>2, <2>3
<1>2. CASE \E kind \in Kinds, root \in Roots, input \in Inputs, skew \in Skews:
             Sign(kind, root, input[1], input[2], skew)
  BY <1>2 DEF Sign, ShelvesInv
<1>3. CASE \/ Admit \/ Place \/ LoseCall \/ DirectoryChanges \/ ServerStops \/ ServerStarts
           \/ UNCHANGED gatewayVars
           \/ (NonceGc \/ TimeGoesOn) /\ UNCHANGED <<live, awake, shelves, requests, sends,
                admitted, calls, acked, placings, ran, troubles>>
  BY <1>3 DEF Admit, Place, LoseCall, DirectoryChanges, ServerStops, ServerStarts, gatewayVars,
              ShelvesInv
<1> QED BY <1>1, <1>2, <1>3 DEF GatewayNext

LEMMA FoundOnShelf == PlacesInv /\ ShelvesInv => AckedAreReadable
<1> SUFFICES ASSUME PlacesInv, ShelvesInv, NEW p \in acked, p[1] = "fragment"
             PROVE  /\ \E s \in Servers : p \in shelves[s]
                    /\ (\E s \in awake \cap (ToSet(live) \cup ToSet(OnChain)) : p \in shelves[s])
                         => \A order \in SetToSeqs(ToSet(live)) : Found(order, p)
  BY DEF AckedAreReadable
<1>1. \E s \in Servers : p \in shelves[s]
  BY DEF ShelvesInv
<1>2. ASSUME NEW s \in awake \cap (ToSet(live) \cup ToSet(OnChain)), p \in shelves[s],
             NEW order \in SetToSeqs(ToSet(live))
      PROVE  Found(order, p)
  <2>1. live \in Seq(Servers)
    BY ListFacts DEF PlacesInv
  <2>2. ToSet(live) \subseteq Servers /\ IsFiniteSet(ToSet(live))
    <3>1. ToSet(live) \subseteq Servers
      BY <2>1 DEF ToSet
    <3> QED BY <3>1, GatewayAssumption, FS_Subset
  <2>3. order \in Seq(Servers) /\ ToSet(order) = ToSet(live)
    <3>1. order \in Seq(ToSet(live)) /\ ToSet(order) = ToSet(live)
      BY <2>2, AllListed
    <3> QED BY <2>2, <3>1
  <2>4. s \in ToSet(ReadList(order))
    BY <1>2, <2>3, ReadListHasAll
  <2>5. ReadList(order) # <<>>
    BY <2>4 DEF ToSet
  <2>6. Serves(s, p)
    BY <1>2 DEF Serves
  <2> QED BY <2>4, <2>5, <2>6 DEF Found, Tried
<1> QED BY <1>1, <1>2

(* For any nodes and lists: an acknowledged fragment is on a shelf, and a   *)
(* read finds it as soon as one such node is awake and listed anywhere.    *)
THEOREM AckedAlwaysReadable == GatewaySpec => []AckedAreReadable
BY PlacesStart, PlacesStep, ShelvesStart, ShelvesStep, FoundOnShelf, PTL DEF GatewaySpec

-----------------------------------------------------------------------------
(* Direct messages.                                                        *)

LEMMA LeastAndMost ==
  ASSUME NEW S, S # {}, S \subseteq Int, IsFiniteSet(S)
  PROVE  /\ Min(S) \in S /\ \A x \in S : Min(S) <= x
         /\ Max(S) \in S /\ \A x \in S : x <= Max(S)
<1> DEFINE F == {s \in SUBSET S : s = {} \/ ((\E a \in s : \A x \in s : a <= x)
                                             /\ (\E b \in s : \A x \in s : x <= b))}
<1>1. {} \in F
  OBVIOUS
<1>2. ASSUME NEW s \in SUBSET S, NEW y \in S, s \in F, y \notin s
      PROVE  s \cup {y} \in F
  <2>1. CASE s = {}
    BY <2>1
  <2>2. CASE s # {}
    <3>1. PICK a \in s, b \in s : \A x \in s : a <= x /\ x <= b
      BY <1>2, <2>2
    <3>2. \E c \in s \cup {y} : \A x \in s \cup {y} : c <= x
      <4>1. CASE a <= y
        BY <3>1, <4>1
      <4>2. CASE ~(a <= y)
        BY <3>1, <4>2
      <4> QED BY <4>1, <4>2
    <3>3. \E c \in s \cup {y} : \A x \in s \cup {y} : x <= c
      <4>1. CASE y <= b
        BY <3>1, <4>1
      <4>2. CASE ~(y <= b)
        BY <3>1, <4>2
      <4> QED BY <4>1, <4>2
    <3> QED BY <3>2, <3>3
  <2> QED BY <2>1, <2>2
<1> HIDE DEF F
<1>3. S \in F
  <2>1. \A s \in SUBSET S : s \in F
    BY <1>1, <1>2, SetsReached
  <2> QED BY <2>1
<1>4. /\ \E a \in S : \A x \in S : a <= x
      /\ \E b \in S : \A x \in S : x <= b
  BY <1>3 DEF F
<1>5. Min(S) \in S /\ \A x \in S : Min(S) <= x
  BY <1>4 DEF Min
<1>6. Max(S) \in S /\ \A x \in S : Max(S) >= x
  BY <1>4 DEF Max
<1> QED BY <1>5, <1>6

LEMMA OneOfTwo ==
  ASSUME NEW a \in Int, NEW b \in Int
  PROVE  /\ Min({a, b}) \in {a, b} /\ Min({a, b}) <= a /\ Min({a, b}) <= b
         /\ Max({a, b}) \in {a, b} /\ a <= Max({a, b}) /\ b <= Max({a, b})
<1>1. IsFiniteSet({a, b})
  <2>1. {a, b} = {a} \cup {b} /\ IsFiniteSet({a})
    BY FS_Singleton
  <2> QED BY <2>1, FS_AddElement
<1> QED BY <1>1, LeastAndMost

LEMMA OneOfThree ==
  ASSUME NEW a \in Int, NEW b \in Int, NEW c \in Int
  PROVE  Min({a, b, c}) \in {a, b, c} /\ Min({a, b, c}) <= c
<1>1. IsFiniteSet({a, b, c})
  <2>1. IsFiniteSet({a}) /\ {a, b} = {a} \cup {b} /\ {a, b, c} = {a, b} \cup {c}
    BY FS_Singleton
  <2>2. IsFiniteSet({a, b})
    BY <2>1, FS_AddElement
  <2>3. IsFiniteSet({a, b} \cup {c})
    BY <2>2, FS_AddElement
  <2> QED BY <2>1, <2>3
<1> QED BY <1>1, LeastAndMost

Dispatch == [key: OneTimeKeys, root: MessageRoots]

(* The counters are numbers, and the pool's books are right.               *)
BooksInv ==
  /\ {stealthPool, total, fed, paid} \subseteq Nat
  /\ {received, claimed, rewarded} \subseteq [OneTimeKeys -> Nat]
  /\ StealthBooksBalance

(* Later blocks are empty, and every id given out is the number of those   *)
(* before it.                                                              *)
IndexInv ==
  /\ dmBlock \in Blocks /\ nextId \in Nat
  /\ dispatches \in [Blocks -> Seq(Dispatch)]
  /\ \A b \in Blocks : b > dmBlock => dispatches[b] = <<>>
  /\ byRoot \in [MessageRoots -> Nat \cup {Unsent}]
  /\ MessagesIndexed

LEMMA PortionIsNat ==
  ASSUME NEW share \in Nat, NEW amount \in Nat
  PROVE  (share * amount) \div Whole \in Nat
<1>1. share * amount \in Nat /\ Whole \in Nat \ {0}
  BY MessagesAssumption
<1> QED BY <1>1, DivFact

(* A claim takes what the pool has, and counts no message twice.           *)
LEMMA ClaimFacts ==
  ASSUME BooksInv, NEW unclaimed \in Nat \ {0}, NEW cap \in Nat
  PROVE  ClaimAmount(unclaimed, cap) \in Nat /\ ClaimAmount(unclaimed, cap) <= stealthPool
<1> DEFINE share == (stealthPool * ((unclaimed * Whole) \div total)) \div Whole
           most == IF cap > 0 THEN (stealthPool * cap) \div Whole ELSE stealthPool
<1>1. stealthPool \in Nat /\ total \in Nat /\ Whole \in Nat
  BY MessagesAssumption DEF BooksInv
<1>2. CASE unclaimed = 0 \/ total = 0 \/ stealthPool = 0
  BY <1>1, <1>2 DEF ClaimAmount
<1>3. CASE ~(unclaimed = 0 \/ total = 0 \/ stealthPool = 0)
  <2>1. (unclaimed * Whole) \div total \in Nat
    <3>1. unclaimed * Whole \in Nat /\ total \in Nat \ {0}
      BY <1>1, <1>3
    <3> QED BY <3>1, DivFact
  <2>2. share \in Nat /\ most \in Nat
    BY <1>1, <2>1, PortionIsNat
  <2>3. ClaimAmount(unclaimed, cap) = Min({share, most, stealthPool})
    BY <1>3 DEF ClaimAmount
  <2> HIDE DEF share, most
  <2>4. /\ Min({share, most, stealthPool}) \in {share, most, stealthPool}
        /\ Min({share, most, stealthPool}) <= stealthPool
    BY <1>1, <2>2, OneOfThree
  <2> QED BY <1>1, <2>2, <2>3, <2>4
<1> QED BY <1>2, <1>3

(* A product of two numbers grows with each.                               *)
LEMMA ProductGrows ==
  ASSUME NEW a \in Nat, NEW b \in Nat, NEW c \in Nat, a <= b
  PROVE  a * c <= b * c /\ a * c \in Nat /\ b * c \in Nat
<1> DEFINE d == b - a
<1>1. d \in Nat /\ b = a + d
  OBVIOUS
<1> HIDE DEF d
<1>2. d * c \in Nat /\ (a + d) * c = a * c + d * c /\ a * c \in Nat
  BY <1>1
<1> QED BY <1>1, <1>2

LEMMA ProductDecides ==
  ASSUME NEW a \in Nat, NEW b \in Nat, NEW c \in Nat \ {0}, a * c <= b * c
  PROVE  a <= b
<1> SUFFICES ASSUME a > b PROVE FALSE
  OBVIOUS
<1>1. b + 1 \in Nat /\ b + 1 <= a
  OBVIOUS
<1>2. (b + 1) * c <= a * c
  BY <1>1, ProductGrows
<1>3. (b + 1) * c = b * c + c /\ b * c \in Nat /\ a * c \in Nat
  OBVIOUS
<1> QED BY <1>2, <1>3

(* Without a cap a claim gets no more than its messages' part of the pool, *)
(* and no claim gets more than without a cap.                              *)
LEMMA FairShare ==
  ASSUME BooksInv, NEW unclaimed \in Nat \ {0}, NEW cap \in Nat,
         total # 0, stealthPool # 0
  PROVE  /\ ClaimAmount(unclaimed, 0) * total <= stealthPool * unclaimed
         /\ ClaimAmount(unclaimed, cap) <= ClaimAmount(unclaimed, 0)
<1> DEFINE parts == (unclaimed * Whole) \div total
           share == (stealthPool * parts) \div Whole
           most == (stealthPool * cap) \div Whole
           full == ClaimAmount(unclaimed, 0)
<1>1. stealthPool \in Nat /\ total \in Nat \ {0} /\ Whole \in Nat \ {0}
  BY MessagesAssumption DEF BooksInv
<1>2. parts \in Nat /\ parts * total <= unclaimed * Whole
  <2> DEFINE a == unclaimed * Whole
  <2>1. a \in Nat
    BY <1>1
  <2> HIDE DEF a
  <2>2. a \div total \in Nat /\ total * (a \div total) <= a
    BY <1>1, <2>1, DivFact
  <2> DEFINE k == a \div total
  <2> HIDE DEF k
  <2>3. k * total = total * k
    BY <1>1, <2>2 DEF k
  <2> QED BY <2>2, <2>3 DEF a, k
<1> HIDE DEF parts
<1>3. share \in Nat /\ share * Whole <= stealthPool * parts
  <2> DEFINE a == stealthPool * parts
  <2>1. a \in Nat
    BY <1>1, <1>2
  <2> HIDE DEF a
  <2>2. a \div Whole \in Nat /\ Whole * (a \div Whole) <= a
    BY <1>1, <2>1, DivFact
  <2> DEFINE k == a \div Whole
  <2> HIDE DEF k
  <2>3. k * Whole = Whole * k
    BY <1>1, <2>2 DEF k
  <2> QED BY <2>2, <2>3 DEF a, k
<1>4. most \in Nat
  BY <1>1, PortionIsNat
<1> HIDE DEF share, most
<1>5. /\ full = Min({share, stealthPool, stealthPool})
      /\ cap > 0 => ClaimAmount(unclaimed, cap) = Min({share, most, stealthPool})
      /\ cap = 0 => ClaimAmount(unclaimed, cap) = full
  BY <1>1 DEF ClaimAmount, share, most, parts
<1> HIDE DEF full
<1>6. full \in Nat /\ full <= share /\ \/ full = share
                                       \/ full = stealthPool
  BY <1>1, <1>3, <1>5, OneOfThree
<1>7. ClaimAmount(unclaimed, cap) <= full
  <2>1. CASE cap > 0
    <3>1. Min({share, most, stealthPool}) <= share /\ Min({share, most, stealthPool}) <= stealthPool
      BY <1>1, <1>3, <1>4, OneOfThree
    <3> QED BY <1>5, <1>6, <2>1, <3>1
  <2>2. CASE cap = 0
    BY <1>5, <1>6, <2>2
  <2> QED BY <2>1, <2>2
<1>8. full * total <= stealthPool * unclaimed
  <2> DEFINE v == share * total
             w == stealthPool * unclaimed
  <2>1. full * total <= v /\ v \in Nat /\ w \in Nat /\ full * total \in Nat
    BY <1>1, <1>3, <1>6, ProductGrows
  <2>2. v * Whole <= w * Whole
    <3> DEFINE sw == share * Whole
               pp == stealthPool * parts
               pt == parts * total
               uw == unclaimed * Whole
    <3>1. sw \in Nat /\ pp \in Nat /\ pt \in Nat /\ uw \in Nat
      BY <1>1, <1>2, <1>3
    <3>2. v * Whole = sw * total /\ pp * total = pt * stealthPool /\ w * Whole = uw * stealthPool
      BY <1>1, <1>2, <1>3
    <3>3. sw <= pp /\ pt <= uw
      BY <1>2, <1>3
    <3> HIDE DEF sw, pp, pt, uw, v, w
    <3>4. sw * total <= pp * total /\ pt * stealthPool <= uw * stealthPool
      BY <1>1, <3>1, <3>3, ProductGrows
    <3>5. sw * total \in Nat /\ pp * total \in Nat /\ uw * stealthPool \in Nat
      BY <1>1, <3>1
    <3> QED BY <3>2, <3>4, <3>5
  <2> HIDE DEF v, w
  <2>3. v <= w
    BY <1>1, <2>1, <2>2, ProductDecides
  <2> DEFINE x == full * total
  <2> HIDE DEF x
  <2>4. x <= w
    BY <2>1, <2>3 DEF x
  <2> QED BY <2>4 DEF x, w
<1> QED BY <1>7, <1>8 DEF full

(* An advance takes one message at least and no more than there are.       *)
LEMMA AdvanceFact ==
  ASSUME BooksInv, NEW unclaimed \in Nat \ {0}, NEW payout \in Nat
  PROVE  Advance(unclaimed, payout) \in 1 .. unclaimed
<1> DEFINE full == ClaimAmount(unclaimed, 0)
           part == (payout * unclaimed) \div full
<1>1. full \in Nat
  BY ClaimFacts
<1>2. CASE payout < full
  <2>1. part \in Nat
    <3>1. payout * unclaimed \in Nat /\ full \in Nat \ {0}
      BY <1>1, <1>2
    <3> QED BY <3>1, DivFact
  <2>2. Advance(unclaimed, payout) = Max({1, Min({part, unclaimed})})
    BY <1>2 DEF Advance
  <2> HIDE DEF part
  <2>3. Min({part, unclaimed}) \in Nat /\ Min({part, unclaimed}) <= unclaimed
    BY <2>1, OneOfTwo
  <2> DEFINE m == Min({part, unclaimed})
  <2> HIDE DEF m
  <2>4. m \in Nat /\ m <= unclaimed /\ Advance(unclaimed, payout) = Max({1, m})
    BY <2>2, <2>3 DEF m
  <2>5. Max({1, m}) \in {1, m} /\ 1 <= Max({1, m})
    <3>1. \A a, b \in Int : Max({a, b}) \in {a, b} /\ a <= Max({a, b})
      BY OneOfTwo
    <3> QED BY <2>4, <3>1
  <2> QED BY <2>4, <2>5
<1>3. CASE ~(payout < full)
  BY <1>3 DEF Advance
<1> QED BY <1>2, <1>3

(* It covers what the payment is worth.                                    *)
LEMMA WorthFact ==
  ASSUME BooksInv, NEW unclaimed \in Nat \ {0}, ClaimAmount(unclaimed, ClaimCapPpm) > 0
  PROVE  LET payout == ClaimAmount(unclaimed, ClaimCapPpm)
         IN Worth(payout) \in Nat /\ Worth(payout) <= Advance(unclaimed, payout)
<1> DEFINE p == ClaimAmount(unclaimed, ClaimCapPpm)
           full == ClaimAmount(unclaimed, 0)
           n == Advance(unclaimed, p)
           k == (p * total) \div stealthPool
<1>1. ClaimCapPpm \in Nat /\ stealthPool \in Nat /\ total \in Nat
  BY MessagesAssumption DEF BooksInv
<1>2. p \in Nat \ {0} /\ full \in Nat /\ n \in 1 .. unclaimed
  BY <1>1, ClaimFacts, AdvanceFact
<1>3. total # 0 /\ stealthPool # 0
  BY <1>2 DEF ClaimAmount
<1>4. full * total <= stealthPool * unclaimed /\ p <= full
  BY <1>1, <1>3, FairShare
<1>5. Worth(p) = Max({1, k})
  BY DEF Worth
<1>6. p < full => n = Max({1, Min({(p * unclaimed) \div full, unclaimed})})
  BY DEF Advance
<1>7. ~ (p < full) => n = unclaimed
  BY DEF Advance
<1> HIDE DEF p, full, n
<1>8. k \in Nat /\ k * stealthPool <= p * total
  <2> DEFINE a == p * total
             q == a \div stealthPool
  <2>1. a \in Nat
    BY <1>1, <1>2
  <2> HIDE DEF a
  <2>2. q \in Nat /\ stealthPool * q <= a
    BY <1>1, <1>3, <2>1, DivFact
  <2> HIDE DEF q
  <2>3. q * stealthPool = stealthPool * q
    BY <1>1, <2>2
  <2> QED BY <2>2, <2>3 DEF a, q
<1> HIDE DEF k
<1>9. k * full <= p * unclaimed
  <2> DEFINE kf == k * full
             pu == p * unclaimed
             ks == k * stealthPool
             pt == p * total
             ft == full * total
             su == stealthPool * unclaimed
  <2>1. /\ kf \in Nat /\ pu \in Nat /\ ks \in Nat /\ pt \in Nat /\ ft \in Nat /\ su \in Nat
        /\ ks <= pt /\ ft <= su
    BY <1>1, <1>2, <1>4, <1>8
  <2>2. /\ kf * stealthPool = ks * full /\ pt * full = ft * p
        /\ su * p = pu * stealthPool
    BY <1>1, <1>2, <1>8
  <2> HIDE DEF kf, pu, ks, pt, ft, su
  <2>3. ks * full <= pt * full /\ ft * p <= su * p
    BY <1>2, <2>1, ProductGrows
  <2>4. ks * full \in Nat /\ pt * full \in Nat /\ su * p \in Nat
    BY <1>2, <2>1
  <2>5. kf * stealthPool <= pu * stealthPool
    BY <2>2, <2>3, <2>4
  <2>6. kf <= pu
    BY <1>1, <1>3, <2>1, <2>5, ProductDecides
  <2> QED BY <2>6 DEF kf, pu
<1>10. full \in Nat \ {0}
  BY <1>2, <1>4
<1>11. k <= unclaimed
  <2>1. p * unclaimed <= full * unclaimed /\ full * unclaimed = unclaimed * full
    BY <1>2, <1>4, ProductGrows
  <2>2. k * full <= unclaimed * full
    <3> DEFINE x == k * full
               y == p * unclaimed
               z == unclaimed * full
    <3>1. x \in Nat /\ y \in Nat /\ z \in Nat
      BY <1>2, <1>8
    <3>2. x <= y /\ y <= z
      BY <1>9, <2>1
    <3> HIDE DEF x, y, z
    <3>3. x <= z
      BY <3>1, <3>2
    <3> QED BY <3>3 DEF x, z
  <2> QED BY <1>8, <1>10, <2>2, ProductDecides
<1>12. k <= n
  <2>1. CASE p < full
    <3> DEFINE y == p * unclaimed
               m == y \div full
    <3>1. y \in Nat
      BY <1>2
    <3>2. full * k <= y
      <4>1. full * k = k * full
        BY <1>2, <1>8
      <4> QED BY <1>9, <4>1
    <3> HIDE DEF y
    <3>3. k <= m
      BY <1>8, <1>10, <3>1, <3>2, QuotientBounds
    <3>4. m \in Nat
      BY <1>10, <3>1, DivFact
    <3>5. n = Max({1, Min({m, unclaimed})})
      BY <1>6, <2>1 DEF y
    <3> HIDE DEF m
    <3>6. Min({m, unclaimed}) \in {m, unclaimed}
      <4>1. \A a, b \in Int : Min({a, b}) \in {a, b}
        BY OneOfTwo
      <4> QED BY <3>4, <4>1
    <3> DEFINE least == Min({m, unclaimed})
    <3>7. least \in Int /\ k <= least
      BY <1>11, <3>3, <3>4, <3>6
    <3> HIDE DEF least
    <3>8. least <= Max({1, least})
      BY <3>7, OneOfTwo
    <3>9. n = Max({1, least})
      BY <3>5 DEF least
    <3> QED BY <1>2, <1>8, <3>7, <3>8, <3>9
  <2>2. CASE ~ (p < full)
    BY <1>7, <1>11, <2>2
  <2> QED BY <2>1, <2>2
<1>13. Max({1, k}) \in {1, k}
  <2>1. \A a, b \in Int : Max({a, b}) \in {a, b}
    BY OneOfTwo
  <2> QED BY <1>8, <2>1
<1>14. Worth(p) \in Nat /\ Worth(p) <= n
  BY <1>2, <1>5, <1>8, <1>12, <1>13
<1> QED BY <1>14 DEF p, n

LEMMA BlocksFacts ==
  /\ IsFiniteSet(Blocks) /\ Blocks \subseteq Nat /\ 0 \in Blocks
  /\ \A b \in Blocks : IsFiniteSet(0 .. b - 1) /\ 0 .. b - 1 \subseteq Blocks
<1>1. LastDmBlock \in Nat
  BY MessagesAssumption
<1>2. \A n \in Int : IsFiniteSet(0 .. n)
  BY FS_Interval
<1>3. \A b \in Blocks : b - 1 \in Int
  BY DEF Blocks
<1> QED BY <1>1, <1>2, <1>3 DEF Blocks

LEMMA DmStarts == DmInit => BooksInv /\ IndexInv
<1> SUFFICES ASSUME DmInit PROVE BooksInv /\ IndexInv
  OBVIOUS
<1>1. SumFunctionOnSet(received, OneTimeKeys) = 0
  BY SumIsZero, MessagesAssumption DEF DmInit
<1>2. BooksInv
  BY <1>1 DEF DmInit, BooksInv, StealthBooksBalance
<1>3. IsFiniteSet(Blocks) /\ 0 \in Blocks
  BY BlocksFacts
<1>4. SumFunctionOnSet(Sent, Blocks) = 0
  BY <1>3, SumIsZero DEF DmInit, Sent
<1>5. /\ dispatches = [b \in Blocks |-> <<>>] /\ dmBlock = 0 /\ nextId = 0 /\ total = 0
      /\ byRoot = [r \in MessageRoots |-> Unsent]
  BY DEF DmInit
<1>6. /\ dispatches \in [Blocks -> Seq(Dispatch)]
      /\ byRoot \in [MessageRoots -> Nat \cup {Unsent}]
      /\ \A b \in Blocks : dispatches[b] = <<>> /\ DOMAIN dispatches[b] = {}
  BY <1>5
<1>7. MessagesIndexed
  BY <1>4, <1>5, <1>6 DEF MessagesIndexed
<1>8. IndexInv
  BY <1>3, <1>5, <1>6, <1>7 DEF IndexInv
<1> QED BY <1>2, <1>8

LEMMA BooksStep == BooksInv /\ [DmNext]_dmVars => BooksInv'
<1> SUFFICES ASSUME BooksInv, [DmNext]_dmVars PROVE BooksInv'
  OBVIOUS
<1>0. /\ stealthPool \in Nat /\ total \in Nat /\ fed \in Nat /\ paid \in Nat
      /\ received \in [OneTimeKeys -> Nat] /\ claimed \in [OneTimeKeys -> Nat]
      /\ rewarded \in [OneTimeKeys -> Nat] /\ IsFiniteSet(OneTimeKeys)
  BY MessagesAssumption DEF BooksInv
<1>1. CASE SendDm
  <2>1. PICK e \in OneTimeKeys, r \in MessageRoots, bytes \in DmBytes :
          /\ Feed(Permill(StealthPermill, DmBaseCost + DmByteCost * bytes))
          /\ RecordReceive(e)
          /\ UNCHANGED <<claimed, paid, rewarded>>
    BY <1>1 DEF SendDm
  <2> DEFINE pre == DmBaseCost + DmByteCost * bytes
             fill == Permill(StealthPermill, pre)
  <2>2. fill \in Nat
    <3>1. bytes \in Nat /\ DmBaseCost \in Nat /\ DmByteCost \in Nat /\ StealthPermill \in Nat
      BY MessagesAssumption
    <3>2. pre \in Nat
      BY <3>1
    <3> QED BY <3>1, <3>2, PortionIsNat DEF Permill
  <2>3. stealthPool' = stealthPool + fill /\ fed' = fed + fill
    BY <2>1 DEF Feed
  <2> HIDE DEF pre, fill
  <2>4. /\ received' = [received EXCEPT ![e] = @ + 1] /\ total' = total + 1
        /\ received' \in [OneTimeKeys -> Nat]
    BY <1>0, <2>1 DEF RecordReceive
  <2>5. SumFunctionOnSet(received', OneTimeKeys)
          = SumFunctionOnSet(received, OneTimeKeys) + received'[e] - received[e]
    <3>1. /\ \A f \in OneTimeKeys : received[f] \in Int /\ received'[e] \in Int
          /\ \A f \in OneTimeKeys : f # e => received'[f] = received[f]
      BY <1>0, <2>4
    <3> QED BY <1>0, <3>1, SumChange
  <2>6. total' = SumFunctionOnSet(received', OneTimeKeys)
    BY <1>0, <2>4, <2>5 DEF BooksInv, StealthBooksBalance
  <2> QED BY <1>0, <2>1, <2>2, <2>3, <2>4, <2>6 DEF BooksInv, StealthBooksBalance
<1>2. CASE ClaimStealthReward
  <2>1. PICK e \in OneTimeKeys :
          LET unclaimed == IF received[e] > claimed[e] THEN received[e] - claimed[e] ELSE 0
              payout == ClaimAmount(unclaimed, ClaimCapPpm)
              n == Advance(unclaimed, payout)
          IN /\ unclaimed > 0 /\ payout > 0
             /\ stealthPool' = Max({0, stealthPool - payout}) /\ paid' = paid + payout
             /\ claimed' = [claimed EXCEPT ![e] = ClaimedAfter(e, n)]
             /\ rewarded' = [rewarded EXCEPT ![e] = @ + Worth(payout)]
             /\ UNCHANGED <<received, total, fed>>
    BY <1>2 DEF ClaimStealthReward
  <2> DEFINE unclaimed == IF received[e] > claimed[e] THEN received[e] - claimed[e] ELSE 0
             payout == ClaimAmount(unclaimed, ClaimCapPpm)
             n == Advance(unclaimed, payout)
             w == Worth(payout)
  <2>2. unclaimed \in Nat \ {0} /\ unclaimed = received[e] - claimed[e]
    BY <1>0, <2>1
  <2>3. payout \in Nat /\ payout <= stealthPool
    BY <2>2, ClaimFacts, MessagesAssumption
  <2>4. n \in 1 .. unclaimed
    BY <2>2, <2>3, AdvanceFact
  <2>5. /\ payout > 0
        /\ stealthPool' = Max({0, stealthPool - payout}) /\ paid' = paid + payout
        /\ claimed' = [claimed EXCEPT ![e] = claimed[e] + n]
        /\ rewarded' = [rewarded EXCEPT ![e] = rewarded[e] + w]
        /\ UNCHANGED <<received, total, fed>>
    BY <2>1 DEF ClaimedAfter
  <2>8. w \in Nat /\ w <= n
    BY <2>2, <2>5, WorthFact
  <2> HIDE DEF unclaimed, payout, n, w
  <2>9. stealthPool' = stealthPool - payout
    <3> DEFINE rest == stealthPool - payout
    <3>1. rest \in Nat
      BY <1>0, <2>3
    <3>2. stealthPool' = Max({0, rest})
      BY <2>5
    <3> HIDE DEF rest
    <3>3. Max({0, rest}) \in {0, rest} /\ rest <= Max({0, rest})
      BY <3>1, OneOfTwo
    <3>4. stealthPool' = rest
      BY <3>1, <3>2, <3>3
    <3> QED BY <3>4 DEF rest
  <2>6. /\ stealthPool' \in Nat /\ paid' \in Nat /\ stealthPool' + paid' = stealthPool + paid
        /\ claimed' \in [OneTimeKeys -> Nat] /\ rewarded' \in [OneTimeKeys -> Nat]
    BY <1>0, <2>2, <2>3, <2>4, <2>5, <2>8, <2>9
  <2>7. \A f \in OneTimeKeys : rewarded'[f] <= claimed'[f] /\ claimed'[f] <= received[f]
    BY <1>0, <2>2, <2>4, <2>5, <2>8 DEF BooksInv, StealthBooksBalance
  <2> QED BY <1>0, <2>5, <2>6, <2>7 DEF BooksInv, StealthBooksBalance
<1>3. CASE PublishDmKey \/ RevokeDmKey \/ SendToStealth \/ DmBlockEnds \/ UNCHANGED dmVars
  <2>1. UNCHANGED rewardVars
    BY <1>3 DEF PublishDmKey, RevokeDmKey, SendToStealth, DmBlockEnds, dmVars, rewardVars
  <2> QED BY <2>1 DEF rewardVars, BooksInv, StealthBooksBalance
<1> QED BY <1>1, <1>2, <1>3 DEF DmNext

(* For any keys, fees, shares and caps: whatever is sent and claimed, the  *)
(* claims of a key are worth no more messages than they used up, which it  *)
(* received; the receive counters add up, and the pool holds what it was   *)
(* fed less what it paid.                                                  *)
THEOREM StealthBooksAlwaysBalance == DmSpec => []StealthBooksBalance
<1>1. BooksInv => StealthBooksBalance
  BY DEF BooksInv
<1> QED BY <1>1, DmStarts, BooksStep, PTL DEF DmSpec

(* A message comes last: in the last block that is not empty, with as many *)
(* messages before it as there are.                                        *)
LEMMA AppendFact ==
  ASSUME IndexInv, NEW e \in OneTimeKeys, NEW r \in MessageRoots, NewContent(r),
         dispatches' = [dispatches EXCEPT ![dmBlock] = Append(@, [key |-> e, root |-> r])],
         byRoot' = [byRoot EXCEPT ![r] = nextId], nextId' = nextId + 1,
         total' = total + 1, dmBlock' = dmBlock
  PROVE  IndexInv'
<1>1. /\ dmBlock \in Blocks /\ nextId \in Nat /\ dispatches \in [Blocks -> Seq(Dispatch)]
      /\ byRoot \in [MessageRoots -> Nat \cup {Unsent}] /\ byRoot[r] = Unsent
      /\ IsFiniteSet(Blocks) /\ Blocks \subseteq Nat
      /\ \A b \in Blocks : IsFiniteSet(0 .. b - 1) /\ 0 .. b - 1 \subseteq Blocks
  BY BlocksFacts DEF IndexInv, NewContent
<1> DEFINE d == [key |-> e, root |-> r]
<1>2. d \in Dispatch /\ d.root = r
  BY DEF Dispatch
<1>3. dispatches' = [dispatches EXCEPT ![dmBlock] = Append(dispatches[dmBlock], d)]
  OBVIOUS
<1> HIDE DEF d
<1>4. /\ dispatches' \in [Blocks -> Seq(Dispatch)]
      /\ dispatches'[dmBlock] = Append(dispatches[dmBlock], d)
      /\ \A b \in Blocks : b # dmBlock => dispatches'[b] = dispatches[b]
  BY <1>1, <1>2, <1>3
<1>5. /\ \A b \in Blocks : Sent[b] \in Nat /\ Sent'[b] \in Nat
      /\ \A b \in Blocks : b # dmBlock => Sent'[b] = Sent[b]
      /\ Sent'[dmBlock] = Sent[dmBlock] + 1
      /\ \A b \in Blocks : b > dmBlock => Sent[b] = 0
  BY <1>1, <1>4 DEF Sent, IndexInv
<1> DEFINE now_ == Sent
           later == Sent'
<1> HIDE DEF now_, later
<1>6. SumFunctionOnSet(Sent', Blocks) = SumFunctionOnSet(Sent, Blocks) + 1
  <2>1. SumFunctionOnSet(later, Blocks)
          = SumFunctionOnSet(now_, Blocks) + later[dmBlock] - now_[dmBlock]
    <3>1. /\ \A b \in Blocks : now_[b] \in Int /\ later[dmBlock] \in Int
          /\ \A b \in Blocks : b # dmBlock => later[b] = now_[b]
      BY <1>1, <1>5 DEF now_, later
    <3> QED BY <1>1, <3>1, SumChange
  <2>2. SumFunctionOnSet(now_, Blocks) \in Nat
    BY <1>1, <1>5, SumIsNat DEF now_
  <2> QED BY <1>1, <1>5, <2>1, <2>2 DEF now_, later
<1>7. \A b \in Blocks : b <= dmBlock =>
        SumFunctionOnSet(Sent', 0 .. b - 1) = SumFunctionOnSet(Sent, 0 .. b - 1)
  <2> SUFFICES ASSUME NEW b \in Blocks, b <= dmBlock
               PROVE  SumFunctionOnSet(later, 0 .. b - 1) = SumFunctionOnSet(now_, 0 .. b - 1)
    BY DEF now_, later
  <2>1. b \in Nat /\ dmBlock \in Nat
    BY <1>1
  <2>2. \A c \in 0 .. b - 1 : now_[c] \in Int /\ later[c] = now_[c]
    <3>1. \A c \in 0 .. b - 1 : c \in Blocks /\ c # dmBlock
      BY <1>1, <2>1
    <3> QED BY <1>5, <3>1 DEF now_, later
  <2> QED BY <1>1, <2>2, SumSame
<1>8. \A b \in Blocks : SumFunctionOnSet(Sent, 0 .. b - 1) \in Nat
  <2> SUFFICES ASSUME NEW b \in Blocks PROVE SumFunctionOnSet(now_, 0 .. b - 1) \in Nat
    BY DEF now_
  <2>1. \A c \in 0 .. b - 1 : now_[c] \in Nat
    BY <1>1, <1>5 DEF now_
  <2> QED BY <1>1, <2>1, SumIsNat
<1>9. SumFunctionOnSet(Sent, 0 .. dmBlock - 1) + Sent[dmBlock] = nextId
  <2> DEFINE before == 0 .. dmBlock - 1
             rest == Blocks \ before
             after == rest \ {dmBlock}
  <2>1. /\ before \in SUBSET Blocks /\ IsFiniteSet(rest) /\ IsFiniteSet(after)
        /\ dmBlock \in rest /\ \A b \in after : b > dmBlock
    <3>1. before \in SUBSET Blocks /\ rest \in SUBSET Blocks /\ after \in SUBSET Blocks
      BY <1>1
    <3>2. IsFiniteSet(rest) /\ IsFiniteSet(after)
      BY <1>1, <3>1, FS_Subset
    <3>3. dmBlock \in Nat /\ dmBlock \in rest
      BY <1>1
    <3>4. \A b \in after : b \in Nat /\ b # dmBlock /\ b \notin 0 .. dmBlock - 1
      BY <1>1
    <3> QED BY <3>1, <3>2, <3>3, <3>4
  <2> HIDE DEF before, rest
  <2>2. \A b \in Blocks : now_[b] \in Int
    BY <1>5 DEF now_
  <2>3. SumFunctionOnSet(now_, Blocks)
          = SumFunctionOnSet(now_, before) + SumFunctionOnSet(now_, rest)
    <3>1. \A s \in SUBSET Blocks : SumFunctionOnSet(now_, Blocks)
            = SumFunctionOnSet(now_, s) + SumFunctionOnSet(now_, Blocks \ s)
      <4>1. IsFiniteSet(Blocks) /\ \A b \in Blocks : now_[b] \in Int
        BY BlocksFacts, <2>2
      <4> QED BY <4>1, SumSplit
    <3> QED BY <2>1, <3>1 DEF rest
  <2>4. SumFunctionOnSet(now_, rest) = now_[dmBlock] + SumFunctionOnSet(now_, after)
    <3>1. \A b \in rest : now_[b] \in Int
      BY <2>2 DEF rest
    <3>2. \A s \in SUBSET rest, x \in rest : x \in s =>
            SumFunctionOnSet(now_, s) = now_[x] + SumFunctionOnSet(now_, s \ {x})
      BY <2>1, <3>1, SumOfAny
    <3> QED BY <2>1, <3>2
  <2>5. SumFunctionOnSet(now_, after) = 0
    <3>1. \A b \in after : now_[b] = 0
      BY <1>5, <2>1 DEF now_, rest
    <3> QED BY <2>1, <3>1, SumIsZero
  <2>6. SumFunctionOnSet(now_, Blocks) = nextId
    BY DEF IndexInv, MessagesIndexed, now_
  <2>7. SumFunctionOnSet(now_, before) \in Nat /\ now_[dmBlock] \in Nat
    BY <1>1, <1>5, <1>8 DEF now_, before
  <2> QED BY <1>1, <2>3, <2>4, <2>5, <2>6, <2>7 DEF now_, before, rest
<1>10. \A b \in Blocks : \A i \in DOMAIN dispatches'[b] :
         byRoot'[dispatches'[b][i].root] = SumFunctionOnSet(Sent', 0 .. b - 1) + i - 1
  <2> SUFFICES ASSUME NEW b \in Blocks, NEW i \in DOMAIN dispatches'[b]
               PROVE  byRoot'[dispatches'[b][i].root]
                        = SumFunctionOnSet(Sent', 0 .. b - 1) + i - 1
    OBVIOUS
  <2>1. b <= dmBlock
    <3> SUFFICES ASSUME b > dmBlock PROVE FALSE
      BY <1>1
    <3>1. dispatches'[b] = <<>>
      BY <1>1, <1>4 DEF IndexInv
    <3> QED BY <3>1
  <2>2. SumFunctionOnSet(Sent', 0 .. b - 1) = SumFunctionOnSet(Sent, 0 .. b - 1)
    BY <1>7, <2>1
  <2> DEFINE base == SumFunctionOnSet(Sent, 0 .. b - 1)
  <2>3. base \in Nat
    BY <1>8
  <2>4. ASSUME i \in DOMAIN dispatches[b], dispatches'[b][i] = dispatches[b][i]
        PROVE  byRoot'[dispatches'[b][i].root] = base + i - 1
    <3>1. dispatches[b] \in Seq(Dispatch)
      BY <1>1
    <3>2. i \in 1 .. Len(dispatches[b]) /\ dispatches[b][i] \in Dispatch
      BY <2>4, <3>1
    <3>3. i \in Nat \ {0} /\ dispatches[b][i].root \in MessageRoots
      BY <3>1, <3>2 DEF Dispatch
    <3>4. byRoot[dispatches[b][i].root] = base + i - 1
      BY <2>4 DEF IndexInv, MessagesIndexed
    <3>5. dispatches[b][i].root # r
      BY <1>1, <2>3, <3>3, <3>4 DEF Unsent
    <3> QED BY <1>1, <2>4, <3>3, <3>4, <3>5
  <2>5. CASE b # dmBlock
    BY <1>4, <2>2, <2>4, <2>5
  <2>6. CASE b = dmBlock /\ i \in DOMAIN dispatches[b]
    <3>1. dispatches'[b][i] = dispatches[b][i]
      BY <1>1, <1>2, <1>4, <2>6
    <3> QED BY <2>2, <2>4, <2>6, <3>1
  <2>7. CASE b = dmBlock /\ i \notin DOMAIN dispatches[b]
    <3>1. i = Sent[b] + 1 /\ dispatches'[b][i] = d /\ Sent[b] \in Nat
      BY <1>1, <1>2, <1>4, <2>7 DEF Sent
    <3>2. byRoot'[r] = nextId
      BY <1>1
    <3>3. byRoot'[dispatches'[b][i].root] = nextId
      BY <1>2, <3>1, <3>2
    <3>4. base + Sent[b] = nextId
      BY <1>9, <2>7
    <3>5. SumFunctionOnSet(Sent', 0 .. b - 1) = base
      BY <2>2
    <3>6. i = Sent[b] + 1 /\ Sent[b] \in Nat /\ nextId \in Nat
      BY <1>1, <3>1, Zenon
    <3>7. i \in Nat /\ i - 1 = Sent[b]
      BY <3>6
    <3> HIDE DEF base
    <3>8. base + i - 1 = nextId
      BY <2>3, <3>4, <3>6, <3>7
    <3>9. byRoot'[dispatches'[b][i].root] = base + i - 1
      BY <3>3, <3>8
    <3> QED BY <3>5, <3>9
  <2> QED BY <2>5, <2>6, <2>7
<1>11. MessagesIndexed'
  BY <1>6, <1>10 DEF MessagesIndexed, IndexInv
<1>12. byRoot' \in [MessageRoots -> Nat \cup {Unsent}] /\ nextId' \in Nat
  BY <1>1
<1> QED BY <1>1, <1>4, <1>11, <1>12 DEF IndexInv

LEMMA IndexStep == IndexInv /\ [DmNext]_dmVars => IndexInv'
<1> SUFFICES ASSUME IndexInv, [DmNext]_dmVars PROVE IndexInv'
  OBVIOUS
<1>1. CASE SendDm
  <2>1. PICK e \in OneTimeKeys, r \in MessageRoots :
          /\ NewContent(r) /\ RecordReceive(e)
          /\ dispatches' = [dispatches EXCEPT ![dmBlock] = Append(@, [key |-> e, root |-> r])]
          /\ byRoot' = [byRoot EXCEPT ![r] = nextId] /\ nextId' = nextId + 1
          /\ dmBlock' = dmBlock
    BY <1>1 DEF SendDm
  <2> QED BY <2>1, AppendFact DEF RecordReceive
<1>2. CASE DmBlockEnds
  <2>1. /\ dmBlock < LastDmBlock /\ dmBlock' = dmBlock + 1
        /\ UNCHANGED <<dispatches, nextId, byRoot, total>>
    BY <1>2 DEF DmBlockEnds, indexVars, rewardVars
  <2>2. dmBlock' \in Blocks
    BY <2>1, MessagesAssumption DEF IndexInv, Blocks
  <2>3. \A b \in Blocks : b > dmBlock' => b > dmBlock
    BY <2>1, MessagesAssumption DEF IndexInv, Blocks
  <2> QED BY <2>1, <2>2, <2>3 DEF IndexInv, MessagesIndexed, Sent
<1>3. CASE PublishDmKey \/ RevokeDmKey \/ SendToStealth \/ ClaimStealthReward
             \/ UNCHANGED dmVars
  <2>1. UNCHANGED <<dmBlock, dispatches, nextId, byRoot, total>>
    BY <1>3 DEF PublishDmKey, RevokeDmKey, SendToStealth, ClaimStealthReward, dmVars,
                indexVars, rewardVars
  <2> QED BY <2>1 DEF IndexInv, MessagesIndexed, Sent
<1> QED BY <1>1, <1>2, <1>3 DEF DmNext

(* For any blocks, roots and keys: over all blocks the dispatches are the  *)
(* messages in the order of their ids, each root once, and byRoot finds    *)
(* each again.                                                             *)
THEOREM MessagesAreIndexed == DmSpec => []MessagesIndexed
<1>1. IndexInv => MessagesIndexed
  BY DEF IndexInv
<1> QED BY <1>1, DmStarts, IndexStep, PTL DEF DmSpec

-----------------------------------------------------------------------------
(* The difficulty.                                                         *)

Stamped == [diff : Nat \ {0}, time : Nat]

LEMMA SolveFacts ==
  ASSUME NEW window \in Seq(Stamped), NEW i \in 2 .. Len(window)
  PROVE  LET gap == window[i].time - window[i - 1].time
         IN  /\ gap \in Int
             /\ Solve(window, i) \in Nat \ {0}
             /\ gap <= TargetBlockTime => Solve(window, i) <= TargetBlockTime
             /\ gap >= TargetBlockTime => Solve(window, i) >= TargetBlockTime
<1> DEFINE gap == window[i].time - window[i - 1].time
           t == TargetBlockTime
<1>1. window[i] \in Stamped /\ window[i - 1] \in Stamped /\ t \in Nat \ {0}
  <2>1. Len(window) \in Nat /\ \A j \in 1 .. Len(window) : window[j] \in Stamped
    OBVIOUS
  <2>2. i \in 1 .. Len(window) /\ i - 1 \in 1 .. Len(window)
    BY <2>1
  <2> QED BY <2>1, <2>2, BlockAssumption
<1>2. gap \in Int
  <2>1. window[i].time \in Nat /\ window[i - 1].time \in Nat
    BY <1>1 DEF Stamped
  <2> QED BY <2>1
<1>3. Solve(window, i) = Min({Max({gap, 1}), 6 * t})
  BY DEF Solve
<1> HIDE DEF gap, t
<1>4. Max({gap, 1}) \in {gap, 1} /\ gap <= Max({gap, 1}) /\ 1 <= Max({gap, 1})
  <2>1. \A a, b \in Int : Max({a, b}) \in {a, b} /\ a <= Max({a, b}) /\ b <= Max({a, b})
    BY OneOfTwo
  <2>2. gap \in Int /\ 1 \in Int
    BY <1>2
  <2> QED BY <2>1, <2>2
<1> DEFINE passed == Max({gap, 1})
<1> HIDE DEF passed
<1>5. passed \in Int /\ 6 * t \in Int /\ Solve(window, i) = Min({passed, 6 * t})
  BY <1>1, <1>2, <1>3, <1>4 DEF passed
<1>6. /\ Solve(window, i) \in {passed, 6 * t}
      /\ Solve(window, i) <= passed /\ Solve(window, i) <= 6 * t
  BY <1>5, OneOfTwo
<1>7. passed \in {gap, 1} /\ gap <= passed /\ 1 <= passed
  BY <1>4 DEF passed
<1>8. /\ Solve(window, i) \in Nat \ {0}
      /\ gap <= t => Solve(window, i) <= t
      /\ gap >= t => Solve(window, i) >= t
  BY <1>1, <1>2, <1>5, <1>6, <1>7
<1> QED BY <1>2, <1>8 DEF gap, t

(* The parts of lwma3_next_difficulty. *)
Summed(window) ==
  LET m == AdjustWindow - 1
  IN  [inverse |-> SumFunctionOnSet([i \in 2 .. m + 1 |-> (U256Max \div window[i].diff) \div m],
                                    2 .. m + 1),
       solved |-> SumFunctionOnSet([i \in 2 .. m + 1 |-> (i - 1) * Solve(window, i)], 2 .. m + 1)]

LEMMA WindowFacts ==
  ASSUME NEW window \in Seq(Stamped), Len(window) = AdjustWindow
  PROVE  LET m == AdjustWindow - 1
             w == WeightedTarget(m)
             inverse == Summed(window).inverse
             solved == Summed(window).solved
         IN  /\ m \in Nat \ {0} /\ w \in Nat /\ U256Max \in Nat \ {0}
             /\ inverse \in Nat /\ solved \in Nat \ {0}
             /\ w <= WeightedTarget(AdjustWindow) /\ WeightedTarget(AdjustWindow) \in Nat \ {0}
             /\ \A i \in 2 .. AdjustWindow : window[i].diff \in Nat \ {0}
             /\ NextDifficulty(window) =
                  IF inverse = 0 THEN window[AdjustWindow].diff
                  ELSE Min({(U256Max \div inverse) * w, U256Max}) \div solved
<1> DEFINE m == AdjustWindow - 1
           t == TargetBlockTime
           f == [i \in 2 .. m + 1 |-> (U256Max \div window[i].diff) \div m]
           g == [i \in 2 .. m + 1 |-> (i - 1) * Solve(window, i)]
<1>1. /\ m \in Nat \ {0} /\ m + 1 = AdjustWindow /\ t \in Nat \ {0} /\ U256Max \in Nat \ {0}
      /\ AdjustWindow \in Nat /\ Len(window) - 1 = m
  BY BlockAssumption
<1>2. IsFiniteSet(2 .. m + 1) /\ 2 \in 2 .. m + 1
  <2>1. 2 \in Int /\ m + 1 \in Int
    BY <1>1
  <2> QED BY <1>1, <2>1, FS_Interval
<1>3. \A i \in 2 .. m + 1 : window[i].diff \in Nat \ {0}
  <2>1. \A i \in 2 .. m + 1 : i \in 1 .. Len(window)
    BY <1>1
  <2>2. \A i \in 1 .. Len(window) : window[i] \in Stamped
    OBVIOUS
  <2> HIDE DEF m
  <2>3. \A i \in 2 .. m + 1 : window[i] \in Stamped
    BY <2>1, <2>2
  <2> QED BY <2>3 DEF Stamped
<1>4. \A i \in 2 .. m + 1 : f[i] \in Nat
  <2> SUFFICES ASSUME NEW i \in 2 .. m + 1 PROVE (U256Max \div window[i].diff) \div m \in Nat
    OBVIOUS
  <2>1. U256Max \div window[i].diff \in Nat
    BY <1>1, <1>3, DivFact
  <2> QED BY <1>1, <2>1, DivFact
<1>5. \A i \in 2 .. m + 1 : Solve(window, i) \in Nat \ {0}
  <2>1. \A i \in 2 .. Len(window) : Solve(window, i) \in Nat \ {0}
    BY SolveFacts
  <2> QED BY <1>1, <2>1
<1>6. \A i \in 2 .. m + 1 : g[i] \in Nat
  <2> SUFFICES ASSUME NEW i \in 2 .. m + 1 PROVE (i - 1) * Solve(window, i) \in Nat
    OBVIOUS
  <2>1. i - 1 \in Nat
    OBVIOUS
  <2> QED BY <1>5, <2>1
<1>7. g[2] \in Nat \ {0}
  BY <1>2, <1>5
<1>8. /\ Summed(window).inverse = SumFunctionOnSet(f, 2 .. m + 1)
      /\ Summed(window).solved = SumFunctionOnSet(g, 2 .. m + 1)
  BY DEF Summed
<1>9. NextDifficulty(window) =
        IF Summed(window).inverse = 0 THEN window[m + 1].diff
        ELSE Min({(U256Max \div Summed(window).inverse) * WeightedTarget(m), U256Max})
               \div Summed(window).solved
  BY <1>1, <1>8 DEF NextDifficulty
<1> HIDE DEF f, g
<1>10. Summed(window).inverse \in Nat
  BY <1>2, <1>4, <1>8, SumIsNat
<1>11. Summed(window).solved \in Nat \ {0}
  <2>1. SumFunctionOnSet(g, 2 .. m + 1) \in Nat /\ g[2] <= SumFunctionOnSet(g, 2 .. m + 1)
    BY <1>2, <1>6, SumIsNat
  <2> QED BY <1>7, <1>8, <2>1
<1> HIDE DEF m
<1>12. /\ WeightedTarget(m) \in Nat /\ WeightedTarget(m) <= WeightedTarget(m + 1)
       /\ WeightedTarget(m + 1) \in Nat \ {0}
  <2> DEFINE p == m * (m + 1)
             q == (m + 1) * ((m + 1) + 1)
  <2>1. p \in Nat /\ q \in Nat /\ q = p + 2 * (m + 1)
    BY <1>1
  <2> HIDE DEF p, q
  <2>2. p \div 2 \in Nat /\ q \div 2 = p \div 2 + (m + 1)
    BY <1>1, <2>1
  <2>3. WeightedTarget(m) = t * (p \div 2) /\ WeightedTarget(m + 1) = t * (q \div 2)
    BY DEF WeightedTarget, p, q
  <2> DEFINE k == p \div 2
  <2>4. k \in Nat /\ WeightedTarget(m) = t * k /\ WeightedTarget(m + 1) = t * (k + (m + 1))
    BY <2>2, <2>3
  <2> HIDE DEF k, t
  <2>5. t * (k + (m + 1)) = t * k + t * (m + 1) /\ t * k \in Nat /\ t * (m + 1) \in Nat \ {0}
    BY <1>1, <2>4
  <2> QED BY <2>4, <2>5
<1> QED BY <1>1, <1>3, <1>9, <1>10, <1>11, <1>12 DEF m

LEMMA QuotientRules ==
  /\ \A a \in Nat, d \in Nat \ {0} : a \div d \in Nat /\ d * (a \div d) <= a
  /\ \A a, b \in Nat, d, e \in Nat \ {0} : a <= b /\ e <= d => a \div d <= b \div e
  /\ \A a \in Nat, d \in Nat \ {0}, k \in Nat : d * k <= a => k <= a \div d
  /\ \A a \in Nat, d \in Nat \ {0}, k \in Nat : a < d * (k + 1) => a \div d <= k
<1>1. \A a \in Nat, d \in Nat \ {0} : a \div d \in Nat /\ d * (a \div d) <= a
  BY DivFact
<1>2. \A a, b \in Nat, d, e \in Nat \ {0} : a <= b /\ e <= d => a \div d <= b \div e
  BY QuotientMonotone
<1>3. \A a \in Nat, d \in Nat \ {0}, k \in Nat : d * k <= a => k <= a \div d
  BY QuotientBounds
<1>4. \A a \in Nat, d \in Nat \ {0}, k \in Nat : a < d * (k + 1) => a \div d <= k
  BY QuotientAtMost
<1> QED BY <1>1, <1>2, <1>3, <1>4

LEMMA ProductRules ==
  \A k, a, b \in Nat : /\ k * a \in Nat /\ k * a = a * k
                       /\ a <= b => k * a <= k * b
                       /\ k * (a + b) = k * a + k * b
OBVIOUS

(* From the sums of a window to its difficulty.                            *)
LEMMA MeanAtLeast ==
  ASSUME NEW u \in Nat, NEW low \in Nat, NEW w \in Nat,
         NEW inverse \in Nat \ {0}, NEW solved \in Nat \ {0},
         inverse * low <= u, solved <= w, low * w <= u,
         NEW least \in {(u \div inverse) * w, u}
  PROVE  low <= least \div solved
<1> DEFINE mean == u \div inverse
<1>1. mean \in Nat /\ low <= mean
  BY QuotientRules
<1> HIDE DEF mean
<1>2. solved * low <= w * low /\ solved * low \in Nat /\ w * low = low * w
  BY ProductRules
<1>3. w * low <= w * mean /\ w * mean = mean * w /\ mean * w \in Nat /\ w * low \in Nat
  BY <1>1, ProductRules
<1>4. least \in Nat /\ solved * low <= least
  <2>1. CASE least = mean * w
    BY <1>2, <1>3, <2>1
  <2>2. CASE least = u
    BY <1>2, <1>3, <2>2
  <2> QED BY <2>1, <2>2 DEF mean
<1> QED BY <1>4, QuotientRules

LEMMA MeanAtMost ==
  ASSUME NEW u \in Nat, NEW high \in Nat, NEW w \in Nat,
         NEW inverse \in Nat \ {0}, NEW solved \in Nat \ {0},
         u < inverse * (high + 1), w <= solved,
         NEW least \in Nat, least <= (u \div inverse) * w
  PROVE  least \div solved <= high
<1> DEFINE mean == u \div inverse
<1>1. mean \in Nat /\ mean <= high
  BY QuotientRules
<1> HIDE DEF mean
<1>2. w * mean <= w * high /\ w * mean = mean * w /\ w * high \in Nat /\ w * mean \in Nat
  BY <1>1, ProductRules
<1>3. high * w <= high * solved /\ high * w = w * high /\ high * solved = solved * high
      /\ solved * high \in Nat
  BY ProductRules
<1>4. solved * (high + 1) = solved * high + solved
  BY ProductRules
<1>5. least <= mean * w
  BY DEF mean
<1>6. least < solved * (high + 1)
  BY <1>2, <1>3, <1>4, <1>5
<1> QED BY <1>6, QuotientRules

(* Blocks as fast as the target or faster: no less than the least of them. *)
LEMMA LeastOfWindow ==
  ASSUME NEW window \in Seq(Stamped), Len(window) = AdjustWindow, NEW low \in Nat \ {0},
         \A i \in 2 .. AdjustWindow :
           low <= window[i].diff /\ window[i].time - window[i - 1].time <= TargetBlockTime,
         Sound(low)
  PROVE  NextDifficulty(window) >= low
<1> DEFINE m == AdjustWindow - 1
           w == WeightedTarget(m)
           all == WeightedTarget(AdjustWindow)
           inverse == Summed(window).inverse
           solved == Summed(window).solved
           u == U256Max
           c == (u \div low) \div m
           span == 2 .. m + 1
           f == [i \in span |-> (u \div window[i].diff) \div m]
           g == [i \in span |-> (i - 1) * Solve(window, i)]
<1>1. /\ m \in Nat \ {0} /\ w \in Nat /\ u \in Nat \ {0} /\ w <= all /\ all \in Nat \ {0}
      /\ inverse \in Nat /\ solved \in Nat \ {0}
  BY WindowFacts
<1>2. /\ \A i \in 2 .. AdjustWindow : window[i].diff \in Nat \ {0}
      /\ NextDifficulty(window) = IF inverse = 0 THEN window[AdjustWindow].diff
                                  ELSE Min({(u \div inverse) * w, u}) \div solved
  BY WindowFacts
<1>n. AdjustWindow \in Nat \ {0, 1} /\ TargetBlockTime \in Nat
  BY BlockAssumption
<1>s. m + 1 = AdjustWindow /\ span = 2 .. AdjustWindow /\ AdjustWindow \in 2 .. AdjustWindow
  BY <1>n
<1>3. IsFiniteSet(span) /\ Cardinality(span) = m
  <2> HIDE DEF m
  <2> QED BY <1>1, SpanFacts
<1> HIDE DEF m, u, w, all
<1>4. c \in Nat /\ m * c <= u \div low /\ u \div low \in Nat /\ low * (u \div low) <= u
  BY <1>1, QuotientRules
<1>5. \A i \in span : f[i] \in Nat /\ f[i] <= c
  <2> SUFFICES ASSUME NEW i \in span
               PROVE  /\ (u \div window[i].diff) \div m \in Nat
                      /\ (u \div window[i].diff) \div m <= c
    OBVIOUS
  <2>1. window[i].diff \in Nat \ {0} /\ low <= window[i].diff
    BY <1>2, <1>s
  <2>2. u \div window[i].diff \in Nat /\ u \div window[i].diff <= u \div low
    <3> DEFINE d == window[i].diff
    <3>1. u \in Nat /\ u <= u /\ low \in Nat \ {0} /\ d \in Nat \ {0} /\ low <= d
      BY <1>1, <2>1
    <3> HIDE DEF d
    <3>2. u \div d <= u \div low
      BY <3>1, QuotientMonotone
    <3>3. u \div d \in Nat
      BY <3>1, DivFact
    <3> QED BY <3>2, <3>3 DEF d
  <2> DEFINE each == u \div window[i].diff
             most == u \div low
  <2>3. each \in Nat /\ most \in Nat /\ each <= most /\ c = most \div m
    BY <1>4, <2>2
  <2> HIDE DEF each, most, c
  <2>4. each \div m \in Nat
    BY <1>1, <2>3, DivFact
  <2>5. each \div m <= most \div m
    <3>1. m \in Nat \ {0} /\ m <= m
      BY <1>1
    <3> QED BY <2>3, <3>1, QuotientMonotone
  <2> QED BY <2>3, <2>4, <2>5 DEF each
<1>6. \A i \in span : g[i] \in Nat /\ g[i] <= (i - 1) * TargetBlockTime
  <2> SUFFICES ASSUME NEW i \in span
               PROVE  /\ (i - 1) * Solve(window, i) \in Nat
                      /\ (i - 1) * Solve(window, i) <= (i - 1) * TargetBlockTime
    OBVIOUS
  <2>1. i \in 2 .. Len(window) /\ i - 1 \in Nat /\ TargetBlockTime \in Nat
    BY <1>n, <1>s
  <2>2. Solve(window, i) \in Nat /\ Solve(window, i) <= TargetBlockTime
    BY <1>s, <2>1, SolveFacts
  <2>3. \A k, a, b \in Nat : a <= b => k * a \in Nat /\ k * a <= k * b
    OBVIOUS
  <2> QED BY <2>1, <2>2, <2>3
<1>7. inverse = SumFunctionOnSet(f, span) /\ solved = SumFunctionOnSet(g, span)
  BY DEF Summed, m, u
<1> HIDE DEF inverse, solved, f, g, c, span
<1>8. inverse <= u \div low
  <2> DEFINE same == [i \in span |-> c]
  <2>1. SumFunctionOnSet(same, span) = c * m
    <3>1. \A i \in span : same[i] = c
      OBVIOUS
    <3>2. c \in Int
      BY <1>4
    <3> HIDE DEF same
    <3> QED BY <1>3, <3>1, <3>2, SumOfEqual
  <2>2. \A i \in span : f[i] \in Int /\ same[i] \in Int /\ f[i] <= same[i]
    BY <1>4, <1>5
  <2> HIDE DEF same
  <2>3. SumFunctionOnSet(f, span) <= SumFunctionOnSet(same, span)
    BY <1>3, <2>2, SumMonotone
  <2>4. c * m = m * c
    BY <1>1, <1>4
  <2> DEFINE most == u \div low
  <2>5. most \in Nat /\ m * c <= most
    BY <1>4
  <2> HIDE DEF most
  <2>6. inverse <= m * c /\ m * c \in Nat
    BY <1>1, <1>4, <1>7, <2>1, <2>3, <2>4, ProductRules
  <2>7. inverse <= most
    BY <1>1, <2>5, <2>6
  <2> QED BY <2>7 DEF most
<1>9. solved <= w
  <2> DEFINE onTime == [i \in span |-> (i - 1) * TargetBlockTime]
  <2>1. SumFunctionOnSet(onTime, span) = TargetBlockTime * ((m * (m + 1)) \div 2)
    <3>1. TargetBlockTime \in Int /\ m \in Nat /\ \A i \in 2 .. m + 1 : onTime[i] = (i - 1) * TargetBlockTime
      BY <1>1, <1>n DEF span
    <3> HIDE DEF onTime
    <3>2. SumFunctionOnSet(onTime, 2 .. m + 1) = TargetBlockTime * ((m * (m + 1)) \div 2)
      BY <3>1, WeightedSum
    <3> QED BY <3>2 DEF span
  <2>2. \A i \in span : onTime[i] \in Int
    <3> SUFFICES ASSUME NEW i \in span PROVE (i - 1) * TargetBlockTime \in Int
      OBVIOUS
    <3>1. i - 1 \in Int /\ TargetBlockTime \in Int
      BY <1>1, <1>n DEF span
    <3> QED BY <3>1
  <2>3. \A i \in span : g[i] \in Int /\ onTime[i] \in Int /\ g[i] <= onTime[i]
    BY <1>6, <2>2
  <2> HIDE DEF onTime
  <2>4. SumFunctionOnSet(g, span) <= SumFunctionOnSet(onTime, span)
    BY <1>3, <2>3, SumMonotone
  <2> QED BY <1>7, <2>1, <2>4 DEF WeightedTarget, w
<1>10. low * w \in Nat /\ low * w <= u
  <2> DEFINE a == low * low
             b == low * all
             lw == low * w
             x == low + all
             y == AdjustWindow * low
             z == low * x
  <2>1. y * x <= u
    BY DEF Sound, u, all
  <2>2. x \in Nat /\ AdjustWindow \in Nat \ {0}
    BY <1>1, <1>n
  <2>3. lw \in Nat /\ lw <= b /\ a \in Nat /\ b \in Nat /\ z = a + b
    BY <1>1, ProductRules
  <2> HIDE DEF a, b, lw, z
  <2>4. z \in Nat /\ lw <= z
    BY <2>3
  <2> HIDE DEF x
  <2>5. y * x = AdjustWindow * z
    <3>1. AdjustWindow \in Int /\ low \in Int /\ x \in Int
      BY <1>1, <2>2
    <3>2. (AdjustWindow * low) * x = AdjustWindow * (low * x)
      BY <3>1
    <3> QED BY <3>2 DEF z
  <2> HIDE DEF y
  <2>6. z <= AdjustWindow * z /\ AdjustWindow * z \in Nat
    <3>1. z * 1 = z /\ 1 <= AdjustWindow /\ 1 \in Nat
      BY <2>2, <2>4
    <3>2. z * 1 <= z * AdjustWindow /\ z * AdjustWindow = AdjustWindow * z
          /\ z * AdjustWindow \in Nat
      BY <2>2, <2>4, <3>1, ProductRules
    <3> QED BY <3>1, <3>2
  <2> DEFINE v == AdjustWindow * z
  <2>7. v <= u /\ z <= v /\ lw <= z /\ lw \in Nat /\ v \in Nat /\ z \in Nat /\ u \in Nat
    BY <1>1, <2>1, <2>3, <2>4, <2>5, <2>6
  <2> HIDE DEF v
  <2>8. lw <= u
    BY <2>7
  <2> QED BY <2>3, <2>8 DEF lw
<1>11. CASE inverse = 0
  BY <1>2, <1>s, <1>11
<1>12. CASE inverse # 0
  <2> DEFINE most == u \div low
             least == Min({(u \div inverse) * w, u})
  <2>1. inverse * low <= u
    <3>1. most \in Nat /\ low * most <= u /\ inverse <= most
      BY <1>4, <1>8
    <3> HIDE DEF most
    <3>2. low * inverse <= low * most /\ low * inverse = inverse * low /\ low * most \in Nat
          /\ low * inverse \in Nat
      BY <1>1, <3>1, ProductRules
    <3> DEFINE x == low * inverse
               y == low * most
    <3>3. x <= y /\ y <= u /\ x \in Nat /\ y \in Nat /\ u \in Nat /\ x = inverse * low
      BY <1>1, <3>1, <3>2
    <3> HIDE DEF x, y
    <3>4. x <= u
      BY <3>3
    <3> QED BY <3>3, <3>4
  <2>2. least \in {(u \div inverse) * w, u}
    <3> DEFINE x == (u \div inverse) * w
    <3>1. x \in Int /\ u \in Int
      <4>1. u \div inverse \in Nat
        BY <1>1, <1>12, QuotientRules
      <4> QED BY <1>1, <4>1
    <3> HIDE DEF x
    <3>2. Min({x, u}) \in {x, u}
      BY <3>1, OneOfTwo
    <3> QED BY <3>2 DEF x
  <2>3. NextDifficulty(window) = least \div solved
    BY <1>2, <1>12
  <2> HIDE DEF least
  <2>4. inverse \in Nat \ {0} /\ solved \in Nat \ {0} /\ u \in Nat /\ w \in Nat
    BY <1>1, <1>12
  <2>5. low <= least \div solved
    BY <1>9, <1>10, <2>1, <2>2, <2>4, MeanAtLeast
  <2>6. least \div solved \in Nat
    <3>1. least \in Nat
      <4>1. u \div inverse \in Nat
        BY <2>4, QuotientRules
      <4>2. (u \div inverse) * w \in Nat
        BY <2>4, <4>1, ProductRules
      <4> QED BY <2>2, <2>4, <4>2
    <3> QED BY <2>4, <3>1, QuotientRules
  <2> QED BY <2>3, <2>5, <2>6
<1> QED BY <1>11, <1>12

(* What rounding the summands down may lose does not make the mean larger.  *)
LEMMA CoarseSum ==
  ASSUME NEW u \in Nat, NEW high \in Nat \ {0}, NEW m \in Nat \ {0}, NEW q \in Nat,
         NEW inverse \in Nat,
         u < high * q + high, q + 1 <= inverse + m, m * high + m <= q
  PROVE  u < inverse * (high + 1)
<1>1. high * (q + 1) <= high * (inverse + m)
  BY ProductRules
<1>2. /\ high * (q + 1) = high * q + high
      /\ high * (inverse + m) = high * inverse + high * m
      /\ inverse * (high + 1) = high * inverse + inverse
      /\ m * high = high * m
      /\ high * q \in Nat /\ high * inverse \in Nat /\ high * m \in Nat
  BY ProductRules
<1> DEFINE a == high * q
           b == high * inverse
           c == high * m
<1>3. /\ a \in Nat /\ b \in Nat /\ c \in Nat
      /\ a + high <= b + c /\ c + m <= q /\ u < a + high
  BY <1>1, <1>2
<1> HIDE DEF a, b, c
<1>4. u < b + inverse
  BY <1>3
<1> QED BY <1>2, <1>4 DEF b

(* Blocks as slow as the target or slower: no more than the greatest.      *)
LEMMA GreatestOfWindow ==
  ASSUME NEW window \in Seq(Stamped), Len(window) = AdjustWindow, NEW high \in Nat \ {0},
         \A i \in 2 .. AdjustWindow :
           window[i].diff <= high /\ window[i].time - window[i - 1].time >= TargetBlockTime,
         Sound(high)
  PROVE  NextDifficulty(window) <= high
<1> DEFINE m == AdjustWindow - 1
           w == WeightedTarget(m)
           all == WeightedTarget(AdjustWindow)
           inverse == Summed(window).inverse
           solved == Summed(window).solved
           u == U256Max
           c == (u \div high) \div m
           span == 2 .. m + 1
           f == [i \in span |-> (u \div window[i].diff) \div m]
           g == [i \in span |-> (i - 1) * Solve(window, i)]
<1>1. /\ m \in Nat \ {0} /\ w \in Nat /\ u \in Nat \ {0} /\ w <= all /\ all \in Nat \ {0}
      /\ inverse \in Nat /\ solved \in Nat \ {0}
  BY WindowFacts
<1>2. /\ \A i \in 2 .. AdjustWindow : window[i].diff \in Nat \ {0}
      /\ NextDifficulty(window) = IF inverse = 0 THEN window[AdjustWindow].diff
                                  ELSE Min({(u \div inverse) * w, u}) \div solved
  BY WindowFacts
<1>n. AdjustWindow \in Nat \ {0, 1} /\ TargetBlockTime \in Nat
  BY BlockAssumption
<1>s. m + 1 = AdjustWindow /\ span = 2 .. AdjustWindow /\ AdjustWindow \in 2 .. AdjustWindow
  BY <1>n
<1>3. IsFiniteSet(span) /\ Cardinality(span) = m
  <2> HIDE DEF m
  <2> QED BY <1>1, SpanFacts
<1> HIDE DEF m, u, w, all
<1>4. /\ u \div high \in Nat /\ u < high * (u \div high) + high
      /\ c \in Nat /\ u \div high < m * c + m
  <2>1. u \div high \in Nat /\ u < high * (u \div high) + high
    BY <1>1, DivFact
  <2> QED BY <1>1, <2>1, DivFact
<1>5. \A i \in span : f[i] \in Nat /\ c <= f[i]
  <2> SUFFICES ASSUME NEW i \in span
               PROVE  /\ (u \div window[i].diff) \div m \in Nat
                      /\ c <= (u \div window[i].diff) \div m
    OBVIOUS
  <2>1. window[i].diff \in Nat \ {0} /\ window[i].diff <= high
    BY <1>2, <1>s
  <2>2. u \div window[i].diff \in Nat /\ u \div high <= u \div window[i].diff
    <3> DEFINE d == window[i].diff
    <3>1. u \in Nat /\ u <= u /\ high \in Nat \ {0} /\ d \in Nat \ {0} /\ d <= high
      BY <1>1, <2>1
    <3> HIDE DEF d
    <3>2. u \div high <= u \div d
      BY <3>1, QuotientMonotone
    <3>3. u \div d \in Nat
      BY <3>1, DivFact
    <3> QED BY <3>2, <3>3 DEF d
  <2> DEFINE each == u \div window[i].diff
             least == u \div high
  <2>3. each \in Nat /\ least \in Nat /\ least <= each /\ c = least \div m
    BY <1>4, <2>2
  <2> HIDE DEF each, least, c
  <2>4. each \div m \in Nat
    BY <1>1, <2>3, DivFact
  <2>5. least \div m <= each \div m
    <3>1. m \in Nat \ {0} /\ m <= m
      BY <1>1
    <3> QED BY <2>3, <3>1, QuotientMonotone
  <2> QED BY <2>3, <2>4, <2>5 DEF each
<1>6. \A i \in span : g[i] \in Nat /\ (i - 1) * TargetBlockTime <= g[i]
  <2> SUFFICES ASSUME NEW i \in span
               PROVE  /\ (i - 1) * Solve(window, i) \in Nat
                      /\ (i - 1) * TargetBlockTime <= (i - 1) * Solve(window, i)
    OBVIOUS
  <2>1. i \in 2 .. Len(window) /\ i - 1 \in Nat /\ TargetBlockTime \in Nat
    BY <1>n, <1>s
  <2>2. Solve(window, i) \in Nat /\ TargetBlockTime <= Solve(window, i)
    BY <1>s, <2>1, SolveFacts
  <2>3. \A k, a, b \in Nat : a <= b => k * b \in Nat /\ k * a <= k * b
    OBVIOUS
  <2> QED BY <2>1, <2>2, <2>3
<1>7. inverse = SumFunctionOnSet(f, span) /\ solved = SumFunctionOnSet(g, span)
  BY DEF Summed, m, u
<1> HIDE DEF inverse, solved, f, g, c, span
<1>8. m * c <= inverse /\ m * c \in Nat
  <2> DEFINE same == [i \in span |-> c]
  <2>1. SumFunctionOnSet(same, span) = c * m
    <3>1. \A i \in span : same[i] = c
      OBVIOUS
    <3>2. c \in Int
      BY <1>4
    <3> HIDE DEF same
    <3> QED BY <1>3, <3>1, <3>2, SumOfEqual
  <2>2. \A i \in span : same[i] \in Int /\ f[i] \in Int /\ same[i] <= f[i]
    BY <1>4, <1>5
  <2> HIDE DEF same
  <2>3. SumFunctionOnSet(same, span) <= SumFunctionOnSet(f, span)
    BY <1>3, <2>2, SumMonotone
  <2>4. c * m = m * c /\ m * c \in Nat
    BY <1>1, <1>4
  <2> QED BY <1>7, <2>1, <2>3, <2>4
<1>9. w <= solved
  <2> DEFINE onTime == [i \in span |-> (i - 1) * TargetBlockTime]
  <2>1. SumFunctionOnSet(onTime, span) = TargetBlockTime * ((m * (m + 1)) \div 2)
    <3>1. TargetBlockTime \in Int /\ m \in Nat /\ \A i \in 2 .. m + 1 : onTime[i] = (i - 1) * TargetBlockTime
      BY <1>1, <1>n DEF span
    <3> HIDE DEF onTime
    <3>2. SumFunctionOnSet(onTime, 2 .. m + 1) = TargetBlockTime * ((m * (m + 1)) \div 2)
      BY <3>1, WeightedSum
    <3> QED BY <3>2 DEF span
  <2>2. \A i \in span : onTime[i] \in Int
    <3> SUFFICES ASSUME NEW i \in span PROVE (i - 1) * TargetBlockTime \in Int
      OBVIOUS
    <3>1. i - 1 \in Int /\ TargetBlockTime \in Int
      BY <1>1, <1>n DEF span
    <3> QED BY <3>1
  <2>3. \A i \in span : onTime[i] \in Int /\ g[i] \in Int /\ onTime[i] <= g[i]
    BY <1>6, <2>2
  <2> HIDE DEF onTime
  <2>4. SumFunctionOnSet(onTime, span) <= SumFunctionOnSet(g, span)
    BY <1>3, <2>3, SumMonotone
  <2> QED BY <1>7, <2>1, <2>4 DEF WeightedTarget, w
<1>10. m * high + m <= u \div high
  <2> DEFINE x == high + all
             y == AdjustWindow * x
  <2>1. AdjustWindow * high * x <= u
    BY DEF Sound, u, all
  <2>2. x \in Nat /\ high + 1 <= x
    BY <1>1
  <2> HIDE DEF x
  <2>3. y \in Nat /\ high * y = AdjustWindow * high * x
    <3>1. AdjustWindow \in Nat /\ high \in Nat
      BY <1>n
    <3>2. high * (AdjustWindow * x) = AdjustWindow * high * x
      BY <2>2, <3>1
    <3> QED BY <2>2, <3>1, <3>2, ProductRules
  <2> HIDE DEF y
  <2>4. y <= u \div high
    <3>1. high * y <= u
      BY <2>1, <2>3
    <3> QED BY <1>1, <2>3, <3>1, QuotientRules
  <2>5. /\ m * (high + 1) <= m * x /\ m * (high + 1) = m * high + m
        /\ m * x \in Nat /\ m * high \in Nat
    <3>1. m \in Nat /\ high + 1 \in Nat /\ 1 \in Nat /\ high \in Nat /\ m * 1 = m
      BY <1>1
    <3> QED BY <2>2, <3>1, ProductRules
  <2>6. m * x <= y
    <3>1. m \in Nat /\ m <= AdjustWindow /\ AdjustWindow \in Nat
      BY <1>1, <1>n, <1>s
    <3>2. x * m <= x * AdjustWindow /\ x * m = m * x /\ x * AdjustWindow = AdjustWindow * x
      BY <2>2, <3>1, ProductRules
    <3> QED BY <3>2 DEF y
  <2> DEFINE a == m * high
             b == m * x
             q == u \div high
  <2>7. a \in Nat /\ b \in Nat /\ q \in Nat /\ a + m <= b /\ b <= y /\ y <= q
    BY <1>4, <2>4, <2>5, <2>6
  <2> HIDE DEF a, b, q
  <2>8. a + m <= q
    BY <1>1, <2>3, <2>7
  <2> QED BY <2>8 DEF a, q
<1>11. CASE inverse = 0
  BY <1>2, <1>s, <1>11
<1>12. CASE inverse # 0
  <2> DEFINE q == u \div high
             least == Min({(u \div inverse) * w, u})
  <2>1. u < inverse * (high + 1)
    <3>1. q \in Nat /\ u < high * q + high /\ m * high + m <= q
      BY <1>4, <1>10
    <3>2. q + 1 <= inverse + m
      <4> DEFINE k == m * c
      <4>1. k \in Nat /\ k <= inverse /\ q < k + m /\ q \in Nat
        BY <1>4, <1>8
      <4> HIDE DEF k, q
      <4> QED BY <1>1, <4>1
    <3> HIDE DEF q
    <3>3. u \in Nat /\ m \in Nat \ {0} /\ inverse \in Nat
      BY <1>1
    <3> QED BY <3>1, <3>2, <3>3, CoarseSum
  <2>2. u \div inverse \in Nat /\ (u \div inverse) * w \in Nat
    <3>1. u \div inverse \in Nat
      BY <1>1, <1>12, QuotientRules
    <3> QED BY <1>1, <3>1, ProductRules
  <2>3. least \in Nat /\ least <= (u \div inverse) * w
    <3> DEFINE x == (u \div inverse) * w
    <3>1. x \in Int /\ u \in Int /\ x \in Nat /\ u \in Nat
      BY <1>1, <2>2
    <3> HIDE DEF x
    <3>2. Min({x, u}) \in {x, u} /\ Min({x, u}) <= x
      BY <3>1, OneOfTwo
    <3>3. Min({x, u}) \in Nat /\ Min({x, u}) <= x
      BY <3>1, <3>2
    <3> QED BY <3>3 DEF x
  <2>4. NextDifficulty(window) = least \div solved
    BY <1>2, <1>12
  <2> HIDE DEF least
  <2>5. inverse \in Nat \ {0} /\ solved \in Nat \ {0} /\ u \in Nat /\ w \in Nat
    BY <1>1, <1>12
  <2>6. least \div solved <= high
    BY <1>9, <2>1, <2>3, <2>5, MeanAtMost
  <2> QED BY <2>4, <2>6
<1> QED BY <1>11, <1>12

PaceInv ==
  /\ past \in Seq(Stamped) /\ Len(past) <= AdjustWindow
  /\ difficulty \in Nat \ {0}

LEMMA RingFact ==
  ASSUME NEW S, NEW ring \in Seq(S), NEW x \in S, NEW n \in Nat \ {0}, Len(ring) <= n
  PROVE  Pushed(ring, x, n) \in Seq(S) /\ Len(Pushed(ring, x, n)) <= n
<1>1. CASE Len(ring) >= n
  <2>1. ring # <<>> /\ Tail(ring) \in Seq(S) /\ Len(Tail(ring)) = Len(ring) - 1
    BY <1>1
  <2>2. Pushed(ring, x, n) = Append(Tail(ring), x)
    BY <1>1 DEF Pushed
  <2> QED BY <2>1, <2>2
<1>2. CASE ~(Len(ring) >= n)
  <2>1. Pushed(ring, x, n) = Append(ring, x)
    BY <1>2 DEF Pushed
  <2> QED BY <1>2, <2>1
<1> QED BY <1>1, <1>2

LEMMA LargerFact ==
  \A a, b \in Int : Larger(a, b) \in {a, b} /\ a <= Larger(a, b) /\ b <= Larger(a, b)
BY DEF Larger

LEMMA NextDifficultyFact ==
  ASSUME NEW window \in Seq(Stamped), Len(window) = AdjustWindow
  PROVE  NextDifficulty(window) \in Nat
<1> DEFINE w == WeightedTarget(AdjustWindow - 1)
           inverse == Summed(window).inverse
           solved == Summed(window).solved
           x == (U256Max \div inverse) * w
<1>1. /\ w \in Nat /\ U256Max \in Nat /\ inverse \in Nat /\ solved \in Nat \ {0}
      /\ NextDifficulty(window) = IF inverse = 0 THEN window[AdjustWindow].diff
                                  ELSE Min({x, U256Max}) \div solved
      /\ \A i \in 2 .. AdjustWindow : window[i].diff \in Nat \ {0}
  BY WindowFacts
<1>2. AdjustWindow \in 2 .. AdjustWindow
  BY BlockAssumption
<1> HIDE DEF inverse, solved, w
<1>3. CASE inverse = 0
  BY <1>1, <1>2, <1>3
<1>4. CASE inverse # 0
  <2>1. U256Max \div inverse \in Nat
    BY <1>1, <1>4, QuotientRules
  <2>2. x \in Nat /\ U256Max \in Nat /\ x \in Int /\ U256Max \in Int
    BY <1>1, <2>1, ProductRules
  <2> HIDE DEF x
  <2>3. Min({x, U256Max}) \in {x, U256Max}
    BY <2>2, OneOfTwo
  <2>4. Min({x, U256Max}) \in Nat
    BY <2>2, <2>3
  <2>5. Min({x, U256Max}) \div solved \in Nat
    BY <1>1, <2>4, QuotientRules
  <2> QED BY <1>1, <1>4, <2>5
<1> QED BY <1>3, <1>4

(* What the end of a block puts into the window.                           *)
LEMMA BlockPaces ==
  ASSUME PaceInv, FinalizeBlock
  PROVE  /\ past' \in Seq(Stamped) /\ Len(past') <= AdjustWindow
         /\ difficulty' = IF Len(past') < AdjustWindow THEN difficulty
                          ELSE Larger(NextDifficulty(past'), MinDifficulty)
<1>1. PICK gap \in Gaps : Adjust((IF past = <<>> THEN 0 ELSE past[Len(past)].time) + gap)
  BY DEF FinalizeBlock
<1> DEFINE time == (IF past = <<>> THEN 0 ELSE past[Len(past)].time) + gap
<1>2. time \in Nat
  <2>1. gap \in Nat
    BY BlockAssumption
  <2>2. CASE past = <<>>
    BY <2>1, <2>2
  <2>3. CASE past # <<>>
    <3>1. past[Len(past)] \in Stamped
      BY <2>3 DEF PaceInv
    <3> QED BY <2>1, <2>3, <3>1 DEF Stamped
  <2> QED BY <2>2, <2>3
<1>3. /\ past' = Pushed(past, [diff |-> difficulty, time |-> time], AdjustWindow)
      /\ difficulty' = IF Len(past') < AdjustWindow THEN difficulty
                       ELSE Larger(NextDifficulty(past'), MinDifficulty)
  BY <1>1 DEF Adjust
<1> HIDE DEF time
<1>4. [diff |-> difficulty, time |-> time] \in Stamped /\ AdjustWindow \in Nat \ {0}
  BY <1>2, BlockAssumption DEF PaceInv, Stamped
<1>5. past' \in Seq(Stamped) /\ Len(past') <= AdjustWindow
  BY <1>3, <1>4, RingFact DEF PaceInv
<1> QED BY <1>3, <1>5

LEMMA PaceStep ==
  ASSUME PaceInv, [BlockNext]_blockVars
  PROVE  /\ PaceInv'
         /\ past' # past => FinalizeBlock
<1>1. CASE FinalizeBlock
  <2>1. /\ past' \in Seq(Stamped) /\ Len(past') <= AdjustWindow
        /\ difficulty' = IF Len(past') < AdjustWindow THEN difficulty
                         ELSE Larger(NextDifficulty(past'), MinDifficulty)
    BY <1>1, BlockPaces
  <2>2. difficulty' \in Nat \ {0}
    <3>1. CASE Len(past') < AdjustWindow
      BY <2>1, <3>1 DEF PaceInv
    <3>2. CASE ~(Len(past') < AdjustWindow)
      <4>1. Len(past') = AdjustWindow /\ MinDifficulty \in Nat \ {0}
        BY <2>1, <3>2, BlockAssumption
      <4>2. NextDifficulty(past') \in Nat
        BY <2>1, <4>1, NextDifficultyFact
      <4>3. Larger(NextDifficulty(past'), MinDifficulty) \in Nat \ {0}
        BY <4>1, <4>2, LargerFact
      <4> QED BY <2>1, <3>2, <4>3
    <3> QED BY <3>1, <3>2
  <2> QED BY <1>1, <2>1, <2>2 DEF PaceInv
<1>2. CASE RegisterGrandpaKey \/ UnregisterGrandpaKey \/ UNCHANGED blockVars
  BY <1>2 DEF RegisterGrandpaKey, UnregisterGrandpaKey, blockVars, difficultyVars, PaceInv
<1> QED BY <1>1, <1>2 DEF BlockNext

LEMMA PaceFollows ==
  ASSUME PaceInv, [BlockNext]_blockVars, Len(past') = AdjustWindow, past' # past
  PROVE  LET gaps == {past'[i].time - past'[i - 1].time: i \in 2 .. AdjustWindow}
             diffs == {past'[i].diff: i \in 2 .. AdjustWindow}
         IN (\A d \in diffs: Sound(d)) =>
            /\ (\A g \in gaps: g <= TargetBlockTime) => difficulty' >= Min(diffs)
            /\ (\A g \in gaps: g >= TargetBlockTime) =>
                 difficulty' <= Larger(Max(diffs), MinDifficulty)
<1> DEFINE window == past'
           span == 2 .. AdjustWindow
           gaps == {window[i].time - window[i - 1].time: i \in span}
           diffs == {window[i].diff: i \in span}
<1>1. /\ window \in Seq(Stamped) /\ Len(window) = AdjustWindow
      /\ difficulty' = Larger(NextDifficulty(window), MinDifficulty)
  <2>1. FinalizeBlock
    BY PaceStep
  <2>2. AdjustWindow \in Nat /\ ~(Len(past') < AdjustWindow)
    BY BlockAssumption
  <2> QED BY <2>1, <2>2, BlockPaces
<1> HIDE DEF window
<1>2. /\ AdjustWindow \in span /\ MinDifficulty \in Nat \ {0} /\ IsFiniteSet(span)
      /\ \A i \in span : window[i].diff \in Nat \ {0}
  <2>1. AdjustWindow \in Int /\ 2 \in Int
    BY BlockAssumption
  <2>2. IsFiniteSet(2 .. AdjustWindow)
    BY <2>1, FS_Interval
  <2>3. AdjustWindow \in 2 .. AdjustWindow /\ MinDifficulty \in Nat \ {0}
    BY BlockAssumption
  <2>4. \A i \in 2 .. AdjustWindow : window[i].diff \in Nat \ {0}
    BY <1>1, WindowFacts
  <2> QED BY <2>2, <2>3, <2>4
<1> HIDE DEF span
<1>3. IsFiniteSet(diffs)
  <2> DEFINE h == [i \in span |-> window[i].diff]
  <2>1. h \in Surjection(span, diffs)
    BY DEF Surjection
  <2> QED BY <1>2, <2>1, FS_Surjection
<1>4. diffs # {} /\ diffs \subseteq Nat \ {0} /\ diffs \subseteq Int
  BY <1>2
<1>5. /\ Min(diffs) \in diffs /\ Max(diffs) \in diffs
      /\ \A d \in diffs : Min(diffs) <= d /\ d <= Max(diffs)
  BY <1>3, <1>4, LeastAndMost
<1>6. NextDifficulty(window) \in Nat
  BY <1>1, NextDifficultyFact
<1>7. ASSUME \A d \in diffs : Sound(d), \A g \in gaps : g <= TargetBlockTime
      PROVE  difficulty' >= Min(diffs)
  <2>1. Min(diffs) \in Nat \ {0} /\ Sound(Min(diffs))
    BY <1>4, <1>5, <1>7
  <2>2. \A i \in 2 .. AdjustWindow :
          Min(diffs) <= window[i].diff /\ window[i].time - window[i - 1].time <= TargetBlockTime
    BY <1>5, <1>7 DEF span
  <2> DEFINE low == Min(diffs)
  <2> HIDE DEF low
  <2>3. low \in Nat \ {0} /\ Sound(low) /\ \A i \in 2 .. AdjustWindow :
          low <= window[i].diff /\ window[i].time - window[i - 1].time <= TargetBlockTime
    BY <2>1, <2>2 DEF low
  <2>4. NextDifficulty(window) >= low
    BY <1>1, <2>3, LeastOfWindow
  <2>5. difficulty' \in Int /\ NextDifficulty(window) <= difficulty'
    BY <1>1, <1>2, <1>6, LargerFact
  <2> QED BY <1>6, <2>3, <2>4, <2>5 DEF low
<1>8. ASSUME \A d \in diffs : Sound(d), \A g \in gaps : g >= TargetBlockTime
      PROVE  difficulty' <= Larger(Max(diffs), MinDifficulty)
  <2>1. Max(diffs) \in Nat \ {0} /\ Sound(Max(diffs))
    BY <1>4, <1>5, <1>8
  <2>2. \A i \in 2 .. AdjustWindow :
          window[i].diff <= Max(diffs) /\ window[i].time - window[i - 1].time >= TargetBlockTime
    BY <1>5, <1>8 DEF span
  <2> DEFINE high == Max(diffs)
  <2> HIDE DEF high
  <2>3. high \in Nat \ {0} /\ Sound(high) /\ \A i \in 2 .. AdjustWindow :
          window[i].diff <= high /\ window[i].time - window[i - 1].time >= TargetBlockTime
    BY <2>1, <2>2 DEF high
  <2>4. NextDifficulty(window) <= high
    BY <1>1, <2>3, GreatestOfWindow
  <2>5. Larger(NextDifficulty(window), MinDifficulty) <= Larger(high, MinDifficulty)
    BY <1>2, <1>6, <2>3, <2>4 DEF Larger
  <2> QED BY <1>1, <2>5 DEF high
<1> QED BY <1>7, <1>8 DEF window, span

(* For any window, target, floor and pace: after blocks as fast as the      *)
(* target the difficulty is no less than the least of the window, after    *)
(* blocks as slow no more than the greatest, roundings included.           *)
THEOREM DifficultyAlwaysFollows == BlockSpec => DifficultyFollowsPace
<1>1. BlockInit => PaceInv
  <2> SUFFICES ASSUME BlockInit PROVE PaceInv
    OBVIOUS
  <2>1. difficulty = Larger(InitialDifficulty, MinDifficulty) /\ past = <<>>
    BY DEF BlockInit
  <2>2. InitialDifficulty \in Nat \ {0} /\ MinDifficulty \in Nat \ {0} /\ AdjustWindow \in Nat
    BY BlockAssumption
  <2> QED BY <2>1, <2>2 DEF PaceInv, Larger
<1>2. PaceInv /\ [BlockNext]_blockVars => PaceInv'
  BY PaceStep
<1>3. PaceInv /\ [BlockNext]_blockVars =>
        [Len(past') = AdjustWindow /\ past' # past =>
           LET gaps == {past'[i].time - past'[i - 1].time: i \in 2 .. AdjustWindow}
               diffs == {past'[i].diff: i \in 2 .. AdjustWindow}
           IN (\A d \in diffs: Sound(d)) =>
              /\ (\A g \in gaps: g <= TargetBlockTime) => difficulty' >= Min(diffs)
              /\ (\A g \in gaps: g >= TargetBlockTime) =>
                   difficulty' <= Larger(Max(diffs), MinDifficulty)]_blockVars
  BY PaceFollows
<1> QED BY <1>1, <1>2, <1>3, PTL DEF BlockSpec, DifficultyFollowsPace
-----------------------------------------------------------------------------
(* Election.  The rank of an account is the number of accounts ahead of    *)
(* it: ranks differ, so each of 0, 1, ... up to the last is taken once,    *)
(* and the ranking lists every account behind those that mined more.       *)

BetterMiners(m, accounts, ring) == {o \in accounts: RanksAhead(o, m, ring)}
RankOf(m, accounts, ring) == Cardinality(BetterMiners(m, accounts, ring))

LEMMA MinedIsNat ==
  ASSUME NEW ring \in Seq(Miners), NEW m
  PROVE  Mined(m, ring) \in Nat
<1>1. DOMAIN ring = 1 .. Len(ring) /\ Len(ring) \in Int /\ 1 \in Int
  OBVIOUS
<1>2. IsFiniteSet(DOMAIN ring)
  BY <1>1, FS_Interval
<1>3. {i \in DOMAIN ring: ring[i] = m} \in SUBSET DOMAIN ring
  OBVIOUS
<1>4. IsFiniteSet({i \in DOMAIN ring: ring[i] = m})
  BY <1>2, <1>3, FS_Subset
<1> QED BY <1>4, FS_CardinalityType DEF Mined

(* Most blocks first, then by account, is a strict order of all miners.    *)
LEMMA RankIsAnOrder ==
  ASSUME NEW ring \in Seq(Miners)
  PROVE  /\ \A a \in Miners : ~RanksAhead(a, a, ring)
         /\ \A a, b, c \in Miners :
              RanksAhead(a, b, ring) /\ RanksAhead(b, c, ring) => RanksAhead(a, c, ring)
         /\ \A a, b \in Miners : a = b \/ RanksAhead(a, b, ring) \/ RanksAhead(b, a, ring)
         /\ \A a, b \in Miners : RanksAhead(a, b, ring) => Mined(a, ring) >= Mined(b, ring)
<1>1. \A a \in Miners : Mined(a, ring) \in Nat /\ a \in Nat
  BY MinedIsNat, BlockAssumption
<1> QED BY <1>1 DEF RanksAhead

LEMMA RanksDiffer ==
  ASSUME NEW ring \in Seq(Miners), NEW accounts \in SUBSET Miners, IsFiniteSet(accounts)
  PROVE  /\ \A m \in accounts : RankOf(m, accounts, ring) \in 0 .. (Cardinality(accounts) - 1)
         /\ \A a, b \in accounts :
              RanksAhead(a, b, ring) => RankOf(a, accounts, ring) < RankOf(b, accounts, ring)
<1>1. \A m \in accounts : /\ IsFiniteSet(BetterMiners(m, accounts, ring))
                          /\ RankOf(m, accounts, ring) \in Nat
                          /\ m \notin BetterMiners(m, accounts, ring)
  <2> SUFFICES ASSUME NEW m \in accounts
               PROVE  /\ IsFiniteSet(BetterMiners(m, accounts, ring))
                      /\ RankOf(m, accounts, ring) \in Nat
                      /\ m \notin BetterMiners(m, accounts, ring)
    OBVIOUS
  <2>1. BetterMiners(m, accounts, ring) \in SUBSET accounts
    BY DEF BetterMiners
  <2>2. IsFiniteSet(BetterMiners(m, accounts, ring))
    BY <2>1, FS_Subset
  <2>3. m \notin BetterMiners(m, accounts, ring)
    BY RankIsAnOrder DEF BetterMiners
  <2> QED BY <2>2, <2>3, FS_CardinalityType DEF RankOf
<1>2. \A m \in accounts : RankOf(m, accounts, ring) \in 0 .. (Cardinality(accounts) - 1)
  <2> SUFFICES ASSUME NEW m \in accounts
               PROVE  RankOf(m, accounts, ring) \in 0 .. (Cardinality(accounts) - 1)
    OBVIOUS
  <2>1. IsFiniteSet(accounts \ {m}) /\ Cardinality(accounts \ {m}) = Cardinality(accounts) - 1
    BY FS_RemoveElement
  <2>2. BetterMiners(m, accounts, ring) \in SUBSET (accounts \ {m})
    BY <1>1 DEF BetterMiners
  <2>3. Cardinality(BetterMiners(m, accounts, ring)) <= Cardinality(accounts \ {m})
    BY <2>1, <2>2, FS_Subset
  <2>4. Cardinality(accounts) \in Nat
    BY FS_CardinalityType
  <2> QED BY <1>1, <2>1, <2>3, <2>4 DEF RankOf
<1>3. ASSUME NEW a \in accounts, NEW b \in accounts, RanksAhead(a, b, ring)
      PROVE  RankOf(a, accounts, ring) < RankOf(b, accounts, ring)
  <2>1. BetterMiners(a, accounts, ring) \cup {a} \in SUBSET BetterMiners(b, accounts, ring)
    BY <1>3, RankIsAnOrder DEF BetterMiners
  <2>2. Cardinality(BetterMiners(a, accounts, ring) \cup {a}) <= Cardinality(BetterMiners(b, accounts, ring))
    BY <1>1, <2>1, FS_Subset
  <2>3. Cardinality(BetterMiners(a, accounts, ring) \cup {a}) = Cardinality(BetterMiners(a, accounts, ring)) + 1
    BY <1>1, FS_AddElement
  <2> QED BY <1>1, <2>2, <2>3 DEF RankOf
<1> QED BY <1>2, <1>3

(* The ranking lists each account at its rank.                             *)
LEMMA RankedFacts ==
  ASSUME NEW ring \in Seq(Miners), NEW accounts \in SUBSET Miners, IsFiniteSet(accounts)
  PROVE  /\ Ranked(accounts, ring) \in Seq(accounts)
         /\ Len(Ranked(accounts, ring)) = Cardinality(accounts)
         /\ \A i \in 1 .. Cardinality(accounts) :
              RankOf(Ranked(accounts, ring)[i], accounts, ring) = i - 1
         /\ \A m \in accounts :
              Ranked(accounts, ring)[RankOf(m, accounts, ring) + 1] = m
<1> DEFINE n == Cardinality(accounts)
           rank == [m \in accounts |-> RankOf(m, accounts, ring)]
           ranked == Ranked(accounts, ring)
<1>1. n \in Nat /\ n \in Int /\ n - 1 \in Int /\ 0 \in Int
  BY FS_CardinalityType
<1>2. /\ \A m \in accounts : RankOf(m, accounts, ring) \in 0 .. (n - 1)
      /\ \A a, b \in accounts :
           RanksAhead(a, b, ring) => RankOf(a, accounts, ring) < RankOf(b, accounts, ring)
  BY RanksDiffer
<1>3. \A a, b \in accounts : RankOf(a, accounts, ring) = RankOf(b, accounts, ring) => a = b
  <2> SUFFICES ASSUME NEW a \in accounts, NEW b \in accounts, a # b
               PROVE  RankOf(a, accounts, ring) # RankOf(b, accounts, ring)
    OBVIOUS
  <2>1. RanksAhead(a, b, ring) \/ RanksAhead(b, a, ring)
    BY RankIsAnOrder
  <2>2. /\ RankOf(a, accounts, ring) \in Int /\ RankOf(b, accounts, ring) \in Int
        /\ \/ RankOf(a, accounts, ring) < RankOf(b, accounts, ring)
           \/ RankOf(b, accounts, ring) < RankOf(a, accounts, ring)
    BY <1>2, <2>1
  <2> QED BY <2>2
<1>4. rank \in Injection(accounts, 0 .. (n - 1))
  BY <1>2, <1>3 DEF Injection, IsInjective
<1>5. IsFiniteSet(0 .. (n - 1)) /\ Cardinality(0 .. (n - 1)) = n
  BY <1>1, FS_Interval
<1>6. rank \in Surjection(accounts, 0 .. (n - 1))
  BY <1>4, <1>5, FS_Injection
<1>7. \A i \in 1 .. n : \E m \in accounts : RankOf(m, accounts, ring) = i - 1
  <2> SUFFICES ASSUME NEW i \in 1 .. n
               PROVE  \E m \in accounts : RankOf(m, accounts, ring) = i - 1
    OBVIOUS
  <2>1. i - 1 \in 0 .. (n - 1)
    BY <1>1
  <2>2. \E m \in accounts : rank[m] = i - 1
    BY <1>6, <2>1 DEF Surjection
  <2> QED BY <2>2
<1>8. ranked = [i \in 1 .. n |-> CHOOSE m \in accounts: RankOf(m, accounts, ring) = i - 1]
  BY DEF Ranked, RankOf, BetterMiners
<1>9. \A i \in 1 .. n : ranked[i] \in accounts /\ RankOf(ranked[i], accounts, ring) = i - 1
  BY <1>7, <1>8
<1>10. ranked \in Seq(accounts) /\ Len(ranked) = n
  BY <1>1, <1>8, <1>9
<1>11. \A m \in accounts : ranked[RankOf(m, accounts, ring) + 1] = m
  <2> SUFFICES ASSUME NEW m \in accounts PROVE ranked[RankOf(m, accounts, ring) + 1] = m
    OBVIOUS
  <2> DEFINE i == RankOf(m, accounts, ring) + 1
  <2>1. i \in 1 .. n /\ i - 1 = RankOf(m, accounts, ring)
    BY <1>1, <1>2
  <2>2. ranked[i] \in accounts /\ RankOf(ranked[i], accounts, ring) = RankOf(m, accounts, ring)
    BY <1>9, <2>1
  <2> QED BY <1>3, <2>2
<1> QED BY <1>9, <1>10, <1>11

(* Of those elected from a ring whoever has a key and was left out faces   *)
(* a full set of accounts that mined no less.                              *)
LEMMA ElectedFacts ==
  ASSUME NEW ring \in Seq(Miners), NEW out \in Keyed(Range(ring)),
         \A i \in DOMAIN Elected(ring) : Elected(ring)[i] # out
  PROVE  /\ Elected(ring) \in Seq(Keyed(Range(ring))) /\ Len(Elected(ring)) = AuthorityCount
         /\ \A i \in DOMAIN Elected(ring) : Mined(Elected(ring)[i], ring) >= Mined(out, ring)
<1> DEFINE accounts == Keyed(Range(ring))
           n == Cardinality(accounts)
           ranked == Ranked(accounts, ring)
           k == Min({Len(ranked), AuthorityCount})
           p == RankOf(out, accounts, ring)
<1>1. accounts \in SUBSET Miners /\ IsFiniteSet(accounts)
  <2>1. DOMAIN ring = 1 .. Len(ring) /\ Len(ring) \in Int /\ 1 \in Int
    OBVIOUS
  <2>2. IsFiniteSet(DOMAIN ring)
    BY <2>1, FS_Interval
  <2>3. ring \in Surjection(DOMAIN ring, Range(ring))
    BY DEF Surjection, Range
  <2>4. IsFiniteSet(Range(ring))
    BY <2>2, <2>3, FS_Surjection
  <2>5. Range(ring) \subseteq Miners /\ accounts \in SUBSET Range(ring)
    BY DEF Range, Keyed
  <2> QED BY <2>4, <2>5, FS_Subset
<1> HIDE DEF accounts
<1>2. /\ ranked \in Seq(accounts) /\ Len(ranked) = n
      /\ \A i \in 1 .. n : RankOf(ranked[i], accounts, ring) = i - 1
      /\ \A m \in accounts : ranked[RankOf(m, accounts, ring) + 1] = m
  BY <1>1, RankedFacts
<1>3. n \in Nat /\ AuthorityCount \in Nat \ {0}
  BY <1>1, FS_CardinalityType, BlockAssumption
<1>4. k \in Nat /\ k \in {n, AuthorityCount} /\ k <= n
  <2>1. k = Min({n, AuthorityCount}) /\ n \in Int /\ AuthorityCount \in Int
    BY <1>2, <1>3
  <2>2. Min({n, AuthorityCount}) \in {n, AuthorityCount} /\ Min({n, AuthorityCount}) <= n
    BY <2>1, OneOfTwo
  <2> QED BY <1>3, <2>1, <2>2
<1>5. Elected(ring) = SubSeq(ranked, 1, k)
  BY DEF Elected, FirstOf, accounts
<1> HIDE DEF ranked, k
<1>6. /\ Elected(ring) \in Seq(accounts) /\ Len(Elected(ring)) = k
      /\ \A i \in 1 .. k : Elected(ring)[i] = ranked[i]
  BY <1>2, <1>4, <1>5
<1>7. out \in accounts /\ p \in 0 .. (n - 1)
  BY <1>1, RanksDiffer DEF accounts
<1>8. k <= p
  <2> SUFFICES ASSUME ~(k <= p) PROVE FALSE
    OBVIOUS
  <2>1. p + 1 \in 1 .. k
    BY <1>3, <1>4, <1>7
  <2>2. Elected(ring)[p + 1] = out /\ p + 1 \in DOMAIN Elected(ring)
    BY <1>2, <1>6, <1>7, <2>1
  <2> QED BY <2>2
<1>9. k = AuthorityCount
  BY <1>3, <1>4, <1>7, <1>8
<1>10. ASSUME NEW i \in DOMAIN Elected(ring)
       PROVE  Mined(Elected(ring)[i], ring) >= Mined(out, ring)
  <2> DEFINE m == Elected(ring)[i]
  <2>1. i \in 1 .. k /\ i \in 1 .. n
    BY <1>3, <1>4, <1>6
  <2>2. m \in accounts /\ RankOf(m, accounts, ring) = i - 1
    BY <1>2, <1>6, <2>1
  <2>3. RankOf(m, accounts, ring) < p
    BY <1>4, <1>7, <1>8, <2>1, <2>2
  <2>4. m # out
    BY <1>10
  <2>5. ~RanksAhead(out, m, ring)
    <3>1. RanksAhead(out, m, ring) => p < RankOf(m, accounts, ring)
      BY <1>1, <1>7, <2>2, RanksDiffer
    <3> QED BY <1>7, <2>1, <2>2, <2>3, <3>1
  <2>6. m \in Miners /\ out \in Miners
    BY <1>1, <1>7, <2>2
  <2> QED BY <2>4, <2>5, <2>6, RankIsAnOrder
<1> QED BY <1>6, <1>9, <1>10 DEF accounts

RingInv == recentAuthors \in Seq(Miners) /\ Len(recentAuthors) <= WindowSize

LEMMA RingStep == RingInv /\ [BlockNext]_blockVars => RingInv'
<1> SUFFICES ASSUME RingInv, [BlockNext]_blockVars PROVE RingInv'
  OBVIOUS
<1>1. CASE FinalizeBlock
  <2>1. PICK author \in Miners : recentAuthors' = Pushed(recentAuthors, author, WindowSize)
    BY <1>1 DEF FinalizeBlock
  <2>2. WindowSize \in Nat \ {0}
    BY BlockAssumption
  <2> QED BY <2>1, <2>2, RingFact DEF RingInv
<1>2. CASE RegisterGrandpaKey \/ UnregisterGrandpaKey \/ UNCHANGED blockVars
  BY <1>2 DEF RegisterGrandpaKey, UnregisterGrandpaKey, blockVars, electionVars, RingInv
<1> QED BY <1>1, <1>2 DEF BlockNext

LEMMA RotationIsFair ==
  ASSUME RingInv, [BlockNext]_blockVars, pending' # pending, pending' # <<>>,
         NEW out \in Range(recentAuthors'),
         authorityKeys[out] \notin Range(pending'.keys) \cup {NoKey}
  PROVE  /\ Len(pending'.keys) = AuthorityCount
         /\ \A k \in Range(pending'.keys): \E m \in Range(recentAuthors'):
              authorityKeys[m] = k /\ Mined(m, recentAuthors') >= Mined(out, recentAuthors')
<1> DEFINE ring == recentAuthors'
           chosen == Elected(ring)
<1>1. PICK n : Rotate(n)
  BY DEF BlockNext, FinalizeBlock, RegisterGrandpaKey, UnregisterGrandpaKey, blockVars, electionVars
<1>2. pending'.keys = KeysOf(chosen)
  BY <1>1 DEF Rotate, Remaining
<1>3. ring \in Seq(Miners)
  BY RingStep DEF RingInv
<1>4. /\ DOMAIN pending'.keys = DOMAIN chosen
      /\ \A i \in DOMAIN chosen : pending'.keys[i] = authorityKeys[chosen[i]]
  BY <1>2 DEF KeysOf
<1>5. out \in Keyed(Range(ring))
  BY DEF Keyed
<1>6. \A i \in DOMAIN chosen : chosen[i] # out
  BY <1>4 DEF Range
<1>7. /\ chosen \in Seq(Keyed(Range(ring))) /\ Len(chosen) = AuthorityCount
      /\ \A i \in DOMAIN chosen : Mined(chosen[i], ring) >= Mined(out, ring)
  BY <1>3, <1>5, <1>6, ElectedFacts
<1> HIDE DEF chosen
<1>8. Len(pending'.keys) = AuthorityCount
  <2>1. DOMAIN pending'.keys = 1 .. AuthorityCount /\ AuthorityCount \in Nat
    BY <1>4, <1>7
  <2>2. pending'.keys = [i \in 1 .. AuthorityCount |-> pending'.keys[i]]
    BY <1>2, <2>1 DEF KeysOf
  <2> QED BY <2>1, <2>2
<1>9. ASSUME NEW k \in Range(pending'.keys)
      PROVE  \E m \in Range(ring) : authorityKeys[m] = k /\ Mined(m, ring) >= Mined(out, ring)
  <2>1. PICK i \in DOMAIN chosen : k = authorityKeys[chosen[i]]
    BY <1>4 DEF Range
  <2>2. chosen[i] \in Range(ring)
    BY <1>7 DEF Keyed
  <2> QED BY <1>7, <2>1, <2>2
<1> QED BY <1>8, <1>9

(* For any miners, keys, window and number of authorities: a recent author  *)
(* whose key a rotation leaves out faces a full set of authors who mined   *)
(* no less.                                                                *)
THEOREM ElectionAlwaysFair == BlockSpec => ElectionIsFair
<1>1. BlockInit => RingInv
  <2>1. WindowSize \in Nat
    BY BlockAssumption
  <2> QED BY <2>1 DEF BlockInit, RingInv
<1>2. RingInv /\ [BlockNext]_blockVars => RingInv'
  BY RingStep
<1>3. RingInv /\ [BlockNext]_blockVars =>
        [pending' # pending /\ pending' # <<>> =>
           \A out \in Range(recentAuthors'):
             authorityKeys[out] \notin Range(pending'.keys) \cup {NoKey} =>
               /\ Len(pending'.keys) = AuthorityCount
               /\ \A k \in Range(pending'.keys): \E m \in Range(recentAuthors'):
                    authorityKeys[m] = k /\ Mined(m, recentAuthors') >= Mined(out, recentAuthors')]_blockVars
  BY RotationIsFair
<1> QED BY <1>1, <1>2, <1>3, PTL DEF BlockSpec, ElectionIsFair
=============================================================================
