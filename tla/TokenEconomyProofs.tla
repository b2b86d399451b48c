------------------------- MODULE TokenEconomyProofs -------------------------
(***************************************************************************)
(* Proofs about TokenEconomy for any accounts, prices, shares, rewards and *)
(* limits: types, what each reserve consists of, the payout cap, the       *)
(* reaction pool's floor, and that no transaction creates tokens.          *)
(***************************************************************************)
EXTENDS TokenEconomy, NumberFacts

----------------------------------------------------------------------------
(* Arithmetic of shares. *)

(* A share of at most the whole is a natural number and no more than what  *)
(* is shared; of something it is less, unless it is the whole.             *)
LEMMA PartOfFact ==
  ASSUME NEW s \in 0..Parts, NEW x \in Nat
  PROVE  /\ PartOf(s, x) \in 0..x
         /\ s < Parts /\ x > 0 => PartOf(s, x) < x
<1> DEFINE q == (s * x) \div Parts
<1>1. Parts \in Nat \ {0} /\ s * x \in Nat
  BY LedgerAssumption
<1>2. q \in Nat /\ Parts * q <= s * x
  BY <1>1, DivFact
<1>3. s * x <= Parts * x
  BY <1>1
<1>4. q <= x
  BY <1>1, <1>2, <1>3
<1>5. ASSUME s < Parts, x > 0 PROVE q < x
  <2>1. s * x < Parts * x
    BY <1>1, <1>5
  <2> QED BY <1>1, <1>2, <2>1
<1> QED BY <1>2, <1>4, <1>5 DEF PartOf

(* Shares that fit into the whole take no more than there is. *)
LEMMA PartsFit ==
  ASSUME NEW s \in 0..Parts, NEW t \in 0..Parts, s + t <= Parts, NEW x \in Nat
  PROVE  PartOf(s, x) + PartOf(t, x) <= x
<1> DEFINE p == (s * x) \div Parts
           q == (t * x) \div Parts
<1>1. Parts \in Nat \ {0} /\ s * x \in Nat /\ t * x \in Nat
  BY LedgerAssumption
<1>2. p \in Nat /\ q \in Nat /\ Parts * p <= s * x /\ Parts * q <= t * x
  BY <1>1, DivFact
<1>3. Parts * p + Parts * q <= Parts * x
  BY <1>1, <1>2
<1>4. p + q <= x
  BY <1>1, <1>2, <1>3
<1> QED BY <1>4 DEF PartOf

LEMMA ThreePartsFit ==
  ASSUME NEW s \in 0..Parts, NEW t \in 0..Parts, NEW u \in 0..Parts,
         s + t + u <= Parts, NEW x \in Nat
  PROVE  PartOf(s, x) + PartOf(t, x) + PartOf(u, x) <= x
<1> DEFINE p == (s * x) \div Parts
           q == (t * x) \div Parts
           r == (u * x) \div Parts
<1>1. Parts \in Nat \ {0} /\ s * x \in Nat /\ t * x \in Nat /\ u * x \in Nat
  BY LedgerAssumption
<1>2. /\ p \in Nat /\ q \in Nat /\ r \in Nat
      /\ Parts * p <= s * x /\ Parts * q <= t * x /\ Parts * r <= u * x
  BY <1>1, DivFact
<1>3. Parts * p + Parts * q + Parts * r <= Parts * x
  BY <1>1, <1>2
<1>4. p + q + r <= x
  BY <1>1, <1>2, <1>3
<1> QED BY <1>4 DEF PartOf

(* The share of a larger pool is at least as large. *)
LEMMA PartOfMonotone ==
  ASSUME NEW s \in 0..Parts, NEW x \in Nat, NEW y \in Nat, x <= y
  PROVE  PartOf(s, x) <= PartOf(s, y)
<1> DEFINE p == (s * x) \div Parts
           q == (s * y) \div Parts
<1>1. Parts \in Nat \ {0} /\ s * x \in Nat /\ s * y \in Nat /\ s * x <= s * y
  BY LedgerAssumption
<1>2. p \in Nat /\ q \in Nat /\ Parts * p <= s * x /\ s * y < Parts * q + Parts
  BY <1>1, DivFact
<1>3. Parts * p < Parts * (q + 1)
  BY <1>1, <1>2
<1>4. p < q + 1
  BY <1>1, <1>2, <1>3
<1> QED BY <1>2, <1>4 DEF PartOf

LEMMA SqrtPartsFact == ASSUME NEW x \in Nat PROVE SqrtParts(x) \in Nat
BY RootFact, LedgerAssumption DEF SqrtParts

LEMMA PartOfNat ==
  ASSUME NEW s \in Nat, NEW x \in Nat PROVE PartOf(s, x) \in Nat
<1>1. Parts \in Nat \ {0} /\ s * x \in Nat
  BY LedgerAssumption
<1> QED BY <1>1, DivFact DEF PartOf

----------------------------------------------------------------------------
(* The inductive invariant.  Reserves are in it because a release or a     *)
(* slash takes from the reserve what the bond says is there; the shares,   *)
(* because a payment feeds the pools only what it burned.                  *)
EconomyInv ==
  /\ EconomyTypeOK
  /\ ReservesExplained
  /\ SharesNeverExceedWhole
  /\ PayoutCapHolds
  /\ ReactionPoolStaysPositive

LEMMA EconomyInitInv == EconomyInit => EconomyInv
<1> SUFFICES ASSUME EconomyInit PROVE EconomyInv
  OBVIOUS
<1>1. Endowment * Cardinality(Accounts) \in Nat
  <2>1. IsFiniteSet(Accounts) /\ Endowment \in Nat
    BY LedgerAssumption
  <2>2. Cardinality(Accounts) \in Nat
    BY <2>1, FS_CardinalityType, Zenon
  <2>3. \A x \in Nat, y \in Nat : x * y \in Nat
    OBVIOUS
  <2> QED BY <2>1, <2>2, <2>3, Zenon
<1> USE DEF EconomyInit, LedgerInit, StakeInit, RewardInit
<1>2. EconomyTypeOK
  <2>1. postStorageShare \in 0..Parts /\ postReactionShare \in 0..Parts
    BY EconomyAssumption, LedgerAssumption
  <2>2. baseFee \in Nat
    BY EconomyAssumption DEF Greatest
  <2>3. LedgerTypeOK
    BY <1>1, LedgerAssumption DEF LedgerTypeOK
  <2>4. RewardTypeOK
    BY DEF RewardTypeOK
  <2>5. /\ now \in Nat /\ totalActiveBond \in Nat /\ gasUsed \in Nat
        /\ bonds \in [Accounts -> StakeBond \cup {None}]
    OBVIOUS
  <2> QED
    BY <2>1, <2>2, <2>3, <2>4, <2>5, Zenon DEF EconomyTypeOK
<1>3. ReservesExplained
  BY DEF ReservesExplained, BondAmount, HasBond, LockAmount, HasLock
<1>4. SharesNeverExceedWhole
  BY EconomyAssumption DEF SharesNeverExceedWhole
<1>5. PayoutCapHolds
  BY LedgerAssumption, RewardAssumption, PartOfNat DEF PayoutCapHolds
<1>6. ReactionPoolStaysPositive
  BY DEF ReactionPoolStaysPositive
<1> QED BY <1>2, <1>3, <1>4, <1>5, <1>6 DEF EconomyInv

----------------------------------------------------------------------------
(* Typing of what the steps compute. *)

LEMMA ArithmeticFacts ==
  ASSUME NEW x \in Nat, NEW y \in Nat
  PROVE  /\ Least(x, y) \in Nat /\ Least(x, y) <= x /\ Least(x, y) <= y
         /\ Greatest(x, y) \in Nat
         /\ SaturatingSub(x, y) \in Nat /\ SaturatingSub(x, y) <= x
BY DEF Least, Greatest, SaturatingSub

LEMMA NoneIsNoEntry ==
  None \notin StakeBond /\ None \notin Nat /\ None \notin ReactorLock
BY StakeNone, RewardNone

LEMMA BondTyped ==
  ASSUME EconomyTypeOK, NEW a \in Accounts
  PROVE  /\ BondAmount(a) \in Nat /\ LockAmount(a) \in Nat
         /\ HasBond(a) => bonds[a] \in StakeBond /\ BondAmount(a) = bonds[a].amount
         /\ HasLock(a) => locks[a] \in ReactorLock /\ LockAmount(a) = locks[a].amount
         /\ free[a] \in Nat /\ reserved[a] \in Nat
BY DEF EconomyTypeOK, LedgerTypeOK, RewardTypeOK, BondAmount, HasBond,
       LockAmount, HasLock, StakeBond, ReactorLock

(* What a Like is granted: no more than is left of the block's budget, and *)
(* no more than the pool has.                                              *)
LEMMA GrantedFact ==
  ASSUME EconomyInv, NEW a \in Accounts
  PROVE  /\ Granted(a) \in 0..reactionPool
         /\ PayoutCap > 0 =>
              Granted(a) = 0 \/ Granted(a) + paidThisBlock <= PartOf(PayoutCap, reactionPool)
<1>0. /\ reactionPool \in Nat /\ issuance \in Nat /\ paidThisBlock \in Nat
      /\ reactorCount[a] \in Nat
      /\ Parts \in Nat \ {0} /\ PayoutCap \in Nat /\ GammaMax \in Nat
      /\ ReactorDecayK \in Nat /\ ReactionReward \in Nat
  BY LedgerAssumption, RewardAssumption
     DEF EconomyInv, EconomyTypeOK, LedgerTypeOK, RewardTypeOK
<1>1. Gamma \in Nat
  <2>1. issuance # 0 => (reactionPool * Parts) \div issuance \in Nat
    BY <1>0, DivFact
  <2> QED BY <1>0, <2>1 DEF Gamma, Least
<1>2. Decayed(reactorCount[a]) \in Nat
  <2>1. CASE ReactorDecayK = 0
    BY <1>0, <2>1 DEF Decayed
  <2>2. CASE ReactorDecayK # 0
    <3>1. (ReactorDecayK * Parts) \div (ReactorDecayK + reactorCount[a]) \in Nat
      <4>1. ReactorDecayK * Parts \in Nat /\ ReactorDecayK + reactorCount[a] \in Nat \ {0}
        BY <1>0, <2>2
      <4> QED BY <4>1, DivFact
    <3> QED BY <2>2, <3>1, SqrtPartsFact DEF Decayed
  <2> QED BY <2>1, <2>2
<1>3. ComputeReward(reactorCount[a]) \in Nat
  BY <1>0, <1>1, <1>2, PartOfNat DEF ComputeReward, Least
<1>4. PartOf(PayoutCap, reactionPool) \in Nat
  BY <1>0, PartOfNat
<1>5. Budget \in Nat
  BY <1>0, <1>4 DEF Budget, SaturatingSub
<1> HIDE DEF Budget
<1>6. Granted(a) \in 0..reactionPool /\ Granted(a) <= Budget
  <2> DEFINE c == ComputeReward(reactorCount[a])
  <2>1. c \in Nat
    BY <1>3
  <2> HIDE DEF c
  <2>2. Least(Least(c, Budget), reactionPool) \in Nat
        /\ Least(Least(c, Budget), reactionPool) <= Budget
        /\ Least(Least(c, Budget), reactionPool) <= reactionPool
    BY <1>0, <1>5, <2>1 DEF Least
  <2>3. Granted(a) = 0 \/ Granted(a) = Least(Least(c, Budget), reactionPool)
    BY DEF Granted, c
  <2> QED BY <1>0, <1>5, <2>2, <2>3
<1>7. ASSUME PayoutCap > 0
      PROVE  Granted(a) = 0 \/ Granted(a) + paidThisBlock <= PartOf(PayoutCap, reactionPool)
  BY <1>0, <1>4, <1>6, <1>7 DEF Budget, SaturatingSub
<1> QED BY <1>6, <1>7

----------------------------------------------------------------------------
(* What the balance operations do to typed balances. *)

LEMMA BurnFact ==
  ASSUME EconomyTypeOK, NEW a \in Accounts, NEW x \in Nat, Burn(a, x)
  PROVE  /\ free' \in [Accounts -> Nat] /\ issuance' \in Nat
         /\ issuance' = issuance - x /\ reserved' = reserved
<1>1. /\ free \in [Accounts -> Nat] /\ reserved \in [Accounts -> Nat] /\ issuance \in Nat
      /\ ExistentialDeposit \in Nat
  BY LedgerAssumption DEF EconomyTypeOK, LedgerTypeOK
<1>2. x <= free[a]
  BY <1>1 DEF Burn, Spendable
<1> QED BY <1>1, <1>2 DEF Burn

LEMMA MintFact ==
  ASSUME EconomyTypeOK, NEW a \in Accounts, NEW x \in Nat, Mint(a, x)
  PROVE  /\ free' \in [Accounts -> Nat] /\ issuance' \in Nat
         /\ issuance' = issuance + x /\ reserved' = reserved
BY DEF EconomyTypeOK, LedgerTypeOK, Mint

LEMMA ReserveFact ==
  ASSUME EconomyTypeOK, NEW a \in Accounts, NEW x \in Nat, Reserve(a, x)
  PROVE  /\ free' \in [Accounts -> Nat] /\ reserved' \in [Accounts -> Nat]
         /\ reserved' = [reserved EXCEPT ![a] = @ + x] /\ issuance' = issuance
<1>1. /\ free \in [Accounts -> Nat] /\ reserved \in [Accounts -> Nat]
      /\ ExistentialDeposit \in Nat
  BY LedgerAssumption DEF EconomyTypeOK, LedgerTypeOK
<1>2. free[a] - x \in Nat /\ reserved[a] + x \in Nat
  BY <1>1 DEF Reserve
<1> QED BY <1>1, <1>2 DEF Reserve

LEMMA UnreserveFact ==
  ASSUME EconomyTypeOK, NEW a \in Accounts, NEW x \in Nat, x <= reserved[a], Unreserve(a, x)
  PROVE  /\ free' \in [Accounts -> Nat] /\ reserved' \in [Accounts -> Nat]
         /\ reserved' = [reserved EXCEPT ![a] = @ - x] /\ issuance' = issuance
<1>1. free \in [Accounts -> Nat] /\ reserved \in [Accounts -> Nat]
  BY DEF EconomyTypeOK, LedgerTypeOK
<1>2. /\ SaturatingSub(reserved[a], x) = reserved[a] - x /\ reserved[a] - x \in Nat
      /\ Least(x, reserved[a]) = x
  BY <1>1 DEF SaturatingSub, Least
<1> QED BY <1>1, <1>2 DEF Unreserve

----------------------------------------------------------------------------
(* The steps preserve the invariant.  What only adds to the reaction pool, *)
(* or opens a new block, keeps the payouts within it.                      *)

LEMMA PoolGrows ==
  ASSUME EconomyInv, reactionPool' \in Nat, reactionPool' >= reactionPool,
         paidThisBlock' = paidThisBlock \/ paidThisBlock' = 0
  PROVE  PayoutCapHolds' /\ ReactionPoolStaysPositive'
<1>1. reactionPool \in Nat /\ paidThisBlock \in Nat /\ Parts \in Nat \ {0} /\ PayoutCap \in Nat
  BY LedgerAssumption, RewardAssumption
     DEF EconomyInv, EconomyTypeOK, LedgerTypeOK, RewardTypeOK
<1>2. PayoutCapHolds'
  <2> SUFFICES ASSUME PayoutCap > 0
               PROVE  paidThisBlock' <= PartOf(PayoutCap, reactionPool' + paidThisBlock')
    BY DEF PayoutCapHolds
  <2>1. CASE paidThisBlock' = 0
    BY <1>1, <2>1, PartOfNat
  <2>2. CASE paidThisBlock' = paidThisBlock
    <3>1. PayoutCap \in 0..Parts
      BY RewardAssumption
    <3>2. /\ reactionPool + paidThisBlock \in Nat /\ reactionPool' + paidThisBlock \in Nat
          /\ reactionPool + paidThisBlock <= reactionPool' + paidThisBlock
      <4>1. \A x, y, z \in Nat : x <= y => x + z \in Nat /\ y + z \in Nat /\ x + z <= y + z
        OBVIOUS
      <4> QED BY <1>1, <4>1, Zenon
    <3>3. PartOf(PayoutCap, reactionPool + paidThisBlock)
            <= PartOf(PayoutCap, reactionPool' + paidThisBlock)
      BY <3>1, <3>2, PartOfMonotone
    <3>4. paidThisBlock <= PartOf(PayoutCap, reactionPool + paidThisBlock)
      BY DEF EconomyInv, PayoutCapHolds
    <3>5. /\ PartOf(PayoutCap, reactionPool + paidThisBlock) \in Nat
          /\ PartOf(PayoutCap, reactionPool' + paidThisBlock) \in Nat
      BY <1>1, <3>2, PartOfNat
    <3> QED BY <1>1, <2>2, <3>3, <3>4, <3>5
  <2> QED BY <2>1, <2>2
<1>3. ReactionPoolStaysPositive'
  BY <1>1 DEF EconomyInv, ReactionPoolStaysPositive
<1> QED BY <1>2, <1>3

LEMMA ReservesKept ==
  ASSUME EconomyInv, UNCHANGED <<reserved, bonds, locks>>
  PROVE  ReservesExplained'
BY DEF EconomyInv, ReservesExplained, BondAmount, HasBond, LockAmount, HasLock

LEMMA PostPaymentInv ==
  ASSUME EconomyInv, NEW a \in Accounts, NEW size \in Sizes, PayForPost(a, size)
  PROVE  EconomyInv'
<1> DEFINE d == Distributable(size)
<1>1. /\ size \in Nat /\ PostBaseCost \in Nat /\ PostByteCost \in Nat /\ BaseFeeMin \in Nat
      /\ baseFee \in Nat /\ storagePool \in Nat /\ reactionPool \in Nat
      /\ postStorageShare \in Nat /\ postReactionShare \in Nat
  BY EconomyAssumption, LedgerAssumption DEF EconomyInv, EconomyTypeOK, LedgerTypeOK
<1>2. CurrentBaseFee \in Nat /\ d \in Nat
  BY <1>1 DEF CurrentBaseFee, Distributable, Greatest
<1>3. d + size * CurrentBaseFee \in Nat
  BY <1>1, <1>2
<1> HIDE DEF d
<1>4. /\ Burn(a, d + size * CurrentBaseFee)
      /\ storagePool' = storagePool + PartOf(postStorageShare, d)
      /\ reactionPool' = reactionPool + PartOf(postReactionShare, d)
      /\ gasUsed' = gasUsed + size
      /\ UNCHANGED <<now, stakeVars, rewardVars, postStorageShare, postReactionShare, baseFee>>
  BY DEF PayForPost, d
<1>5. free' \in [Accounts -> Nat] /\ issuance' \in Nat /\ reserved' = reserved
  BY <1>3, <1>4, BurnFact DEF EconomyInv
<1>6. PartOf(postStorageShare, d) \in Nat /\ PartOf(postReactionShare, d) \in Nat
  BY <1>1, <1>2, PartOfNat
<1>7. storagePool' \in Nat /\ reactionPool' \in Nat /\ reactionPool' >= reactionPool
  BY <1>1, <1>4, <1>6
<1>8. EconomyTypeOK'
  <2>1. LedgerTypeOK'
    BY <1>5, <1>7 DEF EconomyInv, EconomyTypeOK, LedgerTypeOK
  <2> QED
    BY <1>1, <1>4, <2>1
       DEF EconomyInv, EconomyTypeOK, RewardTypeOK, stakeVars, rewardVars
<1>9. ReservesExplained'
  BY <1>4, <1>5, ReservesKept DEF stakeVars, rewardVars
<1>10. SharesNeverExceedWhole'
  BY <1>4 DEF EconomyInv, SharesNeverExceedWhole
<1>11. PayoutCapHolds' /\ ReactionPoolStaysPositive'
  BY <1>4, <1>7, PoolGrows DEF rewardVars
<1> QED BY <1>8, <1>9, <1>10, <1>11 DEF EconomyInv

LEMMA SetPostShareInv == ASSUME EconomyInv, SetPostShare PROVE EconomyInv'
<1>1. /\ UNCHANGED <<now, ledgerVars, stakeVars, rewardVars, baseFee, gasUsed>>
      /\ \E new \in ShareChoices :
           \/ new + postReactionShare <= Parts /\ postStorageShare' = new
              /\ UNCHANGED postReactionShare
           \/ new + postStorageShare <= Parts /\ postReactionShare' = new
              /\ UNCHANGED postStorageShare
  BY DEF SetPostShare, SharesFit
<1>2. /\ postStorageShare' \in 0..Parts /\ postReactionShare' \in 0..Parts
      /\ SharesNeverExceedWhole'
  BY <1>1, EconomyAssumption, LedgerAssumption
     DEF EconomyInv, EconomyTypeOK, SharesNeverExceedWhole
<1>3. EconomyTypeOK'
  BY <1>1, <1>2
     DEF EconomyInv, EconomyTypeOK, LedgerTypeOK, RewardTypeOK,
         ledgerVars, balanceVars, poolVars, stakeVars, rewardVars
<1>4. ReservesExplained'
  BY <1>1, ReservesKept DEF ledgerVars, balanceVars, stakeVars, rewardVars
<1>5. PayoutCapHolds' /\ ReactionPoolStaysPositive'
  BY <1>1 DEF EconomyInv, PayoutCapHolds, ReactionPoolStaysPositive, ledgerVars, poolVars,
              rewardVars
<1> QED BY <1>2, <1>3, <1>4, <1>5 DEF EconomyInv

(* A step of one operator or reactor on the reserve: the pools stay, and   *)
(* the reserve is again what the entries of that account say.              *)
LEMMA ReserveStepInv ==
  ASSUME EconomyInv, NEW a \in Accounts,
         UNCHANGED <<now, poolVars, feeVars, reactorCount, paidThisBlock>>,
         free' \in [Accounts -> Nat], reserved' \in [Accounts -> Nat], issuance' \in Nat,
         bonds' \in [Accounts -> StakeBond \cup {None}], totalActiveBond' \in Nat,
         locks' \in [Accounts -> ReactorLock \cup {None}], locksCount' \in Nat,
         \A b \in Accounts \ {a} :
            reserved'[b] = reserved[b] /\ bonds'[b] = bonds[b] /\ locks'[b] = locks[b],
         reserved'[a] = BondAmount(a)' + LockAmount(a)'
  PROVE  EconomyInv'
<1>1. EconomyTypeOK'
  BY DEF EconomyInv, EconomyTypeOK, LedgerTypeOK, RewardTypeOK, poolVars, feeVars
<1>2. ReservesExplained'
  <2> SUFFICES ASSUME NEW b \in Accounts
               PROVE  reserved'[b] = BondAmount(b)' + LockAmount(b)'
    BY DEF ReservesExplained
  <2>1. CASE b = a
    BY <2>1
  <2>2. CASE b # a
    BY <2>2 DEF EconomyInv, ReservesExplained, BondAmount, HasBond, LockAmount, HasLock
  <2> QED BY <2>1, <2>2
<1>3. SharesNeverExceedWhole' /\ PayoutCapHolds' /\ ReactionPoolStaysPositive'
  BY DEF EconomyInv, SharesNeverExceedWhole, PayoutCapHolds, ReactionPoolStaysPositive,
         poolVars, feeVars
<1> QED BY <1>1, <1>2, <1>3 DEF EconomyInv

LEMMA PriceFact == \A capacity \in DeclaredCapacities : Price(capacity) \in Nat
<1> SUFFICES ASSUME NEW capacity \in DeclaredCapacities PROVE Price(capacity) \in Nat
  OBVIOUS
<1>1. capacity + GB - 1 \in Nat /\ GB \in Nat \ {0} /\ BondPerGB \in Nat
  BY StakeAssumption
<1>2. (capacity + GB - 1) \div GB \in Nat
  BY <1>1, DivFact
<1> QED BY <1>1, <1>2 DEF Price

LEMMA BondInv ==
  ASSUME EconomyInv, NEW a \in Accounts, NEW capacity \in DeclaredCapacities,
         Bond(a, capacity), UNCHANGED <<now, poolVars, rewardVars, feeVars>>
  PROVE  EconomyInv'
<1> DEFINE amount == Price(capacity)
<1>1. amount \in Nat
  BY PriceFact
<1> HIDE DEF amount
<1>2. /\ ~HasBond(a) /\ Reserve(a, amount)
      /\ bonds' = [bonds EXCEPT ![a] = [amount |-> amount, requested |-> None]]
      /\ totalActiveBond' = totalActiveBond + amount
  BY DEF Bond, amount
<1>3. /\ free' \in [Accounts -> Nat] /\ reserved' \in [Accounts -> Nat]
      /\ reserved' = [reserved EXCEPT ![a] = @ + amount] /\ issuance' = issuance
  BY <1>1, <1>2, ReserveFact DEF EconomyInv
<1>4. /\ bonds \in [Accounts -> StakeBond \cup {None}] /\ totalActiveBond \in Nat
      /\ issuance \in Nat /\ reserved \in [Accounts -> Nat]
      /\ locks \in [Accounts -> ReactorLock \cup {None}] /\ locksCount \in Nat
      /\ reserved[a] = BondAmount(a) + LockAmount(a) /\ LockAmount(a) \in Nat
  BY BondTyped
     DEF EconomyInv, EconomyTypeOK, LedgerTypeOK, RewardTypeOK, ReservesExplained
<1>5. UNCHANGED <<locks, locksCount, reactorCount, paidThisBlock>>
  BY DEF rewardVars
<1>6. [amount |-> amount, requested |-> None] \in StakeBond
  BY <1>1 DEF StakeBond
<1>7. bonds' \in [Accounts -> StakeBond \cup {None}] /\ totalActiveBond' \in Nat
  BY <1>1, <1>2, <1>4, <1>6
<1>8. bonds'[a] = [amount |-> amount, requested |-> None] /\ bonds'[a] # None
  BY <1>2, <1>4, <1>6, NoneIsNoEntry
<1>9. BondAmount(a)' = amount /\ BondAmount(a) = 0 /\ LockAmount(a)' = LockAmount(a)
  BY <1>2, <1>5, <1>8 DEF BondAmount, HasBond, LockAmount, HasLock
<1>10. reserved'[a] = BondAmount(a)' + LockAmount(a)'
  BY <1>1, <1>3, <1>4, <1>9
<1>11. \A b \in Accounts \ {a} :
          reserved'[b] = reserved[b] /\ bonds'[b] = bonds[b] /\ locks'[b] = locks[b]
  BY <1>2, <1>3, <1>4, <1>5
<1> QED BY <1>3, <1>4, <1>5, <1>7, <1>10, <1>11, ReserveStepInv

LEMMA RequestReleaseInv ==
  ASSUME EconomyInv, NEW a \in Accounts, RequestRelease(a),
         UNCHANGED <<now, poolVars, rewardVars, feeVars>>
  PROVE  EconomyInv'
<1>1. /\ bonds \in [Accounts -> StakeBond \cup {None}] /\ totalActiveBond \in Nat
      /\ free \in [Accounts -> Nat] /\ issuance \in Nat /\ reserved \in [Accounts -> Nat]
      /\ locks \in [Accounts -> ReactorLock \cup {None}] /\ locksCount \in Nat
      /\ now \in Nat
      /\ reserved[a] = BondAmount(a) + LockAmount(a)
  BY DEF EconomyInv, EconomyTypeOK, LedgerTypeOK, RewardTypeOK, ReservesExplained
<1>2. /\ HasBond(a) /\ bonds' = [bonds EXCEPT ![a] = [@ EXCEPT !.requested = now]]
      /\ UNCHANGED <<free, reserved, issuance, totalActiveBond>>
      /\ UNCHANGED <<locks, locksCount, reactorCount, paidThisBlock>>
  BY DEF RequestRelease, balanceVars, rewardVars
<1>3. bonds[a] \in StakeBond
  BY <1>1, <1>2 DEF HasBond
<1>4. /\ [bonds[a] EXCEPT !.requested = now] \in StakeBond
      /\ [bonds[a] EXCEPT !.requested = now].amount = bonds[a].amount
  BY <1>1, <1>3 DEF StakeBond
<1>5. bonds' \in [Accounts -> StakeBond \cup {None}]
  BY <1>1, <1>2, <1>4
<1>6. bonds'[a] # None /\ bonds'[a].amount = bonds[a].amount
  BY <1>1, <1>2, <1>4, NoneIsNoEntry
<1>7. reserved'[a] = BondAmount(a)' + LockAmount(a)'
  BY <1>1, <1>2, <1>6 DEF BondAmount, HasBond, LockAmount, HasLock
<1>8. \A b \in Accounts \ {a} :
          reserved'[b] = reserved[b] /\ bonds'[b] = bonds[b] /\ locks'[b] = locks[b]
  BY <1>1, <1>2
<1> QED BY <1>1, <1>2, <1>5, <1>7, <1>8, ReserveStepInv

LEMMA FinalizeReleaseInv ==
  ASSUME EconomyInv, NEW a \in Accounts, FinalizeRelease(a),
         UNCHANGED <<now, poolVars, rewardVars, feeVars>>
  PROVE  EconomyInv'
<1> DEFINE amount == bonds[a].amount
<1>1. /\ bonds \in [Accounts -> StakeBond \cup {None}] /\ totalActiveBond \in Nat
      /\ issuance \in Nat /\ reserved \in [Accounts -> Nat]
      /\ locks \in [Accounts -> ReactorLock \cup {None}] /\ locksCount \in Nat
  BY DEF EconomyInv, EconomyTypeOK, LedgerTypeOK, RewardTypeOK
<1>2. /\ HasBond(a) /\ Unreserve(a, amount)
      /\ bonds' = [bonds EXCEPT ![a] = None]
      /\ totalActiveBond' = SaturatingSub(totalActiveBond, amount)
      /\ UNCHANGED <<locks, locksCount, reactorCount, paidThisBlock>>
  BY DEF FinalizeRelease, rewardVars
<1>3. /\ amount = BondAmount(a) /\ amount \in Nat /\ LockAmount(a) \in Nat
      /\ reserved[a] = amount + LockAmount(a)
  BY <1>2, BondTyped DEF EconomyInv, ReservesExplained
<1> HIDE DEF amount
<1>4. /\ free' \in [Accounts -> Nat] /\ reserved' \in [Accounts -> Nat]
      /\ reserved' = [reserved EXCEPT ![a] = @ - amount] /\ issuance' = issuance
  BY <1>1, <1>2, <1>3, UnreserveFact DEF EconomyInv
<1>5. bonds' \in [Accounts -> StakeBond \cup {None}] /\ totalActiveBond' \in Nat
  BY <1>1, <1>2, <1>3, ArithmeticFacts
<1>6. BondAmount(a)' = 0 /\ LockAmount(a)' = LockAmount(a)
  BY <1>1, <1>2 DEF BondAmount, HasBond, LockAmount, HasLock
<1>7. reserved'[a] = BondAmount(a)' + LockAmount(a)'
  BY <1>1, <1>3, <1>4, <1>6
<1>8. \A b \in Accounts \ {a} :
          reserved'[b] = reserved[b] /\ bonds'[b] = bonds[b] /\ locks'[b] = locks[b]
  BY <1>1, <1>2, <1>4
<1> QED BY <1>1, <1>2, <1>4, <1>5, <1>7, <1>8, ReserveStepInv

LEMMA LockForRewardsInv ==
  ASSUME EconomyInv, NEW a \in Accounts, NEW x \in LockAmounts,
         LockForRewards(a, x), UNCHANGED <<now, poolVars, stakeVars, feeVars>>
  PROVE  EconomyInv'
<1> DEFINE lock == [amount |-> x, unlockAt |-> now + ReactorLockDuration]
<1>1. /\ bonds \in [Accounts -> StakeBond \cup {None}] /\ totalActiveBond \in Nat
      /\ issuance \in Nat /\ reserved \in [Accounts -> Nat]
      /\ locks \in [Accounts -> ReactorLock \cup {None}] /\ locksCount \in Nat
      /\ reserved[a] = BondAmount(a) + LockAmount(a) /\ BondAmount(a) \in Nat
      /\ x \in Nat /\ lock \in ReactorLock
  BY BondTyped, RewardAssumption
     DEF EconomyInv, EconomyTypeOK, LedgerTypeOK, RewardTypeOK, ReservesExplained, ReactorLock
<1> HIDE DEF lock
<1>2. /\ ~HasLock(a) /\ Reserve(a, x)
      /\ locks' = [locks EXCEPT ![a] = lock] /\ locksCount' = locksCount + 1
      /\ UNCHANGED <<bonds, totalActiveBond, reactorCount, paidThisBlock>>
  BY DEF LockForRewards, lock, stakeVars
<1>3. /\ free' \in [Accounts -> Nat] /\ reserved' \in [Accounts -> Nat]
      /\ reserved' = [reserved EXCEPT ![a] = @ + x] /\ issuance' = issuance
  BY <1>1, <1>2, ReserveFact DEF EconomyInv
<1>4. locks' \in [Accounts -> ReactorLock \cup {None}] /\ locksCount' \in Nat
  BY <1>1, <1>2
<1>5. locks'[a] = lock /\ locks'[a] # None /\ lock.amount = x
  BY <1>1, <1>2, NoneIsNoEntry DEF lock
<1>6. BondAmount(a)' = BondAmount(a) /\ LockAmount(a) = 0 /\ LockAmount(a)' = x
  BY <1>2, <1>5 DEF BondAmount, HasBond, LockAmount, HasLock
<1>7. reserved'[a] = BondAmount(a)' + LockAmount(a)'
  BY <1>1, <1>3, <1>6
<1>8. \A b \in Accounts \ {a} :
          reserved'[b] = reserved[b] /\ bonds'[b] = bonds[b] /\ locks'[b] = locks[b]
  BY <1>1, <1>2, <1>3
<1> QED BY <1>1, <1>2, <1>3, <1>4, <1>7, <1>8, ReserveStepInv

LEMMA UnlockReactorInv ==
  ASSUME EconomyInv, NEW a \in Accounts, UnlockReactor(a),
         UNCHANGED <<now, poolVars, stakeVars, feeVars>>
  PROVE  EconomyInv'
<1> DEFINE amount == locks[a].amount
<1>1. /\ bonds \in [Accounts -> StakeBond \cup {None}] /\ totalActiveBond \in Nat
      /\ issuance \in Nat /\ reserved \in [Accounts -> Nat]
      /\ locks \in [Accounts -> ReactorLock \cup {None}] /\ locksCount \in Nat
  BY DEF EconomyInv, EconomyTypeOK, LedgerTypeOK, RewardTypeOK
<1>2. /\ HasLock(a) /\ Unreserve(a, amount)
      /\ locks' = [locks EXCEPT ![a] = None]
      /\ locksCount' = SaturatingSub(locksCount, 1)
      /\ UNCHANGED <<bonds, totalActiveBond, reactorCount, paidThisBlock>>
  BY DEF UnlockReactor, stakeVars
<1>3. /\ amount = LockAmount(a) /\ amount \in Nat /\ BondAmount(a) \in Nat
      /\ reserved[a] = BondAmount(a) + amount
  BY <1>2, BondTyped DEF EconomyInv, ReservesExplained
<1> HIDE DEF amount
<1>4. /\ free' \in [Accounts -> Nat] /\ reserved' \in [Accounts -> Nat]
      /\ reserved' = [reserved EXCEPT ![a] = @ - amount] /\ issuance' = issuance
  BY <1>1, <1>2, <1>3, UnreserveFact DEF EconomyInv
<1>5. locks' \in [Accounts -> ReactorLock \cup {None}] /\ locksCount' \in Nat
  BY <1>1, <1>2, ArithmeticFacts
<1>6. LockAmount(a)' = 0 /\ BondAmount(a)' = BondAmount(a)
  BY <1>1, <1>2 DEF BondAmount, HasBond, LockAmount, HasLock
<1>7. reserved'[a] = BondAmount(a)' + LockAmount(a)'
  BY <1>1, <1>3, <1>4, <1>6
<1>8. \A b \in Accounts \ {a} :
          reserved'[b] = reserved[b] /\ bonds'[b] = bonds[b] /\ locks'[b] = locks[b]
  BY <1>1, <1>2, <1>4
<1> QED BY <1>1, <1>2, <1>4, <1>5, <1>7, <1>8, ReserveStepInv

(* The pool after a Like: what the budget has not granted yet is still in  *)
(* it, and less than the whole is granted, so something stays.             *)
LEMMA LikeInv ==
  ASSUME EconomyInv, NEW a \in Accounts, NEW author \in Accounts,
         RewardLike(a, author), UNCHANGED <<now, stakeVars, feeVars>>
  PROVE  EconomyInv'
<1> DEFINE x == Granted(a)
<1>1. /\ reactionPool \in Nat /\ paidThisBlock \in Nat /\ Parts \in Nat \ {0}
      /\ PayoutCap \in Nat /\ PayoutCap \in 0..Parts
      /\ reactorCount \in [Accounts -> Nat] /\ storagePool \in Nat
  BY LedgerAssumption, RewardAssumption
     DEF EconomyInv, EconomyTypeOK, LedgerTypeOK, RewardTypeOK
<1>2. /\ x \in 0..reactionPool
      /\ PayoutCap > 0 => x = 0 \/ x + paidThisBlock <= PartOf(PayoutCap, reactionPool)
  BY GrantedFact
<1> HIDE DEF x
<1>3. /\ Mint(author, x) /\ reactionPool' = reactionPool - x
      /\ paidThisBlock' = paidThisBlock + x
      /\ reactorCount' = [reactorCount EXCEPT ![a] = @ + 1]
      /\ UNCHANGED <<storagePool, locks, locksCount>>
  BY DEF RewardLike, x, PoolAfterGrant
<1>4. x \in Nat /\ reactionPool' \in Nat /\ paidThisBlock' \in Nat
      /\ reactionPool' + paidThisBlock' = reactionPool + paidThisBlock
  BY <1>1, <1>2, <1>3
<1>5. free' \in [Accounts -> Nat] /\ issuance' \in Nat /\ reserved' = reserved
  BY <1>3, <1>4, MintFact DEF EconomyInv
<1>6. EconomyTypeOK'
  <2>1. reactorCount' \in [Accounts -> Nat]
    BY <1>1, <1>3
  <2>2. LedgerTypeOK' /\ RewardTypeOK'
    BY <1>1, <1>3, <1>4, <1>5, <2>1 DEF EconomyInv, EconomyTypeOK, LedgerTypeOK, RewardTypeOK
  <2> QED BY <2>2 DEF EconomyInv, EconomyTypeOK, stakeVars, feeVars
<1>7. ReservesExplained'
  BY <1>3, <1>5, ReservesKept DEF stakeVars
<1>8. SharesNeverExceedWhole'
  BY DEF EconomyInv, SharesNeverExceedWhole, feeVars
<1>9. PayoutCapHolds'
  <2> SUFFICES ASSUME PayoutCap > 0
               PROVE  paidThisBlock' <= PartOf(PayoutCap, reactionPool' + paidThisBlock')
    BY DEF PayoutCapHolds
  <2>1. paidThisBlock <= PartOf(PayoutCap, reactionPool + paidThisBlock)
    BY DEF EconomyInv, PayoutCapHolds
  <2>2. reactionPool + paidThisBlock \in Nat /\ reactionPool <= reactionPool + paidThisBlock
    BY <1>1
  <2>3. PartOf(PayoutCap, reactionPool) <= PartOf(PayoutCap, reactionPool + paidThisBlock)
    BY <1>1, <2>2, PartOfMonotone
  <2>4. /\ PartOf(PayoutCap, reactionPool) \in Nat
        /\ PartOf(PayoutCap, reactionPool + paidThisBlock) \in Nat
    BY <1>1, <2>2, PartOfNat
  <2>5. paidThisBlock + x <= PartOf(PayoutCap, reactionPool + paidThisBlock)
    BY <1>1, <1>2, <1>4, <2>1, <2>3, <2>4
  <2> QED BY <1>3, <1>4, <2>5
<1>10. ReactionPoolStaysPositive'
  <2> SUFFICES ASSUME PayoutCap \in 1..Parts-1, GenesisPool > 0 PROVE reactionPool' > 0
    BY DEF ReactionPoolStaysPositive
  <2>1. reactionPool > 0
    BY DEF EconomyInv, ReactionPoolStaysPositive
  <2>2. PayoutCap > 0 /\ PayoutCap < Parts
    BY <1>1
  <2>3. PartOf(PayoutCap, reactionPool) < reactionPool
    BY <1>1, <2>1, <2>2, PartOfFact
  <2>4. PartOf(PayoutCap, reactionPool) \in Nat
    BY <1>1, PartOfNat
  <2>5. x < reactionPool
    BY <1>1, <1>2, <1>4, <2>1, <2>2, <2>3, <2>4
  <2> QED BY <1>1, <1>3, <1>4, <2>5
<1> QED BY <1>6, <1>7, <1>8, <1>9, <1>10 DEF EconomyInv

(* A slash takes its cut from the reserve and gives part of it back: with  *)
(* the reserve explained, neither is short.                                *)
LEMMA SlashFact ==
  ASSUME EconomyInv, NEW a \in Accounts, BondAmount(a) > 0, NEW x \in Nat
  PROVE  LET amount == BondAmount(a)
             cut == Least(amount, x)
             burnt == PartOf(BurnShare, cut)
             after == AfterSlash(StakeState, a, x)
         IN /\ cut \in 0..amount /\ burnt \in 0..cut
            /\ cut = 0 => after = StakeState
            /\ cut # 0 =>
                 /\ after.free = [free EXCEPT ![a] = @ + (cut - burnt)]
                 /\ after.reserved = [reserved EXCEPT ![a] = @ - cut]
                 /\ after.issuance = SaturatingSub(issuance, burnt)
                 /\ after.bonds = [bonds EXCEPT ![a] =
                      IF cut = amount THEN None ELSE [@ EXCEPT !.amount = amount - cut]]
                 /\ after.total = SaturatingSub(totalActiveBond, cut)
<1> DEFINE amount == BondAmount(a)
           cut == Least(amount, x)
           burnt == PartOf(BurnShare, cut)
<1>1. /\ amount \in Nat /\ LockAmount(a) \in Nat /\ reserved[a] = amount + LockAmount(a)
      /\ reserved[a] \in Nat /\ bonds[a] # None /\ bonds[a].amount = amount
  BY BondTyped DEF EconomyInv, ReservesExplained, BondAmount, HasBond
<1>2. cut \in 0..amount
  BY <1>1 DEF Least
<1>3. burnt \in 0..cut
  BY <1>2, <1>1, StakeAssumption, PartOfFact
<1> HIDE DEF amount, cut, burnt
<1>4. /\ Least(burnt, reserved[a]) = burnt
      /\ Least(cut - burnt, reserved[a] - burnt) = cut - burnt
      /\ reserved[a] - burnt - (cut - burnt) = reserved[a] - cut
  BY <1>1, <1>2, <1>3 DEF Least
<1>5. AfterSlash(StakeState, a, x) =
        IF cut = 0 THEN StakeState
        ELSE [StakeState EXCEPT
                !.reserved[a] = @ - burnt - (cut - burnt),
                !.free[a] = @ + (cut - burnt),
                !.issuance = SaturatingSub(@, burnt),
                !.bonds[a] = IF cut = amount THEN None
                             ELSE [@ EXCEPT !.amount = amount - cut],
                !.total = SaturatingSub(@, cut)]
  <2>1. StakeState.bonds = bonds /\ StakeState.reserved = reserved
    BY DEF StakeState
  <2>2. (IF StakeState.bonds[a] = None THEN 0 ELSE StakeState.bonds[a].amount) = amount
    BY <1>1, <2>1
  <2> DEFINE held == StakeState
  <2>3. held.bonds = bonds /\ held.reserved = reserved
    BY <2>1
  <2>4. (IF held.bonds[a] = None THEN 0 ELSE held.bonds[a].amount) = amount
    BY <2>2
  <2> HIDE DEF held
  <2>5. /\ Least(burnt, held.reserved[a]) = burnt
        /\ Least(cut - burnt, held.reserved[a] - burnt) = cut - burnt
    BY <1>4, <2>3
  <2>6. /\ Least(amount, x) = cut /\ PartOf(BurnShare, cut) = burnt
        /\ Returned(cut) = cut - burnt /\ Uncounted(cut) = cut
    BY DEF cut, burnt, Returned, Uncounted
  <2>7. /\ Least(PartOf(BurnShare, cut), held.reserved[a]) = burnt
        /\ Least(Returned(cut), held.reserved[a] - burnt) = cut - burnt
    BY <2>5, <2>6
  <2>8. AfterSlash(held, a, x) =
          IF cut = 0 THEN held
          ELSE [held EXCEPT
                  !.reserved[a] = @ - burnt - (cut - burnt),
                  !.free[a] = @ + (cut - burnt),
                  !.issuance = SaturatingSub(@, burnt),
                  !.bonds[a] = IF cut = amount THEN None
                               ELSE [@ EXCEPT !.amount = amount - cut],
                  !.total = SaturatingSub(@, Uncounted(cut))]
    BY <2>4, <2>6, <2>7, ZenonT(60) DEF AfterSlash
  <2>9. AfterSlash(held, a, x) =
          IF cut = 0 THEN held
          ELSE [held EXCEPT
                  !.reserved[a] = @ - burnt - (cut - burnt),
                  !.free[a] = @ + (cut - burnt),
                  !.issuance = SaturatingSub(@, burnt),
                  !.bonds[a] = IF cut = amount THEN None
                               ELSE [@ EXCEPT !.amount = amount - cut],
                  !.total = SaturatingSub(@, cut)]
    BY <2>6, <2>8, Zenon
  <2> QED BY <2>9 DEF held
<1>6. cut # 0 =>
        LET after == AfterSlash(StakeState, a, x)
        IN /\ after.free = [free EXCEPT ![a] = @ + (cut - burnt)]
           /\ after.reserved = [reserved EXCEPT ![a] = @ - burnt - (cut - burnt)]
           /\ after.issuance = SaturatingSub(issuance, burnt)
           /\ after.bonds = [bonds EXCEPT ![a] =
                IF cut = amount THEN None ELSE [@ EXCEPT !.amount = amount - cut]]
           /\ after.total = SaturatingSub(totalActiveBond, cut)
  BY <1>5 DEF StakeState
<1> QED BY <1>2, <1>3, <1>4, <1>5, <1>6 DEF amount, cut, burnt

LEMMA SlashInv ==
  ASSUME EconomyInv, NEW a \in Accounts, SlashNode(a) PROVE EconomyInv'
<1> DEFINE amount == BondAmount(a)
           x == PartOf(SlashRate, amount)
           cut == Least(amount, x)
           burnt == PartOf(BurnShare, cut)
           after == AfterSlash(StakeState, a, x)
<1>1. /\ bonds \in [Accounts -> StakeBond \cup {None}] /\ totalActiveBond \in Nat
      /\ free \in [Accounts -> Nat] /\ issuance \in Nat /\ reserved \in [Accounts -> Nat]
      /\ locks \in [Accounts -> ReactorLock \cup {None}] /\ locksCount \in Nat
      /\ reserved[a] = amount + LockAmount(a) /\ LockAmount(a) \in Nat
      /\ amount \in Nat /\ (HasBond(a) => bonds[a] \in StakeBond)
  BY BondTyped
     DEF EconomyInv, EconomyTypeOK, LedgerTypeOK, RewardTypeOK, ReservesExplained
<1>2. /\ BondAmount(a) > 0 /\ StakeBecomes(after)
      /\ UNCHANGED <<now, poolVars, rewardVars, feeVars>>
      /\ UNCHANGED <<locks, locksCount, reactorCount, paidThisBlock>>
  BY DEF SlashNode, rewardVars
<1>3. SlashRate \in Nat
  BY EconomyAssumption, LedgerAssumption
<1>4. x \in Nat
  BY <1>1, <1>3, PartOfNat
<1>5. /\ cut \in 0..amount /\ burnt \in 0..cut
      /\ cut = 0 => after = StakeState
      /\ cut # 0 =>
           /\ after.free = [free EXCEPT ![a] = @ + (cut - burnt)]
           /\ after.reserved = [reserved EXCEPT ![a] = @ - cut]
           /\ after.issuance = SaturatingSub(issuance, burnt)
           /\ after.bonds = [bonds EXCEPT ![a] =
                IF cut = amount THEN None ELSE [@ EXCEPT !.amount = amount - cut]]
           /\ after.total = SaturatingSub(totalActiveBond, cut)
  BY <1>2, <1>4, SlashFact
<1> HIDE DEF amount, cut, burnt, after, x
<1>6. CASE cut = 0
  <2>1. UNCHANGED <<free, reserved, issuance, bonds, totalActiveBond>>
    BY <1>2, <1>5, <1>6 DEF StakeBecomes, StakeState
  <2>2. reserved'[a] = BondAmount(a)' + LockAmount(a)'
    BY <1>1, <1>2, <2>1 DEF BondAmount, HasBond, LockAmount, HasLock, amount
  <2> QED BY <1>1, <1>2, <2>1, <2>2, ReserveStepInv
<1>7. CASE cut # 0
  <2> DEFINE left == IF cut = amount THEN None ELSE [bonds[a] EXCEPT !.amount = amount - cut]
  <2>1. /\ free' = [free EXCEPT ![a] = @ + (cut - burnt)]
        /\ reserved' = [reserved EXCEPT ![a] = @ - cut]
        /\ issuance' = SaturatingSub(issuance, burnt)
        /\ bonds' = [bonds EXCEPT ![a] = left]
        /\ totalActiveBond' = SaturatingSub(totalActiveBond, cut)
    BY <1>2, <1>5, <1>7 DEF StakeBecomes
  <2>2. cut \in Nat /\ burnt \in Nat /\ cut - burnt \in Nat /\ amount - cut \in Nat
        /\ cut <= amount
    BY <1>1, <1>5
  <2>3. free' \in [Accounts -> Nat]
    BY <1>1, <2>1, <2>2
  <2>4. reserved' \in [Accounts -> Nat]
    BY <1>1, <2>1, <2>2
  <2>5. issuance' \in Nat /\ totalActiveBond' \in Nat
    BY <1>1, <2>1, <2>2, ArithmeticFacts
  <2>6. HasBond(a) /\ bonds[a] \in StakeBond
    BY <1>1, <1>2 DEF BondAmount
  <2>7. cut # amount => left \in StakeBond /\ left.amount = amount - cut
    BY <2>2, <2>6 DEF StakeBond
  <2>8. bonds' \in [Accounts -> StakeBond \cup {None}]
    BY <1>1, <2>1, <2>7
  <2>9. BondAmount(a)' = amount - cut /\ LockAmount(a)' = LockAmount(a)
    <3>1. bonds'[a] = left
      BY <1>1, <2>1
    <3>2. CASE cut = amount
      BY <1>1, <1>2, <3>1, <3>2 DEF BondAmount, HasBond, LockAmount, HasLock
    <3>3. CASE cut # amount
      BY <1>2, <2>7, <3>1, <3>3, NoneIsNoEntry DEF BondAmount, HasBond, LockAmount, HasLock
    <3> QED BY <3>2, <3>3
  <2>10. reserved'[a] = BondAmount(a)' + LockAmount(a)'
    BY <1>1, <2>1, <2>2, <2>9
  <2>11. \A b \in Accounts \ {a} :
            reserved'[b] = reserved[b] /\ bonds'[b] = bonds[b] /\ locks'[b] = locks[b]
    BY <1>1, <1>2, <2>1
  <2> QED BY <1>1, <1>2, <2>3, <2>4, <2>5, <2>8, <2>10, <2>11, ReserveStepInv
<1> QED BY <1>6, <1>7

LEMMA ClaimInv ==
  ASSUME EconomyInv, NEW a \in Accounts, Claim(a) PROVE EconomyInv'
<1>1. PICK due \in Dues : PayFromStoragePool(a, due)
  BY DEF Claim
<1> DEFINE x == PoolShare(due)
<1>2. storagePool \in Nat /\ due \in Nat
  BY EconomyAssumption DEF EconomyInv, EconomyTypeOK, LedgerTypeOK
<1>3. x \in Nat /\ x <= storagePool
  BY <1>2 DEF PoolShare, Least
<1> HIDE DEF x
<1>4. /\ Mint(a, x) /\ storagePool' = storagePool - x
      /\ UNCHANGED <<now, reactionPool, stakeVars, rewardVars, feeVars>>
  BY <1>1 DEF PayFromStoragePool, Claim, x
<1>5. free' \in [Accounts -> Nat] /\ issuance' \in Nat /\ reserved' = reserved
  BY <1>3, <1>4, MintFact DEF EconomyInv
<1>6. storagePool' \in Nat
  BY <1>2, <1>3, <1>4
<1>7. EconomyTypeOK'
  BY <1>4, <1>5, <1>6
     DEF EconomyInv, EconomyTypeOK, LedgerTypeOK, RewardTypeOK, stakeVars, rewardVars, feeVars
<1>8. ReservesExplained'
  BY <1>4, <1>5, ReservesKept DEF stakeVars, rewardVars
<1>9. SharesNeverExceedWhole' /\ PayoutCapHolds' /\ ReactionPoolStaysPositive'
  BY <1>4 DEF EconomyInv, SharesNeverExceedWhole, PayoutCapHolds, ReactionPoolStaysPositive,
              rewardVars, feeVars
<1> QED BY <1>7, <1>8, <1>9 DEF EconomyInv

LEMMA RewardFact == ASSUME NEW n \in Nat PROVE CurrentReward(n) \in Nat
<1>1. /\ InitialReward \in Nat /\ TailEmission \in Nat /\ HalvingPeriod \in Nat
      /\ MaxHalvings \in Nat
  BY EconomyAssumption
<1>2. CASE HalvingPeriod = 0
  BY <1>1, <1>2 DEF CurrentReward, Greatest
<1>3. CASE HalvingPeriod # 0
  <2>1. Halvings(n) \in Nat
    BY <1>1, <1>3, DivFact DEF Halvings
  <2>2. Halved(n) \in Nat
    <3>1. CASE Halvings(n) >= MaxHalvings
      BY <3>1 DEF Halved
    <3>2. CASE ~ (Halvings(n) >= MaxHalvings)
      <4> DEFINE k == Halvings(n)
      <4>1. k \in 0..MaxHalvings
        BY <1>1, <2>1, <3>2
      <4> HIDE DEF k
      <4>2. 2^k \in Nat \ {0}
        BY <4>1, PowersOfTwo
      <4>3. InitialReward \div 2^k \in Nat
        BY <1>1, <4>2, DivFact
      <4> QED BY <3>2, <4>3 DEF Halved, k
    <3> QED BY <3>1, <3>2
  <2> QED BY <1>1, <1>3, <2>2 DEF CurrentReward, Greatest
<1> QED BY <1>2, <1>3

(* What a block mints: typed, and at most the block reward in all. *)
LEMMA MintBlockRewardFact ==
  ASSUME EconomyTypeOK, NEW author \in Accounts, MintBlockReward(author)
  PROVE  /\ free' \in [Accounts -> Nat] /\ issuance' \in Nat /\ reserved' = reserved
         /\ storagePool' \in Nat /\ reactionPool' \in Nat
         /\ storagePool' >= storagePool /\ reactionPool' >= reactionPool
         /\ Wealth' <= Wealth + CurrentReward(now)
<1> DEFINE r == CurrentReward(now)
           m == PartOf(MinerShare, r)
           s == PartOf(StorageShare, r)
           t == PartOf(ReactionShare, r)
<1>1. /\ now \in Nat /\ storagePool \in Nat /\ reactionPool \in Nat /\ issuance \in Nat
      /\ MinerShare \in 0..Parts /\ StorageShare \in 0..Parts /\ ReactionShare \in 0..Parts
      /\ MinerShare \in Nat /\ StorageShare \in Nat /\ ReactionShare \in Nat
  BY EconomyAssumption, LedgerAssumption DEF EconomyTypeOK, LedgerTypeOK
<1>2. r \in Nat
  BY <1>1, RewardFact
<1>3. m \in Nat /\ s \in Nat /\ t \in Nat
  BY <1>1, <1>2, PartOfNat
<1>4. RewardSharesFit => m + s + t <= r
  BY <1>1, <1>2, ThreePartsFit DEF RewardSharesFit
<1> HIDE DEF r, m, s, t
<1>5. CASE RewardSharesFit
  <2>1. /\ Mint(author, m) /\ storagePool' = storagePool + s
        /\ reactionPool' = reactionPool + t
    BY <1>5 DEF MintBlockReward, r, m, s, t
  <2>2. /\ free' \in [Accounts -> Nat] /\ issuance' \in Nat
        /\ issuance' = issuance + m /\ reserved' = reserved
    BY <1>3, <2>1, MintFact
  <2>3. issuance' + storagePool' + reactionPool' <= issuance + storagePool + reactionPool + r
    BY <1>1, <1>2, <1>3, <1>4, <1>5, <2>1, <2>2
  <2> QED BY <1>1, <1>3, <2>1, <2>2, <2>3 DEF Wealth, r
<1>6. CASE ~RewardSharesFit
  <2>1. Mint(author, r) /\ storagePool' = storagePool /\ reactionPool' = reactionPool
    BY <1>6 DEF MintBlockReward, r, poolVars
  <2>2. /\ free' \in [Accounts -> Nat] /\ issuance' \in Nat
        /\ issuance' = issuance + r /\ reserved' = reserved
    BY <1>2, <2>1, MintFact
  <2> QED BY <1>1, <1>2, <2>1, <2>2 DEF Wealth, r
<1> QED BY <1>5, <1>6

LEMMA NextFeeFact ==
  ASSUME EconomyTypeOK, NEW fee \in Nat PROVE NextFee(fee) \in Nat
<1>1. /\ BaseFeeMin \in Nat /\ BaseFeeMax \in Nat /\ GasTarget \in Nat /\ gasUsed \in Nat
      /\ fee \in Int
  BY EconomyAssumption DEF EconomyTypeOK
<1>2. Target \in Nat \ {0}
  BY <1>1 DEF Target, Greatest
<1>3. ASSUME NEW by \in Nat PROVE Moved(fee, by) \in Nat
  <2>1. fee * by \in Nat /\ Target * 8 \in Nat \ {0}
    BY <1>2
  <2> QED BY <2>1, DivFact DEF Moved
<1>4. FeeUnclamped(fee) \in Int
  <2>1. CASE gasUsed >= Target
    <3>1. gasUsed - Target \in Nat
      BY <1>1, <1>2, <2>1
    <3> QED BY <1>1, <1>3, <2>1, <3>1 DEF FeeUnclamped
  <2>2. CASE ~ (gasUsed >= Target)
    <3>1. Target - gasUsed \in Nat
      BY <1>1, <1>2, <2>2
    <3> QED BY <1>1, <1>3, <2>2, <3>1 DEF FeeUnclamped
  <2> QED BY <2>1, <2>2
<1>5. fee \div 8 \in Nat
  BY DivFact
<1> HIDE DEF FeeUnclamped
<1>6. Greatest(Least(FeeUnclamped(fee), fee + fee \div 8), fee - fee \div 8) \in Int
  BY <1>1, <1>4, <1>5 DEF Least, Greatest
<1> QED BY <1>1, <1>6 DEF NextFee, Least, Greatest

LEMMA BlockEndInv == ASSUME EconomyInv, EconomyBlockEnd PROVE EconomyInv'
<1>1. /\ now' = now + 1 /\ gasUsed' = 0 /\ paidThisBlock' = 0
      /\ UNCHANGED <<stakeVars, locks, locksCount, reactorCount,
                     postStorageShare, postReactionShare>>
      /\ baseFee' = baseFee \/ baseFee' = NextFee(CurrentBaseFee)
  BY DEF EconomyBlockEnd, NextBlock
<1>2. /\ free' \in [Accounts -> Nat] /\ issuance' \in Nat /\ reserved' = reserved
      /\ storagePool' \in Nat /\ reactionPool' \in Nat /\ reactionPool' >= reactionPool
  <2>1. CASE \E author \in Accounts : MintBlockReward(author)
    BY <2>1, MintBlockRewardFact DEF EconomyInv
  <2>2. CASE UNCHANGED ledgerVars
    BY <2>2 DEF EconomyInv, EconomyTypeOK, LedgerTypeOK, ledgerVars, balanceVars, poolVars
  <2> QED BY <2>1, <2>2 DEF EconomyBlockEnd
<1>3. baseFee' \in Nat
  <2>1. baseFee \in Nat /\ BaseFeeMin \in Nat /\ EconomyTypeOK
    BY EconomyAssumption DEF EconomyInv, EconomyTypeOK
  <2>2. CurrentBaseFee \in Nat
    BY <2>1 DEF CurrentBaseFee, Greatest
  <2> QED BY <1>1, <2>1, <2>2, NextFeeFact
<1>4. EconomyTypeOK'
  BY <1>1, <1>2, <1>3 DEF EconomyInv, EconomyTypeOK, LedgerTypeOK, RewardTypeOK, stakeVars
<1>5. ReservesExplained'
  BY <1>1, <1>2, ReservesKept DEF stakeVars
<1>6. SharesNeverExceedWhole'
  BY <1>1 DEF EconomyInv, SharesNeverExceedWhole
<1>7. PayoutCapHolds' /\ ReactionPoolStaysPositive'
  BY <1>1, <1>2, PoolGrows
<1> QED BY <1>4, <1>5, <1>6, <1>7 DEF EconomyInv

LEMMA EconomyStepInv == EconomyInv /\ [EconomyNext]_economyVars => EconomyInv'
<1> SUFFICES ASSUME EconomyInv, [EconomyNext]_economyVars PROVE EconomyInv'
  OBVIOUS
<1>1. CASE PostPayments
  BY <1>1, PostPaymentInv DEF PostPayments
<1>2. CASE SetPostShare
  BY <1>2, SetPostShareInv
<1>3. CASE BondOps
  BY <1>3, BondInv, RequestReleaseInv, FinalizeReleaseInv DEF BondOps, StakeOps
<1>4. CASE ReactorOps
  BY <1>4, LockForRewardsInv, UnlockReactorInv, LikeInv DEF ReactorOps, RewardOps
<1>5. CASE Slashes
  BY <1>5, SlashInv DEF Slashes
<1>6. CASE Claims
  BY <1>6, ClaimInv DEF Claims
<1>7. CASE EconomyBlockEnd
  BY <1>7, BlockEndInv
<1>8. CASE UNCHANGED economyVars
  BY <1>8 DEF EconomyInv, EconomyTypeOK, LedgerTypeOK, RewardTypeOK, ReservesExplained,
              BondAmount, HasBond, LockAmount, HasLock, SharesNeverExceedWhole,
              PayoutCapHolds, ReactionPoolStaysPositive, economyVars, ledgerVars,
              balanceVars, poolVars, stakeVars, rewardVars, feeVars
<1> QED BY <1>1, <1>2, <1>3, <1>4, <1>5, <1>6, <1>7, <1>8 DEF EconomyNext

LEMMA EconomyInvHolds == EconomySpec => []EconomyInv
<1> QED BY EconomyInitInv, EconomyStepInv, PTL DEF EconomySpec

----------------------------------------------------------------------------
(* Every balance, pool and entry stays well-typed: no subtraction of the   *)
(* pallets goes below 0, whatever the constants.                           *)
THEOREM EconomyTypesHold == EconomySpec => []EconomyTypeOK
<1>1. EconomyInv => EconomyTypeOK
  BY DEF EconomyInv
<1> QED BY <1>1, EconomyInvHolds, PTL

(* An account's reserve is its bond plus its reactor lock, always.         *)
THEOREM ReservesAlwaysExplained == EconomySpec => []ReservesExplained
<1>1. EconomyInv => ReservesExplained
  BY DEF EconomyInv
<1> QED BY <1>1, EconomyInvHolds, PTL

(* No block pays reactors more than its share of the reaction pool.        *)
THEOREM PayoutCapAlwaysHolds == EconomySpec => []PayoutCapHolds
<1>1. EconomyInv => PayoutCapHolds
  BY DEF EconomyInv
<1> QED BY <1>1, EconomyInvHolds, PTL

(* I-3 of docs/economic/parameters.md: a cap below the whole keeps the     *)
(* reaction pool positive for ever.                                        *)
THEOREM ReactionPoolNeverDrained == EconomySpec => []ReactionPoolStaysPositive
<1>1. EconomyInv => ReactionPoolStaysPositive
  BY DEF EconomyInv
<1> QED BY <1>1, EconomyInvHolds, PTL

(* Governance can never make a post feed the pools more than it burned.    *)
THEOREM SharesAlwaysFit == EconomySpec => []SharesNeverExceedWhole
<1>1. EconomyInv => SharesNeverExceedWhole
  BY DEF EconomyInv
<1> QED BY <1>1, EconomyInvHolds, PTL

----------------------------------------------------------------------------
(* The total of the bonds.                                                 *)

LEMMA AmountsTyped ==
  ASSUME EconomyInv
  PROVE  \A b \in Accounts : BondAmounts[b] = BondAmount(b) /\ BondAmounts[b] \in Nat
BY BondTyped DEF EconomyInv, BondAmounts

(* A bond is part of the total, so taking from it never saturates.         *)
LEMMA BondWithinTotal ==
  ASSUME EconomyInv, BondTotalAgrees, NEW a \in Accounts, NEW x \in Nat, x <= BondAmount(a)
  PROVE  SaturatingSub(totalActiveBond, x) = totalActiveBond - x
<1>1. BondAmount(a) \in Nat /\ totalActiveBond \in Nat
  BY AmountsTyped DEF EconomyInv, EconomyTypeOK
<1>2. BondAmount(a) <= totalActiveBond
  BY AmountsTyped, SumIsNat, LedgerAssumption DEF BondTotalAgrees
<1> QED BY <1>1, <1>2 DEF SaturatingSub

(* A step that changes one bond and moves the total by as much.            *)
LEMMA TotalFollows ==
  ASSUME EconomyInv, EconomyInv', BondTotalAgrees, NEW a \in Accounts,
         \A b \in Accounts \ {a} : bonds'[b] = bonds[b],
         totalActiveBond' = totalActiveBond + BondAmount(a)' - BondAmount(a)
  PROVE  BondTotalAgrees'
<1>1. \A b \in Accounts : BondAmounts[b] = BondAmount(b) /\ BondAmounts[b] \in Nat
  BY AmountsTyped
<1>2. \A b \in Accounts : BondAmounts'[b] = BondAmount(b)' /\ BondAmounts'[b] \in Nat
  BY DEF EconomyInv, EconomyTypeOK, BondAmounts, BondAmount, HasBond, StakeBond
<1>3. \A b \in Accounts : b # a => BondAmounts'[b] = BondAmounts[b]
  BY <1>1, <1>2 DEF BondAmount, HasBond
<1>4. SumFunctionOnSet(BondAmounts', Accounts)
        = SumFunctionOnSet(BondAmounts, Accounts) + BondAmounts'[a] - BondAmounts[a]
  BY <1>1, <1>2, <1>3, SumChange, LedgerAssumption
<1> QED BY <1>1, <1>2, <1>4 DEF BondTotalAgrees

LEMMA BondTotalStep ==
  ASSUME EconomyInv, EconomyInv', BondTotalAgrees, [EconomyNext]_economyVars
  PROVE  BondTotalAgrees'
<1>1. ASSUME UNCHANGED stakeVars PROVE BondTotalAgrees'
  BY <1>1 DEF BondTotalAgrees, BondAmounts, BondAmount, HasBond, stakeVars
<1>2. /\ bonds \in [Accounts -> StakeBond \cup {None}] /\ totalActiveBond \in Nat
      /\ \A a \in Accounts : BondAmount(a) \in Nat
      /\ \A a \in Accounts : HasBond(a) => BondAmount(a) = bonds[a].amount
  BY BondTyped DEF EconomyInv, EconomyTypeOK
<1>3. ASSUME NEW a \in Accounts, NEW capacity \in DeclaredCapacities, Bond(a, capacity)
      PROVE  BondTotalAgrees'
  <2> DEFINE entry == [amount |-> Price(capacity), requested |-> None]
  <2>1. /\ ~HasBond(a) /\ bonds' = [bonds EXCEPT ![a] = entry]
        /\ totalActiveBond' = totalActiveBond + entry.amount
    BY <1>3 DEF Bond
  <2>2. entry # None
    BY PriceFact, StakeAssumption, NoneIsNoEntry DEF StakeBond
  <2>3. BondAmount(a)' = entry.amount /\ BondAmount(a) = 0
    BY <1>2, <2>1, <2>2 DEF BondAmount, HasBond
  <2>4. entry.amount \in Nat
    BY PriceFact
  <2> HIDE DEF entry
  <2>5. /\ totalActiveBond' = totalActiveBond + BondAmount(a)' - BondAmount(a)
        /\ \A b \in Accounts \ {a} : bonds'[b] = bonds[b]
    BY <1>2, <2>1, <2>3, <2>4
  <2> QED BY <2>5, TotalFollows
<1>4. ASSUME NEW a \in Accounts, RequestRelease(a) PROVE BondTotalAgrees'
  <2> DEFINE entry == [bonds[a] EXCEPT !.requested = now]
  <2>1. /\ HasBond(a) /\ bonds' = [bonds EXCEPT ![a] = entry]
        /\ totalActiveBond' = totalActiveBond
    BY <1>4 DEF RequestRelease
  <2>2. bonds[a] \in StakeBond /\ now \in Nat
    BY <1>2, <2>1 DEF HasBond, EconomyInv, EconomyTypeOK
  <2>3. entry \in StakeBond /\ entry.amount = bonds[a].amount
    BY <2>2 DEF StakeBond
  <2>4. BondAmount(a)' = BondAmount(a)
    BY <1>2, <2>1, <2>3, NoneIsNoEntry DEF BondAmount, HasBond
  <2>5. /\ totalActiveBond' = totalActiveBond + BondAmount(a)' - BondAmount(a)
        /\ \A b \in Accounts \ {a} : bonds'[b] = bonds[b]
    BY <1>2, <2>1, <2>4
  <2> QED BY <2>5, TotalFollows
<1>5. ASSUME NEW a \in Accounts, FinalizeRelease(a) PROVE BondTotalAgrees'
  <2>1. /\ HasBond(a) /\ bonds' = [bonds EXCEPT ![a] = None]
        /\ totalActiveBond' = SaturatingSub(totalActiveBond, BondAmount(a))
    BY <1>2, <1>5 DEF FinalizeRelease
  <2>2. totalActiveBond' = totalActiveBond - BondAmount(a)
    BY <1>2, <2>1, BondWithinTotal
  <2>3. BondAmount(a)' = 0
    BY <1>2, <2>1 DEF BondAmount, HasBond
  <2>4. /\ totalActiveBond' = totalActiveBond + BondAmount(a)' - BondAmount(a)
        /\ \A b \in Accounts \ {a} : bonds'[b] = bonds[b]
    BY <1>2, <2>1, <2>2, <2>3
  <2> QED BY <2>4, TotalFollows
<1>6. ASSUME NEW a \in Accounts, SlashNode(a) PROVE BondTotalAgrees'
  <2> DEFINE amount == BondAmount(a)
             x == PartOf(SlashRate, amount)
             cut == Least(amount, x)
             after == AfterSlash(StakeState, a, x)
             left == IF cut = amount THEN None ELSE [bonds[a] EXCEPT !.amount = amount - cut]
  <2>1. amount \in Nat /\ amount > 0 /\ x \in Nat /\ StakeBecomes(after)
    BY <1>2, <1>6, EconomyAssumption, LedgerAssumption, PartOfNat DEF SlashNode
  <2>2. /\ cut \in 0..amount
        /\ cut = 0 => UNCHANGED stakeVars
        /\ cut # 0 => /\ bonds' = [bonds EXCEPT ![a] = left]
                      /\ totalActiveBond' = SaturatingSub(totalActiveBond, cut)
    <3> HIDE DEF x
    <3>1. /\ cut \in 0..amount
          /\ cut = 0 => after = StakeState
          /\ cut # 0 => /\ after.bonds = [bonds EXCEPT ![a] = left]
                        /\ after.total = SaturatingSub(totalActiveBond, cut)
      BY <2>1, SlashFact
    <3> HIDE DEF amount, cut, after, left
    <3> QED BY <2>1, <3>1 DEF StakeBecomes, StakeState, stakeVars
  <2>3. CASE cut = 0
    BY <1>1, <2>2, <2>3
  <2>4. CASE cut # 0
    <3>1. HasBond(a) /\ bonds[a] \in StakeBond /\ bonds[a].amount = amount
      BY <1>2, <2>1 DEF BondAmount, HasBond
    <3>2. cut # amount => left \in StakeBond /\ left.amount = amount - cut
      BY <2>1, <2>2, <3>1 DEF StakeBond
    <3>3. bonds'[a] = left /\ \A b \in Accounts \ {a} : bonds'[b] = bonds[b]
      BY <1>2, <2>2, <2>4
    <3>4. BondAmount(a)' = amount - cut
      BY <2>1, <2>2, <3>2, <3>3, NoneIsNoEntry DEF BondAmount, HasBond
    <3>5. totalActiveBond' = totalActiveBond - cut
      BY <2>2, <2>4, BondWithinTotal
    <3>6. totalActiveBond' = totalActiveBond + BondAmount(a)' - BondAmount(a)
      BY <1>2, <2>1, <2>2, <3>4, <3>5
    <3> QED BY <3>3, <3>6, TotalFollows
  <2> QED BY <2>3, <2>4
<1>7. CASE PostPayments
  BY <1>1, <1>7 DEF PostPayments, PayForPost
<1>8. CASE SetPostShare
  BY <1>1, <1>8 DEF SetPostShare
<1>9. CASE BondOps
  BY <1>3, <1>4, <1>5, <1>9 DEF BondOps, StakeOps
<1>10. CASE ReactorOps
  BY <1>1, <1>10 DEF ReactorOps
<1>11. CASE Slashes
  BY <1>6, <1>11 DEF Slashes
<1>12. CASE Claims
  BY <1>1, <1>12 DEF Claims, Claim
<1>13. CASE EconomyBlockEnd
  BY <1>1, <1>13 DEF EconomyBlockEnd
<1>14. CASE UNCHANGED economyVars
  BY <1>1, <1>14 DEF economyVars
<1> QED
  BY <1>7, <1>8, <1>9, <1>10, <1>11, <1>12, <1>13, <1>14 DEF EconomyNext

(* TotalActiveBond is the sum of all bonds, whatever is bonded, released   *)
(* or slashed in whatever order: no saturating subtraction ever saturates. *)
THEOREM BondTotalAlwaysAgrees == EconomySpec => []BondTotalAgrees
<1>1. EconomyInit => BondTotalAgrees
  <2> SUFFICES ASSUME EconomyInit PROVE BondTotalAgrees
    OBVIOUS
  <2>1. \A a \in Accounts : BondAmounts[a] = 0
    BY DEF EconomyInit, StakeInit, BondAmounts, BondAmount, HasBond
  <2>2. SumFunctionOnSet(BondAmounts, Accounts) = 0
    BY <2>1, SumIsZero, LedgerAssumption
  <2> QED BY <2>2 DEF EconomyInit, StakeInit, BondTotalAgrees
<1>2. EconomyInv /\ EconomyInv' /\ BondTotalAgrees /\ [EconomyNext]_economyVars
        => BondTotalAgrees'
  BY BondTotalStep
<1> QED BY <1>1, <1>2, EconomyInvHolds, PTL DEF EconomySpec

----------------------------------------------------------------------------
(* No transaction adds to the tokens that exist or may still be minted.    *)

(* Within a block: what exists shrinks by at least the base fees paid. *)
WealthShrinks == Wealth' + (gasUsed' - gasUsed) * CurrentBaseFee <= Wealth

LEMMA FeelessStep ==
  ASSUME EconomyInv, gasUsed' = gasUsed, Wealth' <= Wealth, Wealth' \in Int
  PROVE  WealthShrinks
<1>1. gasUsed \in Nat /\ baseFee \in Nat /\ BaseFeeMin \in Nat
  BY EconomyAssumption DEF EconomyInv, EconomyTypeOK
<1>2. CurrentBaseFee \in Nat
  BY <1>1 DEF CurrentBaseFee, Greatest
<1>3. (gasUsed' - gasUsed) * CurrentBaseFee = 0
  BY <1>1, <1>2
<1> QED BY <1>3 DEF WealthShrinks

LEMMA PostPaymentShrinks ==
  ASSUME EconomyInv, NEW a \in Accounts, NEW size \in Sizes, PayForPost(a, size)
  PROVE  WealthShrinks
<1> DEFINE d == Distributable(size)
           s == PartOf(postStorageShare, d)
           t == PartOf(postReactionShare, d)
           f == size * CurrentBaseFee
<1>1. /\ size \in Nat /\ PostBaseCost \in Nat /\ PostByteCost \in Nat /\ BaseFeeMin \in Nat
      /\ baseFee \in Nat /\ storagePool \in Nat /\ reactionPool \in Nat /\ issuance \in Nat
      /\ postStorageShare \in 0..Parts /\ postReactionShare \in 0..Parts
      /\ postStorageShare \in Nat /\ postReactionShare \in Nat
      /\ postStorageShare + postReactionShare <= Parts
      /\ gasUsed \in Nat
  BY EconomyAssumption, LedgerAssumption
     DEF EconomyInv, EconomyTypeOK, LedgerTypeOK, SharesNeverExceedWhole
<1>2. CurrentBaseFee \in Nat /\ d \in Nat
  BY <1>1 DEF CurrentBaseFee, Distributable, Greatest
<1>3. f \in Nat
  BY <1>1, <1>2
<1>4. s \in Nat /\ t \in Nat /\ s + t <= d
  BY <1>1, <1>2, PartsFit, PartOfNat
<1>5. (gasUsed' - gasUsed) * CurrentBaseFee = f
  <2>1. gasUsed' - gasUsed = size
    BY <1>1 DEF PayForPost
  <2> QED BY <2>1
<1> HIDE DEF d, s, t, f
<1>6. /\ issuance' = issuance - (d + f)
      /\ storagePool' = storagePool + s /\ reactionPool' = reactionPool + t
  BY DEF PayForPost, Burn, d, s, t, f
<1>7. (issuance' + storagePool' + reactionPool') + f <= issuance + storagePool + reactionPool
  BY <1>1, <1>2, <1>3, <1>4, <1>6
<1> QED BY <1>5, <1>7 DEF WealthShrinks, Wealth

LEMMA SlashShrinks ==
  ASSUME EconomyInv, NEW a \in Accounts, SlashNode(a) PROVE WealthShrinks
<1> DEFINE x == PartOf(SlashRate, BondAmount(a))
           cut == Least(BondAmount(a), x)
           burnt == PartOf(BurnShare, cut)
           after == AfterSlash(StakeState, a, x)
<1>1. /\ BondAmount(a) \in Nat /\ BondAmount(a) > 0 /\ SlashRate \in Nat
      /\ issuance \in Nat /\ storagePool \in Nat /\ reactionPool \in Nat
  BY BondTyped, EconomyAssumption, LedgerAssumption
     DEF EconomyInv, EconomyTypeOK, LedgerTypeOK, SlashNode
<1>2. x \in Nat
  BY <1>1, PartOfNat
<1>3. /\ cut \in 0..BondAmount(a) /\ burnt \in 0..cut
      /\ cut = 0 => after = StakeState
      /\ cut # 0 => after.issuance = SaturatingSub(issuance, burnt)
  BY <1>1, <1>2, SlashFact
<1>4. issuance' = after.issuance /\ gasUsed' = gasUsed
      /\ UNCHANGED <<storagePool, reactionPool>>
  BY DEF SlashNode, StakeBecomes, poolVars, feeVars
<1> HIDE DEF x, cut, burnt, after
<1>5. issuance' \in Nat /\ issuance' <= issuance
  <2>1. CASE cut = 0
    BY <1>1, <1>3, <1>4, <2>1 DEF StakeState
  <2>2. CASE cut # 0
    <3>1. burnt \in Nat /\ issuance' = SaturatingSub(issuance, burnt)
      BY <1>1, <1>3, <1>4, <2>2
    <3> QED BY <1>1, <3>1, ArithmeticFacts
  <2> QED BY <2>1, <2>2
<1>6. Wealth' \in Int /\ Wealth' <= Wealth
  BY <1>1, <1>4, <1>5 DEF Wealth
<1> QED BY <1>4, <1>6, FeelessStep

LEMMA ClaimShrinks ==
  ASSUME EconomyInv, NEW a \in Accounts, Claim(a) PROVE WealthShrinks
<1>1. PICK due \in Dues : PayFromStoragePool(a, due)
  BY DEF Claim
<1> DEFINE x == PoolShare(due)
<1>2. /\ storagePool \in Nat /\ issuance \in Nat /\ reactionPool \in Nat /\ due \in Nat
  BY EconomyAssumption DEF EconomyInv, EconomyTypeOK, LedgerTypeOK
<1>3. x \in Nat
  BY <1>2 DEF PoolShare, Least
<1> HIDE DEF x
<1>4. /\ storagePool' = storagePool - x /\ issuance' = issuance + x
      /\ reactionPool' = reactionPool /\ gasUsed' = gasUsed
  BY <1>1 DEF PayFromStoragePool, Mint, Claim, feeVars, x
<1>5. Wealth' \in Int /\ Wealth' <= Wealth
  BY <1>2, <1>3, <1>4 DEF Wealth
<1> QED BY <1>4, <1>5, FeelessStep

LEMMA LikeShrinks ==
  ASSUME EconomyInv, NEW a \in Accounts, NEW author \in Accounts,
         RewardLike(a, author), UNCHANGED <<now, stakeVars, feeVars>>
  PROVE  WealthShrinks
<1> DEFINE x == Granted(a)
<1>1. reactionPool \in Nat /\ issuance \in Nat /\ storagePool \in Nat
  BY DEF EconomyInv, EconomyTypeOK, LedgerTypeOK
<1>2. x \in 0..reactionPool
  BY GrantedFact
<1> HIDE DEF x
<1>3. /\ issuance' = issuance + x /\ reactionPool' = reactionPool - x
      /\ storagePool' = storagePool /\ gasUsed' = gasUsed
  BY DEF RewardLike, Mint, PoolAfterGrant, feeVars, x
<1>4. Wealth' \in Int /\ Wealth' <= Wealth
  BY <1>1, <1>2, <1>3 DEF Wealth
<1> QED BY <1>3, <1>4, FeelessStep

LEMMA MoneyStep ==
  ASSUME EconomyInv, [EconomyNext]_economyVars
  PROVE  IF now' = now THEN WealthShrinks ELSE Wealth' <= Wealth + CurrentReward(now)
<1>1. now \in Nat /\ issuance \in Nat /\ storagePool \in Nat /\ reactionPool \in Nat
  BY DEF EconomyInv, EconomyTypeOK, LedgerTypeOK
<1>2. Wealth \in Nat
  BY <1>1 DEF Wealth
<1>3. ASSUME UNCHANGED <<issuance, storagePool, reactionPool, gasUsed>> PROVE WealthShrinks
  BY <1>1, <1>3, FeelessStep DEF Wealth
<1>4. CASE PostPayments
  BY <1>4, PostPaymentShrinks DEF PostPayments, PayForPost
<1>5. CASE SetPostShare
  BY <1>3, <1>5 DEF SetPostShare, ledgerVars, balanceVars, poolVars
<1>6. CASE BondOps
  BY <1>3, <1>6 DEF BondOps, StakeOps, Bond, RequestRelease, FinalizeRelease, Reserve,
                    Unreserve, balanceVars, poolVars, feeVars
<1>7. CASE ReactorOps
  <2>1. UNCHANGED <<now, stakeVars, feeVars>>
    BY <1>7 DEF ReactorOps
  <2>2. CASE \E a \in Accounts : \E author \in Accounts : RewardLike(a, author)
    BY <2>1, <2>2, LikeShrinks
  <2>3. CASE \E a \in Accounts : \/ \E x \in LockAmounts : LockForRewards(a, x) /\ UNCHANGED poolVars
                                 \/ UnlockReactor(a) /\ UNCHANGED poolVars
    BY <1>3, <2>1, <2>3 DEF LockForRewards, UnlockReactor, Reserve, Unreserve, poolVars, feeVars
  <2> QED BY <1>7, <2>1, <2>2, <2>3 DEF ReactorOps, RewardOps
<1>8. CASE Slashes
  BY <1>8, SlashShrinks DEF Slashes, SlashNode
<1>9. CASE Claims
  BY <1>9, ClaimShrinks DEF Claims, Claim
<1>10. CASE EconomyBlockEnd
  <2>1. now' # now
    BY <1>1, <1>10 DEF EconomyBlockEnd, NextBlock
  <2>2. CASE \E author \in Accounts : MintBlockReward(author)
    BY <2>1, <2>2, MintBlockRewardFact DEF EconomyInv
  <2>3. CASE UNCHANGED ledgerVars
    <3>1. CurrentReward(now) \in Nat /\ Wealth' = Wealth
      BY <1>1, <2>3, RewardFact DEF Wealth, ledgerVars, balanceVars, poolVars
    <3> QED BY <1>2, <2>1, <3>1
  <2> QED BY <1>10, <2>2, <2>3 DEF EconomyBlockEnd
<1>11. CASE UNCHANGED economyVars
  BY <1>3, <1>11 DEF economyVars, ledgerVars, balanceVars, poolVars, feeVars
<1> QED BY <1>4, <1>5, <1>6, <1>7, <1>8, <1>9, <1>10, <1>11 DEF EconomyNext

(* What a claim or a reaction mints leaves a pool, what a post feeds to    *)
(* the pools it burned; only the end of a block adds, and at most the      *)
(* block reward.                                                           *)
THEOREM NoMoneyIsCreated == EconomySpec => NoMoneyFromNothing
<1>1. EconomyInv /\ [EconomyNext]_economyVars =>
        [IF now' = now
         THEN Wealth' + (gasUsed' - gasUsed) * CurrentBaseFee <= Wealth
         ELSE Wealth' <= Wealth + CurrentReward(now)]_economyVars
  BY MoneyStep DEF WealthShrinks
<1> QED BY <1>1, EconomyInvHolds, PTL DEF EconomySpec, NoMoneyFromNothing

----------------------------------------------------------------------------
(* The base fee, with its start and its floor below its ceiling, as the    *)
(* runtime sets them: 100, 10_000 and 100_000_000_000.                     *)
FeeBounds == BaseFeeInit <= BaseFeeMax /\ BaseFeeMin <= BaseFeeMax

FeeInv == BaseFeeMin <= CurrentBaseFee /\ CurrentBaseFee <= BaseFeeMax

(* A full block moves the fee by at least its eighth, an empty one by none *)
(* in the other direction.                                                 *)
LEMMA FeeMoves ==
  ASSUME EconomyTypeOK, NEW fee \in Nat
  PROVE  /\ FeeUnclamped(fee) \in Int
         /\ gasUsed >= 2 * Target => FeeUnclamped(fee) >= fee + fee \div 8
         /\ gasUsed <= Target => FeeUnclamped(fee) <= fee
<1>1. gasUsed \in Nat /\ Target \in Nat \ {0}
  BY EconomyAssumption DEF EconomyTypeOK, Target, Greatest
<1>2. ASSUME NEW by \in Nat PROVE Moved(fee, by) \in Nat
  <2>1. fee * by \in Nat /\ Target * 8 \in Nat \ {0}
    BY <1>1
  <2> QED BY <2>1, DivFact DEF Moved
<1>3. Moved(fee, 0) = 0
  <2>1. fee * 0 = 0 /\ Target * 8 \in Nat \ {0}
    BY <1>1
  <2>2. \A d \in Nat \ {0} : 0 \div d = 0
    OBVIOUS
  <2> QED BY <2>1, <2>2 DEF Moved
<1>4. ASSUME NEW by \in Nat, by >= Target PROVE Moved(fee, by) >= fee \div 8
  <2> DEFINE e == fee \div 8
             t == Target
  <2>1. e \in Nat /\ 8 * e <= fee /\ t \in Nat \ {0}
    BY <1>1, DivFact
  <2> HIDE DEF e, t
  <2>2. (t * 8) * e <= fee * by
    <3>1. (8 * e) * t <= fee * t
      BY <2>1
    <3>2. fee * t <= fee * by
      BY <1>4, <2>1 DEF t
    <3>3. (t * 8) * e = (8 * e) * t
      BY <2>1
    <3>4. fee * t \in Nat /\ fee * by \in Nat /\ (8 * e) * t \in Nat
      BY <2>1
    <3> QED BY <3>1, <3>2, <3>3, <3>4
  <2>3. fee * by \in Nat /\ t * 8 \in Nat \ {0} /\ e \in Int
    BY <2>1
  <2>4. e <= (fee * by) \div (t * 8)
    BY <2>2, <2>3, QuotientBounds
  <2>5. (fee * by) \div (t * 8) = Moved(fee, by)
    BY DEF Moved, t
  <2>6. Moved(fee, by) \in Nat
    BY <1>2
  <2> QED BY <2>1, <2>4, <2>5, <2>6 DEF e
<1>5. CASE gasUsed >= Target
  <2>1. gasUsed - Target \in Nat /\ FeeUnclamped(fee) = fee + Moved(fee, gasUsed - Target)
    BY <1>1, <1>5 DEF FeeUnclamped
  <2>2. gasUsed >= 2 * Target => gasUsed - Target >= Target
    BY <1>1
  <2>3. gasUsed <= Target => gasUsed - Target = 0
    BY <1>1, <1>5
  <2>4. fee \div 8 \in Nat /\ Moved(fee, gasUsed - Target) \in Nat
    BY <1>2, <2>1, DivFact
  <2>5. gasUsed >= 2 * Target => Moved(fee, gasUsed - Target) >= fee \div 8
    BY <1>4, <2>1, <2>2
  <2>6. gasUsed <= Target => Moved(fee, gasUsed - Target) = 0
    BY <1>3, <2>3
  <2> QED BY <2>1, <2>4, <2>5, <2>6
<1>6. CASE ~(gasUsed >= Target)
  <2>1. Target - gasUsed \in Nat /\ FeeUnclamped(fee) = fee - Moved(fee, Target - gasUsed)
    BY <1>1, <1>6 DEF FeeUnclamped
  <2>2. ~(gasUsed >= 2 * Target)
    BY <1>1, <1>6
  <2> QED BY <1>2, <2>1, <2>2
<1> QED BY <1>5, <1>6

LEMMA NextFeeFollows ==
  ASSUME EconomyTypeOK, FeeBounds, NEW fee \in Nat, BaseFeeMin <= fee, fee <= BaseFeeMax
  PROVE  /\ NextFee(fee) \in BaseFeeMin .. BaseFeeMax
         /\ gasUsed >= 2 * Target /\ fee \in 8 .. BaseFeeMax - 1 => NextFee(fee) > fee
         /\ gasUsed <= Target => NextFee(fee) <= fee
         /\ NextFee(fee) \in fee - fee \div 8 .. fee + fee \div 8
<1> DEFINE e == fee \div 8
           u == FeeUnclamped(fee)
<1>1. e \in Nat /\ 8 * e <= fee /\ fee < 8 * e + 8
  BY DivFact
<1>2. /\ u \in Int
      /\ gasUsed >= 2 * Target => u >= fee + e
      /\ gasUsed <= Target => u <= fee
  BY FeeMoves
<1>3. BaseFeeMin \in Nat /\ BaseFeeMax \in Nat /\ BaseFeeMin <= BaseFeeMax
  BY EconomyAssumption DEF FeeBounds
<1>4. NextFee(fee) = Least(Greatest(Greatest(Least(u, fee + e), fee - e), BaseFeeMin), BaseFeeMax)
  BY DEF NextFee
<1> HIDE DEF e, u
<1> DEFINE step == Greatest(Least(u, fee + e), fee - e)
<1>5. /\ step \in fee - e .. fee + e
      /\ u >= fee + e => step = fee + e
      /\ u <= fee => step <= fee
  BY <1>1, <1>2 DEF Least, Greatest
<1> HIDE DEF step
<1>6. /\ NextFee(fee) \in BaseFeeMin .. BaseFeeMax
      /\ NextFee(fee) \in fee - e .. fee + e
      /\ step <= fee => NextFee(fee) <= fee
      /\ step > fee /\ fee < BaseFeeMax => NextFee(fee) > fee
  <2>1. NextFee(fee) = Least(Greatest(step, BaseFeeMin), BaseFeeMax)
    BY <1>4 DEF step
  <2> QED BY <1>1, <1>3, <1>5, <2>1 DEF Least, Greatest
<1>7. fee \in 8 .. BaseFeeMax - 1 => e >= 1 /\ fee < BaseFeeMax
  BY <1>1, <1>3
<1> QED BY <1>1, <1>2, <1>3, <1>5, <1>6, <1>7 DEF e

LEMMA FeeStep ==
  ASSUME EconomyInv, FeeBounds, FeeInv, [EconomyNext]_economyVars
  PROVE  /\ FeeInv'
         /\ now' # now =>
              LET fee == CurrentBaseFee
              IN  /\ gasUsed >= 2 * Target /\ fee \in 8..BaseFeeMax-1 => (CurrentBaseFee)' > fee
                  /\ gasUsed <= Target => (CurrentBaseFee)' <= fee
                  /\ (CurrentBaseFee)' \in fee - fee \div 8 .. fee + fee \div 8
<1>1. baseFee \in Nat /\ BaseFeeMin \in Nat /\ BaseFeeMax \in Nat /\ now \in Nat /\ EconomyTypeOK
  BY EconomyAssumption DEF EconomyInv, EconomyTypeOK
<1>2. CurrentBaseFee \in Nat
  BY <1>1 DEF CurrentBaseFee, Greatest
<1>3. CASE EconomyBlockEnd
  <2>1. baseFee' = NextFee(CurrentBaseFee) \/ (baseFee' = baseFee /\ NextFee(CurrentBaseFee) = CurrentBaseFee)
    BY <1>3 DEF EconomyBlockEnd
  <2>2. NextFee(CurrentBaseFee) \in BaseFeeMin .. BaseFeeMax
    BY <1>1, <1>2, NextFeeFollows DEF FeeInv
  <2>3. (CurrentBaseFee)' = NextFee(CurrentBaseFee)
    BY <1>1, <2>1, <2>2 DEF CurrentBaseFee, Greatest
  <2>4. FeeInv'
    BY <1>1, <2>2, <2>3 DEF FeeInv
  <2> QED BY <1>1, <1>2, <2>3, <2>4, NextFeeFollows DEF FeeInv
<1>4. ASSUME now' = now, baseFee' = baseFee
      PROVE  FeeInv' /\ now' = now
  BY <1>4 DEF FeeInv, CurrentBaseFee
<1>5. CASE PostPayments
  BY <1>4, <1>5 DEF PostPayments, PayForPost
<1>6. CASE SetPostShare \/ BondOps \/ ReactorOps \/ Slashes \/ Claims \/ UNCHANGED economyVars
  BY <1>4, <1>6 DEF SetPostShare, BondOps, ReactorOps, Slashes, SlashNode, Claims, Claim,
                    economyVars, feeVars
<1> QED BY <1>3, <1>4, <1>5, <1>6 DEF EconomyNext

(* With every block of twice the target or more the fee goes up until it    *)
(* is at its ceiling, a block within the target never raises it, and none  *)
(* moves it by more than an eighth: clamping to the bounds included.       *)
THEOREM FeeAlwaysFollowsLoad ==
  ASSUME FeeBounds PROVE EconomySpec => FeeFollowsLoad
<1>1. EconomyInit => FeeInv
  <2> SUFFICES ASSUME EconomyInit PROVE FeeInv
    OBVIOUS
  <2>1. baseFee = Greatest(BaseFeeInit, BaseFeeMin)
    BY DEF EconomyInit
  <2> QED BY <2>1, EconomyAssumption DEF FeeBounds, FeeInv, CurrentBaseFee, Greatest
<1>2. EconomyInv /\ FeeInv /\ [EconomyNext]_economyVars => FeeInv'
  BY FeeStep
<1>3. EconomyInv /\ FeeInv /\ [EconomyNext]_economyVars =>
        [now' # now =>
           LET fee == CurrentBaseFee
           IN  /\ gasUsed >= 2 * Target /\ fee \in 8..BaseFeeMax-1 => (CurrentBaseFee)' > fee
               /\ gasUsed <= Target => (CurrentBaseFee)' <= fee
               /\ (CurrentBaseFee)' \in fee - fee \div 8 .. fee + fee \div 8]_economyVars
  BY FeeStep
<1> QED BY <1>1, <1>2, <1>3, EconomyInvHolds, PTL DEF EconomySpec, FeeFollowsLoad
=============================================================================
