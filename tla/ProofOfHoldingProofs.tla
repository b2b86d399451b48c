------------------------ MODULE ProofOfHoldingProofs ------------------------
(***************************************************************************)
(* Proofs about ProofOfHolding for any accounts, contents, windows, limits *)
(* and prices: no challenge is forgotten, the fragment state follows its   *)
(* holders, repair stops at the target, a node is slashed once per         *)
(* content, and rewards are neither lost nor doubled.                      *)
(***************************************************************************)
EXTENDS ProofOfHolding, NumberFacts

----------------------------------------------------------------------------
(* Arithmetic. *)

LEMMA PartOfNat ==
  ASSUME NEW s \in Nat, NEW x \in Nat PROVE PartOf(s, x) \in Nat
<1>1. Parts \in Nat \ {0} /\ s * x \in Nat
  BY LedgerAssumption
<1> QED BY <1>1, DivFact DEF PartOf

LEMMA PartOfAtMost ==
  ASSUME NEW s \in 0..Parts, NEW x \in Nat
  PROVE  PartOf(s, x) \in Nat /\ PartOf(s, x) <= x
<1> DEFINE q == (s * x) \div Parts
<1>1. Parts \in Nat \ {0} /\ s \in Nat /\ s <= Parts /\ s * x \in Nat
  BY LedgerAssumption
<1>2. q \in Nat /\ Parts * q <= s * x
  BY <1>1, DivFact
<1>3. s * x <= Parts * x
  BY <1>1
<1>4. q <= x
  BY <1>1, <1>2, <1>3
<1> QED BY <1>2, <1>4 DEF PartOf

LEMMA BurntFact ==
  ASSUME NEW x \in Nat
  PROVE  PartOf(BurnShare, x) \in Nat /\ PartOf(BurnShare, x) <= x
<1>1. BurnShare \in 0..Parts
  BY StakeAssumption
<1> QED BY <1>1, PartOfAtMost

LEMMA RewardNat ==
  ASSUME HoldingTypeOK, NEW a \in Accounts PROVE Reward(a) \in Nat
<1>1. /\ Parts \in Nat \ {0} /\ StoragePoolTarget \in Nat /\ BaseReward \in Nat
      /\ storagePool \in Nat /\ totalActiveBond \in Nat /\ BondAmount(a) \in Nat
  BY LedgerAssumption, HoldingAssumption
     DEF HoldingTypeOK, LedgerTypeOK, BondAmount, HasBond, StakeBond
<1>2. PoolRatio \in Nat
  <2>1. storagePool * Parts \in Nat
    BY <1>1
  <2>2. StoragePoolTarget # 0 => (storagePool * Parts) \div StoragePoolTarget \in Nat
    BY <1>1, <2>1, DivFact
  <2> QED BY <1>1, <2>2 DEF PoolRatio
<1>3. BondShareRoot(BondAmount(a)) \in Nat
  <2> DEFINE bond == BondAmount(a)
             share == (bond * Parts) \div totalActiveBond
  <2>1. bond \in Nat /\ bond * Parts \in Nat
    BY <1>1
  <2>2. totalActiveBond > 0 => share \in Nat
    BY <1>1, <2>1, DivFact
  <2> HIDE DEF bond, share
  <2>3. totalActiveBond > 0 => SqrtParts(share) \in Nat
    BY <1>1, <2>2, RootFact DEF SqrtParts
  <2> QED BY <1>1, <2>3 DEF BondShareRoot, bond, share
<1>4. PartOf(PoolRatio, BaseReward) \in Nat
  BY <1>1, <1>2, PartOfNat
<1> QED BY <1>3, <1>4, PartOfNat DEF Reward, RewardAt

LEMMA PriceNat == \A capacity \in DeclaredCapacities : Price(capacity) \in Nat
<1> SUFFICES ASSUME NEW capacity \in DeclaredCapacities PROVE Price(capacity) \in Nat
  OBVIOUS
<1>1. capacity + GB - 1 \in Nat /\ GB \in Nat \ {0} /\ BondPerGB \in Nat
  BY StakeAssumption
<1>2. (capacity + GB - 1) \div GB \in Nat
  BY <1>1, DivFact
<1> QED BY <1>1, <1>2 DEF Price

----------------------------------------------------------------------------
(* The inductive invariant.  A challenge is listed for its deadline only   *)
(* because the deadline is a block that can still come, and a repair stops *)
(* at the target only because the state that allows it is the holders'.    *)
DeadlinesListed ==
  \A e \in Contents \X Shares : pending[e] # None =>
    pending[e].deadline \in DOMAIN dueAt

HoldingInv ==
  /\ HoldingTypeOK
  /\ DeadlinesListed
  /\ EveryChallengeResolves
  /\ StateFollowsHolders

LEMMA HoldingNoneFact ==
  /\ None \notin StakeBond /\ None \notin Challenge /\ None \notin Nat
  /\ \A A \in SUBSET Accounts : A # None
BY StakeNone, HoldingNone

LEMMA HoldingInitInv == ASSUME HoldingInit PROVE HoldingInv
<1> USE DEF HoldingInit, RegistryInit, LedgerInit, StakeInit, KzgInit
<1>1. LedgerTypeOK
  <2>1. Cardinality(Accounts) \in Nat /\ Endowment \in Nat
    BY LedgerAssumption, FS_CardinalityType
  <2>2. Endowment * Cardinality(Accounts) \in Nat
    BY <2>1
  <2> QED BY <2>2, LedgerAssumption DEF LedgerTypeOK
<1>2. KzgTypeOK
  <2>1. NoRecord \in ProofRecord
    BY DEF NoRecord, ProofRecord
  <2>2. <<>> \in Seq(Contents \X Shares)
    OBVIOUS
  <2> QED BY <2>1, <2>2 DEF KzgTypeOK
<1>3. HoldingTypeOK
  BY <1>1, <1>2, ChainAssumption DEF HoldingTypeOK
<1>4. DeadlinesListed /\ EveryChallengeResolves
  BY DEF DeadlinesListed, EveryChallengeResolves
<1>5. StateFollowsHolders
  BY DEF StateFollowsHolders, IsKzg
<1> QED BY <1>3, <1>4, <1>5 DEF HoldingInv

(* What the invariant says of challenges and of holders only depends on    *)
(* their own variables.                                                    *)
LEMMA ChallengesKept ==
  ASSUME HoldingInv, UNCHANGED <<now, challengeVars>>
  PROVE  DeadlinesListed' /\ EveryChallengeResolves'
BY DEF HoldingInv, DeadlinesListed, EveryChallengeResolves, challengeVars

LEMMA HoldersKept ==
  ASSUME HoldingInv, UNCHANGED fragmentVars
  PROVE  StateFollowsHolders'
BY DEF HoldingInv, StateFollowsHolders, IsKzg, fragmentVars

LEMMA RegistrationsInv == ASSUME HoldingInv, Registrations PROVE HoldingInv'
<1>1. UNCHANGED <<now, ledgerVars, stakeVars, kzgVars>>
  BY DEF Registrations, RegisterNode, UnregisterNode
<1>2. HoldingTypeOK'
  BY <1>1 DEF HoldingInv, HoldingTypeOK, LedgerTypeOK, KzgTypeOK, ledgerVars, balanceVars,
              poolVars, stakeVars, kzgVars, fragmentVars, challengeVars, claimVars
<1> QED BY <1>1, <1>2, ChallengesKept, HoldersKept DEF HoldingInv, kzgVars

(* Bonding, notice and release keep balances and bonds typed.              *)
LEMMA StakeOpsTyped ==
  ASSUME HoldingTypeOK, StakeOps
  PROVE  /\ free' \in [Accounts -> Nat] /\ reserved' \in [Accounts -> Nat] /\ issuance' \in Nat
         /\ bonds' \in [Accounts -> StakeBond \cup {None}] /\ totalActiveBond' \in Nat
<1>1. /\ free \in [Accounts -> Nat] /\ reserved \in [Accounts -> Nat] /\ issuance \in Nat
      /\ bonds \in [Accounts -> StakeBond \cup {None}] /\ totalActiveBond \in Nat
      /\ now \in Nat /\ ExistentialDeposit \in Nat
  BY LedgerAssumption DEF HoldingTypeOK, LedgerTypeOK
<1>2. ASSUME NEW a \in Accounts, NEW capacity \in DeclaredCapacities, Bond(a, capacity)
      PROVE  /\ free' \in [Accounts -> Nat] /\ reserved' \in [Accounts -> Nat]
             /\ issuance' \in Nat /\ bonds' \in [Accounts -> StakeBond \cup {None}]
             /\ totalActiveBond' \in Nat
  <2> DEFINE amount == Price(capacity)
             entry == [amount |-> amount, requested |-> None]
  <2>1. amount \in Nat /\ entry \in StakeBond
    BY PriceNat DEF StakeBond
  <2>2. /\ Reserve(a, amount) /\ bonds' = [bonds EXCEPT ![a] = entry]
        /\ totalActiveBond' = totalActiveBond + amount
    BY <1>2 DEF Bond
  <2> HIDE DEF amount, entry
  <2>3. free[a] - amount \in Nat /\ reserved[a] + amount \in Nat
    BY <1>1, <2>1, <2>2 DEF Reserve
  <2> QED BY <1>1, <2>1, <2>2, <2>3 DEF Reserve
<1>3. ASSUME NEW a \in Accounts, RequestRelease(a)
      PROVE  /\ UNCHANGED <<free, reserved, issuance, totalActiveBond>>
             /\ bonds' \in [Accounts -> StakeBond \cup {None}]
  <2>1. bonds[a] \in StakeBond
    BY <1>1, <1>3 DEF RequestRelease, HasBond
  <2>2. [bonds[a] EXCEPT !.requested = now] \in StakeBond
    BY <1>1, <2>1 DEF StakeBond
  <2> QED BY <1>1, <1>3, <2>2 DEF RequestRelease, balanceVars
<1>4. ASSUME NEW a \in Accounts, FinalizeRelease(a)
      PROVE  /\ free' \in [Accounts -> Nat] /\ reserved' \in [Accounts -> Nat]
             /\ issuance' \in Nat /\ bonds' \in [Accounts -> StakeBond \cup {None}]
             /\ totalActiveBond' \in Nat
  <2> DEFINE amount == bonds[a].amount
  <2>1. amount \in Nat
    BY <1>1, <1>4 DEF FinalizeRelease, HasBond, StakeBond
  <2>2. /\ Unreserve(a, amount) /\ bonds' = [bonds EXCEPT ![a] = None]
        /\ totalActiveBond' = SaturatingSub(totalActiveBond, amount)
    BY <1>4 DEF FinalizeRelease
  <2> HIDE DEF amount
  <2>3. /\ SaturatingSub(reserved[a], amount) \in Nat
        /\ SaturatingSub(totalActiveBond, amount) \in Nat
        /\ free[a] + Least(amount, reserved[a]) \in Nat
    BY <1>1, <2>1 DEF SaturatingSub, Least
  <2> QED BY <1>1, <2>2, <2>3 DEF Unreserve
<1> QED BY <1>1, <1>2, <1>3, <1>4 DEF StakeOps

LEMMA BondingInv == ASSUME HoldingInv, Bonding PROVE HoldingInv'
<1>1. UNCHANGED <<now, poolVars, kzgVars>> /\ StakeOps
  BY DEF Bonding, registryVars
<1>2. HoldingTypeOK'
  BY <1>1, StakeOpsTyped
     DEF HoldingInv, HoldingTypeOK, LedgerTypeOK, KzgTypeOK, poolVars, kzgVars, fragmentVars,
         challengeVars, claimVars
<1> QED BY <1>1, <1>2, ChallengesKept, HoldersKept DEF HoldingInv, kzgVars

(* A step that gives one fragment new holders recomputes its state from    *)
(* them; one that empties or releases it asks nothing of the state.        *)
LEMMA HoldersBecomeFact ==
  ASSUME HoldingInv, NEW c \in Contents, NEW holders \in SUBSET Accounts,
         HoldersBecome(c, holders)
  PROVE  /\ kzgHolders' \in [Contents -> {None} \cup SUBSET Accounts]
         /\ fragmentState' \in [Contents -> {"Active", "AtRisk", "Lost"}]
         /\ StateFollowsHolders'
<1>1. /\ kzgHolders \in [Contents -> {None} \cup SUBSET Accounts]
      /\ fragmentState \in [Contents -> {"Active", "AtRisk", "Lost"}]
  BY DEF HoldingInv, HoldingTypeOK, KzgTypeOK
<1>2. Cardinality(holders) \in Nat
  BY LedgerAssumption, FS_Subset, FS_CardinalityType
<1>3. /\ kzgHolders' = [kzgHolders EXCEPT ![c] = holders]
      /\ fragmentState' = [fragmentState EXCEPT ![c] = StateFor(Cardinality(holders), @)]
  BY DEF HoldersBecome
<1>4. /\ StateFor(Cardinality(holders), fragmentState[c]) \in {"Active", "AtRisk", "Lost"}
      /\ StateFor(Cardinality(holders), fragmentState[c]) = "Active"
           <=> Cardinality(holders) >= ActiveAt
      /\ StateFor(Cardinality(holders), fragmentState[c]) = "Lost"
           <=> Cardinality(holders) < AtRiskAt
  BY <1>2, HoldingAssumption DEF StateFor
<1>5. StateFollowsHolders'
  <2> SUFFICES ASSUME NEW d \in Contents, IsKzg(d)', kzgHolders'[d] # {}
               PROVE  /\ fragmentState'[d] = "Active" <=> Cardinality(kzgHolders'[d]) >= ActiveAt
                      /\ fragmentState'[d] = "Lost" <=> Cardinality(kzgHolders'[d]) < AtRiskAt
    BY DEF StateFollowsHolders
  <2>1. CASE d = c
    BY <1>1, <1>3, <1>4, <2>1
  <2>2. CASE d # c
    BY <1>1, <1>3, <2>2 DEF HoldingInv, StateFollowsHolders, IsKzg
  <2> QED BY <2>1, <2>2
<1> QED BY <1>1, <1>3, <1>4, <1>5

LEMMA StockingInv == ASSUME HoldingInv, Stocking PROVE HoldingInv'
<1>1. UNCHANGED <<now, ledgerVars, stakeVars, challengeVars, records, claimVars>>
  BY DEF Stocking, Others, registryVars
<1>2. /\ kzgHolders' \in [Contents -> {None} \cup SUBSET Accounts]
      /\ fragmentState' \in [Contents -> {"Active", "AtRisk", "Lost"}]
      /\ StateFollowsHolders'
  <2>1. ASSUME NEW c \in Contents, RegisterKzgFragment(c)
        PROVE  /\ kzgHolders' \in [Contents -> {None} \cup SUBSET Accounts]
               /\ fragmentState' \in [Contents -> {"Active", "AtRisk", "Lost"}]
               /\ StateFollowsHolders'
    <3>1. /\ kzgHolders \in [Contents -> {None} \cup SUBSET Accounts]
          /\ fragmentState \in [Contents -> {"Active", "AtRisk", "Lost"}]
      BY DEF HoldingInv, HoldingTypeOK, KzgTypeOK
    <3>2. kzgHolders' = [kzgHolders EXCEPT ![c] = {}] /\ fragmentState' = fragmentState
      BY <2>1 DEF RegisterKzgFragment
    <3>3. StateFollowsHolders'
      BY <3>1, <3>2 DEF HoldingInv, StateFollowsHolders, IsKzg
    <3> QED BY <3>1, <3>2, <3>3
  <2>2. ASSUME NEW c \in Contents, NEW holders \in SUBSET Accounts, StockFragment(c, holders)
        PROVE  /\ kzgHolders' \in [Contents -> {None} \cup SUBSET Accounts]
               /\ fragmentState' \in [Contents -> {"Active", "AtRisk", "Lost"}]
               /\ StateFollowsHolders'
    BY <2>2, HoldersBecomeFact DEF StockFragment
  <2> QED BY <2>1, <2>2 DEF Stocking
<1>3. HoldingTypeOK'
  BY <1>1, <1>2
     DEF HoldingInv, HoldingTypeOK, LedgerTypeOK, KzgTypeOK, ledgerVars, balanceVars, poolVars,
         stakeVars, challengeVars, claimVars
<1> QED BY <1>1, <1>2, <1>3, ChallengesKept DEF HoldingInv

(* Adding to a list keeps what is in it.                                   *)
LEMMA ToSetAppend ==
  ASSUME NEW S, NEW s \in Seq(S), NEW x \in S
  PROVE  ToSet(s) \subseteq ToSet(Append(s, x)) /\ x \in ToSet(Append(s, x))
<1> DEFINE n == Len(s)
           t == Append(s, x)
<1>1. /\ n \in Nat /\ DOMAIN s = 1..n /\ DOMAIN t = 1..n + 1
      /\ \A i \in 1..n : t[i] = s[i]
      /\ t[n + 1] = x
  OBVIOUS
<1> HIDE DEF n, t
<1>2. 1..n \subseteq 1..n + 1 /\ n + 1 \in 1..n + 1
  BY <1>1
<1>3. ToSet(s) \subseteq ToSet(t)
  BY <1>1, <1>2 DEF ToSet
<1>4. x \in ToSet(t)
  BY <1>1, <1>2 DEF ToSet
<1> QED BY <1>3, <1>4 DEF t

(* A new challenge goes to the end of the list of its deadline.            *)
LEMMA ChallengesInv == ASSUME HoldingInv, Challenges PROVE HoldingInv'
<1>1. PICK issuer \in Accounts, node \in Accounts, c \in Contents, share \in Shares :
        IssueChallenge(issuer, c, node, share)
  BY DEF Challenges
<1>2. UNCHANGED <<now, ledgerVars, stakeVars>>
  BY DEF Challenges, Others, registryVars
<1> DEFINE e == <<c, share>>
           challenge == [node |-> node, deadline |-> DueBlock]
<1>3. /\ DueBlock \in DOMAIN dueAt
      /\ pending' = [pending EXCEPT ![e] = challenge]
      /\ dueAt' = [dueAt EXCEPT ![DueBlock] = Append(@, e)]
      /\ UNCHANGED <<fragmentVars, records, claimVars>>
  BY <1>1 DEF IssueChallenge, DueBlock
<1>4. /\ now \in Nat /\ ChallengeWindow \in Nat
      /\ pending \in [Contents \X Shares -> Challenge \cup {None}]
      /\ dueAt \in [1..MaxBlock + ChallengeWindow -> Seq(Contents \X Shares)]
  BY HoldingAssumption, ChainAssumption DEF HoldingInv, HoldingTypeOK, KzgTypeOK
<1>5. e \in Contents \X Shares /\ DueBlock \in Nat /\ challenge \in Challenge
  BY <1>4 DEF DueBlock, Challenge
<1>6. challenge # None /\ challenge.deadline = DueBlock
  BY <1>5, HoldingNoneFact
<1> HIDE DEF e, challenge
<1>7. /\ pending' \in [Contents \X Shares -> Challenge \cup {None}]
      /\ dueAt' \in [1..MaxBlock + ChallengeWindow -> Seq(Contents \X Shares)]
  BY <1>3, <1>4, <1>5
<1>8. HoldingTypeOK'
  BY <1>2, <1>3, <1>7
     DEF HoldingInv, HoldingTypeOK, LedgerTypeOK, KzgTypeOK, ledgerVars, balanceVars, poolVars,
         stakeVars, fragmentVars, claimVars
<1>9. \A d \in DOMAIN dueAt : ToSet(dueAt[d]) \subseteq ToSet(dueAt'[d])
  <2> SUFFICES ASSUME NEW d \in DOMAIN dueAt PROVE ToSet(dueAt[d]) \subseteq ToSet(dueAt'[d])
    OBVIOUS
  <2>1. dueAt[d] \in Seq(Contents \X Shares)
    BY <1>4
  <2>2. CASE d = DueBlock
    <3>1. dueAt'[d] = Append(dueAt[d], e)
      BY <1>3, <1>4, <2>2
    <3> QED BY <1>5, <2>1, <3>1, ToSetAppend
  <2>3. CASE d # DueBlock
    BY <1>3, <1>4, <2>3 DEF ToSet
  <2> QED BY <2>2, <2>3
<1>10. e \in ToSet(dueAt'[DueBlock])
  <2>1. dueAt[DueBlock] \in Seq(Contents \X Shares)
    BY <1>3, <1>4
  <2>2. dueAt'[DueBlock] = Append(dueAt[DueBlock], e)
    BY <1>3, <1>4
  <2> QED BY <1>5, <2>1, <2>2, ToSetAppend
<1>11. ASSUME NEW o \in Contents \X Shares, pending'[o] # None
       PROVE  /\ pending'[o].deadline \in DOMAIN dueAt'
              /\ pending'[o].deadline >= now
              /\ o \in ToSet(dueAt'[pending'[o].deadline])
  <2>1. DOMAIN dueAt' = DOMAIN dueAt
    BY <1>4, <1>7
  <2>2. CASE o = e
    BY <1>3, <1>4, <1>5, <1>6, <1>10, <2>1, <2>2 DEF DueBlock
  <2>3. CASE o # e
    <3>1. pending'[o] = pending[o]
      BY <1>3, <1>4, <2>3
    <3>2. /\ pending[o].deadline \in DOMAIN dueAt /\ pending[o].deadline >= now
          /\ o \in ToSet(dueAt[pending[o].deadline])
      BY <1>11, <3>1 DEF HoldingInv, DeadlinesListed, EveryChallengeResolves
    <3> QED BY <1>9, <2>1, <3>1, <3>2
  <2> QED BY <2>2, <2>3
<1>12. DeadlinesListed' /\ EveryChallengeResolves'
  BY <1>2, <1>11 DEF DeadlinesListed, EveryChallengeResolves
<1> QED BY <1>3, <1>8, <1>12, HoldersKept DEF HoldingInv

(* A challenge that is answered or runs out is no longer pending.          *)
LEMMA FewerChallenges ==
  ASSUME HoldingInv, now' = now, dueAt' = dueAt,
         \A e \in Contents \X Shares : pending'[e] # None => pending'[e] = pending[e]
  PROVE  DeadlinesListed' /\ EveryChallengeResolves'
BY DEF HoldingInv, DeadlinesListed, EveryChallengeResolves

LEMMA ProofsInv == ASSUME HoldingInv, Proofs PROVE HoldingInv'
<1>1. PICK a \in Accounts, c \in Contents, share \in Shares : ProveHolding(a, c, share)
  BY DEF Proofs
<1>2. UNCHANGED <<now, ledgerVars, stakeVars>>
  BY DEF Proofs, Others, registryVars
<1> DEFINE e == <<c, share>>
           r == <<c, a>>
           record == [records[r] EXCEPT !.lastProved = now, !.failures = 0]
           reward == Reward(a)
<1>3. /\ records' = [records EXCEPT ![r] = record]
      /\ pendingRewards' = [pendingRewards EXCEPT ![a] = @ + reward]
      /\ pending' = [pending EXCEPT ![e] = None]
      /\ UNCHANGED <<fragmentVars, dueAt, repairPools>>
  BY <1>1 DEF ProveHolding
<1>4. /\ pending \in [Contents \X Shares -> Challenge \cup {None}]
      /\ records \in [Contents \X Accounts -> ProofRecord]
      /\ pendingRewards \in [Accounts -> Nat] /\ now \in Nat
      /\ e \in Contents \X Shares /\ r \in Contents \X Accounts
  BY ChainAssumption DEF HoldingInv, HoldingTypeOK, KzgTypeOK
<1>5. reward \in Nat
  BY RewardNat DEF HoldingInv
<1>6. record \in ProofRecord
  <2>1. records[r] \in ProofRecord
    BY <1>4
  <2> QED BY <1>4, <2>1 DEF ProofRecord
<1> HIDE DEF e, r, record, reward
<1>7. /\ pending' \in [Contents \X Shares -> Challenge \cup {None}]
      /\ records' \in [Contents \X Accounts -> ProofRecord]
      /\ pendingRewards' \in [Accounts -> Nat]
  BY <1>3, <1>4, <1>5, <1>6
<1>8. HoldingTypeOK'
  BY <1>2, <1>3, <1>7
     DEF HoldingInv, HoldingTypeOK, LedgerTypeOK, KzgTypeOK, ledgerVars, balanceVars, poolVars,
         stakeVars, fragmentVars
<1>9. \A o \in Contents \X Shares : pending'[o] # None => pending'[o] = pending[o]
  BY <1>3, <1>4
<1> QED BY <1>2, <1>3, <1>8, <1>9, FewerChallenges, HoldersKept DEF HoldingInv

(* A claim takes no more than is due and no more than the pool has.        *)
LEMMA WithdrawalFact ==
  ASSUME HoldingTypeOK, NEW a \in Accounts, ClaimReward(a)
  PROVE  LET paid == PoolShare(pendingRewards[a])
         IN /\ paid \in Nat /\ paid <= pendingRewards[a] /\ paid <= storagePool
            /\ storagePool' = storagePool - paid
            /\ pendingRewards' = [pendingRewards EXCEPT ![a] = @ - paid]
            /\ repairPools' = repairPools
            /\ free' = [free EXCEPT ![a] = @ + paid]
            /\ reserved' = reserved /\ issuance' = issuance + paid
<1>1. /\ storagePool \in Nat /\ pendingRewards \in [Accounts -> Nat]
  BY DEF HoldingTypeOK, LedgerTypeOK, KzgTypeOK
<1>2. /\ PoolShare(pendingRewards[a]) \in Nat
      /\ PoolShare(pendingRewards[a]) <= pendingRewards[a]
      /\ PoolShare(pendingRewards[a]) <= storagePool
  BY <1>1 DEF PoolShare, Least
<1> QED BY <1>1, <1>2 DEF ClaimReward, PayFromStoragePool, Mint

LEMMA WithdrawalsInv == ASSUME HoldingInv, Withdrawals PROVE HoldingInv'
<1>1. PICK a \in Accounts : ClaimReward(a)
  BY DEF Withdrawals
<1>2. /\ UNCHANGED <<now, reactionPool, stakeVars>>
      /\ UNCHANGED <<fragmentVars, challengeVars, records, repairPools>>
  BY <1>1 DEF Withdrawals, registryVars, ClaimReward
<1> DEFINE paid == PoolShare(pendingRewards[a])
<1>3. /\ paid \in Nat /\ paid <= pendingRewards[a] /\ paid <= storagePool
      /\ storagePool' = storagePool - paid
      /\ pendingRewards' = [pendingRewards EXCEPT ![a] = @ - paid]
      /\ free' = [free EXCEPT ![a] = @ + paid]
      /\ reserved' = reserved /\ issuance' = issuance + paid
  BY <1>1, WithdrawalFact DEF HoldingInv
<1> HIDE DEF paid
<1>4. LedgerTypeOK'
  BY <1>2, <1>3 DEF HoldingInv, HoldingTypeOK, LedgerTypeOK
<1>5. pendingRewards' \in [Accounts -> Nat]
  BY <1>3 DEF HoldingInv, HoldingTypeOK, KzgTypeOK
<1>6. HoldingTypeOK'
  BY <1>2, <1>4, <1>5
     DEF HoldingInv, HoldingTypeOK, KzgTypeOK, stakeVars, fragmentVars, challengeVars
<1> QED BY <1>2, <1>6, ChallengesKept, HoldersKept DEF HoldingInv

LEMMA RepairsInv == ASSUME HoldingInv, Repairs PROVE HoldingInv'
<1>1. UNCHANGED <<now, ledgerVars, stakeVars, challengeVars>>
  BY DEF Repairs, Others, registryVars, ConfirmRepair, EvictStaleHolder
<1>2. /\ kzgHolders \in [Contents -> {None} \cup SUBSET Accounts]
      /\ records \in [Contents \X Accounts -> ProofRecord]
      /\ pendingRewards \in [Accounts -> Nat] /\ repairPools \in [Contents -> Nat]
      /\ now \in Nat
  BY ChainAssumption DEF HoldingInv, HoldingTypeOK, KzgTypeOK
<1>3. ASSUME NEW a \in Accounts, NEW c \in Contents, NEW share \in RepairShares,
             ConfirmRepair(a, c, share)
      PROVE  /\ kzgHolders' \in [Contents -> {None} \cup SUBSET Accounts]
             /\ fragmentState' \in [Contents -> {"Active", "AtRisk", "Lost"}]
             /\ StateFollowsHolders'
             /\ records' \in [Contents \X Accounts -> ProofRecord]
             /\ pendingRewards' \in [Accounts -> Nat] /\ repairPools' \in [Contents -> Nat]
  <2> DEFINE holders == kzgHolders[c] \cup {a}
             record == [NoRecord EXCEPT !.lastProved = now, !.share = share]
             r == <<c, a>>
  <2>1. /\ HoldersBecome(c, holders)
        /\ records' = [records EXCEPT ![r] = record]
        /\ pendingRewards' = [pendingRewards EXCEPT ![a] = @ + repairPools[c]]
        /\ repairPools' = [repairPools EXCEPT ![c] = 0]
    BY <1>3 DEF ConfirmRepair, PoolTaken
  <2>2. holders \in SUBSET Accounts /\ r \in Contents \X Accounts
    BY <1>2, <1>3 DEF ConfirmRepair, IsKzg
  <2>3. record \in ProofRecord
    BY <1>2, HoldingAssumption DEF NoRecord, ProofRecord
  <2> HIDE DEF holders, record, r
  <2>4. /\ records' \in [Contents \X Accounts -> ProofRecord]
        /\ pendingRewards' \in [Accounts -> Nat] /\ repairPools' \in [Contents -> Nat]
    BY <1>2, <2>1, <2>2, <2>3
  <2> QED BY <2>1, <2>2, <2>4, HoldersBecomeFact
<1>4. ASSUME NEW a \in Accounts, NEW c \in Contents, EvictStaleHolder(c, a)
      PROVE  /\ kzgHolders' \in [Contents -> {None} \cup SUBSET Accounts]
             /\ fragmentState' \in [Contents -> {"Active", "AtRisk", "Lost"}]
             /\ StateFollowsHolders'
             /\ records' \in [Contents \X Accounts -> ProofRecord]
             /\ pendingRewards' \in [Accounts -> Nat] /\ repairPools' \in [Contents -> Nat]
  <2> DEFINE holders == kzgHolders[c] \ {a}
             r == <<c, a>>
  <2>1. /\ HoldersBecome(c, holders)
        /\ records' = [records EXCEPT ![r] = NoRecord]
        /\ UNCHANGED <<pendingRewards, repairPools>>
    BY <1>4 DEF EvictStaleHolder, claimVars
  <2>2. holders \in SUBSET Accounts /\ NoRecord \in ProofRecord
    BY <1>2, <1>4 DEF EvictStaleHolder, IsKzg, NoRecord, ProofRecord
  <2> HIDE DEF holders, r
  <2>3. records' \in [Contents \X Accounts -> ProofRecord]
    BY <1>2, <2>1, <2>2
  <2> QED BY <1>2, <2>1, <2>2, <2>3, HoldersBecomeFact
<1>5. /\ kzgHolders' \in [Contents -> {None} \cup SUBSET Accounts]
      /\ fragmentState' \in [Contents -> {"Active", "AtRisk", "Lost"}]
      /\ StateFollowsHolders'
      /\ records' \in [Contents \X Accounts -> ProofRecord]
      /\ pendingRewards' \in [Accounts -> Nat] /\ repairPools' \in [Contents -> Nat]
  BY <1>3, <1>4 DEF Repairs
<1>6. HoldingTypeOK'
  BY <1>1, <1>5
     DEF HoldingInv, HoldingTypeOK, LedgerTypeOK, KzgTypeOK, ledgerVars, balanceVars, poolVars,
         stakeVars, challengeVars
<1> QED BY <1>1, <1>5, <1>6, ChallengesKept DEF HoldingInv

LEMMA ReleasesInv == ASSUME HoldingInv, Releases PROVE HoldingInv'
<1>1. PICK c \in Contents : ReleaseKzg(c)
  BY DEF Releases
<1>2. UNCHANGED <<now, ledgerVars, stakeVars, challengeVars, claimVars>>
  BY <1>1 DEF Releases, ReleaseKzg
<1>3. /\ kzgHolders \in [Contents -> {None} \cup SUBSET Accounts]
      /\ fragmentState \in [Contents -> {"Active", "AtRisk", "Lost"}]
      /\ records \in [Contents \X Accounts -> ProofRecord]
      /\ NoRecord \in ProofRecord
  BY DEF HoldingInv, HoldingTypeOK, KzgTypeOK, NoRecord, ProofRecord
<1>4. /\ kzgHolders' \in [Contents -> {None} \cup SUBSET Accounts]
      /\ fragmentState' \in [Contents -> {"Active", "AtRisk", "Lost"}]
      /\ records' \in [Contents \X Accounts -> ProofRecord]
  BY <1>1, <1>3 DEF ReleaseKzg
<1>5. StateFollowsHolders'
  BY <1>1, <1>3 DEF ReleaseKzg, HoldingInv, StateFollowsHolders, IsKzg
<1>6. HoldingTypeOK'
  BY <1>2, <1>4
     DEF HoldingInv, HoldingTypeOK, LedgerTypeOK, KzgTypeOK, ledgerVars, balanceVars, poolVars,
         stakeVars, challengeVars, claimVars
<1> QED BY <1>2, <1>5, <1>6, ChallengesKept DEF HoldingInv

----------------------------------------------------------------------------
(* The end of a block.  The listed challenges expire one after the other   *)
(* on a record of the state.                                               *)

StakeRecords ==
  [free : [Accounts -> Nat], reserved : [Accounts -> Nat], issuance : Nat,
   bonds : [Accounts -> StakeBond \cup {None}], total : Nat]

ExpiryStates ==
  [pending : [Contents \X Shares -> Challenge \cup {None}],
   records : [Contents \X Accounts -> ProofRecord],
   stake : StakeRecords,
   rewards : [Accounts -> Nat],
   pools : [Contents -> Nat]]

OwedIn(s) == SumFunctionOnSet(s.rewards, Accounts) + SumFunctionOnSet(s.pools, Contents)

(* The chain of states that AfterAll walks exists, and it ends where       *)
(* AfterAll says.                                                          *)
Walks(f, s, due) ==
  f = [i \in 0..Len(due) |-> IF i = 0 THEN s ELSE AfterExpiry(f[i - 1], due[i])]

LEMMA WalkExists ==
  ASSUME NEW s, NEW S, NEW due \in Seq(S)
  PROVE  \E f : Walks(f, s, due) /\ AfterAll(s, due) = f[Len(due)]
<1> DEFINE n == Len(due)
           Next(f, i) == IF i = 0 THEN s ELSE AfterExpiry(f[i - 1], due[i])
           UpTo(f, k) == \A i \in 0..n : i <= k => f[i] = Next(f, i)
           T == {k \in Nat : \E f : UpTo(f, k)}
<1>0. n \in Nat
  OBVIOUS
<1> HIDE DEF n
<1>1. 0 \in T
  <2>1. UpTo([i \in 0..n |-> s], 0)
    BY <1>0
  <2> HIDE DEF UpTo
  <2> QED BY <2>1
<1>2. ASSUME NEW k \in Nat, k \in T PROVE k + 1 \in T
  <2>1. PICK f : UpTo(f, k)
    BY <1>2
  <2> DEFINE longer == [i \in 0..n |-> Next(f, i)]
  <2>2. \A i \in 0..n : i <= k => longer[i] = f[i]
    BY <2>1
  <2>3. ASSUME NEW i \in 0..n, i <= k + 1 PROVE longer[i] = Next(longer, i)
    <3>1. CASE i = 0
      BY <3>1
    <3>2. CASE i # 0
      <4>1. i - 1 \in 0..n /\ i - 1 <= k
        BY <1>0, <2>3, <3>2
      <4>2. longer[i - 1] = f[i - 1]
        BY <2>2, <4>1
      <4> QED BY <3>2, <4>2
    <3> QED BY <3>1, <3>2
  <2>4. UpTo(longer, k + 1)
    BY <2>3
  <2> HIDE DEF UpTo, longer
  <2> QED BY <2>4
<1> HIDE DEF T
<1>3. n \in T
  BY <1>0, <1>1, <1>2, NumbersReached
<1>4. PICK f : UpTo(f, n)
  BY <1>3 DEF T
<1> DEFINE walk == [i \in 0..n |-> f[i]]
<1>5. \A i \in 0..n : walk[i] = Next(walk, i)
  <2> SUFFICES ASSUME NEW i \in 0..n PROVE f[i] = Next(walk, i)
    OBVIOUS
  <2>1. f[i] = Next(f, i)
    BY <1>0, <1>4
  <2>2. i # 0 => i - 1 \in 0..n
    BY <1>0
  <2> QED BY <2>1, <2>2
<1>6. Walks(walk, s, due)
  BY <1>5 DEF Walks, n
<1>7. AfterAll(s, due) = (CHOOSE g : Walks(g, s, due))[Len(due)]
  BY DEF AfterAll, Walks
<1> QED BY <1>6, <1>7

AmountIn(s, a) == IF s.bonds[a] = None THEN 0 ELSE s.bonds[a].amount

LEMMA AfterSlashFact ==
  ASSUME NEW s \in StakeRecords, NEW a \in Accounts, NEW x \in Nat
  PROVE  /\ AfterSlash(s, a, x) \in StakeRecords
         /\ \A b \in Accounts \ {a} : AfterSlash(s, a, x).bonds[b] = s.bonds[b]
         /\ AmountIn(AfterSlash(s, a, x), a) = AmountIn(s, a) - Least(AmountIn(s, a), x)
<1> DEFINE amount == IF s.bonds[a] = None THEN 0 ELSE s.bonds[a].amount
           cut == Least(amount, x)
           burnt == Least(PartOf(BurnShare, cut), s.reserved[a])
           back == Least(Returned(cut), s.reserved[a] - burnt)
           left == IF cut = amount THEN None ELSE [s.bonds[a] EXCEPT !.amount = amount - cut]
<1>1. /\ s.free \in [Accounts -> Nat] /\ s.reserved \in [Accounts -> Nat] /\ s.issuance \in Nat
      /\ s.bonds \in [Accounts -> StakeBond \cup {None}] /\ s.total \in Nat
  BY DEF StakeRecords
<1>2. amount \in Nat
  BY <1>1 DEF StakeBond
<1>3. cut \in Nat /\ cut <= amount
  BY <1>2 DEF Least
<1>4. PartOf(BurnShare, cut) \in Nat /\ Returned(cut) \in Nat
  BY <1>3, BurntFact DEF Returned
<1>5. left \in StakeBond \cup {None}
  BY <1>1, <1>2, <1>3 DEF StakeBond
<1>6. /\ burnt \in Nat /\ back \in Nat /\ s.reserved[a] - burnt - back \in Nat
      /\ s.free[a] + back \in Nat
  BY <1>1, <1>4 DEF Least
<1>7. AfterSlash(s, a, x) =
        IF cut = 0 THEN s
        ELSE [s EXCEPT !.reserved[a] = @ - burnt - back,
                       !.free[a] = @ + back,
                       !.issuance = SaturatingSub(@, burnt),
                       !.bonds[a] = IF cut = amount THEN None
                                    ELSE [@ EXCEPT !.amount = amount - cut],
                       !.total = SaturatingSub(@, cut)]
  BY DEF AfterSlash, Uncounted
<1> HIDE DEF amount, cut, burnt, back
<1>8. ASSUME cut # 0
      PROVE  AfterSlash(s, a, x) =
               [free |-> [s.free EXCEPT ![a] = @ + back],
                reserved |-> [s.reserved EXCEPT ![a] = @ - burnt - back],
                issuance |-> SaturatingSub(s.issuance, burnt),
                bonds |-> [s.bonds EXCEPT ![a] = left],
                total |-> SaturatingSub(s.total, cut)]
  BY <1>7, <1>8 DEF StakeRecords
<1>9. SaturatingSub(s.issuance, burnt) \in Nat /\ SaturatingSub(s.total, cut) \in Nat
  BY <1>1, <1>3, <1>6 DEF SaturatingSub
<1> HIDE DEF left
<1>10. ASSUME cut # 0
       PROVE  /\ AfterSlash(s, a, x) \in StakeRecords
              /\ \A b \in Accounts \ {a} : AfterSlash(s, a, x).bonds[b] = s.bonds[b]
  <2>1. /\ [s.free EXCEPT ![a] = @ + back] \in [Accounts -> Nat]
        /\ [s.reserved EXCEPT ![a] = @ - burnt - back] \in [Accounts -> Nat]
        /\ [s.bonds EXCEPT ![a] = left] \in [Accounts -> StakeBond \cup {None}]
    BY <1>1, <1>5, <1>6
  <2> QED BY <1>1, <1>8, <1>9, <1>10, <2>1 DEF StakeRecords
<1>11. AmountIn(s, a) = amount /\ Least(AmountIn(s, a), x) = cut
  BY DEF AmountIn, amount, cut
<1>12. ASSUME cut = 0 PROVE AmountIn(AfterSlash(s, a, x), a) = amount - cut
  BY <1>2, <1>7, <1>11, <1>12
<1>13. ASSUME cut # 0 PROVE AmountIn(AfterSlash(s, a, x), a) = amount - cut
  <2>1. AfterSlash(s, a, x).bonds[a] = left
    BY <1>1, <1>8, <1>13
  <2>2. CASE cut = amount
    BY <1>2, <2>1, <2>2 DEF left, AmountIn
  <2>3. CASE cut # amount
    <3>1. s.bonds[a] \in StakeBond
      BY <1>1, <1>3, <1>13 DEF amount
    <3>2. left \in StakeBond /\ left.amount = amount - cut
      BY <1>2, <1>3, <2>3, <3>1 DEF left, StakeBond
    <3> QED BY <2>1, <3>2, HoldingNoneFact DEF AmountIn
  <2> QED BY <2>2, <2>3
<1> QED BY <1>7, <1>10, <1>11, <1>12, <1>13

(* Slash after slash: the recursion of BondAfterSlashes can be unfolded.    *)
BondChain(f, bond, n) ==
  \A k \in 0..n : f[k] = IF k = 0 THEN bond ELSE f[k - 1] - PartOf(SlashRate, f[k - 1])

LEMMA BondChainExists ==
  ASSUME NEW bond \in Nat, NEW n \in Nat PROVE \E f : BondChain(f, bond, n)
<1> DEFINE T == {k \in Nat : \E f : BondChain(f, bond, k)}
<1>1. 0 \in T
  <2>1. BondChain([k \in 0..0 |-> bond], bond, 0)
    BY DEF BondChain
  <2> QED BY <2>1
<1>2. ASSUME NEW m \in Nat, m \in T PROVE m + 1 \in T
  <2>1. PICK f : BondChain(f, bond, m)
    BY <1>2
  <2> DEFINE longer == [k \in 0..m + 1 |-> IF k = 0 THEN bond
                                            ELSE f[k - 1] - PartOf(SlashRate, f[k - 1])]
  <2>2. \A k \in 0..m : longer[k] = f[k]
    BY <2>1 DEF BondChain
  <2>3. ASSUME NEW k \in 0..m + 1
        PROVE  longer[k] = IF k = 0 THEN bond
                           ELSE longer[k - 1] - PartOf(SlashRate, longer[k - 1])
    <3>1. CASE k = 0
      BY <3>1
    <3>2. CASE k # 0
      <4>1. k - 1 \in 0..m
        BY <3>2
      <4>2. longer[k - 1] = f[k - 1]
        BY <2>2, <4>1
      <4> QED BY <3>2, <4>2
    <3> QED BY <3>1, <3>2
  <2>4. BondChain(longer, bond, m + 1)
    <3> HIDE DEF longer
    <3> QED BY <2>3 DEF BondChain
  <2> QED BY <2>4
<1> HIDE DEF T
<1>3. n \in T
  BY <1>1, <1>2, NumbersReached
<1> QED BY <1>3 DEF T

LEMMA BondChainsAgree ==
  ASSUME NEW bond \in Nat, NEW n \in Nat, NEW f, NEW g,
         BondChain(f, bond, n), BondChain(g, bond, n + 1)
  PROVE  f[n] = g[n]
<1> DEFINE T == {k \in Nat : k <= n => f[k] = g[k]}
<1>1. 0 \in T
  BY DEF BondChain
<1>2. ASSUME NEW k \in Nat, k \in T PROVE k + 1 \in T
  <2> SUFFICES ASSUME k + 1 <= n PROVE f[k + 1] = g[k + 1]
    OBVIOUS
  <2>1. k + 1 \in 0..n /\ k + 1 \in 0..n + 1 /\ k + 1 # 0 /\ (k + 1) - 1 = k /\ f[k] = g[k]
    BY <1>2
  <2> QED BY <2>1 DEF BondChain
<1> HIDE DEF T
<1>3. n \in T
  BY <1>1, <1>2, NumbersReached
<1> QED BY <1>3 DEF T

LEMMA BondAfterSlashesFact ==
  ASSUME NEW bond \in Nat
  PROVE  /\ BondAfterSlashes(bond, 0) = bond
         /\ \A n \in Nat : BondAfterSlashes(bond, n + 1)
              = BondAfterSlashes(bond, n) - PartOf(SlashRate, BondAfterSlashes(bond, n))
<1> DEFINE Chain(n) == CHOOSE f : BondChain(f, bond, n)
           w == [n \in Nat |-> Chain(n)[n]]
           Unfolds(f) == f = [k \in Nat |-> IF k = 0 THEN bond
                                            ELSE f[k - 1] - PartOf(SlashRate, f[k - 1])]
<1>1. \A n \in Nat : BondChain(Chain(n), bond, n)
  BY BondChainExists
<1> HIDE DEF Chain
<1>2. ASSUME NEW k \in Nat
      PROVE  w[k] = IF k = 0 THEN bond ELSE w[k - 1] - PartOf(SlashRate, w[k - 1])
  <2>1. CASE k = 0
    <3>1. BondChain(Chain(0), bond, 0)
      BY <1>1
    <3> QED BY <2>1, <3>1 DEF BondChain
  <2>2. CASE k # 0
    <3>1. k - 1 \in Nat /\ (k - 1) + 1 = k /\ k \in 0..k
      BY <2>2
    <3>2. BondChain(Chain(k - 1), bond, k - 1) /\ BondChain(Chain(k), bond, k)
      BY <1>1, <3>1
    <3>3. Chain(k - 1)[k - 1] = Chain(k)[k - 1]
      BY <3>1, <3>2, BondChainsAgree
    <3>4. Chain(k)[k] = Chain(k)[k - 1] - PartOf(SlashRate, Chain(k)[k - 1])
      BY <2>2, <3>1, <3>2 DEF BondChain
    <3> QED BY <2>2, <3>1, <3>3, <3>4
  <2> QED BY <2>1, <2>2
<1>3. Unfolds(w)
  <2> DEFINE rest == [k \in Nat |-> IF k = 0 THEN bond
                                    ELSE w[k - 1] - PartOf(SlashRate, w[k - 1])]
  <2>1. \A k \in Nat : w[k] = rest[k]
    BY <1>2
  <2>2. w = rest
    BY <2>1
  <2> QED BY <2>2
<1> DEFINE left == CHOOSE f : Unfolds(f)
<1>4. Unfolds(left)
  BY <1>3
<1>5. \A n : BondAfterSlashes(bond, n) = left[n]
  BY DEF BondAfterSlashes
<1> HIDE DEF left
<1>6. left[0] = bond /\ \A n \in Nat : left[n + 1] = left[n] - PartOf(SlashRate, left[n])
  <2> DEFINE rest == [k \in Nat |-> IF k = 0 THEN bond
                                    ELSE left[k - 1] - PartOf(SlashRate, left[k - 1])]
  <2>1. left = rest
    BY <1>4
  <2>2. rest[0] = bond
    OBVIOUS
  <2>3. ASSUME NEW n \in Nat PROVE rest[n + 1] = left[n] - PartOf(SlashRate, left[n])
    <3>1. n + 1 \in Nat /\ n + 1 # 0 /\ (n + 1) - 1 = n
      OBVIOUS
    <3> QED BY <3>1
  <2> HIDE DEF rest
  <2> QED BY <2>1, <2>2, <2>3
<1> QED BY <1>5, <1>6

(* One expired challenge: it is gone, what its holder loses to the repair  *)
(* pool is not lost, and only a first slash for the content touches a bond.*)
Untouched(s, t, a) ==
  /\ AmountIn(t.stake, a) = AmountIn(s.stake, a)
  /\ \A c \in Contents : t.records[<<c, a>>].slashed = s.records[<<c, a>>].slashed

SlashedFor(s, t, a, e) ==
  /\ s.pending[e] # None /\ s.pending[e].node = a
  /\ ~s.records[<<e[1], a>>].slashed /\ t.records[<<e[1], a>>].slashed
  /\ \A c \in Contents \ {e[1]} :
       t.records[<<c, a>>].slashed = s.records[<<c, a>>].slashed
  /\ AmountIn(t.stake, a) = AmountIn(s.stake, a) - PartOf(SlashRate, AmountIn(s.stake, a))

ExpiresTo(s, t, e) ==
  /\ t \in ExpiryStates
  /\ t.pending = [s.pending EXCEPT ![e] = None]
  /\ OwedIn(t) = OwedIn(s)
  /\ \A r \in Contents \X Accounts : s.records[r].slashed => t.records[r].slashed
  /\ \A a \in Accounts : Untouched(s, t, a) \/ SlashedFor(s, t, a, e)

LEMMA ExpiryStep ==
  ASSUME NEW s \in ExpiryStates, NEW e \in Contents \X Shares
  PROVE  ExpiresTo(s, AfterExpiry(s, e), e)
<1>1. /\ s.pending \in [Contents \X Shares -> Challenge \cup {None}]
      /\ s.records \in [Contents \X Accounts -> ProofRecord]
      /\ s.stake \in StakeRecords
      /\ s.rewards \in [Accounts -> Nat] /\ s.pools \in [Contents -> Nat]
  BY DEF ExpiryStates
<1>2. CASE s.pending[e] = None
  <2>1. AfterExpiry(s, e) = s
    BY <1>2 DEF AfterExpiry
  <2>2. [s.pending EXCEPT ![e] = None] = s.pending
    BY <1>1, <1>2
  <2> QED BY <2>1, <2>2 DEF ExpiresTo, Untouched
<1>3. CASE s.pending[e] # None
  <2> DEFINE a == s.pending[e].node
             c == e[1]
             r == <<c, a>>
             record == [s.records[r] EXCEPT !.failures = @ + 1]
             failed == [s EXCEPT !.pending[e] = None, !.records[r].failures = @ + 1]
  <2>1. a \in Accounts /\ c \in Contents /\ r \in Contents \X Accounts
    BY <1>1, <1>3 DEF Challenge
  <2>2. s.records[r] \in ProofRecord
    BY <1>1, <2>1
  <2>3. record \in ProofRecord /\ record.slashed = s.records[r].slashed
    BY <2>2 DEF ProofRecord
  <2>4. failed = [pending |-> [s.pending EXCEPT ![e] = None],
                  records |-> [s.records EXCEPT ![r] = record],
                  stake |-> s.stake, rewards |-> s.rewards, pools |-> s.pools]
    <3>1. s = [pending |-> s.pending, records |-> s.records, stake |-> s.stake,
               rewards |-> s.rewards, pools |-> s.pools]
      BY DEF ExpiryStates
    <3>2. failed = [s EXCEPT !.pending = [s.pending EXCEPT ![e] = None],
                             !.records = [s.records EXCEPT ![r] = record]]
      BY <3>1
    <3> HIDE DEF failed, record
    <3> QED BY <3>1, <3>2
  <2>5. AfterExpiry(s, e) = IF Slashes(failed.records[r])
                            THEN AfterSlashNode(failed, a, c) ELSE failed
    BY <1>3 DEF AfterExpiry
  <2> HIDE DEF record, failed, r
  <2>6. /\ failed \in ExpiryStates
        /\ failed.pending = [s.pending EXCEPT ![e] = None]
        /\ failed.stake = s.stake /\ failed.rewards = s.rewards /\ failed.pools = s.pools
        /\ failed.records = [s.records EXCEPT ![r] = record]
    <3>1. /\ [s.pending EXCEPT ![e] = None] \in [Contents \X Shares -> Challenge \cup {None}]
          /\ [s.records EXCEPT ![r] = record] \in [Contents \X Accounts -> ProofRecord]
      BY <1>1, <2>1, <2>3
    <3> QED BY <1>1, <2>4, <3>1 DEF ExpiryStates
  <2>7. /\ failed.records[r].slashed = s.records[r].slashed
        /\ \A q \in Contents \X Accounts : failed.records[q].slashed = s.records[q].slashed
    BY <1>1, <2>1, <2>3, <2>6
  <2>8. CASE ~Slashes(failed.records[r])
    <3>1. AfterExpiry(s, e) = failed
      BY <2>5, <2>8
    <3>2. \A b \in Accounts : Untouched(s, failed, b)
      BY <2>6, <2>7 DEF Untouched
    <3> QED BY <2>6, <2>7, <3>1, <3>2 DEF ExpiresTo, OwedIn
  <2>9. CASE Slashes(failed.records[r])
    <3> DEFINE penalty == s.rewards[a] \div 2
               bond == AmountIn(s.stake, a)
               x == PartOf(SlashRate, bond)
               stake == AfterSlash(s.stake, a, x)
               slashed == [failed.records[r] EXCEPT !.slashed = TRUE]
               after == AfterSlashNode(failed, a, c)
    <3>1. penalty \in Nat /\ penalty <= s.rewards[a]
      BY <1>1, <2>1
    <3>2. x \in Nat /\ x <= bond /\ bond \in Nat
      <4>1. bond \in Nat
        BY <1>1, <2>1 DEF StakeRecords, StakeBond, AmountIn
      <4>2. SlashRate \in 0..Parts
        BY HoldingAssumption
      <4> HIDE DEF bond
      <4> QED BY <4>1, <4>2, PartOfAtMost
    <3>3. /\ stake \in StakeRecords /\ \A b \in Accounts \ {a} : stake.bonds[b] = s.stake.bonds[b]
          /\ AmountIn(stake, a) = bond - x
      <4>1. /\ stake \in StakeRecords
            /\ \A b \in Accounts \ {a} : stake.bonds[b] = s.stake.bonds[b]
            /\ AmountIn(stake, a) = bond - Least(bond, x)
        <5> HIDE DEF x
        <5> QED BY <1>1, <2>1, <3>2, AfterSlashFact
      <4> QED BY <3>2, <4>1 DEF Least
    <3>4. slashed \in ProofRecord /\ slashed.slashed /\ ~s.records[r].slashed
      <4>1. failed.records[r] \in ProofRecord
        BY <2>1, <2>6 DEF ExpiryStates
      <4> QED BY <2>7, <2>9, <4>1 DEF Slashes, ProofRecord
    <3>5. after = [pending |-> failed.pending,
                   records |-> [failed.records EXCEPT ![r] = slashed],
                   stake |-> stake,
                   rewards |-> [s.rewards EXCEPT ![a] = @ - penalty],
                   pools |-> [s.pools EXCEPT ![c] = @ + penalty]]
      <4>1. failed = [pending |-> failed.pending, records |-> failed.records,
                      stake |-> s.stake, rewards |-> s.rewards, pools |-> s.pools]
        BY <2>6 DEF ExpiryStates
      <4>2. after = [failed EXCEPT !.records = [failed.records EXCEPT ![r] = slashed],
                                   !.stake = stake,
                                   !.rewards = [s.rewards EXCEPT ![a] = @ - penalty],
                                   !.pools = [s.pools EXCEPT ![c] = @ + penalty]]
        BY <2>6, <4>1 DEF AfterSlashNode, r, AmountIn
      <4> HIDE DEF after, stake, slashed, penalty
      <4> QED BY <4>1, <4>2
    <3> HIDE DEF penalty, bond, x, stake, slashed, after
    <3>6. /\ after.pending = failed.pending /\ after.stake = stake
          /\ after.records = [failed.records EXCEPT ![r] = slashed]
          /\ after.rewards = [s.rewards EXCEPT ![a] = @ - penalty]
          /\ after.pools = [s.pools EXCEPT ![c] = @ + penalty]
      BY <3>5
    <3>7. /\ after.rewards \in [Accounts -> Nat] /\ after.pools \in [Contents -> Nat]
          /\ after.records \in [Contents \X Accounts -> ProofRecord]
      BY <1>1, <2>1, <2>6, <3>1, <3>4, <3>6 DEF ExpiryStates
    <3>8. after \in ExpiryStates
      BY <2>6, <3>3, <3>5, <3>6, <3>7 DEF ExpiryStates
    <3>9. OwedIn(after) = OwedIn(s)
      <4>1. SumFunctionOnSet(after.rewards, Accounts)
              = SumFunctionOnSet(s.rewards, Accounts) + after.rewards[a] - s.rewards[a]
        BY <1>1, <2>1, <3>6, <3>7, SumChange, LedgerAssumption
      <4>2. SumFunctionOnSet(after.pools, Contents)
              = SumFunctionOnSet(s.pools, Contents) + after.pools[c] - s.pools[c]
        BY <1>1, <2>1, <3>6, <3>7, SumChange, HoldingAssumption
      <4>3. /\ SumFunctionOnSet(s.rewards, Accounts) \in Nat
            /\ SumFunctionOnSet(s.pools, Contents) \in Nat
        BY <1>1, SumIsNat, LedgerAssumption, HoldingAssumption
      <4>4. /\ after.rewards[a] = s.rewards[a] - penalty
            /\ after.pools[c] = s.pools[c] + penalty
            /\ s.rewards[a] \in Nat /\ s.pools[c] \in Nat
        BY <1>1, <2>1, <3>6
      <4> QED BY <3>1, <4>1, <4>2, <4>3, <4>4 DEF OwedIn
    <3>10. \A q \in Contents \X Accounts : s.records[q].slashed => after.records[q].slashed
      BY <2>1, <2>6, <2>7, <3>4, <3>6 DEF ExpiryStates
    <3>11. after.records[r].slashed
      BY <2>1, <2>6, <3>4, <3>6 DEF ExpiryStates
    <3>12. AfterExpiry(s, e) = after
      BY <2>5, <2>9 DEF after
    <3>13. ASSUME NEW q \in Contents \X Accounts, q # r
           PROVE  after.records[q].slashed = s.records[q].slashed
      <4>1. after.records[q] = failed.records[q]
        BY <2>1, <2>6, <3>6, <3>13 DEF ExpiryStates
      <4> QED BY <2>7, <4>1
    <3>14. ASSUME NEW b \in Accounts, b # a PROVE Untouched(s, after, b)
      <4>1. AmountIn(after.stake, b) = AmountIn(s.stake, b)
        BY <3>3, <3>6, <3>14 DEF AmountIn
      <4>2. \A d \in Contents : <<d, b>> # r
        BY <3>14 DEF r
      <4> QED BY <3>13, <4>1, <4>2 DEF Untouched
    <3>15. SlashedFor(s, after, a, e)
      <4>1. \A d \in Contents \ {c} : <<d, a>> # r
        BY DEF r
      <4>2. \A d \in Contents \ {c} : after.records[<<d, a>>].slashed = s.records[<<d, a>>].slashed
        BY <2>1, <3>13, <4>1
      <4>3. AmountIn(after.stake, a) = AmountIn(s.stake, a) - PartOf(SlashRate, AmountIn(s.stake, a))
        BY <3>3, <3>6 DEF x, bond
      <4>4. ~s.records[<<c, a>>].slashed /\ after.records[<<c, a>>].slashed
        BY <3>4, <3>11 DEF r
      <4> QED BY <1>3, <4>2, <4>3, <4>4 DEF SlashedFor
    <3>16. \A b \in Accounts : Untouched(s, after, b) \/ SlashedFor(s, after, b, e)
      BY <3>14, <3>15
    <3> QED BY <2>6, <3>6, <3>8, <3>9, <3>10, <3>12, <3>16 DEF ExpiresTo
  <2> QED BY <2>8, <2>9
<1> QED BY <1>2, <1>3

(* What has happened between the state s and a state t further down the    *)
(* list: contents turned slashed, and the bond is what so many slashes     *)
(* leave of it.                                                            *)
Turned(s, t, a) ==
  {c \in Contents : ~s.records[<<c, a>>].slashed /\ t.records[<<c, a>>].slashed}

RanOut(s, t, a, c) ==
  \E share \in Shares :
    /\ s.pending[<<c, share>>] # None /\ s.pending[<<c, share>>].node = a
    /\ t.pending[<<c, share>>] = None

BondFollows(s, t, a) ==
  AmountIn(t.stake, a) = BondAfterSlashes(AmountIn(s.stake, a), Cardinality(Turned(s, t, a)))

Since(s, t) ==
  /\ t \in ExpiryStates
  /\ OwedIn(t) = OwedIn(s)
  /\ \A e \in Contents \X Shares : t.pending[e] = s.pending[e] \/ t.pending[e] = None
  /\ \A r \in Contents \X Accounts : s.records[r].slashed => t.records[r].slashed
  /\ \A a \in Accounts : \A c \in Turned(s, t, a) : RanOut(s, t, a, c)
  /\ \A a \in Accounts : BondFollows(s, t, a)

LEMMA SinceNothing ==
  ASSUME NEW s \in ExpiryStates PROVE Since(s, s)
<1>1. \A a \in Accounts : Turned(s, s, a) = {}
  BY DEF Turned
<1>2. \A a \in Accounts : AmountIn(s.stake, a) \in Nat
  BY DEF ExpiryStates, StakeRecords, StakeBond, AmountIn
<1>3. \A a \in Accounts : BondFollows(s, s, a)
  BY <1>1, <1>2, FS_EmptySet, BondAfterSlashesFact DEF BondFollows
<1> QED BY <1>1, <1>3 DEF Since

(* One more expiry: either nothing changes for a, or one more slash does.  *)
LEMMA OneMoreTurned ==
  ASSUME NEW s \in ExpiryStates, NEW t, Since(s, t), NEW u, NEW e \in Contents \X Shares,
         NEW a \in Accounts, SlashedFor(t, u, a, e)
  PROVE  /\ Turned(s, u, a) = Turned(s, t, a) \cup {e[1]}
         /\ BondFollows(s, u, a)
<1>1. e[1] \in Contents /\ <<e[1], a>> \in Contents \X Accounts
  OBVIOUS
<1>2. /\ ~t.records[<<e[1], a>>].slashed /\ u.records[<<e[1], a>>].slashed
      /\ ~s.records[<<e[1], a>>].slashed
  BY <1>1 DEF SlashedFor, Since
<1>3. Turned(s, u, a) = Turned(s, t, a) \cup {e[1]} /\ e[1] \notin Turned(s, t, a)
  BY <1>1, <1>2 DEF SlashedFor, Turned
<1> DEFINE n == Cardinality(Turned(s, t, a))
           bond == AmountIn(s.stake, a)
<1>4. n \in Nat /\ Cardinality(Turned(s, u, a)) = n + 1
  <2>1. IsFiniteSet(Turned(s, t, a))
    BY HoldingAssumption, FS_Subset DEF Turned
  <2> QED BY <1>3, <2>1, FS_AddElement, FS_CardinalityType
<1>5. bond \in Nat
  BY DEF ExpiryStates, StakeRecords, StakeBond, AmountIn
<1>6. AmountIn(t.stake, a) = BondAfterSlashes(bond, n)
  BY DEF Since, BondFollows
<1>7. AmountIn(u.stake, a) = AmountIn(t.stake, a) - PartOf(SlashRate, AmountIn(t.stake, a))
  BY DEF SlashedFor
<1> HIDE DEF n, bond
<1>8. BondAfterSlashes(bond, n + 1)
        = BondAfterSlashes(bond, n) - PartOf(SlashRate, BondAfterSlashes(bond, n))
  BY <1>4, <1>5, BondAfterSlashesFact
<1>9. AmountIn(u.stake, a) = BondAfterSlashes(bond, Cardinality(Turned(s, u, a)))
  BY <1>4, <1>6, <1>7, <1>8
<1> QED BY <1>3, <1>9 DEF BondFollows, bond

LEMMA SinceStep ==
  ASSUME NEW s \in ExpiryStates, NEW t, Since(s, t), NEW e \in Contents \X Shares
  PROVE  LET u == AfterExpiry(t, e)
         IN /\ Since(s, u) /\ u.pending[e] = None
            /\ \A o \in Contents \X Shares : t.pending[o] = None => u.pending[o] = None
<1> DEFINE u == AfterExpiry(t, e)
<1>1. t \in ExpiryStates
  BY DEF Since
<1>2. ExpiresTo(t, u, e)
  BY <1>1, ExpiryStep
<1> HIDE DEF u
<1>3. /\ t.pending \in [Contents \X Shares -> Challenge \cup {None}]
      /\ u.pending = [t.pending EXCEPT ![e] = None]
  BY <1>1, <1>2 DEF ExpiryStates, ExpiresTo
<1>4. /\ u.pending[e] = None
      /\ \A o \in Contents \X Shares : u.pending[o] = t.pending[o] \/ u.pending[o] = None
      /\ \A o \in Contents \X Shares : t.pending[o] = None => u.pending[o] = None
  BY <1>3
<1>5. \A r \in Contents \X Accounts : s.records[r].slashed => u.records[r].slashed
  BY <1>2 DEF ExpiresTo, Since
<1>6. ASSUME NEW a \in Accounts
      PROVE  BondFollows(s, u, a) /\ \A c \in Turned(s, u, a) : RanOut(s, u, a, c)
  <2>1. \A c \in Turned(s, t, a) : RanOut(s, u, a, c)
    <3> SUFFICES ASSUME NEW c \in Turned(s, t, a) PROVE RanOut(s, u, a, c)
      OBVIOUS
    <3>1. c \in Contents /\ RanOut(s, t, a, c)
      BY DEF Since, Turned
    <3> QED BY <1>4, <3>1 DEF RanOut
  <2>2. CASE Untouched(t, u, a)
    <3>1. Turned(s, u, a) = Turned(s, t, a)
      BY <2>2 DEF Untouched, Turned
    <3>2. BondFollows(s, t, a) /\ AmountIn(u.stake, a) = AmountIn(t.stake, a)
      BY <2>2 DEF Untouched, Since
    <3> QED BY <2>1, <3>1, <3>2 DEF BondFollows
  <2>3. CASE SlashedFor(t, u, a, e)
    <3>1. Turned(s, u, a) = Turned(s, t, a) \cup {e[1]} /\ BondFollows(s, u, a)
      BY <2>3, OneMoreTurned
    <3>2. RanOut(s, u, a, e[1])
      <4>1. PICK c \in Contents, share \in Shares : e = <<c, share>>
        OBVIOUS
      <4>2. e[1] = c
        BY <4>1
      <4>3. t.pending[e] # None /\ t.pending[e].node = a
        BY <2>3 DEF SlashedFor
      <4>4. t.pending[e] = s.pending[e]
        BY <4>3 DEF Since
      <4> QED BY <1>4, <4>1, <4>2, <4>3, <4>4 DEF RanOut
    <3> QED BY <2>1, <3>1, <3>2
  <2> QED BY <1>2, <2>2, <2>3 DEF ExpiresTo
<1>7. Since(s, u)
  BY <1>2, <1>4, <1>5, <1>6 DEF ExpiresTo, Since
<1> QED BY <1>4, <1>7 DEF u

LEMMA AllExpire ==
  ASSUME NEW s \in ExpiryStates, NEW due \in Seq(Contents \X Shares)
  PROVE  LET t == AfterAll(s, due)
         IN Since(s, t) /\ \A e \in ToSet(due) : t.pending[e] = None
<1> DEFINE n == Len(due)
<1>1. PICK f : Walks(f, s, due) /\ AfterAll(s, due) = f[n]
  BY WalkExists
<1>2. /\ n \in Nat /\ f[0] = s
      /\ \A i \in 1..n : f[i] = AfterExpiry(f[i - 1], due[i])
      /\ \A i \in 1..n : due[i] \in Contents \X Shares
  <2> DEFINE g == [i \in 0..n |-> IF i = 0 THEN s ELSE AfterExpiry(f[i - 1], due[i])]
  <2>1. n \in Nat /\ \A i \in 1..n : due[i] \in Contents \X Shares
    OBVIOUS
  <2>2. f = g
    BY <1>1 DEF Walks
  <2> HIDE DEF n
  <2>3. g[0] = s /\ \A i \in 1..n : g[i] = AfterExpiry(f[i - 1], due[i])
    BY <2>1
  <2> HIDE DEF g
  <2> QED BY <2>1, <2>2, <2>3
<1> DEFINE Done(i) == Since(s, f[i]) /\ \A j \in 1..i : f[i].pending[due[j]] = None
           T == {i \in Nat : i <= n => Done(i)}
<1> HIDE DEF n
<1>3. 0 \in T
  <2>1. Since(s, s)
    BY SinceNothing
  <2> QED BY <1>2, <2>1
<1>4. ASSUME NEW i \in Nat, i \in T PROVE i + 1 \in T
  <2> SUFFICES ASSUME i + 1 <= n PROVE Done(i + 1)
    OBVIOUS
  <2>1. /\ Since(s, f[i]) /\ \A j \in 1..i : f[i].pending[due[j]] = None
        /\ i + 1 \in 1..n /\ due[i + 1] \in Contents \X Shares
        /\ f[i + 1] = AfterExpiry(f[i], due[i + 1])
    BY <1>2, <1>4
  <2>2. /\ Since(s, f[i + 1]) /\ f[i + 1].pending[due[i + 1]] = None
        /\ \A o \in Contents \X Shares : f[i].pending[o] = None => f[i + 1].pending[o] = None
    <3> DEFINE t == f[i]
               e == due[i + 1]
    <3>1. Since(s, t) /\ e \in Contents \X Shares /\ f[i + 1] = AfterExpiry(t, e)
      BY <2>1
    <3> HIDE DEF t, e
    <3>2. /\ Since(s, AfterExpiry(t, e)) /\ AfterExpiry(t, e).pending[e] = None
          /\ \A o \in Contents \X Shares :
               t.pending[o] = None => AfterExpiry(t, e).pending[o] = None
      BY <3>1, SinceStep, Zenon
    <3>3. /\ Since(s, f[i + 1]) /\ f[i + 1].pending[e] = None
          /\ \A o \in Contents \X Shares : t.pending[o] = None => f[i + 1].pending[o] = None
      BY <3>1, <3>2, Zenon
    <3> QED BY <3>3 DEF t, e
  <2>3. ASSUME NEW j \in 1..i + 1 PROVE f[i + 1].pending[due[j]] = None
    <3>1. CASE j = i + 1
      BY <2>2, <3>1
    <3>2. CASE j # i + 1
      <4>1. j \in 1..i /\ due[j] \in Contents \X Shares
        BY <1>2, <2>1, <2>3, <3>2
      <4> QED BY <2>1, <2>2, <4>1
    <3> QED BY <3>1, <3>2
  <2> QED BY <2>2, <2>3
<1> HIDE DEF T
<1>5. n \in T
  BY <1>2, <1>3, <1>4, NumbersReached
<1>6. Since(s, f[n]) /\ \A j \in 1..n : f[n].pending[due[j]] = None
  BY <1>2, <1>5 DEF T
<1>7. \A e \in ToSet(due) : \E j \in 1..n : e = due[j]
  BY DEF ToSet, n
<1> QED BY <1>1, <1>6, <1>7

(* The state the hook starts from and the one it leaves.                   *)
LEMMA ExpireFact ==
  ASSUME HoldingInv, ExpireChallenges
  PROVE  LET t == AfterAll(ExpiryState, dueAt[now])
         IN /\ ExpiryState \in ExpiryStates /\ Since(ExpiryState, t)
            /\ \A e \in ToSet(dueAt[now]) : t.pending[e] = None
            /\ pending' = t.pending /\ records' = t.records /\ bonds' = t.stake.bonds
            /\ free' = t.stake.free /\ reserved' = t.stake.reserved
            /\ issuance' = t.stake.issuance /\ totalActiveBond' = t.stake.total
            /\ pendingRewards' = t.rewards /\ repairPools' = t.pools
<1>1. now \in DOMAIN dueAt /\ dueAt[now] \in Seq(Contents \X Shares)
  BY HoldingAssumption, ChainAssumption DEF HoldingInv, HoldingTypeOK, KzgTypeOK
<1>2. ExpiryState \in ExpiryStates
  BY DEF ExpiryState, ExpiryStates, StakeState, StakeRecords, HoldingInv, HoldingTypeOK,
         LedgerTypeOK, KzgTypeOK
<1>3. /\ Since(ExpiryState, AfterAll(ExpiryState, dueAt[now]))
      /\ \A e \in ToSet(dueAt[now]) : AfterAll(ExpiryState, dueAt[now]).pending[e] = None
  BY <1>1, <1>2, AllExpire
<1> QED BY <1>2, <1>3 DEF ExpireChallenges, StakeBecomes

LEMMA HoldingBlockEndInv == ASSUME HoldingInv, HoldingBlockEnd PROVE HoldingInv'
<1> DEFINE t == AfterAll(ExpiryState, dueAt[now])
<1>1. /\ t \in ExpiryStates
      /\ \A e \in Contents \X Shares : t.pending[e] = pending[e] \/ t.pending[e] = None
      /\ \A e \in ToSet(dueAt[now]) : t.pending[e] = None
      /\ pending' = t.pending /\ records' = t.records /\ bonds' = t.stake.bonds
      /\ free' = t.stake.free /\ reserved' = t.stake.reserved
      /\ issuance' = t.stake.issuance /\ totalActiveBond' = t.stake.total
      /\ pendingRewards' = t.rewards /\ repairPools' = t.pools
  BY ExpireFact DEF HoldingBlockEnd, Since, ExpiryState
<1> HIDE DEF t
<1>2. /\ now < MaxBlock /\ now' = now + 1 /\ dueAt' = [dueAt EXCEPT ![now] = <<>>]
      /\ UNCHANGED <<poolVars, fragmentVars>>
  BY DEF HoldingBlockEnd, NextBlock
<1>3. /\ now \in 1..MaxBlock + 1 /\ MaxBlock \in Nat /\ ChallengeWindow \in Nat
      /\ dueAt \in [1..MaxBlock + ChallengeWindow -> Seq(Contents \X Shares)]
  BY HoldingAssumption, ChainAssumption DEF HoldingInv, HoldingTypeOK, KzgTypeOK
<1>4. /\ now' \in 1..MaxBlock + 1
      /\ dueAt' \in [1..MaxBlock + ChallengeWindow -> Seq(Contents \X Shares)]
      /\ \A d \in DOMAIN dueAt : d # now => dueAt'[d] = dueAt[d]
  BY <1>2, <1>3
<1>5. /\ LedgerTypeOK'
      /\ bonds' \in [Accounts -> StakeBond \cup {None}] /\ totalActiveBond' \in Nat
  BY <1>1, <1>2 DEF HoldingInv, HoldingTypeOK, LedgerTypeOK, ExpiryStates, StakeRecords, poolVars
<1>6. KzgTypeOK'
  BY <1>1, <1>2, <1>4 DEF HoldingInv, HoldingTypeOK, KzgTypeOK, ExpiryStates, fragmentVars
<1>7. ASSUME NEW e \in Contents \X Shares, pending'[e] # None
      PROVE  /\ pending'[e].deadline \in DOMAIN dueAt'
             /\ pending'[e].deadline >= now'
             /\ e \in ToSet(dueAt'[pending'[e].deadline])
  <2>1. pending'[e] = pending[e] /\ e \notin ToSet(dueAt[now])
    BY <1>1, <1>7
  <2>2. /\ pending[e].deadline \in DOMAIN dueAt /\ pending[e].deadline >= now
        /\ e \in ToSet(dueAt[pending[e].deadline])
    BY <1>7, <2>1 DEF HoldingInv, DeadlinesListed, EveryChallengeResolves
  <2>3. pending[e].deadline # now
    BY <2>1, <2>2
  <2>4. pending[e].deadline \in Nat /\ DOMAIN dueAt' = DOMAIN dueAt
    BY <1>3, <1>4, <2>2
  <2> QED BY <1>2, <1>3, <1>4, <2>1, <2>2, <2>3, <2>4
<1>8. DeadlinesListed' /\ EveryChallengeResolves'
  BY <1>7 DEF DeadlinesListed, EveryChallengeResolves
<1>9. StateFollowsHolders'
  BY <1>2, HoldersKept
<1> QED BY <1>4, <1>5, <1>6, <1>8, <1>9 DEF HoldingInv, HoldingTypeOK

LEMMA HoldingStepInv == HoldingInv /\ [HoldingNext]_holdingProofVars => HoldingInv'
<1> SUFFICES ASSUME HoldingInv, [HoldingNext]_holdingProofVars PROVE HoldingInv'
  OBVIOUS
<1>1. CASE UNCHANGED holdingProofVars
  <2>1. UNCHANGED <<now, ledgerVars, stakeVars, kzgVars>>
    BY <1>1 DEF holdingProofVars, registryVars
  <2>2. HoldingTypeOK'
    BY <2>1 DEF HoldingInv, HoldingTypeOK, LedgerTypeOK, KzgTypeOK, ledgerVars, balanceVars,
                poolVars, stakeVars, kzgVars, fragmentVars, challengeVars, claimVars
  <2> QED BY <2>1, <2>2, ChallengesKept, HoldersKept DEF HoldingInv, kzgVars
<1> QED
  BY <1>1, RegistrationsInv, BondingInv, StockingInv, ChallengesInv, ProofsInv,
     WithdrawalsInv, RepairsInv, ReleasesInv, HoldingBlockEndInv DEF HoldingNext

LEMMA HoldingInvHolds == HoldingSpec => []HoldingInv
<1>1. HoldingInit => HoldingInv
  BY HoldingInitInv
<1> QED BY <1>1, HoldingStepInv, PTL DEF HoldingSpec

(* Balances, bonds, challenges, records and rewards keep their types       *)
(* through every extrinsic and every block end: no subtraction of a slash, *)
(* a claim or a release goes below zero.                                   *)
THEOREM HoldingTypesHold == HoldingSpec => []HoldingTypeOK
<1>1. HoldingInv => HoldingTypeOK
  BY DEF HoldingInv
<1> QED BY <1>1, HoldingInvHolds, PTL

(* Every pending challenge is in the list of its own deadline, which is    *)
(* still to come: on_finalize meets it, so none blocks its share for ever. *)
THEOREM ChallengesAlwaysResolve == HoldingSpec => []EveryChallengeResolves
<1>1. HoldingInv => EveryChallengeResolves
  BY DEF HoldingInv
<1> QED BY <1>1, HoldingInvHolds, PTL

(* The fragment state that gates repair is always the one of the holders   *)
(* there are.                                                              *)
THEOREM StateAlwaysFollowsHolders == HoldingSpec => []StateFollowsHolders
<1>1. HoldingInv => StateFollowsHolders
  BY DEF HoldingInv
<1> QED BY <1>1, HoldingInvHolds, PTL

----------------------------------------------------------------------------
(* What a step may never do. *)

(* Only a repair brings a holder to a fragment that has holders, and only  *)
(* while the state, hence the number of holders, is below Active: the list *)
(* never grows past the target.                                            *)
THEOREM RepairAlwaysStops == HoldingSpec => RepairStopsAtActive
<1> DEFINE Stops == \A c \in Contents, a \in Accounts :
             Holds(a, c)' /\ IsKzg(c) /\ kzgHolders[c] # {} /\ ~Holds(a, c) =>
               Cardinality(kzgHolders'[c]) <= ActiveAt
<1>1. HoldingInv /\ [HoldingNext]_holdingProofVars => [Stops]_holdingProofVars
  <2> SUFFICES ASSUME HoldingInv, HoldingNext, NEW c \in Contents, NEW a \in Accounts,
                      Holds(a, c)', IsKzg(c), kzgHolders[c] # {}, ~Holds(a, c)
               PROVE  Cardinality(kzgHolders'[c]) <= ActiveAt
    BY Zenon
  <2>1. kzgHolders \in [Contents -> {None} \cup SUBSET Accounts] /\ kzgHolders[c] \in SUBSET Accounts
    BY DEF HoldingInv, HoldingTypeOK, KzgTypeOK, IsKzg
  <2>2. kzgHolders'[c] # kzgHolders[c] /\ kzgHolders'[c] # None
        /\ a \in kzgHolders'[c] /\ a \notin kzgHolders[c]
    BY DEF Holds, IsKzg
  <2>3. CASE Stocking
    BY <2>1, <2>2, <2>3 DEF Stocking, RegisterKzgFragment, StockFragment, HoldersBecome, IsKzg
  <2>4. CASE Repairs
    <3>1. ASSUME NEW b \in Accounts, NEW d \in Contents, NEW share \in RepairShares,
                 ConfirmRepair(b, d, share)
          PROVE  Cardinality(kzgHolders'[c]) <= ActiveAt
      <4>1. /\ kzgHolders' = [kzgHolders EXCEPT ![d] = kzgHolders[d] \cup {b}]
            /\ fragmentState[d] = "AtRisk" /\ b \notin kzgHolders[d]
        BY <3>1 DEF ConfirmRepair, HoldersBecome, NeedsRepair
      <4>2. d = c
        BY <2>1, <2>2, <4>1
      <4>3. IsFiniteSet(kzgHolders[c]) /\ Cardinality(kzgHolders[c]) \in Nat
        BY <2>1, LedgerAssumption, FS_Subset, FS_CardinalityType
      <4>4. Cardinality(kzgHolders[c]) < ActiveAt
        BY <4>1, <4>2, <4>3, HoldingAssumption DEF HoldingInv, StateFollowsHolders
      <4>5. Cardinality(kzgHolders[c] \cup {b}) = Cardinality(kzgHolders[c]) + 1
        BY <4>1, <4>2, <4>3, FS_AddElement
      <4>6. kzgHolders'[c] = kzgHolders[c] \cup {b}
        BY <2>1, <4>1, <4>2
      <4> QED BY <4>3, <4>4, <4>5, <4>6, HoldingAssumption
    <3>2. ASSUME NEW b \in Accounts, NEW d \in Contents, EvictStaleHolder(d, b) PROVE FALSE
      BY <2>1, <2>2, <3>2 DEF EvictStaleHolder, HoldersBecome
    <3> QED BY <2>4, <3>1, <3>2 DEF Repairs
  <2>5. CASE Releases
    BY <2>1, <2>2, <2>5 DEF Releases, ReleaseKzg
  <2>6. CASE UNCHANGED kzgHolders
    BY <2>2, <2>6
  <2> QED
    BY <2>3, <2>4, <2>5, <2>6
       DEF HoldingNext, Registrations, Bonding, Challenges, IssueChallenge, Proofs, ProveHolding,
           Withdrawals, ClaimReward, HoldingBlockEnd, kzgVars, fragmentVars
<1> QED BY <1>1, HoldingInvHolds, PTL DEF HoldingSpec, RepairStopsAtActive

(* A block end leaves of a bond what SlashRate leaves of it for each        *)
(* content that turns slashed after a challenge of it ran out, as many     *)
(* challenges as there are; otherwise a bond shrinks only by its release.  *)
THEOREM NodesSlashedOnce == HoldingSpec => SlashedOncePerContent
<1> DEFINE Once == \A a \in Accounts :
             (now' # now \/ ((BondAmount(a))' < BondAmount(a) /\ ~NoticeServed(a))) =>
               (BondAmount(a))' =
                 BondAfterSlashes(BondAmount(a), Cardinality(NewlySlashed(a)))
<1>1. HoldingInv /\ [HoldingNext]_holdingProofVars => [Once]_holdingProofVars
  <2> SUFFICES ASSUME HoldingInv, HoldingNext, NEW a \in Accounts,
                      now' # now \/ ((BondAmount(a))' < BondAmount(a) /\ ~NoticeServed(a))
               PROVE  (BondAmount(a))' =
                        BondAfterSlashes(BondAmount(a), Cardinality(NewlySlashed(a)))
    BY Zenon
  <2>1. bonds \in [Accounts -> StakeBond \cup {None}] /\ BondAmount(a) \in Nat
    BY DEF HoldingInv, HoldingTypeOK, BondAmount, HasBond, StakeBond
  <2>2. now' = now => bonds'[a] # bonds[a]
    BY <2>1 DEF BondAmount, HasBond
  <2>3. CASE Bonding
    <3>0. now' = now /\ bonds'[a] # bonds[a]
      BY <2>2, <2>3 DEF Bonding, registryVars
    <3>1. ASSUME NEW b \in Accounts, NEW capacity \in DeclaredCapacities, Bond(b, capacity)
          PROVE  FALSE
      <4> DEFINE entry == [amount |-> Price(capacity), requested |-> None]
      <4>1. ~HasBond(b) /\ bonds' = [bonds EXCEPT ![b] = entry]
        BY <3>1 DEF Bond
      <4>2. b = a /\ bonds'[a] = entry
        BY <2>1, <3>0, <4>1
      <4>3. BondAmount(a) = 0 /\ (BondAmount(a)' = entry.amount \/ BondAmount(a)' = 0)
        BY <4>1, <4>2 DEF BondAmount, HasBond
      <4> QED BY <3>0, <4>3, PriceNat
    <3>2. ASSUME NEW b \in Accounts, RequestRelease(b) PROVE FALSE
      <4> DEFINE entry == [bonds[b] EXCEPT !.requested = now]
      <4>1. HasBond(b) /\ bonds' = [bonds EXCEPT ![b] = entry]
        BY <3>2 DEF RequestRelease
      <4>2. b = a /\ bonds'[a] = entry
        BY <2>1, <3>0, <4>1
      <4>3. bonds[a] \in StakeBond /\ now \in Nat
        BY <2>1, <4>1, <4>2, ChainAssumption DEF HasBond, HoldingInv, HoldingTypeOK
      <4>4. entry \in StakeBond /\ entry.amount = bonds[a].amount
        BY <4>2, <4>3 DEF StakeBond
      <4>5. BondAmount(a)' = BondAmount(a)
        BY <4>1, <4>2, <4>4, HoldingNoneFact DEF BondAmount, HasBond
      <4> QED BY <2>1, <3>0, <4>5
    <3>3. ASSUME NEW b \in Accounts, FinalizeRelease(b) PROVE FALSE
      BY <2>1, <3>0, <3>3 DEF FinalizeRelease
    <3> QED BY <2>3, <3>1, <3>2, <3>3 DEF Bonding, StakeOps
  <2>4. CASE HoldingBlockEnd
    <3> DEFINE t == AfterAll(ExpiryState, dueAt[now])
    <3>1. /\ BondFollows(ExpiryState, t, a)
          /\ \A c \in Turned(ExpiryState, t, a) : RanOut(ExpiryState, t, a, c)
          /\ pending' = t.pending /\ records' = t.records /\ bonds' = t.stake.bonds
      BY <2>4, ExpireFact DEF HoldingBlockEnd, Since
    <3> HIDE DEF t
    <3>2. NewlySlashed(a) = Turned(ExpiryState, t, a)
      BY <3>1 DEF NewlySlashed, Turned, RanOut, ExpiryState
    <3>3. /\ AmountIn(ExpiryState.stake, a) = BondAmount(a)
          /\ AmountIn(t.stake, a) = (BondAmount(a))'
      BY <3>1 DEF AmountIn, BondAmount, HasBond, ExpiryState, StakeState
    <3> QED BY <3>1, <3>2, <3>3 DEF BondFollows
  <2>5. CASE UNCHANGED <<now, bonds>>
    BY <2>2, <2>5
  <2>6. Registrations => UNCHANGED now
    BY DEF Registrations, RegisterNode, UnregisterNode
  <2> QED
    BY <2>3, <2>4, <2>5, <2>6
       DEF HoldingNext, Registrations, Stocking, Challenges, Proofs, Withdrawals, Repairs,
           Releases, Others, stakeVars, registryVars
<1> QED BY <1>1, HoldingInvHolds, PTL DEF HoldingSpec, SlashedOncePerContent

(* What is owed, step by step. *)
LEMMA OwedKept ==
  ASSUME UNCHANGED claimVars PROVE Owed' = Owed
BY DEF Owed, claimVars

LEMMA OwedParts ==
  ASSUME HoldingInv
  PROVE  /\ pendingRewards \in [Accounts -> Nat] /\ repairPools \in [Contents -> Nat]
         /\ SumFunctionOnSet(pendingRewards, Accounts) \in Nat
         /\ SumFunctionOnSet(repairPools, Contents) \in Nat
<1>1. pendingRewards \in [Accounts -> Nat] /\ repairPools \in [Contents -> Nat]
  BY DEF HoldingInv, HoldingTypeOK, KzgTypeOK
<1> QED BY <1>1, SumIsNat, LedgerAssumption, HoldingAssumption

(* Slashes move what is owed to repair pools and repairs move it back; it  *)
(* grows only by an answered challenge, and a claim takes from it exactly  *)
(* what it takes from the storage pool.                                    *)
THEOREM RewardsAlwaysAccounted == HoldingSpec => RewardsAccounted
<1> DEFINE Accounted ==
             \/ Owed' = Owed
             \/ /\ Owed' > Owed
                /\ \E e \in Contents \X Shares :
                     pending[e] # None /\ pending'[e] = None /\ now' = now
             \/ Owed - Owed' = storagePool - storagePool'
<1>1. HoldingInv /\ [HoldingNext]_holdingProofVars => [Accounted]_holdingProofVars
  <2> SUFFICES ASSUME HoldingInv, HoldingNext PROVE Accounted
    OBVIOUS
  <2> DEFINE rewards == SumFunctionOnSet(pendingRewards, Accounts)
             pools == SumFunctionOnSet(repairPools, Contents)
  <2>1. /\ pendingRewards \in [Accounts -> Nat] /\ repairPools \in [Contents -> Nat]
        /\ rewards \in Nat /\ pools \in Nat /\ Owed = rewards + pools
    BY OwedParts DEF Owed
  <2>2. CASE Proofs
    <3>1. PICK a \in Accounts, c \in Contents, share \in Shares : ProveHolding(a, c, share)
      BY <2>2 DEF Proofs
    <3> DEFINE e == <<c, share>>
    <3>2. /\ pending[e] # None /\ pending' = [pending EXCEPT ![e] = None]
          /\ pendingRewards' = [pendingRewards EXCEPT ![a] = @ + Reward(a)]
          /\ repairPools' = repairPools /\ now' = now
      BY <2>2, <3>1 DEF ProveHolding, Proofs, Others, registryVars
    <3>3. /\ e \in Contents \X Shares /\ pending'[e] = None
      BY <3>2 DEF HoldingInv, HoldingTypeOK, KzgTypeOK
    <3>4. Reward(a) \in Nat
      BY RewardNat DEF HoldingInv
    <3>5. SumFunctionOnSet(pendingRewards', Accounts) = rewards + Reward(a)
      <4>1. /\ pendingRewards'[a] = pendingRewards[a] + Reward(a)
            /\ pendingRewards'[a] \in Nat /\ pendingRewards[a] \in Nat
            /\ \A b \in Accounts : b # a => pendingRewards'[b] = pendingRewards[b]
        BY <2>1, <3>2, <3>4
      <4>2. SumFunctionOnSet(pendingRewards', Accounts)
              = rewards + pendingRewards'[a] - pendingRewards[a]
        BY <2>1, <4>1, SumChange, LedgerAssumption
      <4> QED BY <2>1, <3>4, <4>1, <4>2
    <3>6. Owed' = Owed + Reward(a)
      BY <2>1, <3>2, <3>4, <3>5 DEF Owed
    <3>7. Owed' = Owed \/ Owed' > Owed
      BY <2>1, <3>4, <3>6
    <3> QED BY <3>2, <3>3, <3>7
  <2>3. CASE Withdrawals
    <3>1. PICK a \in Accounts : ClaimReward(a)
      BY <2>3 DEF Withdrawals
    <3> DEFINE paid == PoolShare(pendingRewards[a])
    <3>2. /\ paid \in Nat /\ paid <= pendingRewards[a] /\ storagePool' = storagePool - paid
          /\ pendingRewards' = [pendingRewards EXCEPT ![a] = @ - paid]
          /\ repairPools' = repairPools
      BY <3>1, WithdrawalFact DEF HoldingInv
    <3> HIDE DEF paid
    <3>3. /\ pendingRewards'[a] = pendingRewards[a] - paid
          /\ pendingRewards'[a] \in Nat /\ pendingRewards[a] \in Nat
          /\ \A b \in Accounts : b # a => pendingRewards'[b] = pendingRewards[b]
      BY <2>1, <3>2
    <3>4. SumFunctionOnSet(pendingRewards', Accounts)
            = rewards + pendingRewards'[a] - pendingRewards[a]
      BY <2>1, <3>3, SumChange, LedgerAssumption
    <3>5. Owed' = Owed - paid
      BY <2>1, <3>2, <3>3, <3>4 DEF Owed
    <3>6. storagePool \in Nat
      BY DEF HoldingInv, HoldingTypeOK, LedgerTypeOK
    <3> QED BY <2>1, <3>2, <3>5, <3>6
  <2>4. CASE Repairs
    <3>1. ASSUME NEW a \in Accounts, NEW c \in Contents, NEW share \in RepairShares,
                 ConfirmRepair(a, c, share)
          PROVE  Owed' = Owed
      <4>1. /\ pendingRewards' = [pendingRewards EXCEPT ![a] = @ + repairPools[c]]
            /\ repairPools' = [repairPools EXCEPT ![c] = 0]
        BY <3>1 DEF ConfirmRepair, PoolTaken
      <4>2. /\ pendingRewards'[a] = pendingRewards[a] + repairPools[c] /\ repairPools'[c] = 0
            /\ pendingRewards[a] \in Nat /\ repairPools[c] \in Nat
            /\ \A b \in Accounts : b # a => pendingRewards'[b] = pendingRewards[b]
            /\ \A d \in Contents : d # c => repairPools'[d] = repairPools[d]
        BY <2>1, <4>1
      <4>3. SumFunctionOnSet(pendingRewards', Accounts)
              = rewards + pendingRewards'[a] - pendingRewards[a]
        BY <2>1, <4>2, SumChange, LedgerAssumption
      <4>4. SumFunctionOnSet(repairPools', Contents) = pools + repairPools'[c] - repairPools[c]
        BY <2>1, <4>2, SumChange, HoldingAssumption
      <4> QED BY <2>1, <4>2, <4>3, <4>4 DEF Owed
    <3>2. ASSUME NEW a \in Accounts, NEW c \in Contents, EvictStaleHolder(c, a)
          PROVE  Owed' = Owed
      BY <3>2, OwedKept DEF EvictStaleHolder
    <3> QED BY <2>4, <3>1, <3>2 DEF Repairs
  <2>5. CASE HoldingBlockEnd
    <3> DEFINE t == AfterAll(ExpiryState, dueAt[now])
    <3>1. /\ OwedIn(t) = OwedIn(ExpiryState)
          /\ pendingRewards' = t.rewards /\ repairPools' = t.pools
      BY <2>5, ExpireFact DEF HoldingBlockEnd, Since
    <3> HIDE DEF t
    <3>2. Owed' = Owed
      BY <3>1 DEF Owed, OwedIn, ExpiryState
    <3> QED BY <3>2
  <2>6. CASE UNCHANGED claimVars
    BY <2>6, OwedKept
  <2> QED
    BY <2>2, <2>3, <2>4, <2>5, <2>6
       DEF HoldingNext, Registrations, Bonding, Stocking, Challenges, IssueChallenge, Releases,
           ReleaseKzg, kzgVars
<1> QED BY <1>1, HoldingInvHolds, PTL DEF HoldingSpec, RewardsAccounted

=============================================================================
