---------------------------- MODULE TokenEconomy ----------------------------
(***************************************************************************)
(* Where tokens come from and go: posts burn them and feed the two pools,  *)
(* a reaction or a storage claim mints from a pool, the block reward mints *)
(* to the miner and the pools, bonds and reactor locks share the reserve,  *)
(* a slash burns.  Governance moves the post shares meanwhile.             *)
(***************************************************************************)
EXTENDS StakeBonds, ReactionRewards

CONSTANTS
  PostBaseCost, PostByteCost,
  Sizes,                     \* total_size of a post, at most MaxContentLength
  Dues,                      \* pending rewards that may be claimed
  SlashRate,                 \* SlashRatePerFailPpm, of Parts
  DefaultPostStorageShare, DefaultPostReactionShare,
  ShareChoices,              \* what governance may ask for
  BaseFeeInit, BaseFeeMin, BaseFeeMax, GasTarget,
  InitialReward, TailEmission, HalvingPeriod, MaxHalvings,
  MinerShare, StorageShare, ReactionShare  \* of a block reward

ASSUME EconomyAssumption ==
  /\ PostBaseCost \in Nat /\ PostByteCost \in Nat
  /\ Sizes \subseteq Nat /\ Dues \subseteq Nat /\ ShareChoices \subseteq Nat
  /\ SlashRate \in 0..Parts
  /\ DefaultPostStorageShare \in Nat /\ DefaultPostReactionShare \in Nat
  /\ DefaultPostStorageShare + DefaultPostReactionShare <= Parts
  /\ BaseFeeInit \in Nat /\ BaseFeeMin \in Nat /\ BaseFeeMax \in Nat
  /\ GasTarget \in Nat
  /\ InitialReward \in Nat /\ TailEmission \in Nat
  /\ HalvingPeriod \in Nat /\ MaxHalvings \in Nat
  /\ MinerShare \in 0..Parts /\ StorageShare \in 0..Parts /\ ReactionShare \in 0..Parts

(* A fact of arithmetic that the provers lack; it limits no constant.      *)
ASSUME PowersOfTwo == \A k \in 0..MaxHalvings : 2^k \in Nat \ {0}

VARIABLES
  postStorageShare, postReactionShare,  \* effective_post_*_share, of Parts
  baseFee,                              \* BaseFee
  gasUsed                               \* GasUsedThisBlock

feeVars == <<postStorageShare, postReactionShare, baseFee, gasUsed>>
economyVars == <<now, ledgerVars, stakeVars, rewardVars, feeVars>>

EconomyInit ==
  /\ now = 1
  /\ LedgerInit /\ StakeInit /\ RewardInit
  /\ postStorageShare = DefaultPostStorageShare
  /\ postReactionShare = DefaultPostReactionShare
  /\ baseFee = Greatest(BaseFeeInit, BaseFeeMin)
  /\ gasUsed = 0

(* create_post, the token half: base and size costs are shared between the *)
(* pools, the base fee is burnt whole.                                     *)
CurrentBaseFee == Greatest(baseFee, BaseFeeMin)
Distributable(size) == PostBaseCost + size * PostByteCost

PayForPost(a, size) ==
  LET d == Distributable(size)
  IN /\ Burn(a, d + size * CurrentBaseFee)
     /\ storagePool' = storagePool + PartOf(postStorageShare, d)
     /\ reactionPool' = reactionPool + PartOf(postReactionShare, d)
     /\ gasUsed' = gasUsed + size
     /\ UNCHANGED <<now, stakeVars, rewardVars,
                    postStorageShare, postReactionShare, baseFee>>

(* set_post_storage_share, set_post_reaction_share: checked against the    *)
(* other one as it is now.                                                 *)
SharesUnchecked(new, peer) == new <= Parts  \* slip: only a Permill of its own
SharesFit(new, peer) == new + peer <= Parts

SetPostShare ==
  /\ \E new \in ShareChoices :
       \/ /\ SharesFit(new, postReactionShare)
          /\ postStorageShare' = new
          /\ UNCHANGED postReactionShare
       \/ /\ SharesFit(new, postStorageShare)
          /\ postReactionShare' = new
          /\ UNCHANGED postStorageShare
  /\ UNCHANGED <<now, ledgerVars, stakeVars, rewardVars, baseFee, gasUsed>>

(* What do_slash_node of pallet_storage does to the bond. *)
SlashNode(a) ==
  /\ BondAmount(a) > 0
  /\ StakeBecomes(AfterSlash(StakeState, a, PartOf(SlashRate, BondAmount(a))))
  /\ UNCHANGED <<now, poolVars, rewardVars, feeVars>>

(* What claim_reward of pallet_storage does to tokens. *)
Claim(a) ==
  /\ \E due \in Dues : PayFromStoragePool(a, due)
  /\ UNCHANGED <<now, reactionPool, stakeVars, rewardVars, feeVars>>

----------------------------------------------------------------------------
Halvings(n) == n \div HalvingPeriod
Halved(n) == IF Halvings(n) >= MaxHalvings THEN 0 ELSE InitialReward \div 2^Halvings(n)
CurrentReward(n) ==
  IF HalvingPeriod = 0 THEN Greatest(InitialReward, TailEmission)
  ELSE Greatest(Halved(n), TailEmission)

(* on_finalize of pallet_block_reward; shares that do not fit give all to  *)
(* the miner, and a block without an author mints nothing.                 *)
RewardSharesFit == MinerShare + StorageShare + ReactionShare <= Parts

MintBlockReward(author) ==
  LET reward == CurrentReward(now)
  IN IF RewardSharesFit
     THEN /\ Mint(author, PartOf(MinerShare, reward))
          /\ storagePool' = storagePool + PartOf(StorageShare, reward)
          /\ reactionPool' = reactionPool + PartOf(ReactionShare, reward)
     ELSE Mint(author, reward) /\ UNCHANGED poolVars

(* on_finalize of pallet_base_fee. *)
Target == Greatest(GasTarget, 1)
Moved(fee, by) == (fee * by) \div (Target * 8)
FeeCutOnly(fee) ==  \* slip: a full block does not raise the fee
  IF gasUsed >= Target THEN fee ELSE fee - Moved(fee, Target - gasUsed)
FeeUnclamped(fee) ==
  IF gasUsed >= Target THEN fee + Moved(fee, gasUsed - Target)
  ELSE fee - Moved(fee, Target - gasUsed)
NextFee(fee) ==
  Least(Greatest(Greatest(Least(FeeUnclamped(fee), fee + fee \div 8), fee - fee \div 8),
                 BaseFeeMin),
        BaseFeeMax)

EconomyBlockEnd ==
  /\ NextBlock
  /\ \/ \E author \in Accounts : MintBlockReward(author)
     \/ UNCHANGED ledgerVars
  /\ baseFee' = IF NextFee(CurrentBaseFee) # CurrentBaseFee
                THEN NextFee(CurrentBaseFee) ELSE baseFee
  /\ gasUsed' = 0
  /\ paidThisBlock' = 0
  /\ UNCHANGED <<stakeVars, locks, locksCount, reactorCount,
                 postStorageShare, postReactionShare>>

PostPayments == \E a \in Accounts, size \in Sizes : PayForPost(a, size)
BondOps == StakeOps /\ UNCHANGED <<now, poolVars, rewardVars, feeVars>>
ReactorOps == RewardOps /\ UNCHANGED <<now, stakeVars, feeVars>>
Slashes == \E a \in Accounts : SlashNode(a)
Claims == \E a \in Accounts : Claim(a)

EconomyNext ==
  PostPayments \/ SetPostShare \/ BondOps \/ ReactorOps \/ Slashes \/ Claims
    \/ EconomyBlockEnd

EconomySpec == EconomyInit /\ [][EconomyNext]_economyVars

----------------------------------------------------------------------------
EconomyTypeOK ==
  /\ now \in Nat
  /\ LedgerTypeOK
  /\ bonds \in [Accounts -> StakeBond \cup {None}] /\ totalActiveBond \in Nat
  /\ RewardTypeOK
  /\ postStorageShare \in 0..Parts /\ postReactionShare \in 0..Parts
  /\ baseFee \in Nat /\ gasUsed \in Nat

(* Every reserved token is a bond's or a lock's: two pallets take from and *)
(* return to the one unnamed reserve, and neither dips into the other's.   *)
LockAmount(a) == IF HasLock(a) THEN locks[a].amount ELSE 0
ReservesExplained ==
  \A a \in Accounts : reserved[a] = BondAmount(a) + LockAmount(a)

(* Governance sets the two post shares one at a time, each against the     *)
(* other: a post never feeds the pools more than it burned.                *)
SharesNeverExceedWhole == postStorageShare + postReactionShare <= Parts

(* No transaction creates tokens: whatever a claim or a reaction mints     *)
(* leaves a pool, what a post feeds to the pools it burned, and its base   *)
(* fee is gone for good.  Only the end of a block adds, and at most the    *)
(* block reward.                                                           *)
Wealth == issuance + storagePool + reactionPool
NoMoneyFromNothing ==
  [][IF now' = now
     THEN Wealth' + (gasUsed' - gasUsed) * CurrentBaseFee <= Wealth
     ELSE Wealth' <= Wealth + CurrentReward(now)]_economyVars

(* docs/economic/parameters.md, I-5: with every block of twice the target  *)
(* or more the base fee goes up, until it is at its maximum (a fee under 8 *)
(* cannot: an eighth of it is 0); a block below the target never raises    *)
(* it, and no block moves it by more than an eighth.                       *)
FeeFollowsLoad ==
  [][now' # now =>
       LET fee == CurrentBaseFee
       IN /\ gasUsed >= 2 * Target /\ fee \in 8..BaseFeeMax-1 => (CurrentBaseFee)' > fee
          /\ gasUsed <= Target => (CurrentBaseFee)' <= fee
          /\ (CurrentBaseFee)' \in fee - fee \div 8 .. fee + fee \div 8]_economyVars

=============================================================================
