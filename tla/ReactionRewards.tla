-------------------------- MODULE ReactionRewards --------------------------
(***************************************************************************)
(* pallet_reaction, the token half: a Like mints part of the reaction pool *)
(* to the author of the post, if the reactor holds a lock.  The lock is a  *)
(* reserve of the reactor's balance.  A per-block budget bounds the flow.  *)
(***************************************************************************)
EXTENDS TokenLedger

CONSTANTS
  ReactionReward,
  GammaMax,             \* GammaMaxPpm, of Parts; 0 turns the ratio off
  ReactorDecayK,        \* 0 turns the decay off
  PayoutCap,            \* PerBlockPayoutCapPpm, of Parts; 0 turns the cap off
  ReactorLockMin,       \* 0: no lock needed
  ReactorLockDuration,
  LockAmounts,          \* the amounts a reactor may lock
  MaxReactions          \* bound: Likes of one reactor (one per post in the code)

ASSUME RewardAssumption ==
  /\ ReactionReward \in Nat /\ GammaMax \in 0..Parts
  /\ ReactorDecayK \in Nat /\ PayoutCap \in 0..Parts
  /\ ReactorLockMin \in Nat /\ ReactorLockDuration \in Nat
  /\ LockAmounts \subseteq Nat /\ MaxReactions \in Nat

ReactorLock == [amount : Nat, unlockAt : Nat]

ASSUME RewardNone == None \notin ReactorLock

VARIABLES
  locks,            \* ReactorLocks
  locksCount,       \* ReactorLocksCount
  reactorCount,     \* ReactorCumulativeCount
  paidThisBlock     \* PerBlockPayoutAccumulator

rewardVars == <<locks, locksCount, reactorCount, paidThisBlock>>

RewardInit ==
  /\ locks = [a \in Accounts |-> None]
  /\ locksCount = 0
  /\ reactorCount = [a \in Accounts |-> 0]
  /\ paidThisBlock = 0

HasLock(a) == locks[a] # None

LockForRewards(a, amount) ==
  /\ ~HasLock(a)
  /\ amount >= ReactorLockMin
  /\ Reserve(a, amount)
  /\ locks' = [locks EXCEPT ![a] =
        [amount |-> amount, unlockAt |-> now + ReactorLockDuration]]
  /\ locksCount' = locksCount + 1
  /\ UNCHANGED <<reactorCount, paidThisBlock>>

UnlockReactor(a) ==
  /\ HasLock(a)
  /\ now >= locks[a].unlockAt
  /\ Unreserve(a, locks[a].amount)
  /\ locks' = [locks EXCEPT ![a] = None]
  /\ locksCount' = SaturatingSub(locksCount, 1)
  /\ UNCHANGED <<reactorCount, paidThisBlock>>

Gamma == IF issuance = 0 THEN GammaMax
         ELSE Least((reactionPool * Parts) \div issuance, GammaMax)
Decayed(n) == IF ReactorDecayK = 0 THEN Parts
              ELSE SqrtParts((ReactorDecayK * Parts) \div (ReactorDecayK + n))
ComputeReward(n) ==
  IF GammaMax = 0 THEN Least(ReactionReward, reactionPool)
  ELSE PartOf(Decayed(n), PartOf(Gamma, ReactionReward))

LockOK(a) == ReactorLockMin = 0 \/ (HasLock(a) /\ locks[a].amount >= ReactorLockMin)

BudgetUnspent == PartOf(PayoutCap, reactionPool)  \* slip: what was paid is forgotten
Budget ==
  IF PayoutCap = 0 THEN reactionPool
  ELSE SaturatingSub(PartOf(PayoutCap, reactionPool), paidThisBlock)

Granted(reactor) ==
  IF LockOK(reactor)
  THEN Least(Least(ComputeReward(reactorCount[reactor]), Budget), reactionPool)
  ELSE 0

PoolAfterGrant(x) == reactionPool - x

(* The token half of react with a Like for a post of the author.  A Bad    *)
(* pays nothing and counts nothing.                                        *)
RewardLike(reactor, author) ==
  LET x == Granted(reactor)
  IN /\ reactorCount[reactor] < MaxReactions
     /\ Mint(author, x)
     /\ reactionPool' = PoolAfterGrant(x)
     /\ paidThisBlock' = paidThisBlock + x
     /\ reactorCount' = [reactorCount EXCEPT ![reactor] = @ + 1]
     /\ UNCHANGED <<storagePool, locks, locksCount>>

RewardOps ==
  \E a \in Accounts :
    \/ \E x \in LockAmounts : LockForRewards(a, x) /\ UNCHANGED poolVars
    \/ UnlockReactor(a) /\ UNCHANGED poolVars
    \/ \E author \in Accounts : RewardLike(a, author)

RewardTypeOK ==
  /\ locks \in [Accounts -> ReactorLock \cup {None}]
  /\ locksCount \in Nat
  /\ reactorCount \in [Accounts -> Nat]
  /\ paidThisBlock \in Nat

(* A block pays out at most PayoutCap of the pool: of what the pool held   *)
(* before those payouts, deposits of the same block included.              *)
PayoutCapHolds ==
  PayoutCap > 0 =>
    paidThisBlock <= PartOf(PayoutCap, reactionPool + paidThisBlock)

(* docs/economic/parameters.md, I-3: the cap per block keeps the reaction  *)
(* pool from ever being drained to 0, whatever is reacted to in a block.   *)
ReactionPoolStaysPositive ==
  PayoutCap \in 1..Parts-1 /\ GenesisPool > 0 => reactionPool > 0

=============================================================================
