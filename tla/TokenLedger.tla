---------------------------- MODULE TokenLedger ----------------------------
(***************************************************************************)
(* Who owns the native token, and the two reward pools that may still mint *)
(* it.  Balances are pallet_balances, a library: its operations are        *)
(* modelled from how the pallets use them.  All reserves of an account     *)
(* share one counter, because no pallet names its reserve.  Amounts stay   *)
(* far below u128, so saturation plays no part.                            *)
(***************************************************************************)
EXTENDS FrameSystem

CONSTANTS
  ExistentialDeposit,
  Endowment,            \* free balance of every account at genesis
  GenesisPool,          \* initial_reward_pool of either pallet
  Parts                 \* what a whole is divided into: 1_000_000 for a Permill

ASSUME LedgerAssumption ==
  /\ ExistentialDeposit \in Nat \ {0} /\ Endowment \in Nat /\ GenesisPool \in Nat
  /\ Parts \in Nat \ {0}
  /\ IsFiniteSet(Accounts)

VARIABLES
  free, reserved,       \* AccountData of every account
  issuance,             \* TotalIssuance
  storagePool,          \* RewardPoolBalance of pallet_storage
  reactionPool          \* ReactionRewardPool of pallet_reaction

balanceVars == <<free, reserved, issuance>>
poolVars == <<storagePool, reactionPool>>
ledgerVars == <<balanceVars, poolVars>>

PartOf(share, x) == (share * x) \div Parts  \* Permill::mul_floor

(* What the Newton iteration of sqrt_ppm computes: the root of x, both in  *)
(* parts, rounded down.                                                    *)
SqrtParts(x) == CHOOSE r \in 0..x + Parts : r * r <= x * Parts /\ x * Parts < (r + 1) * (r + 1)

LedgerInit ==
  /\ free = [a \in Accounts |-> Endowment]
  /\ reserved = [a \in Accounts |-> 0]
  /\ issuance = Endowment * Cardinality(Accounts)
  /\ storagePool = GenesisPool
  /\ reactionPool = GenesisPool

(* An account with a reserve cannot be reaped: it keeps the existential    *)
(* deposit free.                                                           *)
Spendable(a) == IF reserved[a] > 0 THEN free[a] - ExistentialDeposit ELSE free[a]

Reserve(a, x) ==
  /\ free[a] >= x + ExistentialDeposit
  /\ free' = [free EXCEPT ![a] = @ - x]
  /\ reserved' = [reserved EXCEPT ![a] = @ + x]
  /\ UNCHANGED issuance

(* unreserve takes what is there.                                          *)
Unreserve(a, x) ==
  /\ reserved' = [reserved EXCEPT ![a] = SaturatingSub(@, x)]
  /\ free' = [free EXCEPT ![a] = @ + Least(x, reserved[a])]
  /\ UNCHANGED issuance

(* burn_from also asks TotalIssuance first.                                *)
Burn(a, x) ==
  /\ x <= Spendable(a) /\ x <= issuance
  /\ free' = [free EXCEPT ![a] = @ - x]
  /\ issuance' = issuance - x
  /\ UNCHANGED reserved

Mint(a, x) ==
  /\ free' = [free EXCEPT ![a] = @ + x]
  /\ issuance' = issuance + x
  /\ UNCHANGED reserved

(* The payout of claim_reward: as much of what is due as the pool has.     *)
PoolShare(due) == Least(due, storagePool)
PayFromStoragePool(a, due) ==
  /\ PoolShare(due) > 0
  /\ storagePool' = storagePool - PoolShare(due)
  /\ Mint(a, PoolShare(due))

LedgerTypeOK ==
  /\ free \in [Accounts -> Nat] /\ reserved \in [Accounts -> Nat]
  /\ issuance \in Nat /\ storagePool \in Nat /\ reactionPool \in Nat
=============================================================================
