---------------------------- MODULE FaucetClaims ----------------------------
(***************************************************************************)
(* pallet-faucet: claims without a signature, checked once when they enter *)
(* a node's pool and again when a block runs them; in between the cap may  *)
(* be reached, the account may claim, the proof may grow too easy.         *)
(***************************************************************************)
EXTENDS Integers, FiniteSetsExt, Functions

CONSTANTS
  Claimants, RewardAmount, TotalCap, ChallengeValidity,
  BaseDifficulty, ScalingFactor, MaxDifficulty,
  Works,         \* the difficulties a nonce may satisfy
  LastClaimBlock \* bound on the blocks

ASSUME FaucetAssumption ==
  /\ IsFiniteSet(Claimants)
  /\ RewardAmount \in Nat \ {0} /\ Works \subseteq Nat
  /\ {TotalCap, ChallengeValidity, BaseDifficulty, ScalingFactor, MaxDifficulty,
      LastClaimBlock} \subseteq Nat

VARIABLES
  current,     \* the block number
  claims,      \* FaucetClaims: [Claimants -> the block claimed with, or -1]
  totalClaims,
  totalMinted,
  offers       \* the node's pool: at most one per account, the tag it provides

faucetVars == <<current, claims, totalClaims, totalMinted, offers>>

NotYet == -1

Claims == [who: Claimants, block: 0 .. LastClaimBlock, work: Works]

FaucetInit ==
  /\ current = 1 /\ claims = [a \in Claimants |-> NotYet]
  /\ totalClaims = 0 /\ totalMinted = 0 /\ offers = {}

(* The whole part of the base-2 logarithm: 64 less the leading zeros, less 1. *)
Log2(n) == Max({k \in 0 .. n: 2 ^ k <= n} \cup {0})

ClaimDifficulty ==
  LET grown == IF ScalingFactor = 0 THEN 0 ELSE Log2(1 + totalClaims \div ScalingFactor)
  IN Min({BaseDifficulty + grown, MaxDifficulty})

\* The hash of a block is known from the next block on.
HasHash(number) == number < current

(* A slip, used by the mutation runs only: a cap not yet reached is enough. *)
CapOpenStill == TotalCap > 0 => totalMinted < TotalCap

CapOpen == TotalCap > 0 => totalMinted + RewardAmount <= TotalCap

ValidClaim(c) ==
  /\ CapOpen
  /\ claims[c.who] = NotYet
  /\ current <= c.block + ChallengeValidity
  /\ HasHash(c.block)
  /\ c.work >= ClaimDifficulty

ValidateUnsigned == \E c \in Claims:
  /\ ValidClaim(c) /\ \A o \in offers: o.who # c.who
  /\ offers' = offers \cup {c}
  /\ UNCHANGED <<current, claims, totalClaims, totalMinted>>

\* The pool's check is not trusted: one that stopped holding fails the claim.
Claim == \E c \in offers:
  /\ offers' = offers \ {c}
  /\ IF ValidClaim(c)
     THEN /\ claims' = [claims EXCEPT ![c.who] = c.block]
          /\ totalClaims' = totalClaims + 1
          /\ totalMinted' = totalMinted + RewardAmount
     ELSE UNCHANGED <<claims, totalClaims, totalMinted>>
  /\ UNCHANGED current

ClaimBlockEnds ==
  /\ current < LastClaimBlock /\ current' = current + 1
  /\ UNCHANGED <<claims, totalClaims, totalMinted, offers>>

FaucetNext == ValidateUnsigned \/ Claim \/ ClaimBlockEnds

FaucetSpec == FaucetInit /\ [][FaucetNext]_faucetVars
-----------------------------------------------------------------------------
(* The sunset: however claims race from the pool into blocks, what the faucet
   minted is one reward for each account that claimed and never above the cap. *)
FaucetSunset ==
  /\ totalMinted = RewardAmount * Cardinality({a \in Claimants: claims[a] # NotYet})
  /\ TotalCap > 0 => totalMinted <= TotalCap
  /\ totalClaims = Cardinality({a \in Claimants: claims[a] # NotYet})
=============================================================================
