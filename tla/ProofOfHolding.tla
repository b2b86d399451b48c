--------------------------- MODULE ProofOfHolding ---------------------------
(***************************************************************************)
(* pallet_storage, KZG half: registered nodes challenge the holders of a   *)
(* fragment, a holder answers with a proof and earns a reward, a challenge *)
(* that runs out counts a failure, too many failures slash the bond and    *)
(* half of the pending rewards, and a thinned fragment is repaired.        *)
(* No extrinsic of this repository registers a KZG fragment or gives it    *)
(* its first holders: StockFragment does, as the pallet's tests do.        *)
(***************************************************************************)
EXTENDS StorageRegistry, StakeBonds, SequencesExt, Functions

CONSTANTS
  FragmentCount,      \* fragment_count n: shares 1..n are challenged
  RepairShares,       \* share indexes a repair may claim
  OriginalShares,     \* indexes up to here count as original (5)
  ChallengeWindow,    \* blocks to answer (100)
  FailureLimit,       \* failures in a row that slash (3)
  ActiveAt, AtRiskAt, \* holder counts of the fragment states (5 and 3)
  MaxKzgHolders,      \* bound of the holder list (16)
  MaxChallenges,      \* MaxChallengesPerBlock, per issuer
  MaxDue,             \* bound of a ChallengesByDeadline list (1000)
  SlashRate,          \* SlashRatePerFailPpm, of Parts
  BaseReward,         \* BaseRewardPerByte * data_size
  StoragePoolTarget,
  MinWithdrawal,
  Score, ScoreThreshold, ScoreHysteresis,  \* nothing writes ScoreCache: 1000
  ProofGrain          \* blocks of proof age that weigh one point (100)

ASSUME HoldingAssumption ==
  /\ FragmentCount \in Nat \ {0} /\ RepairShares \subseteq Nat
  /\ OriginalShares \in Nat /\ ChallengeWindow \in Nat \ {0}
  /\ FailureLimit \in Nat \ {0}
  /\ ActiveAt \in Nat /\ AtRiskAt \in 0..ActiveAt
  /\ MaxKzgHolders \in Nat /\ MaxChallenges \in Nat /\ MaxDue \in Nat
  /\ SlashRate \in 0..Parts /\ BaseReward \in Nat /\ StoragePoolTarget \in Nat
  /\ MinWithdrawal \in Nat /\ Score \in Nat /\ ScoreThreshold \in Nat
  /\ ScoreHysteresis \in Nat /\ ProofGrain \in Nat \ {0}
  /\ IsFiniteSet(Contents)

Shares == 1..FragmentCount
Challenge == [node : Accounts, deadline : Nat]
ProofRecord == [lastProved : Nat, failures : Nat, slashed : BOOLEAN, share : Nat]
ASSUME HoldingNone == None \notin Challenge /\ \A A \in SUBSET Accounts : A # None

NoRecord == [lastProved |-> 0, failures |-> 0, slashed |-> FALSE, share |-> 0]

VARIABLES
  kzgHolders,       \* KzgFragments: the holders of a registered fragment
  fragmentState,    \* FragmentStates
  pending,          \* PendingChallenges, by content and share
  dueAt,            \* ChallengesByDeadline
  records,          \* ProofRecords, by content and account
  pendingRewards,   \* PendingRewards
  repairPools,      \* RepairRewardPools
  forgetting,       \* keys of ForgettingCandidates
  challengeCount    \* ChallengeCountPerBlock at the current block

fragmentVars == <<kzgHolders, fragmentState>>
challengeVars == <<pending, dueAt, challengeCount>>
claimVars == <<pendingRewards, repairPools>>
kzgVars == <<fragmentVars, challengeVars, records, claimVars, forgetting>>
holdingProofVars == <<registryVars, ledgerVars, stakeVars, kzgVars>>

KzgInit ==
  /\ kzgHolders = [c \in Contents |-> None]
  /\ fragmentState = [c \in Contents |-> "Active"]
  /\ pending = [e \in Contents \X Shares |-> None]
  /\ dueAt = [b \in 1..MaxBlock + ChallengeWindow |-> <<>>]
  /\ records = [e \in Contents \X Accounts |-> NoRecord]
  /\ pendingRewards = [a \in Accounts |-> 0]
  /\ repairPools = [c \in Contents |-> 0]
  /\ forgetting = {}
  /\ challengeCount = [a \in Accounts |-> 0]

HoldingInit == RegistryInit /\ LedgerInit /\ StakeInit /\ KzgInit

IsKzg(c) == kzgHolders[c] # None
Holds(a, c) == IsKzg(c) /\ a \in kzgHolders[c]

(* update_fragment_state, for a fragment that has n holders now. *)
StateKept(n, state) == state  \* slip: not recomputed
StateFor(n, state) ==
  IF n >= ActiveAt THEN "Active" ELSE IF n >= AtRiskAt THEN "AtRisk" ELSE "Lost"

HoldersBecome(c, holders) ==
  /\ kzgHolders' = [kzgHolders EXCEPT ![c] = holders]
  /\ fragmentState' =
       [fragmentState EXCEPT ![c] = StateFor(Cardinality(holders), @)]

(* do_register_kzg_fragment: no holders, and FragmentStates keeps its      *)
(* default.                                                                *)
RegisterKzgFragment(c) ==
  /\ ~IsKzg(c)
  /\ kzgHolders' = [kzgHolders EXCEPT ![c] = {}]
  /\ UNCHANGED fragmentState

StockFragment(c, holders) ==
  /\ kzgHolders[c] = {}
  /\ Cardinality(holders) <= MaxKzgHolders
  /\ HoldersBecome(c, holders)

----------------------------------------------------------------------------
DueBlockLate == now + ChallengeWindow + 1  \* slip: indexed a block late
DueBlock == now + ChallengeWindow

IssueChallenge(issuer, c, node, share) ==
  /\ Registered(issuer)
  /\ challengeCount[issuer] < MaxChallenges
  /\ Holds(node, c)
  /\ pending[<<c, share>>] = None
  /\ DueBlock \in DOMAIN dueAt
  /\ Len(dueAt[DueBlock]) < MaxDue
  /\ pending' = [pending EXCEPT ![<<c, share>>] =
        [node |-> node, deadline |-> now + ChallengeWindow]]
  /\ dueAt' = [dueAt EXCEPT ![DueBlock] = Append(@, <<c, share>>)]
  /\ challengeCount' = [challengeCount EXCEPT ![issuer] = @ + 1]
  /\ UNCHANGED <<fragmentVars, records, claimVars, forgetting>>

(* calculate_reward_v3 *)
PoolRatio ==
  IF StoragePoolTarget = 0 \/ storagePool >= StoragePoolTarget THEN Parts
  ELSE (storagePool * Parts) \div StoragePoolTarget
BondShareRoot(bond) ==
  IF totalActiveBond > 0 /\ bond > 0
  THEN SqrtParts((bond * Parts) \div totalActiveBond) ELSE Parts
RewardAt(bond) ==
  IF Score < ScoreThreshold THEN 0
  ELSE PartOf(BondShareRoot(bond), PartOf(PoolRatio, BaseReward))
Reward(a) == RewardAt(BondAmount(a))

ProveHolding(a, c, share) ==
  LET reward == Reward(a)
  IN /\ pending[<<c, share>>] # None
     /\ pending[<<c, share>>].node = a
     /\ records[<<c, a>>].lastProved # now
     /\ Holds(a, c)
     /\ records' = [records EXCEPT ![<<c, a>>] =
                      [@ EXCEPT !.lastProved = now, !.failures = 0]]
     /\ pendingRewards' = [pendingRewards EXCEPT ![a] = @ + reward]
     /\ forgetting' =
          IF reward = 0 THEN forgetting \cup {c}
          ELSE IF Score >= ScoreThreshold + ScoreHysteresis THEN forgetting \ {c}
          ELSE forgetting
     /\ pending' = [pending EXCEPT ![<<c, share>>] = None]
     /\ UNCHANGED <<fragmentVars, dueAt, challengeCount, repairPools>>

(* claim_reward: what the pool cannot pay stays pending. *)
ClaimReward(a) ==
  /\ pendingRewards[a] > 0
  /\ pendingRewards[a] >= MinWithdrawal
  /\ PayFromStoragePool(a, pendingRewards[a])
  /\ pendingRewards' =
       [pendingRewards EXCEPT ![a] = @ - PoolShare(@)]
  /\ UNCHANGED <<fragmentVars, challengeVars, records, repairPools, forgetting>>

(* confirm_repair, by a node that proves a share of its own. *)
PoolKept(pool) == pool  \* slip: paid out, but not emptied
PoolTaken(pool) == 0

NotLost(c) == fragmentState[c] # "Lost"  \* slip: Active fragments too
NeedsRepair(c) == fragmentState[c] = "AtRisk"

ConfirmRepair(a, c, share) ==
  /\ Registered(a)
  /\ IsKzg(c)
  /\ NeedsRepair(c)
  /\ a \notin kzgHolders[c]
  /\ Cardinality(kzgHolders[c]) < MaxKzgHolders
  /\ HoldersBecome(c, kzgHolders[c] \cup {a})
  /\ records' = [records EXCEPT ![<<c, a>>] =
        [NoRecord EXCEPT !.lastProved = now, !.share = share]]
  /\ pendingRewards' = [pendingRewards EXCEPT ![a] = @ + repairPools[c]]
  /\ repairPools' = [repairPools EXCEPT ![c] = PoolTaken(@)]
  /\ UNCHANGED <<challengeVars, forgetting>>

(* compute_eviction_candidates; among equals the code takes the earliest   *)
(* of the holder list, here any of them.                                   *)
Priority(r) ==
  (IF r.slashed THEN 0 ELSE 1000)
    + (IF r.share \in 1..OriginalShares THEN 0 ELSE 100)
    + Least(r.lastProved \div ProofGrain, 500)

EvictStaleHolder(c, victim) ==
  /\ IsKzg(c)
  /\ Cardinality(kzgHolders[c]) > FragmentCount
  /\ victim \in kzgHolders[c]
  /\ \A a \in kzgHolders[c] : Priority(records[<<c, victim>>]) <= Priority(records[<<c, a>>])
  /\ HoldersBecome(c, kzgHolders[c] \ {victim})
  /\ records' = [records EXCEPT ![<<c, victim>>] = NoRecord]
  /\ UNCHANGED <<challengeVars, claimVars, forgetting>>

(* do_release_fragment, the KZG part: challenges and the repair pool of    *)
(* the content stay.                                                       *)
ReleaseKzg(c) ==
  /\ kzgHolders' = [kzgHolders EXCEPT ![c] = None]
  /\ fragmentState' = [fragmentState EXCEPT ![c] = "Active"]
  /\ records' = [e \in DOMAIN records |-> IF e[1] = c THEN NoRecord ELSE records[e]]
  /\ forgetting' = forgetting \ {c}
  /\ UNCHANGED <<challengeVars, claimVars>>

----------------------------------------------------------------------------
(* on_finalize: the challenges listed for this block, in order, on a       *)
(* record of the state.                                                    *)
SlashesAgain(r) == r.failures >= FailureLimit  \* slip: slashed at every failure
Slashes(r) == r.failures >= FailureLimit /\ ~r.slashed

(* do_slash_node: half of the pending rewards go to the repair pool. *)
AfterSlashNode(s, a, c) ==
  LET penalty == s.rewards[a] \div 2
      bond == IF s.stake.bonds[a] = None THEN 0 ELSE s.stake.bonds[a].amount
  IN [s EXCEPT !.records[<<c, a>>].slashed = TRUE,
               !.stake = AfterSlash(@, a, PartOf(SlashRate, bond)),
               !.rewards[a] = @ - penalty,
               !.pools[c] = @ + penalty]

AfterExpiry(s, e) ==
  IF s.pending[e] = None THEN s
  ELSE LET a == s.pending[e].node
           failed == [s EXCEPT !.pending[e] = None,
                               !.records[<<e[1], a>>].failures = @ + 1]
       IN IF Slashes(failed.records[<<e[1], a>>])
          THEN AfterSlashNode(failed, a, e[1]) ELSE failed

ExpiryState ==
  [pending |-> pending, records |-> records, stake |-> StakeState,
   rewards |-> pendingRewards, pools |-> repairPools]

AfterAll(s, due) ==
  LET after[i \in 0..Len(due)] ==
        IF i = 0 THEN s ELSE AfterExpiry(after[i - 1], due[i])
  IN after[Len(due)]

ExpireChallenges ==
  LET s == AfterAll(ExpiryState, dueAt[now])
  IN /\ pending' = s.pending /\ records' = s.records
     /\ StakeBecomes(s.stake)
     /\ pendingRewards' = s.rewards /\ repairPools' = s.pools

HoldingBlockEnd ==
  /\ NextBlock
  /\ ClearBlockCounters
  /\ ExpireChallenges
  /\ dueAt' = [dueAt EXCEPT ![now] = <<>>]
  /\ challengeCount' = [a \in Accounts |-> 0]
  /\ UNCHANGED <<fragments, storageNodes, operatorNodes, fragmentHolders,
                 nodeHoldings, poolVars, fragmentVars, forgetting>>

----------------------------------------------------------------------------
Others == <<registryVars, ledgerVars, stakeVars>>

Registrations ==
  /\ \E a \in Accounts :
       \/ \E p \in Peers, k \in Capacities : RegisterNode(a, p, k, HasBond(a))
       \/ UnregisterNode(a)
  /\ UNCHANGED <<ledgerVars, stakeVars, kzgVars>>

Bonding == StakeOps /\ UNCHANGED <<registryVars, poolVars, kzgVars>>

Stocking ==
  /\ \E c \in Contents : \/ RegisterKzgFragment(c)
                         \/ \E holders \in (SUBSET Accounts) \ {{}} : StockFragment(c, holders)
  /\ UNCHANGED <<Others, challengeVars, records, claimVars, forgetting>>

Challenges ==
  /\ \E issuer, node \in Accounts, c \in Contents, share \in Shares :
       IssueChallenge(issuer, c, node, share)
  /\ UNCHANGED Others

Proofs ==
  /\ \E a \in Accounts, c \in Contents, share \in Shares : ProveHolding(a, c, share)
  /\ UNCHANGED Others

Withdrawals ==
  /\ \E a \in Accounts : ClaimReward(a)
  /\ UNCHANGED <<registryVars, reactionPool, stakeVars>>

Repairs ==
  /\ \E a \in Accounts, c \in Contents :
       \/ \E share \in RepairShares : ConfirmRepair(a, c, share)
       \/ EvictStaleHolder(c, a)
  /\ UNCHANGED Others

Releases ==
  /\ \E c \in Contents : ReleaseFragments({c}) /\ ReleaseKzg(c)
  /\ UNCHANGED <<now, nodeVars, declareCount, ledgerVars, stakeVars>>

HoldingNext ==
  Registrations \/ Bonding \/ Stocking \/ Challenges \/ Proofs \/ Withdrawals
    \/ Repairs \/ Releases \/ HoldingBlockEnd

HoldingSpec == HoldingInit /\ [][HoldingNext]_holdingProofVars

----------------------------------------------------------------------------
KzgTypeOK ==
  /\ kzgHolders \in [Contents -> {None} \cup SUBSET Accounts]
  /\ fragmentState \in [Contents -> {"Active", "AtRisk", "Lost"}]
  /\ pending \in [Contents \X Shares -> Challenge \cup {None}]
  /\ dueAt \in [1..MaxBlock + ChallengeWindow -> Seq(Contents \X Shares)]
  /\ records \in [Contents \X Accounts -> ProofRecord]
  /\ pendingRewards \in [Accounts -> Nat]
  /\ repairPools \in [Contents -> Nat]

HoldingTypeOK ==
  /\ now \in 1..MaxBlock + 1
  /\ LedgerTypeOK
  /\ bonds \in [Accounts -> StakeBond \cup {None}] /\ totalActiveBond \in Nat
  /\ KzgTypeOK

(* A pending challenge is always listed for its own deadline, which is     *)
(* still to come: none is left behind, where it would refuse every later   *)
(* challenge of that share (ChallengeAlreadyIssued) for ever.              *)
EveryChallengeResolves ==
  \A e \in Contents \X Shares : pending[e] # None =>
    /\ pending[e].deadline >= now
    /\ e \in ToSet(dueAt[pending[e].deadline])

(* Rewards are neither lost nor doubled: what is owed to nodes and repair  *)
(* pools together grows only by an answered challenge and shrinks only by  *)
(* what a claim takes from the storage pool; slashes and repairs move it.  *)
Owed == SumFunctionOnSet(pendingRewards, Accounts) + SumFunctionOnSet(repairPools, Contents)
RewardsAccounted ==
  [][\/ Owed' = Owed
     \/ /\ Owed' > Owed
        /\ \E e \in Contents \X Shares :
             pending[e] # None /\ pending'[e] = None /\ now' = now
     \/ Owed - Owed' = storagePool - storagePool']_holdingProofVars

(* The state that gates repair follows the holder list through repairs,   *)
(* evictions, releases and new registrations, once there are holders: no   *)
(* thinned fragment passes for Active and is refused its repair.           *)
StateFollowsHolders ==
  \A c \in Contents : IsKzg(c) /\ kzgHolders[c] # {} =>
    LET n == Cardinality(kzgHolders[c])
    IN /\ fragmentState[c] = "Active" <=> n >= ActiveAt
       /\ fragmentState[c] = "Lost" <=> n < AtRiskAt

(* Repair never overshoots: a fragment has more holders than make it       *)
(* Active only if it started with them, and a repair stops there.          *)
RepairStopsAtActive ==
  [][\A c \in Contents, a \in Accounts :
       Holds(a, c)' /\ IsKzg(c) /\ kzgHolders[c] # {} /\ ~Holds(a, c) =>
         Cardinality(kzgHolders'[c]) <= ActiveAt]_holdingProofVars

(* Contents the node of a is slashed for in a step: the first time for     *)
(* each, after a challenge of a share of it ran out.                       *)
NewlySlashed(a) ==
  {c \in Contents :
     /\ ~records[<<c, a>>].slashed /\ records'[<<c, a>>].slashed
     /\ \E share \in Shares :
          /\ pending[<<c, share>>] # None /\ pending[<<c, share>>].node = a
          /\ pending'[<<c, share>>] = None}

BondAfterSlashes(bond, n) ==
  LET left[k \in Nat] ==
        IF k = 0 THEN bond ELSE left[k - 1] - PartOf(SlashRate, left[k - 1])
  IN left[n]

(* A node loses SlashRate of its bond once per content, however many       *)
(* shares of it run out in one block or later: whatever a block end leaves *)
(* of a bond, and whatever else makes one shrink before its release, is    *)
(* what as many slashes leave as there are contents newly slashed.         *)
SlashedOncePerContent ==
  [][\A a \in Accounts :
       (now' # now \/ ((BondAmount(a))' < BondAmount(a) /\ ~NoticeServed(a))) =>
         (BondAmount(a))' =
           BondAfterSlashes(BondAmount(a), Cardinality(NewlySlashed(a)))]_holdingProofVars

----------------------------------------------------------------------------
(* issue_challenge gives ChallengeWindow blocks: no challenge runs out     *)
(* before its own deadline.                                                *)
ChallengeRunsToDeadline ==
  [][\A e \in Contents \X Shares :
       pending[e] # None /\ pending'[e] = None /\ now' # now =>
         now >= pending[e].deadline]_holdingProofVars

=============================================================================
