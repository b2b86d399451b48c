-------------------------- MODULE StorageRegistry --------------------------
(***************************************************************************)
(* pallet_storage, hash-fragment half: which fragments are registered,     *)
(* which storage nodes exist, and the two mirror maps that say who holds   *)
(* what (FragmentHolders and NodeHoldings).  An extrinsic is transactional *)
(* on this chain, so an action is one extrinsic that succeeded; a refused  *)
(* one leaves the state alone.  BoundedVecs without duplicates are sets.   *)
(***************************************************************************)
EXTENDS FrameSystem

CONSTANTS
  Peers,              \* peer ids that pass validate_peer_id
  Contents,           \* fragment ids = Merkle roots = content hashes
  Capacities,         \* the capacities an operator may announce
  MinNodeCapacity,
  MaxHolders,         \* MaxHoldersPerFragment
  MaxHoldings,        \* MaxFragmentsPerNode
  MaxRegistrations,   \* MaxRegistrationsPerBlock
  MaxDeclarations,    \* MaxDeclarationsPerBlockPerNode
  ObservationPeriod   \* PowObservationPeriod

NodeInfo == [operator : Accounts, capacity : Nat, registeredAt : Nat]

ASSUME RegistryAssumption ==
  /\ Capacities \subseteq Nat
  /\ MinNodeCapacity \in Nat
  /\ MaxHolders \in Nat /\ MaxHoldings \in Nat
  /\ MaxRegistrations \in Nat /\ MaxDeclarations \in Nat
  /\ ObservationPeriod \in Nat
  /\ None \notin Accounts \cup Peers \cup Contents \cup Nat \cup NodeInfo

VARIABLES
  fragments,          \* keys of Fragments
  storageNodes,       \* StorageNodes
  operatorNodes,      \* OperatorNodes
  fragmentHolders,    \* FragmentHolders
  nodeHoldings,       \* NodeHoldings
  registrationCount,  \* RegistrationCountPerBlock: its present keys and values
  declareCount        \* DeclareHoldingCountPerBlock at the current block

nodeVars == <<storageNodes, operatorNodes, registrationCount>>
holdingVars == <<fragmentHolders, nodeHoldings, declareCount>>
registryVars == <<now, fragments, nodeVars, holdingVars>>

Registered(a) == operatorNodes[a] # None

KnownBudget(p) == p \in DOMAIN declareCount  \* slip: the budget is not looked at

FreeToRegister(a, p) == storageNodes[p] = None /\ ~Registered(a)
NoHoldings(p) == nodeHoldings[p] = {}
WithinBudget(p) == declareCount[p] < MaxDeclarations
NewHolding(p, c) == p \notin fragmentHolders[c] \/ c \notin nodeHoldings[p]

----------------------------------------------------------------------------
RegistryInit ==
  /\ now = 1
  /\ fragments = {}
  /\ storageNodes = [p \in Peers |-> None]
  /\ operatorNodes = [a \in Accounts |-> None]
  /\ fragmentHolders = [c \in Contents |-> {}]
  /\ nodeHoldings = [p \in Peers |-> {}]
  /\ registrationCount = [b \in {} |-> 0]
  /\ declareCount = [p \in Peers |-> 0]

(* ValueQuery: an absent key reads as 0. *)
RegistrationsAt(b) ==
  IF b \in DOMAIN registrationCount THEN registrationCount[b] ELSE 0

(* get_recent_registrations: blocks now, now-1, ..., now-ObservationPeriod+1 *)
ObservedBlocks == {b \in 0..now : b > now - ObservationPeriod}

(* The extrinsic register_fragment and the internal call of create_post do *)
(* the same to the map; sizes are only validated.                          *)
RegisterFragment(c) ==
  /\ c \notin fragments
  /\ fragments' = fragments \cup {c}

(* hasBond is what StakeProvider::has_bond answers for the operator.  The  *)
(* proof of work binds the peer id to a nonce anyone can compute.          *)
RegisterNode(a, p, capacity, hasBond) ==
  /\ hasBond
  /\ RegistrationsAt(now) < MaxRegistrations
  /\ capacity >= MinNodeCapacity
  /\ FreeToRegister(a, p)
  /\ storageNodes' = [storageNodes EXCEPT ![p] =
        [operator |-> a, capacity |-> capacity, registeredAt |-> now]]
  /\ operatorNodes' = [operatorNodes EXCEPT ![a] = p]
  /\ registrationCount' =
        [b \in DOMAIN registrationCount \cup {now} |->
           IF b = now THEN RegistrationsAt(now) + 1 ELSE registrationCount[b]]
  /\ UNCHANGED <<now, fragments, holdingVars>>

(* Only capacity > 0 is required here. *)
UpdateNode(a, capacity) ==
  /\ capacity > 0
  /\ Registered(a)
  /\ storageNodes[operatorNodes[a]] # None
  /\ storageNodes' = [storageNodes EXCEPT ![operatorNodes[a]] =
                        [@ EXCEPT !.capacity = capacity]]
  /\ UNCHANGED <<now, fragments, operatorNodes, registrationCount, holdingVars>>

UnregisterNode(a) ==
  /\ Registered(a)
  /\ NoHoldings(operatorNodes[a])
  /\ storageNodes' = [storageNodes EXCEPT ![operatorNodes[a]] = None]
  /\ operatorNodes' = [operatorNodes EXCEPT ![a] = None]
  /\ UNCHANGED <<now, fragments, registrationCount, holdingVars>>

(* Each mirror map is updated only if its own entry is missing, and budget *)
(* is charged only if one of them changed: a repeated declaration is free. *)
DeclareHolding(a, c) ==
  LET p == operatorNodes[a]
  IN /\ Registered(a)
     /\ WithinBudget(p)
     /\ c \in fragments
     /\ p \notin fragmentHolders[c] => Cardinality(fragmentHolders[c]) < MaxHolders
     /\ c \notin nodeHoldings[p] => Cardinality(nodeHoldings[p]) < MaxHoldings
     /\ fragmentHolders' = [fragmentHolders EXCEPT ![c] = @ \cup {p}]
     /\ nodeHoldings' = [nodeHoldings EXCEPT ![p] = @ \cup {c}]
     /\ declareCount' = [declareCount EXCEPT ![p] =
                           IF NewHolding(p, c) THEN @ + 1 ELSE @]
     /\ UNCHANGED <<now, fragments, nodeVars>>

RevokeHolding(a, c) ==
  LET p == operatorNodes[a]
  IN /\ Registered(a)
     /\ p \in fragmentHolders[c]
     /\ c \in nodeHoldings[p]
     /\ fragmentHolders' = [fragmentHolders EXCEPT ![c] = @ \ {p}]
     /\ nodeHoldings' = [nodeHoldings EXCEPT ![p] = @ \ {c}]
     /\ UNCHANGED <<now, fragments, nodeVars, declareCount>>

(* Slip: the holders' NodeHoldings are not pruned. *)
ReleaseUnpruned(released) ==
  /\ fragments' = fragments \ released
  /\ fragmentHolders' =
       [c \in Contents |-> IF c \in released THEN {} ELSE fragmentHolders[c]]
  /\ UNCHANGED nodeHoldings

(* do_release_fragment on a set of contents: drop the fragment, prune it   *)
(* from the holdings of every node the holder list names, drop the list.   *)
ReleaseFragments(released) ==
  /\ fragments' = fragments \ released
  /\ nodeHoldings' =
       [p \in Peers |->
          nodeHoldings[p] \ {c \in released : p \in fragmentHolders[c]}]
  /\ fragmentHolders' =
       [c \in Contents |-> IF c \in released THEN {} ELSE fragmentHolders[c]]

(* on_finalize: the counters of this block are dropped; the next block     *)
(* starts.                                                                 *)
ClearBlockCounters ==
  /\ registrationCount' =
       [b \in DOMAIN registrationCount \ {now} |-> registrationCount[b]]
  /\ declareCount' = [p \in Peers |-> 0]

RegistryBlockEnd ==
  /\ NextBlock
  /\ ClearBlockCounters
  /\ UNCHANGED <<fragments, storageNodes, operatorNodes,
                 fragmentHolders, nodeHoldings>>

NodeOps ==
  \E a \in Accounts :
    \/ \E p \in Peers, k \in Capacities, hasBond \in BOOLEAN :
         RegisterNode(a, p, k, hasBond)
    \/ \E k \in Capacities : UpdateNode(a, k)
    \/ UnregisterNode(a)

HoldingOps ==
  \E a \in Accounts, c \in Contents :
    DeclareHolding(a, c) \/ RevokeHolding(a, c)

(* A fragment registered by the extrinsic, without a post. *)
RegisterFragmentCall ==
  /\ \E c \in Contents : RegisterFragment(c)
  /\ UNCHANGED <<now, nodeVars, holdingVars>>

(* StorageReleaser::release_fragment, called by pallet_popularity. *)
ReleaseFragmentCall ==
  /\ \E c \in Contents : ReleaseFragments({c})
  /\ UNCHANGED <<now, nodeVars, declareCount>>

RegistryNext ==
  NodeOps \/ HoldingOps \/ RegisterFragmentCall \/ ReleaseFragmentCall
    \/ RegistryBlockEnd

RegistrySpec == RegistryInit /\ [][RegistryNext]_registryVars

----------------------------------------------------------------------------
RegistryTypeOK ==
  /\ now \in Nat
  /\ fragments \subseteq Contents
  /\ storageNodes \in [Peers -> NodeInfo \cup {None}]
  /\ operatorNodes \in [Accounts -> Peers \cup {None}]
  /\ fragmentHolders \in [Contents -> SUBSET Peers]
  /\ nodeHoldings \in [Peers -> SUBSET Contents]
  /\ DOMAIN registrationCount \subseteq Nat
  /\ \A b \in DOMAIN registrationCount : registrationCount[b] \in 0..MaxRegistrations
  /\ declareCount \in [Peers -> 0..MaxDeclarations]

(* The two holding maps are mirrors of each other: the six places that     *)
(* write one of them (declare, revoke, release) keep the other in step, so *)
(* no node's quota is held by a fragment that does not list it.            *)
HoldingsMirrored ==
  \A c \in Contents, p \in Peers :
    p \in fragmentHolders[c] <=> c \in nodeHoldings[p]

(* StorageNodes and OperatorNodes are inverse to each other: one node per  *)
(* operator, one operator per peer, through any order of registrations and *)
(* unregistrations that reuse a peer id.                                   *)
OneNodePerOperator ==
  /\ \A p \in Peers : storageNodes[p] # None =>
       operatorNodes[storageNodes[p].operator] = p
  /\ \A a \in Accounts : operatorNodes[a] # None =>
       /\ storageNodes[operatorNodes[a]] # None
       /\ storageNodes[operatorNodes[a]].operator = a

(* A holder list never names a node that has left, and only registered     *)
(* fragments have holders: unregister_node's check of NodeHoldings and the *)
(* pruning in do_release_fragment are both needed for it.                  *)
HoldersAreLive ==
  \A c \in Contents : fragmentHolders[c] # {} =>
    /\ c \in fragments
    /\ \A p \in fragmentHolders[c] : storageNodes[p] # None

(* Every holding a node gains is charged to the budget of its block, and   *)
(* what is charged stays within MaxDeclarations: so a node cannot gain     *)
(* more than MaxDeclarations holdings between two blocks.                  *)
Gained(p) == Cardinality(nodeHoldings'[p] \ nodeHoldings[p])

BudgetCoversGain ==
  [][\A p \in Peers :
       Gained(p) > 0 =>
         declareCount'[p] \in declareCount[p] + Gained(p) .. MaxDeclarations]_registryVars

=============================================================================
