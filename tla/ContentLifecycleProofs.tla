---------------------- MODULE ContentLifecycleProofs ----------------------
(***************************************************************************)
(* Proofs about StorageRegistry and, built on it, ContentLifecycle, for    *)
(* all accounts, peers and contents, every number of posts, every decay    *)
(* function that never raises a score, every key order and every limit.    *)
(* RegistryInv is inductive: the four conjuncts need each other (a revoke  *)
(* keeps the mirror only because both maps are edited, an unregistration   *)
(* keeps holders alive only because of the mirror, a declaration only      *)
(* because operators and peers are inverse).  ContentInv adds to the       *)
(* checked invariants what a step needs to know of the clock: a score was  *)
(* last touched between block 1 and now, so the decay is applied inside    *)
(* its domain.                                                             *)
(***************************************************************************)
EXTENDS ContentLifecycle, NumberFacts

RegistryInv ==
  /\ RegistryTypeOK
  /\ HoldingsMirrored
  /\ OneNodePerOperator
  /\ HoldersAreLive

LEMMA RegistryInitInv == RegistryInit => RegistryInv
BY RegistryAssumption, ChainAssumption
   DEF RegistryInit, RegistryInv, RegistryTypeOK, HoldingsMirrored,
       OneNodePerOperator, HoldersAreLive

(* A registration writes a free peer and a free operator, so it disturbs   *)
(* no holding.                                                             *)
LEMMA RegisterNodeInv ==
  ASSUME RegistryInv, NEW a \in Accounts, NEW p \in Peers,
         NEW k \in Capacities, NEW hasBond \in BOOLEAN,
         RegisterNode(a, p, k, hasBond)
  PROVE  RegistryInv'
<1> USE RegistryAssumption, ChainAssumption DEF RegistryInv
<1>1. storageNodes' \in [Peers -> NodeInfo \cup {None}]
      /\ operatorNodes' \in [Accounts -> Peers \cup {None}]
  BY DEF RegisterNode, RegistryTypeOK, NodeInfo
<1>2. /\ DOMAIN registrationCount' \subseteq Nat
      /\ \A b \in DOMAIN registrationCount' : registrationCount'[b] \in 0..MaxRegistrations
  BY DEF RegisterNode, RegistryTypeOK, RegistrationsAt
<1>3. RegistryTypeOK'
  BY <1>1, <1>2 DEF RegisterNode, RegistryTypeOK, holdingVars
<1>4. HoldingsMirrored'
  BY DEF RegisterNode, HoldingsMirrored, holdingVars
<1>5. OneNodePerOperator'
  BY DEF RegisterNode, FreeToRegister, RegistryTypeOK, OneNodePerOperator,
         Registered, NodeInfo
<1>6. HoldersAreLive'
  BY DEF RegisterNode, FreeToRegister, RegistryTypeOK, HoldersAreLive, holdingVars
<1> QED BY <1>3, <1>4, <1>5, <1>6

LEMMA UpdateNodeInv ==
  ASSUME RegistryInv, NEW a \in Accounts, NEW k \in Capacities,
         UpdateNode(a, k)
  PROVE  RegistryInv'
<1> USE RegistryAssumption, ChainAssumption DEF RegistryInv
<1>1. operatorNodes[a] \in Peers /\ storageNodes[operatorNodes[a]] \in NodeInfo
  BY DEF UpdateNode, Registered, RegistryTypeOK
<1>2. /\ storageNodes' \in [Peers -> NodeInfo \cup {None}]
      /\ storageNodes'[operatorNodes[a]] \in NodeInfo
      /\ storageNodes'[operatorNodes[a]].operator
           = storageNodes[operatorNodes[a]].operator
      /\ \A q \in Peers \ {operatorNodes[a]} : storageNodes'[q] = storageNodes[q]
  <2> DEFINE p == operatorNodes[a]
             info == [storageNodes[p] EXCEPT !.capacity = k]
  <2>1. info \in NodeInfo /\ info.operator = storageNodes[p].operator
    BY <1>1 DEF NodeInfo
  <2>2. storageNodes' = [storageNodes EXCEPT ![p] = info]
    BY DEF UpdateNode
  <2> HIDE DEF info
  <2> QED BY <1>1, <2>1, <2>2 DEF RegistryTypeOK
<1>3. RegistryTypeOK'
  BY <1>2 DEF UpdateNode, RegistryTypeOK, holdingVars
<1>4. HoldingsMirrored'
  BY DEF UpdateNode, HoldingsMirrored, holdingVars
<1>5. OneNodePerOperator'
  BY <1>1, <1>2 DEF UpdateNode, RegistryTypeOK, OneNodePerOperator
<1>6. HoldersAreLive'
  BY <1>1, <1>2 DEF UpdateNode, RegistryTypeOK, HoldersAreLive, holdingVars
<1> QED BY <1>3, <1>4, <1>5, <1>6

(* The node that leaves has no holdings, hence by the mirror no list names *)
(* it.                                                                     *)
LEMMA UnregisterNodeInv ==
  ASSUME RegistryInv, NEW a \in Accounts, UnregisterNode(a)
  PROVE  RegistryInv'
<1> USE RegistryAssumption, ChainAssumption DEF RegistryInv
<1>1. operatorNodes[a] \in Peers
  BY DEF UnregisterNode, Registered, RegistryTypeOK
<1>2. \A c \in Contents : operatorNodes[a] \notin fragmentHolders[c]
  BY <1>1 DEF UnregisterNode, NoHoldings, HoldingsMirrored
<1>3. RegistryTypeOK'
  BY <1>1 DEF UnregisterNode, RegistryTypeOK, holdingVars
<1>4. HoldingsMirrored'
  BY DEF UnregisterNode, HoldingsMirrored, holdingVars
<1>5. OneNodePerOperator'
  BY <1>1 DEF UnregisterNode, RegistryTypeOK, OneNodePerOperator, NodeInfo
<1>6. HoldersAreLive'
  BY <1>1, <1>2 DEF UnregisterNode, RegistryTypeOK, HoldersAreLive, holdingVars
<1> QED BY <1>3, <1>4, <1>5, <1>6

LEMMA DeclareHoldingInv ==
  ASSUME RegistryInv, NEW a \in Accounts, NEW c \in Contents,
         DeclareHolding(a, c)
  PROVE  RegistryInv'
<1> USE RegistryAssumption, ChainAssumption DEF RegistryInv
<1>1. operatorNodes[a] \in Peers /\ storageNodes[operatorNodes[a]] # None
  BY DEF DeclareHolding, Registered, RegistryTypeOK, OneNodePerOperator
<1>2. RegistryTypeOK'
  BY <1>1 DEF DeclareHolding, WithinBudget, RegistryTypeOK, nodeVars
<1>3. HoldingsMirrored'
  BY <1>1 DEF DeclareHolding, RegistryTypeOK, HoldingsMirrored
<1>4. OneNodePerOperator'
  BY DEF DeclareHolding, OneNodePerOperator, nodeVars
<1>5. HoldersAreLive'
  BY <1>1 DEF DeclareHolding, RegistryTypeOK, HoldersAreLive, nodeVars
<1> QED BY <1>2, <1>3, <1>4, <1>5

LEMMA RevokeHoldingInv ==
  ASSUME RegistryInv, NEW a \in Accounts, NEW c \in Contents,
         RevokeHolding(a, c)
  PROVE  RegistryInv'
<1> USE RegistryAssumption, ChainAssumption DEF RegistryInv
<1>1. operatorNodes[a] \in Peers
  BY DEF RevokeHolding, Registered, RegistryTypeOK
<1>2. RegistryTypeOK'
  BY <1>1 DEF RevokeHolding, RegistryTypeOK, nodeVars
<1>3. HoldingsMirrored'
  BY <1>1 DEF RevokeHolding, RegistryTypeOK, HoldingsMirrored
<1>4. OneNodePerOperator'
  BY DEF RevokeHolding, OneNodePerOperator, nodeVars
<1>5. HoldersAreLive'
  BY <1>1 DEF RevokeHolding, RegistryTypeOK, HoldersAreLive, nodeVars
<1> QED BY <1>2, <1>3, <1>4, <1>5

LEMMA RegisterFragmentInv ==
  ASSUME RegistryInv, NEW c \in Contents, RegisterFragment(c),
         UNCHANGED <<now, nodeVars, holdingVars>>
  PROVE  RegistryInv'
BY DEF RegistryInv, RegisterFragment, RegistryTypeOK, HoldingsMirrored,
       OneNodePerOperator, HoldersAreLive, nodeVars, holdingVars

(* Releasing any set of contents, one at a time or several in one pass.    *)
LEMMA ReleaseFragmentsMirror ==
  ASSUME RegistryInv, NEW released \in SUBSET Contents,
         ReleaseFragments(released), UNCHANGED <<storageNodes, operatorNodes>>
  PROVE  /\ fragments' \subseteq Contents
         /\ fragmentHolders' \in [Contents -> SUBSET Peers]
         /\ nodeHoldings' \in [Peers -> SUBSET Contents]
         /\ HoldingsMirrored' /\ OneNodePerOperator' /\ HoldersAreLive'
<1> USE DEF RegistryInv
<1>1. /\ fragments' \subseteq Contents
      /\ fragmentHolders' \in [Contents -> SUBSET Peers]
      /\ nodeHoldings' \in [Peers -> SUBSET Contents]
  BY DEF ReleaseFragments, RegistryTypeOK
<1>2. HoldingsMirrored'
  BY DEF ReleaseFragments, RegistryTypeOK, HoldingsMirrored
<1>3. OneNodePerOperator'
  BY DEF OneNodePerOperator
<1>4. HoldersAreLive'
  BY DEF ReleaseFragments, RegistryTypeOK, HoldersAreLive
<1> QED BY <1>1, <1>2, <1>3, <1>4

(* The counters of the block that ends are dropped.                        *)
LEMMA ClearBlockCountersType ==
  ASSUME RegistryTypeOK, ClearBlockCounters, NextBlock
  PROVE  /\ now' \in Nat
         /\ DOMAIN registrationCount' \subseteq Nat
         /\ \A b \in DOMAIN registrationCount' :
              registrationCount'[b] \in 0..MaxRegistrations
         /\ declareCount' \in [Peers -> 0..MaxDeclarations]
BY RegistryAssumption, ChainAssumption DEF ClearBlockCounters, NextBlock, RegistryTypeOK

LEMMA BlockEndInv ==
  ASSUME RegistryInv, RegistryBlockEnd
  PROVE  RegistryInv'
BY RegistryAssumption, ChainAssumption
   DEF RegistryInv, RegistryBlockEnd, ClearBlockCounters, NextBlock, RegistryTypeOK,
       HoldingsMirrored, OneNodePerOperator, HoldersAreLive

LEMMA RegistryNextInv ==
  ASSUME RegistryInv, [RegistryNext]_registryVars
  PROVE  RegistryInv'
<1>1. CASE NodeOps
  BY <1>1, RegisterNodeInv, UpdateNodeInv, UnregisterNodeInv DEF NodeOps
<1>2. CASE HoldingOps
  BY <1>2, DeclareHoldingInv, RevokeHoldingInv DEF HoldingOps
<1>3. CASE RegisterFragmentCall
  BY <1>3, RegisterFragmentInv DEF RegisterFragmentCall
<1>4. CASE ReleaseFragmentCall
  <2>1. PICK c \in Contents : ReleaseFragments({c})
    BY <1>4 DEF ReleaseFragmentCall
  <2>2. UNCHANGED <<now, nodeVars, declareCount>>
    BY <1>4 DEF ReleaseFragmentCall
  <2>3. {c} \in SUBSET Contents
    OBVIOUS
  <2> QED
    BY <2>1, <2>2, <2>3, ReleaseFragmentsMirror
       DEF RegistryInv, RegistryTypeOK, nodeVars
<1>5. CASE RegistryBlockEnd
  BY <1>5, BlockEndInv
<1>6. CASE UNCHANGED registryVars
  BY <1>6 DEF registryVars, nodeVars, holdingVars, RegistryInv, RegistryTypeOK,
              HoldingsMirrored, OneNodePerOperator, HoldersAreLive
<1> QED BY <1>1, <1>2, <1>3, <1>4, <1>5, <1>6 DEF RegistryNext

(* The registry keeps its two holding maps mirrored, its operator and peer *)
(* maps inverse, and names only live nodes, in every behaviour.            *)
THEOREM RegistryCorrect ==
  RegistrySpec => [](RegistryTypeOK /\ HoldingsMirrored
                     /\ OneNodePerOperator /\ HoldersAreLive)
<1>1. RegistryInit => RegistryInv
  BY RegistryInitInv
<1>2. RegistryInv /\ [RegistryNext]_registryVars => RegistryInv'
  BY RegistryNextInv
<1>3. RegistryInv => RegistryTypeOK /\ HoldingsMirrored
                     /\ OneNodePerOperator /\ HoldersAreLive
  BY DEF RegistryInv
<1> QED BY <1>1, <1>2, <1>3, PTL DEF RegistrySpec

(* How many holdings a step gains: none, or the one declared.              *)
LEMMA GainedFacts ==
  /\ \A p : nodeHoldings'[p] \subseteq nodeHoldings[p] => ~ (Gained(p) > 0)
  /\ \A p, c : nodeHoldings'[p] = nodeHoldings[p] \cup {c} => Gained(p) = 0 \/ Gained(p) = 1
<1>1. ASSUME NEW p, nodeHoldings'[p] \subseteq nodeHoldings[p] PROVE ~ (Gained(p) > 0)
  <2>1. nodeHoldings'[p] \ nodeHoldings[p] = {}
    BY <1>1
  <2>2. Gained(p) = 0
    BY <2>1, FS_EmptySet DEF Gained
  <2> QED BY <2>2
<1>2. ASSUME NEW p, NEW c, nodeHoldings'[p] = nodeHoldings[p] \cup {c}
      PROVE  Gained(p) = 0 \/ Gained(p) = 1
  <2>1. \/ nodeHoldings'[p] \ nodeHoldings[p] = {}
        \/ nodeHoldings'[p] \ nodeHoldings[p] = {c}
    BY <1>2
  <2>2. Cardinality({}) = 0 /\ Cardinality({c}) = 1
    BY FS_EmptySet, FS_Singleton
  <2> QED BY <2>1, <2>2 DEF Gained
<1> QED BY <1>1, <1>2

(* A node gains a holding only by spending declaration budget, and spends  *)
(* no more than there is, so it gains at most MaxDeclarations of them      *)
(* between two block ends.                                                 *)
THEOREM BudgetCoversGainHolds == RegistrySpec => BudgetCoversGain
<1> DEFINE Covered == \A p \in Peers :
             Gained(p) > 0 =>
               declareCount'[p] \in declareCount[p] + Gained(p) .. MaxDeclarations
<1>1. RegistryInv /\ [RegistryNext]_registryVars => [Covered]_registryVars
  <2> SUFFICES ASSUME RegistryInv, RegistryNext PROVE Covered
    OBVIOUS
  <2>0. /\ nodeHoldings \in [Peers -> SUBSET Contents]
        /\ declareCount \in [Peers -> 0..MaxDeclarations] /\ MaxDeclarations \in Nat
    BY RegistryAssumption DEF RegistryInv, RegistryTypeOK
  <2>1. (\A p \in Peers : nodeHoldings'[p] \subseteq nodeHoldings[p]) => Covered
    BY GainedFacts
  <2>2. CASE NodeOps
    <3>1. nodeHoldings' = nodeHoldings
      BY <2>2 DEF NodeOps, RegisterNode, UpdateNode, UnregisterNode, holdingVars
    <3> QED BY <2>1, <3>1
  <2>3. ASSUME NEW a \in Accounts, NEW c \in Contents, DeclareHolding(a, c)
        PROVE  Covered
    <3> DEFINE q == operatorNodes[a]
    <3>1. q \in Peers
      BY <2>3 DEF DeclareHolding, Registered, RegistryInv, RegistryTypeOK
    <3>2. /\ nodeHoldings' = [nodeHoldings EXCEPT ![q] = nodeHoldings[q] \cup {c}]
          /\ declareCount[q] < MaxDeclarations
          /\ declareCount' = [declareCount EXCEPT ![q] =
                                IF NewHolding(q, c) THEN declareCount[q] + 1 ELSE declareCount[q]]
      BY <2>3 DEF DeclareHolding, WithinBudget
    <3>3. c \notin nodeHoldings[q] => NewHolding(q, c)
      BY DEF NewHolding
    <3> HIDE DEF q
    <3> SUFFICES ASSUME NEW p \in Peers, Gained(p) > 0
                 PROVE  declareCount'[p] \in declareCount[p] + Gained(p) .. MaxDeclarations
      OBVIOUS
    <3>4. p = q /\ c \notin nodeHoldings[q]
      <4>1. ~ (nodeHoldings'[p] \subseteq nodeHoldings[p])
        BY GainedFacts
      <4> QED BY <2>0, <3>2, <4>1
    <3>5. Gained(p) = 1
      <4>1. nodeHoldings'[p] = nodeHoldings[p] \cup {c}
        BY <2>0, <3>1, <3>2, <3>4
      <4>2. Gained(p) = 0 \/ Gained(p) = 1
        BY <4>1, GainedFacts
      <4> QED BY <4>2
    <3>6. declareCount'[p] = declareCount[p] + 1 /\ declareCount[p] < MaxDeclarations
      BY <2>0, <3>1, <3>2, <3>3, <3>4
    <3>7. declareCount[p] \in Nat
      BY <2>0
    <3> QED BY <2>0, <3>5, <3>6, <3>7
  <2>4. ASSUME NEW a \in Accounts, NEW c \in Contents, RevokeHolding(a, c)
        PROVE  Covered
    <3>1. \A p \in Peers : nodeHoldings'[p] \subseteq nodeHoldings[p]
      BY <2>0, <2>4 DEF RevokeHolding
    <3> QED BY <2>1, <3>1
  <2>5. CASE RegisterFragmentCall
    <3>1. nodeHoldings' = nodeHoldings
      BY <2>5 DEF RegisterFragmentCall, holdingVars
    <3> QED BY <2>1, <3>1
  <2>6. CASE ReleaseFragmentCall
    <3>1. \A p \in Peers : nodeHoldings'[p] \subseteq nodeHoldings[p]
      BY <2>6 DEF ReleaseFragmentCall, ReleaseFragments
    <3> QED BY <2>1, <3>1
  <2>7. CASE RegistryBlockEnd
    <3>1. nodeHoldings' = nodeHoldings
      BY <2>7 DEF RegistryBlockEnd
    <3> QED BY <2>1, <3>1
  <2> QED BY <2>2, <2>3, <2>4, <2>5, <2>6, <2>7 DEF RegistryNext, HoldingOps
<1>2. RegistrySpec => []RegistryInv
  BY RegistryInitInv, RegistryNextInv, PTL DEF RegistrySpec
<1> QED BY <1>1, <1>2, PTL DEF RegistrySpec, BudgetCoversGain

-----------------------------------------------------------------------------
ClockOK ==
  /\ now \in Nat \ {0}
  /\ now <= MaxBlock + 1
  /\ \A p \in PostIds : scores[p] # None => scores[p].touched \in 1..now

ContentInv ==
  /\ RegistryInv
  /\ ContentTypeOK
  /\ IndexesAgree
  /\ QueueIffMarked
  /\ MarkedBelowRecovery
  /\ ClockOK

LEMMA NoneFacts ==
  /\ None \notin Nat /\ None \notin Post /\ None \notin Score
  /\ \A p \in PostIds : p \in Nat /\ p # None
BY RegistryAssumption, ChainAssumption, ContentAssumption DEF PostIds

LEMMA RecoveryNat == Recovery \in Nat
BY ContentAssumption DEF Recovery

(* A recorded score can be decayed, and does not rise by it. *)
LEMMA EffectiveScoreFact ==
  ASSUME ContentInv, NEW p \in PostIds, scores[p] # None
  PROVE  /\ scores[p] \in Score
         /\ EffectiveScore(scores[p]) \in 0..scores[p].stored
         /\ EffectiveScore(scores[p]) \in 0..MaxScore
<1>1. scores[p] \in Score
  BY DEF ContentInv, ContentTypeOK
<1>2. scores[p].stored \in 0..MaxScore /\ now - scores[p].touched \in 0..MaxBlock
  BY <1>1, RegistryAssumption, ChainAssumption DEF Score, ContentInv, ClockOK
<1>3. EffectiveScore(scores[p]) \in 0..scores[p].stored
  BY <1>2, ContentAssumption DEF EffectiveScore
<1> QED BY <1>1, <1>2, <1>3, ContentAssumption

LEMMA ContentInitInv == ContentInit => ContentInv
<1> SUFFICES ASSUME ContentInit PROVE ContentInv
  OBVIOUS
<1>1. RegistryInv
  BY RegistryInitInv DEF ContentInit
<1>2. ContentTypeOK
  BY ContentAssumption DEF ContentInit, PostInit, ContentTypeOK
<1>3. IndexesAgree /\ QueueIffMarked /\ MarkedBelowRecovery
  BY NoneFacts DEF ContentInit, PostInit, IndexesAgree, QueueIffMarked,
     MarkedBelowRecovery, Live
<1>4. ClockOK
  BY RegistryAssumption, ChainAssumption DEF ContentInit, RegistryInit, PostInit, ClockOK
<1> QED BY <1>1, <1>2, <1>3, <1>4 DEF ContentInv

(* A step that leaves posts, popularity and the clock alone, and drops no  *)
(* fragment.                                                               *)
LEMMA RegistryOpsInv ==
  ASSUME ContentInv, RegistryOps
  PROVE  ContentInv'
<1>1. /\ now' = now /\ fragments \subseteq fragments'
      /\ UNCHANGED <<postVars, reactions, popularityVars>>
  BY DEF RegistryOps, NodeOps, HoldingOps, RegisterFragmentCall, RegisterNode,
     UpdateNode, UnregisterNode, DeclareHolding, RevokeHolding, RegisterFragment
<1>2. RegistryInv'
  BY RegistryNextInv DEF RegistryOps, RegistryNext, ContentInv
<1>3. ContentTypeOK'
  BY <1>1 DEF ContentInv, ContentTypeOK, postVars, popularityVars
<1>4. IndexesAgree'
  <2> SUFFICES ASSUME NEW p \in PostIds, Live(p)'
               PROVE  (posts[p].root \in fragments)'
    BY <1>1 DEF ContentInv, IndexesAgree, Live, postVars, popularityVars
  <2> QED BY <1>1 DEF ContentInv, IndexesAgree, Live, postVars
<1>5. QueueIffMarked' /\ MarkedBelowRecovery'
  BY <1>1 DEF ContentInv, QueueIffMarked, MarkedBelowRecovery, Marked,
     postVars, popularityVars
<1>6. ClockOK'
  BY <1>1 DEF ContentInv, ClockOK, popularityVars
<1> QED BY <1>2, <1>3, <1>4, <1>5, <1>6 DEF ContentInv

LEMMA CreatePostInv ==
  ASSUME ContentInv, NEW a \in Accounts, NEW root \in Contents,
         NEW parent \in PostIds \cup {None}, NEW paid \in BOOLEAN,
         CreatePost(a, root, parent, paid)
  PROVE  ContentInv'
<1> DEFINE id == nextPostId
<1>1. id \in PostIds /\ ~Live(id)
  <2>1. id \in PostIds
    BY ContentAssumption DEF CreatePost, ContentInv, ContentTypeOK, PostIds
  <2>2. Live(id) => id < id
    BY <2>1 DEF ContentInv, IndexesAgree
  <2> QED BY <2>1, <2>2 DEF PostIds
<1>2. RegistryInv'
  BY RegisterFragmentInv DEF CreatePost, ContentInv
<1>3. FreshScore \in Score /\ FreshScore # None
      /\ FreshScore.marked = None /\ FreshScore.touched = now
  BY NoneFacts, ContentAssumption
     DEF FreshScore, Score, ContentInv, ClockOK
<1>4. [author |-> a, root |-> root] \in Post
  BY DEF Post
<1>5. ContentTypeOK'
  <2>1. nextPostId' \in 0..MaxPosts
    BY ContentAssumption DEF CreatePost, ContentInv, ContentTypeOK
  <2>2. posts' \in [PostIds -> Post \cup {None}]
    BY <1>1, <1>4 DEF CreatePost, ContentInv, ContentTypeOK
  <2>3. scores' \in [PostIds -> Score \cup {None}]
    BY <1>1, <1>3 DEF CreatePost, ContentInv, ContentTypeOK
  <2>4. /\ contentRefs' \subseteq PostIds
        /\ rootIndex' \in [Contents -> PostIds \cup {None}]
        /\ userPosts' \in [Accounts -> SUBSET PostIds]
        /\ UNCHANGED <<reactions, queue, scanCursor, deletionCursor>>
    BY <1>1 DEF CreatePost, ContentInv, ContentTypeOK
  <2> QED BY <2>1, <2>2, <2>3, <2>4 DEF ContentInv, ContentTypeOK
<1>6. IndexesAgree'
  <2> SUFFICES ASSUME NEW p \in PostIds
               PROVE  /\ Live(p)' => p < nextPostId' /\ posts'[p].root \in fragments'
                      /\ Live(p)' <=> p \in contentRefs'
                      /\ Live(p)' <=> scores'[p] # None
                      /\ \A c \in Contents :
                           rootIndex'[c] = p <=> Live(p)' /\ posts'[p].root = c
                      /\ \A b \in Accounts :
                           p \in userPosts'[b] <=> Live(p)' /\ posts'[p].author = b
    BY DEF IndexesAgree, Live
  <2>1. CASE p = id
    BY <2>1, <1>1, <1>3, <1>4, NoneFacts
       DEF CreatePost, RegisterFragment, ContentInv, ContentTypeOK, IndexesAgree, Live
  <2>2. CASE p # id
    <3>1. posts'[p] = posts[p] /\ scores'[p] = scores[p]
      BY <2>2, <1>1 DEF CreatePost, ContentInv, ContentTypeOK
    <3>2. \A c \in Contents : rootIndex'[c] = p <=> rootIndex[c] = p
      BY <2>2, NoneFacts DEF CreatePost, ContentInv, ContentTypeOK
    <3>3. Live(p) => posts[p].root \in Contents
      BY DEF Live, Post, ContentInv, ContentTypeOK
    <3>4. \A b \in Accounts : p \in userPosts'[b] <=> p \in userPosts[b]
      BY <2>2 DEF CreatePost, ContentInv, ContentTypeOK
    <3>5. p < nextPostId => p < nextPostId'
      BY DEF CreatePost, ContentInv, ContentTypeOK, PostIds
    <3> QED
      BY <2>2, <3>1, <3>2, <3>3, <3>4, <3>5
         DEF CreatePost, RegisterFragment, ContentInv, IndexesAgree, Live
  <2> QED BY <2>1, <2>2
<1>7. scores[id] = None
  BY <1>1 DEF ContentInv, IndexesAgree
<1>8. QueueIffMarked' /\ MarkedBelowRecovery'
  BY <1>1, <1>3, <1>7 DEF CreatePost, ContentInv, ContentTypeOK, QueueIffMarked,
     MarkedBelowRecovery, Marked
<1>9. ClockOK'
  BY <1>1, <1>3 DEF CreatePost, ContentInv, ContentTypeOK, ClockOK
<1> QED BY <1>2, <1>5, <1>6, <1>8, <1>9 DEF ContentInv

LEMMA SaturatingAddFact ==
  ASSUME NEW s \in 0..MaxScore, NEW w \in Nat
  PROVE  SaturatingAdd(s, w) \in 0..MaxScore
BY ContentAssumption DEF SaturatingAdd

(* A reaction touches one post's score, and its queue entry only with its  *)
(* mark.                                                                   *)
LEMMA ReactInv ==
  ASSUME ContentInv, NEW a \in Accounts, NEW p \in PostIds,
         NEW w \in {LikeWeight, DislikeWeight}, React(a, p, w)
  PROVE  ContentInv'
<1> DEFINE s == scores[p]
           stored == SaturatingAdd(EffectiveScore(s), w)
           new == [stored |-> stored, touched |-> now,
                   marked |-> IF Unmarks(s, stored) THEN None ELSE s.marked]
<1>1. Live(p) /\ s # None /\ ScoreOrFresh(p) = s
  BY DEF React, MayReact, ContentInv, IndexesAgree, ScoreOrFresh
<1>2. s \in Score /\ stored \in 0..MaxScore
  BY <1>1, EffectiveScoreFact, SaturatingAddFact, ContentAssumption
<1>3. /\ new \in Score /\ new # None
      /\ new.stored = stored /\ new.touched = now
      /\ new.marked = IF Unmarks(s, stored) THEN None ELSE s.marked
  BY <1>2, NoneFacts DEF Score, ContentInv, ClockOK
<1>4. /\ scores' = [scores EXCEPT ![p] = new]
      /\ queue' = [queue EXCEPT ![p] = IF Unmarks(s, stored) THEN None ELSE @]
      /\ reactions' = reactions \cup {<<p, a>>}
      /\ UNCHANGED <<registryVars, postVars, scanCursor, deletionCursor>>
  BY <1>1 DEF React
<1> HIDE DEF new
<1>5. RegistryInv'
  BY <1>4, RegistryNextInv DEF ContentInv
<1>6. ContentTypeOK'
  BY <1>3, <1>4, NoneFacts DEF ContentInv, ContentTypeOK, postVars
<1>7. \A q \in PostIds : scores'[q] = IF q = p THEN new ELSE scores[q]
  BY <1>4 DEF ContentInv, ContentTypeOK
<1>8. IndexesAgree'
  BY <1>1, <1>3, <1>4, <1>7
     DEF ContentInv, IndexesAgree, Live, postVars, registryVars
<1>9. QueueIffMarked'
  <2>1. \A q \in PostIds : queue'[q] =
          IF q = p /\ Unmarks(s, stored) THEN None ELSE queue[q]
    BY <1>4 DEF ContentInv, ContentTypeOK
  <2> HIDE DEF s, stored
  <2> QED
    BY <1>1, <1>3, <1>7, <2>1 DEF ContentInv, QueueIffMarked, Marked, Unmarks, s
<1>10. MarkedBelowRecovery'
  <2>1. new.marked # None => new.stored < Recovery
    BY <1>2, <1>3, RecoveryNat DEF Unmarks, Marked
  <2> QED BY <1>7, <2>1 DEF ContentInv, MarkedBelowRecovery, Marked
<1>11. ClockOK'
  BY <1>3, <1>4, <1>7 DEF ContentInv, ClockOK, registryVars
<1> QED BY <1>5, <1>6, <1>8, <1>9, <1>10, <1>11 DEF ContentInv

(* What the scan leaves behind for one post, before anything is deleted.   *)
LEMMA ScanFacts ==
  ASSUME ContentInv, NEW p \in PostIds
  PROVE  /\ ScoresAfterScan[p] \in Score \cup {None}
         /\ QueueAfterScan[p] \in Nat \cup {None}
         /\ ScoresAfterScan[p] = None <=> scores[p] = None
         /\ ScoresAfterScan[p] = None => QueueAfterScan[p] = None
         /\ ScoresAfterScan[p] # None =>
              /\ ScoresAfterScan[p].touched \in 1..now
              /\ IF Marked(ScoresAfterScan[p])
                 THEN /\ QueueAfterScan[p] = ScoresAfterScan[p].marked + GracePeriod
                      /\ ScoresAfterScan[p].stored < Recovery
                 ELSE QueueAfterScan[p] = None
<1>1. CASE p \notin Scanned
  BY <1>1 DEF ScoresAfterScan, QueueAfterScan, ContentInv, ContentTypeOK,
     QueueIffMarked, MarkedBelowRecovery, ClockOK
<1>2. CASE p \in Scanned
  <2> DEFINE s == scores[p]
             e == EffectiveScore(s)
             new == [stored |-> e, touched |-> now,
                     marked |-> IF Marks(s) THEN now
                                ELSE IF Unmarks(s, e) THEN None ELSE s.marked]
  <2>1. s # None
    BY <1>2 DEF Scanned
  <2>2. s \in Score /\ e \in 0..s.stored /\ e \in 0..MaxScore
    BY <2>1, EffectiveScoreFact
  <2>3. /\ new \in Score /\ new # None /\ new.stored = e /\ new.touched = now
        /\ new.marked = IF Marks(s) THEN now
                        ELSE IF Unmarks(s, e) THEN None ELSE s.marked
    BY <2>2, NoneFacts DEF Score, ContentInv, ClockOK
  <2>4. ScoresAfterScan[p] = new
    BY <1>2 DEF ScoresAfterScan
  <2>5. QueueAfterScan[p] = IF Marks(s) THEN now + GracePeriod
                            ELSE IF Unmarks(s, e) THEN None ELSE queue[p]
    BY <1>2 DEF QueueAfterScan
  <2>6. now \in Nat \ {0} /\ now # None /\ GracePeriod \in Nat
    BY ContentAssumption, NoneFacts DEF ContentInv, ClockOK
  <2>7. s.stored \in Nat /\ e \in Nat
    BY <2>2 DEF Score
  <2>8. LowPopularityThreshold <= Recovery /\ Recovery \in Nat
        /\ LowPopularityThreshold \in Nat
    BY ContentAssumption DEF Recovery
  <2>9. queue[p] \in Nat \cup {None}
        /\ IF Marked(s) THEN queue[p] = s.marked + GracePeriod /\ s.stored < Recovery
           ELSE queue[p] = None
    BY <2>1 DEF ContentInv, ContentTypeOK, QueueIffMarked, MarkedBelowRecovery
  <2> HIDE DEF s, e, new
  <2>10. CASE Marks(s)
    <3>1. e < LowPopularityThreshold
      BY <2>10 DEF Marks, e, s
    <3> QED BY <2>1, <2>3, <2>4, <2>5, <2>6, <2>7, <2>8, <2>10, <3>1 DEF Marked, s
  <2>11. CASE ~Marks(s)
    <3>1. new.marked = IF Unmarks(s, e) THEN None ELSE s.marked
      BY <2>3, <2>11
    <3>2. QueueAfterScan[p] = IF Unmarks(s, e) THEN None ELSE queue[p]
      BY <2>5, <2>11
    <3>3. Marked(s) => e < Recovery
      BY <2>2, <2>7, <2>8, <2>9
    <3> QED
      BY <2>1, <2>3, <2>4, <2>6, <2>9, <3>1, <3>2, <3>3 DEF Marked, Unmarks, s
  <2> QED BY <2>10, <2>11
<1> QED BY <1>1, <1>2

(* The two passes and the release, seen from one post: it is deleted, it   *)
(* only leaves the queue, or it is as the scan left it.                    *)
LEMMA EndBlockInv ==
  ASSUME ContentInv, EndBlock
  PROVE  ContentInv'
<1> DEFINE Q == QueueAfterScan
           candidates == Candidates(Q)
           deleted == {p \in candidates : Live(p)}
           roots == {posts[p].root : p \in deleted}
<1>1. candidates \subseteq PostIds /\ deleted \subseteq candidates
  BY DEF Candidates, Read, Rest
<1>2. roots \subseteq Contents
  BY <1>1 DEF Live, Post, ContentInv, ContentTypeOK
<1>3. /\ scores' = [p \in PostIds |->
                      IF p \in deleted THEN None ELSE ScoresAfterScan[p]]
      /\ queue' = [p \in PostIds |-> IF p \in candidates THEN None ELSE Q[p]]
      /\ posts' = [p \in PostIds |-> IF p \in deleted THEN None ELSE posts[p]]
      /\ contentRefs' = contentRefs \ deleted
      /\ rootIndex' = [c \in Contents |-> IF c \in roots THEN None ELSE rootIndex[c]]
      /\ userPosts' = [a \in Accounts |->
           userPosts[a] \ {p \in deleted : posts[p].author = a}]
      /\ ReleaseFragments(roots)
      /\ ClearBlockCounters
      /\ NextBlock
      /\ scanCursor' = ScanCursorAfter
      /\ deletionCursor' \in DeletionCursorAfter(Q)
      /\ UNCHANGED <<storageNodes, operatorNodes, nextPostId, reactions>>
  BY DEF EndBlock, RootsFreed
<1>4. \A p \in candidates : Q[p] # None
  BY DEF Candidates, Due
<1>5. ScanCursorAfter \in Nat /\ DeletionCursorAfter(Q) \subseteq PostIds \cup {None}
  BY ContentAssumption DEF ScanCursorAfter, DeletionCursorAfter, Read, Rest,
     ContentInv, ContentTypeOK
<1> HIDE DEF candidates, roots, Q
<1>6. RegistryInv'
  <2>1. roots \in SUBSET Contents /\ RegistryInv /\ RegistryTypeOK
    BY <1>2 DEF ContentInv, RegistryInv
  <2>2. /\ fragments' \subseteq Contents
        /\ fragmentHolders' \in [Contents -> SUBSET Peers]
        /\ nodeHoldings' \in [Peers -> SUBSET Contents]
        /\ HoldingsMirrored' /\ OneNodePerOperator' /\ HoldersAreLive'
    BY <1>3, <2>1, ReleaseFragmentsMirror
  <2>3. RegistryTypeOK'
    BY <1>3, <2>1, <2>2, ClearBlockCountersType DEF RegistryTypeOK
  <2> QED BY <2>2, <2>3 DEF RegistryInv
<1>7. ContentTypeOK'
  <2>1. scores' \in [PostIds -> Score \cup {None}]
    BY <1>3, ScanFacts
  <2>2. queue' \in [PostIds -> Nat \cup {None}]
    BY <1>3, ScanFacts DEF Q
  <2>3. /\ posts' \in [PostIds -> Post \cup {None}]
        /\ contentRefs' \subseteq PostIds
        /\ rootIndex' \in [Contents -> PostIds \cup {None}]
        /\ userPosts' \in [Accounts -> SUBSET PostIds]
    BY <1>3 DEF ContentInv, ContentTypeOK
  <2> QED BY <1>3, <1>5, <2>1, <2>2, <2>3 DEF ContentInv, ContentTypeOK
(* Distinct live posts have distinct roots, since the reverse map names    *)
(* one post per root: deleting one frees no other post's root.             *)
<1>8. \A p \in PostIds : Live(p) => (posts[p].root \in roots <=> p \in deleted)
  <2> SUFFICES ASSUME NEW p \in PostIds, Live(p), NEW r \in deleted,
                      posts[p].root = posts[r].root
               PROVE  p = r
    BY DEF roots
  <2>1. r \in PostIds /\ Live(r) /\ posts[r].root \in Contents
    BY <1>1 DEF Live, Post, ContentInv, ContentTypeOK
  <2>2. rootIndex[posts[r].root] = r /\ rootIndex[posts[r].root] = p
    BY <2>1 DEF ContentInv, IndexesAgree
  <2> QED BY <2>2
<1>9. IndexesAgree'
  <2> SUFFICES ASSUME NEW p \in PostIds
               PROVE  /\ Live(p)' => p < nextPostId' /\ posts'[p].root \in fragments'
                      /\ Live(p)' <=> p \in contentRefs'
                      /\ Live(p)' <=> scores'[p] # None
                      /\ \A c \in Contents :
                           rootIndex'[c] = p <=> Live(p)' /\ posts'[p].root = c
                      /\ \A b \in Accounts :
                           p \in userPosts'[b] <=> Live(p)' /\ posts'[p].author = b
    BY DEF IndexesAgree, Live
  <2>1. CASE p \in deleted
    <3>1. Live(p) /\ ~Live(p)' /\ scores'[p] = None /\ p \notin contentRefs'
      BY <1>3, <2>1 DEF Live
    <3>2. \A c \in Contents : rootIndex'[c] # p
      <4> SUFFICES ASSUME NEW c \in Contents, rootIndex[c] = p, c \notin roots
                   PROVE  FALSE
        BY <1>3, NoneFacts
      <4> QED BY <1>8, <2>1 DEF ContentInv, IndexesAgree, roots
    <3>3. \A b \in Accounts : p \notin userPosts'[b]
      <4> SUFFICES ASSUME NEW b \in Accounts PROVE p \notin userPosts'[b]
        OBVIOUS
      <4>1. p \in userPosts[b] => posts[p].author = b
        BY DEF ContentInv, IndexesAgree
      <4>2. userPosts'[b] = userPosts[b] \ {r \in deleted : posts[r].author = b}
        BY <1>3
      <4> HIDE DEF deleted
      <4> QED BY <2>1, <4>1, <4>2
    <3> QED BY <3>1, <3>2, <3>3
  <2>2. CASE p \notin deleted /\ Live(p)
    <3>1. posts'[p] = posts[p] /\ Live(p)' /\ posts[p].root \in Contents
      BY <1>3, <2>2 DEF Live, Post, ContentInv, ContentTypeOK
    <3>2. posts[p].root \notin roots
      BY <1>8, <2>2
    <3>3. posts[p].root \in fragments'
      BY <1>3, <2>2, <3>2 DEF ContentInv, IndexesAgree, ReleaseFragments
    <3>4. \A c \in Contents : rootIndex'[c] = p <=> posts[p].root = c
      BY <1>3, <2>2, <3>1, <3>2, NoneFacts DEF ContentInv, IndexesAgree
    <3>5. scores'[p] # None
      BY <1>3, <2>2, ScanFacts DEF ContentInv, IndexesAgree
    <3> QED
      BY <1>3, <2>2, <3>1, <3>3, <3>4, <3>5 DEF ContentInv, IndexesAgree
  <2>3. CASE ~Live(p)
    <3>1. p \notin deleted /\ ~Live(p)' /\ scores'[p] = None
      BY <1>3, <2>3, ScanFacts DEF ContentInv, IndexesAgree, Live
    <3>2. \A c \in Contents : rootIndex'[c] # p
      BY <1>3, <2>3, NoneFacts DEF ContentInv, IndexesAgree
    <3> QED BY <1>3, <2>3, <3>1, <3>2 DEF ContentInv, IndexesAgree
  <2> QED BY <2>1, <2>2, <2>3
(* A candidate is queued, so its post still exists and is deleted.         *)
<1>10. candidates = deleted
  <2> SUFFICES ASSUME NEW p \in candidates PROVE Live(p)
    BY <1>1
  <2>1. Q[p] # None /\ p \in PostIds
    BY <1>1, <1>4
  <2>2. scores[p] # None
    BY <2>1, ScanFacts DEF Q
  <2> QED BY <2>1, <2>2 DEF ContentInv, IndexesAgree
<1>11. QueueIffMarked'
  <2> SUFFICES ASSUME NEW p \in PostIds
               PROVE  IF scores'[p] # None /\ Marked(scores'[p])
                      THEN queue'[p] = scores'[p].marked + GracePeriod
                      ELSE queue'[p] = None
    BY DEF QueueIffMarked, Marked
  <2>1. CASE p \in deleted
    BY <1>3, <1>10, <2>1
  <2>2. CASE p \notin deleted
    <3>1. scores'[p] = ScoresAfterScan[p] /\ queue'[p] = QueueAfterScan[p]
      BY <1>3, <1>10, <2>2 DEF Q
    <3> QED BY <3>1, ScanFacts
  <2> QED BY <2>1, <2>2
<1>12. MarkedBelowRecovery'
  BY <1>3, ScanFacts DEF MarkedBelowRecovery, Marked
<1>13. ClockOK'
  <2>1. now' = now + 1 /\ now < MaxBlock
    BY <1>3 DEF NextBlock
  <2>2. \A p \in PostIds : scores'[p] # None => scores'[p].touched \in 1..now
    BY <1>3, ScanFacts
  <2> QED BY <2>1, <2>2, RegistryAssumption, ChainAssumption DEF ContentInv, ClockOK
<1> QED BY <1>6, <1>7, <1>9, <1>11, <1>12, <1>13 DEF ContentInv

LEMMA ContentNextInv ==
  ASSUME ContentInv, [ContentNext]_contentVars
  PROVE  ContentInv'
<1>1. CASE RegistryOps
  BY <1>1, RegistryOpsInv
<1>2. CASE PostOps
  BY <1>2, CreatePostInv DEF PostOps
<1>3. CASE ReactionOps
  BY <1>3, ReactInv DEF ReactionOps
<1>4. CASE EndBlock
  BY <1>4, EndBlockInv
<1>5. CASE UNCHANGED contentVars
  <2>1. UNCHANGED <<registryVars, now, fragments, postVars, reactions, popularityVars>>
    BY <1>5 DEF contentVars, registryVars
  <2>2. RegistryInv'
    BY <2>1, RegistryNextInv DEF ContentInv
  <2> QED
    BY <2>1, <2>2 DEF ContentInv, ContentTypeOK, IndexesAgree, QueueIffMarked,
       MarkedBelowRecovery, ClockOK, Live, Marked, postVars, popularityVars
<1> QED BY <1>1, <1>2, <1>3, <1>4, <1>5 DEF ContentNext

LEMMA ContentInvHolds == ContentSpec => []ContentInv
BY ContentInitInv, ContentNextInv, PTL DEF ContentSpec

(* The post's five indexes, the popularity marks and the deletion queue    *)
(* agree in every behaviour, for any number of posts and any limits.       *)
THEOREM ContentCorrect ==
  ContentSpec => [](ContentTypeOK /\ IndexesAgree /\ QueueIffMarked
                    /\ MarkedBelowRecovery)
<1>1. ContentInv => ContentTypeOK /\ IndexesAgree /\ QueueIffMarked
                    /\ MarkedBelowRecovery
  BY DEF ContentInv
<1> QED BY <1>1, ContentInvHolds, PTL

(* The registry's invariant survives the deletions that popularity drives. *)
THEOREM ContentHoldersAreLive ==
  ContentSpec => [](HoldersAreLive /\ HoldingsMirrored)
<1>1. ContentInv => HoldersAreLive /\ HoldingsMirrored
  BY DEF ContentInv, RegistryInv
<1> QED BY <1>1, ContentInvHolds, PTL

(* Only the end of a block deletes a post.                                 *)
LEMMA OnlyEndBlockDeletes ==
  ASSUME ContentInv, [ContentNext]_contentVars, NEW p \in PostIds,
         Live(p), posts'[p] = None
  PROVE  EndBlock
<1>1. CASE RegistryOps \/ ReactionOps \/ UNCHANGED contentVars
  BY <1>1 DEF RegistryOps, ReactionOps, React, contentVars, postVars, Live
<1>2. CASE PostOps
  <2>1. PICK a \in Accounts, c \in Contents, parent \in PostIds \cup {None},
             paid \in BOOLEAN : CreatePost(a, c, parent, paid)
    BY <1>2 DEF PostOps
  <2>2. posts'[p] \in {posts[p], [author |-> a, root |-> c]}
    BY <2>1 DEF CreatePost, ContentInv, ContentTypeOK
  <2>3. [author |-> a, root |-> c] \in Post
    BY DEF Post
  <2> QED BY <2>2, <2>3, NoneFacts DEF Live
<1> QED BY <1>1, <1>2 DEF ContentNext

(* A deleted post was due after the scan of the block that deletes it.     *)
LEMMA DeletedIsDue ==
  ASSUME EndBlock, NEW p \in PostIds, Live(p), posts'[p] = None
  PROVE  QueueAfterScan[p] # None /\ now >= QueueAfterScan[p]
BY DEF EndBlock, Candidates, Due, Live

(* No post is deleted early or with a score that has recovered, whatever   *)
(* reactions and scans did between its mark and its end.                   *)
THEOREM DeletedOnlyWhenDueHolds == ContentSpec => DeletedOnlyWhenDue
<1> DEFINE Due1(p) ==
      Live(p) /\ posts'[p] = None =>
        /\ now' = now + 1
        /\ Decay(scores[p].stored, now - scores[p].touched) < Recovery
        /\ GracePeriod > 0 =>
             Marked(scores[p]) /\ now >= scores[p].marked + GracePeriod
<1>1. ASSUME ContentInv, [ContentNext]_contentVars, NEW p \in PostIds
      PROVE  Due1(p)
  <2> SUFFICES ASSUME Live(p), posts'[p] = None
               PROVE  /\ now' = now + 1
                      /\ EffectiveScore(scores[p]) < Recovery
                      /\ GracePeriod > 0 =>
                           /\ Marked(scores[p])
                           /\ now >= scores[p].marked + GracePeriod
    BY DEF EffectiveScore
  <2>1. EndBlock
    BY <1>1, OnlyEndBlockDeletes
  <2>2. now' = now + 1
    BY <2>1 DEF EndBlock, NextBlock
  <2>3. QueueAfterScan[p] # None /\ now >= QueueAfterScan[p]
    BY <2>1, DeletedIsDue
  <2>4. scores[p] # None
    BY <1>1 DEF ContentInv, IndexesAgree
  <2>5. /\ scores[p] \in Score
        /\ EffectiveScore(scores[p]) \in 0..scores[p].stored
        /\ scores[p].stored \in Nat
    BY <1>1, <2>4, EffectiveScoreFact DEF Score
  <2>6. now \in Nat /\ GracePeriod \in Nat /\ Recovery \in Nat
        /\ LowPopularityThreshold \in Nat /\ LowPopularityThreshold <= Recovery
    BY <1>1, ContentAssumption DEF ContentInv, ClockOK, Recovery
  <2>7. IF Marked(scores[p])
        THEN queue[p] = scores[p].marked + GracePeriod /\ scores[p].stored < Recovery
        ELSE queue[p] = None
    BY <1>1, <2>4 DEF ContentInv, QueueIffMarked, MarkedBelowRecovery
  <2>8. CASE p \in Scanned /\ Marks(scores[p])
    <3>1. QueueAfterScan[p] = now + GracePeriod
      BY <2>8 DEF QueueAfterScan
    <3>2. ~(GracePeriod > 0)
      BY <2>3, <2>6, <3>1
    <3>3. EffectiveScore(scores[p]) < Recovery
      BY <2>5, <2>6, <2>8 DEF Marks
    <3> QED BY <2>2, <3>2, <3>3
  <2>9. CASE ~(p \in Scanned /\ Marks(scores[p]))
    <3>1. QueueAfterScan[p] = queue[p]
      BY <2>3, <2>9 DEF QueueAfterScan
    <3>2. /\ Marked(scores[p])
          /\ now >= scores[p].marked + GracePeriod
          /\ scores[p].stored < Recovery
      BY <2>3, <2>7, <3>1
    <3>3. EffectiveScore(scores[p]) < Recovery
      BY <2>5, <2>6, <3>2
    <3> QED BY <2>2, <3>2, <3>3
  <2> QED BY <2>8, <2>9
<1>2. ContentInv /\ [ContentNext]_contentVars => \A p \in PostIds : Due1(p)
  BY <1>1
<1> QED BY <1>2, ContentInvHolds, PTL DEF ContentSpec, DeletedOnlyWhenDue

(* An id whose post has gone gets nothing back: no post, score, queue      *)
(* entry or reaction.                                                      *)
THEOREM GoneForGoodHolds == ContentSpec => GoneForGood
<1> DEFINE StaysGone(p) ==
      p < nextPostId /\ ~Live(p) =>
        /\ posts'[p] = None /\ scores'[p] = None /\ queue'[p] = None
        /\ \A a \in Accounts : <<p, a>> \in reactions' => <<p, a>> \in reactions
<1>1. ASSUME ContentInv, [ContentNext]_contentVars, NEW p \in PostIds
      PROVE  StaysGone(p)
  <2> SUFFICES ASSUME p < nextPostId, ~Live(p)
               PROVE  /\ posts'[p] = None
                      /\ \A a \in Accounts :
                           <<p, a>> \in reactions' => <<p, a>> \in reactions
    <3>1. ContentInv'
      BY <1>1, ContentNextInv
    <3> QED BY <3>1 DEF ContentInv, IndexesAgree, QueueIffMarked, Live
  <2>1. posts[p] = None
    BY DEF Live
  <2>2. CASE RegistryOps \/ UNCHANGED contentVars
    BY <2>1, <2>2 DEF RegistryOps, contentVars, postVars
  <2>3. CASE PostOps
    BY <1>1, <2>1, <2>3 DEF PostOps, CreatePost, ContentInv, ContentTypeOK, PostIds
  <2>4. CASE ReactionOps
    BY <2>1, <2>4 DEF ReactionOps, React, MayReact, Live, postVars
  <2>5. CASE EndBlock
    BY <2>1, <2>5 DEF EndBlock
  <2> QED BY <1>1, <2>2, <2>3, <2>4, <2>5 DEF ContentNext
<1>2. ContentInv /\ [ContentNext]_contentVars => \A p \in PostIds : StaysGone(p)
  BY <1>1
<1> QED BY <1>2, ContentInvHolds, PTL DEF ContentSpec, GoneForGood
-----------------------------------------------------------------------------
(* PostFate's variables, as ImplementsPostFate reads them.                 *)
Notices == [p \in MarkedPosts |-> scores[p].marked]
Departed == {p \in PostIds : p < nextPostId /\ ~Live(p)}

(* The first state of the pallets is the first state of PostFate.          *)
LEMMA FateStarts ==
  ASSUME ContentInit
  PROVE  Fate!FateInit
<1>1. MarkedPosts = {} /\ Departed = {}
  BY DEF ContentInit, PostInit, MarkedPosts, Departed, Live, PostIds
<1>2. Notices = [p \in {} |-> 0]
  BY <1>1 DEF Notices
<1>3. now = 1 /\ nextPostId = 0
  BY DEF ContentInit, RegistryInit, PostInit
<1> QED BY <1>1, <1>2, <1>3 DEF Fate!FateInit, Notices, Departed

(* What leaves posts, marks and the clock alone is no step of PostFate.    *)
LEMMA FateStutters ==
  ASSUME UNCHANGED <<now, nextPostId, posts>>,
         \A p \in PostIds : Live(p) =>
           /\ Marked(scores[p])' <=> Marked(scores[p])
           /\ scores'[p].marked = scores[p].marked
  PROVE  UNCHANGED Fate!fateVars
<1>1. MarkedPosts' = MarkedPosts /\ Departed' = Departed
  BY DEF MarkedPosts, Departed, Live
<1>2. \A p \in MarkedPosts : scores'[p].marked = scores[p].marked
  BY DEF MarkedPosts
<1>3. Notices' = Notices
  BY <1>1, <1>2 DEF Notices
<1> QED BY <1>1, <1>3 DEF Fate!fateVars, Notices, Departed

(* create_post publishes.                                                  *)
LEMMA CreatePostPublishes ==
  ASSUME ContentInv, NEW a \in Accounts, NEW root \in Contents,
         NEW parent \in PostIds \cup {None}, NEW paid \in BOOLEAN,
         CreatePost(a, root, parent, paid)
  PROVE  Fate!Publish
<1>0. PICK id : id = nextPostId
  OBVIOUS
<1>1. id \in PostIds /\ ~Live(id)
  <2>1. id \in PostIds
    BY <1>0, ContentAssumption DEF CreatePost, ContentInv, ContentTypeOK, PostIds
  <2>2. Live(id) => id < id
    BY <1>0, <2>1 DEF ContentInv, IndexesAgree
  <2> QED BY <2>1, <2>2 DEF PostIds
<1>2. \A p \in PostIds : p # id => posts'[p] = posts[p] /\ scores'[p] = scores[p]
  BY <1>0 DEF CreatePost, ContentInv, ContentTypeOK
<1>3. posts'[id] = [author |-> a, root |-> root] /\ scores'[id] = FreshScore
  BY <1>0, <1>1 DEF CreatePost, ContentInv, ContentTypeOK
<1>4. posts'[id] # None /\ ~Marked(scores[id])'
  BY <1>3, NoneFacts DEF Post, FreshScore, Marked
<1>5. MarkedPosts' = MarkedPosts
  BY <1>1, <1>2, <1>4 DEF MarkedPosts, Live, Marked
<1>6. Departed' = Departed
  <2>1. nextPostId' = id + 1 /\ id \in Nat
    BY <1>0, <1>1 DEF CreatePost, PostIds
  <2>2. \A p \in PostIds : p < id + 1 <=> p < id \/ p = id
    BY <2>1 DEF PostIds
  <2>3. posts'[id] # None /\ id \notin Departed
    BY <1>0, <1>1, <1>4, <2>1 DEF Departed, PostIds
  <2>4. ASSUME NEW p \in PostIds
        PROVE  p \in Departed' <=> p \in Departed
    <3>1. CASE p = id
      BY <2>3, <3>1 DEF Departed, Live
    <3>2. CASE p # id
      BY <1>0, <1>2, <2>1, <2>2, <3>2 DEF Departed, Live
    <3> QED BY <3>1, <3>2
  <2> QED BY <2>4 DEF Departed
<1>7. \A p \in MarkedPosts : scores'[p].marked = scores[p].marked
  BY <1>1, <1>2 DEF MarkedPosts
<1>8. Notices' = Notices
  BY <1>5, <1>7 DEF Notices
<1>9. nextPostId < MaxPosts /\ nextPostId' = nextPostId + 1 /\ now' = now
  BY DEF CreatePost
<1> QED BY <1>0, <1>6, <1>8, <1>9 DEF Fate!Publish, Notices, Departed

(* A reaction reprieves the post whose mark it takes away, or no post.     *)
LEMMA ReactReprieves ==
  ASSUME ContentInv, NEW a \in Accounts, NEW p \in PostIds,
         NEW w \in {LikeWeight, DislikeWeight}, React(a, p, w)
  PROVE  (p \in MarkedPosts /\ Fate!Reprieve(p)) \/ UNCHANGED Fate!fateVars
<1> DEFINE s == scores[p]
           stored == SaturatingAdd(EffectiveScore(s), w)
<1>1. Live(p) /\ s # None /\ ScoreOrFresh(p) = s
  BY DEF React, MayReact, ContentInv, IndexesAgree, ScoreOrFresh
<1>2. UNCHANGED <<now, nextPostId, posts>>
  BY DEF React, registryVars, postVars
<1>3. \A q \in PostIds : q # p => scores'[q] = scores[q]
  BY DEF React, ContentInv, ContentTypeOK
<1>4. scores'[p].marked = IF Unmarks(s, stored) THEN None ELSE s.marked
  BY <1>1 DEF React, ContentInv, ContentTypeOK
<1> HIDE DEF stored
<1>5. CASE ~Unmarks(s, stored)
  <2>1. \A q \in PostIds : Live(q) =>
          /\ Marked(scores[q])' <=> Marked(scores[q])
          /\ scores'[q].marked = scores[q].marked
    BY <1>3, <1>4, <1>5 DEF Marked
  <2> QED BY <1>2, <2>1, FateStutters
<1>6. CASE Unmarks(s, stored)
  <2>1. p \in MarkedPosts
    BY <1>1, <1>6 DEF MarkedPosts, Unmarks
  <2>2. MarkedPosts' = MarkedPosts \ {p} /\ Departed' = Departed
    BY <1>2, <1>3, <1>4, <1>6 DEF MarkedPosts, Departed, Live, Marked
  <2>3. \A q \in MarkedPosts \ {p} : scores'[q].marked = scores[q].marked
    BY <1>3 DEF MarkedPosts
  <2>4. Notices' = [q \in MarkedPosts \ {p} |-> scores[q].marked]
    BY <2>2, <2>3 DEF Notices
  <2>5. Notices' = [q \in DOMAIN Notices \ {p} |-> Notices[q]]
    BY <2>4 DEF Notices
  <2> QED BY <1>2, <2>1, <2>2, <2>5 DEF Fate!Reprieve, Notices, Departed
<1> QED BY <1>5, <1>6

(* The hooks of a block's end condemn what the scan marks, reprieve what   *)
(* it unmarks, and delete what the deletion pass deletes.                  *)
LEMMA EndBlockIsBlockEnd ==
  ASSUME ContentInv, EndBlock
  PROVE  \E condemn, reprieve, delete \in SUBSET (0..MaxPosts-1) :
           Fate!BlockEnd(condemn, reprieve, delete)
<1> DEFINE Q == QueueAfterScan
           deleted == {p \in Candidates(Q) : Live(p)}
           marking == {p \in Scanned : Marks(scores[p])}
           saving == {p \in MarkedPosts : p \in Scanned
                                          /\ Unmarks(scores[p], EffectiveScore(scores[p]))}
           under == (MarkedPosts \ saving) \cup marking
           since(p) == IF p \in marking THEN now ELSE Notices[p]
<1>1. /\ scores' = [p \in PostIds |->
                      IF p \in deleted THEN None ELSE ScoresAfterScan[p]]
      /\ posts' = [p \in PostIds |-> IF p \in deleted THEN None ELSE posts[p]]
      /\ now' = now + 1
      /\ nextPostId' = nextPostId
  BY DEF EndBlock, NextBlock
<1>2. deleted \subseteq PostIds
  BY DEF Candidates, Read, Rest
<1>3. \A p \in deleted : Q[p] # None /\ now >= Q[p]
  BY DEF Candidates, Due
<1>4. Scanned \subseteq PostIds
  <2> SUFFICES ASSUME NEW p \in ScanWindow PROVE p \in PostIds
    BY DEF Scanned
  <2>1. PICK i \in 0..ScanLimit-1 : nextPostId # 0 /\ p = (scanCursor + i) % nextPostId
    BY DEF ScanWindow
  <2>2. nextPostId \in 0..MaxPosts /\ scanCursor \in Nat /\ nextPostId > 0
    BY <2>1 DEF ContentInv, ContentTypeOK
  <2> QED BY <2>1, <2>2, ContentAssumption DEF PostIds
(* After the scan a live post carries a mark just when it is under notice. *)
<1>5. \A p \in PostIds : Live(p) =>
        /\ p \in under <=> Marked(ScoresAfterScan[p])
        /\ p \in under => ScoresAfterScan[p].marked = since(p)
  <2> SUFFICES ASSUME NEW p \in PostIds, Live(p)
               PROVE  /\ p \in under <=> Marked(ScoresAfterScan[p])
                      /\ p \in under => ScoresAfterScan[p].marked = since(p)
    OBVIOUS
  <2>1. now # None
    BY NoneFacts DEF ContentInv, ClockOK
  <2>2. p \in MarkedPosts <=> Marked(scores[p])
    BY DEF MarkedPosts
  <2>3. CASE p \notin Scanned
    BY <2>2, <2>3 DEF ScoresAfterScan, Notices
  <2>4. CASE p \in Scanned
    <3>1. ScoresAfterScan[p].marked =
            IF Marks(scores[p]) THEN now
            ELSE IF Unmarks(scores[p], EffectiveScore(scores[p])) THEN None
            ELSE scores[p].marked
      BY <2>4 DEF ScoresAfterScan
    <3>2. Marks(scores[p]) => ~Marked(scores[p])
      BY DEF Marks
    <3>3. p \in marking <=> Marks(scores[p])
      BY <2>4
    <3>4. p \in saving <=> p \in MarkedPosts /\ Unmarks(scores[p], EffectiveScore(scores[p]))
      BY <2>4
    <3>5. Notices[p] = scores[p].marked \/ p \notin MarkedPosts
      BY DEF Notices
    <3> HIDE DEF marking, saving
    <3> QED BY <2>1, <2>2, <3>1, <3>2, <3>3, <3>4, <3>5 DEF Marked
  <2> QED BY <2>3, <2>4
<1>6. \A p \in under : p \in PostIds /\ Live(p)
  BY <1>4 DEF MarkedPosts, Scanned, ContentInv, IndexesAgree
<1>7. deleted \subseteq under
  <2> SUFFICES ASSUME NEW p \in deleted PROVE p \in under
    OBVIOUS
  <2>1. p \in PostIds /\ Live(p) /\ Q[p] # None
    BY <1>2, <1>3
  <2>2. ScoresAfterScan[p] # None /\ Marked(ScoresAfterScan[p])
    BY <2>1, ScanFacts
  <2> QED BY <1>5, <2>1, <2>2
<1>8. \A p \in deleted : now >= since(p) + GracePeriod
  <2> SUFFICES ASSUME NEW p \in deleted PROVE now >= since(p) + GracePeriod
    OBVIOUS
  <2>1. p \in PostIds /\ Live(p) /\ p \in under /\ Q[p] # None /\ now >= Q[p]
    BY <1>2, <1>3, <1>7
  <2>2. Q[p] = ScoresAfterScan[p].marked + GracePeriod
    BY <2>1, ScanFacts
  <2>3. ScoresAfterScan[p].marked = since(p)
    BY <1>5, <2>1
  <2> HIDE DEF since, Q
  <2> QED BY <2>1, <2>2, <2>3
<1>9. marking \subseteq (0..nextPostId-1) \ (MarkedPosts \cup Departed)
  <2> SUFFICES ASSUME NEW p \in marking
               PROVE  p \in 0..nextPostId-1 /\ p \notin MarkedPosts /\ p \notin Departed
    OBVIOUS
  <2>1. p \in PostIds /\ Live(p)
    BY <1>6
  <2>2. p < nextPostId /\ p \in Nat /\ nextPostId \in Nat
    BY <2>1, ContentAssumption DEF ContentInv, ContentTypeOK, IndexesAgree, PostIds
  <2> QED BY <2>1, <2>2 DEF Marks, MarkedPosts, Departed
<1>10. MarkedPosts' = under \ deleted
  <2>1. ASSUME NEW p \in PostIds
        PROVE  p \in MarkedPosts' <=> p \in under \ deleted
    <3>1. CASE p \in deleted
      BY <1>1, <3>1 DEF MarkedPosts, Live
    <3>2. CASE p \notin deleted
      <4>1. posts'[p] = posts[p] /\ scores'[p] = ScoresAfterScan[p]
        BY <1>1, <3>2
      <4>2. p \in MarkedPosts' <=> Live(p) /\ Marked(ScoresAfterScan[p])
        BY <4>1 DEF MarkedPosts, Live, Marked
      <4> HIDE DEF under, deleted
      <4> QED BY <1>5, <1>6, <3>2, <4>2
    <3> QED BY <3>1, <3>2
  <2>2. MarkedPosts' \subseteq PostIds
    BY DEF MarkedPosts
  <2> HIDE DEF under, deleted
  <2> QED BY <1>6, <2>1, <2>2
<1>11. Notices' = [p \in under \ deleted |-> since(p)]
  <2>1. \A p \in under \ deleted : scores'[p].marked = since(p)
    <3> SUFFICES ASSUME NEW p \in under \ deleted PROVE scores'[p].marked = since(p)
      OBVIOUS
    <3>1. p \in PostIds /\ Live(p) /\ scores'[p] = ScoresAfterScan[p]
      BY <1>1, <1>6
    <3> HIDE DEF under, deleted, since
    <3> QED BY <1>5, <3>1
  <2> HIDE DEF under, deleted, since
  <2> QED BY <1>10, <2>1 DEF Notices
<1>12. Departed' = Departed \cup deleted
  <2>1. \A p \in deleted : p \in PostIds /\ p < nextPostId
    BY <1>6, <1>7 DEF ContentInv, IndexesAgree
  <2>2. \A p \in PostIds : posts'[p] = None <=> posts[p] = None \/ p \in deleted
    BY <1>1
  <2> HIDE DEF deleted
  <2> QED BY <1>1, <2>1, <2>2 DEF Departed, Live
<1>13. /\ marking \in SUBSET (0..MaxPosts-1)
       /\ saving \in SUBSET (0..MaxPosts-1)
       /\ deleted \in SUBSET (0..MaxPosts-1)
  BY <1>2, <1>4 DEF MarkedPosts, PostIds
<1>14. DOMAIN Notices = MarkedPosts /\ saving \subseteq MarkedPosts
  BY DEF Notices
<1>15. Fate!BlockEnd(marking, saving, deleted)
  <2> HIDE DEF marking, saving, deleted
  <2>1. [p \in under \ deleted |-> since(p)] =
          [p \in ((DOMAIN Notices \ saving) \cup marking) \ deleted |->
             IF p \in marking THEN now ELSE Notices[p]]
    BY <1>14
  <2> QED
    BY <1>1, <1>7, <1>8, <1>9, <1>11, <1>12, <1>14, <2>1
       DEF Fate!BlockEnd, Notices, Departed
<1>16. PICK condemn, reprieve, delete \in SUBSET (0..MaxPosts-1) :
         condemn = marking /\ reprieve = saving /\ delete = deleted
  BY <1>13
<1> HIDE DEF marking, saving, deleted
<1>17. Fate!BlockEnd(condemn, reprieve, delete)
  BY <1>15, <1>16 DEF Fate!BlockEnd
<1> QED BY <1>17

LEMMA FateStep ==
  ASSUME ContentInv, [ContentNext]_contentVars
  PROVE  [Fate!FateNext]_(Fate!fateVars)
<1>1. CASE RegistryOps
  <2>1. UNCHANGED <<now, nextPostId, posts, scores>>
    BY <1>1 DEF RegistryOps, NodeOps, HoldingOps, RegisterFragmentCall, RegisterNode,
       UpdateNode, UnregisterNode, DeclareHolding, RevokeHolding, postVars, popularityVars
  <2> QED BY <2>1, FateStutters DEF Marked
<1>2. CASE PostOps
  <2>1. Fate!Publish
    BY <1>2, CreatePostPublishes DEF PostOps
  <2> QED BY <2>1 DEF Fate!FateNext
<1>3. CASE ReactionOps
  <2>1. (\E p \in MarkedPosts : Fate!Reprieve(p)) \/ UNCHANGED Fate!fateVars
    BY <1>3, ReactReprieves DEF ReactionOps
  <2>2. DOMAIN [p \in MarkedPosts |-> scores[p].marked] = MarkedPosts
    OBVIOUS
  <2> QED BY <2>1, <2>2 DEF Fate!FateNext
<1>4. CASE EndBlock
  BY <1>4, EndBlockIsBlockEnd DEF Fate!FateNext
<1>5. CASE UNCHANGED contentVars
  <2>1. UNCHANGED <<now, nextPostId, posts, scores>>
    BY <1>5 DEF contentVars, registryVars, postVars, popularityVars
  <2> QED BY <2>1, FateStutters DEF Marked
<1> QED BY <1>1, <1>2, <1>3, <1>4, <1>5 DEF ContentNext

(* post, popularity and storage together keep the promise of PostFate: a   *)
(* post is condemned before it goes, may be reprieved in between, and goes *)
(* only GracePeriod after the block that condemned it.                     *)
THEOREM ContentImplementsPostFate == ContentSpec => ImplementsPostFate
<1>1. ContentInit => Fate!FateInit
  BY FateStarts
<1>2. ContentInv /\ [ContentNext]_contentVars => [Fate!FateNext]_(Fate!fateVars)
  BY FateStep
<1> QED
  BY <1>1, <1>2, ContentInvHolds, PTL DEF ContentSpec, ImplementsPostFate, Fate!FateSpec
-----------------------------------------------------------------------------
(* How far the scan has gone since it could last have met p: straight up   *)
(* to the cursor, or through the top of the ids and up again.              *)
ScanGap(p) ==
  IF p < scanCursor THEN scanCursor - p ELSE (nextPostId - p) + scanCursor

(* Every block since p was last touched took the scan ScanLimit ids on.    *)
ScanInv ==
  /\ scanCursor < nextPostId \/ scanCursor = 0
  /\ \A p \in PostIds : scores[p] # None =>
       ScanLimit * (now - scores[p].touched) <= ScanGap(p) + ScanLimit - 1

LEMMA ScanGapFact ==
  ASSUME ContentTypeOK, ScanInv, NEW p \in PostIds, p < nextPostId
  PROVE  ScanGap(p) \in 1..nextPostId
BY ContentAssumption DEF ContentTypeOK, ScanInv, ScanGap, PostIds

(* What the scan passes over lies beyond its window, on the side it comes  *)
(* to next.                                                                *)
LEMMA SkippedFact ==
  ASSUME ContentInv, ScanInv, NEW p \in PostIds, scores[p] # None, p \notin ScanWindow
  PROVE  /\ ScanGap(p) + ScanLimit <= nextPostId
         /\ scanCursor' = ScanCursorAfter /\ nextPostId' = nextPostId =>
              ScanGap(p)' = ScanGap(p) + ScanLimit
<1>1. /\ p \in Nat /\ nextPostId \in Nat /\ p < nextPostId
      /\ scanCursor \in Nat /\ scanCursor < nextPostId
      /\ ScanLimit \in Nat \ {0}
  BY ContentAssumption DEF ContentInv, ContentTypeOK, IndexesAgree, ScanInv, PostIds
<1>2. nextPostId \in Nat \ {0} /\ nextPostId # 0
  BY <1>1
<1>3. \A i \in 0..ScanLimit-1 : (scanCursor + i) % nextPostId # p
  BY <1>2 DEF ScanWindow
<1>4. ScanCursorAfter = (scanCursor + ScanLimit) % nextPostId
  BY <1>2 DEF ScanCursorAfter
<1>5. CASE p >= scanCursor
  <2>1. p >= scanCursor + ScanLimit
    <3> SUFFICES ASSUME p < scanCursor + ScanLimit PROVE FALSE
      BY <1>1
    <3>1. p - scanCursor \in 0..ScanLimit-1 /\ scanCursor + (p - scanCursor) = p
      BY <1>1, <1>5
    <3>2. p % nextPostId = p
      BY <1>1, <1>2, RemainderFacts
    <3> QED BY <1>3, <3>1, <3>2
  <2>2. scanCursor + ScanLimit \in 0..nextPostId-1
    BY <1>1, <2>1
  <2>3. ScanCursorAfter = scanCursor + ScanLimit
    BY <1>2, <1>4, <2>2, RemainderFacts
  <2> QED BY <1>1, <1>5, <2>1, <2>3 DEF ScanGap
<1>6. CASE p < scanCursor
  <2>1. nextPostId + p >= scanCursor + ScanLimit
    <3> SUFFICES ASSUME nextPostId + p < scanCursor + ScanLimit PROVE FALSE
      BY <1>1
    <3> DEFINE i == nextPostId + p - scanCursor
    <3>1. i \in 0..ScanLimit-1 /\ scanCursor + i = nextPostId + p
      BY <1>1, <1>6
    <3>2. (nextPostId + p) % nextPostId = p
      BY <1>1, <1>2, RemainderFacts
    <3> HIDE DEF i
    <3> QED BY <1>3, <3>1, <3>2
  <2>2. CASE scanCursor + ScanLimit < nextPostId
    <3>1. ScanCursorAfter = scanCursor + ScanLimit
      BY <1>1, <1>2, <1>4, <2>2, RemainderFacts
    <3> QED BY <1>1, <1>6, <2>1, <2>2, <3>1 DEF ScanGap
  <2>3. CASE scanCursor + ScanLimit >= nextPostId
    <3> DEFINE k == scanCursor + ScanLimit - nextPostId
    <3>1. k \in 0..nextPostId-1 /\ scanCursor + ScanLimit = nextPostId + k /\ k <= p
      BY <1>1, <1>6, <2>1, <2>3
    <3>2. ScanCursorAfter = k
      BY <1>2, <1>4, <3>1, RemainderFacts
    <3> QED BY <1>1, <1>6, <3>1, <3>2 DEF ScanGap
  <2> QED BY <1>1, <2>2, <2>3
<1> QED BY <1>1, <1>5, <1>6

LEMMA ScanInvStep ==
  ASSUME ContentInv, ContentInv', ScanInv, [ContentNext]_contentVars
  PROVE  ScanInv'
<1>1. /\ nextPostId \in Nat /\ scanCursor \in Nat /\ now \in Nat
      /\ ScanLimit \in Nat \ {0}
  BY ContentAssumption DEF ContentInv, ContentTypeOK, ClockOK
<1>2. \A p \in PostIds : scores[p] # None =>
        /\ p \in Nat /\ p < nextPostId
        /\ scores[p].touched \in Nat /\ scores[p].touched <= now
        /\ ScanGap(p) \in 1..nextPostId
        /\ now - scores[p].touched \in Nat
  BY <1>1, ScanGapFact DEF ContentInv, IndexesAgree, ClockOK, PostIds
<1>3. CASE RegistryOps \/ UNCHANGED contentVars
  <2>1. UNCHANGED <<now, nextPostId, scores, scanCursor>>
    BY <1>3 DEF RegistryOps, NodeOps, HoldingOps, RegisterFragmentCall, RegisterNode,
       UpdateNode, UnregisterNode, DeclareHolding, RevokeHolding, contentVars,
       registryVars, postVars, popularityVars
  <2> QED BY <2>1 DEF ScanInv, ScanGap
(* A new post is touched now and lies at the top.                          *)
<1>4. CASE PostOps
  <2>1. PICK a \in Accounts, root \in Contents, parent \in PostIds \cup {None},
             paid \in BOOLEAN : CreatePost(a, root, parent, paid)
    BY <1>4 DEF PostOps
  <2>2. /\ now' = now /\ nextPostId' = nextPostId + 1 /\ scanCursor' = scanCursor
        /\ \A p \in PostIds : scores'[p] = IF p = nextPostId THEN FreshScore ELSE scores[p]
    BY <2>1 DEF CreatePost, ContentInv, ContentTypeOK
  <2>3. FreshScore.touched = now
    BY DEF FreshScore
  <2> SUFFICES ASSUME NEW p \in PostIds, scores'[p] # None
               PROVE  ScanLimit * (now - scores'[p].touched) <= ScanGap(p)' + ScanLimit - 1
    BY <1>1, <2>2 DEF ScanInv
  <2>4. CASE p = nextPostId
    <3>1. ScanLimit * (now - scores'[p].touched) <= 0
      BY <1>1, <2>2, <2>3, <2>4, ProductFacts
    <3>2. ScanGap(p)' >= 0 /\ ScanGap(p)' \in Int
      BY <1>1, <2>2, <2>4 DEF ScanGap
    <3>3. ScanLimit * (now - scores'[p].touched) \in Int
      BY <1>1, <2>2, <2>3, <2>4, ProductFacts
    <3> QED BY <1>1, <3>1, <3>2, <3>3
  <2>5. CASE p # nextPostId
    <3>1. scores'[p] = scores[p] /\ ScanGap(p)' >= ScanGap(p) /\ ScanGap(p)' \in Int
      BY <1>1, <1>2, <2>2, <2>5 DEF ScanGap
    <3>2. ScanLimit * (now - scores[p].touched) <= ScanGap(p) + ScanLimit - 1
      BY <2>2, <2>5 DEF ScanInv
    <3>3. ScanLimit * (now - scores[p].touched) \in Int /\ ScanGap(p) \in Int
      BY <1>1, <1>2, <2>2, <2>5, ProductFacts
    <3> QED BY <1>1, <3>1, <3>2, <3>3
  <2> QED BY <2>4, <2>5
(* A reaction touches a post now, and a post lies below the next id.       *)
<1>5. CASE ReactionOps
  <2>1. PICK a \in Accounts, r \in PostIds, w \in {LikeWeight, DislikeWeight} :
          React(a, r, w)
    BY <1>5 DEF ReactionOps
  <2>2. UNCHANGED <<now, nextPostId, scanCursor>>
    BY <2>1 DEF React, registryVars, postVars
  <2>3. \A p \in PostIds : p # r => scores'[p] = scores[p]
    BY <2>1 DEF React, ContentInv, ContentTypeOK
  <2>4. scores'[r].touched = now /\ scores[r] # None
    BY <2>1 DEF React, MayReact, ContentInv, ContentTypeOK, IndexesAgree
  <2> SUFFICES ASSUME NEW p \in PostIds, scores'[p] # None
               PROVE  ScanLimit * (now - scores'[p].touched) <= ScanGap(p) + ScanLimit - 1
    BY <2>2 DEF ScanInv, ScanGap
  <2>5. CASE p = r
    <3>1. ScanLimit * (now - scores'[p].touched) <= 0
          /\ ScanLimit * (now - scores'[p].touched) \in Int
      BY <1>1, <2>4, <2>5, ProductFacts
    <3>2. ScanGap(p) \in 1..nextPostId
      BY <1>2, <2>4, <2>5
    <3> QED BY <1>1, <3>1, <3>2
  <2>6. CASE p # r
    BY <2>3, <2>6 DEF ScanInv
  <2> QED BY <2>5, <2>6
<1>6. CASE EndBlock
  <2>1. /\ now' = now + 1 /\ nextPostId' = nextPostId
        /\ scanCursor' = ScanCursorAfter
    BY <1>6 DEF EndBlock, NextBlock
  <2>2. \A p \in PostIds : scores'[p] # None => scores'[p] = ScoresAfterScan[p]
    BY <1>6 DEF EndBlock
  <2>3. scanCursor' < nextPostId' \/ scanCursor' = 0
    BY <1>1, <2>1 DEF ScanCursorAfter, ScanInv
  <2> SUFFICES ASSUME NEW p \in PostIds, scores'[p] # None
               PROVE  ScanLimit * (now' - scores'[p].touched) <= ScanGap(p)' + ScanLimit - 1
    BY <2>3 DEF ScanInv
  <2>4. scores[p] # None /\ scores'[p] = ScoresAfterScan[p]
    BY <2>2, ScanFacts
  <2>5. CASE p \in ScanWindow
    <3>1. scores'[p].touched = now
      BY <2>4, <2>5 DEF ScoresAfterScan, Scanned
    <3>2. now' - scores'[p].touched = 1
      BY <1>1, <2>1, <3>1
    <3>3. ScanGap(p)' \in Int /\ ScanGap(p)' >= 1
      <4>1. scanCursor' \in Nat
        BY DEF ContentInv, ContentTypeOK
      <4> QED BY <1>1, <1>2, <2>1, <2>4, <4>1 DEF ScanGap
    <3> QED BY <1>1, <3>2, <3>3
  <2>6. CASE p \notin ScanWindow
    <3>1. scores'[p] = scores[p]
      BY <2>4, <2>6 DEF ScoresAfterScan, Scanned
    <3>2. ScanGap(p)' = ScanGap(p) + ScanLimit
      BY <2>1, <2>4, <2>6, SkippedFact
    <3> DEFINE age == now - scores[p].touched
    <3>3. age \in Int /\ now' - scores'[p].touched = age + 1 /\ ScanGap(p) \in Int
      BY <1>1, <1>2, <2>1, <2>4, <3>1
    <3>4. ScanLimit * age <= ScanGap(p) + ScanLimit - 1
      BY <2>4 DEF ScanInv
    <3> HIDE DEF age
    <3>5. ScanLimit * (age + 1) = ScanLimit * age + ScanLimit /\ ScanLimit * age \in Int
      BY <1>1, <3>3, ProductFacts
    <3> QED BY <1>1, <3>2, <3>3, <3>4, <3>5
  <2> QED BY <2>5, <2>6
<1> QED BY <1>3, <1>4, <1>5, <1>6 DEF ContentNext

LEMMA ScanInvKeepsUp ==
  ASSUME ContentInv, ScanInv
  PROVE  ScanKeepsUp
<1> SUFFICES ASSUME NEW p \in PostIds, scores[p] # None
             PROVE  now - scores[p].touched <= ScanTurn
  BY DEF ScanKeepsUp
<1>1. /\ nextPostId \in Nat /\ ScanLimit \in Nat \ {0}
      /\ p < nextPostId /\ now - scores[p].touched \in Nat
  BY ContentAssumption DEF ContentInv, ContentTypeOK, IndexesAgree, ClockOK
<1>2. ScanGap(p) \in 1..nextPostId
  BY <1>1, ScanGapFact DEF ContentInv
<1> DEFINE age == now - scores[p].touched
<1>3. ScanLimit * age <= ScanGap(p) + ScanLimit - 1
  BY DEF ScanInv
<1> HIDE DEF age
<1>4. age \in Nat /\ ScanLimit * age \in Int
  BY <1>1, ProductFacts DEF age
<1>5. ScanLimit * age <= nextPostId + ScanLimit - 1 /\ nextPostId + ScanLimit - 1 \in Nat
  BY <1>1, <1>2, <1>3, <1>4
<1>6. age <= (nextPostId + ScanLimit - 1) \div ScanLimit
  BY <1>1, <1>4, <1>5, QuotientBounds
<1> QED BY <1>6 DEF age, ScanTurn

(* However many posts there are, are created, reacted to and deleted, and  *)
(* however many the scan reads per block: no live post's score is older    *)
(* than one turn of the scan over all ids given out.                       *)
THEOREM ScanAlwaysKeepsUp == ContentSpec => []ScanKeepsUp
<1>1. ContentInit => ScanInv
  BY DEF ContentInit, PostInit, ScanInv
<1>2. ContentInv /\ ContentInv' /\ ScanInv /\ [ContentNext]_contentVars => ScanInv'
  BY ScanInvStep
<1>3. ContentInv /\ ScanInv => ScanKeepsUp
  BY ScanInvKeepsUp
<1> QED BY <1>1, <1>2, <1>3, ContentInvHolds, PTL DEF ContentSpec
-----------------------------------------------------------------------------
(* The place of a post in key order, 0 for the start of the queue.         *)
UpTo(p) == {q \in PostIds : Rank[q] <= Rank[p]}
Place(p) == Cardinality(UpTo(p))
CursorPlace == IF deletionCursor = None THEN 0 ELSE Place(deletionCursor)
Behind(p) == deletionCursor # None /\ Rank[p] <= Rank[deletionCursor]

(* How far the passes have gone since p could last have been read: from p  *)
(* to the cursor, or to the end of the queue, which may end a pass before  *)
(* its time, and from its start to the cursor.                             *)
QueueGap(p) ==
  IF Behind(p) THEN CursorPlace - Place(p)
  ELSE (MaxPosts - Place(p)) + CursorPlace + PassLength

(* Every block since p was due took the passes PassLength entries on.      *)
QueueInv ==
  \A p \in PostIds : queue[p] # None =>
    PassLength * (now - queue[p]) <= QueueGap(p)

LEMMA PassLengthFact ==
  /\ PassLength \in Nat \ {0} /\ PassLength <= ScanReads /\ PassLength <= DeleteLimit
  /\ ScanReads \in Nat /\ DeleteLimit \in Nat
BY ContentAssumption DEF PassLength

LEMMA PostIdsFinite ==
  /\ IsFiniteSet(PostIds) /\ Cardinality(PostIds) = MaxPosts
  /\ \A S \in SUBSET PostIds : IsFiniteSet(S) /\ Cardinality(S) \in 0..MaxPosts
<1>1. IsFiniteSet(PostIds) /\ Cardinality(PostIds) = MaxPosts
  BY ContentAssumption, FS_Interval DEF PostIds
<1>2. ASSUME NEW S \in SUBSET PostIds
      PROVE  IsFiniteSet(S) /\ Cardinality(S) \in 0..MaxPosts
  BY <1>1, FS_Subset, FS_CardinalityType, ContentAssumption
<1> QED BY <1>1, <1>2

LEMMA PlaceFacts ==
  /\ \A p \in PostIds : UpTo(p) \in SUBSET PostIds /\ Place(p) \in 1..MaxPosts
  /\ \A p, q \in PostIds : Rank[p] <= Rank[q] => Place(p) <= Place(q)
<1>1. \A p \in PostIds : UpTo(p) \in SUBSET PostIds /\ p \in UpTo(p)
  BY ContentAssumption DEF UpTo
<1>2. ASSUME NEW p \in PostIds PROVE Place(p) \in 1..MaxPosts
  <2>1. IsFiniteSet(UpTo(p)) /\ Place(p) \in 0..MaxPosts
    BY <1>1, PostIdsFinite DEF Place
  <2>2. Place(p) # 0
    BY <1>1, <2>1, FS_EmptySet DEF Place
  <2> QED BY <2>1, <2>2, ContentAssumption
<1>3. ASSUME NEW p \in PostIds, NEW q \in PostIds, Rank[p] <= Rank[q]
      PROVE  Place(p) <= Place(q)
  <2>1. \A r \in PostIds : Rank[r] \in Nat
    BY ContentAssumption
  <2>2. UpTo(p) \subseteq UpTo(q)
    BY <1>3, <2>1 DEF UpTo
  <2> QED BY <1>1, <2>2, PostIdsFinite, FS_Subset DEF Place
<1> QED BY <1>1, <1>2, <1>3

(* Posts between two places are counted by their distance.                 *)
LEMMA PlaceDistance ==
  ASSUME NEW p \in PostIds, NEW d \in PostIds,
         NEW S \in SUBSET PostIds,
         \A r \in S : Rank[p] < Rank[r] /\ Rank[r] <= Rank[d],
         Rank[p] <= Rank[d]
  PROVE  Place(d) >= Place(p) + Cardinality(S)
<1>1. \A r \in PostIds : Rank[r] \in Nat
  BY ContentAssumption
<1>2. UpTo(p) \in SUBSET PostIds /\ UpTo(d) \in SUBSET PostIds
  BY PlaceFacts
<1>3. UpTo(p) \cup S \subseteq UpTo(d) /\ UpTo(p) \cap S = {}
  BY <1>1 DEF UpTo
<1>4. Cardinality(UpTo(p) \cup S) = Cardinality(UpTo(p)) + Cardinality(S)
  <2>1. IsFiniteSet(UpTo(p)) /\ IsFiniteSet(S)
    BY <1>2, PostIdsFinite
  <2>2. Cardinality(UpTo(p) \cap S) = 0
    <3>1. Cardinality({}) = 0
      BY FS_EmptySet
    <3> QED BY <1>3, <3>1, Zenon
  <2>3. /\ Cardinality(UpTo(p)) \in Nat /\ Cardinality(S) \in Nat
    BY <2>1, FS_CardinalityType
  <2>4. Cardinality(UpTo(p) \cup S)
          = Cardinality(UpTo(p)) + Cardinality(S) - Cardinality(UpTo(p) \cap S)
    BY <2>1, FS_Union
  <2> QED BY <2>2, <2>3, <2>4
<1>5. Cardinality(UpTo(p) \cup S) <= Cardinality(UpTo(d))
  BY <1>2, <1>3, PostIdsFinite, FS_Subset
<1> QED BY <1>4, <1>5 DEF Place

(* A pass that has room after some entries has room after fewer.           *)
LEMMA RoomFact ==
  ASSUME NEW q, NEW S \in SUBSET PostIds, NEW T \in SUBSET S, Room(q, S)
  PROVE  Room(q, T)
<1> DEFINE due(U) == {r \in U : Due(q, r)}
<1>1. /\ IsFiniteSet(S) /\ IsFiniteSet(due(S)) /\ due(T) \in SUBSET due(S)
      /\ Cardinality(S) \in Nat /\ Cardinality(due(S)) \in Nat
      /\ Cardinality(T) \in Nat /\ Cardinality(due(T)) \in Nat
  <2>1. S \in SUBSET PostIds /\ T \in SUBSET PostIds
        /\ due(S) \in SUBSET PostIds /\ due(T) \in SUBSET PostIds
    OBVIOUS
  <2>2. \A U \in SUBSET PostIds : IsFiniteSet(U) /\ Cardinality(U) \in Nat
    BY PostIdsFinite, ContentAssumption
  <2>3. due(T) \in SUBSET due(S)
    OBVIOUS
  <2> HIDE DEF due
  <2> QED BY <2>1, <2>2, <2>3
<1>2. Cardinality(T) <= Cardinality(S) /\ Cardinality(due(T)) <= Cardinality(due(S))
  BY <1>1, FS_Subset
<1>3. Cardinality(S) < ScanReads /\ Cardinality(due(S)) < DeleteLimit
  BY DEF Room
<1>4. Cardinality(T) < ScanReads /\ Cardinality(due(T)) < DeleteLimit
  <2> HIDE DEF due
  <2> QED BY <1>1, <1>2, <1>3, PassLengthFact
<1> QED BY <1>4 DEF Room

(* A pass either reads all that is left of the queue or gets past          *)
(* PassLength entries; what it leaves lies after its cursor.               *)
LEMMA PassFact ==
  ASSUME ContentTypeOK, NEW q, NEW d \in DeletionCursorAfter(q)
  PROVE  \/ d = None /\ Rest(q) \subseteq Read(q)
         \/ /\ d \in PostIds
            /\ deletionCursor # None => Rank[deletionCursor] < Rank[d]
            /\ Place(d) >= CursorPlace + PassLength
            /\ \A p \in Rest(q) \ Read(q) : Rank[d] < Rank[p]
<1>1. /\ Read(q) \subseteq Rest(q) /\ Rest(q) \subseteq PostIds
      /\ \A p \in PostIds : Earlier(q, p) \subseteq Rest(q)
      /\ \A p \in PostIds : Rank[p] \in Nat
  BY ContentAssumption DEF Read, Rest, Earlier
<1>2. CASE Room(q, Rest(q))
  <2>1. d = None
    BY <1>2 DEF DeletionCursorAfter
  <2>2. \A p \in Rest(q) : Room(q, Earlier(q, p))
    BY <1>1, <1>2, RoomFact
  <2> QED BY <2>1, <2>2 DEF Read
<1>3. CASE ~Room(q, Rest(q))
  <2>1. d \in Read(q) /\ \A r \in Read(q) : Rank[r] <= Rank[d]
    BY <1>3 DEF DeletionCursorAfter
  <2>2. d \in PostIds /\ d \in Rest(q) /\ Room(q, Earlier(q, d))
    BY <1>1, <2>1 DEF Read
  <2>3. deletionCursor # None => Rank[deletionCursor] < Rank[d]
    BY <2>2 DEF Rest
  <2>4. ASSUME NEW p \in Rest(q) \ Read(q) PROVE Rank[d] < Rank[p]
    <3> SUFFICES ASSUME Rank[p] <= Rank[d] PROVE p \in Read(q)
      BY <1>1, <2>2
    <3>1. Earlier(q, p) \subseteq Earlier(q, d)
      BY <1>1, <2>2 DEF Earlier
    <3>2. Earlier(q, d) \in SUBSET PostIds
      BY <1>1, <2>2
    <3>3. Room(q, Earlier(q, p))
      BY <2>2, <3>1, <3>2, RoomFact
    <3> QED BY <3>3 DEF Read
(* If fewer were read there was room left, and a next entry to read.       *)
  <2>5. Cardinality(Read(q)) >= PassLength
    <3> SUFFICES ASSUME Cardinality(Read(q)) < PassLength PROVE FALSE
      BY <1>1, PostIdsFinite, PassLengthFact
    <3>1. Room(q, Read(q))
      <4> DEFINE due == {r \in Read(q) : Due(q, r)}
      <4>1. /\ Read(q) \in SUBSET PostIds /\ due \in SUBSET Read(q)
            /\ due \in SUBSET PostIds
        BY <1>1
      <4>2. IsFiniteSet(Read(q)) /\ Cardinality(Read(q)) \in Nat /\ Cardinality(due) \in Nat
        BY <4>1, PostIdsFinite, ContentAssumption
      <4>3. Cardinality(due) <= Cardinality(Read(q))
        BY <4>1, <4>2, FS_Subset
      <4>4. Cardinality(Read(q)) < ScanReads /\ Cardinality(due) < DeleteLimit
        <5> HIDE DEF due
        <5> QED BY <4>2, <4>3, PassLengthFact
      <4> QED BY <4>4 DEF Room
    <3> DEFINE ranks == {Rank[x] : x \in Rest(q) \ Read(q)}
    <3>2. ranks \subseteq Nat /\ ranks # {}
      <4>1. Rest(q) # Read(q)
        BY <1>3, <3>1
      <4> QED BY <1>1, <4>1
    <3>3. PICK n \in ranks : \A k \in ranks : n <= k
      BY <3>2, LeastNumber
    <3>4. PICK x \in Rest(q) \ Read(q) : Rank[x] = n
      BY <3>3
    <3>5. \A y \in Rest(q) \ Read(q) : Rank[x] <= Rank[y]
      BY <3>3, <3>4
    <3>6. Earlier(q, x) \subseteq Read(q)
      BY <1>1, <3>4, <3>5 DEF Earlier
    <3>7. Room(q, Earlier(q, x))
      BY <1>1, <3>1, <3>6, RoomFact
    <3> QED BY <3>4, <3>7 DEF Read
  <2>6. Place(d) >= CursorPlace + PassLength
    <3>1. Read(q) \in SUBSET PostIds /\ Cardinality(Read(q)) \in Nat
      BY <1>1, PostIdsFinite, ContentAssumption
    <3>2. CASE deletionCursor = None
      <4>1. Read(q) \subseteq UpTo(d)
        BY <1>1, <2>1 DEF UpTo
      <4>2. Cardinality(Read(q)) <= Place(d)
        BY <2>2, <4>1, PlaceFacts, PostIdsFinite, FS_Subset DEF Place
      <4>3. Place(d) \in Nat
        BY <2>2, PlaceFacts, ContentAssumption
      <4> QED BY <2>5, <3>1, <3>2, <4>2, <4>3, PassLengthFact DEF CursorPlace
    <3>3. CASE deletionCursor # None
      <4>1. deletionCursor \in PostIds
        BY <3>3 DEF ContentTypeOK
      <4>2. \A r \in Read(q) : Rank[deletionCursor] < Rank[r] /\ Rank[r] <= Rank[d]
        BY <1>1, <2>1, <3>3 DEF Rest
      <4>3. Rank[deletionCursor] <= Rank[d]
        BY <1>1, <2>2, <2>3, <3>3, <4>1
      <4>4. Place(d) >= Place(deletionCursor) + Cardinality(Read(q))
        BY <2>2, <3>1, <4>1, <4>2, <4>3, PlaceDistance
      <4>5. Place(d) \in Nat /\ Place(deletionCursor) \in Nat
        BY <2>2, <4>1, PlaceFacts, ContentAssumption
      <4> QED BY <2>5, <3>1, <3>3, <4>4, <4>5, PassLengthFact DEF CursorPlace
    <3> QED BY <3>2, <3>3
  <2> QED BY <2>2, <2>3, <2>4, <2>6
<1> QED BY <1>2, <1>3

LEMMA QueueGapFact ==
  ASSUME ContentTypeOK, NEW p \in PostIds
  PROVE  /\ QueueGap(p) \in 0..(MaxPosts + PassLength - 1)
         /\ CursorPlace \in 0..MaxPosts
<1>1. Place(p) \in 1..MaxPosts /\ MaxPosts \in Nat /\ PassLength \in Nat \ {0}
  BY PlaceFacts, PassLengthFact, ContentAssumption
<1>2. CASE deletionCursor = None
  BY <1>1, <1>2 DEF QueueGap, Behind, CursorPlace
<1>3. CASE deletionCursor # None
  <2>1. deletionCursor \in PostIds
    BY <1>3 DEF ContentTypeOK
  <2>2. Place(deletionCursor) \in 1..MaxPosts
    BY <2>1, PlaceFacts
  <2>3. Rank[p] \in Nat /\ Rank[deletionCursor] \in Nat
    BY <2>1, ContentAssumption
  <2>4. CASE Behind(p)
    <3>1. Place(p) <= Place(deletionCursor)
      BY <2>1, <2>4, PlaceFacts DEF Behind
    <3> QED BY <1>1, <1>3, <2>2, <2>4, <3>1 DEF QueueGap, CursorPlace
  <2>5. CASE ~Behind(p)
    <3>1. Rank[deletionCursor] < Rank[p]
      BY <1>3, <2>3, <2>5 DEF Behind
    <3>2. Place(deletionCursor) + Cardinality({p}) <= Place(p)
      BY <2>1, <2>3, <3>1, PlaceDistance
    <3>3. Cardinality({p}) = 1
      BY FS_Singleton
    <3> QED BY <1>1, <1>3, <2>2, <2>5, <3>2, <3>3 DEF QueueGap, CursorPlace
  <2> QED BY <2>4, <2>5
<1> QED BY <1>2, <1>3

(* An entry that is due and stays was not read: the cursor moves on by a   *)
(* pass towards it, or past the end.                                       *)
LEMMA PassGains ==
  ASSUME ContentTypeOK, ContentTypeOK', NEW q, NEW p \in PostIds,
         q[p] # None, p \notin Read(q), deletionCursor' \in DeletionCursorAfter(q)
  PROVE  QueueGap(p)' >= QueueGap(p) + PassLength
<1>1. /\ Place(p) \in Nat /\ MaxPosts \in Nat /\ PassLength \in Nat
      /\ CursorPlace \in 0..MaxPosts
  BY PlaceFacts, PassLengthFact, QueueGapFact, ContentAssumption
<1>2. \A r \in PostIds : Rank[r] \in Nat
  BY ContentAssumption
<1>3. deletionCursor = None \/ deletionCursor \in PostIds
  BY DEF ContentTypeOK
<1>4. p \in Rest(q) <=> ~Behind(p)
  BY <1>2, <1>3 DEF Rest, Behind
<1>5. CASE deletionCursor' = None /\ Rest(q) \subseteq Read(q)
  <2>1. Behind(p)
    BY <1>4, <1>5
  <2>2. ~Behind(p)' /\ CursorPlace' = 0
    BY <1>5 DEF Behind, CursorPlace
  <2>3. QueueGap(p)' = (MaxPosts - Place(p)) + PassLength
    BY <1>1, <2>2 DEF QueueGap, Place, UpTo
  <2>4. QueueGap(p) = CursorPlace - Place(p)
    BY <2>1 DEF QueueGap
  <2> QED BY <1>1, <2>3, <2>4
<1>6. CASE /\ deletionCursor' \in PostIds
           /\ deletionCursor # None => Rank[deletionCursor] < Rank[deletionCursor']
           /\ Place(deletionCursor') >= CursorPlace + PassLength
           /\ \A r \in Rest(q) \ Read(q) : Rank[deletionCursor'] < Rank[r]
  <2>1. deletionCursor' # None /\ CursorPlace' = Place(deletionCursor')
    BY <1>6, NoneFacts DEF CursorPlace, Place, UpTo
  <2>2. CursorPlace' \in Nat
    BY <1>6, <2>1, PlaceFacts, ContentAssumption
  <2>3. Behind(p)' <=> Behind(p)
    <3>1. CASE Behind(p)
      BY <1>2, <1>3, <1>6, <2>1, <3>1 DEF Behind
    <3>2. CASE ~Behind(p)
      <4>1. Rank[deletionCursor'] < Rank[p]
        BY <1>4, <1>6, <3>2
      <4> QED BY <1>2, <1>6, <3>2, <4>1 DEF Behind
    <3> QED BY <3>1, <3>2
  <2>4. QueueGap(p)' = IF Behind(p) THEN CursorPlace' - Place(p)
                       ELSE (MaxPosts - Place(p)) + CursorPlace' + PassLength
    BY <2>3 DEF QueueGap, Place, UpTo
  <2>5. CursorPlace' >= CursorPlace + PassLength
    BY <1>6, <2>1
  <2> QED BY <1>1, <2>2, <2>4, <2>5 DEF QueueGap
<1> QED BY <1>5, <1>6, PassFact

LEMMA QueueInvStep ==
  ASSUME ContentInv, ContentInv', QueueInv, [ContentNext]_contentVars
  PROVE  QueueInv'
<1>1. /\ ContentTypeOK /\ ContentTypeOK' /\ now \in Nat
      /\ PassLength \in Nat \ {0} /\ GracePeriod \in Nat
      /\ \A p \in PostIds : queue[p] # None => queue[p] \in Nat
      /\ \A p \in PostIds : QueueGap(p) \in Nat
      /\ \A p \in PostIds : QueueGap(p)' \in Nat
  <2>1. \A p \in PostIds : QueueGap(p) \in Nat
    BY QueueGapFact, PassLengthFact, ContentAssumption DEF ContentInv
  <2>2. ASSUME ContentTypeOK', NEW p \in PostIds
        PROVE  QueueGap(p)' \in Nat
    <3>1. /\ \A r \in PostIds : Place(r) \in 1..MaxPosts /\ Rank[r] \in Nat
          /\ \A r, d \in PostIds : Rank[r] <= Rank[d] => Place(r) <= Place(d)
          /\ MaxPosts \in Nat /\ PassLength \in Nat
      BY PlaceFacts, PassLengthFact, ContentAssumption
    <3>2. deletionCursor' = None \/ deletionCursor' \in PostIds
      BY <2>2 DEF ContentTypeOK
    <3>3. CursorPlace' = IF deletionCursor' = None THEN 0 ELSE Place(deletionCursor')
      BY DEF CursorPlace, Place, UpTo
    <3>4. QueueGap(p)' = IF Behind(p)' THEN CursorPlace' - Place(p)
                         ELSE (MaxPosts - Place(p)) + CursorPlace' + PassLength
      BY DEF QueueGap, Place, UpTo
    <3>5. Behind(p)' => deletionCursor' # None /\ Place(p) <= Place(deletionCursor')
      BY <3>1, <3>2 DEF Behind
    <3> QED BY <3>1, <3>2, <3>3, <3>4, <3>5
  <2> QED BY <2>1, <2>2, PassLengthFact, ContentAssumption
         DEF ContentInv, ContentTypeOK, ClockOK
(* Outside a block's end entries only go, and the cursor rests.            *)
<1>2. CASE /\ UNCHANGED <<now, deletionCursor>>
           /\ \A p \in PostIds : queue'[p] # None => queue'[p] = queue[p]
  <2>1. \A p \in PostIds : QueueGap(p)' = QueueGap(p)
    BY <1>2 DEF QueueGap, Behind, CursorPlace, Place, UpTo
  <2> QED BY <1>2, <2>1 DEF QueueInv
<1>3. CASE RegistryOps \/ UNCHANGED contentVars
  <2>1. UNCHANGED <<now, queue, deletionCursor>>
    BY <1>3 DEF RegistryOps, NodeOps, HoldingOps, RegisterFragmentCall, RegisterNode,
       UpdateNode, UnregisterNode, DeclareHolding, RevokeHolding, contentVars,
       registryVars, postVars, popularityVars
  <2> QED BY <1>2, <2>1
<1>4. CASE PostOps
  BY <1>2, <1>4 DEF PostOps, CreatePost
<1>5. CASE ReactionOps
  <2>1. PICK a \in Accounts, r \in PostIds, w \in {LikeWeight, DislikeWeight} :
          React(a, r, w)
    BY <1>5 DEF ReactionOps
  <2>2. UNCHANGED <<now, deletionCursor>>
    BY <2>1 DEF React, registryVars
  <2>3. \A p \in PostIds : queue'[p] # None => queue'[p] = queue[p]
    BY <2>1 DEF React, ContentInv, ContentTypeOK
  <2> QED BY <1>2, <2>2, <2>3
<1>6. CASE EndBlock
  <2> SUFFICES ASSUME NEW p \in PostIds, queue'[p] # None
               PROVE  PassLength * (now' - queue'[p]) <= QueueGap(p)'
    BY DEF QueueInv
  <2>1. /\ now' = now + 1
        /\ p \notin Candidates(QueueAfterScan) /\ queue'[p] = QueueAfterScan[p]
        /\ deletionCursor' \in DeletionCursorAfter(QueueAfterScan)
    BY <1>6 DEF EndBlock, NextBlock
  <2>2. queue'[p] \in Nat
    BY <1>1 DEF ContentTypeOK
  <2> DEFINE late == now - queue'[p]
  <2>3. late \in Int /\ now' - queue'[p] = late + 1
    BY <1>1, <2>1, <2>2
  <2>4. CASE late < 0
    <3>1. PassLength * (now' - queue'[p]) <= 0
      BY <1>1, <2>3, <2>4, ProductFacts
    <3>2. PassLength * (now' - queue'[p]) \in Int
      BY <1>1, <2>3, ProductFacts
    <3> QED BY <1>1, <3>1, <3>2
  <2>5. CASE late >= 0
    <3>1. p \notin Read(QueueAfterScan) /\ QueueAfterScan[p] # None
      BY <1>1, <2>1, <2>2, <2>5 DEF Candidates, Due
    <3>2. QueueGap(p)' >= QueueGap(p) + PassLength
      BY <1>1, <2>1, <3>1, PassGains
    <3>3. PassLength * late <= QueueGap(p) /\ PassLength * late \in Int
      <4>1. CASE queue'[p] = queue[p]
        BY <1>1, <2>3, <4>1, ProductFacts DEF QueueInv
      <4>2. CASE queue'[p] = now + GracePeriod
        <5>1. late <= 0
          BY <1>1, <4>2
        <5>2. PassLength * late <= 0 /\ PassLength * late \in Int
          BY <1>1, <2>3, <5>1, ProductFacts
        <5> QED BY <1>1, <5>2
      <4> QED BY <2>1, <4>1, <4>2 DEF QueueAfterScan
    <3>4. PassLength * (late + 1) = PassLength * late + PassLength
      BY <1>1, <2>3, ProductFacts
    <3> HIDE DEF late
    <3> QED BY <1>1, <2>3, <3>2, <3>3, <3>4
  <2> QED BY <2>3, <2>4, <2>5
<1> QED BY <1>3, <1>4, <1>5, <1>6 DEF ContentNext

LEMMA QueueInvBoundsLateness ==
  ASSUME ContentInv, QueueInv
  PROVE  DuePostsAreDeleted
<1> SUFFICES ASSUME NEW p \in PostIds, queue[p] # None
             PROVE  now <= queue[p] + QueueTurn
  BY DEF DuePostsAreDeleted
<1>1. /\ now \in Nat /\ queue[p] \in Nat /\ MaxPosts \in Nat
      /\ PassLength \in Nat \ {0}
      /\ QueueGap(p) \in 0..(MaxPosts + PassLength - 1)
  BY QueueGapFact, PassLengthFact, ContentAssumption DEF ContentInv, ContentTypeOK, ClockOK
<1> DEFINE late == now - queue[p]
<1>2. PassLength * late <= QueueGap(p)
  BY DEF QueueInv
<1>3. late \in Int
  BY <1>1
<1> HIDE DEF late
<1>4. PassLength * late \in Int
  BY <1>1, <1>3, ProductFacts
<1>5. PassLength * late <= MaxPosts + PassLength - 1 /\ MaxPosts + PassLength - 1 \in Nat
  BY <1>1, <1>2, <1>4
<1>6. late <= (MaxPosts + PassLength - 1) \div PassLength
  BY <1>1, <1>3, <1>5, QuotientBounds
<1>7. QueueTurn \in Nat /\ late <= QueueTurn
  BY <1>1, <1>5, <1>6, DivFact DEF QueueTurn
<1> QED BY <1>1, <1>7 DEF late

(* Whatever is marked, rescued and queued around it and however few        *)
(* entries a pass reads or deletes: a post that is due waits at most one   *)
(* turn over the queue.                                                    *)
THEOREM DuePostsAlwaysDeleted == ContentSpec => []DuePostsAreDeleted
<1>1. ContentInit => QueueInv
  BY DEF ContentInit, PostInit, QueueInv
<1>2. ContentInv /\ ContentInv' /\ QueueInv /\ [ContentNext]_contentVars => QueueInv'
  BY QueueInvStep
<1>3. ContentInv /\ QueueInv => DuePostsAreDeleted
  BY QueueInvBoundsLateness
<1> QED BY <1>1, <1>2, <1>3, ContentInvHolds, PTL DEF ContentSpec
=============================================================================
