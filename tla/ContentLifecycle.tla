-------------------------- MODULE ContentLifecycle --------------------------
(***************************************************************************)
(* The life of a post over three pallets: pallet_post writes it and its    *)
(* indexes and registers its fragment with pallet_storage, reactions raise *)
(* its popularity, and pallet_popularity's on_finalize lets the score      *)
(* decay, marks the post, and after a grace period deletes it everywhere.  *)
(* Prices are an outside condition here (parameter "paid").  The parent of *)
(* a reply is checked but not kept: no code of these pallets reads it.     *)
(***************************************************************************)
EXTENDS StorageRegistry

CONSTANTS
  MaxPosts,           \* post ids are u64: 2^64
  MaxUserPosts,       \* bound of a UserPosts list (1000)
  InitialScore, LikeWeight, DislikeWeight,
  LowPopularityThreshold, HysteresisMargin,
  GracePeriod,
  ScanLimit,          \* MaxPostsScannedPerBlock
  DeleteLimit,        \* MaxDeletionsPerBlock
  ScanReads,          \* MaxDeletionScanReads
  MaxScore,           \* scores saturate at u64::MAX
  Decay(_, _),        \* decay::apply(score, blocks)
  Rank                \* order of the post ids' hashed storage keys

PostIds == 0..MaxPosts-1
Recovery == LowPopularityThreshold + HysteresisMargin

Post == [author : Accounts, root : Contents]
Score == [stored : 0..MaxScore, touched : Nat, marked : Nat \cup {None}]

ASSUME ContentAssumption ==
  /\ MaxPosts \in Nat /\ MaxUserPosts \in Nat /\ MaxScore \in Nat
  /\ InitialScore \in 0..MaxScore
  /\ LikeWeight \in Nat /\ DislikeWeight \in Nat
  /\ LowPopularityThreshold \in Nat /\ HysteresisMargin \in Nat
  /\ GracePeriod \in Nat
  /\ ScanLimit \in Nat \ {0} /\ DeleteLimit \in Nat \ {0} /\ ScanReads \in Nat \ {0}
  /\ \A s \in 0..MaxScore, d \in 0..MaxBlock : Decay(s, d) \in 0..s
  /\ Rank \in [PostIds -> Nat]
  /\ \A p, q \in PostIds : Rank[p] = Rank[q] => p = q
  /\ None \notin Post \cup Score

VARIABLES
  nextPostId,      \* NextPostId
  posts,           \* Posts
  contentRefs,     \* keys of ContentRefs
  rootIndex,       \* MerkleRootToPostId
  userPosts,       \* UserPosts
  reactions,       \* keys of Reactions
  scores,          \* PostScores
  queue,           \* DeletionQueue: the block a marked post becomes eligible
  scanCursor,      \* ScanCursor
  deletionCursor   \* DeletionCursor

postVars == <<nextPostId, posts, contentRefs, rootIndex, userPosts>>
popularityVars == <<scores, queue, scanCursor, deletionCursor>>
contentVars == <<registryVars, postVars, reactions, popularityVars>>

----------------------------------------------------------------------------
PostInit ==
  /\ nextPostId = 0
  /\ posts = [p \in PostIds |-> None]
  /\ contentRefs = {}
  /\ rootIndex = [c \in Contents |-> None]
  /\ userPosts = [a \in Accounts |-> {}]
  /\ reactions = {}
  /\ scores = [p \in PostIds |-> None]
  /\ queue = [p \in PostIds |-> None]
  /\ scanCursor = 0
  /\ deletionCursor = None

ContentInit == RegistryInit /\ PostInit

Live(p) == posts[p] # None
FreshScore == [stored |-> InitialScore, touched |-> now, marked |-> None]
EffectiveScore(s) == Decay(s.stored, now - s.touched)
SaturatingAdd(s, w) == IF s + w > MaxScore THEN MaxScore ELSE s + w

(* create_post; paid: the author could burn the price. *)
CreatePost(a, root, parent, paid) ==
  /\ rootIndex[root] = None
  /\ parent # None => Live(parent)
  /\ Cardinality(userPosts[a]) < MaxUserPosts
  /\ paid
  /\ nextPostId < MaxPosts
  /\ nextPostId' = nextPostId + 1
  /\ posts' = [posts EXCEPT ![nextPostId] = [author |-> a, root |-> root]]
  /\ contentRefs' = contentRefs \cup {nextPostId}
  /\ RegisterFragment(root)
  /\ rootIndex' = [rootIndex EXCEPT ![root] = nextPostId]
  /\ userPosts' = [userPosts EXCEPT ![a] = @ \cup {nextPostId}]
  /\ scores' = [scores EXCEPT ![nextPostId] = FreshScore]
  /\ UNCHANGED <<now, nodeVars, holdingVars, reactions, queue, scanCursor,
                 deletionCursor>>

(* react, as far as the post's life goes: the proof of work binds a block  *)
(* hash and the reactor, which anyone can compute; on_reaction bakes the   *)
(* decay in, adds the weight and unmarks at once if that is enough.        *)
MayReact(a, p) == Live(p) /\ <<p, a>> \notin reactions
ScoreOrFresh(p) == IF scores[p] = None THEN FreshScore ELSE scores[p]
Marked(s) == s.marked # None
Unmarks(s, stored) == Marked(s) /\ stored >= Recovery

React(a, p, weight) ==
  LET s == ScoreOrFresh(p)
      stored == SaturatingAdd(EffectiveScore(s), weight)
  IN /\ MayReact(a, p)
     /\ reactions' = reactions \cup {<<p, a>>}
     /\ scores' = [scores EXCEPT ![p] =
          [stored |-> stored, touched |-> now,
           marked |-> IF Unmarks(s, stored) THEN None ELSE s.marked]]
     /\ queue' = [queue EXCEPT ![p] = IF Unmarks(s, stored) THEN None ELSE @]
     /\ UNCHANGED <<registryVars, postVars, scanCursor, deletionCursor>>

----------------------------------------------------------------------------
(* run_scan_pass: a window of ids that wraps; an id met twice in one pass  *)
(* is unchanged the second time.                                           *)
ScanWindow ==
  IF nextPostId = 0 THEN {}
  ELSE {(scanCursor + i) % nextPostId : i \in 0..ScanLimit-1}
ScanCursorSkips == (* slip: steps over an id *)
  IF nextPostId = 0 THEN scanCursor ELSE (scanCursor + ScanLimit + 1) % nextPostId
ScanCursorAfter ==
  IF nextPostId = 0 THEN scanCursor ELSE (scanCursor + ScanLimit) % nextPostId

Scanned == {p \in ScanWindow : scores[p] # None}
MarksAgain(s) == EffectiveScore(s) < LowPopularityThreshold  \* slip: re-marks
Marks(s) == EffectiveScore(s) < LowPopularityThreshold /\ ~Marked(s)

ScoresAfterScan ==
  [p \in PostIds |->
     IF p \notin Scanned THEN scores[p]
     ELSE LET s == scores[p]
          IN [stored |-> EffectiveScore(s), touched |-> now,
              marked |-> IF Marks(s) THEN now
                         ELSE IF Unmarks(s, EffectiveScore(s)) THEN None
                         ELSE s.marked]]

QueueAfterScan ==
  [p \in PostIds |->
     IF p \notin Scanned THEN queue[p]
     ELSE IF Marks(scores[p]) THEN now + GracePeriod
     ELSE IF Unmarks(scores[p], EffectiveScore(scores[p])) THEN None
     ELSE queue[p]]

(* run_deletion_pass: read the queue in key order after the cursor until   *)
(* ScanReads entries are read, DeleteLimit of them are due, or it ends.    *)
DueEarly(q, p) == q[p] # None /\ now + 1 >= q[p]  \* slip: a block early
Due(q, p) == q[p] # None /\ now >= q[p]
Rest(q) ==
  {p \in PostIds : /\ q[p] # None
                   /\ deletionCursor # None => Rank[p] > Rank[deletionCursor]}
Earlier(q, p) == {r \in Rest(q) : Rank[r] < Rank[p]}
Room(q, S) == /\ Cardinality(S) < ScanReads
              /\ Cardinality({r \in S : Due(q, r)}) < DeleteLimit
Read(q) == {p \in Rest(q) : Room(q, Earlier(q, p))}
Candidates(q) == {p \in Read(q) : Due(q, p)}
DeletionCursorForgotten(q) == {None}  \* slip: every pass starts over
DeletionCursorAfter(q) ==  \* one element: Rank is injective
  IF Room(q, Rest(q)) THEN {None}
  ELSE {p \in Read(q) : \A r \in Read(q) : Rank[r] <= Rank[p]}

(* delete_post takes the roots out of the reverse map. *)
RootsKept(roots) == rootIndex  \* slip: it does not
RootsFreed(roots) == [c \in Contents |-> IF c \in roots THEN None ELSE rootIndex[c]]

(* on_finalize of pallet_popularity, then of pallet_storage.  A candidate  *)
(* whose post is already gone only leaves the queue.                       *)
EndBlock ==
  LET q == QueueAfterScan
      candidates == Candidates(q)
      deleted == {p \in candidates : Live(p)}
      roots == {posts[p].root : p \in deleted}
  IN /\ scores' = [p \in PostIds |->
                     IF p \in deleted THEN None ELSE ScoresAfterScan[p]]
     /\ queue' = [p \in PostIds |-> IF p \in candidates THEN None ELSE q[p]]
     /\ scanCursor' = ScanCursorAfter
     /\ deletionCursor' \in DeletionCursorAfter(q)
     /\ posts' = [p \in PostIds |-> IF p \in deleted THEN None ELSE posts[p]]
     /\ contentRefs' = contentRefs \ deleted
     /\ rootIndex' = RootsFreed(roots)
     /\ userPosts' = [a \in Accounts |->
          userPosts[a] \ {p \in deleted : posts[p].author = a}]
     /\ ReleaseFragments(roots)
     /\ ClearBlockCounters
     /\ NextBlock
     /\ UNCHANGED <<storageNodes, operatorNodes, nextPostId, reactions>>

RegistryOps ==
  /\ NodeOps \/ HoldingOps \/ RegisterFragmentCall
  /\ UNCHANGED <<postVars, reactions, popularityVars>>

PostOps ==
  \E a \in Accounts, c \in Contents, parent \in PostIds \cup {None},
     paid \in BOOLEAN : CreatePost(a, c, parent, paid)

ReactionOps ==
  \E a \in Accounts, p \in PostIds, w \in {LikeWeight, DislikeWeight} :
    React(a, p, w)

ContentNext == RegistryOps \/ PostOps \/ ReactionOps \/ EndBlock

ContentSpec == ContentInit /\ [][ContentNext]_contentVars

----------------------------------------------------------------------------
ContentTypeOK ==
  /\ nextPostId \in 0..MaxPosts
  /\ posts \in [PostIds -> Post \cup {None}]
  /\ contentRefs \subseteq PostIds
  /\ rootIndex \in [Contents -> PostIds \cup {None}]
  /\ userPosts \in [Accounts -> SUBSET PostIds]
  /\ reactions \subseteq PostIds \X Accounts
  /\ scores \in [PostIds -> Score \cup {None}]
  /\ queue \in [PostIds -> Nat \cup {None}]
  /\ scanCursor \in Nat
  /\ deletionCursor \in PostIds \cup {None}

(* Every post is known to all five indexes under its own id and root, and  *)
(* to pallet_storage; an id without a post is known to none of them.       *)
(* create_post writes them in one extrinsic, delete_post and               *)
(* run_deletion_pass erase them in two pallets.                            *)
IndexesAgree ==
  \A p \in PostIds :
    /\ Live(p) => p < nextPostId /\ posts[p].root \in fragments
    /\ Live(p) <=> p \in contentRefs
    /\ Live(p) <=> scores[p] # None
    /\ \A c \in Contents : rootIndex[c] = p <=> Live(p) /\ posts[p].root = c
    /\ \A a \in Accounts :
         p \in userPosts[a] <=> Live(p) /\ posts[p].author = a

(* DeletionQueue and the marks in PostScores tell the same story: an entry *)
(* for exactly the marked posts, due GracePeriod after the mark.  Five     *)
(* places write one or the other.                                          *)
QueueIffMarked ==
  \A p \in PostIds :
    IF scores[p] # None /\ Marked(scores[p])
    THEN queue[p] = scores[p].marked + GracePeriod
    ELSE queue[p] = None

(* A mark does not outlive a recovery: the score recorded with it is below *)
(* threshold + margin, whichever of reaction and scan wrote last.          *)
MarkedBelowRecovery ==
  \A p \in PostIds : scores[p] # None /\ Marked(scores[p]) =>
    scores[p].stored < Recovery

(* A post goes only at the end of a block, at least GracePeriod after the  *)
(* block that marked it, and with a score that has not recovered.          *)
DeletedOnlyWhenDue ==
  [][\A p \in PostIds : Live(p) /\ posts'[p] = None =>
       /\ now' = now + 1
       /\ Decay(scores[p].stored, now - scores[p].touched) < Recovery
       /\ GracePeriod > 0 =>
            Marked(scores[p]) /\ now >= scores[p].marked + GracePeriod]_contentVars

(* A deleted post stays deleted: its id is never given out again and       *)
(* nothing, a late reaction least of all, recreates a piece of it.         *)
GoneForGood ==
  [][\A p \in PostIds : p < nextPostId /\ ~Live(p) =>
       /\ posts'[p] = None /\ scores'[p] = None /\ queue'[p] = None
       /\ \A a \in Accounts : <<p, a>> \in reactions' => <<p, a>> \in reactions
    ]_contentVars

(* The scan visits every live post again within one turn over all ids ever *)
(* given out: a post's recorded score is never staler than that.           *)
ScanTurn == (nextPostId + ScanLimit - 1) \div ScanLimit
ScanKeepsUp ==
  \A p \in PostIds : scores[p] # None => now - scores[p].touched <= ScanTurn

(* DeletionCursor: "the next pass continues ... and scans the entire queue *)
(* fairly".  A pass gets past min(ScanReads, DeleteLimit) entries or to    *)
(* the end, so a due post waits at most one turn over the queue, the pass  *)
(* that only finds its end included, whatever else is queued meanwhile.    *)
PassLength == IF ScanReads < DeleteLimit THEN ScanReads ELSE DeleteLimit
QueueTurn == (MaxPosts + PassLength - 1) \div PassLength
DuePostsAreDeleted ==
  \A p \in PostIds : queue[p] # None => now <= queue[p] + QueueTurn

(* Every behaviour is one that PostFate allows. *)
MarkedPosts == {p \in PostIds : Live(p) /\ Marked(scores[p])}
Fate == INSTANCE PostFate WITH
  clock <- now,
  published <- nextPostId,
  condemned <- [p \in MarkedPosts |-> scores[p].marked],
  gone <- {p \in PostIds : p < nextPostId /\ ~Live(p)}
ImplementsPostFate == Fate!FateSpec
=============================================================================
