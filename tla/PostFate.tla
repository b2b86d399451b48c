------------------------------ MODULE PostFate ------------------------------
(***************************************************************************)
(* What pallet_post and pallet_popularity together promise about one post: *)
(* ids are given out in order and never reused, a post is condemned before *)
(* it goes, a condemned post may be reprieved at any time, and it goes     *)
(* only at the end of a block at least GracePeriod after the one that      *)
(* condemned it.  Scores, cursors and indexes are left to ContentLifecycle.*)
(***************************************************************************)
EXTENDS Integers

CONSTANTS MaxPosts, GracePeriod

VARIABLES
  clock,      \* the current block
  published,  \* ids 0 .. published-1 have been given out
  condemned,  \* posts under notice, with the block that condemned them
  gone        \* deleted posts

fateVars == <<clock, published, condemned, gone>>

FateInit == clock = 1 /\ published = 0 /\ condemned = [p \in {} |-> 0] /\ gone = {}

Publish ==
  /\ published < MaxPosts
  /\ published' = published + 1
  /\ UNCHANGED <<clock, condemned, gone>>

(* Enough reactions arrived in time. *)
Reprieve(p) ==
  /\ condemned' = [q \in DOMAIN condemned \ {p} |-> condemned[q]]
  /\ UNCHANGED <<clock, published, gone>>

(* Standing posts may be condemned, condemned ones reprieved, and those    *)
(* whose time has run out deleted.                                         *)
BlockEnd(condemn, reprieve, delete) ==
  LET standing == (0..published-1) \ (DOMAIN condemned \cup gone)
      under    == (DOMAIN condemned \ reprieve) \cup condemn
      since(p) == IF p \in condemn THEN clock ELSE condemned[p]
  IN /\ condemn \subseteq standing
     /\ reprieve \subseteq DOMAIN condemned
     /\ delete \subseteq under
     /\ \A p \in delete : clock >= since(p) + GracePeriod
     /\ clock' = clock + 1
     /\ condemned' = [p \in under \ delete |-> since(p)]
     /\ gone' = gone \cup delete
     /\ UNCHANGED published

FateNext ==
  \/ Publish
  \/ \E p \in DOMAIN condemned : Reprieve(p)
  \/ \E condemn, reprieve, delete \in SUBSET (0..MaxPosts-1) :
       BlockEnd(condemn, reprieve, delete)

FateSpec == FateInit /\ [][FateNext]_fateVars
=============================================================================
