------------------------- MODULE MCContentLifecycle -------------------------
(* Small instances of ContentLifecycle for TLC.                            *)
EXTENDS ContentLifecycle, TLC

(* decay::apply at a rate of one half per block. *)
HalveEachBlock(s, d) == s \div 2^d

(* decay::apply at a rate of zero: permill 0 answers 0 at once. *)
VanishAtOnce(s, d) == IF d = 0 THEN s ELSE 0

(* A hash order in which the newest id comes first. *)
NewestFirst == [p \in PostIds |-> (p + 1) % MaxPosts]

(* Accounts, peers and contents are only compared for equality. *)
ContentSymmetry ==
  Permutations(Accounts) \cup Permutations(Peers) \cup Permutations(Contents)
=============================================================================
