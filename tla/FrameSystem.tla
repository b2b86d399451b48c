---------------------------- MODULE FrameSystem ----------------------------
(***************************************************************************)
(* What every pallet sees of frame_system: the signing accounts and the    *)
(* block number.  A block ends when all on_finalize hooks have run.        *)
(***************************************************************************)
EXTENDS Integers, FiniteSets

CONSTANTS
  Accounts,   \* operators, authors, reactors, miners
  MaxBlock,   \* largest block number (u32::MAX)
  None        \* an absent entry of an OptionQuery map

ASSUME ChainAssumption == MaxBlock \in Nat

VARIABLE now  \* frame_system block number

Least(x, y) == IF x < y THEN x ELSE y
Greatest(x, y) == IF x > y THEN x ELSE y
SaturatingSub(x, y) == IF x < y THEN 0 ELSE x - y

NextBlock == now < MaxBlock /\ now' = now + 1
=============================================================================
