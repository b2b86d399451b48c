----------------------------- MODULE StakeBonds -----------------------------
(***************************************************************************)
(* pallet_storage_stake: a storage operator's bond is a reserve of its own *)
(* balance.  It is returned after a notice period, and pallet_storage may  *)
(* slash it at any time, also during the notice.                           *)
(***************************************************************************)
EXTENDS TokenLedger, Functions

CONSTANTS
  BondPerGB,
  GB,                    \* BYTES_PER_GB
  MinDeclaredCapacity,
  DeclaredCapacities,    \* the capacities an operator may declare
  BondReleaseDelay,
  BurnShare              \* SlashBurnSharePermill, of Parts

ASSUME StakeAssumption ==
  /\ BondPerGB \in Nat \ {0} /\ GB \in Nat \ {0}
  /\ MinDeclaredCapacity \in Nat \ {0}
  /\ DeclaredCapacities \subseteq Nat
  /\ BondReleaseDelay \in Nat
  /\ BurnShare \in 0..Parts

StakeBond == [amount : Nat, requested : Nat \cup {None}]

ASSUME StakeNone == None \notin StakeBond \cup Nat

VARIABLES
  bonds,             \* Bonds
  totalActiveBond    \* TotalActiveBond

stakeVars == <<bonds, totalActiveBond>>

StakeInit ==
  /\ bonds = [a \in Accounts |-> None]
  /\ totalActiveBond = 0

HasBond(a) == bonds[a] # None
BondAmount(a) == IF HasBond(a) THEN bonds[a].amount ELSE 0
Price(capacity) == BondPerGB * ((capacity + GB - 1) \div GB)

Bond(a, capacity) ==
  LET amount == Price(capacity)
  IN /\ ~HasBond(a)
     /\ capacity >= MinDeclaredCapacity
     /\ Reserve(a, amount)
     /\ bonds' = [bonds EXCEPT ![a] = [amount |-> amount, requested |-> None]]
     /\ totalActiveBond' = totalActiveBond + amount

RequestRelease(a) ==
  /\ HasBond(a)
  /\ bonds[a].requested = None
  /\ bonds' = [bonds EXCEPT ![a] = [@ EXCEPT !.requested = now]]
  /\ UNCHANGED <<balanceVars, totalActiveBond>>

NoticeServed(a) ==
  bonds[a].requested # None /\ now >= bonds[a].requested + BondReleaseDelay

FinalizeRelease(a) ==
  /\ HasBond(a)
  /\ NoticeServed(a)
  /\ Unreserve(a, bonds[a].amount)
  /\ bonds' = [bonds EXCEPT ![a] = None]
  /\ totalActiveBond' = SaturatingSub(totalActiveBond, bonds[a].amount)

(* do_slash_bond: cuts at most the bond, burns a share of the cut, returns *)
(* the rest to the operator, and drops a bond that reached 0.              *)
ReturnedAll(cut) == cut  \* slip: the burnt share is returned as well
Returned(cut) == cut - PartOf(BurnShare, cut)
OnlyBurnt(cut) == PartOf(BurnShare, cut)  \* slip: the returned share stays counted
Uncounted(cut) == cut

(* On a record of the state, so that one block end can slash repeatedly.   *)
StakeState ==
  [free |-> free, reserved |-> reserved, issuance |-> issuance,
   bonds |-> bonds, total |-> totalActiveBond]

AfterSlash(s, a, x) ==
  LET amount == IF s.bonds[a] = None THEN 0 ELSE s.bonds[a].amount
      cut == Least(amount, x)
      burnt == Least(PartOf(BurnShare, cut), s.reserved[a])
      back == Least(Returned(cut), s.reserved[a] - burnt)
  IN IF cut = 0 THEN s
     ELSE [s EXCEPT
             !.reserved[a] = @ - burnt - back,
             !.free[a] = @ + back,
             !.issuance = SaturatingSub(@, burnt),
             !.bonds[a] = IF cut = amount THEN None
                          ELSE [@ EXCEPT !.amount = amount - cut],
             !.total = SaturatingSub(@, Uncounted(cut))]

StakeBecomes(s) ==
  /\ free' = s.free /\ reserved' = s.reserved /\ issuance' = s.issuance
  /\ bonds' = s.bonds /\ totalActiveBond' = s.total

StakeOps ==
  \E a \in Accounts :
    \/ \E capacity \in DeclaredCapacities : Bond(a, capacity)
    \/ RequestRelease(a)
    \/ FinalizeRelease(a)

BondAmounts == [a \in Accounts |-> BondAmount(a)]

(* TotalActiveBond, by which every reward is weighted, is the sum of the   *)
(* bonds, notice period included, through releases and slashes: its        *)
(* saturating subtraction never has to saturate.                           *)
BondTotalAgrees == totalActiveBond = SumFunctionOnSet(BondAmounts, Accounts)
=============================================================================
