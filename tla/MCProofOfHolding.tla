-------------------------- MODULE MCProofOfHolding --------------------------
(* Small instances of ProofOfHolding for TLC.                              *)
EXTENDS ProofOfHolding, TLC

HoldingSymmetry == Permutations(Accounts)

(* A network past its start, for instances with Peers = Accounts: every    *)
(* account has bonded for the least capacity and runs the node of its own  *)
(* name.  Nobody joins or leaves, so that a run reaches deep into          *)
(* challenges, slashes and repairs of three operators.                     *)
LeastBond == Price(MinDeclaredCapacity)

SettledInit ==
  /\ now = 1 /\ fragments = {}
  /\ storageNodes = [p \in Peers |->
       [operator |-> p, capacity |-> MinNodeCapacity, registeredAt |-> 0]]
  /\ operatorNodes = [a \in Accounts |-> a]
  /\ registrationCount = [b \in {} |-> 0]
  /\ fragmentHolders = [c \in Contents |-> {}]
  /\ nodeHoldings = [p \in Peers |-> {}]
  /\ declareCount = [p \in Peers |-> 0]
  /\ free = [a \in Accounts |-> Endowment - LeastBond]
  /\ reserved = [a \in Accounts |-> LeastBond]
  /\ issuance = Endowment * Cardinality(Accounts)
  /\ storagePool = GenesisPool /\ reactionPool = GenesisPool
  /\ bonds = [a \in Accounts |-> [amount |-> LeastBond, requested |-> None]]
  /\ totalActiveBond = LeastBond * Cardinality(Accounts)
  /\ KzgInit

SettledNext ==
  \/ Stocking /\ now = 1
  \/ Challenges \/ Proofs \/ Withdrawals \/ Repairs \/ HoldingBlockEnd

SettledSpec == SettledInit /\ [][SettledNext]_holdingProofVars
=============================================================================
