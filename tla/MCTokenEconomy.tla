--------------------------- MODULE MCTokenEconomy ---------------------------
(* Small instances of TokenEconomy for TLC.                                *)
EXTENDS TokenEconomy, TLC

EconomySymmetry == Permutations(Accounts)

(* Two scenes, chosen at the start.  "spending": posts, Likes, locks, claims
   and governance over three blocks, without bonds.  "bonding": bonds, locks,
   notices, releases and slashes over four blocks, without posts. *)
VARIABLE scene

sceneVars == <<scene, economyVars>>

SceneInit == scene \in {"spending", "bonding"} /\ EconomyInit

Spending ==
  /\ PostPayments \/ SetPostShare \/ ReactorOps \/ Claims \/ EconomyBlockEnd
  /\ now' <= 3 /\ \A a \in Accounts: locks'[a] # None => locks'[a].amount > 0

Bonding ==
  /\ BondOps \/ ReactorOps \/ Slashes \/ EconomyBlockEnd
  /\ \A a \in Accounts: reactorCount'[a] = 0

SceneNext ==
  /\ (scene = "spending" /\ Spending) \/ (scene = "bonding" /\ Bonding)
  /\ UNCHANGED scene

SceneSpec == SceneInit /\ [][SceneNext]_sceneVars
=============================================================================
