---------------------------- MODULE MiningThread ----------------------------
(***************************************************************************)
(* The nonce loop of a mining node and the build it works on.  The worker  *)
(* of sc_consensus_pow replaces the build while the thread hashes, sleeps  *)
(* or submits; both see it through the mining handle only.                 *)
(***************************************************************************)
EXTENDS Integers

CONSTANTS
  CheckEvery, \* 256: hashes between two looks at the build
  LastBest    \* bound on the blocks imported

ASSUME MiningAssumption == CheckEvery \in Nat \ {0} /\ LastBest \in Nat

NoBuild == -1

VARIABLES
  best,    \* height of the best block
  build,   \* the parent the current build extends, or NoBuild
  thread,  \* "fetch", "hash", "submit" or "wait"
  target,  \* initial_pre_hash: the parent of what the thread works on
  tried    \* hashes_tried % CheckEvery

miningVars == <<best, build, thread, target, tried>>

MiningInit ==
  /\ best = 0 /\ build = NoBuild
  /\ thread = "fetch" /\ target = NoBuild /\ tried = 0

\* The worker proposes on the best block, and again only when that changes.
Propose ==
  /\ build # best /\ build' = best
  /\ UNCHANGED <<best, thread, target, tried>>

\* A major sync: the worker drops the build.
DropBuild ==
  /\ build # NoBuild /\ build' = NoBuild
  /\ UNCHANGED <<best, thread, target, tried>>

ImportBlock ==
  /\ best < LastBest /\ best' = best + 1
  /\ UNCHANGED <<build, thread, target, tried>>

\* Without metadata the thread sleeps and asks again.
Fetch ==
  /\ thread = "fetch" /\ build # NoBuild
  /\ thread' = "hash" /\ target' = build /\ tried' = 0
  /\ UNCHANGED <<best, build>>

Counted == (tried + 1) % CheckEvery

(* A slip, used by the mutation runs only: the build is not looked at again. *)
NeverStale == FALSE

\* The check every CheckEvery hashes; a dropped build does not stop the hashing.
Stale == Counted = 0 /\ build # NoBuild /\ build # target

HashMiss ==
  /\ thread = "hash" /\ tried' = Counted
  /\ thread' = IF Stale THEN "fetch" ELSE "hash"
  /\ UNCHANGED <<best, build, target>>

HashHit ==
  /\ thread = "hash" /\ thread' = "submit"
  /\ UNCHANGED <<best, build, target, tried>>

\* submit verifies the seal against the current build, takes it and imports:
\* false for a seal of another build, or for none.
Submit ==
  /\ thread = "submit"
  /\ IF build = target
     THEN /\ build' = NoBuild /\ thread' = "wait"
          /\ best' = IF target = best /\ best < LastBest THEN best + 1 ELSE best
     ELSE /\ thread' = "fetch" /\ UNCHANGED <<build, best>>
  /\ UNCHANGED <<target, tried>>

\* The loop after a submission ends with another build, or with none.
Resumable == build # target

Resume ==
  /\ thread = "wait" /\ Resumable /\ thread' = "fetch"
  /\ UNCHANGED <<best, build, target, tried>>

MiningNext ==
  \/ Propose \/ DropBuild \/ ImportBlock
  \/ Fetch \/ HashMiss \/ HashHit \/ Submit \/ Resume

(* The thread never stops by itself and no luck is assumed: it hashes on. *)
MiningFairness == WF_miningVars(Fetch \/ HashMiss \/ HashHit) /\ WF_miningVars(Submit)

MiningSpec == MiningInit /\ [][MiningNext]_miningVars /\ MiningFairness
-----------------------------------------------------------------------------
(* Work on a build that was replaced ends: within CheckEvery hashes the thread
   leaves it, unless the build comes back or is dropped. *)
StaleWorkEnds ==
  (thread = "hash" /\ build \notin {target, NoBuild}) ~> (thread # "hash" \/ build \in {target, NoBuild})
=============================================================================
