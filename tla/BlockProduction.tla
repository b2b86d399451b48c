-------------------------- MODULE BlockProduction --------------------------
(***************************************************************************)
(* What the end of a block decides about the blocks to come: the next      *)
(* difficulty (pallet-difficulty) and who votes on finality                *)
(* (pallet-grandpa-authority-election), with pallet-grandpa as it is used. *)
(***************************************************************************)
EXTENDS Integers, Sequences, SequencesExt, FiniteSetsExt, Functions

CONSTANTS
  Miners,        \* account ids: numbers, in the order of AccountId
  Keys,          \* GRANDPA public keys
  NoKey,
  WindowSize, AuthorityCount, RotationPeriod, RotationDelay,
  AdjustWindow, TargetBlockTime, MinDifficulty, InitialDifficulty,
  U256Max,       \* what the integer division of lwma.rs divides
  MinimumPeriod, \* of pallet_timestamp
  Gaps,          \* times between blocks
  LastHeight     \* bound on the blocks

ASSUME BlockAssumption ==
  /\ Miners \subseteq Nat /\ NoKey \notin Keys
  /\ {RotationDelay, LastHeight, MinimumPeriod} \subseteq Nat
  /\ {WindowSize, AuthorityCount, RotationPeriod, TargetBlockTime,
      MinDifficulty, InitialDifficulty, U256Max} \subseteq Nat \ {0}
  /\ AdjustWindow \in Nat \ {0, 1}
  /\ Gaps \subseteq {g \in Nat: g >= MinimumPeriod}

VARIABLES
  height,
  recentAuthors, \* the last WindowSize authors, the oldest first
  authorityKeys, \* [Miners -> Keys \cup {NoKey}]
  pending,       \* pallet_grandpa's PendingChange: <<>> or [at, keys]
  authorities,   \* pallet_grandpa's Authorities: a sequence of keys
  voters,        \* the set the nodes vote with: what the digests told them
  announced,     \* a ScheduledChange digest the nodes wait for: <<>> or [at, keys]
  difficulty,    \* CurrentDifficulty
  past           \* PastDifficultiesAndTimestamps: [diff, time], the oldest first

electionVars == <<recentAuthors, pending, authorities, voters, announced>>
difficultyVars == <<difficulty, past>>
blockVars == <<height, authorityKeys, electionVars, difficultyVars>>

Larger(a, b) == IF a > b THEN a ELSE b

BlockInit ==
  /\ height = 0
  /\ recentAuthors = <<>> /\ pending = <<>> /\ authorities = <<>>
  /\ voters = <<>> /\ announced = <<>>
  /\ authorityKeys = [m \in Miners |-> NoKey]
  /\ difficulty = Larger(InitialDifficulty, MinDifficulty) /\ past = <<>>

(* A ring of the last n elements. *)
Pushed(ring, x, n) == Append(IF Len(ring) >= n THEN Tail(ring) ELSE ring, x)
-----------------------------------------------------------------------------
(* Difficulty: lwma3_next_difficulty. *)

Solve(window, i) ==
  Min({Max({window[i].time - window[i - 1].time, 1}), 6 * TargetBlockTime})

(* A slip, used by the mutation runs only: the weights of one block less. *)
ShortTarget(m) == TargetBlockTime * ((m * (m - 1)) \div 2)

WeightedTarget(m) == TargetBlockTime * ((m * (m + 1)) \div 2)

NextDifficulty(window) ==
  LET m == Len(window) - 1
      inverses == [i \in 2 .. m + 1 |-> (U256Max \div window[i].diff) \div m]
      solved == [i \in 2 .. m + 1 |-> (i - 1) * Solve(window, i)]
      inverse == SumFunctionOnSet(inverses, 2 .. m + 1)
  IN IF inverse = 0 THEN window[m + 1].diff
     ELSE Min({(U256Max \div inverse) * WeightedTarget(m), U256Max})
            \div SumFunctionOnSet(solved, 2 .. m + 1)

Adjust(time) ==
  /\ past' = Pushed(past, [diff |-> difficulty, time |-> time], AdjustWindow)
  /\ difficulty' = IF Len(past') < AdjustWindow THEN difficulty
                   ELSE Larger(NextDifficulty(past'), MinDifficulty)
-----------------------------------------------------------------------------
(* Election: rotate, for the authors as the block leaves them. *)

Mined(m, ring) == Cardinality({i \in DOMAIN ring: ring[i] = m})

\* Most blocks first, then by account.
RanksAhead(a, b, ring) ==
  \/ Mined(a, ring) > Mined(b, ring)
  \/ Mined(a, ring) = Mined(b, ring) /\ a < b

\* The place of an account is the number of those ahead of it.
Ranked(accounts, ring) ==
  [i \in 1 .. Cardinality(accounts) |->
     CHOOSE m \in accounts: Cardinality({o \in accounts: RanksAhead(o, m, ring)}) = i - 1]

Keyed(accounts) == {m \in accounts: authorityKeys[m] # NoKey}

FirstOf(s) == SubSeq(s, 1, Min({Len(s), AuthorityCount}))

(* A slip, used by the mutation runs only: the best miners are taken first and
   those without a key left out, as the comment in rotate says. *)
FilteredTop(ring) == Ranked(Keyed(Range(FirstOf(Ranked(Range(ring), ring)))), ring)

Elected(ring) == FirstOf(Ranked(Keyed(Range(ring)), ring))

KeysOf(miners) == [i \in DOMAIN miners |-> authorityKeys[miners[i]]]

\* pallet_grandpa's on_finalize, which runs before the election's; the digest
\* goes out in the block that scheduled the change, the change comes later.
GrandpaFinalize(n) ==
  /\ announced' = IF pending # <<>> /\ n = pending.at THEN pending
                  ELSE IF announced # <<>> /\ n >= announced.at + RotationDelay THEN <<>>
                  ELSE announced
  /\ voters' = IF announced # <<>> /\ n >= announced.at + RotationDelay
               THEN announced.keys ELSE voters
  /\ authorities' = IF pending # <<>> /\ n = pending.at + RotationDelay
                    THEN pending.keys ELSE authorities

\* What on_finalize of pallet_grandpa leaves of the pending change.
Remaining(n) == IF pending # <<>> /\ n = pending.at + RotationDelay THEN <<>> ELSE pending

\* schedule_change refuses a second change while one is pending.
Rotate(n) ==
  LET chosen == Elected(recentAuthors') IN
  pending' = IF n % RotationPeriod = 0 /\ chosen # <<>> /\ Remaining(n) = <<>>
             THEN [at |-> n, keys |-> KeysOf(chosen)]
             ELSE Remaining(n)

FinalizeBlock == \E author \in Miners, gap \in Gaps:
  LET n == height + 1 IN
  /\ n <= LastHeight /\ height' = n
  /\ GrandpaFinalize(n)
  /\ Adjust((IF past = <<>> THEN 0 ELSE past[Len(past)].time) + gap)
  /\ recentAuthors' = Pushed(recentAuthors, author, WindowSize)
  /\ Rotate(n)
  /\ UNCHANGED authorityKeys

\* Nobody asks whether another account registered the same key.
RegisterGrandpaKey == \E m \in Miners, k \in Keys:
  /\ authorityKeys[m] = NoKey
  /\ authorityKeys' = [authorityKeys EXCEPT ![m] = k]
  /\ UNCHANGED <<height, electionVars, difficultyVars>>

UnregisterGrandpaKey == \E m \in Miners:
  /\ authorityKeys[m] # NoKey
  /\ authorityKeys' = [authorityKeys EXCEPT ![m] = NoKey]
  /\ UNCHANGED <<height, electionVars, difficultyVars>>

BlockNext == FinalizeBlock \/ RegisterGrandpaKey \/ UnregisterGrandpaKey

BlockSpec == BlockInit /\ [][BlockNext]_blockVars
-----------------------------------------------------------------------------
(* Who is elected: when a change is scheduled, a recent author whose key is left
   out faces a full set, and whoever's key is in mined as many of the blocks in
   the window. *)
ElectionIsFair ==
  [][pending' # pending /\ pending' # <<>> =>
       \A out \in Range(recentAuthors'):
         authorityKeys[out] \notin Range(pending'.keys) \cup {NoKey} =>
           /\ Len(pending'.keys) = AuthorityCount
           /\ \A k \in Range(pending'.keys): \E m \in Range(recentAuthors'):
                authorityKeys[m] = k /\ Mined(m, recentAuthors') >= Mined(out, recentAuthors')]_blockVars

(* The difficulty follows the pace: after a window of blocks none slower than
   the target it is no lower than the least of the window, after one of blocks
   none faster than the target no higher than the greatest and the floor.  (Of
   difficulties near the root of 2^256 the quotients of lwma.rs are too coarse
   for that, and beyond it their products saturate.) *)
Sound(diff) == AdjustWindow * diff * (diff + WeightedTarget(AdjustWindow)) <= U256Max
DifficultyFollowsPace ==
  [][Len(past') = AdjustWindow /\ past' # past =>
       LET gaps == {past'[i].time - past'[i - 1].time: i \in 2 .. AdjustWindow}
           diffs == {past'[i].diff: i \in 2 .. AdjustWindow}
       IN (\A d \in diffs: Sound(d)) =>
          /\ (\A g \in gaps: g <= TargetBlockTime) => difficulty' >= Min(diffs)
          /\ (\A g \in gaps: g >= TargetBlockTime) =>
               difficulty' <= Larger(Max(diffs), MinDifficulty)]_blockVars

(* What the chain has enacted the nodes vote with: a rotation is announced in a
   digest before it takes effect, or finality stays with the old voters. *)
VotersFollowRotation == authorities = voters
=============================================================================
