# Anarchy: a verification project in TLA+

Anarchy is a social network on its own chain: a Substrate runtime of some
fourteen pallets keeps posts, reactions, messages, tokens and a registry of
storage nodes; a blockchain node runs it, mines, and keeps a directory of live
storage nodes; a storage-node daemon keeps the coded fragments of the posts; a
web frontend with a Rust/WASM crypto engine writes and reads them. This directory
models the runtime, the blockchain node, the storage node and the codes, checks
the models with TLC on small instances, and proves part of them for all
instances with TLAPS.

Paths below are relative to the repository; pallet `x` is
`apps/blockchain/pallets/x/src/lib.rs`.

## 1. Inventory

### The chain

| Part | State | Operations | Must be true |
|---|---|---|---|
| `storage`, registry | nodes, operators, fragments, `FragmentHolders`, `NodeHoldings`, per-block counters | register, update, unregister a node; declare, revoke a holding; register, release a fragment; block end | the two holding maps mirror each other; an operator has one node; holders are registered nodes; the block budget bounds what is declared |
| `post` | posts, `ContentRefs`, root index, list per author | create (extrinsic), delete (called by `popularity`) | five indexes over three pallets agree; ids are never reused |
| `popularity` | score, mark, `DeletionQueue`, two cursors | on reaction; scan and deletion pass at block end | marks and queue agree; a post is deleted only when due, and then everywhere; no post is passed over |
| `reaction` | reactions, reaction pool, reactor locks, payout of the block, PoW difficulty | react, lock, unlock, block end | the payout cap holds; the pool is never drained; tokens come from the pool |
| `storage_stake` | bonds, total bond | bond, request and finalize release; slash (called by `storage`) | reserves are explained by bonds and locks; the total is the sum |
| `storage`, proof of holding | KZG fragments and holders, fragment state, challenges and their deadline index, proof records, pending rewards, repair pools, forgetting candidates | challenge, prove, claim, confirm repair, evict; expiry and slash at block end | every challenge is settled; one slash per node and content; rewards are conserved; the state follows the holders |
| `block_reward`, `base_fee`, `economic_params` | base fee, gas of the block, shares of a post's price | block end; governance calls | fees follow load; no transaction creates tokens |
| `messaging`, `stealth` | reception keys, dispatches per block, index by root; pool, receipt counters | send, publish and revoke a key; transfer, claim | the indexes tell every message once; receipts are paid once; the pool is what went in less what came out |
| `faucet` | claims, totals | unsigned claim: pool validation and execution | one reward per account, never above the cap |
| `difficulty`, `grandpa_authority_election` | window of timestamps; ring of authors, keys | block end; register, withdraw a key | the difficulty follows the pace; the best miners with a key are elected, and the voters follow |
| `nickname` | one map | set, clear | nothing a test would not reach |

Pallets call each other through adapters in `apps/blockchain/runtime/src/lib.rs`:
`create_post` writes into `storage` and `popularity` and feeds the pools of
`storage` and `reaction`; `react` calls `popularity`; `popularity`'s hook calls
`post`'s deletion and `storage`'s release; `storage`'s hook slashes in
`storage_stake`; `send_dm` feeds `stealth`. Bonds and locks share one unnamed
reserve of the account.

**What is hard on the chain.** Extrinsics of all accounts come in any order, and
every one of them is transactional: it succeeds whole or changes nothing. Hooks
run at the block end in a fixed order, are *not* rolled back, and must cope with
whatever the extrinsics left. Hard are therefore the long legal sequences, calls
in one block against a hook's cursor or index, stale index entries, deadlines and
notice periods, integer rounding, and the order of the hooks themselves.

### The blockchain node (`apps/blockchain/node/src`)

| Part | State | Operations | Must be true |
|---|---|---|---|
| directory (`rpc/mod.rs`, `gossip/`, `rpc/endpoint_policy.rs`) | entries with first and last sign of life, rate limit per operator | heartbeat over RPC, relay by gossip, list for a new peer | no dead node is offered; a steady one always is; gossip runs dry |
| storage RPC (`rpc/storage.rs`) | none of its own | count live nodes, verify, choose, forward; read from any | siblings lie apart; what was acknowledged is readable |
| mining thread (`service.rs`) | the build it hashes on | fetch, hash, submit, resume | work on a replaced build ends |

Heartbeats, relays and calls are lost, late or doubled; peers and storage nodes
come and go; two reads of one directory may see two states of it.

### The storage node (`apps/storage-node/src`)

| Part | State | Operations | Must be true |
|---|---|---|---|
| `storage/` | redb tables, a byte counter in the database and one in memory, touched keys | store, delete, read, flush, evict | the quota holds, no byte of it leaks |
| `gc/` | candidates and the age of their marks | mark, unmark, collect | only after a full grace period, but then some time |
| `challenge.rs`, `prover.rs` | pending challenges with attempts | answer, retry, clean up | what counts as answered is answered; the map drains |
| `chain/` | primary, standbys, client, genesis | register, fail over, refresh | never another chain |
| `network/` | two endpoint caches, the request in progress | hear gossip, handle a Put | what is offered was alive lately; a Put is authorised, and acknowledged truly |
| `rpc/` | nonces | check a signed request, store, read | a request runs once |

The process is one `select!` loop with spawned tasks. Hard are concurrent stores
against the quota, a crash between commit and counter, a lock dropped around an
`await`, a handler dropped by `select!` while its task goes on, expiry against
use.

### Packages and frontend

`packages/wasm-engine/src/kzg` holds the codes: verifiable shares (`vss.rs`,
`proof.rs`, `srs.rs`) and hybrid shards (`hybrid.rs`, `reed_solomon.rs`,
`key_sss.rs`). Recovery from any quorum, and proofs that tell a share from a
forgery, must hold at every length. The frontend (`apps/frontend/src`) has
protocols of its own in `workers/WorkerPool.ts`, `lib/pow/pausableMiner.ts` and
`lib/dm/`; `infra/` and `scripts/` deploy.

## 2. Modules

    FrameSystem
     |-- StorageRegistry
     |     |-- ContentLifecycle -------- ContentLifecycleProofs (both)
     |     |       `-- (implements) PostFate
     |     |       MCContentLifecycle, MCContentScenes
     |     `-- ProofOfHolding  (with StakeBonds)   MCProofOfHolding
     |             `------------------ ProofOfHoldingProofs
     `-- TokenLedger
           |-- StakeBonds ------.
           `-- ReactionRewards --`-- TokenEconomy  MCTokenEconomy
                                        `----- TokenEconomyProofs

    FragmentStore -- (implements) QuotaStore
     `-- GarbageCollection --.         MCGarbageCollection -.
    ChainClient -------------|                              |
    ChallengeMonitor --------|-- StorageDaemonProofs        |-- MCStorageDaemon
    PeerExchange ------------'                              |
    ShareCodes --- ShareCodesProofs   MCShareCodes ---------'

    RequestAuth -- StorageGateway -.  MCStorageGateway -----.
    FaucetClaims ------------------|                        |
    DirectMessages ----------------|-- ChainNodeProofs      |-- MCChainNode
    BlockProduction ---------------'                        |
    NodeDirectory -------------------- NodeDirectoryProofs -|
    MiningThread -------------------------------------------'

NumberFacts, below the proof modules, holds what they need of numbers, quotients
and sums over finite sets.

**The runtime.**

- **FrameSystem**: accounts and the block number. A block ends by `NextBlock`.
- **StorageRegistry**: the hash-fragment half of `pallet_storage`; one action per
  extrinsic, `RegistryBlockEnd` for `on_finalize`. A successful extrinsic is a
  step, a refused one is none. `hasBond` stands for `StakeProvider::has_bond`.
- **ContentLifecycle** composes `post`, `popularity`, the popularity part of
  `react` and the registry. `EndBlock` is the popularity hook followed by the
  storage hook: one scan window, one deletion pass. `paid` says whether the
  author could pay; the parent of a reply is checked and, as no pallet reads it
  again, not stored. The order in which the queue is iterated (hashed keys) is
  the constant `Rank`, the decay the constant `Decay`.
- **PostFate** is the abstract promise of a post's life (published, condemned,
  reprieved, gone); `ContentLifecycle` implements it.
- **TokenLedger**: free and reserved balances, issuance, the two pools;
  `pallet_balances` from how the pallets use it.
- **StakeBonds**, **ReactionRewards**: the pallets `storage_stake` and the token
  half of `reaction`. **TokenEconomy** composes them with the payment of
  `create_post`, governance of its shares, slashes, claims, block reward and base
  fee.
- **ProofOfHolding** composes the registry, the bonds and the KZG half of
  `pallet_storage`. `AfterExpiry` folds the expired challenges in their order
  on a record of the state, because one hook may slash several times.
  `SlashedOncePerContent` says by how much: over a block end every bond is what it
  was, less one slash for each content the node had no slash for before. The KZG
  proof is a guard. Among equal eviction candidates the code takes the first of
  a list; the model, which has a set, any of them.
- **DirectMessages**: `messaging` and `stealth` over several blocks. Capped claims
  advance a counter by a rounded share of the receipts (`Advance`); the history
  `rewarded` counts, beside it, what each payment was worth at the price of its moment.
  Whoever has made a signature is paid, as in the code: the proof that one-time key
  and signature belong together is still a no-op there.
- **FaucetClaims**: the transaction pool validates a claim, a block runs it later
  and validates it again.
- **BlockProduction**: the LWMA difficulty and the authority election at the end
  of a block, with `pallet_grandpa` and the nodes' voters as external definitions.

Nothing in the runtime calls `do_register_kzg_fragment` yet, and nothing writes
`ScoreCache`: KZG fragments exist only as the pallet's own tests make them.
`RegisterKzgFragment` and `StockFragment` start the model there, with the default
score 1000.

**The blockchain node.**

- **NodeDirectory**: storage nodes beat, their home node listens at most every
  `MinInterval`, gossips what is news, and sends its list on a new stream. Times
  are ages that saturate, so the model runs for ever. Heartbeats, relays and
  streams are lost and come back; `silence` and `calm` are history.
- **RequestAuth** and **StorageGateway**: a signed request of a client, placed by
  root and index on a node of the live list, checked there against time, nonce
  and payload hash, stored, and read again through all known nodes. Requests are
  sent twice, calls and replies get lost, the directory changes, a storage node
  restarts without its nonces.
- **MiningThread**: the hash loop against a worker that replaces or drops the build.

**The storage node.**

- **FragmentStore**: each store reserves in the atomic, inserts in one
  transaction, and hands back what it did not use; deletes, touches and the
  eviction job run between. A crash at any point keeps only the database. It
  implements **QuotaStore**, a plain map within a quota.
- **GarbageCollection**: the collection tick of `main` around the store, with lost
  answers, failing deletes and crashes; `doubt` is the history of the answers.
- **ChallengeMonitor**: one poll tick (hand over, retry, clean up) step by step
  against a chain that issues, expires and accepts. `poll_challenges` is a stub in
  the source that always fails; `Poll` hands over what the chain has, or fails.
- **ChainClient**: the primary's failure count, promotion of standbys, refresh from
  the gossiped cache, the genesis check, the registration with its retries.
- **PeerExchange**: endpoint gossip into caches, and Put requests whose handler may
  be dropped at every `await` while the spawned write goes on.

**The codes.** **ShareCodes** computes with polynomials over a finite field whose
addition and multiplication, `Plus` and `Times`, are constants: all it knows of them
are `FieldLaws`. The code has two such fields, the scalars Fr for verifiable shares and
GF(256) for hybrid shards, where `gf256_mul` adds by XOR and reduces by a polynomial. A group element `[p(tau)]` stands for the polynomial `p`: nobody knows tau, so
equal elements mean equal polynomials. Shares are values with an opening proof;
holders lose and change them, repairs add new ones. The ciphertext of a hybrid
shard is spread by Reed-Solomon, its key by Shamir's scheme. Shard `i - 1` lies at the
field element `i`: the erasure library evaluates at other points of its own
representation of GF(256), and any distinct ones do.
`MCShareCodes` gives two small fields for the runs, the numbers modulo a prime for
verifiable shares and GF(4), built like GF(256) by XOR and reduction (`GaloisTimes`),
for hybrid shards (`Shards`). It also assumes, and TLC evaluates, what makes bytes a
field: `gf256_mul` is a sum over the bits of each factor, so on the powers of two TLC
decides that it commutes and associates; and every byte but 0 has an inverse, which is
the power 254 that `gf256_inv` raises to (`ByteField`).

**MC modules** give TLC decay functions, key orders, symmetry sets and scenes.
`MCProofOfHolding` has `SettledSpec`, a network past its start, so that three
operators can be followed deep into challenges, slashes and repairs.
`MCContentScenes`, `MCTokenEconomy`, `MCStorageDaemon` and `MCChainNode` choose one
scene at the start and let the rest stand still: parts that share no state are
checked side by side in one run without multiplying their states.

Operators under the comment "a slip, used by the mutation runs only" are
plausible mistakes in the definition that follows them. Each checked property is
violated when one of them takes that definition's place.

## 3. Runs

| Run | Question | Distinct states | Answer |
|---|---|---|---|
| `content` | Do registry maps, post indexes, queue and marks stay in step in any order of calls, is a post deleted only when due, is `PostFate` implemented? | 58 434 | yes |
| `popularity` | Does a cursor ever leave a post behind (one id, one read, one deletion per block, 14 blocks)? | 360 133 | no |
| `economy` | Can posts, Likes, locks, bonds, slashes, claims, governance and block rewards break the payout cap, take each other's reserve, create tokens or mislead the base fee? | 584 240 | no |
| `challenges` | Is every challenge settled, and a node slashed once per content? | 326 939 | yes |
| `repair` | Are rewards conserved and does the fragment state follow its holders through slash, repair, eviction? | about 630 000 | yes |
| `fragment_store` | Does any order of two requests, the eviction job, failures and crashes leak a byte of the quota, or do what `QuotaStore` forbids? | 117 001 | no |
| `daemon` | Do the loops of a storage node hold what they promise: one chain, answered challenges, live endpoints, sound Puts, shares that verify and recover, collection after grace and at last? | 128 009 | yes |
| `node` | Does the blockchain node list the living and not the dead, place and find fragments, run a request once; do faucet, messages, election, difficulty and mining keep their books? | 392 141 | yes |
| `challenge_deadline` | Does a challenge run to its own deadline? | | no |
| `finality` | Do the voters follow a rotation? | | no |
| `recovery` | Does `vss_recover` give every content back? | | no |
| `ceremony` | Do shares verify with the repository's trusted setup? | | no |

### What the violated runs show

- `challenge_deadline`: a proof removes the challenge but not its entry in
  `ChallengesByDeadline` (storage:367); the entry later takes the next challenge of
  that share before its own deadline.
- `finality`: the runtime lists `Grandpa` before `GrandpaElection`
  (`runtime/src/lib.rs:757`), so `pallet_grandpa`'s `on_finalize` has run when the
  election schedules a change. It deposits the digest only in the block that
  scheduled the change, which is over: the chain enacts the new set, and nobody
  tells the voters.
- `recovery`: interpolation drops leading zero coefficients and the decoder only
  truncates (`vss.rs:197`, `encoding.rs:60`). A content that fills its scalars and
  ends in a zero scalar comes back short, without an error.
- `ceremony`: `load_srs_from_ceremony_text` (`srs.rs:179`) takes the first points of
  the file for powers of tau; `trusted_setup.txt` begins with the Lagrange points
  and has the powers (the first of them the generator) after those of G2.

### Smaller differences met while reading

Not runs, because one expression shows them and no order of steps matters.

*Pallets.* The registration difficulty sees the current block only, since
`on_finalize` removes each counter at once (storage:354, against `pow.rs:16`). Each
scan writes back a score rounded down (popularity:319): a score of 1,100 falls
below 1,000 after 101 blocks, where the design's formula gives 1,906. `react`
looks at the amount of a lock, never at `unlock_at` (reaction:489, against the
comment at 483). The bond factor is skipped for a bond of 0 (`rewards.rs:134`), so a
node that took its bond back earns more than most bonded ones. `update_node`
accepts less than the minimum capacity of registration (storage:1094); a Bad
reaction *raises* the score (popularity:266); `claim_reward` may empty the storage
pool, which parameters.md I-2 excludes (storage:1506); `do_release_fragment` leaves
challenges, deadlines and repair pools (storage:2087); an empty pool makes content a
forgetting candidate (storage:1368); new shares rank above original ones in
eviction, against the comment (storage:1938); the unmark branch of the scan
(popularity:329) can never run, because a marked score is below the recovery
threshold and the scan only lowers it (`MarkedBelowRecovery` is the reason). Two
accounts may register the same GRANDPA key, and a key withdrawn between schedule
and enactment stays. `send_dm` never checks the recipient's reception key. A
capped claim of a single receipt uses it up whole.

*Blockchain node.* A list for a new peer carries the time of registration, not of
the last heartbeat, so a steady node may look stale there until its next relay.
Eviction takes the longest registered, though it is called LRU. The heartbeat of
30 s equals `MIN_REREGISTER_INTERVAL_SECS`. A shard is stored under
`create_kzg_shard_id`, which `storage_getFragment` never looks up, and
`store_kzg_shard` (`rpc/storage.rs:710`) renames a field and drops the proof, so
the payload hash the client signed cannot match (`auth.rs:276`); no client calls it
yet. When RandomX cannot start, the mining thread ends silently; a dropped build
does not stop the hashing.

*Storage node.* The nonce is remembered before payload and signature are read, so a
failed store needs a freshly signed retry. A client whose clock is ahead by up to
30 s outlives its nonce by as much, and a restart forgets all nonces. Standbys are
added only after a failover, so a node that starts without one never leaves a dead
primary (`failover.rs:3` promises automatic failover). `EndpointCache` expects the
chain id `[0; 32]`, which honest announcers of a real chain do not send. Older
gossip overwrites newer, and timestamps in the future are not refused. Nothing
calls the latency and reputation updates, so `get_healthy_by_latency` is always
empty and the 60 s broadcast sends nothing. A `select!` that drops a handler loses
the Ack and the declaration of a write that may complete. Only
`check_forgetting_candidates` reaches the collector, it refuses more than 1000
hashes, and fragments stored over HTTP have ids the chain never calls forgotten.

### Bounds

Clocks (`MaxBlock`, `LastBlock`, `LastHeight`, `LastTick`, `Horizon`,
`LastClaimBlock`, `LastDmBlock`, `LastBest`) are chosen so that mark, grace and
deletion, notice periods, challenge windows, a halving, a rotation with its delay,
a full difficulty window, the expiry of a nonce and of an endpoint pass at least
once with steps to spare. `NodeDirectory` and `FragmentStore` need none: ages
saturate one step past the largest limit they are compared with. Counts
(`MaxPosts`, `MaxReactions`, `MaxIssues`, `MaxSends`, `MaxTroubles`, `MaxCancels`,
`MaxSpoils`, `MaxGifts`, `MaxStandbys`) bound how often the environment acts: two or
three times, so that a second one meets the traces of the first. Limits such as
`MaxHolders`, `MaxHoldings`, `MaxDeclarations`, `ScanLimit`, `DeleteLimit`,
`ScanReads`, `MaxDue`, `Capacity`, `MaxDispatches`, `TotalCap`, `FailureThreshold`,
`MaxAttempts` are the code's own, small, so that they are reached: three fragments
against a quota of two, three claimants against a cap of two and a half rewards,
two stores of 200 bytes against 300. `Parts` and `Whole` = 10 replace 10^6 so that
rounding is coarse and frequent; `Word` = 8 replaces 2^64 with a seed whose sum
reaches the last value; `CheckEvery` = 3 replaces 256. For verifiable shares the field
of 5 elements with bytes of one bit, two to a scalar, holds every padding and quorum of 2 of 3 shares and
one spare; `MaxSpoils` = 2 lets two holders change their pieces of the same content, or one
piece be changed, mended and changed again (verifiable shares of the shortest content;
once elsewhere). Hybrid shards are over GF(4), whose addition is XOR, with ciphertexts
of one, three and four of its elements. What the small fields and threshold might hide is what section 4
proves for all of them. Heartbeats fall due every `Interval` = 2, take up to
`MaxDelay` = 1 to the home node, which refuses them within `MinInterval` = 2 of the last
it took: so a steady node's calls come late, early after a late one, and are refused. Symmetry is over accounts, peers, contents and requests, which the
specifications compare for equality only (in `Repair` accounts are peers, one set of
permutations), and over none in runs with liveness. The base fee is checked from 8
up: below 8 an eighth is 0 and the fee cannot rise; the runtime's minimum is 100.
`SecondOnly` and `Skews = {0}` are one directory and synchronous clients; a client
ahead of time is excluded by the property, which says so.

`CHECK_DEADLOCK FALSE` where a bounded clock ends the run. `fragment_store` needs no
such line.

### Fairness

The chain's progress properties assume none: they are stated as bounds on delay,
which block production alone implies. `ScanKeepsUp` (a score is never staler than
one turn over all ids) and `DuePostsAreDeleted` (a due post waits at most one turn
over the queue) count blocks, and hooks run in every block.

- `GarbageCollection`: weak fairness of every step of the tick, of refunds, of time
  and of the restart (`main`'s interval keeps ticking, an operator's supervisor
  starts the process again); strong fairness of the chain's answer and of a
  successful delete: both are asked for again and again, and fail only for a while.
  Without the latter two, an RPC that always fails keeps a fragment for ever.
- `ChallengeMonitor`: weak fairness of the poll tick, strong fairness of a cleanup
  that gets the height of the chain.
- `NodeDirectory`: weak fairness of the gossip loop alone.
- `MiningThread`: weak fairness of the thread's steps, and no luck: `HashMiss` may go
  on for ever.

## 4. Proofs

| Theorem | Says |
|---|---|
| `ContentLifecycleProofs!RegistryCorrect` | types, `HoldingsMirrored`, `OneNodePerOperator`, `HoldersAreLive` always hold |
| `…!BudgetCoversGainHolds` | every holding gained is charged, and no more than `MaxDeclarations` are in a block |
| `…!ContentCorrect` | types, `IndexesAgree`, `QueueIffMarked`, `MarkedBelowRecovery` always hold |
| `…!ContentHoldersAreLive` | the holding maps mirror each other and holders stay live while posts are deleted under them |
| `…!DeletedOnlyWhenDueHolds`, `…!GoneForGoodHolds` | a post goes only when due, and for good |
| `…!ContentImplementsPostFate` | post, popularity, reaction and storage together implement `PostFate` |
| `TokenEconomyProofs!EconomyTypesHold` | no balance, reserve, pool, issuance or fee goes below 0 |
| `…!ReservesAlwaysExplained` | an account's reserve is its bond plus its lock |
| `…!PayoutCapAlwaysHolds`, `…!ReactionPoolNeverDrained` | the cap bounds each block and keeps the pool positive |
| `…!SharesAlwaysFit`, `…!NoMoneyIsCreated` | no transaction creates tokens, a block end at most the block reward |
| `…!BondTotalAlwaysAgrees` | the total bond is the sum of all bonds |
| `…!FeeAlwaysFollowsLoad` | full blocks raise the base fee to its ceiling, blocks within the target never do, none moves it by more than an eighth |
| `ContentLifecycleProofs!ScanAlwaysKeepsUp` | no score is staler than one turn of the scan over the ids given out |
| `…!DuePostsAlwaysDeleted` | a due post waits at most one turn of the deletion pass |
| `ProofOfHoldingProofs!HoldingTypesHold` | no slash, claim or release goes below 0 |
| `…!ChallengesAlwaysResolve`, `…!NodesSlashedOnce` | every challenge is in the list of its deadline; a block end takes one slash from a bond for each content not slashed for before, and nothing else shrinks it but a notice |
| `…!StateAlwaysFollowsHolders`, `…!RepairAlwaysStops` | the fragment state is that of the holders; repairs stop at the target |
| `…!RewardsAlwaysAccounted` | rewards and repair pools together grow by answered challenges and shrink by claims only |
| `StorageDaemonProofs!UsedAlwaysExplained` | no order of stores, deletes, evictions, collections and crashes leaks a byte of the quota |
| `…!StoreKeepsItsPromise` | the store with its eviction and collection implements `QuotaStore` |
| `…!GcAlwaysWaits` | what is collected was called forgotten for a full grace period |
| `…!SubmittedIsAlwaysAnswered` | what counts as submitted was answered |
| `…!OfferedWasAliveHolds` | an endpoint on offer answered somebody within its lifetime |
| `…!PutsAreSoundHolds` | kept fragments were registered, acknowledged ones are kept and being declared |
| `…!OneChainAlways` | the client stays on the chain it met first |
| `ChainNodeProofs!FaucetSunsetHolds`, `…!OneClaimEach` | the mint is one reward per claimant within the cap; a claim is never made again |
| `…!RunsOnceHolds` | a signed request runs at most once between two starts of a storage node, if its clock is not ahead |
| `…!FragmentsSpreadOut`, `…!AckedAlwaysReadable` | siblings of one list lie apart; an acknowledged fragment is found while a holder is awake and listed |
| `…!StealthBooksAlwaysBalance`, `…!MessagesAreIndexed` | the claims of a key are worth no more receipts than they used up; the indexes tell every message once |
| `…!DifficultyAlwaysFollows` | rounding never turns the difficulty against the pace |
| `…!ElectionAlwaysFair` | whoever has a key and is left out faces a full set that mined no less |
| `NodeDirectoryProofs!NoGhostsHolds` | no directory offers a storage node silent for longer than `StaleAfter` plus `MaxDelay` |
| `…!SteadyAlwaysListed` | a storage node that runs and gets through is live at home all the time |
| `ShareCodesProofs!SharesAlwaysVerify` | a piece opens the commitment exactly when its holder left it alone, also after new proofs and repairs |
| `…!HybridAlwaysRecovers` | any threshold of untouched hybrid shards gives the content, no other gives anything else |
| `…!QuorumsAgree` | any threshold of untouched shares, dealt or regenerated, gives the polynomial that was split |
| `…!CodesInvariant` | which pieces are shares, and of what |
| `…!OpensExactly`, `…!FewRoots`, `…!InterpolationIsExact` | the algebra: one value and one proof open at an index; few roots; interpolation as the code computes it is exact |

They hold for any sets of accounts, peers, contents, URLs and nodes and any limits,
from the named assumptions of the modules: numbers are naturals, shares are at most a
whole, `None` is no value of a map, decay never raises a score, the key order is
injective, accounts, claimants, keys of messages, clients, fragments and storage nodes
are finitely many, and an old database fits the capacity it is opened with
(`StoreAssumption`: the code compares the two only when a fragment is stored).
`PowersOfTwo` restates a fact of arithmetic (a power of 2 is a positive natural) that
the provers lack. `FieldAssumption` is the axioms of a field for the constants `Plus` and
`Times`, over elements named 0 .. `Order` - 1; nothing in the proofs knows how they
compute, so they are about Fr and about GF(256) alike (`ByteField` is the check that
the code's bytes are an instance). `LostAssumption` keeps the mark of an absent piece apart from polynomials and
pieces. Some theorems assume more of the constants, and say so: the ones about
verifiable shares that the setup's points are the powers of tau in their order
(`PowersOfTau`: the test setup; the `ceremony` run is about the repository's file, where
they are not, and hybrid shards need none),
`FeeAlwaysFollowsLoad` that start and floor of the fee lie below its ceiling
(`FeeBounds`; `runtime/src/lib.rs:393` has 10 000, 100 and 10^11), `SteadyAlwaysListed`
that the registry has room for all and `Interval + MinInterval + MaxDelay <= StaleAfter`
(`KeepsPace`; 30 s, 30 s and 180 s, so calls may take 120 s).

*Numbers.* The library's induction theorems cannot be instantiated here, so
`NumberFacts` argues by least counterexample: a set of naturals that contains 0 and
with each number the next contains all (`NumbersReached`), and the same for the
subsets of a finite set (`SetsReached`). From them come the sums: `SumFunctionOnSet`
is a fold whose choices are not ours, so `SumIsSums` shows that it is the one function
on subsets that adds an element at a time; then sums that change at one place
(`SumChange`), that add up, are split, compared or weighed.

*Registry.* The invariant is the conjunction of its four parts. Each alone is not
inductive: `unregister_node` keeps `HoldersAreLive` because `NodeHoldings` is empty
and mirrors the holder lists, `register_node` keeps `OneNodePerOperator` because
both maps are free, and release keeps the mirror because the holder list names
every node to prune. The cardinalities compared by the limits play no part.

*Content.* `ContentInv` adds to the registry's invariant the types, the agreement
of the indexes, queue and marks, and that no score was touched after the present
block (`ClockOK`), without which decay over a negative distance would say nothing.
Unique roots per post make `RootsFreed` exact: `rootIndex` maps a freed root to the
deleted post and to no other. The block end is one action over four pallets; its
proof has one step per conjunct. The refinement maps `create_post` to `Publish`, a
reaction that unmarks to `Reprieve(p)`, any other to a stutter, and the block end to
one `BlockEnd(condemn, reprieve, delete)`, whose three sets are read off the scan
window and the deletion candidates; it needs queue and marks to agree, or a stale
queue entry could delete a reprieved post.

*Tokens.* `EconomyInv` joins five facts that need each other. Types: what a slash
burns and returns is a subtraction from `reserved`, natural because
`ReservesExplained` says the bond is in there. `ReactionPoolStaysPositive`: a Like
is granted less than the pool because the budget is a share below the whole.
`PayoutCapHolds` is stated over pool plus payouts, which a Like does not change, so a
deposit within the block can only widen it. `NoMoneyIsCreated` adds lemmas on
rounding: two or three shares that fit into the whole, each rounded down, take no
more than there is (`PartsFit`, `ThreePartsFit`). The decay of a reactor's reward is
typed because every natural number has a root rounded down (`IntegerRoot`, by least
counterexample).

*Lag.* `ScanInv` says that every block since a post was last touched took the scan
`ScanLimit` ids on: the distance the cursor has gone since it could last have met the
post, through the top of the ids or not, is at least `ScanLimit` per block, less one
window that ended early at the top. Creating posts moves the top and deleting them
moves nothing, since the scan runs over ids. `QueueInv` says the same of places in the
queue, where a pass may also end at the end of the queue: that pass is the one turn has
to spare, and why the bound is `QueueTurn` and not less.

*Fee.* The fee stays within its bounds (`FeeInv`), so the clamp only ever cuts a move
short; the move itself is an eighth of the fee, weighed by how far the block is from
the target, rounded towards no move.

*Proof of holding.* `HoldingInv` joins types, the state of the fragments, and that a
pending challenge is in the list of its own deadline, a block that can still come. The
block end is a fold over the expired challenges on a record of the state; each fact
about it is proved for a prefix of the list and carried along (`NumbersReached`). One
slash per content holds because the fold marks the record before it meets the next
challenge of the same node: at every prefix the bond is `BondAfterSlashes` of the
contents newly marked, so a second share of a content leaves it as it is. Rewards are a sum over accounts plus one over pools; a
slash moves one amount from one to the other, which `SumChange` reads off.

*Store.* Beside the books, `StoreInv` says that what is stored and what is reserved for
an insertion still to come fit the capacity together. The atomic alone would not do: a
store that found its key taken hands back what it reserved only after its transaction,
a delete lowers the atomic after its own, so the atomic is an upper bound, and the sum
over the insertions is what a new reservation was compared with. The refinement of
`QuotaStore` follows: a committed insertion is a `Put` that fits, a delete, an eviction
or a collection a `Remove`, and every other step a stutter.
*Collector*: a mark is no older than the doubt it stands for, and no answer of the
chain is taken between the choice of keys and their deletion.

*Challenges.* An entry may say "submitted" of the challenge before. That is harmless
while the chain's challenge is another one: serial numbers of challenges on the chain,
handed over and told are at most the number issued, so a new one has none of them, and
handing it over writes a fresh entry.

*One chain.* `ChainInv`: a hot standby is known from the start or serves the genesis
the client met, a primary is the configured one or was such a standby, and whatever
client is connected serves that genesis. Refreshing walks the cache's list, and
each endpoint it pushes answered with our genesis. The genesis is written by the first
connection; later ones are refused unless they serve it (`OurChain`).

*Peers.* An offered endpoint was alive because every cached time, and every time in a
message, is a moment at which the endpoint answered (`seen` only grows). A Put is
sound because the request, while it waits for the disk, names a warranted fragment,
and every fragment being written or kept is warranted; dropping the request drops no
warrant.

*Faucet.* The counters equal the cardinality of the claimants, which grows by one
where a claim was absent.

*Directory.* Every trace of a storage node (a heartbeat or relay on its way, an
entry) trails its last heartbeat: its age is at least `silence`, up to saturation.
The one lemma per kind of trace is preserved because relays and lists copy ages and
a tick ages all traces alike; that a list sends the older of two ages is what makes
it safe. A steady node is listed because what the home node accepted of late has an
entry at least as fresh (`HeardIsListed`), and because the next heartbeat is either due
in time or on its way, sent late enough not to be turned down (`InTime`): a refusal is
followed by one interval, not by two.

*Gateway.* A request that ran is spent: its signature has run out, or the node still
remembers its nonce from no earlier than the signature. The collection of nonces
keeps that because a nonce it drops is older than `Validity`, so the signature, which
is older still, has run out; this is where the clock must not be ahead. Nonces are
unique because the client counts them. `PlacesInv` says that every placing follows the
rule of seed plus index; two indices below the number of nodes leave different
remainders, as long as the sum does not wrap. A read tries the primary and then all it
knows, without repeating one: `ReadListHasAll`, a recursive function over the list, is
the lemma that nobody is left out.

*Messages.* `IndexInv` numbers the dispatches of all blocks through: an entry's id is
the number of entries before it, and blocks to come are empty. `BooksInv` carries the
pool as what was fed less what was paid; a capped claim advances by a rounded share of
the receipts, at least one and at most what is open (`AdvanceFact`). That covers what the
payment is worth because an uncapped claim already gets no more than its part of the
pool, and the rounding of the worth is no coarser than that of the advance (`WorthFact`).

*Difficulty.* If no block of the window was slower than the target, each weighted solve
time is at most its weighted target, and each `U256Max \div diff` at most that of the
least difficulty; what is left is to show that the rounding of the quotients, of the
mean and of the last division together do not push the result below that least. It holds
while `AdjustWindow * diff * (diff + weights)` is at most 2^256 (`Sound`): with 60 blocks
of 30 000 ms, for difficulties up to about 2^125. Beyond it the quotients of `lwma.rs`
are coarser than the differences they should tell, and its products saturate;
`DifficultyFollowsPace` says so. The slow side is the mirror image, with the floor.

*Election.* The rank of an author is the number of authors with a key ahead of it. "More
blocks, then the smaller account" is a strict order of all miners, so ranks differ, are
all below the number of authors, and therefore take every value (a finite injection is
onto): the ranking lists everybody. Whoever is left out of its first `AuthorityCount`
entries ranks behind all of them.

*Codes.* What is used of a field is derived first: an opposite and an inverse that
CHOOSE picks, cancellation, no divisors of 0. The base is that Horner's scheme is the one function on places that passes the
value down (`PassedFacts`); everything else compares two polynomials place by place.
Written this way, the opening equation says that the claimed value and proof are
what Horner's scheme passes through, hence one pair opens at an index (`OpensExactly`),
and a root takes a factor and with it a coefficient off, hence `FewRoots`, by least
counterexample on the length; there the field is needed, to divide. Interpolation adds, in
an order that is not ours, one term per point that is the given value there and 0 at the
others; the sum has the right values and is no longer than the points are many, so it is
the polynomial (`InterpolationIsExact`). With the powers of tau the commitment to a
polynomial no longer than the setup is the polynomial itself (`CommitmentFacts`).
`CodesInv` then says of every present piece that it is a share of the curve exactly when it
is not in `spoilt`, and needs the types of both, because what a change makes must still be
a value with a polynomial for a proof. Regeneration keeps it because only a polynomial with the
same commitment is used, whatever the donors sent; a new proof mends a piece exactly
when its value is right. A hybrid piece that nobody changed is the one that was dealt:
its chunks are values of curves through the data, its key share is one of the key's. The
converse is not needed, since the cipher refuses a wrong key or ciphertext.

Only model-checked: what needs fairness (`ForgottenIsCollected`, `PendingDrains`,
`Quiesces`, `StaleWorkEnds`), which is beyond these provers; and that the scalars of a
polynomial decode to the bytes that went in, an induction over powers of the byte base,
which the provers have no arithmetic for. `QuorumsAgree` stops at the polynomial; the
`recovery` run shows the one case in which the decoding after it goes wrong.

## 5. Assumptions

Extrinsics are transactional and hooks run once per block in the order of the
runtime (FRAME). redb transactions are atomic and durable. Proofs of work, Merkle
proofs and signatures can be made by whoever should be able to, and by nobody else.
Announcers of endpoints are honest about when they saw them and their clocks agree.
Group elements are ideal, AES-GCM refuses what was changed. Amounts stay far below
u128. An entry of a bounded list without duplicates is a member of a set.

## 6. Plan

Done: runtime, blockchain node, storage node, codes. What is left, in this order:

1. **ReactionDifficulty** (`reaction`): the casts of `adjust_difficulty` over blocks.
2. **WorkerPool**, **PausableMiner** (frontend): each task settled once.
3. **DmScanner** (frontend): its cursor over the dispatch lists of `DirectMessages`.
4. **RepairSession** (storage node), once its transfers exist.
5. Proofs: what any two pallets of a block end may assume of each other, for a
   composition of all of them; `vss_recover` for contents that do not end in a zero scalar.

## 7. Running

    tlc -config Content.cfg MCContentScenes
    tlapm ContentLifecycleProofs.tla

`PROJECT.json` names module, configuration and properties of each run, and the
source lines each definition models.

## 8. Not modelled

- Consensus, RandomX, GRANDPA voting, the transaction pool: the framework's, modelled
  as external definitions where a part of this repository depends on them.
- The curve, hashes, ciphers, stealth key derivation: ideal in `ShareCodes`.
- The storage node's repair protocol and `stale_holder_gc`: their transfers, reports
  and cycles are marked TODO or answer "not implemented", so there is no behaviour to
  model. `ReputationManager`: nothing outside its tests calls it.
- Nicknames: one map with set and clear.
- The frontend. `WorkerPool`, `pausableMiner` and the message scanner have protocols
  worth modelling (section 6); a failure of theirs costs one user a retry.
- RPC queries that only read runtime state, configuration, metrics, deployment.
