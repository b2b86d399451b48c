--------------------------- MODULE DirectMessages ---------------------------
(***************************************************************************)
(* Direct messages on the chain: pallet-messaging indexes what is sent,    *)
(* pallet-stealth counts what every one-time key received and pays for it  *)
(* from a pool that messages fill.  A call that fails leaves no trace.     *)
(***************************************************************************)
EXTENDS Integers, Sequences, SequencesExt, FiniteSetsExt

CONSTANTS
  People,       \* accounts, stealth ones among them
  MessageRoots, \* merkle roots of ciphertexts
  OneTimeKeys,  \* ephemeral public keys
  Whole,        \* 1_000_000: permill and ppm
  DmBaseCost, DmByteCost, DmBytes, \* DmBytes: the padding buckets in use
  BaseFees,     \* what current_base_fee may say
  StoragePermill, StealthPermill, ClaimCapPpm,
  MaxDispatches, MaxEntries,  \* per block
  Purse,        \* what everyone starts with
  Gifts,        \* amounts of stealth transfers
  LastDmBlock, MaxGifts  \* bounds on the blocks and the transfers

ASSUME MessagesAssumption ==
  /\ {Whole, MaxDispatches} \subseteq Nat \ {0}
  /\ {StoragePermill, StealthPermill, ClaimCapPpm} \subseteq 0 .. Whole
  /\ StoragePermill + StealthPermill <= Whole
  /\ {DmBaseCost, DmByteCost, MaxEntries, Purse, LastDmBlock, MaxGifts} \subseteq Nat
  /\ DmBytes \subseteq Nat \ {0} /\ BaseFees \subseteq Nat /\ Gifts \subseteq Nat
  /\ IsFiniteSet(OneTimeKeys)

Blocks == 0 .. LastDmBlock
Unsent == -1

VARIABLES
  dmBlock,
  receptionKeys, \* DmReceptionKeys: accounts that published one
  dispatches,    \* DmDispatchesByBlock: [Blocks -> sequence of [key, root]]
  nextId,        \* NextMessageId
  byRoot,        \* DmMessagesByRoot: [MessageRoots -> id or Unsent]
  entries,       \* EphemeralKeys: [Blocks -> sequence of keys]
  stealthPool,   \* StealthRewardPool
  received,      \* RecipientReceiveCount
  total,         \* TotalReceivedCount
  claimed,       \* ClaimedReceiveCount
  purses,        \* [People -> balance]
  fed,           \* history: what went into the pool
  paid,          \* history: what came out of it
  rewarded       \* history: [OneTimeKeys -> messages its claims were worth]

dmVars == <<dmBlock, receptionKeys, dispatches, nextId, byRoot, entries, stealthPool,
            received, total, claimed, purses, fed, paid, rewarded>>
indexVars == <<receptionKeys, dispatches, nextId, byRoot>>
rewardVars == <<stealthPool, received, total, claimed, fed, paid, rewarded>>

DmInit ==
  /\ dmBlock = 0 /\ receptionKeys = {} /\ nextId = 0
  /\ dispatches = [b \in Blocks |-> <<>>] /\ entries = [b \in Blocks |-> <<>>]
  /\ byRoot = [r \in MessageRoots |-> Unsent]
  /\ stealthPool = 0 /\ total = 0 /\ fed = 0 /\ paid = 0
  /\ received = [e \in OneTimeKeys |-> 0] /\ claimed = received /\ rewarded = received
  /\ purses = [a \in People |-> Purse]

Permill(share, amount) == (share * amount) \div Whole

PublishDmKey == \E a \in People:
  /\ receptionKeys' = receptionKeys \cup {a}
  /\ UNCHANGED <<dmBlock, dispatches, nextId, byRoot, entries, purses, rewardVars>>

RevokeDmKey == \E a \in receptionKeys:
  /\ receptionKeys' = receptionKeys \ {a}
  /\ UNCHANGED <<dmBlock, dispatches, nextId, byRoot, entries, purses, rewardVars>>

(* A slip, used by the mutation runs only: only this block is looked through. *)
NewToday(r) == \A i \in DOMAIN dispatches[dmBlock]: dispatches[dmBlock][i].root # r

NewContent(r) == byRoot[r] = Unsent

RecordReceive(e) ==
  received' = [received EXCEPT ![e] = @ + 1] /\ total' = total + 1

Feed(amount) == stealthPool' = stealthPool + amount /\ fed' = fed + amount

\* Nobody asks whether the recipient still has a reception key.
SendDm == \E a \in People, e \in OneTimeKeys, r \in MessageRoots, bytes \in DmBytes, fee \in BaseFees:
  LET pre == DmBaseCost + DmByteCost * bytes IN
  /\ NewContent(r) /\ Len(dispatches[dmBlock]) < MaxDispatches
  /\ purses[a] >= pre + fee * bytes
  /\ purses' = [purses EXCEPT ![a] = @ - (pre + fee * bytes)]
  /\ Feed(Permill(StealthPermill, pre)) /\ RecordReceive(e)
  /\ dispatches' = [dispatches EXCEPT ![dmBlock] = Append(@, [key |-> e, root |-> r])]
  /\ byRoot' = [byRoot EXCEPT ![r] = nextId] /\ nextId' = nextId + 1
  /\ UNCHANGED <<dmBlock, receptionKeys, entries, claimed, paid, rewarded>>

AllGifts == FoldLeftDomain(LAMBDA n, b: n + Len(entries[b - 1]), 0, [b \in 1 .. LastDmBlock + 1 |-> 0])

\* KeepAlive: the sender keeps one unit.
SendToStealth == \E from, to \in People, e \in OneTimeKeys, amount \in Gifts:
  /\ amount > 0 /\ (from # to => purses[from] > amount) /\ purses[from] >= amount
  /\ AllGifts < MaxGifts
  /\ Len(entries[dmBlock]) < MaxEntries
  /\ purses' = IF from = to THEN purses
               ELSE [purses EXCEPT ![from] = @ - amount, ![to] = @ + amount]
  /\ entries' = [entries EXCEPT ![dmBlock] = Append(@, e)]
  /\ UNCHANGED <<dmBlock, indexVars, rewardVars>>

\* compute_claim_amount; a cap of 0 is none.
ClaimAmount(unclaimed, cap) ==
  IF unclaimed = 0 \/ total = 0 \/ stealthPool = 0 THEN 0
  ELSE LET share == (stealthPool * ((unclaimed * Whole) \div total)) \div Whole
           most == IF cap > 0 THEN (stealthPool * cap) \div Whole ELSE stealthPool
       IN Min({share, most, stealthPool})

\* A capped claim uses up only the part of the messages it paid for, one at least.
Advance(unclaimed, payout) ==
  LET full == ClaimAmount(unclaimed, 0)
  IN IF payout < full
     THEN Max({1, Min({(payout * unclaimed) \div full, unclaimed})})
     ELSE unclaimed

\* What a payment is worth in messages when it is made: each has an equal part
\* of the pool, and any payment is for one of them at least.
Worth(payout) == Max({1, (payout * total) \div stealthPool})

(* A slip, used by the mutation runs only: the count of this claim replaces the sum. *)
LastClaim(e, n) == n

ClaimedAfter(e, n) == claimed[e] + n

ClaimStealthReward == \E a \in People, e \in OneTimeKeys:
  LET unclaimed == IF received[e] > claimed[e] THEN received[e] - claimed[e] ELSE 0
      payout == ClaimAmount(unclaimed, ClaimCapPpm)
      n == Advance(unclaimed, payout)
  IN
  /\ unclaimed > 0 /\ payout > 0
  /\ stealthPool' = Max({0, stealthPool - payout}) /\ paid' = paid + payout
  /\ purses' = [purses EXCEPT ![a] = @ + payout]
  /\ claimed' = [claimed EXCEPT ![e] = ClaimedAfter(e, n)]
  /\ rewarded' = [rewarded EXCEPT ![e] = @ + Worth(payout)]
  /\ UNCHANGED <<dmBlock, indexVars, entries, received, total, fed>>

DmBlockEnds ==
  /\ dmBlock < LastDmBlock /\ dmBlock' = dmBlock + 1
  /\ UNCHANGED <<indexVars, entries, purses, rewardVars>>

DmNext ==
  \/ PublishDmKey \/ RevokeDmKey \/ SendDm \/ SendToStealth \/ ClaimStealthReward \/ DmBlockEnds

DmSpec == DmInit /\ [][DmNext]_dmVars
-----------------------------------------------------------------------------
(* The scanner's index tells every message once: over all blocks the
   dispatches are the messages in the order of their ids, each root in it at
   most once and found again through byRoot, as the count of those before it. *)
Sent == [b \in Blocks |-> Len(dispatches[b])]

MessagesIndexed ==
  /\ SumFunctionOnSet(Sent, Blocks) = nextId /\ total = nextId
  /\ \A b \in Blocks: \A i \in DOMAIN dispatches[b]:
       byRoot[dispatches[b][i].root] = SumFunctionOnSet(Sent, 0 .. b - 1) + i - 1

(* The pool's books: a key's claims, however often a capped one is repeated and
   whatever was sent in between, are together worth no more messages than they
   used up, which are messages it received; the counters agree, and the pool
   holds what it was fed less what it paid. *)
StealthBooksBalance ==
  /\ \A e \in OneTimeKeys: rewarded[e] <= claimed[e] /\ claimed[e] <= received[e]
  /\ stealthPool + paid = fed
  /\ total = SumFunctionOnSet(received, OneTimeKeys)
=============================================================================
