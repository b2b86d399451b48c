---------------------------- MODULE FragmentStore ----------------------------
(***************************************************************************)
(* The storage node's FragmentStore.  Data, metadata and the used-bytes    *)
(* counter change together in one redb transaction; the atomic `used` that *)
(* answers the quota check is moved before or after it.  Requests, the     *)
(* touch-and-evict job and the collector run at the same time, each one    *)
(* step at a time; a crash keeps only what was committed.                  *)
(*                                                                         *)
(* A time is kept as an age in ticks that stops at MaxAge.                 *)
(***************************************************************************)
EXTENDS Integers, FiniteSets, FiniteSetsExt, Functions

CONSTANTS
  Clients,     \* requests in progress
  HashKeys,    \* FragmentIds of the fragments table
  PostKeys,    \* <<post, index>> keys of the post_fragments table
  Sizes,       \* bytes of a fragment
  MaxFragmentSize,
  Capacity,    \* config.capacity, in bytes
  OldKeys,     \* fragments of a database written before metadata existed
  VerifyOnRead,
  MaxAge,
  None

Keys == HashKeys \cup PostKeys
Workers == Clients \cup {"sweeper", "collector"}
NoEntries == [k \in {} |-> 0]
SmallestOld == [k \in OldKeys |-> Min(Sizes)]

(* An old database fits the capacity it is opened with: the code compares  *)
(* the two only when a fragment is stored.                                 *)
ASSUME StoreAssumption ==
  /\ IsFiniteSet(Clients) /\ IsFiniteSet(Keys)
  /\ "sweeper" \notin Clients /\ "collector" \notin Clients
  /\ Sizes \subseteq Nat /\ Sizes # {}
  /\ Capacity \in Nat /\ MaxFragmentSize \in Nat /\ MaxAge \in Nat
  /\ OldKeys \subseteq Keys
  /\ SumFunctionOnSet(SmallestOld, OldKeys) <= Capacity
  /\ None \notin Nat

VARIABLES
  disk,      \* key -> [bytes, age]; age is None without metadata
  counter,   \* system."total_used_bytes", None when absent
  used,      \* AtomicU64
  jobs,      \* what each worker still owes `used` or the database
  touches,   \* TouchBuffer: key -> age of the newest read
  sweep,     \* the spawn_blocking job of the touch_flush tick
  up         \* the process runs

storeVars == <<disk, counter, used, jobs, touches, sweep, up>>

Idle == [pc |-> "idle", key |-> None, bytes |-> 0]
SweepIdle == [pc |-> "idle", ages |-> NoEntries]

Stored == [k \in DOMAIN disk |-> disk[k].bytes]
DiskBytes == SumFunctionOnSet(Stored, DOMAIN disk)

Open(w) == up /\ jobs[w].pc = "idle"

OldDatabase == [k \in OldKeys |-> [bytes |-> SmallestOld[k], age |-> None]]

StoreInit ==
  /\ disk \in {NoEntries, OldDatabase}
  /\ counter = None
  /\ used = 0
  /\ jobs = [w \in Workers |-> Idle]
  /\ touches = NoEntries
  /\ sweep = SweepIdle
  /\ up = FALSE

(* A slip: no scan when the counter is missing, used by the mutation runs only. *)
LoadNothing == IF counter # None THEN counter ELSE 0

\* load_or_recover_used: the persisted counter, or a scan that persists it.
LoadUsed == IF counter # None THEN counter ELSE DiskBytes

OpenStore ==
  /\ ~up /\ up' = TRUE
  /\ used' = LoadUsed
  /\ counter' = LoadUsed
  /\ UNCHANGED <<disk, jobs, touches, sweep>>

\* The process dies between any two steps of any worker.
Crash ==
  /\ up /\ up' = FALSE
  /\ used' = 0
  /\ jobs' = [w \in Workers |-> Idle]
  /\ touches' = NoEntries
  /\ sweep' = SweepIdle
  /\ UNCHANGED <<disk, counter>>

-----------------------------------------------------------------------------
\* Storing: reserve in the atomic, insert in one transaction, hand back what
\* was not used.

(* A slip: the check looks at the use before the reservation, used by the mutation runs only. *)
FitsBefore(bytes) == used <= Capacity

Fits(bytes) == used + bytes <= Capacity

\* store_post_fragment also refuses posts and indexes out of range.
Acceptable(k, bytes) == bytes <= MaxFragmentSize /\ k \in Keys

Reserve(c) == \E k \in Keys, bytes \in Sizes:
  /\ Open(c) /\ Acceptable(k, bytes)
  /\ used' = used + bytes
  /\ jobs' = [jobs EXCEPT ![c] =
       [pc |-> IF Fits(bytes) THEN "inserting" ELSE "settling",
        key |-> k, bytes |-> bytes]]
  /\ UNCHANGED <<disk, counter, touches, sweep, up>>

Insert(c) == LET job == jobs[c] IN
  /\ up /\ job.pc = "inserting"
  /\ \/ /\ job.key \notin DOMAIN disk
        /\ disk' = [k \in DOMAIN disk \cup {job.key} |->
             IF k = job.key THEN [bytes |-> job.bytes, age |-> 0] ELSE disk[k]]
        /\ counter' = counter + job.bytes
        /\ jobs' = [jobs EXCEPT ![c] = Idle]
     \/ /\ job.key \in DOMAIN disk
        /\ jobs' = [jobs EXCEPT ![c].pc = "settling"]
        /\ UNCHANGED <<disk, counter>>
  /\ UNCHANGED <<used, touches, sweep, up>>

InsertFails(c) ==
  /\ up /\ jobs[c].pc = "inserting"
  /\ jobs' = [jobs EXCEPT ![c].pc = "settling"]
  /\ UNCHANGED <<disk, counter, used, touches, sweep, up>>

\* The fetch_sub after a refused store or a committed delete.
Settle(w) ==
  /\ up /\ jobs[w].pc = "settling"
  /\ used' = used - jobs[w].bytes
  /\ jobs' = [jobs EXCEPT ![w] = Idle]
  /\ UNCHANGED <<disk, counter, touches, sweep, up>>

-----------------------------------------------------------------------------
\* Deleting: one transaction removes the entries and lowers the counter, the
\* atomic follows.

Saturated(n) == IF n < 0 THEN 0 ELSE n

CommitDelete(w, gone) == LET freed == SumFunctionOnSet(Stored, gone) IN
  /\ Open(w)
  /\ disk' = [k \in DOMAIN disk \ gone |-> disk[k]]
  /\ counter' = Saturated(counter - freed)
  /\ jobs' = [jobs EXCEPT ![w] = [pc |-> "settling", key |-> None, bytes |-> freed]]

\* `delete` and `delete_post_fragment`.
Delete(c) ==
  /\ \E k \in DOMAIN disk: CommitDelete(c, {k})
  /\ UNCHANGED <<used, touches, sweep, up>>

DeleteAll(c) ==
  /\ DOMAIN disk \cap HashKeys # {} /\ CommitDelete(c, DOMAIN disk \cap HashKeys)
  /\ UNCHANGED <<used, touches, sweep, up>>

DeletePostFragments(c) ==
  /\ \E p \in DOMAIN disk \cap PostKeys:
       CommitDelete(c, {k \in DOMAIN disk \cap PostKeys: k[1] = p[1]})
  /\ UNCHANGED <<used, touches, sweep, up>>

-----------------------------------------------------------------------------
\* Reading, and the touches it leaves for the next flush.

Readable(k) == k \in DOMAIN disk /\ (VerifyOnRead => disk[k].age # None)

Retrieve == \E k \in Keys:
  /\ up /\ Readable(k)
  /\ touches' = [j \in DOMAIN touches \cup {k} |-> IF j = k THEN 0 ELSE touches[j]]
  /\ UNCHANGED <<disk, counter, used, jobs, sweep, up>>

Drain ==
  /\ Open("sweeper") /\ sweep.pc = "idle"
  /\ sweep' = [pc |-> "flushing", ages |-> touches]
  /\ touches' = NoEntries
  /\ UNCHANGED <<disk, counter, used, jobs, up>>

Touched(k) == k \in DOMAIN sweep.ages /\ disk[k].age # None

Flush ==
  /\ up /\ sweep.pc = "flushing"
  /\ disk' = [k \in DOMAIN disk |->
        IF Touched(k) THEN [disk[k] EXCEPT !.age = sweep.ages[k]] ELSE disk[k]]
  /\ sweep' = [pc |-> "checking", ages |-> NoEntries]
  /\ UNCHANGED <<counter, used, jobs, touches, up>>

\* The drained touches are gone when the transaction fails.
FlushFails ==
  /\ up /\ sweep.pc = "flushing" /\ sweep.ages # NoEntries
  /\ sweep' = [pc |-> "checking", ages |-> NoEntries]
  /\ UNCHANGED <<disk, counter, used, jobs, touches, up>>

-----------------------------------------------------------------------------
\* Eviction: over 95% of the capacity, down to 85%, least recently read first.

Trigger == (Capacity \div 100) * 95
Target  == (Capacity \div 100) * 85

Candidates == {k \in DOMAIN disk: disk[k].age # None}

StartEviction ==
  /\ up /\ sweep.pc = "checking"
  /\ IF used > Trigger
     THEN sweep' = [pc |-> "evicting", ages |-> [k \in Candidates |-> disk[k].age]]
     ELSE sweep' = SweepIdle
  /\ UNCHANGED <<disk, counter, used, jobs, touches, up>>

Oldest(k) == \A j \in DOMAIN sweep.ages: sweep.ages[j] <= sweep.ages[k]

Pop(k) == sweep' = [sweep EXCEPT !.ages = Restrict(@, DOMAIN @ \ {k})]

Evict == \E k \in DOMAIN sweep.ages:
  /\ sweep.pc = "evicting" /\ Open("sweeper") /\ used > Target
  /\ Oldest(k) /\ Pop(k)
  /\ \/ k \in DOMAIN disk /\ CommitDelete("sweeper", {k})
     \/ k \notin DOMAIN disk /\ UNCHANGED <<disk, counter, jobs>>
  /\ UNCHANGED <<used, touches, up>>

EvictFails == \E k \in DOMAIN sweep.ages:
  /\ sweep.pc = "evicting" /\ Open("sweeper") /\ used > Target
  /\ Oldest(k) /\ Pop(k)
  /\ UNCHANGED <<disk, counter, used, jobs, touches, up>>

EndEviction ==
  /\ sweep.pc = "evicting" /\ Open("sweeper")
  /\ sweep.ages = NoEntries \/ used <= Target
  /\ sweep' = SweepIdle
  /\ UNCHANGED <<disk, counter, used, jobs, touches, up>>

-----------------------------------------------------------------------------
Older(ages) == [k \in DOMAIN ages |-> Min({ages[k] + 1, MaxAge})]

Tick ==
  /\ disk' = [k \in DOMAIN disk |->
        IF disk[k].age = None THEN disk[k]
        ELSE [disk[k] EXCEPT !.age = Min({@ + 1, MaxAge})]]
  /\ touches' = Older(touches)
  /\ sweep' = IF sweep.pc = "flushing" THEN [sweep EXCEPT !.ages = Older(@)] ELSE sweep
  /\ UNCHANGED <<counter, used, jobs, up>>

Request(c) == Reserve(c) \/ Insert(c) \/ InsertFails(c) \/ Settle(c)
              \/ Delete(c) \/ DeleteAll(c) \/ DeletePostFragments(c)

Sweep == Drain \/ Flush \/ FlushFails \/ StartEviction \/ Evict \/ EvictFails
         \/ EndEviction \/ Settle("sweeper")

StoreNext ==
  \/ \E c \in Clients: Request(c)
  \/ Retrieve
  \/ Sweep
  \/ Tick
  \/ Crash
  \/ OpenStore

StoreSpec == StoreInit /\ [][StoreNext]_storeVars
-----------------------------------------------------------------------------
Entry == [bytes: Sizes, age: {None} \cup 0..MaxAge]
Job == [pc: {"idle", "inserting", "settling"}, key: Keys \cup {None}, bytes: Nat]
Ages(f) == f \in [DOMAIN f -> 0..MaxAge]

StoreTypeOK ==
  /\ DOMAIN disk \subseteq Keys /\ disk \in [DOMAIN disk -> Entry]
  /\ counter \in {None} \cup Nat
  /\ used \in Int
  /\ jobs \in [Workers -> Job]
  /\ \A w \in Workers:
       /\ jobs[w].pc = "idle" => jobs[w] = Idle
       /\ jobs[w].pc = "inserting" => jobs[w].key \in Keys /\ jobs[w].bytes \in Sizes
  /\ Ages(touches)
  /\ sweep.pc \in {"idle", "flushing", "checking", "evicting"} /\ Ages(sweep.ages)
  /\ sweep = [pc |-> sweep.pc, ages |-> sweep.ages]
  /\ up \in BOOLEAN

Promise == INSTANCE QuotaStore WITH stored <- Stored

(* The database never exceeds the capacity, gains one fragment at a time,
   and loses only what a delete names: neither a crash, a failed transaction
   nor a race of requests changes it otherwise. *)
StoresWithinQuota == Promise!QuotaSpec

\* What is reserved or due back; an idle worker's job has no bytes.
InFlight == [w \in Workers |-> jobs[w].bytes]

(* The atomic of a running store is the bytes in the database plus every
   reservation and refund still in flight, and the persisted counter is the
   bytes in the database: no order of concurrent stores, deletes, failures,
   evictions and crashes leaks or loses a byte of the quota. *)
UsedExplained ==
  /\ counter # None => counter = DiskBytes
  /\ up => used = DiskBytes + SumFunctionOnSet(InFlight, Workers)

=============================================================================
