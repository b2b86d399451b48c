------------------------ MODULE StorageDaemonProofs ------------------------
(***************************************************************************)
(* Proofs about the parts of a storage node's process, for any stores,     *)
(* lifetimes and bounds: its fragment store under requests, eviction,      *)
(* collection and crashes, its answers to challenges, what it offers to    *)
(* and keeps for its peers, and the chain it stays on.                     *)
(***************************************************************************)
EXTENDS GarbageCollection, ChainClient, ChallengeMonitor, PeerExchange, NumberFacts

Waiting == [w \in Workers |-> IF jobs[w].pc = "inserting" THEN jobs[w].bytes ELSE 0]

(* Beside the books: a running store has read its counter, and what is     *)
(* stored and what is reserved for an insertion to come fit the capacity.  *)
StoreInv ==
  /\ StoreTypeOK
  /\ UsedExplained
  /\ up => counter # None
  /\ ~up => jobs = [w \in Workers |-> Idle]
  /\ DiskBytes + SumFunctionOnSet(Waiting, Workers) <= Capacity

LEMMA WorkersFinite == IsFiniteSet(Workers)
<1>1. IsFiniteSet({"sweeper", "collector"})
  <2>1. IsFiniteSet({"sweeper"}) /\ {"sweeper", "collector"} = {"sweeper"} \cup {"collector"}
    BY FS_Singleton
  <2> QED BY <2>1, FS_AddElement
<1> QED BY <1>1, StoreAssumption, FS_Union DEF Workers

LEMMA StoredFacts ==
  ASSUME StoreTypeOK
  PROVE  /\ IsFiniteSet(DOMAIN disk) /\ DOMAIN Stored = DOMAIN disk
         /\ \A k \in DOMAIN disk : Stored[k] \in Sizes /\ Stored[k] \in Nat
         /\ DiskBytes \in Nat
         /\ SumFunctionOnSet(InFlight, Workers) \in Nat
         /\ SumFunctionOnSet(Waiting, Workers) \in Nat
         /\ \A w \in Workers : Waiting[w] <= SumFunctionOnSet(Waiting, Workers)
         /\ \A w \in Workers : Waiting[w] \in Nat /\ InFlight[w] \in Nat
<1>1. IsFiniteSet(DOMAIN disk) /\ DOMAIN Stored = DOMAIN disk
  BY StoreAssumption, FS_Subset DEF StoreTypeOK, Stored
<1>2. \A k \in DOMAIN disk : Stored[k] \in Sizes /\ Stored[k] \in Nat
  BY StoreAssumption DEF StoreTypeOK, Stored, Entry
<1>3. DiskBytes \in Nat
  BY <1>1, <1>2, SumIsNat DEF DiskBytes
<1>4. \A w \in Workers : Waiting[w] \in Nat /\ InFlight[w] \in Nat
  BY DEF StoreTypeOK, Job, Waiting, InFlight
<1> QED BY <1>1, <1>2, <1>3, <1>4, SumIsNat, WorkersFinite

(* One worker's job changes: the sums change by its part.                  *)
LEMMA JobChanges ==
  ASSUME StoreTypeOK, NEW w \in Workers, NEW job \in Job,
         jobs' = [jobs EXCEPT ![w] = job]
  PROVE  /\ SumFunctionOnSet(InFlight', Workers)
              = SumFunctionOnSet(InFlight, Workers) + job.bytes - InFlight[w]
         /\ SumFunctionOnSet(Waiting', Workers)
              = SumFunctionOnSet(Waiting, Workers)
                  + (IF job.pc = "inserting" THEN job.bytes ELSE 0) - Waiting[w]
<1>1. \A v \in Workers : InFlight[v] \in Int /\ Waiting[v] \in Int
  BY DEF StoreTypeOK, Job, InFlight, Waiting
<1>2. job.bytes \in Int
  BY DEF Job
<1>3. /\ InFlight'[w] = job.bytes
      /\ Waiting'[w] = IF job.pc = "inserting" THEN job.bytes ELSE 0
      /\ \A v \in Workers : v # w => InFlight'[v] = InFlight[v] /\ Waiting'[v] = Waiting[v]
  BY DEF StoreTypeOK, InFlight, Waiting
<1>4. SumFunctionOnSet(InFlight', Workers)
        = SumFunctionOnSet(InFlight, Workers) + InFlight'[w] - InFlight[w]
  BY <1>1, <1>2, <1>3, WorkersFinite, SumChange
<1>5. SumFunctionOnSet(Waiting', Workers)
        = SumFunctionOnSet(Waiting, Workers) + Waiting'[w] - Waiting[w]
  BY <1>1, <1>2, <1>3, WorkersFinite, SumChange
<1> QED BY <1>3, <1>4, <1>5

(* Fragments leave the database: its bytes fall by theirs.                 *)
LEMMA BytesFreed ==
  ASSUME StoreTypeOK, NEW gone \in SUBSET DOMAIN disk,
         disk' = [k \in DOMAIN disk \ gone |-> disk[k]]
  PROVE  /\ SumFunctionOnSet(Stored, gone) \in Nat
         /\ DiskBytes = DiskBytes' + SumFunctionOnSet(Stored, gone)
         /\ DiskBytes' \in Nat
<1> DEFINE rest == DOMAIN disk \ gone
<1>1. /\ IsFiniteSet(DOMAIN disk) /\ IsFiniteSet(rest) /\ IsFiniteSet(gone)
      /\ \A k \in DOMAIN disk : Stored[k] \in Nat
  BY StoredFacts, FS_Subset
<1>2. SumFunctionOnSet(Stored, gone) \in Nat /\ SumFunctionOnSet(Stored, rest) \in Nat
  BY <1>1, SumIsNat
<1>3. DiskBytes = SumFunctionOnSet(Stored, gone) + SumFunctionOnSet(Stored, rest)
  BY <1>1, SumSplit DEF DiskBytes
<1>4. DOMAIN disk' = rest /\ \A k \in rest : Stored'[k] = Stored[k]
  BY DEF Stored
<1>5. SumFunctionOnSet(Stored', rest) = SumFunctionOnSet(Stored, rest)
  BY <1>1, <1>4, SumSame
<1>6. DiskBytes' = SumFunctionOnSet(Stored, rest)
  BY <1>4, <1>5 DEF DiskBytes
<1> QED BY <1>2, <1>3, <1>6

(* A fragment comes: the bytes of the database rise by its own.            *)
LEMMA BytesAdded ==
  ASSUME StoreTypeOK, NEW key, key \notin DOMAIN disk, NEW bytes \in Sizes,
         disk' = [k \in DOMAIN disk \cup {key} |->
                    IF k = key THEN [bytes |-> bytes, age |-> 0] ELSE disk[k]]
  PROVE  DiskBytes' = DiskBytes + bytes
<1> DEFINE old == DOMAIN disk
<1>1. IsFiniteSet(old) /\ \A k \in old : Stored[k] \in Nat
  BY StoredFacts
<1>2. /\ DOMAIN disk' = old \cup {key} /\ Stored'[key] = bytes /\ bytes \in Nat
      /\ \A k \in old : Stored'[k] = Stored[k]
  BY StoreAssumption DEF Stored
<1>3. SumFunctionOnSet(Stored', old \cup {key})
        = Stored'[key] + SumFunctionOnSet(Stored', old)
  BY <1>1, <1>2, SumAdd
<1>4. SumFunctionOnSet(Stored', old) = SumFunctionOnSet(Stored, old)
  BY <1>1, <1>2, SumSame
<1>5. DiskBytes' = bytes + DiskBytes
  BY <1>2, <1>3, <1>4 DEF DiskBytes
<1> QED BY <1>2, <1>5, StoredFacts

----------------------------------------------------------------------------
LEMMA MinFacts ==
  /\ Min(Sizes) \in Sizes
  /\ \A a \in 0..MaxAge : Min({a + 1, MaxAge}) \in 0..MaxAge /\ Min({a + 1, MaxAge}) >= a
<1>1. Min(Sizes) \in Sizes
  BY StoreAssumption, LeastNumber DEF Min
<1>2. ASSUME NEW a \in 0..MaxAge
      PROVE  Min({a + 1, MaxAge}) \in 0..MaxAge /\ Min({a + 1, MaxAge}) >= a
  <2>1. a + 1 \in Nat /\ MaxAge \in Nat /\ a <= MaxAge
    BY StoreAssumption
  <2>2. \E x \in {a + 1, MaxAge} : \A y \in {a + 1, MaxAge} : x <= y
    BY <2>1
  <2>3. /\ Min({a + 1, MaxAge}) \in {a + 1, MaxAge}
        /\ \A y \in {a + 1, MaxAge} : Min({a + 1, MaxAge}) <= y
    BY <2>2 DEF Min
  <2> QED BY <2>1, <2>3
<1> QED BY <1>1, <1>2

LEMMA OlderFact ==
  ASSUME NEW ages, Ages(ages)
  PROVE  Ages(Older(ages)) /\ DOMAIN Older(ages) = DOMAIN ages
BY MinFacts DEF Ages, Older

(* What leaves the books alone: reads, the flush of their touches, the     *)
(* choices of the eviction job, failures and time.                         *)
QuietStep ==
  \/ Retrieve \/ Drain \/ Flush \/ FlushFails \/ StartEviction \/ EvictFails
  \/ EndEviction \/ Tick \/ UNCHANGED storeVars
  \/ Evict /\ UNCHANGED disk

LEMMA QuietStepFacts ==
  ASSUME StoreTypeOK, QuietStep, UNCHANGED <<counter, jobs>>
  PROVE  /\ StoreTypeOK' /\ Stored' = Stored
         /\ UNCHANGED <<counter, used, jobs, up>>
<1>1. UNCHANGED <<counter, used, jobs, up>>
  BY DEF QuietStep, Retrieve, Drain, Flush, FlushFails, StartEviction, EvictFails,
     EndEviction, Tick, Evict, storeVars
<1>2. /\ DOMAIN disk' = DOMAIN disk /\ disk' \in [DOMAIN disk -> Entry]
      /\ \A k \in DOMAIN disk : disk'[k].bytes = disk[k].bytes
  <2>1. CASE UNCHANGED disk
    BY <2>1 DEF StoreTypeOK
  <2>2. CASE Flush
    <3>1. sweep.ages \in [DOMAIN sweep.ages -> 0..MaxAge]
      BY DEF StoreTypeOK, Ages
    <3>2. disk' = [k \in DOMAIN disk |->
            IF Touched(k) THEN [disk[k] EXCEPT !.age = sweep.ages[k]] ELSE disk[k]]
      BY <2>2 DEF Flush
    <3> QED BY <3>1, <3>2 DEF StoreTypeOK, Entry, Touched
  <2>3. CASE Tick
    <3>1. disk' = [k \in DOMAIN disk |->
            IF disk[k].age = None THEN disk[k]
            ELSE [disk[k] EXCEPT !.age = Min({@ + 1, MaxAge})]]
      BY <2>3 DEF Tick
    <3> QED BY <3>1, MinFacts DEF StoreTypeOK, Entry
  <2> QED
    BY <2>1, <2>2, <2>3 DEF QuietStep, Retrieve, Drain, FlushFails, StartEviction,
       EvictFails, EndEviction, storeVars
<1>3. Ages(touches')
  <2>1. CASE Retrieve
    <3>1. PICK k \in Keys :
            touches' = [j \in DOMAIN touches \cup {k} |-> IF j = k THEN 0 ELSE touches[j]]
      BY <2>1 DEF Retrieve
    <3> QED BY <3>1, StoreAssumption DEF StoreTypeOK, Ages
  <2>2. CASE Drain
    BY <2>2 DEF Drain, Ages, NoEntries
  <2>3. CASE Tick
    BY <2>3, OlderFact DEF Tick, StoreTypeOK
  <2>4. CASE UNCHANGED touches
    BY <2>4 DEF StoreTypeOK
  <2> QED
    BY <2>1, <2>2, <2>3, <2>4 DEF QuietStep, Flush, FlushFails, StartEviction,
       EvictFails, EndEviction, Evict, storeVars
<1>4. /\ sweep'.pc \in {"idle", "flushing", "checking", "evicting"} /\ Ages(sweep'.ages)
      /\ sweep' = [pc |-> sweep'.pc, ages |-> sweep'.ages]
  <2>1. /\ sweep.pc \in {"idle", "flushing", "checking", "evicting"} /\ Ages(sweep.ages)
        /\ sweep = [pc |-> sweep.pc, ages |-> sweep.ages] /\ Ages(touches)
    BY DEF StoreTypeOK
  <2>2. Ages(NoEntries)
    BY DEF Ages, NoEntries
  <2>3. CASE Drain
    BY <2>1, <2>3 DEF Drain
  <2>4. CASE Flush \/ FlushFails \/ EndEviction
    BY <2>2, <2>4 DEF Flush, FlushFails, EndEviction, SweepIdle
  <2>5. CASE StartEviction
    <3>1. Ages([k \in Candidates |-> disk[k].age])
      BY DEF StoreTypeOK, Entry, Candidates, Ages
    <3> QED BY <2>2, <2>5, <3>1 DEF StartEviction, SweepIdle
  <2>6. CASE EvictFails \/ Evict
    <3>1. PICK k \in DOMAIN sweep.ages : Pop(k)
      BY <2>6 DEF EvictFails, Evict
    <3> DEFINE rest == Restrict(sweep.ages, DOMAIN sweep.ages \ {k})
    <3>2. Ages(rest)
      BY <2>1 DEF Ages, Restrict
    <3>3. sweep' = [sweep EXCEPT !.ages = rest]
      BY <3>1 DEF Pop
    <3> HIDE DEF rest
    <3> QED BY <2>1, <3>2, <3>3
  <2>7. CASE Tick
    <3> DEFINE older == Older(sweep.ages)
    <3>1. Ages(older)
      BY <2>1, OlderFact
    <3>2. sweep' = IF sweep.pc = "flushing" THEN [sweep EXCEPT !.ages = older] ELSE sweep
      BY <2>7 DEF Tick
    <3> HIDE DEF older
    <3> QED BY <2>1, <3>1, <3>2
  <2>8. CASE UNCHANGED sweep
    BY <2>1, <2>8
  <2> QED BY <2>3, <2>4, <2>5, <2>6, <2>7, <2>8 DEF QuietStep, Retrieve, storeVars
<1>5. Stored' = Stored
  BY <1>2 DEF Stored
<1>6. StoreTypeOK'
  BY <1>1, <1>2, <1>3, <1>4 DEF StoreTypeOK, Ages
<1> QED BY <1>1, <1>5, <1>6

LEMMA QuietStepInv ==
  ASSUME StoreInv, QuietStep, UNCHANGED <<counter, jobs>>
  PROVE  StoreInv' /\ Stored' = Stored
<1>1. /\ StoreTypeOK' /\ Stored' = Stored
      /\ UNCHANGED <<counter, used, jobs, up>>
  BY QuietStepFacts DEF StoreInv
<1>2. DiskBytes' = DiskBytes
  <2>1. DOMAIN disk' = DOMAIN Stored' /\ DOMAIN disk = DOMAIN Stored
    BY DEF Stored
  <2> QED BY <1>1, <2>1 DEF DiskBytes
<1>3. InFlight' = InFlight /\ Waiting' = Waiting
  BY <1>1 DEF InFlight, Waiting
<1> QED BY <1>1, <1>2, <1>3 DEF StoreInv, UsedExplained

----------------------------------------------------------------------------
LEMMA IdleFact == Idle \in Job /\ Idle.pc = "idle" /\ Idle.bytes = 0
BY DEF Idle, Job

(* A job of one worker changes and nothing else of the types.              *)
LEMMA JobTyped ==
  ASSUME StoreTypeOK, NEW w \in Workers, NEW job \in Job,
         job.pc = "idle" => job = Idle,
         job.pc = "inserting" => job.key \in Keys /\ job.bytes \in Sizes,
         jobs' = [jobs EXCEPT ![w] = job]
  PROVE  /\ jobs' \in [Workers -> Job]
         /\ \A v \in Workers :
              /\ jobs'[v].pc = "idle" => jobs'[v] = Idle
              /\ jobs'[v].pc = "inserting" =>
                   jobs'[v].key \in Keys /\ jobs'[v].bytes \in Sizes
BY DEF StoreTypeOK

(* A reservation is waiting only if it fits on top of all that is stored,  *)
(* reserved and not yet handed back.                                       *)
LEMMA ReserveStep ==
  ASSUME StoreInv, NEW c \in Clients, Reserve(c)
  PROVE  StoreInv' /\ Stored' = Stored
<1>1. PICK k \in Keys, bytes \in Sizes :
        /\ Open(c) /\ Acceptable(k, bytes)
        /\ used' = used + bytes
        /\ jobs' = [jobs EXCEPT ![c] =
             [pc |-> IF Fits(bytes) THEN "inserting" ELSE "settling",
              key |-> k, bytes |-> bytes]]
        /\ UNCHANGED <<disk, counter, touches, sweep, up>>
  BY DEF Reserve
<1> DEFINE job == [pc |-> IF Fits(bytes) THEN "inserting" ELSE "settling",
                   key |-> k, bytes |-> bytes]
<1>2. /\ c \in Workers /\ job \in Job /\ job.bytes = bytes /\ job.pc # "idle"
      /\ job.pc = "inserting" => job.key \in Keys /\ job.bytes \in Sizes /\ Fits(bytes)
      /\ bytes \in Nat
  BY StoreAssumption DEF Workers, Job
<1>3. jobs' = [jobs EXCEPT ![c] = job]
  BY <1>1
<1> HIDE DEF job
<1>4. /\ up /\ jobs[c] = Idle /\ InFlight[c] = 0 /\ Waiting[c] = 0
      /\ StoreTypeOK /\ used \in Int /\ Capacity \in Nat
  BY <1>1, <1>2, IdleFact, StoreAssumption
     DEF Open, StoreInv, StoreTypeOK, InFlight, Waiting
<1>5. Stored' = Stored /\ DiskBytes' = DiskBytes
  BY <1>1 DEF Stored, DiskBytes
<1>6. StoreTypeOK'
  BY <1>1, <1>2, <1>3, <1>4, JobTyped DEF StoreTypeOK, Ages
<1>7. /\ SumFunctionOnSet(InFlight', Workers) = SumFunctionOnSet(InFlight, Workers) + bytes
      /\ SumFunctionOnSet(Waiting', Workers)
           = SumFunctionOnSet(Waiting, Workers) + IF job.pc = "inserting" THEN bytes ELSE 0
  <2>1. SumFunctionOnSet(InFlight, Workers) \in Nat /\ SumFunctionOnSet(Waiting, Workers) \in Nat
    BY <1>4, StoredFacts
  <2>2. /\ SumFunctionOnSet(InFlight', Workers)
             = SumFunctionOnSet(InFlight, Workers) + job.bytes - InFlight[c]
        /\ SumFunctionOnSet(Waiting', Workers)
             = SumFunctionOnSet(Waiting, Workers)
                 + (IF job.pc = "inserting" THEN job.bytes ELSE 0) - Waiting[c]
    BY <1>2, <1>3, <1>4, JobChanges
  <2> QED BY <1>2, <1>4, <2>1, <2>2
(* What waits is at most what is in flight.                                *)
<1>8. SumFunctionOnSet(Waiting, Workers) <= SumFunctionOnSet(InFlight, Workers)
  <2> DEFINE other == [w \in Workers |-> InFlight[w] - Waiting[w]]
  <2>1. \A w \in Workers : InFlight[w] \in Nat /\ Waiting[w] \in Nat /\ other[w] \in Nat
    BY <1>4 DEF InFlight, Waiting, StoreTypeOK, Job
  <2>2. \A w \in Workers : InFlight[w] = Waiting[w] + other[w]
    BY <2>1
  <2> HIDE DEF other
  <2>3. SumFunctionOnSet(InFlight, Workers)
          = SumFunctionOnSet(Waiting, Workers) + SumFunctionOnSet(other, Workers)
    BY <2>1, <2>2, WorkersFinite, SumsAdd
  <2>4. /\ SumFunctionOnSet(other, Workers) \in Nat
        /\ SumFunctionOnSet(Waiting, Workers) \in Nat
    BY <2>1, WorkersFinite, SumIsNat
  <2> QED BY <2>3, <2>4
<1>9. /\ DiskBytes \in Nat
      /\ SumFunctionOnSet(InFlight, Workers) \in Nat /\ SumFunctionOnSet(Waiting, Workers) \in Nat
  BY <1>4, StoredFacts
<1>10. used = DiskBytes + SumFunctionOnSet(InFlight, Workers)
       /\ (counter # None => counter = DiskBytes) /\ counter # None
       /\ DiskBytes + SumFunctionOnSet(Waiting, Workers) <= Capacity
  BY <1>4 DEF StoreInv, UsedExplained
<1>11. UsedExplained'
  BY <1>1, <1>2, <1>5, <1>7, <1>9, <1>10 DEF UsedExplained
<1>12. DiskBytes' + SumFunctionOnSet(Waiting', Workers) <= Capacity
  <2>1. CASE job.pc = "inserting"
    <3>1. used + bytes <= Capacity
      BY <1>2, <2>1 DEF Fits
    <3> QED BY <1>2, <1>4, <1>5, <1>7, <1>8, <1>9, <1>10, <2>1, <3>1
  <2>2. CASE job.pc # "inserting"
    BY <1>5, <1>7, <1>9, <1>10, <2>2
  <2> QED BY <2>1, <2>2
<1> QED BY <1>1, <1>4, <1>5, <1>6, <1>10, <1>11, <1>12 DEF StoreInv

(* A refund, or an insertion that is not made: the job asks for no more.   *)
LEMMA BacksOutStep ==
  ASSUME StoreInv, NEW w \in Workers,
         \/ Settle(w)
         \/ InsertFails(w)
         \/ Insert(w) /\ jobs[w].key \in DOMAIN disk
  PROVE  StoreInv' /\ Stored' = Stored
<1> DEFINE job == IF jobs[w].pc = "settling" THEN Idle
                  ELSE [jobs[w] EXCEPT !.pc = "settling"]
<1>1. StoreTypeOK /\ up /\ jobs[w] \in Job /\ jobs[w].bytes \in Nat /\ used \in Int
  BY DEF StoreInv, StoreTypeOK, Settle, InsertFails, Insert, Job
<1>2. /\ jobs' = [jobs EXCEPT ![w] = job] /\ UNCHANGED <<disk, counter, touches, sweep, up>>
      /\ \/ jobs[w].pc = "settling" /\ used' = used - jobs[w].bytes
         \/ jobs[w].pc = "inserting" /\ used' = used
  BY DEF Settle, InsertFails, Insert
<1>3. /\ job \in Job /\ job.pc # "inserting"
      /\ job.pc = "idle" => job = Idle
      /\ job.bytes = IF jobs[w].pc = "settling" THEN 0 ELSE jobs[w].bytes
  BY <1>1, IdleFact DEF Job, Idle
<1> HIDE DEF job
<1>4. Stored' = Stored /\ DiskBytes' = DiskBytes
  BY <1>2 DEF Stored, DiskBytes
<1>5. StoreTypeOK'
  BY <1>1, <1>2, <1>3, JobTyped DEF StoreTypeOK, Ages
<1>6. /\ SumFunctionOnSet(InFlight', Workers)
           = SumFunctionOnSet(InFlight, Workers) + job.bytes - jobs[w].bytes
      /\ SumFunctionOnSet(Waiting', Workers)
           = SumFunctionOnSet(Waiting, Workers) - Waiting[w]
  <2>1. /\ SumFunctionOnSet(InFlight', Workers)
             = SumFunctionOnSet(InFlight, Workers) + job.bytes - InFlight[w]
        /\ SumFunctionOnSet(Waiting', Workers)
             = SumFunctionOnSet(Waiting, Workers)
                 + (IF job.pc = "inserting" THEN job.bytes ELSE 0) - Waiting[w]
    BY <1>1, <1>2, <1>3, JobChanges
  <2>2. /\ SumFunctionOnSet(Waiting, Workers) \in Nat /\ Waiting[w] \in Nat
        /\ InFlight[w] = jobs[w].bytes
    BY <1>1, StoredFacts DEF InFlight
  <2> QED BY <1>3, <2>1, <2>2
<1>7. /\ DiskBytes \in Nat /\ Waiting[w] \in Nat /\ Capacity \in Nat
      /\ SumFunctionOnSet(InFlight, Workers) \in Nat /\ SumFunctionOnSet(Waiting, Workers) \in Nat
  BY <1>1, StoredFacts, StoreAssumption
<1>8. used = DiskBytes + SumFunctionOnSet(InFlight, Workers)
      /\ (counter # None => counter = DiskBytes) /\ counter # None
      /\ DiskBytes + SumFunctionOnSet(Waiting, Workers) <= Capacity
  BY <1>1 DEF StoreInv, UsedExplained
<1>9. used' = DiskBytes + SumFunctionOnSet(InFlight', Workers)
  BY <1>1, <1>2, <1>3, <1>6, <1>7, <1>8
<1>10. UsedExplained'
  BY <1>2, <1>4, <1>8, <1>9 DEF UsedExplained
<1>11. DiskBytes' + SumFunctionOnSet(Waiting', Workers) <= Capacity
  BY <1>4, <1>6, <1>7, <1>8
<1> QED BY <1>1, <1>2, <1>4, <1>5, <1>8, <1>10, <1>11 DEF StoreInv

(* The waiting reservation becomes a fragment of the same size.            *)
LEMMA InsertStep ==
  ASSUME StoreInv, NEW c \in Clients, Insert(c), jobs[c].key \notin DOMAIN disk
  PROVE  StoreInv' /\ Promise!Put
<1> DEFINE key == jobs[c].key
           bytes == jobs[c].bytes
<1>1. /\ StoreTypeOK /\ up /\ c \in Workers /\ jobs[c].pc = "inserting"
      /\ key \in Keys /\ bytes \in Sizes /\ bytes \in Nat
  BY StoreAssumption DEF StoreInv, StoreTypeOK, Insert, Workers
<1>2. /\ disk' = [k \in DOMAIN disk \cup {key} |->
             IF k = key THEN [bytes |-> bytes, age |-> 0] ELSE disk[k]]
      /\ counter' = counter + bytes
      /\ jobs' = [jobs EXCEPT ![c] = Idle]
      /\ UNCHANGED <<used, touches, sweep, up>>
  BY DEF Insert
<1> HIDE DEF key, bytes
<1>3. DiskBytes' = DiskBytes + bytes
  BY <1>1, <1>2, BytesAdded DEF key
<1>4. InFlight[c] = bytes /\ Waiting[c] = bytes
  BY <1>1 DEF InFlight, Waiting, bytes
<1>5. /\ SumFunctionOnSet(InFlight', Workers) = SumFunctionOnSet(InFlight, Workers) - bytes
      /\ SumFunctionOnSet(Waiting', Workers) = SumFunctionOnSet(Waiting, Workers) - bytes
  <2>1. /\ SumFunctionOnSet(InFlight', Workers)
             = SumFunctionOnSet(InFlight, Workers) + Idle.bytes - InFlight[c]
        /\ SumFunctionOnSet(Waiting', Workers)
             = SumFunctionOnSet(Waiting, Workers)
                 + (IF Idle.pc = "inserting" THEN Idle.bytes ELSE 0) - Waiting[c]
    BY <1>1, <1>2, IdleFact, JobChanges
  <2>2. /\ SumFunctionOnSet(InFlight, Workers) \in Nat
        /\ SumFunctionOnSet(Waiting, Workers) \in Nat
    BY <1>1, StoredFacts
  <2> QED BY <1>1, <1>4, <2>1, <2>2, IdleFact
<1>6. /\ DiskBytes \in Nat /\ Capacity \in Nat
      /\ SumFunctionOnSet(InFlight, Workers) \in Nat /\ SumFunctionOnSet(Waiting, Workers) \in Nat
      /\ bytes <= SumFunctionOnSet(Waiting, Workers)
  BY <1>1, <1>4, StoredFacts, StoreAssumption
<1>7. used = DiskBytes + SumFunctionOnSet(InFlight, Workers)
      /\ counter = DiskBytes
      /\ DiskBytes + SumFunctionOnSet(Waiting, Workers) <= Capacity
  BY <1>1 DEF StoreInv, UsedExplained
<1>8. counter' = DiskBytes' /\ counter' \in Nat /\ counter' # None
  BY <1>1, <1>2, <1>3, <1>6, <1>7, StoreAssumption
<1>9. StoreTypeOK'
  <2>1. DOMAIN disk' \subseteq Keys /\ disk' \in [DOMAIN disk' -> Entry]
    BY <1>1, <1>2, StoreAssumption DEF StoreTypeOK, Entry
  <2> QED
    BY <1>1, <1>2, <1>8, <2>1, IdleFact, JobTyped DEF StoreTypeOK, Ages
<1>10. UsedExplained'
  BY <1>1, <1>2, <1>3, <1>5, <1>6, <1>7, <1>8 DEF UsedExplained
<1>11. DiskBytes' + SumFunctionOnSet(Waiting', Workers) <= Capacity
  BY <1>1, <1>3, <1>5, <1>6, <1>7
<1>12. Promise!Put
  <2>1. DOMAIN Stored = DOMAIN disk /\ key \in Keys \ DOMAIN Stored
    BY <1>1 DEF Stored, key
  <2>2. Promise!BytesOf(Stored) = DiskBytes
    BY <2>1 DEF Promise!BytesOf, DiskBytes, SumFunctionOnSet, FoldFunctionOnSet,
       MapThenFoldSet, Promise!SumFunctionOnSet, Promise!FoldFunctionOnSet,
       Promise!MapThenFoldSet
  <2>3. Promise!BytesOf(Stored) + bytes <= Capacity
    BY <1>1, <1>6, <1>7, <2>2
  <2>4. Stored' = [j \in DOMAIN Stored \cup {key} |-> IF j = key THEN bytes ELSE Stored[j]]
    BY <1>2, <2>1 DEF Stored
  <2> HIDE DEF Promise!BytesOf
  <2> QED BY <1>1, <2>1, <2>3, <2>4 DEF Promise!Put
<1> QED BY <1>1, <1>2, <1>8, <1>9, <1>10, <1>11, <1>12 DEF StoreInv

(* A committed delete: what it frees stays in `used` as a refund due.      *)
LEMMA DeleteStep ==
  ASSUME StoreInv, NEW w \in Workers, NEW gone \in SUBSET DOMAIN disk, gone # {},
         CommitDelete(w, gone), UNCHANGED <<used, touches, up>>,
         sweep'.pc \in {"idle", "flushing", "checking", "evicting"}, Ages(sweep'.ages),
         sweep' = [pc |-> sweep'.pc, ages |-> sweep'.ages]
  PROVE  StoreInv' /\ Promise!Remove
<1> DEFINE freed == SumFunctionOnSet(Stored, gone)
           job == [pc |-> "settling", key |-> None, bytes |-> freed]
<1>1. /\ StoreTypeOK /\ up /\ jobs[w] = Idle
      /\ disk' = [k \in DOMAIN disk \ gone |-> disk[k]]
      /\ counter' = Saturated(counter - freed)
      /\ jobs' = [jobs EXCEPT ![w] = job]
  BY DEF CommitDelete, Open, StoreInv, StoreTypeOK
<1>2. /\ freed \in Nat /\ DiskBytes = DiskBytes' + freed /\ DiskBytes' \in Nat
  BY <1>1, BytesFreed
<1>3. job \in Job /\ job.pc = "settling" /\ job.bytes = freed
  BY <1>2 DEF Job
<1> HIDE DEF freed, job
<1>4. InFlight[w] = 0 /\ Waiting[w] = 0
  BY <1>1, IdleFact DEF InFlight, Waiting
<1>5. /\ SumFunctionOnSet(InFlight', Workers) = SumFunctionOnSet(InFlight, Workers) + freed
      /\ SumFunctionOnSet(Waiting', Workers) = SumFunctionOnSet(Waiting, Workers)
  <2>1. /\ SumFunctionOnSet(InFlight', Workers)
             = SumFunctionOnSet(InFlight, Workers) + job.bytes - InFlight[w]
        /\ SumFunctionOnSet(Waiting', Workers)
             = SumFunctionOnSet(Waiting, Workers)
                 + (IF job.pc = "inserting" THEN job.bytes ELSE 0) - Waiting[w]
    BY <1>1, <1>3, JobChanges
  <2>2. /\ SumFunctionOnSet(InFlight, Workers) \in Nat
        /\ SumFunctionOnSet(Waiting, Workers) \in Nat
    BY <1>1, StoredFacts
  <2> QED BY <1>2, <1>3, <1>4, <2>1, <2>2
<1>6. /\ DiskBytes \in Nat /\ Capacity \in Nat
      /\ SumFunctionOnSet(InFlight, Workers) \in Nat /\ SumFunctionOnSet(Waiting, Workers) \in Nat
  BY <1>1, StoredFacts, StoreAssumption
<1>7. used = DiskBytes + SumFunctionOnSet(InFlight, Workers)
      /\ counter = DiskBytes
      /\ DiskBytes + SumFunctionOnSet(Waiting, Workers) <= Capacity
  BY <1>1 DEF StoreInv, UsedExplained
<1>8. counter' = DiskBytes' /\ counter' \in Nat /\ counter' # None
  BY <1>1, <1>2, <1>6, <1>7, StoreAssumption DEF Saturated
<1>9. StoreTypeOK'
  <2>1. DOMAIN disk' \subseteq Keys /\ disk' \in [DOMAIN disk' -> Entry]
    BY <1>1 DEF StoreTypeOK
  <2>2. /\ jobs' \in [Workers -> Job]
        /\ \A v \in Workers :
             /\ jobs'[v].pc = "idle" => jobs'[v] = Idle
             /\ jobs'[v].pc = "inserting" =>
                  jobs'[v].key \in Keys /\ jobs'[v].bytes \in Sizes
    BY <1>1, <1>3, JobTyped
  <2> QED BY <1>1, <1>8, <2>1, <2>2 DEF StoreTypeOK, Ages
<1>10. UsedExplained'
  BY <1>2, <1>5, <1>6, <1>7, <1>8 DEF UsedExplained
<1>11. DiskBytes' + SumFunctionOnSet(Waiting', Workers) <= Capacity
  BY <1>2, <1>5, <1>6, <1>7
<1>12. Promise!Remove
  <2>1. DOMAIN Stored = DOMAIN disk
    BY DEF Stored
  <2>2. Stored' = [j \in DOMAIN Stored \ gone |-> Stored[j]]
    BY <1>1, <2>1 DEF Stored
  <2> QED BY <2>1, <2>2 DEF Promise!Remove
<1> QED BY <1>1, <1>2, <1>8, <1>9, <1>10, <1>11, <1>12 DEF StoreInv

LEMMA AllIdle ==
  ASSUME jobs = [w \in Workers |-> Idle]
  PROVE  SumFunctionOnSet(InFlight, Workers) = 0 /\ SumFunctionOnSet(Waiting, Workers) = 0
<1>1. \A w \in Workers : InFlight[w] = 0 /\ Waiting[w] = 0
  BY IdleFact DEF InFlight, Waiting
<1> QED BY <1>1, SumIsZero, WorkersFinite

(* A crash forgets the atomic and everything that was in flight; the next  *)
(* start finds the bytes in the persisted counter, or counts them.         *)
LEMMA CrashOrOpenStep ==
  ASSUME StoreInv, Crash \/ OpenStore
  PROVE  StoreInv' /\ Stored' = Stored
<1>1. /\ StoreTypeOK /\ UNCHANGED disk /\ Stored' = Stored /\ DiskBytes' = DiskBytes
      /\ DiskBytes \in Nat /\ Capacity \in Nat
      /\ SumFunctionOnSet(Waiting, Workers) \in Nat
      /\ counter # None => counter = DiskBytes
      /\ DiskBytes + SumFunctionOnSet(Waiting, Workers) <= Capacity
  BY StoredFacts, StoreAssumption
     DEF Crash, OpenStore, StoreInv, UsedExplained, Stored, DiskBytes
<1>2. CASE Crash
  <2>1. /\ up' = FALSE /\ used' = 0 /\ jobs' = [w \in Workers |-> Idle]
        /\ touches' = NoEntries /\ sweep' = SweepIdle /\ counter' = counter
    BY <1>2 DEF Crash
  <2>2. StoreTypeOK'
    <3>1. NoEntries \in [DOMAIN NoEntries -> 0..MaxAge]
      BY DEF NoEntries
    <3>2. /\ sweep'.pc = "idle" /\ sweep'.ages = NoEntries
          /\ sweep' = [pc |-> sweep'.pc, ages |-> sweep'.ages]
      BY <2>1 DEF SweepIdle
    <3>3. /\ jobs' \in [Workers -> Job]
          /\ \A w \in Workers : jobs'[w] = Idle /\ jobs'[w].pc = "idle"
      BY <2>1, IdleFact
    <3>4. Ages(touches)' /\ Ages(sweep.ages)'
      BY <2>1, <3>1, <3>2 DEF Ages
    <3>5. \A w \in Workers :
            /\ jobs'[w].pc = "idle" => jobs'[w] = Idle
            /\ jobs'[w].pc = "inserting" => jobs'[w].key \in Keys /\ jobs'[w].bytes \in Sizes
      BY <3>3
    <3>6. used' \in Int
      BY <2>1
    <3>7. up' \in BOOLEAN
      BY <2>1, Zenon
    <3> QED BY <1>1, <2>1, <3>2, <3>3, <3>4, <3>5, <3>6, <3>7 DEF StoreTypeOK
  <2>3. \A w \in Workers : Waiting'[w] = 0
    BY <2>1, IdleFact DEF Waiting
  <2>4. SumFunctionOnSet(Waiting', Workers) = 0
    BY <2>3, SumIsZero, WorkersFinite
  <2> QED BY <1>1, <2>1, <2>2, <2>4 DEF StoreInv, UsedExplained
<1>3. CASE OpenStore
  <2>1. /\ ~up /\ up' = TRUE /\ used' = LoadUsed /\ counter' = LoadUsed
        /\ UNCHANGED <<jobs, touches, sweep>>
    BY <1>3 DEF OpenStore
  <2>2. LoadUsed = DiskBytes
    BY <1>1 DEF LoadUsed
  <2>3. StoreTypeOK'
    BY <1>1, <2>1, <2>2 DEF StoreTypeOK, Ages
  <2>4. InFlight' = InFlight /\ Waiting' = Waiting
    BY <2>1 DEF InFlight, Waiting
  <2>5. SumFunctionOnSet(InFlight, Workers) = 0
    BY <2>1, AllIdle DEF StoreInv
  <2>6. DiskBytes # None
    BY <1>1, StoreAssumption
  <2> QED BY <1>1, <2>1, <2>2, <2>3, <2>4, <2>5, <2>6 DEF StoreInv, UsedExplained
<1> QED BY <1>2, <1>3

LEMMA StoreInitInv ==
  ASSUME StoreInit
  PROVE  StoreInv /\ Promise!Opened
<1>1. /\ \A k \in OldKeys : SmallestOld[k] \in Sizes
      /\ DOMAIN SmallestOld = OldKeys /\ IsFiniteSet(OldKeys)
  BY MinFacts, StoreAssumption, FS_Subset DEF SmallestOld
<1>2. PICK old \in SUBSET Keys :
        /\ DOMAIN disk = old /\ disk \in [old -> Entry]
        /\ Stored \in [old -> Sizes] /\ DOMAIN Stored = old
        /\ DiskBytes <= Capacity
  <2>1. CASE disk = NoEntries
    <3>1. DOMAIN disk = {}
      BY <2>1 DEF NoEntries
    <3>2. DiskBytes = 0 /\ 0 <= Capacity
      BY <3>1, SumOfNone, StoreAssumption DEF DiskBytes
    <3>3. disk \in [{} -> Entry]
      BY <2>1 DEF NoEntries
    <3>4. Stored \in [{} -> Sizes] /\ DOMAIN Stored = {}
      BY <3>1 DEF Stored
    <3> QED BY <3>1, <3>2, <3>3, <3>4
  <2>2. CASE disk = OldDatabase
    <3>1. DOMAIN disk = OldKeys /\ disk \in [OldKeys -> Entry]
      BY <1>1, <2>2 DEF OldDatabase, Entry
    <3>2. Stored = SmallestOld
      BY <2>2, <3>1 DEF OldDatabase, Stored, SmallestOld
    <3>3. DiskBytes <= Capacity
      BY <3>1, <3>2, StoreAssumption DEF DiskBytes
    <3>4. SmallestOld \in [OldKeys -> Sizes]
      BY <1>1 DEF SmallestOld
    <3> QED BY <1>1, <3>1, <3>2, <3>3, <3>4, StoreAssumption
  <2> QED BY <2>1, <2>2 DEF StoreInit
<1>3. /\ counter = None /\ used = 0 /\ up = FALSE
      /\ jobs = [w \in Workers |-> Idle] /\ touches = NoEntries /\ sweep = SweepIdle
  BY DEF StoreInit
<1>4. StoreTypeOK
  <2>1. NoEntries \in [DOMAIN NoEntries -> 0..MaxAge]
    BY DEF NoEntries
  <2>2. /\ sweep.pc = "idle" /\ sweep.ages = NoEntries
        /\ sweep = [pc |-> sweep.pc, ages |-> sweep.ages]
    BY <1>3 DEF SweepIdle
  <2>3. /\ jobs \in [Workers -> Job]
        /\ \A w \in Workers : jobs[w] = Idle /\ jobs[w].pc = "idle"
    BY <1>3, IdleFact
  <2>4. Ages(touches) /\ Ages(sweep.ages)
    BY <1>3, <2>1, <2>2 DEF Ages
  <2>5. \A w \in Workers :
          /\ jobs[w].pc = "idle" => jobs[w] = Idle
          /\ jobs[w].pc = "inserting" => jobs[w].key \in Keys /\ jobs[w].bytes \in Sizes
    BY <2>3
  <2>6. used \in Int
    BY <1>3
  <2>7. up \in BOOLEAN
    BY <1>3, Zenon
  <2> QED BY <1>2, <1>3, <2>2, <2>3, <2>4, <2>5, <2>6, <2>7 DEF StoreTypeOK
<1>5. SumFunctionOnSet(Waiting, Workers) = 0 /\ DiskBytes \in Nat /\ Capacity \in Nat
  BY <1>3, <1>4, AllIdle, StoredFacts, StoreAssumption
<1>6. StoreInv
  BY <1>2, <1>3, <1>4, <1>5 DEF StoreInv, UsedExplained
<1>7. Promise!Opened
  <2>1. Promise!BytesOf(Stored) = DiskBytes
    BY <1>2 DEF Promise!BytesOf, DiskBytes, SumFunctionOnSet, FoldFunctionOnSet,
       MapThenFoldSet, Promise!SumFunctionOnSet, Promise!FoldFunctionOnSet,
       Promise!MapThenFoldSet
  <2>2. Promise!BytesOf(Stored) <= Capacity
    BY <1>2, <2>1
  <2> HIDE DEF Promise!BytesOf
  <2> QED BY <1>2, <2>2 DEF Promise!Opened
<1> QED BY <1>6, <1>7

(* Every step of the process is one of the store, or leaves it alone.      *)
CollectorDeletes ==
  \E k \in DOMAIN disk :
    CommitDelete("collector", {k}) /\ UNCHANGED <<used, touches, sweep, up>>

StoreStep == StoreNext \/ CollectorDeletes \/ Settle("collector") \/ UNCHANGED storeVars

LEMMA DaemonStepsStore ==
  ASSUME [DaemonNext]_daemonVars
  PROVE  StoreStep
BY DEF DaemonNext, Collect, ListLocal, Answered, Unanswered, GetGcReady, ExecuteGc,
   ExecuteGcFails, ScoresChange, TimePasses, Die, Restart, StoreStep, StoreNext,
   CollectorDeletes, daemonVars, storeVars

LEMMA StoreStepInv ==
  ASSUME StoreInv, StoreStep
  PROVE  StoreInv' /\ [Promise!Put \/ Promise!Remove]_Stored
<1>1. \A c \in Clients : c \in Workers
  BY DEF Workers
<1>2. "sweeper" \in Workers /\ "collector" \in Workers
  BY DEF Workers
<1>3. /\ StoreTypeOK /\ sweep.pc \in {"idle", "flushing", "checking", "evicting"}
      /\ Ages(sweep.ages) /\ sweep = [pc |-> sweep.pc, ages |-> sweep.ages]
  BY DEF StoreInv, StoreTypeOK
<1>4. ASSUME NEW c \in Clients, Request(c)
      PROVE  StoreInv' /\ [Promise!Put \/ Promise!Remove]_Stored
  <2>1. CASE Reserve(c)
    BY <2>1, ReserveStep
  <2>2. CASE Insert(c)
    BY <1>1, <2>2, InsertStep, BacksOutStep
  <2>3. CASE InsertFails(c) \/ Settle(c)
    BY <1>1, <2>3, BacksOutStep
  <2>4. CASE Delete(c)
    <3>1. PICK k \in DOMAIN disk : CommitDelete(c, {k})
      BY <2>4 DEF Delete
    <3>2. UNCHANGED <<used, touches, sweep, up>>
      BY <2>4 DEF Delete
    <3> QED BY <1>1, <1>3, <3>1, <3>2, DeleteStep DEF Ages
  <2>5. CASE DeleteAll(c)
    <3>1. CommitDelete(c, DOMAIN disk \cap HashKeys) /\ DOMAIN disk \cap HashKeys # {}
      BY <2>5 DEF DeleteAll
    <3>2. UNCHANGED <<used, touches, sweep, up>>
      BY <2>5 DEF DeleteAll
    <3> QED BY <1>1, <1>3, <3>1, <3>2, DeleteStep DEF Ages
  <2>6. CASE DeletePostFragments(c)
    <3>1. PICK p \in DOMAIN disk \cap PostKeys :
            CommitDelete(c, {k \in DOMAIN disk \cap PostKeys: k[1] = p[1]})
      BY <2>6 DEF DeletePostFragments
    <3> DEFINE gone == {k \in DOMAIN disk \cap PostKeys: k[1] = p[1]}
    <3>2. UNCHANGED <<used, touches, sweep, up>>
      BY <2>6 DEF DeletePostFragments
    <3>3. gone \in SUBSET DOMAIN disk /\ gone # {} /\ CommitDelete(c, gone)
      BY <3>1
    <3> HIDE DEF gone
    <3> QED BY <1>1, <1>3, <3>2, <3>3, DeleteStep DEF Ages
  <2> QED BY <1>4, <2>1, <2>2, <2>3, <2>4, <2>5, <2>6 DEF Request
<1>5. CASE QuietStep /\ UNCHANGED <<counter, jobs>>
  BY <1>5, QuietStepInv
<1>6. CASE Sweep
  <2>1. CASE Settle("sweeper")
    BY <1>2, <2>1, BacksOutStep
  <2>2. CASE Evict /\ UNCHANGED <<disk, counter, jobs>>
    BY <1>5, <2>2 DEF QuietStep
  <2>3. CASE Evict /\ ~UNCHANGED <<disk, counter, jobs>>
    <3>1. PICK k \in DOMAIN sweep.ages :
            /\ Pop(k) /\ k \in DOMAIN disk /\ CommitDelete("sweeper", {k})
            /\ UNCHANGED <<used, touches, up>>
      BY <2>3 DEF Evict
    <3> DEFINE rest == Restrict(sweep.ages, DOMAIN sweep.ages \ {k})
    <3>2. Ages(rest)
      BY <1>3 DEF Ages, Restrict
    <3>3. sweep' = [sweep EXCEPT !.ages = rest]
      BY <3>1 DEF Pop
    <3> HIDE DEF rest
    <3>4. /\ sweep'.pc \in {"idle", "flushing", "checking", "evicting"} /\ Ages(sweep'.ages)
          /\ sweep' = [pc |-> sweep'.pc, ages |-> sweep'.ages]
      BY <1>3, <3>2, <3>3
    <3> QED BY <1>2, <3>1, <3>4, DeleteStep
  <2> QED
    BY <1>5, <1>6, <2>1, <2>2, <2>3 DEF Sweep, QuietStep, Drain, Flush, FlushFails,
       StartEviction, EvictFails, EndEviction
<1>7. CASE Retrieve \/ Tick \/ UNCHANGED storeVars
  BY <1>5, <1>7 DEF QuietStep, Retrieve, Tick, storeVars
<1>8. CASE Crash \/ OpenStore
  BY <1>8, CrashOrOpenStep
<1>9. CASE Settle("collector")
  BY <1>2, <1>9, BacksOutStep
<1>10. CASE CollectorDeletes
  <2>1. PICK k \in DOMAIN disk :
          CommitDelete("collector", {k}) /\ UNCHANGED <<used, touches, sweep, up>>
    BY <1>10 DEF CollectorDeletes
  <2> QED BY <1>2, <1>3, <2>1, DeleteStep DEF Ages
<1> QED BY <1>4, <1>6, <1>7, <1>8, <1>9, <1>10 DEF StoreStep, StoreNext

LEMMA StoreInvHolds == DaemonSpec => []StoreInv
<1>1. DaemonInit => StoreInv
  BY StoreInitInv DEF DaemonInit
<1>2. StoreInv /\ [DaemonNext]_daemonVars => StoreInv'
  BY DaemonStepsStore, StoreStepInv
<1> QED BY <1>1, <1>2, PTL DEF DaemonSpec

(* For any capacity, requests, sizes and old database: no order of         *)
(* concurrent stores, deletes, failures, evictions, collections and        *)
(* crashes leaks or loses a byte of the quota.                             *)
THEOREM UsedAlwaysExplained == DaemonSpec => []UsedExplained
<1>1. StoreInv => UsedExplained
  BY DEF StoreInv
<1> QED BY <1>1, StoreInvHolds, PTL

(* The fragment store inside the process keeps QuotaStore's promise: it    *)
(* fits the capacity and changes by one fragment stored or by a deletion.  *)
THEOREM StoreKeepsItsPromise == DaemonSpec => StoresWithinQuota
<1>1. DaemonInit => Promise!Opened
  BY StoreInitInv DEF DaemonInit
<1>2. StoreInv /\ [DaemonNext]_daemonVars => [Promise!Put \/ Promise!Remove]_Stored
  BY DaemonStepsStore, StoreStepInv
<1> QED
  BY <1>1, <1>2, StoreInvHolds, PTL DEF DaemonSpec, StoresWithinQuota, Promise!QuotaSpec

----------------------------------------------------------------------------
(* A mark is never older than the doubt it stands for, and a collection    *)
(* in progress names only contents in doubt for GracePeriod: between the   *)
(* choice and the deletions no answer is taken.                            *)
GcInv ==
  /\ Ages(candidates) /\ Ages(doubt)
  /\ \A k \in DOMAIN candidates : k \in DOMAIN doubt /\ candidates[k] <= doubt[k]
  /\ gc = [pc |-> gc.pc, keys |-> gc.keys]
  /\ gc.pc = "deleting" =>
       \A k \in gc.keys : k \in DOMAIN doubt /\ doubt[k] >= GracePeriod

LEMMA GcInitInv == GcInit => GcInv
<1> SUFFICES ASSUME GcInit PROVE GcInv
  OBVIOUS
<1>1. Ages(NoEntries) /\ DOMAIN NoEntries = {}
  BY DEF Ages, NoEntries
<1>2. gc.pc = "idle" /\ gc = [pc |-> gc.pc, keys |-> gc.keys]
  BY DEF GcInit, GcIdle
<1> QED BY <1>1, <1>2 DEF GcInit, GcInv

LEMMA GcStepInv ==
  ASSUME GcInv, [DaemonNext]_daemonVars
  PROVE  GcInv'
<1>1. /\ candidates \in [DOMAIN candidates -> 0..MaxAge]
      /\ doubt \in [DOMAIN doubt -> 0..MaxAge]
      /\ \A k \in DOMAIN candidates : k \in DOMAIN doubt /\ candidates[k] <= doubt[k]
      /\ gc = [pc |-> gc.pc, keys |-> gc.keys]
      /\ gc.pc = "deleting" =>
           \A k \in gc.keys : k \in DOMAIN doubt /\ doubt[k] >= GracePeriod
      /\ MaxAge \in Nat /\ GracePeriod \in Nat
  BY StoreAssumption, GcAssumption DEF GcInv, Ages
<1>2. CASE UNCHANGED gcVars
  BY <1>2 DEF GcInv, gcVars, Ages
<1>3. CASE ScoresChange
  BY <1>3 DEF ScoresChange, GcInv, Ages
<1>4. CASE ListLocal \/ Unanswered
  BY <1>1, <1>4 DEF ListLocal, Unanswered, GcInv, Ages
<1>5. CASE Answered
  <2> DEFINE asked == gc.keys
             bad == gc.keys \cap forgotten
  <2>1. /\ candidates' = [k \in (DOMAIN candidates \ (asked \ bad)) \cup bad |->
                            IF k \in DOMAIN candidates THEN candidates[k] ELSE 0]
        /\ doubt' = [k \in (DOMAIN doubt \ asked) \cup bad |->
                       IF k \in DOMAIN doubt THEN doubt[k] ELSE 0]
        /\ gc' = [pc |-> "choosing", keys |-> {}]
    BY <1>5 DEF Answered, Marked, Recovered, MarkAge, HeldInDoubt
  <2> HIDE DEF asked, bad
  <2>2. Ages(candidates') /\ Ages(doubt')
    BY <1>1, <2>1 DEF Ages
  <2>3. \A k \in DOMAIN candidates' : k \in DOMAIN doubt' /\ candidates'[k] <= doubt'[k]
    BY <1>1, <2>1 DEF bad
  <2> QED BY <2>1, <2>2, <2>3 DEF GcInv, Ages
<1>6. CASE GetGcReady
  <2>1. UNCHANGED <<candidates, doubt>>
    BY <1>6 DEF GetGcReady
  <2>2. \A k \in GcReady : k \in DOMAIN doubt /\ doubt[k] >= GracePeriod
    BY <1>1 DEF GcReady
  <2>3. gc' = GcIdle \/ gc' = [pc |-> "deleting", keys |-> GcReady]
    BY <1>6 DEF GetGcReady
  <2>4. /\ gc' = [pc |-> gc'.pc, keys |-> gc'.keys]
        /\ gc'.pc = "deleting" => gc'.keys = GcReady
    BY <2>3 DEF GcIdle
  <2> QED BY <1>1, <2>1, <2>2, <2>4 DEF GcInv, Ages
<1>7. CASE ExecuteGc \/ ExecuteGcFails
  <2>1. PICK k \in gc.keys : TakeCandidate(k) /\ UNCHANGED doubt
    BY <1>7 DEF ExecuteGc, ExecuteGcFails
  <2>2. /\ gc.pc = "deleting"
        /\ candidates' = [j \in DOMAIN candidates \ {k} |-> candidates[j]]
        /\ gc' = GcIdle \/ gc' = [gc EXCEPT !.keys = @ \ {k}]
    BY <2>1 DEF TakeCandidate, Restrict
  <2>3. /\ gc' = [pc |-> gc'.pc, keys |-> gc'.keys]
        /\ gc'.pc = "deleting" => gc'.keys \subseteq gc.keys
    BY <1>1, <2>2 DEF GcIdle
  <2> QED BY <1>1, <2>1, <2>2, <2>3 DEF GcInv, Ages
<1>8. CASE TimePasses
  <2>1. candidates' = Older(candidates) /\ doubt' = Older(doubt) /\ gc' = gc
    BY <1>8 DEF TimePasses
  <2>2. \A a, b \in 0..MaxAge : a <= b => Min({a + 1, MaxAge}) <= Min({b + 1, MaxAge})
    <3> SUFFICES ASSUME NEW a \in 0..MaxAge, NEW b \in 0..MaxAge, a <= b
                 PROVE  Min({a + 1, MaxAge}) <= Min({b + 1, MaxAge})
      OBVIOUS
    <3>1. \A c \in 0..MaxAge : Min({c + 1, MaxAge}) = IF c + 1 <= MaxAge THEN c + 1 ELSE MaxAge
      <4> SUFFICES ASSUME NEW c \in 0..MaxAge
                   PROVE  Min({c + 1, MaxAge}) = IF c + 1 <= MaxAge THEN c + 1 ELSE MaxAge
        OBVIOUS
      <4>1. \E x \in {c + 1, MaxAge} : \A y \in {c + 1, MaxAge} : x <= y
        BY <1>1
      <4>2. /\ Min({c + 1, MaxAge}) \in {c + 1, MaxAge}
            /\ \A y \in {c + 1, MaxAge} : Min({c + 1, MaxAge}) <= y
        BY <4>1 DEF Min
      <4> QED BY <1>1, <4>2
    <3> QED BY <1>1, <3>1
  <2>3. \A k \in DOMAIN doubt : k \in DOMAIN doubt' /\ doubt'[k] >= doubt[k] /\ doubt'[k] \in Nat
    BY <1>1, <2>1, MinFacts DEF Older
  <2>4. /\ DOMAIN candidates' = DOMAIN candidates
        /\ \A k \in DOMAIN candidates : candidates'[k] <= doubt'[k]
    BY <1>1, <2>1, <2>2 DEF Older
  <2>5. Ages(candidates') /\ Ages(doubt')
    BY <2>1, OlderFact DEF GcInv
  <2>6. gc'.pc = "deleting" =>
          \A k \in gc'.keys : k \in DOMAIN doubt' /\ doubt'[k] >= GracePeriod
    BY <1>1, <2>1, <2>3
  <2> QED BY <1>1, <2>1, <2>3, <2>4, <2>5, <2>6 DEF GcInv, Ages
<1>9. CASE Die
  <2>1. /\ candidates' = NoEntries /\ doubt' = NoEntries /\ gc' = GcIdle
        /\ NoEntries \in [DOMAIN NoEntries -> 0..MaxAge] /\ DOMAIN NoEntries = {}
    BY <1>9 DEF Die, NoEntries
  <2>2. gc'.pc = "idle" /\ gc' = [pc |-> gc'.pc, keys |-> gc'.keys]
    BY <2>1 DEF GcIdle
  <2> QED BY <2>1, <2>2 DEF GcInv, Ages
<1> QED
  BY <1>2, <1>3, <1>4, <1>5, <1>6, <1>7, <1>8, <1>9
     DEF DaemonNext, Collect, Restart, daemonVars, gcVars

(* Only the collector's own deletions begin a job of the collector.        *)
LEMMA CollectorBegins ==
  ASSUME StoreTypeOK, [DaemonNext]_daemonVars,
         jobs["collector"] = Idle, jobs'["collector"] # Idle
  PROVE  \E k \in gc.keys :
           gc.pc = "deleting" /\ disk' = [j \in DOMAIN disk \ {k} |-> disk[j]]
<1>1. "collector" # "sweeper" /\ \A c \in Clients : c # "collector"
  BY StoreAssumption
<1>2. ASSUME NEW w, NEW job, w # "collector", jobs' = [jobs EXCEPT ![w] = job]
      PROVE  FALSE
  <2>1. jobs'["collector"] = jobs["collector"]
    BY <1>2 DEF StoreTypeOK, Workers
  <2> QED BY <2>1
<1>3. jobs' # jobs
  OBVIOUS
<1>4. CASE ExecuteGc
  BY <1>3, <1>4 DEF ExecuteGc, TakeCandidate, CommitDelete
<1>5. ASSUME NEW c \in Clients, Request(c) PROVE FALSE
  <2>1. \E job : jobs' = [jobs EXCEPT ![c] = job]
    <3>1. CASE Reserve(c)
      BY <3>1 DEF Reserve
    <3>2. CASE Insert(c) \/ InsertFails(c) \/ Settle(c)
      BY <3>2 DEF Insert, InsertFails, Settle
    <3>3. CASE Delete(c) \/ DeleteAll(c) \/ DeletePostFragments(c)
      BY <3>3 DEF Delete, DeleteAll, DeletePostFragments, CommitDelete
    <3> QED BY <1>5, <3>1, <3>2, <3>3 DEF Request
  <2> QED BY <1>1, <1>2, <2>1
<1>6. CASE Sweep
  <2>1. jobs' = jobs \/ \E job : jobs' = [jobs EXCEPT !["sweeper"] = job]
    BY <1>6 DEF Sweep, Drain, Flush, FlushFails, StartEviction, Evict, EvictFails,
       EndEviction, Settle, CommitDelete
  <2> QED BY <1>1, <1>2, <1>3, <2>1
<1>7. CASE Settle("collector") \/ Die
  <2>1. jobs'["collector"] = Idle
    BY <1>7 DEF Settle, Die, Crash, StoreTypeOK, Workers
  <2> QED BY <2>1
<1>8. CASE \/ Retrieve \/ ListLocal \/ Answered \/ Unanswered \/ GetGcReady
           \/ ExecuteGcFails \/ ScoresChange \/ TimePasses \/ Restart
           \/ UNCHANGED daemonVars
  BY <1>3, <1>8 DEF Retrieve, ListLocal, Answered, Unanswered, GetGcReady,
     ExecuteGcFails, ScoresChange, TimePasses, Tick, Restart, OpenStore, daemonVars, storeVars
<1> QED BY <1>4, <1>5, <1>6, <1>7, <1>8 DEF DaemonNext, Collect

(* Whatever is stored again, deleted by others, asked, lost or crashed in  *)
(* between: the collector deletes only what the chain has called forgotten *)
(* for GracePeriod without an answer to the contrary.                      *)
THEOREM GcAlwaysWaits == DaemonSpec => GcWaitsForGrace
<1> DEFINE Waits(k) ==
      (jobs["collector"] = Idle /\ jobs'["collector"] # Idle /\ k \notin DOMAIN disk')
        => k \in DOMAIN doubt /\ doubt[k] >= GracePeriod
<1>1. ASSUME StoreInv, GcInv, [DaemonNext]_daemonVars, NEW k \in Local
      PROVE  Waits(k)
  <2> SUFFICES ASSUME jobs["collector"] = Idle, jobs'["collector"] # Idle,
                      k \notin DOMAIN disk'
               PROVE  k \in DOMAIN doubt /\ doubt[k] >= GracePeriod
    OBVIOUS
  <2>1. PICK j \in gc.keys :
          gc.pc = "deleting" /\ disk' = [i \in DOMAIN disk \ {j} |-> disk[i]]
    BY <1>1, CollectorBegins DEF StoreInv
  <2>2. k = j
    BY <2>1 DEF Local
  <2> QED BY <1>1, <2>1, <2>2 DEF GcInv
<1>2. StoreInv /\ GcInv /\ [DaemonNext]_daemonVars => \A k \in Local : Waits(k)
  BY <1>1
<1>3. DaemonInit => GcInv
  BY GcInitInv DEF DaemonInit
<1>4. GcInv /\ [DaemonNext]_daemonVars => GcInv'
  BY GcStepInv
<1> QED BY <1>2, <1>3, <1>4, StoreInvHolds, PTL DEF DaemonSpec, GcWaitsForGrace

----------------------------------------------------------------------------
(* Serials tell challenges of a share apart: what was handed over or told  *)
(* is no younger than the last one issued.  A retry has its entry.         *)
MonitorInv ==
  /\ height \in Nat /\ issued \in [Shares -> Nat]
  /\ open \in [Shares -> {NoChallenge} \cup Challenge]
  /\ handed \in [Shares -> {NoChallenge} \cup Challenge]
  /\ told \in [Shares -> {NoChallenge} \cup Challenge]
  /\ pending \in [Shares -> {NoChallenge} \cup PendingChallenge]
  /\ \A k \in Shares :
       /\ open[k] # NoChallenge => open[k].serial <= issued[k]
       /\ handed[k] # NoChallenge => handed[k].serial <= issued[k]
       /\ told[k] # NoChallenge => told[k].serial <= issued[k]
  /\ retries \subseteq {k \in Shares : pending[k] # NoChallenge}
  /\ SubmittedIsAnswered

LEMMA MonitorInitInv == MonitorInit => MonitorInv
BY DEF MonitorInit, MonitorInv, Nothing, SubmittedIsAnswered

LEMMA NotedFact ==
  ASSUME MonitorInv, NEW k \in Shares, handed[k] # NoChallenge
  PROVE  /\ Noted(k) \in [Shares -> {NoChallenge} \cup PendingChallenge]
         /\ Noted(k)[k] # NoChallenge /\ ~Noted(k)[k].submitted
         /\ \A j \in Shares : j # k => Noted(k)[j] = pending[j]
<1> DEFINE entry == [deadline |-> handed[k].deadline, attempts |-> 0, submitted |-> FALSE]
<1>1. handed[k].deadline \in Nat
  BY DEF MonitorInv, Challenge
<1>2. entry \in PendingChallenge
  <2>1. FALSE \in BOOLEAN /\ 0 \in Nat
    OBVIOUS
  <2> QED BY <1>1, <2>1, Zenon DEF PendingChallenge
<1>3. entry # NoChallenge
  BY <1>2, MonitorAssumption, Zenon
<1>4. ~entry.submitted
  OBVIOUS
<1>5. Noted(k) = [pending EXCEPT ![k] = entry]
  BY DEF Noted
<1> HIDE DEF entry
<1> QED BY <1>2, <1>4, <1>5, <1>3 DEF MonitorInv

(* An attempt that is accepted ends the challenge, one that is not leaves  *)
(* the entry unsubmitted.                                                  *)
LEMMA AttemptFact ==
  ASSUME MonitorInv, NEW k \in Shares, NEW accepted \in BOOLEAN,
         NEW p \in [Shares -> {NoChallenge} \cup PendingChallenge],
         p[k] # NoChallenge, Attempt(p, k, accepted)
  PROVE  /\ pending' \in [Shares -> {NoChallenge} \cup PendingChallenge]
         /\ pending'[k] # NoChallenge
         /\ \A j \in Shares : j # k => pending'[j] = p[j] /\ open'[j] = open[j]
         /\ open' \in [Shares -> {NoChallenge} \cup Challenge]
         /\ open'[k] = NoChallenge \/ (open'[k] = open[k] /\ ~pending'[k].submitted)
<1> DEFINE entry == [deadline |-> p[k].deadline, attempts |-> p[k].attempts + 1,
                     submitted |-> accepted]
<1>1. p[k].deadline \in Nat /\ p[k].attempts + 1 \in Nat
  BY DEF PendingChallenge
<1>2. entry \in PendingChallenge
  BY <1>1, Zenon DEF PendingChallenge
<1>3. entry.submitted = accepted
  BY Zenon
<1>4. entry # NoChallenge
  BY <1>2, MonitorAssumption
<1>5. /\ pending' = [p EXCEPT ![k] = entry]
      /\ open' = IF accepted THEN [open EXCEPT ![k] = NoChallenge] ELSE open
  BY DEF Attempt
<1> HIDE DEF entry
<1>6. open \in [Shares -> {NoChallenge} \cup Challenge]
  BY DEF MonitorInv
<1>7. CASE accepted
  BY <1>2, <1>4, <1>5, <1>6, <1>7
<1>8. CASE ~accepted
  BY <1>2, <1>4, <1>5, <1>6, <1>8, <1>3
<1> QED BY <1>7, <1>8

LEMMA MonitorStepInv ==
  ASSUME MonitorInv, [MonitorNext]_monitorVars
  PROVE  MonitorInv'
<1>1. CASE Poll
  BY <1>1 DEF Poll, MonitorInv, Nothing, SubmittedIsAnswered
<1>2. CASE OnChallengeIssued
  <2>1. PICK k \in Shares :
          /\ handed[k] # NoChallenge
          /\ handed' = [handed EXCEPT ![k] = NoChallenge]
          /\ told' = [told EXCEPT ![k] = handed[k]]
          /\ UNCHANGED <<height, issued, provable, retries, stage, polls>>
          /\ \/ \E accepted \in BOOLEAN : Attempt(Noted(k), k, accepted)
             \/ pending' = Noted(k) /\ UNCHANGED open
    BY <1>2 DEF OnChallengeIssued
  <2>2. /\ pending' \in [Shares -> {NoChallenge} \cup PendingChallenge]
        /\ pending'[k] # NoChallenge
        /\ \A j \in Shares : j # k => pending'[j] = pending[j] /\ open'[j] = open[j]
        /\ open' \in [Shares -> {NoChallenge} \cup Challenge]
        /\ open'[k] = NoChallenge \/ (open'[k] = open[k] /\ ~pending'[k].submitted)
    <3>1. CASE \E accepted \in BOOLEAN : Attempt(Noted(k), k, accepted)
      BY <2>1, <3>1, NotedFact, AttemptFact
    <3>2. CASE pending' = Noted(k) /\ UNCHANGED open
      BY <2>1, <3>2, NotedFact DEF MonitorInv
    <3> QED BY <2>1, <3>1, <3>2
  <2>3. /\ handed' \in [Shares -> {NoChallenge} \cup Challenge]
        /\ told' \in [Shares -> {NoChallenge} \cup Challenge]
        /\ \A j \in Shares : told'[j] = IF j = k THEN handed[k] ELSE told[j]
        /\ \A j \in Shares : handed'[j] # NoChallenge => handed'[j] = handed[j]
    BY <2>1 DEF MonitorInv
  <2>4. retries' \subseteq {j \in Shares : pending'[j] # NoChallenge}
    BY <2>1, <2>2 DEF MonitorInv
  <2>5. SubmittedIsAnswered'
    BY <2>2, <2>3 DEF MonitorInv, SubmittedIsAnswered
  <2>6. \A j \in Shares :
          /\ open'[j] # NoChallenge => open'[j].serial <= issued'[j]
          /\ handed'[j] # NoChallenge => handed'[j].serial <= issued'[j]
          /\ told'[j] # NoChallenge => told'[j].serial <= issued'[j]
    BY <2>1, <2>2, <2>3 DEF MonitorInv
  <2> QED BY <2>1, <2>2, <2>3, <2>4, <2>5, <2>6 DEF MonitorInv
<1>3. CASE ProcessPending
  BY <1>3 DEF ProcessPending, Worth, MonitorInv, SubmittedIsAnswered
<1>4. CASE TrySubmitProof
  <2>1. PICK k \in retries, accepted \in BOOLEAN :
          /\ retries' = retries \ {k} /\ Attempt(pending, k, accepted)
          /\ UNCHANGED <<height, issued, provable, handed, stage, polls, told>>
    BY <1>4 DEF TrySubmitProof
  <2>2. k \in Shares /\ pending[k] # NoChallenge
    BY DEF MonitorInv
  <2>3. /\ pending' \in [Shares -> {NoChallenge} \cup PendingChallenge]
        /\ pending'[k] # NoChallenge
        /\ \A j \in Shares : j # k => pending'[j] = pending[j] /\ open'[j] = open[j]
        /\ open' \in [Shares -> {NoChallenge} \cup Challenge]
        /\ open'[k] = NoChallenge \/ (open'[k] = open[k] /\ ~pending'[k].submitted)
    BY <2>1, <2>2, AttemptFact DEF MonitorInv
  <2>4. retries' \subseteq {j \in Shares : pending'[j] # NoChallenge}
    BY <2>1, <2>3 DEF MonitorInv
  <2>5. SubmittedIsAnswered'
    BY <2>1, <2>3 DEF MonitorInv, SubmittedIsAnswered
  <2>6. \A j \in Shares : open'[j] # NoChallenge => open'[j].serial <= issued'[j]
    BY <2>1, <2>3 DEF MonitorInv
  <2> QED BY <2>1, <2>3, <2>4, <2>5, <2>6 DEF MonitorInv
<1>5. CASE EndPoll
  <2>1. /\ UNCHANGED <<height, open, issued, provable, handed, retries, told>>
        /\ retries = {}
    BY <1>5 DEF EndPoll
  <2>2. \/ pending' = pending
        \/ pending' = [k \in Shares |-> IF Kept(k) THEN pending[k] ELSE NoChallenge]
    BY <1>5 DEF EndPoll, CleanupOldChallenges
  <2>3. /\ pending' \in [Shares -> {NoChallenge} \cup PendingChallenge]
        /\ \A k \in Shares : pending'[k] # NoChallenge => pending'[k] = pending[k]
    BY <2>2 DEF MonitorInv
  <2> QED BY <2>1, <2>3 DEF MonitorInv, SubmittedIsAnswered
(* A new challenge has a serial nothing handed over so far has.            *)
<1>6. CASE Issue
  <2>1. PICK k \in Shares :
          /\ issued' = [issued EXCEPT ![k] = @ + 1]
          /\ open' = [open EXCEPT ![k] =
               [deadline |-> height + Window, serial |-> issued'[k]]]
          /\ UNCHANGED <<height, pending, provable, handed, retries, stage, polls, told>>
    BY <1>6 DEF Issue
  <2> DEFINE new == [deadline |-> height + Window, serial |-> issued'[k]]
  <2>2. issued' \in [Shares -> Nat] /\ issued'[k] = issued[k] + 1
        /\ \A j \in Shares : issued[j] <= issued'[j] /\ issued[j] \in Nat
    BY <2>1 DEF MonitorInv
  <2>3. new \in Challenge /\ new.serial = issued'[k]
    BY <2>2, MonitorAssumption DEF MonitorInv, Challenge
  <2>4. open' = [open EXCEPT ![k] = new]
    BY <2>1
  <2> HIDE DEF new
  <2>5. /\ open' \in [Shares -> {NoChallenge} \cup Challenge] /\ open'[k] = new
        /\ \A j \in Shares : j # k => open'[j] = open[j]
    BY <2>3, <2>4 DEF MonitorInv
  <2>6. \A j \in Shares :
          /\ open'[j] # NoChallenge => open'[j].serial <= issued'[j]
          /\ handed[j] # NoChallenge => handed[j].serial <= issued'[j]
          /\ told[j] # NoChallenge => told[j].serial <= issued'[j]
    <3>1. \A j \in Shares :
            /\ open[j] # NoChallenge => open[j].serial \in Nat /\ open[j].serial <= issued[j]
            /\ handed[j] # NoChallenge => handed[j].serial \in Nat /\ handed[j].serial <= issued[j]
            /\ told[j] # NoChallenge => told[j].serial \in Nat /\ told[j].serial <= issued[j]
      BY DEF MonitorInv, Challenge
    <3> QED BY <2>2, <2>3, <2>5, <3>1
  <2>7. told[k] # new
    <3> SUFFICES ASSUME told[k] = new PROVE FALSE
      OBVIOUS
    <3>1. told[k] # NoChallenge /\ told[k].serial <= issued[k]
      BY <2>3, MonitorAssumption DEF MonitorInv
    <3> QED BY <2>2, <2>3, <3>1
  <2>8. SubmittedIsAnswered'
    BY <2>1, <2>5, <2>7 DEF MonitorInv, SubmittedIsAnswered
  <2> QED BY <2>1, <2>2, <2>5, <2>6, <2>8 DEF MonitorInv
<1>7. CASE NewBlock
  <2>1. /\ height' = height + 1
        /\ UNCHANGED <<issued, pending, provable, handed, retries, stage, polls, told>>
        /\ open' = [k \in Shares |-> IF Expired(k) THEN NoChallenge ELSE open[k]]
    BY <1>7 DEF NewBlock
  <2>2. /\ open' \in [Shares -> {NoChallenge} \cup Challenge] /\ height' \in Nat
        /\ \A k \in Shares : open'[k] # NoChallenge => open'[k] = open[k]
    BY <2>1 DEF MonitorInv
  <2> QED BY <2>1, <2>2 DEF MonitorInv, SubmittedIsAnswered
<1>8. CASE ShareComesOrGoes \/ UNCHANGED monitorVars
  BY <1>8 DEF ShareComesOrGoes, monitorVars, MonitorInv, SubmittedIsAnswered
<1> QED
  BY <1>1, <1>2, <1>3, <1>4, <1>5, <1>6, <1>7, <1>8 DEF MonitorNext, PollTick

(* For any shares, windows, attempts and cleanup intervals: what a node    *)
(* takes for submitted it has answered, the challenge told last included.  *)
THEOREM SubmittedIsAlwaysAnswered == MonitorSpec => []SubmittedIsAnswered
<1>1. MonitorInv => SubmittedIsAnswered
  BY DEF MonitorInv
<1>2. MonitorInv /\ [MonitorNext]_monitorVars => MonitorInv'
  BY MonitorStepInv
<1> QED BY <1>1, <1>2, MonitorInitInv, PTL DEF MonitorSpec

-----------------------------------------------------------------------------
(* What nodes tell and keep for each other.                                *)

Moments == Nat \cup {Never}
Message == [url: Urls, verified: Nat, stamp: Nat]

(* The caches trail the gossip and the gossip trails the endpoints: nothing *)
(* written down about an endpoint is later than its last answer.            *)
EndpointInv ==
  /\ clock \in Nat
  /\ seen \in [Urls -> Moments] /\ \A u \in Urls: seen[u] <= clock
  /\ gossip \subseteq Message /\ \A m \in gossip: m.verified <= seen[m.url]
  /\ cache \in [Urls -> Moments] /\ \A u \in Urls: cache[u] <= seen[u]

(* A fragment is written only after the chain said yes, so what the shelf   *)
(* will hold is warranted before it is written.                             *)
PutInv ==
  /\ onChain \subseteq warranted
  /\ writing \subseteq warranted
  /\ shelf \subseteq warranted
  /\ thanked \subseteq shelf \cap begun

----------------------------------------------------------------------------
LEMMA EndpointInit == ExchangeInit => EndpointInv
BY DEF ExchangeInit, EndpointInv, Moments, Never, Message

LEMMA EndpointStep == EndpointInv /\ [ExchangeNext]_exchangeVars => EndpointInv'
<1> SUFFICES ASSUME EndpointInv, [ExchangeNext]_exchangeVars PROVE EndpointInv'
  OBVIOUS
<1> USE DEF EndpointInv, Moments, Never, Message
<1>1. CASE Announce
  <2>1. PICK u \in Urls:
          /\ \/ seen' = [seen EXCEPT ![u] = clock]
             \/ seen[u] # Never /\ seen' = seen
          /\ gossip' = gossip \cup {[url |-> u, verified |-> seen'[u], stamp |-> clock]}
    BY <1>1 DEF Announce
  <2>2. clock' = clock /\ cache' = cache
    BY <1>1 DEF Announce
  <2>3. /\ seen' \in [Urls -> Moments]
        /\ \A v \in Urls: seen[v] <= seen'[v] /\ seen'[v] <= clock
        /\ seen'[u] \in Nat
    BY <2>1
  <2>4. \A v \in Urls: seen[v] \in Int /\ cache[v] \in Int /\ seen'[v] \in Int
    BY <2>3
  <2>5. gossip' \subseteq Message /\ \A m \in gossip': m.verified <= seen'[m.url]
    BY <2>1, <2>3, <2>4
  <2>6. \A v \in Urls: cache[v] <= seen'[v]
    BY <2>3, <2>4
  <2> QED BY <2>2, <2>3, <2>5, <2>6
<1>2. CASE HearEndpoint
  <2>1. PICK m \in gossip: cache' = [cache EXCEPT ![m.url] = m.verified]
    BY <1>2 DEF HearEndpoint, VerifiedAt
  <2>2. UNCHANGED <<clock, seen, gossip>>
    BY <1>2 DEF HearEndpoint
  <2> QED BY <2>1, <2>2
<1>3. CASE SecondPasses
  <2>1. clock' = clock + 1 /\ UNCHANGED <<seen, gossip, cache>>
    BY <1>3 DEF SecondPasses, endpointVars
  <2>2. \A u \in Urls: seen[u] \in Int
    OBVIOUS
  <2> QED BY <2>1, <2>2
<1>4. CASE ProcessEnds
  <2>1. UNCHANGED <<clock, seen, gossip>> /\ cache' = [u \in Urls |-> Never]
    BY <1>4 DEF ProcessEnds
  <2> QED BY <2>1
<1>5. CASE PutNext /\ ~ProcessEnds
  BY <1>5 DEF PutNext, PutArrives, CheckPut, WriteEnds, HandlerDropped,
              DeclarationEnds, PostComesOrGoes, endpointVars
<1>6. CASE UNCHANGED exchangeVars
  BY <1>6 DEF exchangeVars
<1> QED BY <1>1, <1>2, <1>3, <1>4, <1>5, <1>6 DEF ExchangeNext, EndpointNext

LEMMA OfferedIsRecent == EndpointInv => OfferedWasAlive
<1> SUFFICES ASSUME EndpointInv, NEW u \in Offered
             PROVE  seen[u] # Never /\ clock - seen[u] <= Ttl
  BY DEF OfferedWasAlive
<1>1. u \in Urls /\ cache[u] # Never /\ clock - cache[u] <= Ttl
  BY ExchangeAssumption DEF Offered, IsExpired, EndpointInv, Moments, Never
<1>2. cache[u] \in Nat /\ seen[u] \in Int /\ cache[u] <= seen[u] /\ clock \in Nat
  BY <1>1 DEF EndpointInv, Moments, Never
<1> QED BY <1>1, <1>2, ExchangeAssumption DEF Never

(* An endpoint offered for a failover or to a peer answered somebody within *)
(* the last Ttl, in whatever order, how late and how often gossip arrives.  *)
THEOREM OfferedWasAliveHolds == ExchangeSpec => []OfferedWasAlive
BY EndpointInit, EndpointStep, OfferedIsRecent, PTL DEF ExchangeSpec

----------------------------------------------------------------------------
LEMMA PutStep == PutInv /\ [ExchangeNext]_exchangeVars => PutInv'
<1> SUFFICES ASSUME PutInv, [ExchangeNext]_exchangeVars PROVE PutInv'
  OBVIOUS
<1> USE DEF PutInv
<1>1. CASE CheckPut
  <2>1. PICK f \in request.fragment, answer \in {"yes", "no", "error"}:
          /\ answer = "yes" => f \in onChain
          /\ IF Authorized(f, answer)
             THEN writing' = writing \cup {f} /\ request' = [request EXCEPT !.at = "storing"]
             ELSE request' = Quiet /\ UNCHANGED writing
    BY <1>1 DEF CheckPut
  <2>2. UNCHANGED <<onChain, warranted, shelf, thanked, begun>>
    BY <1>1 DEF CheckPut
  <2>3. writing' \subseteq writing \cup onChain
    BY <2>1 DEF Authorized
  <2> QED BY <2>2, <2>3
<1>2. CASE WriteEnds
  <2>1. PICK f \in writing, stored \in BOOLEAN:
          /\ writing' = writing \ {f}
          /\ shelf' = IF stored THEN shelf \cup {f} ELSE shelf
          /\ IF request.at = "storing" /\ f \in request.fragment
             THEN /\ request' = Quiet
                  /\ IF stored THEN AckAndDeclare(f) ELSE UNCHANGED <<thanked, declaring, begun>>
             ELSE UNCHANGED <<request, thanked, declaring, begun>>
    BY <1>2 DEF WriteEnds
  <2>2. UNCHANGED <<onChain, warranted>>
    BY <1>2 DEF WriteEnds
  <2>3. CASE stored /\ thanked' = thanked \cup {f} /\ begun' = begun \cup {f}
    BY <2>1, <2>2, <2>3
  <2>4. CASE UNCHANGED <<thanked, begun>>
    BY <2>1, <2>2, <2>4
  <2> QED BY <2>1, <2>3, <2>4 DEF AckAndDeclare
<1>3. CASE ProcessEnds
  BY <1>3 DEF ProcessEnds
<1>4. CASE PostComesOrGoes
  <2>1. PICK f \in Fragments:
          onChain' = IF f \in onChain THEN onChain \ {f} ELSE onChain \cup {f}
    BY <1>4 DEF PostComesOrGoes
  <2>2. warranted' = warranted \cup onChain'
        /\ UNCHANGED <<writing, shelf, thanked, begun>>
    BY <1>4 DEF PostComesOrGoes
  <2> QED BY <2>2
<1>5. CASE PutArrives \/ HandlerDropped \/ DeclarationEnds
  BY <1>5 DEF PutArrives, HandlerDropped, DeclarationEnds
<1>6. CASE EndpointNext
  BY <1>6 DEF EndpointNext, Announce, HearEndpoint, SecondPasses, putVars
<1>7. CASE UNCHANGED exchangeVars
  BY <1>7 DEF exchangeVars
<1> QED BY <1>1, <1>2, <1>3, <1>4, <1>5, <1>6, <1>7 DEF ExchangeNext, PutNext

(* Only fragments that were registered on the chain are kept for peers, and *)
(* an acknowledged one is on the shelf with its declaration begun, whatever *)
(* handlers are dropped and processes end in between.                       *)
THEOREM PutsAreSoundHolds == ExchangeSpec => []PutsAreSound
<1>1. ExchangeInit => PutInv
  BY DEF ExchangeInit, PutInv
<1>2. PutInv => PutsAreSound
  BY DEF PutInv, PutsAreSound
<1> QED BY <1>1, <1>2, PutStep, PTL DEF ExchangeSpec
-----------------------------------------------------------------------------
(* The way to the chain.                                                   *)

Link == [url : Endpoints, role : {"HotStandby", "Disconnected"}]

(* An endpoint that may become the primary: known from the start, or it     *)
(* serves the chain the client met.                                        *)
Ours(url) == url \in FirstStandbys \/ (genesis # Nowhere /\ Chain[url] = genesis)

OursWhenHot(list) == \A i \in 1 .. Len(list) :
                       list[i].role = "HotStandby" => Ours(list[i].url)

ChainInv ==
  /\ IsFiniteSet(cached) /\ cached \subseteq Endpoints
  /\ standbys \in Seq(Link) /\ OursWhenHot(standbys)
  /\ primary \in [url : Endpoints, failures : Nat]
  /\ primary.url = Home \/ Ours(primary.url)
  /\ client # Nowhere => Chain[client] = genesis

LEMMA StandbyIsLink == \A url \in Endpoints : Standby(url) \in Link
BY DEF Standby, Link

LEMMA ChainStart == ClientInit => ChainInv
<1> SUFFICES ASSUME ClientInit PROVE ChainInv
  OBVIOUS
<1> DEFINE known == {Standby(url) : url \in FirstStandbys}
<1>1. IsFiniteSet(known)
  <2> DEFINE f == [url \in FirstStandbys |-> Standby(url)]
  <2>1. f \in Surjection(FirstStandbys, known)
    BY DEF Surjection
  <2> QED BY <2>1, ClientAssumption, FS_Surjection
<1>2. Cardinality(known) \in Nat
  BY <1>1, FS_CardinalityType
<1>3. standbys \in [1 .. Cardinality(known) -> known]
  BY DEF ClientInit, SetToSeqs
<1>4. \A s \in known : s \in Link /\ s.url \in FirstStandbys
  BY ClientAssumption, StandbyIsLink DEF Standby
<1> HIDE DEF known
<1>5. standbys \in Seq(Link) /\ OursWhenHot(standbys)
  BY <1>2, <1>3, <1>4 DEF OursWhenHot, Ours
<1>6. IsFiniteSet(cached) /\ cached \subseteq Endpoints
  BY FS_EmptySet DEF ClientInit
<1> QED BY <1>5, <1>6, ClientAssumption DEF ClientInit, ChainInv

LEMMA HotInBoth ==
  ASSUME NEW a \in Seq(Link), NEW b \in Seq(Link), OursWhenHot(a), OursWhenHot(b)
  PROVE  a \o b \in Seq(Link) /\ OursWhenHot(a \o b)
<1>1. a \o b \in Seq(Link) /\ Len(a \o b) = Len(a) + Len(b) /\ Len(a) \in Nat /\ Len(b) \in Nat
  OBVIOUS
<1>2. ASSUME NEW i \in 1 .. Len(a \o b), (a \o b)[i].role = "HotStandby"
      PROVE  Ours((a \o b)[i].url)
  <2>1. CASE i <= Len(a)
    <3>1. i \in 1 .. Len(a) /\ (a \o b)[i] = a[i]
      BY <1>1, <2>1
    <3> QED BY <1>2, <3>1 DEF OursWhenHot
  <2>2. CASE ~(i <= Len(a))
    <3>1. i - Len(a) \in 1 .. Len(b) /\ (a \o b)[i] = b[i - Len(a)]
      BY <1>1, <2>2
    <3> QED BY <1>2, <3>1 DEF OursWhenHot
  <2> QED BY <2>1, <2>2
<1> QED BY <1>1, <1>2 DEF OursWhenHot

(* The standby that is promoted is the first hot one.                      *)
LEMMA PromotionFacts ==
  ASSUME ChainInv, Hot # {}
  PROVE  /\ FirstHot \in 1 .. Len(standbys)
         /\ Promoted \in [url : Endpoints, failures : Nat] /\ Ours(Promoted.url)
         /\ AfterPromotion \in Seq(Link) /\ OursWhenHot(AfterPromotion)
<1>1. Hot \subseteq Nat /\ Hot = {i \in 1 .. Len(standbys) : standbys[i].role = "HotStandby"}
  BY DEF Hot, ChainInv
<1>2. \E i \in Hot : \A j \in Hot : i <= j
  BY <1>1, LeastNumber
<1>3. FirstHot \in Hot
  BY <1>2 DEF FirstHot
<1> DEFINE k == FirstHot
           n == Len(standbys)
           old == [url |-> primary.url, role |-> "Disconnected"]
<1>4. k \in 1 .. n /\ n \in Nat /\ standbys[k] \in Link /\ standbys[k].role = "HotStandby"
  BY <1>1, <1>3 DEF ChainInv
<1>5. Promoted \in [url : Endpoints, failures : Nat] /\ Ours(Promoted.url)
  BY <1>4 DEF Promoted, ChainInv, OursWhenHot, Link
<1>6. old \in Link
  BY DEF ChainInv, Link
<1> HIDE DEF k, old
<1>7. AfterPromotion = (SubSeq(standbys, 1, k - 1) \o SubSeq(standbys, k + 1, n)) \o <<old>>
  BY DEF AfterPromotion, RemoveAt, k, n, old
<1> DEFINE before == SubSeq(standbys, 1, k - 1)
           behind == SubSeq(standbys, k + 1, n)
<1>8. before \in Seq(Link) /\ OursWhenHot(before)
  <2>1. standbys \in Seq(Link) /\ \A i \in 1 .. k - 1 : i \in 1 .. Len(standbys)
    BY <1>4 DEF n, ChainInv
  <2>2. /\ before \in Seq(Link) /\ Len(before) = k - 1
        /\ \A i \in 1 .. k - 1 : before[i] = standbys[i]
    BY <1>4, <2>1
  <2> HIDE DEF before
  <2> QED BY <2>1, <2>2 DEF OursWhenHot, ChainInv
<1>9. behind \in Seq(Link) /\ OursWhenHot(behind)
  <2>1. standbys \in Seq(Link) /\ \A i \in 1 .. n - k : i + k \in 1 .. Len(standbys)
    BY <1>4 DEF n, ChainInv
  <2>2. /\ behind \in Seq(Link) /\ Len(behind) = n - k
        /\ \A i \in 1 .. n - k : behind[i] = standbys[i + k]
    BY <1>4, <2>1
  <2> HIDE DEF behind
  <2> QED BY <2>1, <2>2 DEF OursWhenHot, ChainInv
<1>10. <<old>> \in Seq(Link) /\ OursWhenHot(<<old>>)
  <2>1. <<old>> \in Seq(Link) /\ \A i \in 1 .. Len(<<old>>) : <<old>>[i] = old
    BY <1>6
  <2>2. old.role # "HotStandby"
    BY DEF old
  <2> QED BY <2>1, <2>2 DEF OursWhenHot
<1>11. AfterPromotion = (before \o behind) \o <<old>>
  BY <1>7
<1> HIDE DEF before, behind
<1>14. AfterPromotion \in Seq(Link) /\ OursWhenHot(AfterPromotion)
  BY <1>8, <1>9, <1>10, <1>11, HotInBoth
<1> QED BY <1>4, <1>5, <1>14 DEF k, n

(* What refresh_standbys_from_cache has pushed after so many candidates.   *)
Pushes(w, list, order, next, n) ==
  w = [i \in 0 .. n |-> IF i = 0 THEN list
                        ELSE Pushed(w[i - 1], CacheList(order)[i], next, order)]

LEMMA PushesExist ==
  ASSUME NEW list, NEW order, NEW next
  PROVE  \A n \in Nat : \E w : Pushes(w, list, order, next, n)
<1> DEFINE T == {n \in Nat : \E w : Pushes(w, list, order, next, n)}
           Turn(value, i) == Pushed(value, CacheList(order)[i], next, order)
<1>1. 0 \in T
  <2>1. Pushes([i \in 0 .. 0 |-> list], list, order, next, 0)
    BY DEF Pushes
  <2> QED BY <2>1
<1>2. ASSUME NEW n \in Nat, n \in T PROVE n + 1 \in T
  <2>1. PICK w : Pushes(w, list, order, next, n)
    BY <1>2
  <2> DEFINE v == [i \in 0 .. n + 1 |-> IF i = n + 1 THEN Turn(w[n], n + 1) ELSE w[i]]
  <2>2. \A i \in 0 .. n : w[i] = IF i = 0 THEN list ELSE Turn(w[i - 1], i)
    BY <2>1 DEF Pushes
  <2> HIDE DEF Turn
  <2>3. \A i \in 0 .. n : v[i] = w[i]
    OBVIOUS
  <2>4. v[n + 1] = Turn(v[n], n + 1)
    BY <2>3
  <2>5. v = [i \in 0 .. n + 1 |-> v[i]]
    OBVIOUS
  <2> HIDE DEF v
  <2>6. ASSUME NEW i \in 0 .. n + 1
        PROVE  v[i] = IF i = 0 THEN list ELSE Turn(v[i - 1], i)
    <3>1. CASE i = n + 1
      BY <2>4, <3>1
    <3>2. CASE i \in 0 .. n
      <4>1. i # 0 => v[i - 1] = w[i - 1]
        BY <2>3, <3>2
      <4> QED BY <2>2, <2>3, <3>2, <4>1
    <3> QED BY <3>1, <3>2
  <2>7. Pushes(v, list, order, next, n + 1)
    BY <2>5, <2>6 DEF Pushes, Turn
  <2> QED BY <2>7
<1> HIDE DEF T
<1>3. \A n \in Nat : n \in T
  BY <1>1, <1>2, NumbersReached
<1> QED BY <1>3 DEF T

(* Only endpoints of the expected chain are pushed.                        *)
LEMMA RefreshedFacts ==
  ASSUME genesis # Nowhere, NEW list \in Seq(Link), OursWhenHot(list),
         NEW order \in Seq(Endpoints), NEW next
  PROVE  Refreshed(list, order, next) \in Seq(Link) /\ OursWhenHot(Refreshed(list, order, next))
<1> DEFINE some == CacheList(order)
           last == Len(some)
           w == CHOOSE w : Pushes(w, list, order, next, last)
<1>1. some \in Seq(Endpoints) /\ last \in Nat
  BY ClientAssumption DEF CacheList
<1>2. Pushes(w, list, order, next, last)
  BY <1>1, PushesExist
<1>3. Refreshed(list, order, next) = w[last]
  BY DEF Refreshed, Pushes
<1> HIDE DEF w, last
<1>4. w[0] = list /\ \A i \in 1 .. last : w[i] = Pushed(w[i - 1], some[i], next, order)
  BY <1>1, <1>2 DEF Pushes
<1> DEFINE Good(value) == value \in Seq(Link) /\ OursWhenHot(value)
           T == {n \in Nat : n <= last => Good(w[n])}
<1>5. 0 \in T
  BY <1>4
<1>6. ASSUME NEW n \in Nat, n \in T PROVE n + 1 \in T
  <2> SUFFICES ASSUME n + 1 <= last PROVE Good(w[n + 1])
    OBVIOUS
  <2>1. Good(w[n])
    BY <1>1, <1>6
  <2>2. n + 1 \in 1 .. last /\ some[n + 1] \in Endpoints /\ n + 1 - 1 = n
    BY <1>1 DEF last
  <2> DEFINE url == some[n + 1]
  <2>3. w[n + 1] = Pushed(w[n], url, next, order)
    BY <1>4, <2>2
  <2> HIDE DEF some, url
  <2>4. url \in Endpoints
    BY <2>2 DEF url
  <2>5. CASE url \in Probed(order, next) /\ Verified(url)
    <3>1. w[n + 1] = Append(w[n], Standby(url))
      BY <2>3, <2>5 DEF Pushed
    <3>2. w[n + 1] = w[n] \o <<Standby(url)>> /\ <<Standby(url)>> \in Seq(Link)
      <4>1. Standby(url) \in Link /\ w[n] \in Seq(Link)
        BY <2>1, <2>4, StandbyIsLink
      <4>2. \A s \in Seq(Link), e \in Link : Append(s, e) = s \o <<e>> /\ <<e>> \in Seq(Link)
        OBVIOUS
      <4> QED BY <3>1, <4>1, <4>2
    <3>3. OursWhenHot(<<Standby(url)>>)
      BY <2>5 DEF OursWhenHot, Ours, Verified, Standby
    <3> QED BY <2>1, <3>2, <3>3, HotInBoth
  <2>6. CASE ~(url \in Probed(order, next) /\ Verified(url))
    BY <2>1, <2>3, <2>6 DEF Pushed
  <2> QED BY <2>5, <2>6
<1> HIDE DEF T
<1>7. \A n \in Nat : n \in T
  BY <1>5, <1>6, NumbersReached
<1>8. Good(w[last])
  BY <1>1, <1>7 DEF T
<1> QED BY <1>3, <1>8

LEMMA ChainStep == ChainInv /\ [ClientNext]_clientVars => ChainInv'
<1> SUFFICES ASSUME ChainInv, [ClientNext]_clientVars PROVE ChainInv'
  OBVIOUS
<1>1. CASE Connect
  <2>1. /\ client = Nowhere /\ client' = primary.url /\ genesis' = Chain[primary.url]
        /\ genesis = Nowhere \/ genesis = genesis'
        /\ UNCHANGED <<primary, standbys, cached>>
    BY <1>1 DEF Connect, OurChain
  <2>2. \A url : Ours(url) => Ours(url)'
    BY <2>1 DEF Ours
  <2>3. (primary.url = Home \/ Ours(primary.url))'
    BY <2>1 DEF ChainInv, Ours
  <2>4. OursWhenHot(standbys)'
    BY <2>1, <2>2 DEF OursWhenHot, ChainInv
  <2> QED BY <2>1, <2>3, <2>4 DEF ChainInv
<1>2. CASE Unregistered
  <2>1. UNCHANGED <<client, genesis>>
    BY <1>2 DEF Unregistered
  <2>2. \A url : Ours(url)' <=> Ours(url)
    BY <2>1 DEF Ours
  <2>3. OursWhenHot(standbys)' <=> OursWhenHot(standbys')
    BY <2>1, <2>2 DEF OursWhenHot
  <2>4. CASE FailedTooOften /\ Hot # {} /\ primary' = Promoted
    <3>1. CASE genesis = Nowhere /\ standbys' = AfterPromotion /\ cached' = cached
      BY <2>1, <2>2, <2>3, <2>4, <3>1, PromotionFacts DEF ChainInv
    <3>2. CASE genesis # Nowhere /\ \E order \in SetToSeqs(cached) :
                  /\ standbys' = Refreshed(AfterPromotion, order, Promoted.url)
                  /\ cached' = cached \ Dropped(order, Promoted.url)
      <4>1. PICK order \in SetToSeqs(cached) :
                  /\ standbys' = Refreshed(AfterPromotion, order, Promoted.url)
                  /\ cached' = cached \ Dropped(order, Promoted.url)
        BY <3>2
      <4>2. order \in Seq(Endpoints)
        <5>1. Cardinality(cached) \in Nat
          BY FS_CardinalityType DEF ChainInv
        <5>2. order \in [1 .. Cardinality(cached) -> cached]
          BY DEF SetToSeqs
        <5> QED BY <5>1, <5>2 DEF ChainInv
      <4>3. AfterPromotion \in Seq(Link) /\ OursWhenHot(AfterPromotion)
        BY <2>4, PromotionFacts
      <4>4. standbys' \in Seq(Link) /\ OursWhenHot(standbys')
        BY <3>2, <4>1, <4>2, <4>3, RefreshedFacts
      <4>5. IsFiniteSet(cached') /\ cached' \subseteq Endpoints
        BY <4>1, FS_Subset DEF ChainInv
      <4>6. primary' \in [url : Endpoints, failures : Nat] /\ Ours(primary'.url)
        BY <2>4, PromotionFacts
      <4> QED BY <2>1, <2>2, <2>3, <4>4, <4>5, <4>6 DEF ChainInv
    <3> QED BY <1>2, <2>4, <3>1, <3>2 DEF Unregistered
  <2>5. CASE /\ primary' = [primary EXCEPT !.failures =
                              IF FailedTooOften THEN FailureThreshold ELSE @ + 1]
             /\ UNCHANGED <<standbys, cached>>
    <3>1. primary' \in [url : Endpoints, failures : Nat] /\ primary'.url = primary.url
      BY <2>5, ClientAssumption DEF ChainInv
    <3> QED BY <2>1, <2>2, <2>3, <2>5, <3>1 DEF ChainInv
  <2> QED BY <1>2, <2>4, <2>5 DEF Unregistered
<1>3. CASE Learn
  <2>1. PICK url \in Endpoints : cached' = cached \cup {url}
    BY <1>3 DEF Learn
  <2>2. IsFiniteSet(cached') /\ cached' \subseteq Endpoints
    BY <2>1, FS_AddElement DEF ChainInv
  <2>3. UNCHANGED <<primary, standbys, client, genesis>>
    BY <1>3 DEF Learn
  <2> QED BY <2>2, <2>3 DEF ChainInv, OursWhenHot, Ours
<1>4. CASE Submit \/ Registered
  <2>1. /\ primary' = [primary EXCEPT !.failures = 0]
        /\ UNCHANGED <<standbys, client, genesis, cached>>
    BY <1>4 DEF Submit, Registered
  <2>2. primary' \in [url : Endpoints, failures : Nat] /\ primary'.url = primary.url
    BY <2>1 DEF ChainInv
  <2> QED BY <2>1, <2>2 DEF ChainInv, OursWhenHot, Ours
<1>5. CASE BeginHeartbeat \/ NetworkChanges \/ UNCHANGED clientVars
  BY <1>5 DEF BeginHeartbeat, NetworkChanges, clientVars, ChainInv, OursWhenHot, Ours
<1> QED BY <1>1, <1>2, <1>3, <1>4, <1>5 DEF ClientNext, Heartbeat

(* For any endpoints, thresholds and list sizes: the client stays on the    *)
(* chain it met first, and only endpoints of that chain or known from the   *)
(* start are promoted or wait to be, however the network flaps and whatever *)
(* peers gossip.                                                           *)
THEOREM OneChainAlways == ClientSpec => []OneChainOnly
<1>1. ChainInv => OneChainOnly
  <2> SUFFICES ASSUME ChainInv PROVE OneChainOnly
    OBVIOUS
  <2>1. \A i \in Hot : Ours(standbys[i].url)
    BY DEF Hot, ChainInv, OursWhenHot
  <2> QED BY <2>1 DEF ChainInv, Ours, OneChainOnly
<1> QED BY <1>1, ChainStart, ChainStep, PTL DEF ClientSpec
=============================================================================
