------------------------ MODULE NodeDirectoryProofs ------------------------
(***************************************************************************)
(* Proofs about NodeDirectory for any chain nodes, storage nodes, streams, *)
(* delays and limits: no sighting is younger than the silence of the       *)
(* storage node, less the age a heartbeat may have on arrival; and who     *)
(* keeps calling stays listed.                                             *)
(***************************************************************************)
EXTENDS NodeDirectory, TLAPS, FiniteSetTheorems

Ages == 0 .. Old
Entries == [since: Ages, seen: Ages]
Records == [Storers -> Entries \cup {Blank}]
Sightings == [who: Storers, reg: Ages]
Heartbeats == [who: Storers, age: 0 .. MaxDelay]
Notes == [from: ChainNodes, to: ChainNodes, kind: {"registered", "sync"},
          who: Storers, reg: Ages, sent: Nat]

Trails(s, age) == silence[s] <= age + MaxDelay
RecordTrails(r) ==
  \A s \in Storers: r[s] # Blank => Trails(s, r[s].since) /\ Trails(s, r[s].seen)

DirTypes ==
  /\ silence \in [Storers -> Ages]
  /\ directory \in [ChainNodes -> Records]
  /\ beats \subseteq Heartbeats
  /\ outbox \in [ChainNodes -> SUBSET Sightings]
  /\ gossip \subseteq Notes

(* Heartbeats are as old as the silence or older; every entry, command and  *)
(* notification comes from a heartbeat that was at most MaxDelay old.       *)
NothingYounger ==
  /\ \A b \in beats: silence[b.who] <= b.age
  /\ \A c \in ChainNodes: RecordTrails(directory[c])
  /\ \A c \in ChainNodes: \A x \in outbox[c]: Trails(x.who, x.reg)
  /\ \A m \in gossip: Trails(m.who, m.reg)

DirInv == DirTypes /\ NothingYounger

----------------------------------------------------------------------------
LEMMA AgeFacts ==
  /\ MaxDelay \in Nat /\ StaleAfter \in Nat /\ Old \in Nat
  /\ Old = StaleAfter + MaxDelay + 1 /\ 0 \in Ages
BY DirAssumption DEF Old, Ages

LEMMA GrownFact ==
  ASSUME NEW x \in Ages, NEW y \in Ages
  PROVE  /\ Grown(x) \in Ages
         /\ x <= y + MaxDelay => Grown(x) <= Grown(y) + MaxDelay
         /\ x <= y /\ y < Old => Grown(x) <= y + 1
BY AgeFacts DEF Grown, Ages

(* register_outcome adds nothing younger than what it is given.            *)
LEMMA RegisteredTrails ==
  ASSUME DirInv, NEW c \in ChainNodes, NEW s \in Storers, NEW reg \in Ages,
         Trails(s, reg), NEW r \in Registered(c, s, Entry(reg))
  PROVE  r \in Records /\ RecordTrails(r)
<1> DEFINE e == [since |-> reg, seen |-> reg]
<1>1. e \in Entries /\ e # Blank /\ e.since = reg /\ e.seen = reg
  BY DirAssumption DEF Entries, Ages
<1>2. directory[c] \in Records /\ RecordTrails(directory[c])
  BY DEF DirInv, DirTypes, NothingYounger
<1>3. CASE directory[c][s] # Blank
  <2> DEFINE old == directory[c][s]
             new == IF e.seen < old.seen THEN [old EXCEPT !.seen = e.seen] ELSE old
  <2>1. r = [directory[c] EXCEPT ![s] = new]
    BY <1>3 DEF Registered, Entry
  <2>2. old \in Entries
    BY <1>2, <1>3 DEF Records
  <2>3. /\ new \in Entries /\ new.since = old.since
        /\ new.seen = old.seen \/ new.seen = reg
    BY <1>1, <2>2 DEF Entries
  <2>4. Trails(s, new.since) /\ Trails(s, new.seen)
    <3>1. Trails(s, old.since) /\ Trails(s, old.seen)
      BY <1>2, <1>3 DEF RecordTrails
    <3> QED BY <3>1, <2>3
  <2>5. r \in Records /\ r[s] = new /\ \A t \in Storers: t # s => r[t] = directory[c][t]
    BY <1>2, <2>1, <2>3 DEF Records
  <2> QED BY <1>2, <2>4, <2>5 DEF RecordTrails
<1>4. CASE directory[c][s] = Blank /\ Cardinality(Known(c)) < MaxRegistry
  <2>1. r = [directory[c] EXCEPT ![s] = e]
    BY <1>4 DEF Registered, Entry
  <2>2. r \in Records /\ r[s] = e /\ \A t \in Storers: t # s => r[t] = directory[c][t]
    BY <1>1, <1>2, <2>1 DEF Records
  <2> QED BY <1>1, <1>2, <2>2 DEF RecordTrails
<1>5. CASE directory[c][s] = Blank /\ ~(Cardinality(Known(c)) < MaxRegistry)
  <2>1. PICK out \in Oldest(c): r = [directory[c] EXCEPT ![s] = e, ![out] = Blank]
    BY <1>5 DEF Registered, Entry
  <2>2. r \in Records /\ \A t \in Storers: r[t] \in {Blank, e, directory[c][t]}
                                           /\ (r[t] = e => t = s \/ r[t] = directory[c][t])
    BY <1>1, <1>2, <2>1 DEF Records
  <2> QED BY <1>1, <1>2, <2>2 DEF RecordTrails
<1> QED BY <1>3, <1>4, <1>5

----------------------------------------------------------------------------
LEMMA DirStart == DirInit => DirInv
<1> SUFFICES ASSUME DirInit PROVE DirInv
  OBVIOUS
<1>1. Old \in Ages
  BY AgeFacts DEF Ages
<1>2. DirTypes
  BY <1>1 DEF DirInit, DirTypes, Records
<1>3. NothingYounger
  BY DEF DirInit, NothingYounger, RecordTrails
<1> QED BY <1>2, <1>3 DEF DirInv

LEMMA BeatStep == ASSUME DirInv, NEW s \in Storers, Beat(s) PROVE DirInv'
<1>1. /\ beats' = beats \cup {[who |-> s, age |-> 0]}
      /\ silence' = [silence EXCEPT ![s] = 0]
      /\ UNCHANGED <<directory, outbox, gossip>>
  BY DEF Beat
<1>2. silence' \in [Storers -> Ages] /\ \A t \in Storers: silence'[t] <= silence[t]
  BY <1>1, AgeFacts DEF DirInv, DirTypes, Ages
<1>3. DirTypes'
  BY <1>1, <1>2, AgeFacts DEF DirInv, DirTypes, Heartbeats
<1>4. \A t \in Storers, x \in Ages: Trails(t, x) => Trails(t, x)'
  BY <1>2, AgeFacts DEF Trails, Ages, DirInv, DirTypes
<1>5. \A b \in beats': silence'[b.who] <= b.age
  BY <1>1, <1>2 DEF DirInv, DirTypes, NothingYounger, Heartbeats, Ages
<1>6. \A c \in ChainNodes: RecordTrails(directory[c])'
  BY <1>1, <1>4 DEF DirInv, DirTypes, NothingYounger, RecordTrails, Records, Entries
<1>7. \A c \in ChainNodes: \A x \in outbox'[c]: Trails(x.who, x.reg)'
  BY <1>1, <1>4 DEF DirInv, DirTypes, NothingYounger, Sightings
<1>8. \A m \in gossip': Trails(m.who, m.reg)'
  BY <1>1, <1>4 DEF DirInv, DirTypes, NothingYounger, Notes
<1> QED BY <1>3, <1>5, <1>6, <1>7, <1>8 DEF DirInv, NothingYounger

LEMMA RegisterStep == ASSUME DirInv, RegisterEndpoint PROVE DirInv'
<1> USE DEF DirInv, DirTypes, NothingYounger
<1>1. PICK b \in beats:
        /\ beats' = beats \ {b}
        /\ \/ UNCHANGED <<directory, outbox>>
           \/ /\ \E reg \in Registered(HomeOf[b.who], b.who, Entry(0)):
                   directory' = [directory EXCEPT ![HomeOf[b.who]] = reg]
              /\ \/ outbox' = [outbox EXCEPT ![HomeOf[b.who]] =
                                 @ \cup {[who |-> b.who, reg |-> 0]}]
                 \/ outbox' = outbox
  BY DEF RegisterEndpoint
<1>2. UNCHANGED <<gossip, silence>>
  BY DEF RegisterEndpoint
<1>3. b.who \in Storers /\ HomeOf[b.who] \in ChainNodes /\ 0 \in Ages
      /\ Trails(b.who, 0)
  BY DirAssumption, AgeFacts DEF Heartbeats, Trails, Ages
<1>4. CASE UNCHANGED <<directory, outbox>>
  BY <1>1, <1>2, <1>4 DEF RecordTrails, Trails
<1>5. CASE \E reg \in Registered(HomeOf[b.who], b.who, Entry(0)):
             directory' = [directory EXCEPT ![HomeOf[b.who]] = reg]
  <2>1. PICK reg \in Registered(HomeOf[b.who], b.who, Entry(0)):
             directory' = [directory EXCEPT ![HomeOf[b.who]] = reg]
    BY <1>5
  <2>2. reg \in Records /\ RecordTrails(reg)
    BY <1>3, RegisteredTrails
  <2>3. /\ directory' \in [ChainNodes -> Records]
        /\ \A c \in ChainNodes: RecordTrails(directory'[c])
    BY <2>1, <2>2, <1>3
  <2>4. \A c \in ChainNodes: RecordTrails(directory[c])'
    BY <2>3, <1>2 DEF RecordTrails, Trails
  <2>5. /\ outbox' \in [ChainNodes -> SUBSET Sightings]
        /\ \A c \in ChainNodes: \A x \in outbox'[c]: Trails(x.who, x.reg)
    BY <1>1, <1>3, <1>4 DEF Sightings
  <2> QED BY <1>1, <1>2, <2>3, <2>4, <2>5 DEF Trails
<1> QED BY <1>1, <1>4, <1>5

(* The copies of a sighting are as old as the sighting.                    *)
LEMMA CopiesTrail ==
  ASSUME NEW from \in ChainNodes, NEW peers \in SUBSET ChainNodes,
         NEW kind \in {"registered", "sync"}, NEW x, x.who \in Storers, x.reg \in Ages,
         Trails(x.who, x.reg)
  PROVE  /\ To(from, peers, kind, x) \subseteq Notes
         /\ \A m \in To(from, peers, kind, x): Trails(m.who, m.reg)
BY DEF To, Notes

LEMMA BroadcastStep == ASSUME DirInv, BroadcastNodeRegistered PROVE DirInv'
<1> USE DEF DirInv, DirTypes, NothingYounger
<1>1. PICK c \in ChainNodes: \E x \in outbox[c]:
        /\ outbox' = [outbox EXCEPT ![c] = @ \ {x}]
        /\ gossip' = gossip \cup To(c, Linked(c), "registered", x)
  BY DEF BroadcastNodeRegistered
<1>2. PICK x \in outbox[c]:
        /\ outbox' = [outbox EXCEPT ![c] = @ \ {x}]
        /\ gossip' = gossip \cup To(c, Linked(c), "registered", x)
  BY <1>1
<1>3. UNCHANGED <<directory, beats, silence>>
  BY DEF BroadcastNodeRegistered
<1>4. x.who \in Storers /\ x.reg \in Ages /\ Trails(x.who, x.reg)
  BY DEF Sightings
<1>5. Linked(c) \subseteq ChainNodes
  BY DEF Linked
<1>6. /\ To(c, Linked(c), "registered", x) \subseteq Notes
      /\ \A m \in To(c, Linked(c), "registered", x): Trails(m.who, m.reg)
  BY <1>4, <1>5, CopiesTrail
<1>7. /\ outbox' \in [ChainNodes -> SUBSET Sightings]
      /\ \A d \in ChainNodes: outbox'[d] \subseteq outbox[d]
  BY <1>2
<1>8. \A d \in ChainNodes: RecordTrails(directory[d])'
  BY <1>3 DEF RecordTrails, Trails
<1> QED BY <1>2, <1>3, <1>6, <1>7, <1>8 DEF Trails

LEMMA NotificationStep == ASSUME DirInv, HandleNotification PROVE DirInv'
<1> USE DEF DirInv, DirTypes, NothingYounger
<1>1. PICK m \in gossip:
        \/ gossip' = gossip \ {m} /\ UNCHANGED directory
        \/ /\ \E reg \in Registered(m.to, m.who, Entry(m.reg)):
                directory' = [directory EXCEPT ![m.to] = reg]
           /\ \/ gossip' = (gossip \ {m})
                    \cup To(m.to, Linked(m.to) \ {m.from}, "registered", m)
              \/ gossip' = (gossip \ {m}) \cup {}
  BY DEF HandleNotification, EntryFrom
<1>2. UNCHANGED <<beats, outbox, silence>>
  BY DEF HandleNotification
<1>3. m.to \in ChainNodes /\ m.who \in Storers /\ m.reg \in Ages /\ Trails(m.who, m.reg)
  BY DEF Notes
<1>4. Linked(m.to) \ {m.from} \in SUBSET ChainNodes
  BY DEF Linked
<1>5. /\ To(m.to, Linked(m.to) \ {m.from}, "registered", m) \subseteq Notes
      /\ \A n \in To(m.to, Linked(m.to) \ {m.from}, "registered", m): Trails(n.who, n.reg)
  BY <1>3, <1>4, CopiesTrail
<1>6. gossip' \subseteq Notes /\ \A n \in gossip': Trails(n.who, n.reg)
  BY <1>1, <1>5
<1>7. /\ directory' \in [ChainNodes -> Records]
      /\ \A c \in ChainNodes: RecordTrails(directory'[c])
  <2>1. CASE UNCHANGED directory
    BY <2>1
  <2>2. ASSUME NEW reg \in Registered(m.to, m.who, Entry(m.reg)),
               directory' = [directory EXCEPT ![m.to] = reg]
        PROVE  <1>7!1 /\ <1>7!2
    <3>1. reg \in Records /\ RecordTrails(reg)
      BY <1>3, RegisteredTrails
    <3> QED BY <1>3, <2>2, <3>1
  <2> QED BY <1>1, <2>1, <2>2
<1>8. \A c \in ChainNodes: RecordTrails(directory[c])'
  BY <1>2, <1>7 DEF RecordTrails, Trails
<1> QED BY <1>2, <1>6, <1>7, <1>8 DEF Trails

LEMMA OpenedStep == ASSUME DirInv, StreamOpened PROVE DirInv'
<1> USE DEF DirInv, DirTypes, NothingYounger
<1>1. PICK c \in ChainNodes, d \in ChainNodes:
        gossip' = gossip \cup SyncTo(c, d) \cup SyncTo(d, c)
  BY DEF StreamOpened
<1>2. UNCHANGED <<directory, beats, outbox, silence>>
  BY DEF StreamOpened
<1>3. ASSUME NEW f \in ChainNodes, NEW t \in ChainNodes
      PROVE  SyncTo(f, t) \subseteq Notes /\ \A m \in SyncTo(f, t): Trails(m.who, m.reg)
  <2>1. ASSUME NEW s \in Known(f)
        PROVE  LET x == [who |-> s, reg |-> directory[f][s].since]
               IN  /\ To(f, {t}, "sync", x) \subseteq Notes
                   /\ \A m \in To(f, {t}, "sync", x): Trails(m.who, m.reg)
    <3> DEFINE x == [who |-> s, reg |-> directory[f][s].since]
    <3>1. s \in Storers /\ directory[f][s] \in Entries
          /\ Trails(s, directory[f][s].since)
      BY DEF Known, Records, RecordTrails
    <3>2. x.who \in Storers /\ x.reg \in Ages /\ Trails(x.who, x.reg)
      BY <3>1 DEF Entries
    <3>3. {t} \in SUBSET ChainNodes
      OBVIOUS
    <3> HIDE DEF x
    <3>4. /\ To(f, {t}, "sync", x) \subseteq Notes
          /\ \A m \in To(f, {t}, "sync", x): Trails(m.who, m.reg)
      BY <3>2, <3>3, CopiesTrail
    <3> QED BY <3>4 DEF x
  <2> QED BY <2>1 DEF SyncTo
<1>4. gossip' \subseteq Notes /\ \A m \in gossip': Trails(m.who, m.reg)
  BY <1>1, <1>3
<1>5. \A e \in ChainNodes: RecordTrails(directory[e])'
  BY <1>2 DEF RecordTrails, Trails
<1> QED BY <1>2, <1>4, <1>5 DEF Trails

LEMMA AgedNote ==
  ASSUME NEW m \in Notes
  PROVE  [m EXCEPT !.reg = Grown(@), !.sent = @ + 1] =
           [from |-> m.from, to |-> m.to, kind |-> m.kind, who |-> m.who,
            reg |-> Grown(m.reg), sent |-> m.sent + 1]
<1> DEFINE k == [m EXCEPT !.reg = Grown(@)]
<1>1. k = [from |-> m.from, to |-> m.to, kind |-> m.kind, who |-> m.who,
           reg |-> Grown(m.reg), sent |-> m.sent]
  BY DEF Notes
<1>2. [m EXCEPT !.reg = Grown(@), !.sent = @ + 1] = [k EXCEPT !.sent = m.sent + 1]
  OBVIOUS
<1> HIDE DEF k
<1>3. [k EXCEPT !.sent = m.sent + 1] =
        [from |-> m.from, to |-> m.to, kind |-> m.kind, who |-> m.who,
         reg |-> Grown(m.reg), sent |-> m.sent + 1]
  BY <1>1
<1> QED BY <1>2, <1>3

LEMMA TickStep == ASSUME DirInv, DirTick PROVE DirInv'
<1> USE DEF DirInv, DirTypes, NothingYounger
<1>1. /\ \A b \in beats: b.age < MaxDelay
      /\ outbox = [c \in ChainNodes |-> {}] /\ outbox' = outbox
      /\ directory' = [c \in ChainNodes |-> [s \in Storers |-> Aged(directory[c][s])]]
      /\ beats' = {[b EXCEPT !.age = @ + 1] : b \in beats}
      /\ gossip' = {[m EXCEPT !.reg = Grown(@), !.sent = @ + 1] : m \in gossip}
      /\ silence' = [s \in Storers |-> Grown(silence[s])]
  BY DEF DirTick
<1>2. silence' \in [Storers -> Ages]
  BY <1>1, GrownFact
<1>3. ASSUME NEW s \in Storers, NEW x \in Ages, Trails(s, x)
      PROVE  silence'[s] <= Grown(x) + MaxDelay /\ Grown(x) \in Ages
  BY <1>1, <1>3, GrownFact DEF Trails
<1>4. /\ directory' \in [ChainNodes -> Records]
      /\ \A c \in ChainNodes: RecordTrails(directory[c])'
  <2> SUFFICES ASSUME NEW c \in ChainNodes
               PROVE  directory'[c] \in Records /\ RecordTrails(directory[c])'
    BY <1>1
  <2>1. directory'[c] = [s \in Storers |-> Aged(directory[c][s])]
    BY <1>1
  <2>2. ASSUME NEW s \in Storers
        PROVE  /\ directory'[c][s] \in Entries \cup {Blank}
               /\ directory'[c][s] # Blank =>
                    Trails(s, directory[c][s].since)' /\ Trails(s, directory[c][s].seen)'
    <3>1. CASE directory[c][s] = Blank
      BY <2>1, <3>1 DEF Aged
    <3>2. CASE directory[c][s] # Blank
      <4> DEFINE e == directory[c][s]
      <4>1. e \in Entries /\ Trails(s, e.since) /\ Trails(s, e.seen)
        BY <3>2 DEF Records, RecordTrails
      <4>2. directory'[c][s] = [since |-> Grown(e.since), seen |-> Grown(e.seen)]
        BY <2>1, <3>2 DEF Aged
      <4>3. e.since \in Ages /\ e.seen \in Ages
        BY <4>1 DEF Entries
      <4>4. Grown(e.since) \in Ages /\ Grown(e.seen) \in Ages
        BY <4>3, GrownFact
      <4>5. /\ silence'[s] <= Grown(e.since) + MaxDelay
              /\ silence'[s] <= Grown(e.seen) + MaxDelay
        BY <1>3, <4>1, <4>3
      <4>6. directory'[c][s] \in Entries
        BY <4>2, <4>4 DEF Entries
      <4>7. directory'[c][s].since = Grown(e.since) /\ directory'[c][s].seen = Grown(e.seen)
        BY <4>2
      <4> QED BY <4>5, <4>6, <4>7 DEF Trails
    <3> QED BY <3>1, <3>2
  <2> QED BY <2>1, <2>2 DEF Records, RecordTrails
<1>5. beats' \subseteq Heartbeats /\ \A b \in beats': silence'[b.who] <= b.age
  <2> SUFFICES ASSUME NEW b \in beats
               PROVE  LET n == [b EXCEPT !.age = @ + 1]
                      IN  n \in Heartbeats /\ silence'[n.who] <= n.age
    BY <1>1
  <2>1. b \in Heartbeats /\ b.age < MaxDelay /\ silence[b.who] <= b.age
    BY <1>1
  <2>2. b.who \in Storers /\ b.age \in 0 .. MaxDelay
    BY <2>1 DEF Heartbeats
  <2>3. Grown(silence[b.who]) <= b.age + 1
    BY <2>1, <2>2, AgeFacts, GrownFact DEF Ages
  <2> DEFINE n == [b EXCEPT !.age = @ + 1]
  <2>4. n = [who |-> b.who, age |-> b.age + 1]
    BY <2>1 DEF Heartbeats
  <2>5. b.age + 1 \in 0 .. MaxDelay
    BY <2>1, <2>2, AgeFacts
  <2>6. n \in Heartbeats /\ n.who = b.who /\ n.age = b.age + 1
    BY <2>2, <2>4, <2>5 DEF Heartbeats
  <2> QED BY <1>1, <2>2, <2>3, <2>6
<1>6. gossip' \subseteq Notes /\ \A m \in gossip': Trails(m.who, m.reg)'
  <2> SUFFICES ASSUME NEW m \in gossip
               PROVE  LET n == [m EXCEPT !.reg = Grown(@), !.sent = @ + 1]
                      IN  n \in Notes /\ Trails(n.who, n.reg)'
    BY <1>1 DEF Trails
  <2>1. m \in Notes /\ m.who \in Storers /\ m.reg \in Ages /\ Trails(m.who, m.reg)
    BY DEF Notes
  <2>2. Grown(m.reg) \in Ages /\ silence'[m.who] <= Grown(m.reg) + MaxDelay
    BY <1>3, <2>1
  <2> DEFINE n == [m EXCEPT !.reg = Grown(@), !.sent = @ + 1]
  <2>3. n = [from |-> m.from, to |-> m.to, kind |-> m.kind, who |-> m.who,
             reg |-> Grown(m.reg), sent |-> m.sent + 1]
    BY <2>1, AgedNote
  <2>4. n \in Notes /\ n.who = m.who /\ n.reg = Grown(m.reg)
    BY <2>1, <2>2, <2>3 DEF Notes
  <2> QED BY <2>2, <2>4 DEF Trails
<1> QED BY <1>1, <1>2, <1>4, <1>5, <1>6

LEMMA DirStep == DirInv /\ [DirNext]_dirVars => DirInv'
<1> SUFFICES ASSUME DirInv, [DirNext]_dirVars PROVE DirInv'
  OBVIOUS
<1>1. ASSUME NEW s \in Storers, Beat(s) PROVE DirInv'
  BY <1>1, BeatStep
<1>2. CASE RegisterEndpoint
  BY <1>2, RegisterStep
<1>3. CASE GossipStep
  BY <1>3, BroadcastStep, NotificationStep DEF GossipStep
<1>4. CASE StreamOpened
  BY <1>4, OpenedStep
<1>5. CASE DirTick
  BY <1>5, TickStep
<1>6. CASE LoseBeat \/ StreamClosed
  <2>1. /\ beats' \subseteq beats /\ gossip' \subseteq gossip
        /\ UNCHANGED <<directory, outbox, silence>>
    BY <1>6 DEF LoseBeat, StreamClosed
  <2> QED BY <2>1 DEF DirInv, DirTypes, NothingYounger, RecordTrails, Trails
<1>7. CASE StorerStops \/ StorerStarts \/ UNCHANGED dirVars
  <2>1. UNCHANGED <<directory, beats, outbox, gossip, silence>>
    BY <1>7 DEF StorerStops, StorerStarts, dirVars
  <2> QED BY <2>1 DEF DirInv, DirTypes, NothingYounger, RecordTrails, Trails
<1> QED BY <1>1, <1>2, <1>3, <1>4, <1>5, <1>6, <1>7 DEF DirNext

(* A storage node silent for longer than StaleAfter and the delay of a call *)
(* is offered by no chain node, whatever was relayed, evicted, registered   *)
(* again or handed to new peers meanwhile.                                  *)
THEOREM NoGhostsHolds == DirSpec => []NoGhosts
<1>1. DirInv => NoGhosts
  BY AgeFacts DEF DirInv, DirTypes, NothingYounger, NoGhosts, IsLive, RecordTrails,
                  Trails, Records, Entries, Ages
<1> QED BY <1>1, DirStart, DirStep, PTL DEF DirSpec

-----------------------------------------------------------------------------
(* Enough room and enough time: the registry holds every storage node, a    *)
(* call in flight is not refused for its age, and an entry outlives an      *)
(* interval, a refusal and a delay.  With a heartbeat every 30 s, 30 s      *)
(* between two registrations and 180 s until stale, calls may take 120 s.   *)
KeepsPace ==
  /\ IsFiniteSet(Storers) /\ Cardinality(Storers) <= MaxRegistry
  /\ MaxDelay <= MaxSkew
  /\ Interval + MinInterval + MaxDelay <= StaleAfter

Reach == MinInterval + Interval

(* How long ago s was heard, started or lost a call, whichever is latest.   *)
Waited(s) ==
  IF recent[HomeOf[s]][s] <= calm[s] THEN recent[HomeOf[s]][s] ELSE calm[s]

(* The next heartbeat is due in time, or one is on its way that was sent    *)
(* late enough not to be too soon.                                          *)
InTime(s) ==
  \/ Waited(s) + due[s] <= Reach
  \/ \E b \in beats:
       b.who = s /\ MinInterval + b.age <= Waited(s) /\ Waited(s) <= Reach + b.age

(* Who was accepted of late has an entry at least as fresh.                 *)
HeardIsListed == \A c \in ChainNodes, s \in Storers:
  recent[c][s] < Old =>
    directory[c][s] # Blank /\ directory[c][s].seen <= recent[c][s]

ListedInv ==
  /\ DirTypes
  /\ recent \in [ChainNodes -> [Storers -> Ages]]
  /\ due \in [Storers -> 0 .. Interval]
  /\ calm \in [Storers -> Ages]
  /\ running \subseteq Storers
  /\ HeardIsListed
  /\ \A s \in running: Allowed(HomeOf[s], s) => InTime(s)

LEMMA PaceFacts ==
  /\ Interval \in Nat /\ MinInterval \in Nat /\ MaxDelay \in Nat /\ StaleAfter \in Nat
  /\ Reach = MinInterval + Interval /\ Reach \in Nat
  /\ Old = StaleAfter + MaxDelay + 1 /\ Old \in Nat /\ Ages = 0 .. Old
  /\ \A s \in Storers: HomeOf[s] \in ChainNodes
BY DirAssumption DEF Old, Ages, Reach

LEMMA WaitedFacts ==
  ASSUME ListedInv, NEW s \in Storers
  PROVE  /\ Waited(s) \in Ages /\ Waited(s) <= calm[s] /\ Waited(s) <= recent[HomeOf[s]][s]
         /\ recent[HomeOf[s]][s] \in Ages /\ calm[s] \in Ages /\ due[s] \in 0 .. Interval
<1>1. recent[HomeOf[s]][s] \in Ages /\ calm[s] \in Ages /\ due[s] \in 0 .. Interval
  BY PaceFacts DEF ListedInv
<1> QED BY <1>1, PaceFacts DEF Waited

(* With room for all, nobody is evicted, and entries get fresher only.      *)
LEMMA RegisteredKeeps ==
  ASSUME KeepsPace, DirTypes, NEW c \in ChainNodes, NEW s \in Storers, NEW reg \in Ages,
         NEW r \in Registered(c, s, Entry(reg))
  PROVE  /\ r \in Records /\ r[s] # Blank /\ r[s].seen <= reg
         /\ \A t \in Storers: directory[c][t] # Blank =>
              r[t] # Blank /\ r[t].seen <= directory[c][t].seen
<1> DEFINE e == [since |-> reg, seen |-> reg]
<1>1. e \in Entries /\ e # Blank /\ e.seen = reg
  BY DirAssumption DEF Entries, Ages
<1>2. directory[c] \in Records /\ \A t \in Storers: directory[c][t] # Blank =>
        directory[c][t] \in Entries /\ directory[c][t].seen \in Nat
  BY AgeFacts DEF DirTypes, Records, Entries, Ages
<1>3. CASE directory[c][s] # Blank
  <2> DEFINE old == directory[c][s]
             new == IF e.seen < old.seen THEN [old EXCEPT !.seen = e.seen] ELSE old
  <2>1. r = [directory[c] EXCEPT ![s] = new]
    BY <1>3 DEF Registered, Entry
  <2>2. old \in Entries /\ old.seen \in Nat
    BY <1>2, <1>3
  <2>3. new \in Entries /\ new # Blank
    BY <1>1, <2>2, DirAssumption DEF Entries, Ages
  <2>4. new.seen <= reg /\ new.seen <= old.seen
    <3>1. CASE e.seen < old.seen
      BY <1>1, <2>2, <3>1, AgeFacts DEF Entries, Ages
    <3>2. CASE ~(e.seen < old.seen)
      BY <1>1, <2>2, <3>2, AgeFacts DEF Ages
    <3> QED BY <3>1, <3>2
  <2> HIDE DEF new
  <2>5. r \in Records /\ r[s] = new /\ \A t \in Storers: t # s => r[t] = directory[c][t]
    BY <1>2, <2>1, <2>3 DEF Records
  <2> QED BY <1>2, <2>3, <2>4, <2>5
<1>4. CASE directory[c][s] = Blank
  <2>1. Cardinality(Known(c)) < MaxRegistry
    <3>1. Known(c) \in SUBSET (Storers \ {s})
      BY <1>4 DEF Known
    <3>2. /\ IsFiniteSet(Storers \ {s})
          /\ Cardinality(Storers \ {s}) = Cardinality(Storers) - 1
      BY FS_RemoveElement DEF KeepsPace
    <3>3. Cardinality(Known(c)) <= Cardinality(Storers \ {s})
      BY <3>1, <3>2, FS_Subset
    <3>4. Cardinality(Storers) \in Nat /\ Cardinality(Known(c)) \in Nat /\ MaxRegistry \in Nat
      <4>1. IsFiniteSet(Known(c))
        BY <3>1, <3>2, FS_Subset
      <4> QED BY <4>1, FS_CardinalityType, DirAssumption DEF KeepsPace
    <3> QED BY <3>2, <3>3, <3>4 DEF KeepsPace
  <2>2. r = [directory[c] EXCEPT ![s] = e]
    BY <1>4, <2>1 DEF Registered, Entry
  <2> HIDE DEF e
  <2>3. r \in Records /\ r[s] = e /\ \A t \in Storers: t # s => r[t] = directory[c][t]
    BY <1>1, <1>2, <2>2 DEF Records
  <2>4. reg <= reg
    BY PaceFacts
  <2> QED BY <1>1, <1>2, <1>4, <2>3, <2>4
<1> QED BY <1>3, <1>4

LEMMA ListedStart == DirInit => ListedInv
<1> SUFFICES ASSUME DirInit PROVE ListedInv
  OBVIOUS
<1>1. DirTypes
  BY DirStart DEF DirInv
<1>2. /\ recent = [c \in ChainNodes |-> [s \in Storers |-> Old]]
      /\ due = [s \in Storers |-> 0] /\ calm = [s \in Storers |-> 0] /\ running = Storers
  BY DEF DirInit
<1>3. \A c \in ChainNodes, s \in Storers: recent[c][s] = Old
  BY <1>2
<1>4. HeardIsListed
  BY <1>3, PaceFacts DEF HeardIsListed
<1>5. \A s \in Storers: InTime(s)
  <2> SUFFICES ASSUME NEW s \in Storers PROVE Waited(s) + due[s] <= Reach
    BY DEF InTime
  <2>1. recent[HomeOf[s]][s] = Old /\ calm[s] = 0 /\ due[s] = 0
    BY <1>2, <1>3, PaceFacts
  <2> QED BY <2>1, PaceFacts DEF Waited
<1> QED BY <1>1, <1>2, <1>4, <1>5, PaceFacts DEF ListedInv

(* What changes of the directory keeps every entry, or makes it fresher.    *)
LEMMA FresherOnly ==
  ASSUME HeardIsListed, UNCHANGED recent,
         \A c \in ChainNodes, t \in Storers: directory[c][t] # Blank =>
           directory'[c][t] # Blank /\ directory'[c][t].seen <= directory[c][t].seen,
         directory \in [ChainNodes -> Records], directory' \in [ChainNodes -> Records],
         recent \in [ChainNodes -> [Storers -> Ages]]
  PROVE  HeardIsListed'
<1> SUFFICES ASSUME NEW c \in ChainNodes, NEW s \in Storers, recent[c][s] < Old
             PROVE  directory'[c][s] # Blank /\ directory'[c][s].seen <= recent[c][s]
  BY DEF HeardIsListed
<1>1. directory[c][s] # Blank /\ directory[c][s].seen <= recent[c][s]
  BY DEF HeardIsListed
<1>2. directory'[c][s] # Blank /\ directory'[c][s].seen <= directory[c][s].seen
  BY <1>1
<1>3. directory[c][s] \in Entries /\ directory'[c][s] \in Entries /\ recent[c][s] \in Ages
  BY <1>1, <1>2 DEF Records
<1> QED BY <1>1, <1>2, <1>3, PaceFacts DEF Entries

LEMMA ListedBeat ==
  ASSUME ListedInv, DirTypes', NEW s \in Storers, Beat(s)
  PROVE  ListedInv'
<1>1. /\ due[s] = 0 /\ due' = [due EXCEPT ![s] = Interval]
      /\ beats' = beats \cup {[who |-> s, age |-> 0]}
      /\ UNCHANGED <<directory, recent, running, calm>>
  BY DEF Beat
<1>2. due' \in [Storers -> 0 .. Interval]
  BY <1>1, PaceFacts DEF ListedInv
<1>3. HeardIsListed'
  BY <1>1 DEF ListedInv, HeardIsListed
<1>4. ASSUME NEW t \in running, Allowed(HomeOf[t], t) PROVE InTime(t)'
  <2>1. t \in Storers /\ InTime(t) /\ Waited(t)' = Waited(t)
    BY <1>1, <1>4 DEF ListedInv, Waited
  <2>2. CASE \E b \in beats:
               b.who = t /\ MinInterval + b.age <= Waited(t) /\ Waited(t) <= Reach + b.age
    BY <1>1, <2>1, <2>2 DEF InTime
  <2>3. CASE t # s /\ Waited(t) + due[t] <= Reach
    BY <1>1, <2>1, <2>3 DEF InTime, ListedInv
  <2>4. CASE t = s /\ Waited(t) + due[t] <= Reach
    <3>1. Waited(s) \in Nat /\ Waited(s) <= Reach /\ due'[s] = Interval
      BY <1>1, <2>1, <2>4, WaitedFacts, PaceFacts DEF ListedInv
    <3>2. CASE Waited(s) <= MinInterval
      BY <2>1, <2>4, <3>1, <3>2, PaceFacts DEF InTime
    <3>3. CASE ~(Waited(s) <= MinInterval)
      <4> DEFINE b == [who |-> s, age |-> 0]
      <4>1. b \in beats' /\ b.who = s /\ b.age = 0
        BY <1>1
      <4>2. MinInterval + 0 <= Waited(s) /\ Waited(s) <= Reach + 0
        BY <3>1, <3>3, PaceFacts
      <4> QED BY <2>1, <2>4, <4>1, <4>2 DEF InTime
    <3> QED BY <3>2, <3>3
  <2> QED BY <2>1, <2>2, <2>3, <2>4 DEF InTime
<1> QED BY <1>1, <1>2, <1>3, <1>4 DEF ListedInv, Allowed

LEMMA ListedLost ==
  ASSUME ListedInv, DirTypes', LoseBeat
  PROVE  ListedInv'
<1>1. PICK b \in beats: beats' = beats \ {b} /\ calm' = [calm EXCEPT ![b.who] = 0]
  BY DEF LoseBeat
<1>2. UNCHANGED <<directory, recent, running, due>>
  BY DEF LoseBeat
<1>3. calm' \in [Storers -> Ages]
  <2>1. 0 \in Ages /\ calm \in [Storers -> Ages]
    BY PaceFacts DEF ListedInv
  <2> QED BY <1>1, <2>1
<1>4. HeardIsListed'
  BY <1>2 DEF ListedInv, HeardIsListed
<1>5. ASSUME NEW t \in running, Allowed(HomeOf[t], t) PROVE InTime(t)'
  <2>1. t \in Storers /\ InTime(t) /\ b.who \in Storers
    BY <1>5 DEF ListedInv, DirTypes, Heartbeats
  <2>2. CASE t = b.who
    <3>1. calm'[t] = 0 /\ recent'[HomeOf[t]][t] \in Ages /\ due'[t] \in 0 .. Interval
      BY <1>1, <1>2, <2>1, <2>2, WaitedFacts DEF ListedInv
    <3>2. Waited(t)' = 0
      BY <3>1, PaceFacts DEF Waited
    <3> QED BY <3>1, <3>2, PaceFacts DEF InTime
  <2>3. CASE t # b.who
    <3>1. Waited(t)' = Waited(t) /\ due'[t] = due[t]
      BY <1>1, <1>2, <2>1, <2>3 DEF Waited, ListedInv
    <3> QED BY <1>1, <2>1, <2>3, <3>1 DEF InTime
  <2> QED BY <2>2, <2>3
<1> QED BY <1>2, <1>3, <1>4, <1>5 DEF ListedInv, Allowed

(* A call that is too soon was not the one that counts; one that is not     *)
(* starts the wait anew.                                                    *)
LEMMA ListedRegister ==
  ASSUME KeepsPace, ListedInv, DirTypes', RegisterEndpoint
  PROVE  ListedInv'
<1>1. PICK b \in beats:
        /\ beats' = beats \ {b}
        /\ \/ /\ b.age > MaxSkew \/ ~Allowed(HomeOf[b.who], b.who) \/ TooSoon(HomeOf[b.who], b.who)
              /\ UNCHANGED <<directory, recent>>
           \/ /\ recent' = [recent EXCEPT ![HomeOf[b.who]][b.who] = 0]
              /\ \E reg \in Registered(HomeOf[b.who], b.who, Entry(0)):
                   directory' = [directory EXCEPT ![HomeOf[b.who]] = reg]
  BY DEF RegisterEndpoint
<1>2. UNCHANGED <<running, due, calm>>
  BY DEF RegisterEndpoint
<1>3. b.who \in Storers /\ HomeOf[b.who] \in ChainNodes /\ b.age \in 0 .. MaxDelay
  BY PaceFacts DEF ListedInv, DirTypes, Heartbeats
<1>4. CASE /\ b.age > MaxSkew \/ ~Allowed(HomeOf[b.who], b.who) \/ TooSoon(HomeOf[b.who], b.who)
           /\ UNCHANGED <<directory, recent>>
  <2>1. HeardIsListed'
    BY <1>4 DEF ListedInv, HeardIsListed
  <2>2. ASSUME NEW t \in running, Allowed(HomeOf[t], t) PROVE InTime(t)'
    <3>1. t \in Storers /\ InTime(t) /\ Waited(t)' = Waited(t) /\ due'[t] = due[t]
      BY <1>2, <1>4, <2>2 DEF ListedInv, Waited
    <3>2. ASSUME NEW a \in beats, a.who = t, MinInterval + a.age <= Waited(t) PROVE a # b
      <4> SUFFICES ASSUME a = b PROVE FALSE
        OBVIOUS
      <4>1. ~(b.age > MaxSkew)
        BY <1>3, PaceFacts, DirAssumption DEF KeepsPace
      <4>2. MinInterval <= recent[HomeOf[t]][t] /\ recent[HomeOf[t]][t] \in Nat
        BY <1>3, <3>1, <3>2, WaitedFacts, PaceFacts
      <4>3. ~TooSoon(HomeOf[t], t)
        BY <4>2, PaceFacts DEF TooSoon
      <4> QED BY <1>4, <2>2, <3>2, <4>1, <4>3
    <3> QED BY <1>1, <3>1, <3>2 DEF InTime
  <2> QED BY <1>2, <1>4, <2>1, <2>2 DEF ListedInv, Allowed
<1>5. ASSUME NEW r \in Registered(HomeOf[b.who], b.who, Entry(0)),
             directory' = [directory EXCEPT ![HomeOf[b.who]] = r],
             recent' = [recent EXCEPT ![HomeOf[b.who]][b.who] = 0]
      PROVE  ListedInv'
  <2> DEFINE c == HomeOf[b.who]
             s == b.who
  <2>1. 0 \in Ages /\ directory \in [ChainNodes -> Records]
        /\ recent \in [ChainNodes -> [Storers -> Ages]]
    BY PaceFacts DEF ListedInv, DirTypes
  <2>2. /\ r \in Records /\ r[s] # Blank /\ r[s].seen <= 0
        /\ \A t \in Storers: directory[c][t] # Blank =>
             r[t] # Blank /\ r[t].seen <= directory[c][t].seen
    BY <1>3, <2>1, RegisteredKeeps DEF ListedInv
  <2> HIDE DEF c, s
  <2>3. c \in ChainNodes /\ s \in Storers /\ directory' = [directory EXCEPT ![c] = r]
        /\ recent' = [recent EXCEPT ![c][s] = 0]
    BY <1>3, <1>5 DEF c, s
  <2>4. /\ recent' \in [ChainNodes -> [Storers -> Ages]] /\ recent'[c][s] = 0
        /\ \A d \in ChainNodes, t \in Storers: <<d, t>> # <<c, s>> => recent'[d][t] = recent[d][t]
    BY <2>1, <2>3
  <2>5. HeardIsListed'
    <3> SUFFICES ASSUME NEW d \in ChainNodes, NEW t \in Storers, recent'[d][t] < Old
                 PROVE  directory'[d][t] # Blank /\ directory'[d][t].seen <= recent'[d][t]
      BY DEF HeardIsListed
    <3>1. CASE d = c /\ t = s
      BY <2>1, <2>2, <2>3, <2>4, <3>1
    <3>2. CASE d # c
      BY <2>1, <2>3, <2>4, <3>2 DEF ListedInv, HeardIsListed
    <3>3. CASE d = c /\ t # s
      <4>1. directory[c][t] # Blank /\ directory[c][t].seen <= recent[c][t]
            /\ recent'[c][t] = recent[c][t]
        BY <2>3, <2>4, <3>3 DEF ListedInv, HeardIsListed
      <4>2. directory'[c] = r /\ r[t] # Blank /\ r[t].seen <= directory[c][t].seen
        BY <2>1, <2>2, <2>3, <4>1
      <4>3. /\ directory[c][t] \in Entries /\ r[t] \in Entries /\ recent[c][t] \in Ages
        BY <2>1, <2>2, <2>3, <4>1, <4>2 DEF Records
      <4>4. directory[c][t].seen \in Nat /\ r[t].seen \in Nat /\ recent[c][t] \in Nat
        BY <4>3, PaceFacts DEF Entries
      <4> QED BY <3>3, <4>1, <4>2, <4>4
    <3> QED BY <3>1, <3>2, <3>3
  <2>6. ASSUME NEW t \in running, Allowed(HomeOf[t], t) PROVE InTime(t)'
    <3>1. t \in Storers /\ InTime(t) /\ due'[t] = due[t] /\ due[t] \in 0 .. Interval
          /\ calm'[t] = calm[t] /\ calm[t] \in Ages
      BY <1>2, <2>6 DEF ListedInv
    <3>2. CASE t = s
      <4>1. recent'[HomeOf[t]][t] = 0
        BY <2>4, <3>2 DEF c, s
      <4>2. Waited(t)' = 0
        BY <3>1, <4>1, PaceFacts DEF Waited
      <4> QED BY <3>1, <4>2, PaceFacts DEF InTime
    <3>3. CASE t # s
      <4>1. Waited(t)' = Waited(t)
        BY <2>4, <3>1, <3>3, PaceFacts DEF Waited
      <4> QED BY <1>1, <3>1, <3>3, <4>1 DEF InTime, s
    <3> QED BY <3>2, <3>3
  <2> QED BY <1>2, <2>4, <2>5, <2>6 DEF ListedInv, Allowed
<1> QED BY <1>1, <1>4, <1>5

LEMMA ListedNotified ==
  ASSUME KeepsPace, ListedInv, DirTypes', HandleNotification
  PROVE  ListedInv'
<1>1. PICK m \in gossip:
        \/ UNCHANGED directory
        \/ \E reg \in Registered(m.to, m.who, Entry(m.reg)):
             directory' = [directory EXCEPT ![m.to] = reg]
  BY DEF HandleNotification, EntryFrom
<1>2. UNCHANGED <<recent, beats, running, due, calm>>
  BY DEF HandleNotification
<1>3. m.to \in ChainNodes /\ m.who \in Storers /\ m.reg \in Ages
  BY DEF ListedInv, DirTypes, Notes
<1>4. /\ directory \in [ChainNodes -> Records] /\ directory' \in [ChainNodes -> Records]
      /\ recent \in [ChainNodes -> [Storers -> Ages]]
  BY DEF ListedInv, DirTypes
<1>5. \A c \in ChainNodes, t \in Storers: directory[c][t] # Blank =>
        directory'[c][t] # Blank /\ directory'[c][t].seen <= directory[c][t].seen
  <2>1. CASE UNCHANGED directory
    BY <1>4, <2>1, PaceFacts DEF Records, Entries
  <2>2. ASSUME NEW r \in Registered(m.to, m.who, Entry(m.reg)),
               directory' = [directory EXCEPT ![m.to] = r]
        PROVE  <1>5
    <3>1. \A t \in Storers: directory[m.to][t] # Blank =>
            r[t] # Blank /\ r[t].seen <= directory[m.to][t].seen
      BY <1>3, RegisteredKeeps DEF ListedInv
    <3> QED BY <1>3, <1>4, <2>2, <3>1, PaceFacts DEF Records, Entries
  <2> QED BY <1>1, <2>1, <2>2
<1>6. HeardIsListed'
  BY <1>2, <1>4, <1>5, FresherOnly DEF ListedInv
<1>7. \A s \in running: Allowed(HomeOf[s], s) => InTime(s)'
  BY <1>2 DEF ListedInv, InTime, Waited
<1> QED BY <1>2, <1>6, <1>7 DEF ListedInv, Allowed

(* Waits grow by one tick, due times shrink by one.                         *)
LEMMA ListedTick ==
  ASSUME KeepsPace, ListedInv, DirTypes', DirTick
  PROVE  ListedInv'
<1>1. /\ \A s \in running: due[s] > 0
      /\ \A b \in beats: b.age < MaxDelay
      /\ directory' = [c \in ChainNodes |-> [s \in Storers |-> Aged(directory[c][s])]]
      /\ recent' = [c \in ChainNodes |-> [s \in Storers |-> Grown(recent[c][s])]]
      /\ beats' = {[b EXCEPT !.age = @ + 1] : b \in beats}
      /\ due' = [s \in Storers |-> IF due[s] = 0 THEN 0 ELSE due[s] - 1]
      /\ calm' = [s \in Storers |-> Grown(calm[s])]
      /\ running' = running
  BY DEF DirTick
<1>2. /\ recent' \in [ChainNodes -> [Storers -> Ages]]
      /\ calm' \in [Storers -> Ages] /\ due' \in [Storers -> 0 .. Interval]
  <2>1. \A x \in Ages: Grown(x) \in Ages
    BY GrownFact
  <2>2. \A x \in 0 .. Interval: (IF x = 0 THEN 0 ELSE x - 1) \in 0 .. Interval
    BY PaceFacts
  <2> QED BY <1>1, <2>1, <2>2 DEF ListedInv
<1>3. HeardIsListed'
  <2> SUFFICES ASSUME NEW c \in ChainNodes, NEW s \in Storers, recent'[c][s] < Old
               PROVE  directory'[c][s] # Blank /\ directory'[c][s].seen <= recent'[c][s]
    BY DEF HeardIsListed
  <2>1. /\ recent'[c][s] = Grown(recent[c][s]) /\ recent[c][s] \in Ages
        /\ directory'[c][s] = Aged(directory[c][s])
    BY <1>1 DEF ListedInv
  <2>2. recent[c][s] < Old /\ recent'[c][s] = recent[c][s] + 1
    BY <2>1, PaceFacts DEF Grown
  <2>3. directory[c][s] # Blank /\ directory[c][s].seen <= recent[c][s]
    BY <2>2 DEF ListedInv, HeardIsListed
  <2>4. directory[c][s] \in Entries /\ directory[c][s].seen \in Ages
        /\ directory[c][s].since \in Ages
    BY <2>3 DEF ListedInv, DirTypes, Records, Entries
  <2>5. directory'[c][s] = [since |-> Grown(directory[c][s].since),
                            seen |-> Grown(directory[c][s].seen)]
    BY <2>1, <2>3 DEF Aged
  <2>6. Grown(directory[c][s].seen) = directory[c][s].seen + 1
        /\ Grown(directory[c][s].since) \in Ages
    <3>1. directory[c][s].seen # Old
      BY <2>1, <2>2, <2>3, <2>4, PaceFacts
    <3>2. Grown(directory[c][s].since) \in Ages
      BY <2>4, GrownFact
    <3> QED BY <3>1, <3>2 DEF Grown
  <2>7. directory'[c][s].seen = directory[c][s].seen + 1
    BY <2>5, <2>6
  <2>8. directory'[c][s] # Blank
    <3>1. directory[c][s].seen + 1 \in Ages
      BY <2>4, <2>6, GrownFact
    <3>2. directory'[c][s] \in [since: 0 .. Old, seen: 0 .. Old]
      BY <2>5, <2>6, <3>1 DEF Ages
    <3> QED BY <3>2, DirAssumption
  <2>9. directory[c][s].seen \in Nat /\ recent[c][s] \in Nat
    BY <2>1, <2>4, PaceFacts
  <2> QED BY <2>2, <2>3, <2>7, <2>8, <2>9
<1>4. ASSUME NEW s \in running, Allowed(HomeOf[s], s) PROVE InTime(s)'
  <2>1. s \in Storers /\ InTime(s) /\ due[s] > 0
    BY <1>1, <1>4 DEF ListedInv
  <2>2. /\ recent'[HomeOf[s]][s] = Grown(recent[HomeOf[s]][s])
        /\ calm'[s] = Grown(calm[s])
        /\ Waited(s) \in Ages /\ recent[HomeOf[s]][s] \in Ages /\ calm[s] \in Ages
        /\ due[s] \in 0 .. Interval
    BY <1>1, <2>1, PaceFacts, WaitedFacts
  <2>3. Waited(s)' = Grown(Waited(s))
    BY <2>2, PaceFacts DEF Waited, Grown
  <2>4. Waited(s) < Old => Waited(s)' = Waited(s) + 1
    BY <2>2, <2>3, PaceFacts DEF Grown
  <2>5. CASE Waited(s) + due[s] <= Reach
    <3>1. due'[s] = due[s] - 1
      BY <1>1, <2>1, <2>2, PaceFacts
    <3>2. Waited(s) < Old
      BY <2>1, <2>2, <2>5, PaceFacts DEF KeepsPace
    <3> QED BY <2>2, <2>4, <2>5, <3>1, <3>2, PaceFacts DEF InTime
  <2>6. CASE \E b \in beats:
               b.who = s /\ MinInterval + b.age <= Waited(s) /\ Waited(s) <= Reach + b.age
    <3>1. PICK b \in beats:
            b.who = s /\ MinInterval + b.age <= Waited(s) /\ Waited(s) <= Reach + b.age
      BY <2>6
    <3> DEFINE a == [b EXCEPT !.age = @ + 1]
    <3>2. b \in Heartbeats /\ b.age \in Nat /\ b.age < MaxDelay
      BY <1>1, PaceFacts DEF ListedInv, DirTypes, Heartbeats
    <3>3. a \in beats' /\ a.who = s /\ a.age = b.age + 1
      BY <1>1, <3>1, <3>2 DEF Heartbeats
    <3>4. Waited(s) < Old
      BY <2>2, <3>1, <3>2, PaceFacts DEF KeepsPace
    <3>5. Waited(s)' = Waited(s) + 1
      BY <2>4, <3>4
    <3> HIDE DEF a
    <3>6. MinInterval + a.age <= Waited(s)' /\ Waited(s)' <= Reach + a.age
      <4>1. /\ Waited(s) \in Nat /\ b.age \in Nat
            /\ MinInterval \in Nat /\ Reach \in Nat
        BY <2>2, <3>2, PaceFacts
      <4>2. /\ MinInterval + (b.age + 1) <= Waited(s) + 1
            /\ Waited(s) + 1 <= Reach + (b.age + 1)
        BY <3>1, <4>1
      <4> QED BY <3>3, <3>5, <4>2
    <3> QED BY <3>3, <3>6 DEF InTime
  <2> QED BY <2>1, <2>5, <2>6 DEF InTime
<1> QED BY <1>1, <1>2, <1>3, <1>4 DEF ListedInv, Allowed

LEMMA ListedStep ==
  ASSUME KeepsPace, DirInv, DirInv', ListedInv, [DirNext]_dirVars
  PROVE  ListedInv'
<1>0. DirTypes'
  BY DEF DirInv
<1>1. ASSUME NEW s \in Storers, Beat(s) PROVE ListedInv'
  BY <1>0, <1>1, ListedBeat
<1>2. CASE LoseBeat
  BY <1>0, <1>2, ListedLost
<1>3. CASE RegisterEndpoint
  BY <1>0, <1>3, ListedRegister
<1>4. CASE HandleNotification
  BY <1>0, <1>4, ListedNotified
<1>5. CASE DirTick
  BY <1>0, <1>5, ListedTick
<1>6. CASE BroadcastNodeRegistered \/ StreamOpened \/ StreamClosed \/ StorerStops
             \/ UNCHANGED dirVars
  <2>1. /\ UNCHANGED <<directory, recent, beats, due, calm>>
        /\ running' \subseteq running
    BY <1>6 DEF BroadcastNodeRegistered, StreamOpened, StreamClosed, StorerStops, dirVars
  <2> QED BY <1>0, <2>1 DEF ListedInv, HeardIsListed, InTime, Waited, Allowed
<1>7. CASE StorerStarts
  <2>1. PICK s \in Storers:
          /\ running' = running \cup {s} /\ due' = [due EXCEPT ![s] = 0]
          /\ calm' = [calm EXCEPT ![s] = 0]
    BY <1>7 DEF StorerStarts
  <2>2. UNCHANGED <<directory, recent, beats>>
    BY <1>7 DEF StorerStarts
  <2>3. /\ due' \in [Storers -> 0 .. Interval] /\ calm' \in [Storers -> Ages]
        /\ running' \subseteq Storers
    BY <2>1, PaceFacts DEF ListedInv
  <2>4. ASSUME NEW t \in running', Allowed(HomeOf[t], t) PROVE InTime(t)'
    <3>1. CASE t = s
      <4>1. due'[t] = 0 /\ calm'[t] = 0 /\ recent'[HomeOf[t]][t] \in Ages
        BY <2>1, <2>2, <3>1, PaceFacts DEF ListedInv
      <4>2. Waited(t)' = 0
        BY <4>1, PaceFacts DEF Waited
      <4> QED BY <4>1, <4>2, PaceFacts DEF InTime
    <3>2. CASE t # s
      <4>1. t \in running /\ t \in Storers
        BY <2>1, <3>2 DEF ListedInv
      <4>2. due'[t] = due[t] /\ Waited(t)' = Waited(t)
        BY <2>1, <2>2, <3>2, <4>1 DEF ListedInv, Waited
      <4> QED BY <2>2, <2>4, <4>1, <4>2 DEF ListedInv, InTime
    <3> QED BY <3>1, <3>2
  <2> QED BY <1>0, <2>2, <2>3, <2>4 DEF ListedInv, HeardIsListed, Allowed
<1> QED BY <1>1, <1>2, <1>3, <1>4, <1>5, <1>6, <1>7 DEF DirNext, GossipStep

LEMMA ListedIsLive == KeepsPace /\ ListedInv => SteadyIsListed
<1> SUFFICES ASSUME KeepsPace, ListedInv, NEW s \in running,
                    calm[s] > Interval + MinInterval + MaxDelay, Allowed(HomeOf[s], s)
             PROVE  IsLive(HomeOf[s], s)
  BY DEF SteadyIsListed
<1>1. s \in Storers /\ InTime(s) /\ HomeOf[s] \in ChainNodes
  BY PaceFacts DEF ListedInv
<1>2. Waited(s) <= Reach + MaxDelay
  <2>1. Waited(s) \in Nat /\ due[s] \in Nat
    <3>1. Waited(s) \in 0 .. Old /\ due[s] \in 0 .. Interval
      BY <1>1, WaitedFacts, PaceFacts
    <3> QED BY <3>1
  <2>2. \A b \in beats: b.age \in Nat /\ b.age <= MaxDelay
    BY PaceFacts DEF ListedInv, DirTypes, Heartbeats
  <2>0. Reach \in Nat /\ MaxDelay \in Nat
    BY PaceFacts
  <2>3. CASE Waited(s) + due[s] <= Reach
    BY <2>0, <2>1, <2>3
  <2>4. ASSUME NEW b \in beats, Waited(s) <= Reach + b.age PROVE Waited(s) <= Reach + MaxDelay
    BY <2>0, <2>1, <2>2, <2>4
  <2> QED BY <1>1, <2>3, <2>4 DEF InTime
<1>3. recent[HomeOf[s]][s] <= StaleAfter /\ recent[HomeOf[s]][s] \in Nat
  <2>1. calm[s] \in Nat /\ recent[HomeOf[s]][s] \in Nat
    BY <1>1, WaitedFacts, PaceFacts
  <2>2. Waited(s) = recent[HomeOf[s]][s]
    BY <1>2, <2>1, PaceFacts DEF Waited
  <2> QED BY <1>2, <2>1, <2>2, PaceFacts DEF KeepsPace
<1>4. /\ directory[HomeOf[s]][s] # Blank
      /\ directory[HomeOf[s]][s].seen <= recent[HomeOf[s]][s]
  <2>1. recent[HomeOf[s]][s] < Old
    BY <1>3, PaceFacts
  <2> QED BY <1>1, <2>1 DEF ListedInv, HeardIsListed
<1>5. directory[HomeOf[s]][s].seen \in Nat
  BY <1>1, <1>4, PaceFacts DEF ListedInv, DirTypes, Records, Entries
<1>6. directory[HomeOf[s]][s].seen <= StaleAfter
  <2>1. StaleAfter \in Nat
    BY PaceFacts
  <2> QED BY <1>3, <1>4, <1>5, <2>1
<1> QED BY <1>4, <1>6 DEF IsLive

(* For any network, delays and limits with enough room and enough time: a   *)
(* storage node that runs and gets through is live at home all the time,    *)
(* although calls less than MinInterval apart are turned down.              *)
THEOREM SteadyAlwaysListed ==
  ASSUME KeepsPace
  PROVE  DirSpec => []SteadyIsListed
<1>1. DirInit => DirInv /\ ListedInv
  BY DirStart, ListedStart
<1>2. DirInv /\ ListedInv /\ [DirNext]_dirVars => (DirInv /\ ListedInv)'
  <2>1. DirInv /\ [DirNext]_dirVars => DirInv'
    BY DirStep
  <2> QED BY <2>1, ListedStep
<1>3. ListedInv => SteadyIsListed
  BY ListedIsLive
<1> QED BY <1>1, <1>2, <1>3, PTL DEF DirSpec
=============================================================================
