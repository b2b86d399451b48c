---------------------------- MODULE NodeDirectory ----------------------------
(***************************************************************************)
(* The directory of live storage nodes that the chain nodes keep between   *)
(* them.  A storage node registers again and again with its home chain     *)
(* node, which limits how often it listens and gossips what it hears; the  *)
(* others relay what is news to them and hand their list to new peers.     *)
(* Times are ages in ticks and saturate at Old.                            *)
(***************************************************************************)
EXTENDS Integers, FiniteSets, FiniteSetsExt, Functions

CONSTANTS
  ChainNodes,
  Storers,      \* storage nodes, by endpoint; each has an operator of its own
  HomeOf,       \* [Storers -> ChainNodes]
  Ranges,       \* [Storers -> address ranges the endpoint resolves to]
  DevChains,    \* chain nodes that allow private addresses
  Interval,     \* heartbeat_interval
  MinInterval,  \* MIN_REREGISTER_INTERVAL_SECS
  MaxDelay,     \* bound on the age of a message in flight
  StaleAfter,   \* NODE_STALE_AFTER_SECS
  MaxSkew,      \* MAX_TIMESTAMP_SKEW_SECS
  MaxRegistry,  \* StorageNodeRegistry.max_size
  Streams,      \* pairs of chain nodes that are peers
  Flapping,     \* those of Streams that close and open again
  Blank         \* no entry

Old == StaleAfter + MaxDelay + 1

ASSUME DirAssumption ==
  /\ {Interval, MinInterval, MaxDelay, StaleAfter, MaxSkew, MaxRegistry} \subseteq Nat
  /\ HomeOf \in [Storers -> ChainNodes]
  /\ Blank \notin [since: 0 .. Old, seen: 0 .. Old]

Grown(age) == IF age = Old THEN Old ELSE age + 1

VARIABLES
  directory,  \* [ChainNodes -> [Storers -> entry or Blank]]
  recent,     \* [ChainNodes -> [Storers -> age of the last accepted call, Old if none]]
  beats,      \* heartbeats on their way home: set of [who, age]
  outbox,     \* [ChainNodes -> set of [who, reg]]: BroadcastCommands
  gossip,     \* notifications: set of [from, to, kind, who, reg, sent]
  links,      \* open notification streams, both directions at once
  running,    \* storage nodes that are up
  due,        \* [Storers -> ticks to the next heartbeat]
  silence,    \* [Storers -> age of its last heartbeat]
  calm        \* history: [Storers -> age of its start or of its last lost call]

dirVars ==
  <<directory, recent, beats, outbox, gossip, links, running, due, silence, calm>>

Linked(c) == {d \in ChainNodes \ {c}: {c, d} \in links}

DirInit ==
  /\ directory = [c \in ChainNodes |-> [s \in Storers |-> Blank]]
  /\ recent = [c \in ChainNodes |-> [s \in Storers |-> Old]]
  /\ beats = {} /\ gossip = {}
  /\ outbox = [c \in ChainNodes |-> {}]
  /\ links = Streams \ Flapping
  /\ running = Storers
  /\ due = [s \in Storers |-> 0]
  /\ silence = [s \in Storers |-> Old]
  /\ calm = [s \in Storers |-> 0]

\* EndpointPolicy: what may never be called, and what only a dev chain may.
Allowed(c, s) ==
  /\ Ranges[s] # {}
  /\ "linklocal" \notin Ranges[s] /\ "ownport" \notin Ranges[s]
  /\ "private" \in Ranges[s] => c \in DevChains

\* registered_at and last_health_check of a new RegisteredStorageNode.
Entry(reg) == [since |-> reg, seen |-> reg]
Known(c) == {s \in Storers: directory[c][s] # Blank}

(* A slip, used by the mutation runs only: a node is live if it registered of late. *)
LiveSinceRegistered(c, s) == directory[c][s] # Blank /\ directory[c][s].since <= StaleAfter

IsLive(c, s) == directory[c][s] # Blank /\ directory[c][s].seen <= StaleAfter

(* A slip, used by the mutation runs only: what is known counts as refreshed. *)
AnyNews(c, s, reg) == TRUE

\* register_outcome is not Unchanged.
IsNews(c, s, reg) == directory[c][s] = Blank \/ reg < directory[c][s].seen

Oldest(c) ==
  {s \in Known(c): \A t \in Known(c): directory[c][s].since >= directory[c][t].since}

\* register_outcome: refresh, or evict the longest registered and add.
Registered(c, s, e) ==
  IF directory[c][s] # Blank
  THEN {[directory[c] EXCEPT ![s] =
          IF e.seen < @.seen THEN [@ EXCEPT !.seen = e.seen] ELSE @]}
  ELSE IF Cardinality(Known(c)) < MaxRegistry
  THEN {[directory[c] EXCEPT ![s] = e]}
  ELSE {[directory[c] EXCEPT ![s] = e, ![out] = Blank]: out \in Oldest(c)}
-----------------------------------------------------------------------------
Beat(s) ==
  /\ s \in running /\ due[s] = 0
  /\ beats' = beats \cup {[who |-> s, age |-> 0]}
  /\ due' = [due EXCEPT ![s] = Interval]
  /\ silence' = [silence EXCEPT ![s] = 0]
  /\ UNCHANGED <<directory, recent, outbox, gossip, links, running, calm>>

\* The chain node is unreachable, or the call is refused.
LoseBeat == \E b \in beats:
  /\ beats' = beats \ {b}
  /\ calm' = [calm EXCEPT ![b.who] = 0]
  /\ UNCHANGED <<directory, recent, outbox, gossip, links, running, due, silence>>

TooSoon(c, s) == recent[c][s] < MinInterval

\* storage_registerEndpoint.
RegisterEndpoint == \E b \in beats:
  LET c == HomeOf[b.who] IN
  /\ beats' = beats \ {b}
  /\ IF b.age > MaxSkew \/ ~Allowed(c, b.who) \/ TooSoon(c, b.who)
     THEN UNCHANGED <<directory, recent, outbox>>
     ELSE /\ recent' = [recent EXCEPT ![c][b.who] = 0]
          /\ \E reg \in Registered(c, b.who, Entry(0)):
               directory' = [directory EXCEPT ![c] = reg]
          /\ outbox' = IF IsNews(c, b.who, 0)
                       THEN [outbox EXCEPT ![c] = @ \cup {[who |-> b.who, reg |-> 0]}]
                       ELSE outbox
  /\ UNCHANGED <<gossip, links, running, due, silence, calm>>

To(from, peers, kind, x) ==
  {[from |-> from, to |-> d, kind |-> kind, who |-> x.who, reg |-> x.reg, sent |-> 0] : d \in peers}

BroadcastNodeRegistered == \E c \in ChainNodes: \E x \in outbox[c]:
  /\ outbox' = [outbox EXCEPT ![c] = @ \ {x}]
  /\ gossip' = gossip \cup To(c, Linked(c), "registered", x)
  /\ UNCHANGED <<directory, recent, beats, links, running, due, silence, calm>>

(* A slip, used by the mutation runs only: what is heard now was alive now. *)
HeardNow(m) == Entry(0)

EntryFrom(m) == Entry(m.reg)

\* The skew is measured from the signature, at most MaxDelay before m.reg.
Refused(m) == (m.kind = "registered" /\ m.reg > MaxSkew) \/ ~Allowed(m.to, m.who)

\* NodeRegistered is relayed when it is news, an entry of SyncResponse is not.
HandleNotification == \E m \in gossip:
  /\ IF Refused(m)
     THEN gossip' = gossip \ {m} /\ UNCHANGED directory
     ELSE /\ \E reg \in Registered(m.to, m.who, EntryFrom(m)):
               directory' = [directory EXCEPT ![m.to] = reg]
          /\ gossip' = (gossip \ {m}) \cup
               IF m.kind = "registered" /\ IsNews(m.to, m.who, m.reg)
               THEN To(m.to, Linked(m.to) \ {m.from}, "registered", m)
               ELSE {}
  /\ UNCHANGED <<recent, beats, outbox, links, running, due, silence, calm>>

\* send_sync_response_to: the registration time of each entry, not its last sign.
SyncTo(c, d) ==
  UNION {To(c, {d}, "sync", [who |-> s, reg |-> directory[c][s].since]) : s \in Known(c)}

StreamOpened == \E c, d \in ChainNodes:
  /\ {c, d} \in Flapping \ links
  /\ links' = links \cup {{c, d}}
  /\ gossip' = gossip \cup SyncTo(c, d) \cup SyncTo(d, c)
  /\ UNCHANGED <<directory, recent, beats, outbox, running, due, silence, calm>>

StreamClosed == \E l \in links \cap Flapping:
  /\ links' = links \ {l}
  /\ gossip' = {m \in gossip: {m.from, m.to} # l}
  /\ UNCHANGED <<directory, recent, beats, outbox, running, due, silence, calm>>

StorerStops == \E s \in running:
  /\ running' = running \ {s}
  /\ UNCHANGED <<directory, recent, beats, outbox, gossip, links, due, silence, calm>>

StorerStarts == \E s \in Storers \ running:
  /\ running' = running \cup {s}
  /\ due' = [due EXCEPT ![s] = 0]
  /\ calm' = [calm EXCEPT ![s] = 0]
  /\ UNCHANGED <<directory, recent, beats, outbox, gossip, links, silence>>

Aged(e) == IF e = Blank THEN Blank
           ELSE [since |-> Grown(e.since), seen |-> Grown(e.seen)]

DirTick ==
  /\ \A s \in running: due[s] > 0
  /\ \A b \in beats: b.age < MaxDelay
  /\ \A m \in gossip: m.sent < MaxDelay
  /\ outbox = [c \in ChainNodes |-> {}]
  /\ directory' = [c \in ChainNodes |-> [s \in Storers |-> Aged(directory[c][s])]]
  /\ recent' = [c \in ChainNodes |-> [s \in Storers |-> Grown(recent[c][s])]]
  /\ beats' = {[b EXCEPT !.age = @ + 1] : b \in beats}
  /\ gossip' = {[m EXCEPT !.reg = Grown(@), !.sent = @ + 1] : m \in gossip}
  /\ due' = [s \in Storers |-> IF due[s] = 0 THEN 0 ELSE due[s] - 1]
  /\ silence' = [s \in Storers |-> Grown(silence[s])]
  /\ calm' = [s \in Storers |-> Grown(calm[s])]
  /\ UNCHANGED <<outbox, links, running>>

GossipStep == BroadcastNodeRegistered \/ HandleNotification

DirNext ==
  \/ \E s \in Storers: Beat(s)
  \/ LoseBeat \/ RegisterEndpoint \/ GossipStep
  \/ StreamOpened \/ StreamClosed \/ StorerStops \/ StorerStarts \/ DirTick

\* The gossip loop of every chain node keeps running.
DirSpec == DirInit /\ [][DirNext]_dirVars /\ WF_dirVars(GossipStep)
-----------------------------------------------------------------------------
(* A storage node that fell silent longer than StaleAfter ago, the time of a
   call aside, is offered by no chain node: neither late heartbeats nor relays
   nor lists handed to new peers make it look alive. *)
NoGhosts == \A s \in Storers, c \in ChainNodes: silence[s] = Old => ~IsLive(c, s)

(* A storage node that runs and gets through is listed at home all the time,
   although calls are late by up to MaxDelay and those that arrive less than
   MinInterval apart are turned down; after a start or a lost call it takes an
   interval, a refusal and a delay until that is so. *)
SteadyIsListed == \A s \in running:
  calm[s] > Interval + MinInterval + MaxDelay /\ Allowed(HomeOf[s], s) => IsLive(HomeOf[s], s)

(* Heartbeats do not circle between chain nodes: in a stretch of time without
   ticks, new heartbeats and new streams the gossip runs dry. *)
Quiesces ==
  []<><<\/ ~UNCHANGED silence \/ ~UNCHANGED beats \/ ~UNCHANGED links>>_dirVars
    \/ <>[](gossip = {})
=============================================================================
