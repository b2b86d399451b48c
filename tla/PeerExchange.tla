---------------------------- MODULE PeerExchange ----------------------------
(***************************************************************************)
(* What a storage node hears from its peers: endpoints by gossip, kept in  *)
(* two caches, and fragments to replicate.  One event loop handles both,   *)
(* and select! drops a handler that waits when a timer ticks: the request  *)
(* is forgotten, what it spawned runs on.                                  *)
(***************************************************************************)
EXTENDS Integers, FiniteSets

CONSTANTS
  ChainUrls,   \* ws:// and wss:// URLs of blockchain nodes
  StoreUrls,   \* http:// and https:// URLs of storage nodes
  Refused,     \* URLs validate_gossip_url refuses
  ForeignUrls, \* URLs announced with another chain id than the cache expects
  Fragments,
  Ttl,         \* DEFAULT_TTL_SECS
  MaxGossipAge,      \* oldest message that is taken, 300 s
  LastTick,    \* bound on the clock
  MaxCancels   \* bound on handlers dropped and crashes

ASSUME ExchangeAssumption ==
  Ttl \in Nat /\ MaxGossipAge \in Nat /\ LastTick \in Nat /\ MaxCancels \in Nat

Urls == ChainUrls \cup StoreUrls
Never == -1

VARIABLES
  clock,
  seen,      \* [Urls -> last moment the endpoint answered anyone, or Never]
  gossip,    \* messages: [url, verified, stamp]; they may arrive late and again
  cache,     \* EndpointCache and StorageNodeCache: [Urls -> last_verified or Never]
  onChain,   \* fragments registered on the chain
  warranted, \* history: fragments that were registered once
  request,   \* the Put being handled: [fragment, at], or Quiet
  writing,   \* fragments a blocking task writes
  shelf,     \* fragments stored for peers
  thanked,   \* fragments whose peer got an Ack
  declaring, \* declare_holding tasks
  begun,     \* history: fragments whose declaration was begun
  dropped    \* handlers dropped and crashes so far

exchangeVars == <<clock, seen, gossip, cache, onChain, warranted, request, writing,
                  shelf, thanked, declaring, begun, dropped>>
endpointVars == <<seen, gossip, cache>>
putVars == <<onChain, warranted, request, writing, shelf, thanked, declaring, begun, dropped>>

Quiet == [fragment |-> {}, at |-> "loop"]

ExchangeInit ==
  /\ clock = 0
  /\ seen = [u \in Urls |-> Never] /\ gossip = {} /\ cache = [u \in Urls |-> Never]
  /\ onChain = {} /\ warranted = {} /\ request = Quiet /\ writing = {} /\ shelf = {}
  /\ thanked = {} /\ declaring = {} /\ begun = {} /\ dropped = 0

\* A peer tells the others where and when it saw an endpoint answer.
Announce == \E u \in Urls:
  /\ \/ seen' = [seen EXCEPT ![u] = clock]
     \/ seen[u] # Never /\ UNCHANGED seen
  /\ gossip' = gossip \cup {[url |-> u, verified |-> seen'[u], stamp |-> clock]}
  /\ UNCHANGED <<clock, cache, putVars>>

\* Size, form and signature are checked before; only the age can turn later.
Valid(m) == clock - m.stamp <= MaxGossipAge

PublicHost(u) == u \notin Refused

\* insert: the URL, and for blockchain nodes the chain id.
Welcome(u) == PublicHost(u) /\ ~(u \in ChainUrls /\ u \in ForeignUrls)

(* A slip, used by the mutation runs only: refresh() at every insert. *)
SeenJustNow(m) == clock

VerifiedAt(m) == m.verified

\* Every message is stored as it comes: an older one replaces a newer one.
HearEndpoint == \E m \in gossip:
  /\ request = Quiet /\ Valid(m) /\ Welcome(m.url)
  /\ cache' = [cache EXCEPT ![m.url] = VerifiedAt(m)]
  /\ UNCHANGED <<clock, seen, gossip, putVars>>

\* get_all_by_latency, get_all: an entry is not removed, it is not shown.
IsExpired(u) == clock - cache[u] > Ttl
Offered == {u \in Urls: cache[u] # Never /\ ~IsExpired(u)}

SecondPasses ==
  /\ clock < LastTick /\ clock' = clock + 1
  /\ UNCHANGED <<endpointVars, putVars>>
-----------------------------------------------------------------------------
PutArrives == \E f \in Fragments:
  /\ request = Quiet
  /\ request' = [fragment |-> {f}, at |-> "checking"]
  /\ UNCHANGED <<clock, endpointVars, onChain, warranted, writing, shelf, thanked, declaring, begun, dropped>>

(* A slip, used by the mutation runs only: no answer counts as a yes. *)
AnyAnswer(f, answer) == answer # "no"

Authorized(f, answer) == answer = "yes"

\* fragment_exists: the chain's word, or an error; then the store is spawned.
CheckPut == \E f \in request.fragment, answer \in {"yes", "no", "error"}:
  /\ request.at = "checking"
  /\ answer = "yes" => f \in onChain
  /\ answer = "no" => f \notin onChain
  /\ IF Authorized(f, answer)
     THEN writing' = writing \cup {f} /\ request' = [request EXCEPT !.at = "storing"]
     ELSE request' = Quiet /\ UNCHANGED writing
  /\ UNCHANGED <<clock, endpointVars, onChain, warranted, shelf, thanked, declaring, begun, dropped>>

(* A slip, used by the mutation runs only: the peer is answered and nobody declares. *)
OnlyAck(f) == thanked' = thanked \cup {f} /\ UNCHANGED <<declaring, begun>>

\* The Ack goes out, and FragmentStored makes main declare the holding.
AckAndDeclare(f) ==
  /\ thanked' = thanked \cup {f}
  /\ declaring' = declaring \cup {f} /\ begun' = begun \cup {f}

\* The blocking task ends; nobody may be waiting for it any more.
WriteEnds == \E f \in writing, stored \in BOOLEAN:
  /\ writing' = writing \ {f}
  /\ shelf' = IF stored THEN shelf \cup {f} ELSE shelf
  /\ IF request.at = "storing" /\ f \in request.fragment
     THEN /\ request' = Quiet
          /\ IF stored THEN AckAndDeclare(f) ELSE UNCHANGED <<thanked, declaring, begun>>
     ELSE UNCHANGED <<request, thanked, declaring, begun>>
  /\ UNCHANGED <<clock, endpointVars, onChain, warranted, dropped>>

\* Another branch of select! is ready first: handle_event's future is dropped.
HandlerDropped ==
  /\ request # Quiet /\ request' = Quiet
  /\ dropped < MaxCancels /\ dropped' = dropped + 1
  /\ UNCHANGED <<clock, endpointVars, onChain, warranted, writing, shelf, thanked, declaring, begun>>

\* In a block or with an error that is only logged.
DeclarationEnds == \E f \in declaring:
  /\ declaring' = declaring \ {f}
  /\ UNCHANGED <<clock, endpointVars, onChain, warranted, request, writing, shelf, thanked, begun, dropped>>

ProcessEnds ==
  /\ dropped < MaxCancels /\ dropped' = dropped + 1
  /\ request' = Quiet /\ writing' = {} /\ declaring' = {}
  /\ shelf' \in {shelf, shelf \cup writing}
  /\ cache' = [u \in Urls |-> Never]
  /\ UNCHANGED <<clock, seen, gossip, onChain, warranted, thanked, begun>>

PostComesOrGoes == \E f \in Fragments:
  /\ onChain' = IF f \in onChain THEN onChain \ {f} ELSE onChain \cup {f}
  /\ warranted' = warranted \cup onChain'
  /\ UNCHANGED <<clock, endpointVars, request, writing, shelf, thanked, declaring, begun, dropped>>

EndpointNext == Announce \/ HearEndpoint \/ SecondPasses
PutNext ==
  \/ PutArrives \/ CheckPut \/ WriteEnds \/ HandlerDropped
  \/ DeclarationEnds \/ ProcessEnds \/ PostComesOrGoes
ExchangeNext == EndpointNext \/ PutNext

ExchangeSpec == ExchangeInit /\ [][ExchangeNext]_exchangeVars
-----------------------------------------------------------------------------
(* An endpoint offered for a failover or to a peer answered somebody at most
   Ttl ago, however late, often or out of order the gossip about it came. *)
OfferedWasAlive == \A u \in Offered: seen[u] # Never /\ clock - seen[u] <= Ttl

(* Replication is warranted and honest: only fragments that were registered
   on the chain are kept for peers, with the chain out of reach too, and a
   peer is told "stored" only when the fragment is on the shelf and main was
   told to declare it, whichever handlers were dropped in between. *)
PutsAreSound == shelf \subseteq warranted /\ thanked \subseteq shelf \cap begun
=============================================================================
