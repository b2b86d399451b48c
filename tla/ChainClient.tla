----------------------------- MODULE ChainClient -----------------------------
(***************************************************************************)
(* The storage node's way to the chain: a primary endpoint with its        *)
(* failure count, standbys, the subxt client that stays where it first     *)
(* connected, and the heartbeat that registers the node every 30 seconds   *)
(* and is the only caller that reports failures.                           *)
(***************************************************************************)
EXTENDS Integers, Sequences, SequencesExt, FiniteSets

CONSTANTS
  Endpoints,        \* URLs of blockchain nodes
  Home,             \* config.chain_url
  Chain,            \* [Endpoints -> genesis hashes]: what each URL serves
  FirstStandbys,    \* standbys known at start; the process has none
  FailureThreshold,
  MaxRetries,       \* attempts of one registration
  MaxCandidates,    \* endpoints of the cache tried in a refresh
  MaxStandbys,      \* bound on the standby list, which never shrinks
  Nowhere           \* no endpoint, no genesis hash

ASSUME ClientAssumption ==
  /\ Home \in Endpoints /\ Nowhere \notin Endpoints
  /\ FirstStandbys \subseteq Endpoints /\ IsFiniteSet(FirstStandbys)
  /\ FailureThreshold \in Nat \ {0} /\ MaxRetries \in Nat
  /\ MaxCandidates \in Nat /\ MaxStandbys \in Nat

VARIABLES
  primary,    \* [url, failures]
  standbys,   \* sequence of [url, role]
  client,     \* URL the subxt client is connected to
  genesis,    \* expected_genesis
  cached,     \* URLs of the EndpointCache
  reachable,  \* URLs that answer
  beat        \* attempt of the registration in progress, 0 when none is

clientVars == <<primary, standbys, client, genesis, cached, reachable, beat>>

Standby(url) == [url |-> url, role |-> "HotStandby"]

ClientInit ==
  /\ primary = [url |-> Home, failures |-> 0]
  /\ standbys \in SetToSeqs({Standby(url) : url \in FirstStandbys})
  /\ reachable \in SUBSET Endpoints
  /\ client = IF Home \in reachable THEN Home ELSE Nowhere
  /\ genesis = IF Home \in reachable THEN Chain[Home] ELSE Nowhere
  /\ cached = {}
  /\ beat = 0

OurChain(url) == genesis \in {Nowhere, Chain[url]}

\* ensure_subxt_client, on the first use that finds the primary up.
Connect ==
  /\ client = Nowhere /\ primary.url \in reachable /\ OurChain(primary.url)
  /\ client' = primary.url
  /\ genesis' = Chain[primary.url]
  /\ UNCHANGED <<primary, standbys, cached, reachable, beat>>

\* An extrinsic in a block credits the primary, wherever the client is.
Submit ==
  /\ client \in reachable
  /\ primary' = [primary EXCEPT !.failures = 0]
  /\ UNCHANGED <<standbys, client, genesis, cached, reachable, beat>>

BeginHeartbeat ==
  /\ beat = 0 /\ beat' = 1
  /\ UNCHANGED <<primary, standbys, client, genesis, cached, reachable>>

Registered ==
  /\ beat > 0 /\ primary.url \in reachable
  /\ primary' = [primary EXCEPT !.failures = 0]
  /\ beat' = 0
  /\ UNCHANGED <<standbys, client, genesis, cached, reachable>>

Hot == {i \in DOMAIN standbys: standbys[i].role = "HotStandby"}
FirstHot == CHOOSE i \in Hot: \A j \in Hot: i <= j

FailedTooOften == primary.failures + 1 >= FailureThreshold

\* record_primary_failure: the old primary joins the list for good.
Promoted == [url |-> standbys[FirstHot].url, failures |-> 0]
AfterPromotion == RemoveAt(standbys, FirstHot)
                    \o <<[url |-> primary.url, role |-> "Disconnected"]>>

\* refresh_standbys_from_cache, with `next` as the new primary.

(* A slip, used by the mutation runs only: whoever answers will do. *)
AnyAnswering(url) == url # Nowhere

Verified(url) == Chain[url] = genesis
CacheList(order) ==
  IF Len(order) <= MaxCandidates THEN order ELSE SubSeq(order, 1, MaxCandidates)
Probed(order, next) == (ToSet(CacheList(order)) \cap reachable) \ {next}
Pushed(list, url, next, order) ==
  IF url \in Probed(order, next) /\ Verified(url) THEN Append(list, Standby(url)) ELSE list
Refreshed(list, order, next) ==
  LET after[i \in 0 .. Len(CacheList(order))] ==
        IF i = 0 THEN list ELSE Pushed(after[i - 1], CacheList(order)[i], next, order)
  IN  after[Len(CacheList(order))]
Dropped(order, next) == {u \in Probed(order, next): ~Verified(u)}

Unregistered ==
  /\ beat > 0 /\ primary.url \notin reachable
  /\ \/ /\ FailedTooOften /\ Hot # {}
        /\ primary' = Promoted
        /\ beat' = IF beat < MaxRetries THEN beat + 1 ELSE 0
        /\ IF genesis = Nowhere
           THEN standbys' = AfterPromotion /\ UNCHANGED cached
           ELSE \E order \in SetToSeqs(cached):
                  /\ standbys' = Refreshed(AfterPromotion, order, Promoted.url)
                  /\ cached' = cached \ Dropped(order, Promoted.url)
     \/ /\ ~(FailedTooOften /\ Hot # {})
        /\ primary' = [primary EXCEPT !.failures =
                         IF FailedTooOften THEN FailureThreshold ELSE @ + 1]
        /\ beat' = 0
        /\ UNCHANGED <<standbys, cached>>
  /\ Len(standbys') <= MaxStandbys
  /\ UNCHANGED <<client, genesis, reachable>>

\* EndpointUpdate from gossip, and the network itself.
Learn ==
  /\ \E url \in Endpoints \ cached: cached' = cached \cup {url}
  /\ UNCHANGED <<primary, standbys, client, genesis, reachable, beat>>

NetworkChanges ==
  /\ reachable' \in SUBSET Endpoints /\ reachable' # reachable
  /\ UNCHANGED <<primary, standbys, client, genesis, cached, beat>>

Heartbeat == BeginHeartbeat \/ Registered \/ Unregistered

ClientNext == Connect \/ Submit \/ Heartbeat \/ Learn \/ NetworkChanges

ClientSpec == ClientInit /\ [][ClientNext]_clientVars

\* The main loop keeps beating.
FairClientSpec == ClientSpec /\ WF_clientVars(Heartbeat)
-----------------------------------------------------------------------------
(* Whatever endpoints are gossiped and however the network flaps, the client
   talks to the chain it met first and only endpoints of that chain are
   promoted or waiting to be: a failover never leads to another chain. *)
OneChainOnly ==
  /\ client # Nowhere => Chain[client] = genesis
  /\ genesis # Nowhere =>
       \A url \in {standbys[i].url : i \in Hot} \cup ({primary.url} \ {Home}):
          url \in FirstStandbys \/ Chain[url] = genesis
=============================================================================
