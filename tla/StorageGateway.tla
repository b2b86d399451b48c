--------------------------- MODULE StorageGateway ---------------------------
(***************************************************************************)
(* The way of a fragment from a client through a blockchain node to a      *)
(* storage node and back.  The blockchain node counts the live nodes,      *)
(* checks the proof, picks a node by root and index and forwards; to read, *)
(* it tries every node it knows.  Calls and replies may be lost and sent   *)
(* again.  The directory is an input here; NodeDirectory tells its story.  *)
(***************************************************************************)
EXTENDS RequestAuth, Sequences, SequencesExt

CONSTANTS
  Roots,      \* merkle roots, content hashes
  Seed,       \* [Roots -> 0 .. Word - 1]: their first eight bytes
  Word,       \* 2^64
  Total,      \* total_leaves, fragment_count
  MaxLeaves,  \* MAX_TOTAL_LEAVES
  OnChain,    \* URLs of registered nodes the policy lets pass, a sequence
  Committed,  \* roots whose commitment is on the chain
  Kinds,      \* uploads that happen: "fragment", "shard"
  Inputs,     \* <<index, proven>>: what clients send, good and bad
  Skews,      \* how far clients' clocks are off
  MaxSends,   \* bound on how often clients send
  MaxTroubles \* bound on changes of the directory and stops

ASSUME GatewayAssumption ==
  /\ Total \in Nat /\ MaxLeaves \in Nat /\ MaxSends \in Nat /\ MaxTroubles \in Nat
  /\ Word \in Nat \ {0} /\ Seed \in [Roots -> 0 .. Word - 1]
  /\ Skews \subseteq Int /\ Inputs \subseteq Nat \X BOOLEAN
  /\ IsFiniteSet(Servers) /\ OnChain \in Seq(Servers)

VARIABLES
  live,      \* online_nodes of the registry, in its order
  awake,     \* storage nodes that answer
  shelves,   \* [Servers -> set of pieces]
  requests,  \* signed requests
  sends,     \* how often clients sent one
  admitted,  \* requests past the count of nodes, not yet placed
  calls,     \* forwarded calls on their way
  acked,     \* pieces whose upload the client saw succeed
  placings,  \* history: which piece went where under which list
  ran,       \* history: [Servers -> [Signatures -> times it ran since the start]]
  troubles   \* changes of the directory and stops so far

gatewayVars == <<live, awake, shelves, requests, sends, admitted, calls, acked,
                 placings, ran, troubles, now, nonces>>

Lists == UNION {SetToSeqs(S) : S \in SUBSET Servers}
Piece(r) == <<r.kind, r.root, r.index>>

GatewayInit ==
  /\ AuthInit
  /\ live \in {l \in Lists: Len(l) >= Total} /\ awake = Servers
  /\ shelves = [s \in Servers |-> {}]
  /\ requests = {} /\ sends = 0 /\ admitted = {} /\ calls = {} /\ acked = {}
  /\ placings = {} /\ troubles = 0
  /\ ran = [s \in Servers |-> [n \in Signatures |-> 0]]

\* The client signs anew for every attempt of its own, by its own clock.
Sign(kind, root, index, proven, skew) ==
  LET id == Cardinality(requests) + 1
      auth == [id |-> id, stamp |-> now + skew, skew |-> skew, payload |-> "signed"]
  IN
  /\ id \in Signatures
  /\ requests' = requests \cup
       {[auth |-> auth, kind |-> kind, root |-> root, index |-> index, proven |-> proven]}
  /\ UNCHANGED <<live, awake, shelves, sends, admitted, calls, acked, placings, ran,
                 troubles, now, nonces>>

\* upload_fragment: leaf count, index and proof; upload_kzg_shard: commitment, index, proof.
WellFormed(r) ==
  IF r.kind = "fragment" THEN Total \in 1 .. MaxLeaves /\ r.index < Total /\ r.proven
  ELSE r.root \in Committed /\ r.index \in 1 .. Total /\ r.proven

\* Only fragments ask for as many live nodes as there are leaves.
Enough(r) == r.kind = "fragment" => Len(live) >= Total

\* chainRpcCall may send the same signed request again, through another node.
Admit == \E q \in requests:
  /\ sends < MaxSends /\ sends' = sends + 1
  /\ admitted' = IF Enough(q) /\ WellFormed(q) THEN admitted \cup {q} ELSE admitted
  /\ UNCHANGED <<live, awake, shelves, requests, calls, acked, placings, ran, troubles, now, nonces>>

(* A slip, used by the mutation runs only: the index plays no part in the choice. *)
SlotByRoot(r, len) == Seed[r.root] % len

\* select_node_for_fragment: wrapping_add, then the remainder.
Slot(r, len) == ((Seed[r.root] + r.index) % Word) % len

Candidates == IF live # <<>> THEN live ELSE OnChain
Chosen(r) == Candidates[Slot(r, Len(Candidates)) + 1]

\* store_kzg_shard renames share_index and drops the proof; fragments travel as signed.
Body(r) == IF r.kind = "fragment" THEN r.auth.payload ELSE "renamed"

\* One POST, with the client's header and the node's own.
Forwarded(r) == [to |-> Chosen(r), req |-> r, auth |-> r.auth,
                 payload |-> Body(r), forwarded |-> now]

Place == \E r \in admitted:
  /\ admitted' = admitted \ {r}
  /\ IF Candidates = <<>> THEN UNCHANGED <<calls, placings>>
     ELSE /\ calls' = calls \cup {Forwarded(r)}
          /\ placings' = placings \cup {[piece |-> Piece(r), to |-> Chosen(r), list |-> live]}
  /\ UNCHANGED <<live, awake, shelves, requests, sends, acked, ran, troubles, now, nonces>>

\* handle_store_kzg_shard counts from 1.
TakesIn(r) == r.kind = "shard" => r.index >= 1

\* handle_rpc behind auth_middleware; the store may be full, the reply may get lost.
HandleStore == \E c \in calls: \E fits, heard \in BOOLEAN:
  LET verdict == Verdict(c.to, c) IN
  /\ c.to \in awake
  /\ calls' = calls \ {c}
  /\ IF Seen(verdict) THEN Remember(c.to, c.auth.id) ELSE UNCHANGED nonces
  /\ IF verdict = "Ok" /\ fits /\ TakesIn(c.req)
     THEN /\ shelves' = [shelves EXCEPT ![c.to] = @ \cup {Piece(c.req)}]
          /\ ran' = [ran EXCEPT ![c.to][c.auth.id] = @ + 1]
          /\ acked' = IF heard THEN acked \cup {Piece(c.req)} ELSE acked
     ELSE UNCHANGED <<shelves, ran, acked>>
  /\ UNCHANGED <<live, awake, requests, sends, admitted, placings, troubles, now>>

LoseCall == \E c \in calls:
  /\ calls' = calls \ {c}
  /\ UNCHANGED <<live, awake, shelves, requests, sends, admitted, acked, placings, ran,
                 troubles, now, nonces>>

Trouble == troubles < MaxTroubles /\ troubles' = troubles + 1

DirectoryChanges ==
  /\ Trouble
  /\ live' \in Lists \ {live}
  /\ UNCHANGED <<awake, shelves, requests, sends, admitted, calls, acked, placings, ran,
                 now, nonces>>

\* A storage node goes away and comes back with its disk, without its nonces.
ServerStops == \E s \in awake:
  /\ Trouble
  /\ awake' = awake \ {s}
  /\ nonces' = [nonces EXCEPT ![s] = [n \in Signatures |-> Never]]
  /\ ran' = [ran EXCEPT ![s] = [n \in Signatures |-> 0]]
  /\ UNCHANGED <<live, shelves, requests, sends, admitted, calls, acked, placings, now>>

ServerStarts == \E s \in Servers \ awake:
  /\ awake' = awake \cup {s}
  /\ UNCHANGED <<live, shelves, requests, sends, admitted, calls, acked, placings, ran,
                 troubles, now, nonces>>
GatewayNext ==
  \/ \E kind \in Kinds, root \in Roots, input \in Inputs, skew \in Skews:
       Sign(kind, root, input[1], input[2], skew)
  \/ Admit \/ Place \/ HandleStore \/ LoseCall
  \/ DirectoryChanges \/ ServerStops \/ ServerStarts
  \/ (NonceGc \/ TimeGoesOn) /\ UNCHANGED <<live, awake, shelves, requests, sends, admitted,
                                            calls, acked, placings, ran, troubles>>

GatewaySpec == GatewayInit /\ [][GatewayNext]_gatewayVars

\* storage_getFragment looks up fragments, never shards.
Serves(s, piece) == s \in awake /\ piece[1] = "fragment" /\ piece \in shelves[s]

\* get_all_storage_clients and the order in which get_fragment tries them.
With(list, url) == IF url \in ToSet(list) THEN list ELSE Append(list, url)

ReadList(shuffled) ==
  LET after[i \in 0 .. Len(OnChain)] ==
        IF i = 0 THEN shuffled ELSE With(after[i - 1], OnChain[i])
  IN  after[Len(OnChain)]

(* A slip, used by the mutation runs only: the first node is believed. *)
PrimaryOnly(list, index) == {list[(index % Len(list)) + 1]}

Tried(list, index) == ToSet(list)

Found(shuffled, piece) ==
  LET list == ReadList(shuffled)
  IN  list # <<>> /\ \E s \in Tried(list, piece[3]): Serves(s, piece)
-----------------------------------------------------------------------------
(* auth.rs keeps nonces as long as signatures are valid: between two starts of
   a storage node a signed request runs at most once on it, however often it
   is sent, delayed or forwarded by several blockchain nodes, provided the
   client's clock is not ahead.  (Ahead by up to 30 s, its request outlives
   its nonce by that much.) *)
RunsOnce == \A q \in requests, s \in Servers:
  q.auth.skew <= 0 => ran[s][q.auth.id] <= 1

(* rpc/mod.rs promises that the fragments of a post lie on different nodes:
   those placed under the same list of at least Total nodes do, as long as the
   sum of seed and index does not wrap. *)
SpreadOut == \A p, q \in placings:
  /\ p.piece[1] = "fragment" /\ q.piece[1] = "fragment"
  /\ p.list = q.list /\ Len(p.list) >= Total
  /\ p.piece[2] = q.piece[2] /\ p.piece[3] # q.piece[3]
  /\ Seed[p.piece[2]] + Total <= Word
  => p.to # q.to

(* A fragment whose upload the client saw succeed is found by a read as long as
   a node that holds it is awake and listed, whichever order the list has and
   whatever the directory did in between. *)
AckedAreReadable == \A p \in acked: p[1] = "fragment" =>
  /\ \E s \in Servers: p \in shelves[s]
  /\ (\E s \in awake \cap (ToSet(live) \cup ToSet(OnChain)): p \in shelves[s])
       => \A order \in SetToSeqs(ToSet(live)): Found(order, p)
=============================================================================
