----------------------------- MODULE MCChainNode -----------------------------
(***************************************************************************)
(* What a blockchain node does beside the state of posts and storage, each *)
(* part in a scene of its own: the directory of storage nodes, uploads and *)
(* reads through it, the end of a block, the mining thread, the faucet,    *)
(* direct messages.  The scene is chosen at the start; the other parts     *)
(* rest in their first state.                                              *)
(***************************************************************************)
EXTENDS MCStorageGateway, NodeDirectory, BlockProduction, MiningThread,
        FaucetClaims, DirectMessages

CONSTANTS b1, b2, b3, n1, m1, m2, m3, d1, o1, o2, f1, f2, f3

VARIABLE scene

\* Three peers in a triangle, one stream of which comes and goes.
OneHome == [s \in Storers |-> b1]
PublicOnly == [s \in Storers |-> {"public"}]
Triangle == {{b1, b2}, {b2, b3}, {b1, b3}}
OneStream == {{b2, b3}}

sceneVars == <<scene, dirVars, gatewayVars, blockVars, miningVars, faucetVars, dmVars>>

SceneInit ==
  /\ scene \in {"directory", "gateway", "shards", "block", "mining", "faucet", "messages"}
  /\ DirInit /\ GatewayInit /\ BlockInit /\ MiningInit /\ FaucetInit /\ DmInit
  /\ scene \notin {"gateway", "shards"} => live = SetToSeq(Servers)

\* Calls to the home node may take a tick, and then meet the rate limit; gossip
\* between chain nodes takes less.
Directory ==
  /\ scene = "directory" /\ DirNext /\ \A m \in gossip': m.sent = 0
  /\ UNCHANGED <<gatewayVars, blockVars, miningVars, faucetVars, dmVars>>
\* Fragments in one scene; KZG shards, sent once under a quiet directory, in another.
Gateway ==
  /\ GatewayNext
  /\ \/ scene = "gateway" /\ \A q \in requests': q.kind = "fragment"
     \/ scene = "shards" /\ sends' <= 1 /\ troubles' = 0 /\ now' = 0
        /\ \A q \in requests': q.kind = "shard"
  /\ UNCHANGED <<dirVars, blockVars, miningVars, faucetVars, dmVars>>
\* Keys are registered before the first block here and withdrawn at any time.
EarlyKeys == height = 0 \/ \A m \in Miners: authorityKeys'[m] \in {authorityKeys[m], NoKey}
Block == scene = "block" /\ BlockNext /\ EarlyKeys
  /\ UNCHANGED <<dirVars, gatewayVars, miningVars, faucetVars, dmVars>>
Mining == scene = "mining" /\ MiningNext
  /\ UNCHANGED <<dirVars, gatewayVars, blockVars, faucetVars, dmVars>>
Faucet == scene = "faucet" /\ FaucetNext
  /\ UNCHANGED <<dirVars, gatewayVars, blockVars, miningVars, dmVars>>
Messages == scene = "messages" /\ DmNext
  /\ UNCHANGED <<dirVars, gatewayVars, blockVars, miningVars, faucetVars>>

SceneNext ==
  (Directory \/ Gateway \/ Block \/ Mining \/ Faucet \/ Messages) /\ UNCHANGED scene

SceneSpec ==
  /\ SceneInit /\ [][SceneNext]_sceneVars
  /\ scene = "directory" => WF_dirVars(GossipStep)
  /\ scene = "mining" => MiningFairness
=============================================================================
