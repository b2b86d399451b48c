--------------------------- MODULE MCStorageDaemon ---------------------------
(***************************************************************************)
(* The parts of a storage node's process beside its store, each in a scene *)
(* of its own: the collection tick with the store, the chain client, the   *)
(* challenge monitor, gossip about endpoints, replication, and the codes   *)
(* of the pieces it keeps and proves.  The scene is chosen at the start;   *)
(* the other parts rest in their first state.                              *)
(***************************************************************************)
EXTENDS GarbageCollection, ChainClient, ChallengeMonitor, PeerExchange,
        MCShareCodes

CONSTANTS h1, c1, e1, e2, e3, k1, w1, s1, f1, f2

VARIABLE scene

\* e3 serves another chain than the node's home e1 and the standby e2.
TwoChains == [e \in Endpoints |-> IF e = e3 THEN "other" ELSE "ours"]

sceneVars == <<scene, daemonVars, clientVars, monitorVars, exchangeVars, codesVars>>

SceneInit ==
  /\ scene \in {"collection", "client", "monitor", "gossip", "puts", "codes"}
  /\ DaemonInit /\ ClientInit /\ MonitorInit /\ ExchangeInit
  /\ (CodesInit /\ scheme = "vss") \/ (Shards!CodesInit /\ scheme = "hybrid")
  /\ scene # "collection" => disk = NoEntries
  /\ scene # "client" => reachable = {}
  /\ scene # "monitor" => provable = {}
  /\ scene # "codes" => scheme = "vss" /\ payload = <<1>>

Collection == scene = "collection" /\ DaemonNext
  /\ UNCHANGED <<clientVars, monitorVars, exchangeVars, codesVars>>
Client == scene = "client" /\ ClientNext
  /\ UNCHANGED <<daemonVars, monitorVars, exchangeVars, codesVars>>
Monitor == scene = "monitor" /\ MonitorNext
  /\ UNCHANGED <<daemonVars, clientVars, exchangeVars, codesVars>>
Exchange ==
  /\ (scene = "gossip" /\ EndpointNext) \/ (scene = "puts" /\ PutNext)
  /\ UNCHANGED <<daemonVars, clientVars, monitorVars, codesVars>>
\* Two pieces are lost or changed where the content is short, one elsewhere.
Codes ==
  /\ scene = "codes"
  /\ (scheme = "vss" /\ CodesNext) \/ (scheme = "hybrid" /\ Shards!CodesNext)
  /\ spoils' > 1 => scheme = "vss" /\ payload = <<1>>
  /\ UNCHANGED <<daemonVars, clientVars, monitorVars, exchangeVars>>

SceneNext ==
  (Collection \/ Client \/ Monitor \/ Exchange \/ Codes) /\ UNCHANGED scene

SceneSpec ==
  /\ SceneInit /\ [][SceneNext]_sceneVars
  /\ scene = "collection" => DaemonFairness
  /\ scene = "monitor" => MonitorFairness
=============================================================================
