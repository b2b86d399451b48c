------------------------ MODULE MCGarbageCollection ------------------------
(***************************************************************************)
(* A storage node's store on its own: two requests at a time beside the    *)
(* eviction job fill 300 bytes with a hash fragment and a post fragment of *)
(* 100 or 200 bytes, pass the 95% mark and fall below the 85% mark.  The   *)
(* collector runs in MCStorageDaemon.                                      *)
(***************************************************************************)
EXTENDS GarbageCollection, TLC

CONSTANTS h1, h2, c1, c2, p1

OnePostKey == {<<p1, 0>>}
StoreSymmetry == Permutations(Clients)

\* The store alone: the collector never runs.
StoreAlone == DaemonInit /\ [][StoreNext /\ UNCHANGED gcVars]_daemonVars
=============================================================================
