-------------------------- MODULE MCContentScenes --------------------------
(* Posts over the storage registry, and the registry by itself. *)
EXTENDS MCContentLifecycle

(* Two scenes, chosen at the start.  "registry": every account and peer joins,
   resizes, declares, revokes and leaves while fragments come and go, without
   posts.  "posts": the whole system, with one operator, its peer and two
   contents. *)
CONSTANTS FirstAccount, FirstPeer, PostContents
VARIABLE scene

SceneVars == <<scene, contentVars>>
SceneSymmetry == Permutations(PostContents)

FewTakePart ==
  /\ \A a \in Accounts \ {FirstAccount}: operatorNodes'[a] = None /\ userPosts'[a] = {}
  /\ \A r \in reactions': r[2] = FirstAccount
  /\ \A p \in Peers \ {FirstPeer}: storageNodes'[p] = None
  /\ storageNodes'[FirstPeer] # None => storageNodes'[FirstPeer].capacity = MinNodeCapacity
  /\ fragments' \subseteq PostContents /\ declareCount'[FirstPeer] <= 1

SceneInit == scene \in {"registry", "posts"} /\ ContentInit
SceneNext ==
  /\ \/ scene = "registry" /\ RegistryNext /\ now' <= 3
        /\ UNCHANGED <<postVars, reactions, popularityVars>>
     \/ scene = "posts" /\ ContentNext /\ FewTakePart
  /\ UNCHANGED scene
SceneSpec == SceneInit /\ [][SceneNext]_SceneVars
=============================================================================
