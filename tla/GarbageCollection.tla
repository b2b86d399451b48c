-------------------------- MODULE GarbageCollection --------------------------
(***************************************************************************)
(* The storage node's process around its FragmentStore: requests, the      *)
(* touch-and-evict job, and the main loop's collection tick, which asks    *)
(* the chain which local fragments are forgotten, marks and unmarks them,  *)
(* and deletes those marked for GracePeriod.                               *)
(***************************************************************************)
EXTENDS FragmentStore

CONSTANT GracePeriod  \* in ticks

ASSUME GcAssumption == GracePeriod \in Nat

VARIABLES
  candidates,  \* GarbageCollector.candidates: key -> age of the mark
  gc,          \* the collection tick in progress
  forgotten,   \* contents whose score is below the threshold on the chain
  doubt        \* history: key -> age of the first of the answers, none
               \* between them saying otherwise, that called it forgotten

gcVars == <<candidates, gc, forgotten, doubt>>

GcIdle == [pc |-> "idle", keys |-> {}]

GcInit ==
  /\ candidates = NoEntries
  /\ gc = GcIdle
  /\ forgotten = {}
  /\ doubt = NoEntries

Local == DOMAIN disk \cap HashKeys

\* The list is taken before the query is sent.
ListLocal ==
  /\ up /\ gc.pc = "idle"
  /\ gc' = [pc |-> IF Local = {} THEN "choosing" ELSE "asking", keys |-> Local]
  /\ UNCHANGED <<storeVars, candidates, forgotten, doubt>>

(* Slips: a recovered score keeps its mark, a mark starts anew at every answer, used by the mutation runs only. *)
NoneRecovered(asked, bad) == {}
MarkAgain(k) == 0

\* unmark_forgetting_candidate for every fragment the answer clears.
Recovered(asked, bad) == asked \ bad

\* mark_forgetting_candidate keeps an older mark.
MarkAge(k) == IF k \in DOMAIN candidates THEN candidates[k] ELSE 0

Marked(asked, bad) ==
  [k \in (DOMAIN candidates \ Recovered(asked, bad)) \cup bad |-> MarkAge(k)]

HeldInDoubt(asked, bad) ==
  [k \in (DOMAIN doubt \ asked) \cup bad |-> IF k \in DOMAIN doubt THEN doubt[k] ELSE 0]

Answered ==
  /\ up /\ gc.pc = "asking"
  /\ LET bad == gc.keys \cap forgotten IN
       /\ candidates' = Marked(gc.keys, bad)
       /\ doubt' = HeldInDoubt(gc.keys, bad)
  /\ gc' = [pc |-> "choosing", keys |-> {}]
  /\ UNCHANGED <<storeVars, forgotten>>

\* No primary endpoint, a refused connection, an RPC error: the tick goes on.
Unanswered ==
  /\ up /\ gc.pc = "asking"
  /\ gc' = [pc |-> "choosing", keys |-> {}]
  /\ UNCHANGED <<storeVars, candidates, forgotten, doubt>>

GcReady == {k \in DOMAIN candidates: candidates[k] >= GracePeriod}

GetGcReady ==
  /\ up /\ gc.pc = "choosing"
  /\ gc' = IF GcReady = {} THEN GcIdle ELSE [pc |-> "deleting", keys |-> GcReady]
  /\ UNCHANGED <<storeVars, candidates, forgotten, doubt>>

\* execute_gc takes the candidate out whatever the deletion then does.
TakeCandidate(k) ==
  /\ gc.pc = "deleting" /\ Open("collector")
  /\ candidates' = Restrict(candidates, DOMAIN candidates \ {k})
  /\ gc' = IF gc.keys = {k} THEN GcIdle ELSE [gc EXCEPT !.keys = @ \ {k}]

ExecuteGc == \E k \in gc.keys:
  /\ TakeCandidate(k)
  /\ \/ k \in DOMAIN disk /\ CommitDelete("collector", {k})
     \/ k \notin DOMAIN disk /\ UNCHANGED <<disk, counter, jobs>>
  /\ UNCHANGED <<used, touches, sweep, up, forgotten, doubt>>

ExecuteGcFails == \E k \in gc.keys:
  /\ TakeCandidate(k)
  /\ UNCHANGED <<storeVars, forgotten, doubt>>

Collect == ListLocal \/ Answered \/ Unanswered \/ GetGcReady
           \/ ExecuteGc \/ ExecuteGcFails
           \/ (Settle("collector") /\ UNCHANGED gcVars)

ScoresChange ==
  /\ forgotten' \in (SUBSET HashKeys) \ {forgotten}
  /\ UNCHANGED <<storeVars, candidates, gc, doubt>>

TimePasses ==
  /\ Tick
  /\ candidates' = Older(candidates)
  /\ doubt' = Older(doubt)
  /\ UNCHANGED <<gc, forgotten>>

Die ==
  /\ Crash
  /\ candidates' = NoEntries /\ gc' = GcIdle /\ doubt' = NoEntries
  /\ UNCHANGED forgotten

Restart == OpenStore /\ UNCHANGED gcVars

DaemonInit == StoreInit /\ GcInit

DaemonNext ==
  \/ \E c \in Clients: Request(c) /\ UNCHANGED gcVars
  \/ Retrieve /\ UNCHANGED gcVars
  \/ Sweep /\ UNCHANGED gcVars
  \/ Collect
  \/ ScoresChange
  \/ TimePasses
  \/ Die
  \/ Restart

daemonVars == <<storeVars, gcVars>>

\* The process keeps scheduling its tasks and is started again after a crash;
\* the chain answers, and the database deletes, if asked often enough.
DaemonFairness ==
  /\ WF_daemonVars(ListLocal) /\ WF_daemonVars(GetGcReady)
  /\ WF_daemonVars(Unanswered) /\ SF_daemonVars(Answered)
  /\ SF_daemonVars(ExecuteGc)
  /\ \A w \in Workers: WF_daemonVars(Settle(w) /\ UNCHANGED gcVars)
  /\ WF_daemonVars(TimePasses)
  /\ WF_daemonVars(Restart)

DaemonSpec == DaemonInit /\ [][DaemonNext]_daemonVars

FairDaemonSpec == DaemonSpec /\ DaemonFairness
-----------------------------------------------------------------------------
(* The collector deletes a fragment only when the chain called it forgotten
   at least GracePeriod ago and no answer since then cleared it, whatever
   was deleted, stored again, asked or crashed in between. *)
GcWaitsForGrace == [][
  \A k \in Local: (jobs["collector"] = Idle /\ jobs'["collector"] # Idle
                     /\ k \notin DOMAIN disk')
     => k \in DOMAIN doubt /\ doubt[k] >= GracePeriod]_daemonVars

(* A fragment that the chain keeps calling forgotten does not stay on the
   node's disk, although answers get lost, deletes fail and the marks do not
   survive a crash. *)
ForgottenIsCollected ==
  \A k \in HashKeys:
    <>[](up /\ k \in forgotten) => []<>(k \notin DOMAIN disk)
=============================================================================
