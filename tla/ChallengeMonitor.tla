--------------------------- MODULE ChallengeMonitor ---------------------------
(***************************************************************************)
(* The storage node's answers to challenges.  A poll hands over the        *)
(* challenges it is shown, each is tried at once, what is left over is     *)
(* tried again, and every so many polls the map is cleared of what is      *)
(* answered or too late.  The poll itself is not written yet in the source *)
(* (it always fails); Poll hands over what the chain has, or fails.        *)
(***************************************************************************)
EXTENDS Integers, FiniteSets

CONSTANTS
  Shares,        \* <<content hash, share index>>
  Window,        \* blocks until the deadline of a challenge
  MaxAttempts,   \* max_attempts
  CleanupEvery,  \* CHALLENGE_CLEANUP_EVERY_N_POLLS
  LastBlock,     \* bound on the height
  MaxIssues,     \* bound on the challenges of a share
  NoChallenge

Challenge == [deadline: Nat, serial: Nat]
PendingChallenge == [deadline: Nat, attempts: Nat, submitted: BOOLEAN]

ASSUME MonitorAssumption ==
  /\ Window \in Nat \ {0} /\ MaxAttempts \in Nat \ {0}
  /\ CleanupEvery \in Nat \ {0} /\ LastBlock \in Nat /\ MaxIssues \in Nat
  /\ NoChallenge \notin Challenge \cup PendingChallenge

VARIABLES
  height,   \* best block
  open,     \* [Shares -> [deadline, serial] of the challenge on the chain, or NoChallenge]
  issued,   \* [Shares -> how many there were]
  pending,  \* [Shares -> [deadline, attempts, submitted] or NoChallenge]
  provable, \* shares of the prover, none of them without an SRS
  handed,   \* challenges of this poll still to be handed over: like open
  retries,  \* keys process_pending collected
  stage,    \* where the poll tick is
  polls,    \* challenge_cleanup_counter
  told      \* history: the challenge last handed over, like open

monitorVars == <<height, open, issued, pending, provable, handed, retries, stage, polls, told>>

Nothing == [k \in Shares |-> NoChallenge]

MonitorInit ==
  /\ height = 0 /\ open = Nothing /\ pending = Nothing
  /\ issued = [k \in Shares |-> 0] /\ told = Nothing
  /\ provable \in SUBSET Shares
  /\ handed = Nothing /\ retries = {} /\ stage = "waiting" /\ polls = 0

\* generate_proof_for_challenge fails without the share, the extrinsic without the chain.
Attempt(p, k, accepted) ==
  /\ pending' = [p EXCEPT ![k] =
       [deadline |-> p[k].deadline, attempts |-> p[k].attempts + 1, submitted |-> accepted]]
  /\ accepted => k \in provable /\ open[k] # NoChallenge
  /\ open' = IF accepted THEN [open EXCEPT ![k] = NoChallenge] ELSE open

Poll ==
  /\ stage = "waiting" /\ stage' = "handing"
  /\ handed' \in {Nothing, open}
  /\ UNCHANGED <<height, open, issued, pending, provable, retries, polls, told>>

(* A slip, used by the mutation runs only: an entry that is there is kept. *)
Remembered(k) ==
  IF pending[k] # NoChallenge THEN pending
  ELSE [pending EXCEPT ![k] = [deadline |-> handed[k].deadline, attempts |-> 0, submitted |-> FALSE]]

Noted(k) ==
  [pending EXCEPT ![k] = [deadline |-> handed[k].deadline, attempts |-> 0, submitted |-> FALSE]]

\* try_submit_proof does nothing for what is submitted or was tried too often.
Worth(p, k) == p[k] # NoChallenge /\ ~p[k].submitted /\ p[k].attempts < MaxAttempts

OnChallengeIssued == \E k \in Shares:
  /\ stage = "handing" /\ handed[k] # NoChallenge
  /\ IF Worth(Noted(k), k)
     THEN \E accepted \in BOOLEAN: Attempt(Noted(k), k, accepted)
     ELSE pending' = Noted(k) /\ UNCHANGED open
  /\ handed' = [handed EXCEPT ![k] = NoChallenge]
  /\ told' = [told EXCEPT ![k] = handed[k]]
  /\ UNCHANGED <<height, issued, provable, retries, stage, polls>>

ProcessPending ==
  /\ stage = "handing" /\ handed = Nothing
  /\ retries' = {k \in Shares: Worth(pending, k)}
  /\ stage' = "retrying"
  /\ UNCHANGED <<height, open, issued, pending, provable, handed, polls, told>>

TrySubmitProof == \E k \in retries:
  /\ stage = "retrying"
  /\ retries' = retries \ {k}
  /\ \E accepted \in BOOLEAN: Attempt(pending, k, accepted)
  /\ UNCHANGED <<height, issued, provable, handed, stage, polls, told>>

(* A slip, used by the mutation runs only: what was never answered stays. *)
KeptUnanswered(k) == pending[k] # NoChallenge /\ (~pending[k].submitted \/ pending[k].deadline > height)

Kept(k) == pending[k] # NoChallenge /\ ~pending[k].submitted /\ pending[k].deadline > height

CleanupOldChallenges ==
  pending' = [k \in Shares |-> IF Kept(k) THEN pending[k] ELSE NoChallenge]

\* The chain may not tell its height in time; the counter starts again all the same.
EndPoll ==
  /\ stage = "retrying" /\ retries = {} /\ stage' = "waiting"
  /\ IF polls + 1 < CleanupEvery
     THEN polls' = polls + 1 /\ UNCHANGED pending
     ELSE polls' = 0 /\ (CleanupOldChallenges \/ UNCHANGED pending)
  /\ UNCHANGED <<height, open, issued, provable, handed, retries, told>>

\* pallet-storage: one challenge per share at a time, gone when its time is up.
Issue == \E k \in Shares:
  /\ open[k] = NoChallenge /\ issued[k] < MaxIssues
  /\ issued' = [issued EXCEPT ![k] = @ + 1]
  /\ open' = [open EXCEPT ![k] = [deadline |-> height + Window, serial |-> issued'[k]]]
  /\ UNCHANGED <<height, pending, provable, handed, retries, stage, polls, told>>

Expired(k) == open[k] # NoChallenge /\ open[k].deadline = height

NewBlock ==
  /\ height < LastBlock /\ height' = height + 1
  /\ open' = [k \in Shares |-> IF Expired(k) THEN NoChallenge ELSE open[k]]
  /\ UNCHANGED <<issued, pending, provable, handed, retries, stage, polls, told>>

ShareComesOrGoes == \E k \in Shares:
  /\ provable' = IF k \in provable THEN provable \ {k} ELSE provable \cup {k}
  /\ UNCHANGED <<height, open, issued, pending, handed, retries, stage, polls, told>>

PollTick == Poll \/ OnChallengeIssued \/ ProcessPending \/ TrySubmitProof \/ EndPoll

MonitorNext == PollTick \/ Issue \/ NewBlock \/ ShareComesOrGoes

Cleans == EndPoll /\ polls + 1 = CleanupEvery /\ CleanupOldChallenges

\* The interval keeps ticking, and the chain answers a cleanup now and then.
MonitorFairness == WF_monitorVars(PollTick) /\ SF_monitorVars(Cleans)

MonitorSpec == MonitorInit /\ [][MonitorNext]_monitorVars /\ MonitorFairness
-----------------------------------------------------------------------------
(* What the monitor was told of and takes for answered is answered: the
   challenge handed over last, even when it is the second one for the same
   share and the first is still in the map, is not in it as submitted as long
   as the chain waits for it. *)
SubmittedIsAnswered == \A k \in Shares:
  open[k] # NoChallenge /\ told[k] = open[k] /\ pending[k] # NoChallenge
    => ~pending[k].submitted

(* cleanup_old_challenges keeps the map from growing: a challenge that is
   answered, given up or too late does not stay in it for ever. *)
PendingDrains == \A k \in Shares:
  (height = LastBlock /\ issued[k] = MaxIssues /\ open[k] = NoChallenge) ~> (pending[k] = NoChallenge)
=============================================================================
