----------------------------- MODULE RequestAuth -----------------------------
(***************************************************************************)
(* What a storage node asks of a request that writes: the signed header of *)
(* the client, valid for a while, and a nonce it remembers for as long, so *)
(* that a request sent again does not run again.                           *)
(***************************************************************************)
EXTENDS Integers, FiniteSets

CONSTANTS
  Servers,     \* storage nodes
  Signatures,  \* nonces, one per signed header, 1 .. some bound
  Validity,    \* SIGNATURE_VALIDITY_SECS and NONCE_TTL_SECS
  Ahead,       \* seconds a timestamp may lie in the future
  Horizon,     \* bound on the clock
  Never

ASSUME AuthAssumption ==
  /\ IsFiniteSet(Signatures) /\ Signatures = 1 .. Cardinality(Signatures)
  /\ Validity \in Nat /\ Ahead \in Nat /\ Horizon \in Nat /\ Never \notin Int

VARIABLES
  now,     \* the clock, in units of time
  nonces   \* [Servers -> [Signatures -> inserted_at or Never]]: NonceCache

authVars == <<now, nonces>>

AuthInit ==
  /\ now = 0
  /\ nonces = [s \in Servers |-> [n \in Signatures |-> Never]]

Timely(stamp) == now - stamp <= Validity /\ stamp - now <= Ahead

(* A slip, used by the mutation runs only: a nonce is free one instant early. *)
UsedBefore(s, n) == nonces[s][n] # Never /\ now - nonces[s][n] < Validity

Used(s, n) == nonces[s][n] # Never /\ now - nonces[s][n] <= Validity

\* check_and_insert comes before the payload hash and the signature are read.
Remember(s, n) == nonces' = [nonces EXCEPT ![s][n] = now]

\* validate_chain_auth signs time and method only, validate_request the payload.
ChainSigned(call) == Timely(call.forwarded)

Verdict(s, call) ==
  IF ~ChainSigned(call) THEN "ChainAuth"
  ELSE IF ~Timely(call.auth.stamp) THEN "ExpiredTimestamp"
  ELSE IF Used(s, call.auth.id) THEN "NonceReused"
  ELSE IF call.payload # call.auth.payload THEN "PayloadHashMismatch"
  ELSE "Ok"

Seen(verdict) == verdict \notin {"ChainAuth", "ExpiredTimestamp", "NonceReused"}

\* The task of create_rpc_router forgets nonces that no longer matter.
NonceGc == \E s \in Servers:
  /\ \E n \in Signatures: nonces[s][n] # Never /\ ~Used(s, n)
  /\ nonces' = [nonces EXCEPT ![s] = [n \in Signatures |-> IF Used(s, n) THEN @[n] ELSE Never]]
  /\ UNCHANGED now

TimeGoesOn == now < Horizon /\ now' = now + 1 /\ UNCHANGED nonces
=============================================================================
