----------------------------- MODULE QuotaStore -----------------------------
(***************************************************************************)
(* What a fragment store promises: a map from keys to byte counts that     *)
(* never outgrows its capacity, gains one entry at a time, and loses only  *)
(* what was deleted.  No step of it is a crash: a crash loses nothing.     *)
(***************************************************************************)
EXTENDS Integers, FiniteSets, Functions

CONSTANTS Keys, Sizes, Capacity

VARIABLE stored  \* key -> bytes

BytesOf(contents) == SumFunctionOnSet(contents, DOMAIN contents)

Opened == \E old \in SUBSET Keys: \E bytes \in [old -> Sizes]:
             stored = bytes /\ BytesOf(bytes) <= Capacity

Put == \E k \in Keys \ DOMAIN stored, bytes \in Sizes:
         /\ BytesOf(stored) + bytes <= Capacity
         /\ stored' = [j \in DOMAIN stored \cup {k} |->
                         IF j = k THEN bytes ELSE stored[j]]

Remove == \E gone \in (SUBSET DOMAIN stored) \ {{}}:
            stored' = [j \in DOMAIN stored \ gone |-> stored[j]]

QuotaSpec == Opened /\ [][Put \/ Remove]_stored
=============================================================================
