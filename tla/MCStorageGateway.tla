-------------------------- MODULE MCStorageGateway --------------------------
(* The gateway in front of two storage nodes.                              *)
EXTENDS StorageGateway

CONSTANTS r1, s1, s2

\* A seed near the end of a word of 8: the sum with an index of 1 is the last.
HighSeed == [r \in Roots |-> 6]

\* Without a live node the registrations on the chain are asked.
SecondOnly == <<s2>>

\* Good and bad indexes; 2 is one too many.
Uploads == {<<0, TRUE>>, <<1, TRUE>>, <<2, TRUE>>}
=============================================================================
