---------------------------- MODULE MCFederation ----------------------------
(* A host and containers.                                                   *)
EXTENDS Federation

CONSTANTS host, c1, c2, c1x

Names == {host, c1, c2, c1x}

(* Names that leave room for their end in the heap block they are read to.  *)
AsSent == [n \in Names |-> {n}]

(* The name of c1 fills its block: it may be read with foreign bytes.       *)
WithForeignBytes == [n \in Names |-> IF n = c1 THEN {c1, c1x} ELSE {n}]
=============================================================================
