-------------------------------- MODULE Orders --------------------------------
(* The elements of a finite set of numbers, each once, the smallest first.   *)
EXTENDS Naturals, FiniteSets

Ascending(S) ==
  CHOOSE s \in [1 .. Cardinality(S) -> S] :
    \A j, k \in 1 .. Cardinality(S) : j < k => s[j] < s[k]

===============================================================================
