-------------------------------- MODULE Lists --------------------------------
(***************************************************************************)
(* A Redis list, as a sequence whose head is the next to be popped, and    *)
(* the rows of a query in whatever order it returns them.                  *)
(***************************************************************************)
EXTENDS Naturals, Sequences, FiniteSets

Elements(s) == {s[i] : i \in DOMAIN s}

\* The sequences in which a set of entries can be pushed, or of rows returned.
Orders(S) == {s \in [1..Cardinality(S) -> S] : Elements(s) = S}
==============================================================================
