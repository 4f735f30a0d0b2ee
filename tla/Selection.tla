----------------------------- MODULE Selection -----------------------------
(***************************************************************************)
(* A list with some of its members taken out, as the code takes clients    *)
(* out of an ACL and messages out of a queue or a table. It is SelectSeq,  *)
(* defined without recursion so that it can be proved about.               *)
(***************************************************************************)
EXTENDS Naturals, FiniteSets, Sequences

\* The i-th smallest of the numbers K.
Nth(K, i) == CHOOSE k \in K : Cardinality({j \in K : j <= k}) = i

\* The members of s that are not gone, in order.
OutOf(s, gone) ==
    LET kept == {i \in DOMAIN s : s[i] \notin gone}
    IN  [i \in 1..Cardinality(kept) |-> s[Nth(kept, i)]]
============================================================================
