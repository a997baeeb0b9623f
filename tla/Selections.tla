---------------------------- MODULE Selections ----------------------------
(* Elements picked out of a sequence in their order, without recursion.    *)
EXTENDS Naturals, Sequences, FiniteSets, Functions

Elems(s) == {s[i] : i \in DOMAIN s}

\* The sequence of what s has at the positions K: a set of that one sequence.
Selections(s, K) ==
  {[i \in 1..Cardinality(K) |-> s[f[i]]] :
     f \in {g \in Bijection(1..Cardinality(K), K) :
              \A i, j \in 1..Cardinality(K) : i < j => g[i] < g[j]}}
=============================================================================
