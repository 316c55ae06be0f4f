------------------------------- MODULE MCTools -------------------------------
(***************************************************************************)
(* Tools for TLC: two IPv4 addresses that compete for one entry, and an    *)
(* IPv6 address; the threads of the API are alike.                         *)
(***************************************************************************)
EXTENDS Tools, TLC

CONSTANTS a, b, x, w

Symmetry == Permutations(V4) \cup Permutations(Workers)

Touched ==
  acked \cup disputed \cup UNION {entries[g] : g \in Generations}
    \cup UNION {request[t].of : t \in Threads}

\* Bound: requests for several addresses meet during the first load only.
Bounded == loads < 2 \/ Cardinality(Touched) <= 1

BoundedSpec == Init /\ [][Next /\ Bounded']_vars
=============================================================================
