----------------------------- MODULE MCXdpFilter -----------------------------
(***************************************************************************)
(* XdpFilter for TLC.  Map capacities are so small that two sources of a   *)
(* family compete for one entry.                                           *)
(***************************************************************************)
EXTENDS XdpFilter, TLC

CONSTANTS a, b

Symmetry == Permutations(V4) \cup Permutations(V6)
=============================================================================
