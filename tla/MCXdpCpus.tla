------------------------------ MODULE MCXdpCpus ------------------------------
(***************************************************************************)
(* XdpCpus for TLC.  An insertion may take any element nobody is linking,  *)
(* the one another CPU has a pointer to among them.  CPUs and elements are *)
(* interchangeable; sources are not made so, because the registers of an   *)
(* idle CPU name one of them.                                              *)
(***************************************************************************)
EXTENDS XdpCpus, TLC

CONSTANTS c1, c2, a, b, e1, e2

Symmetry == Permutations(Cpus) \cup Permutations(Elements)
=============================================================================
