----------------------------- MODULE MCEventRing -----------------------------
(***************************************************************************)
(* EventRing for TLC.  13 words hold two records and a part of a third, so *)
(* that every record of the next round lies across another boundary.       *)
(***************************************************************************)
EXTENDS EventRing, TLC

CONSTANTS c1, c2, a, ra, x

Swap == (a :> ra) @@ (ra :> a)

\* A record of one word to skip, one without a length, which ends a drain, and
\* one of two words, which leads to where an event names its source.
Lengths == {[skip |-> TRUE,  words |-> 1], [skip |-> TRUE,  words |-> 0],
            [skip |-> FALSE, words |-> 2]}
=============================================================================
