------------------------------ MODULE MCMonitor ------------------------------
(***************************************************************************)
(* Monitor for TLC: a source of each family, of which x may be blocked and *)
(* a competes with it for the only row of the dashboard.                   *)
(***************************************************************************)
EXTENDS Monitor

CONSTANTS a, x

\* Bound: the second source sends only where nothing is disturbed, and the
\* timers are those of the first.
Bounded ==
  /\ a \notin blacklist \cup timed
  /\ sent[a] > 0 => count.faults + count.crashes = 0 /\ v6_fds \in {0, 3}

BoundedSpec == Init /\ [][Next /\ Bounded']_vars /\ Fairness
=============================================================================
