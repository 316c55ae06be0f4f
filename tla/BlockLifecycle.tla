--------------------------- MODULE BlockLifecycle ---------------------------
(***************************************************************************)
(* What FluxGuard promises the sources it blocks: the kernel may block a   *)
(* source at any time, and a block is lifted no sooner than MIN_BLOCK      *)
(* seconds after it began.  A lifted block may be resumed, which promises  *)
(* nothing new.                                                            *)
(*                                                                         *)
(* The promise is a weaker one after a disturbance, a system call that     *)
(* failed or a process that died: it then holds for the first block of a   *)
(* source only.  A reboot, which loses the maps and starts the monotonic   *)
(* clock again, ends it.                                                   *)
(***************************************************************************)
EXTENDS Integers

CONSTANTS
  Ips,       \* source addresses
  MIN_BLOCK  \* a block lasts at least this long

VARIABLES
  clock,     \* seconds since the system booted
  blocked,   \* the sources that are blocked
  since,     \* when the block of a source began
  lifted,    \* the sources whose first block is over
  disturbed  \* something failed

vars == <<clock, blocked, since, lifted, disturbed>>

Init ==
  /\ clock = 0
  /\ blocked = {}
  /\ since \in [Ips -> Int]
  /\ lifted = {}
  /\ disturbed = FALSE

Elapse ==
  /\ clock' > clock
  /\ UNCHANGED <<blocked, since, lifted, disturbed>>

Block(ip) ==
  /\ ip \notin blocked
  /\ blocked' = blocked \cup {ip}
  /\ since' = [since EXCEPT ![ip] = clock]
  /\ UNCHANGED <<clock, lifted, disturbed>>

Resume(ip) ==
  /\ ip \notin blocked
  /\ blocked' = blocked \cup {ip}
  /\ UNCHANGED <<clock, since, lifted, disturbed>>

Lift(ip) ==
  /\ ip \in blocked
  /\ \/ clock - since[ip] >= MIN_BLOCK
     \/ disturbed /\ ip \in lifted
  /\ blocked' = blocked \ {ip}
  /\ lifted' = lifted \cup {ip}
  /\ UNCHANGED <<clock, since, disturbed>>

Disturb ==
  /\ disturbed' = TRUE
  /\ UNCHANGED <<clock, blocked, since, lifted>>

Reboot ==
  /\ clock' = 0
  /\ blocked' = {}
  /\ lifted' = Ips
  /\ disturbed' = TRUE
  /\ UNCHANGED since

Next ==
  \/ Elapse
  \/ \E ip \in Ips : Block(ip) \/ Resume(ip) \/ Lift(ip)
  \/ Disturb
  \/ Reboot

Spec == Init /\ [][Next]_vars

=============================================================================
