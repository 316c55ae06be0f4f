----------------------------- MODULE RateLimiter -----------------------------
(***************************************************************************)
(* Steps 4 and 5 of the XDP pipeline for ONE source: the blacklist check   *)
(* and the source's token bucket, with the blacklist entry that exhaustion *)
(* creates and userspace deletes.  As long as frames are handled one by    *)
(* one, buckets of different sources share nothing but the LRU map that    *)
(* holds them, so one source, whose entry may be evicted at any time,      *)
(* stands for all (XdpFilter shows it).                                    *)
(*                                                                         *)
(* credit, seen, lapsed and slips are history variables.  The first two    *)
(* are an exact bucket of the same capacity that earns KERN_PPS_LIMIT /    *)
(* NS_PER_SEC of a token in every nanosecond, fractions included: credit   *)
(* is kept in units of 1 / NS_PER_SEC of a token, and seen is the time of  *)
(* the last packet the two buckets were charged for.  The others tell of   *)
(* the blacklist entry that ought to shield a bucket in debt until the     *)
(* debt is repaid: lapsed, that it could not be written or was deleted     *)
(* within a second; slips, how many packets were charged after that.       *)
(***************************************************************************)
EXTENDS TokenBucket

CONSTANTS
  MaxClock,  \* bound on the clock
  MaxStep,   \* bound on one advance of the clock
  MaxSlips   \* bound on the packets charged to a bucket that lost its shield

ASSUME LimiterAssumption ==
  /\ MaxClock \in Nat
  /\ MaxClock < WORD     \* a __u64 of nanoseconds lasts for 584 years
  /\ MaxStep \in Nat \ {0}
  /\ MaxSlips \in Nat

VARIABLES
  clock,      \* bpf_ktime_get_ns()
  tb,         \* the source's entry of rate_map, or NoBucket
  blocked,    \* the source is in blacklist_map
  blockedAt,  \* history: when the program last tried to put it there
  verdict,    \* what happened to the last packet
  credit,     \* history: the exact bucket
  seen,       \* history: when the buckets were last charged
  lapsed,     \* history: the debt of the bucket has lost its shield
  slips       \* history: packets charged to it nevertheless

vars == <<clock, tb, blocked, blockedAt, verdict, credit, seen, lapsed, slips>>

HasBucket == tb # NoBucket

FullCredit == KERN_PPS_LIMIT * NS_PER_SEC

TypeOK ==
  /\ clock \in Nat
  /\ tb \in Bucket
  /\ blocked \in BOOLEAN
  /\ blockedAt \in Nat
  /\ verdict \in {"none", "pass", "blacklisted", "exhausted"}
  /\ credit \in Int
  /\ seen \in Nat
  /\ lapsed \in BOOLEAN
  /\ slips \in Nat

Init ==
  /\ clock = 0
  /\ tb = NoBucket
  /\ blocked = FALSE
  /\ blockedAt = 0
  /\ verdict = "none"
  /\ credit = FullCredit
  /\ seen = 0
  /\ lapsed = FALSE
  /\ slips = 0

-----------------------------------------------------------------------------

Tick ==
  \E d \in 1 .. MaxStep :
    /\ clock + d <= MaxClock
    /\ clock' = clock + d
    /\ UNCHANGED <<tb, blocked, blockedAt, verdict, credit, seen, lapsed,
                   slips>>

\* Mutant: the bucket is charged before the blacklist is consulted.
PacketBlacklistedCharged ==
  /\ blocked
  /\ tb' = IF HasBucket THEN TokenBucketCheck(tb, clock) ELSE tb
  /\ verdict' = "blacklisted"
  /\ UNCHANGED <<clock, blocked, blockedAt, credit, seen, lapsed, slips>>

\* The blacklist check comes first, so the bucket of a blocked source rests.
PacketBlacklisted ==
  /\ blocked
  /\ verdict' = "blacklisted"
  /\ UNCHANGED <<clock, tb, blocked, blockedAt, credit, seen, lapsed, slips>>

\* History: the bucket is out of debt.
Solvent == lapsed' = FALSE /\ slips' = 0

PacketFirst ==
  /\ ~ blocked
  /\ ~ HasBucket
  /\ tb' = FreshBucket(clock)
  /\ verdict' = "pass"
  /\ credit' = FullCredit - NS_PER_SEC
  /\ seen' = clock
  /\ Solvent
  /\ UNCHANGED <<clock, blocked, blockedAt>>

\* What the exact bucket holds just before a packet is charged now.
Accrued == AtMost(credit + (clock - seen) * KERN_PPS_LIMIT, FullCredit)

\* A plain hash refuses the blacklist entry when it is full, and nobody looks
\* at the return code.  What was charged stays charged.
PacketMetered ==
  /\ ~ blocked
  /\ HasBucket
  /\ slips < MaxSlips
  /\ tb' = TokenBucketCheck(tb, clock)
  /\ credit' = Accrued - NS_PER_SEC
  /\ seen' = clock
  /\ IF Exhausted(tb')
     THEN /\ verdict' = "exhausted"
          /\ \E room \in BOOLEAN : blocked' = room /\ lapsed' = ~ room
          /\ blockedAt' = clock
          /\ slips' = IF lapsed THEN slips + 1 ELSE slips
     ELSE /\ verdict' = "pass"
          /\ Solvent
          /\ UNCHANGED <<blocked, blockedAt>>
  /\ UNCHANGED clock

Packet == PacketBlacklisted \/ PacketFirst \/ PacketMetered

\* Userspace deletes the entry.  A brain that runs undisturbed does so when the
\* cooldown is over; after a failed save or a crash it may do so at any time.
Unblock ==
  /\ blocked
  /\ blocked' = FALSE
  /\ lapsed' = (lapsed \/ (Exhausted(tb) /\ clock < blockedAt + NS_PER_SEC))
  /\ UNCHANGED <<clock, tb, blockedAt, verdict, credit, seen, slips>>

\* A restarted brain writes the blocks of its checkpoint back, if there is room.
Restore ==
  /\ ~ blocked
  /\ blocked' = TRUE
  /\ UNCHANGED <<clock, tb, blockedAt, verdict, credit, seen, lapsed, slips>>

\* The LRU map gives the entry to another source.
Evict ==
  /\ HasBucket
  /\ tb' = NoBucket
  /\ UNCHANGED <<clock, blocked, blockedAt, verdict, credit, seen, lapsed,
                 slips>>

Next == Tick \/ Packet \/ Unblock \/ Restore \/ Evict

Spec == Init /\ [][Next]_vars

-----------------------------------------------------------------------------

\* The bucket never lets a packet pass that an exact bucket of the same
\* capacity and rate would drop: rounding the refill down, keeping last_time
\* while no whole token was earned and the capacity clamp of
\* token_bucket_check() together never create a token.
NeverMoreGenerous == verdict = "pass" => credit >= 0

\* elapsed_ns * KERN_PPS_LIMIT has never exceeded the word since the machine
\* booted (for 213 days of uptime at 1000 packets a second).
Unwrapped == clock * KERN_PPS_LIMIT < WORD

\* Unlike the aggregate bucket, the bucket of a source has no floor.  The
\* blacklist check replaces it: every token of debt beyond the first is a packet
\* that was charged because the blacklist was full, or because userspace lifted
\* the block within a second of it.  However blocks, restored blocks, packets
\* and evictions follow each other, nothing else deepens a debt.
DebtBounded == (HasBucket /\ Unwrapped) => tb.tokens >= -1 - slips

\* A debt is forgiven by silence alone: who has been silent for as long as the
\* limit takes to earn two tokens, and one for every packet that slipped past a
\* failed shield, passes again unless it is blacklisted, whatever it did before.
SilencePays ==
  [][ (/\ PacketMetered
       /\ Unwrapped
       /\ (clock - seen) * KERN_PPS_LIMIT >= (slips + 2) * NS_PER_SEC)
      => verdict' = "pass" ]_vars

=============================================================================
