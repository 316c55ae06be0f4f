----------------------------- MODULE TokenBucket -----------------------------
(***************************************************************************)
(* The two token buckets of the XDP program (fluxguard_kern.c): the per    *)
(* source bucket of token_bucket_check() and the aggregate bucket that     *)
(* fluxguard_filter() inlines for Shields-Up mode.                         *)
(*                                                                         *)
(* Both work on a __u64 clock and a signed token count.  The product of    *)
(* the elapsed time and the rate is computed in __u64, so it is reduced    *)
(* modulo WORD (2^64 in the program) before the division, and so is the    *)
(* difference of the two time stamps.                                      *)
(***************************************************************************)
EXTENDS Integers

CONSTANTS
  KERN_PPS_LIMIT,    \* capacity and refill rate (tokens per second) of a source
  GLOBAL_PPS_LIMIT,  \* the same of the aggregate bucket
  GLOBAL_REFILL_NS,  \* the aggregate bucket refills only after more than this
  GLOBAL_DEBT,       \* the aggregate bucket never sinks below -GLOBAL_DEBT
  NS_PER_SEC,        \* nanoseconds in a second
  WORD               \* number of values of a __u64

ASSUME BucketAssumption ==
  /\ KERN_PPS_LIMIT \in Nat \ {0}
  /\ GLOBAL_PPS_LIMIT \in Nat \ {0}
  /\ GLOBAL_REFILL_NS \in Nat
  /\ GLOBAL_DEBT \in Nat \ {0}
  /\ NS_PER_SEC \in Nat \ {0}
  /\ WORD \in Nat \ {0}

Bucket == [last_time : Nat, tokens : Int]

\* A source without an entry in rate_map: no bucket holds that many tokens.
NoBucket == [last_time |-> 0, tokens |-> KERN_PPS_LIMIT + 1]

AtMost(n, cap) == IF n > cap THEN cap ELSE n

Elapsed(tb, now) == (now - tb.last_time) % WORD

\* Mutant: the product is computed in a narrower word.
RefillNarrow(elapsed, rate) ==
  ((elapsed * rate) % (WORD \div 8)) \div NS_PER_SEC

Refill(elapsed, rate) == ((elapsed * rate) % WORD) \div NS_PER_SEC

-----------------------------------------------------------------------------

\* Mutants: the first packet is charged twice, and its time stamp lies in the
\* past.
FreshBucketShort(now) == [last_time |-> now, tokens |-> KERN_PPS_LIMIT - 2]
FreshBucketBackdated(now) ==
  [last_time |-> now - 1, tokens |-> KERN_PPS_LIMIT - 1]

FreshBucket(now) == [last_time |-> now, tokens |-> KERN_PPS_LIMIT - 1]

\* Mutant: the clamp is missing.
RefilledUnclamped(tb, now) ==
  LET refill == Refill(Elapsed(tb, now), KERN_PPS_LIMIT)
  IN  IF refill > 0
      THEN [last_time |-> now, tokens |-> tb.tokens + refill]
      ELSE tb

\* last_time moves only when at least one whole token was earned.
Refilled(tb, now) ==
  LET refill == Refill(Elapsed(tb, now), KERN_PPS_LIMIT)
  IN  IF refill > 0
      THEN [last_time |-> now,
            tokens    |-> AtMost(tb.tokens + refill, KERN_PPS_LIMIT)]
      ELSE tb

\* The bucket token_bucket_check() leaves behind ...
TokenBucketCheck(tb, now) == [Refilled(tb, now) EXCEPT !.tokens = @ - 1]

\* ... and its verdict on that bucket: 1 = DROP.
Exhausted(tb) == tb.tokens < 0

-----------------------------------------------------------------------------

\* Mutant: the time stamp does not move.
GlobalRefilledAgain(gtb, now) ==
  LET elapsed == Elapsed(gtb, now)
  IN  IF elapsed > GLOBAL_REFILL_NS
      THEN [gtb EXCEPT
              !.tokens = AtMost(@ + Refill(elapsed, GLOBAL_PPS_LIMIT),
                                GLOBAL_PPS_LIMIT)]
      ELSE gtb

GlobalRefilled(gtb, now) ==
  LET elapsed == Elapsed(gtb, now)
  IN  IF elapsed > GLOBAL_REFILL_NS
      THEN [last_time |-> now,
            tokens    |-> AtMost(gtb.tokens + Refill(elapsed, GLOBAL_PPS_LIMIT),
                                 GLOBAL_PPS_LIMIT)]
      ELSE gtb

\* Mutant: the floor is missing.
GlobalCheckBottomless(gtb, now) ==
  [GlobalRefilled(gtb, now) EXCEPT !.tokens = @ - 1]

\* The floor lies below zero, so that the bucket left behind still tells the
\* verdict: Exhausted.
GlobalCheck(gtb, now) ==
  LET spent == GlobalRefilled(gtb, now).tokens - 1
  IN  [GlobalRefilled(gtb, now) EXCEPT
         !.tokens = IF spent < -GLOBAL_DEBT THEN -GLOBAL_DEBT ELSE spent]

=============================================================================
