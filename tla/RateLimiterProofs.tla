-------------------------- MODULE RateLimiterProofs --------------------------
(***************************************************************************)
(* What the integer arithmetic of token_bucket_check() guarantees for      *)
(* every rate and word width.                                              *)
(***************************************************************************)
EXTENDS RateLimiter, TokenBucketProofs

\* Time never runs ahead of its bound, and packets are charged in the past.
Causal ==
  /\ clock <= MaxClock
  /\ seen <= clock
  /\ HasBucket => tb.last_time <= seen

\* What the bucket had earned, but not refilled, when it was last charged.
Residue == ((seen - tb.last_time) * KERN_PPS_LIMIT) % WORD

\* The bucket and its residue are covered by the exact bucket.
Covered ==
  HasBucket => /\ tb.tokens <= KERN_PPS_LIMIT - 1
               /\ tb.tokens * NS_PER_SEC + Residue <= credit

CreditInv == TypeOK /\ Causal /\ Covered /\ NeverMoreGenerous

\* While no product wraps around, a bucket in debt is shielded by a blacklist
\* entry that is as young as the debt, or old enough to be repaid by a refill,
\* or its lost shield is on record.
Shielded ==
  (HasBucket /\ Unwrapped /\ tb.tokens < 0)
     => \/ blocked /\ blockedAt >= tb.last_time
        \/ clock >= tb.last_time + NS_PER_SEC
        \/ lapsed

DebtInv == TypeOK /\ Causal /\ DebtBounded /\ Shielded

-----------------------------------------------------------------------------

\* The difference of the time stamps is the elapsed time: no wrap-around.
LEMMA ElapsedExact ==
  ASSUME TypeOK, Causal, HasBucket
  PROVE  /\ Elapsed(tb, clock) = clock - tb.last_time
         /\ clock - tb.last_time \in Nat
         /\ clock - tb.last_time <= MaxClock
<1>1. /\ clock \in Nat /\ tb.last_time \in Nat /\ tb \in Bucket
      /\ tb.last_time <= clock /\ clock <= MaxClock /\ clock < WORD
  BY LimiterAssumption, BucketAssumption DEF TypeOK, Causal, Bucket
<1> QED
  BY <1>1, ElapsedIsExact, LimiterAssumption

\* The bucket after a charge: the two cases of "if (refill > 0)".
LEMMA ChargeCases ==
  ASSUME TypeOK, Causal, HasBucket
  PROVE  LET refill == Refill(clock - tb.last_time, KERN_PPS_LIMIT)
             next   == TokenBucketCheck(tb, clock)
         IN  /\ refill \in Nat
             /\ refill > 0
                  => /\ next.last_time = clock
                     /\ next.tokens
                          = AtMost(tb.tokens + refill, KERN_PPS_LIMIT) - 1
             /\ refill = 0
                  => /\ next.last_time = tb.last_time
                     /\ next.tokens = tb.tokens - 1
             /\ next \in Bucket
<1>1. Elapsed(tb, clock) = clock - tb.last_time
  BY ElapsedExact
<1> DEFINE refill == Refill(Elapsed(tb, clock), KERN_PPS_LIMIT)
           next   == TokenBucketCheck(tb, clock)
<1>2. /\ refill \in Nat
      /\ refill > 0
           => /\ next.last_time = clock
              /\ next.tokens = AtMost(tb.tokens + refill, KERN_PPS_LIMIT) - 1
      /\ refill = 0
           => next.last_time = tb.last_time /\ next.tokens = tb.tokens - 1
      /\ next \in Bucket
  BY CheckCases DEF TypeOK
<1>3. refill = Refill(clock - tb.last_time, KERN_PPS_LIMIT)
  BY <1>1
<1> HIDE DEF refill, next
<1> QED
  BY <1>2, <1>3 DEF next

-----------------------------------------------------------------------------

\* The initial state is well typed: NoBucket is a bucket no packet can make.
LEMMA InitTypeOK == Init => TypeOK
<1>1. FullCredit \in Int
  BY BucketAssumption DEF FullCredit
<1>2. NoBucket \in Bucket
  BY BucketAssumption DEF NoBucket, Bucket
<1>3. 0 \in Nat
  OBVIOUS
<1> QED
  BY <1>1, <1>2, <1>3, Zenon DEF Init, TypeOK

\* Every action keeps every variable in its type, whatever the constants.
THEOREM TypeCorrect == Spec => []TypeOK
<1>1. Init => TypeOK
  BY InitTypeOK
<1>2. TypeOK /\ [Next]_vars => TypeOK'
  <2> SUFFICES ASSUME TypeOK, [Next]_vars PROVE TypeOK'
    OBVIOUS
  <2>1. CASE Tick
    BY <2>1, LimiterAssumption DEF Tick, TypeOK
  <2>2. CASE PacketBlacklisted
    BY <2>2 DEF PacketBlacklisted, TypeOK
  <2> USE DEF Solvent
  <2>3. CASE PacketFirst
    <3>1. tb' \in Bucket
      BY <2>3, BucketAssumption DEF PacketFirst, TypeOK, FreshBucket, Bucket
    <3>2. credit' \in Int
      BY <2>3, MulNat, BucketAssumption DEF PacketFirst, FullCredit
    <3> QED
      BY <2>3, <3>1, <3>2 DEF PacketFirst, TypeOK
  <2>4. CASE PacketMetered
    <3>1. tb' \in Bucket
      <4>1. tb' = TokenBucketCheck(tb, clock)
        BY <2>4 DEF PacketMetered
      <4> QED
        BY <4>1, CheckCases DEF TypeOK
    <3>2. credit' \in Int
      <4>1. (clock - seen) * KERN_PPS_LIMIT \in Int /\ FullCredit \in Int
        BY BucketAssumption DEF TypeOK, FullCredit
      <4>2. Accrued \in Int
        BY <4>1 DEF TypeOK, Accrued, AtMost
      <4> QED
        BY <2>4, <4>2, BucketAssumption DEF PacketMetered
    <3>3. /\ blocked' \in BOOLEAN /\ blockedAt' \in Nat
          /\ lapsed' \in BOOLEAN /\ slips' \in Nat
      <4>1. blocked' \in BOOLEAN /\ lapsed' \in BOOLEAN
        BY <2>4, Zenon DEF PacketMetered, TypeOK
      <4>2. blockedAt' \in Nat /\ slips' \in Nat
        BY <2>4 DEF PacketMetered, TypeOK
      <4> QED
        BY <4>1, <4>2
    <3> QED
      BY <2>4, <3>1, <3>2, <3>3 DEF PacketMetered, TypeOK
  <2>5. CASE Unblock
    BY <2>5 DEF Unblock, TypeOK
  <2>6. CASE Restore
    BY <2>6, LimiterAssumption DEF Restore, TypeOK
  <2>7. CASE Evict
    BY <2>7, BucketAssumption DEF Evict, TypeOK, NoBucket, Bucket
  <2>8. CASE UNCHANGED vars
    BY <2>8 DEF vars, TypeOK
  <2> QED
    BY <2>1, <2>2, <2>3, <2>4, <2>5, <2>6, <2>7, <2>8 DEF Next, Packet
<1> QED
  BY <1>1, <1>2, PTL DEF Spec

-----------------------------------------------------------------------------

\* Buckets are only charged now, and the clock only moves forward within its
\* bound, so the difference of two time stamps never wraps around.
LEMMA CausalInvariant ==
  /\ Init => Causal
  /\ TypeOK /\ Causal /\ [Next]_vars => Causal'
<1>1. Init => Causal
  BY LimiterAssumption DEF Init, Causal, HasBucket
<1>2. TypeOK /\ Causal /\ [Next]_vars => Causal'
  <2> SUFFICES ASSUME TypeOK, Causal, [Next]_vars PROVE Causal'
    OBVIOUS
  <2> USE DEF HasBucket
  <2>1. CASE Tick
    BY <2>1, LimiterAssumption DEF Tick, TypeOK, Causal
  <2>2. CASE PacketBlacklisted
    BY <2>2 DEF PacketBlacklisted, Causal
  <2>3. CASE PacketFirst
    BY <2>3 DEF PacketFirst, TypeOK, Causal, FreshBucket
  <2>4. CASE PacketMetered
    <3>1. tb'.last_time = clock \/ tb'.last_time = tb.last_time
      BY <2>4, ChargeCases DEF PacketMetered
    <3>2. seen' = clock /\ clock' = clock
      BY <2>4 DEF PacketMetered
    <3>3. tb.last_time <= clock
      BY <2>4 DEF PacketMetered, Causal, TypeOK, Bucket
    <3> QED
      BY <3>1, <3>2, <3>3 DEF Causal, TypeOK
  <2>5. CASE Unblock
    BY <2>5 DEF Unblock, Causal
  <2>6. CASE Restore
    BY <2>6 DEF Restore, Causal
  <2>7. CASE Evict
    BY <2>7 DEF Evict, Causal
  <2>8. CASE UNCHANGED vars
    BY <2>8 DEF vars, Causal
  <2> QED
    BY <2>1, <2>2, <2>3, <2>4, <2>5, <2>6, <2>7, <2>8 DEF Next, Packet
<1> QED
  BY <1>1, <1>2

\* One charge keeps the bucket covered by the exact one.
LEMMA ChargeCovered ==
  ASSUME CreditInv, PacketMetered
  PROVE  /\ tb'.tokens <= KERN_PPS_LIMIT - 1
         /\ tb'.tokens * NS_PER_SEC + Residue' <= credit'
<1> DEFINE K      == KERN_PPS_LIMIT
           N      == NS_PER_SEC
           t      == tb.tokens
           old    == (seen - tb.last_time) * K
           earned == (clock - seen) * K
           all    == (clock - tb.last_time) * K
           left   == old % WORD
           due    == all % WORD
           refill == Refill(clock - tb.last_time, K)
           clamp  == AtMost(t + refill, K)
<1>1. /\ t \in Int /\ tb.last_time \in Nat /\ seen \in Nat
      /\ clock \in Nat /\ credit \in Int /\ HasBucket
      /\ tb.last_time <= seen /\ seen <= clock
      /\ t <= K - 1
  BY DEF CreditInv, TypeOK, Causal, Covered, Bucket, PacketMetered
<1>2. K \in Nat \ {0} /\ N \in Nat \ {0} /\ WORD \in Nat \ {0}
  BY BucketAssumption
<1>3. t * N + left <= credit
  BY DEF CreditInv, Covered, Residue, PacketMetered
<1>4. old \in Nat /\ earned \in Nat /\ all = old + earned
  <2>1. /\ seen - tb.last_time \in Nat /\ clock - seen \in Nat
        /\ clock - tb.last_time = (seen - tb.last_time) + (clock - seen)
    BY <1>1
  <2> QED
    BY <1>2, <2>1, MulNat, MulDistributes
<1>5. refill \in Nat /\ refill * N <= due /\ (refill = 0 => due < N)
  <2>1. clock - tb.last_time \in Nat
    BY <1>1
  <2> QED
    BY <2>1, <1>2, RefillBounds
<1>6. /\ seen' = clock
      /\ credit' = AtMost(credit + earned, K * N) - N
  BY DEF PacketMetered, Accrued, FullCredit
<1>7. /\ refill > 0 => tb'.last_time = clock /\ tb'.tokens = clamp - 1
      /\ refill = 0 => tb'.last_time = tb.last_time /\ tb'.tokens = t - 1
  <2>1. TypeOK /\ Causal /\ HasBucket /\ tb' = TokenBucketCheck(tb, clock)
    BY DEF CreditInv, PacketMetered
  <2> QED
    BY <2>1, ChargeCases
<1>8. refill > 0 => Residue' = 0
  <2> SUFFICES ASSUME refill > 0 PROVE Residue' = 0
    OBVIOUS
  <2>1. Residue' = ((clock - clock) * K) % WORD
    BY <1>6, <1>7 DEF Residue
  <2>2. (clock - clock) * K = 0
    BY <1>1, <1>2
  <2> QED
    BY <1>2, <2>1, <2>2, ModFits
<1>9. refill = 0 => Residue' = due
  BY <1>6, <1>7 DEF Residue
<1> HIDE DEF old, earned, all, refill
<1>10. left \in Nat /\ due \in Nat /\ due <= left + earned
  BY <1>2, <1>4, ModAdd, ModBounds
<1>11. /\ t * N \in Int /\ refill * N \in Int /\ K * N \in Int
       /\ (t + refill) * N = t * N + refill * N
       /\ (t - 1) * N = t * N - N
  BY <1>1, <1>2, <1>5, MulDistributes
<1>12. t * N <= K * N - N
  <2>1. t * N <= (K - 1) * N
    BY <1>1, <1>2, MulMonotonic
  <2>2. (K - 1) * N = K * N - N
    BY <1>2, MulDistributes
  <2> QED
    BY <2>1, <2>2
<1>13. /\ clamp \in Int /\ clamp <= K /\ clamp <= t + refill
       /\ clamp * N \in Int
       /\ (clamp - 1) * N = clamp * N - N
       /\ clamp * N <= K * N /\ clamp * N <= (t + refill) * N
  <2>1. clamp \in Int /\ clamp <= K /\ clamp <= t + refill
    BY <1>1, <1>2, <1>5 DEF AtMost
  <2>2. K \in Int /\ t + refill \in Int /\ N \in Nat
    BY <1>1, <1>2, <1>5
  <2> HIDE DEF clamp, K, N, t
  <2> QED
    BY <2>1, <2>2, MulDistributes, MulMonotonic
<1> DEFINE tN == t * N
           gN == refill * N
           kN == K * N
           cN == clamp * N
<1>14. /\ tN \in Int /\ gN \in Int /\ kN \in Int /\ cN \in Int
       /\ tN + left <= credit
       /\ tN <= kN - N
       /\ gN <= due
       /\ cN <= kN /\ cN <= tN + gN
       /\ credit' = AtMost(credit + earned, kN) - N
  BY <1>3, <1>5, <1>6, <1>11, <1>12, <1>13
<1>15. (t - 1) * N = tN - N /\ (clamp - 1) * N = cN - N
  BY <1>11, <1>13
<1> HIDE DEF tN, gN, kN, cN, left, due, clamp, K, N, t
<1>16. CASE refill > 0
  <2>1. cN - N <= credit'
    BY <1>1, <1>2, <1>4, <1>10, <1>14 DEF AtMost
  <2>2. tb'.tokens = clamp - 1 /\ Residue' = 0
    BY <1>7, <1>8, <1>16
  <2>3. tb'.tokens * N + Residue' <= credit'
    BY <1>2, <1>14, <1>15, <2>1, <2>2
  <2> QED
    BY <1>2, <1>13, <2>2, <2>3 DEF K, N
<1>17. CASE refill = 0
  <2>1. tN + due - N <= credit'
    BY <1>1, <1>2, <1>4, <1>5, <1>10, <1>14, <1>17 DEF AtMost
  <2>2. tb'.tokens = t - 1 /\ Residue' = due
    BY <1>7, <1>9, <1>17
  <2>3. tb'.tokens * N + Residue' <= credit'
    BY <1>2, <1>10, <1>14, <1>15, <2>1, <2>2
  <2> QED
    BY <1>1, <1>2, <2>2, <2>3 DEF K, N
<1> QED
  BY <1>5, <1>16, <1>17

\* A step preserves the credit invariant: one step per action.
LEMMA CreditStep == CreditInv /\ TypeOK' /\ Causal' /\ [Next]_vars => CreditInv'
<1> SUFFICES ASSUME CreditInv, TypeOK', Causal', [Next]_vars
             PROVE  Covered' /\ NeverMoreGenerous'
  BY DEF CreditInv
<1> USE DEF CreditInv
<1>1. CASE Tick
  BY <1>1 DEF Tick, Covered, HasBucket, Residue, NeverMoreGenerous
<1>2. CASE PacketBlacklisted
  BY <1>2
     DEF PacketBlacklisted, Covered, HasBucket, Residue, NeverMoreGenerous
<1>3. CASE PacketFirst
  <2>1. /\ tb'.tokens = KERN_PPS_LIMIT - 1
        /\ tb'.last_time = clock
        /\ seen' = clock
        /\ credit' = KERN_PPS_LIMIT * NS_PER_SEC - NS_PER_SEC
    BY <1>3 DEF PacketFirst, FreshBucket, FullCredit
  <2>2. (clock - clock) * KERN_PPS_LIMIT = 0
    BY BucketAssumption DEF TypeOK
  <2>3. Residue' = 0
    BY <2>1, <2>2, ModFits, BucketAssumption DEF Residue
  <2>4. /\ (KERN_PPS_LIMIT - 1) * NS_PER_SEC
             = KERN_PPS_LIMIT * NS_PER_SEC - NS_PER_SEC
        /\ KERN_PPS_LIMIT * NS_PER_SEC \in Int
        /\ NS_PER_SEC \in Nat
    BY MulDistributes, BucketAssumption
  <2>5. Covered'
    BY <2>1, <2>3, <2>4, BucketAssumption DEF Covered
  <2>6. KERN_PPS_LIMIT - 1 \in Nat
    BY BucketAssumption
  <2>7. (KERN_PPS_LIMIT - 1) * NS_PER_SEC \in Nat
    BY <2>4, <2>6, MulNat
  <2>8. credit' >= 0
    BY <2>1, <2>4, <2>7
  <2> QED
    BY <2>5, <2>8 DEF NeverMoreGenerous
<1>4. CASE PacketMetered
  <2>1. /\ tb'.tokens <= KERN_PPS_LIMIT - 1
        /\ tb'.tokens * NS_PER_SEC + Residue' <= credit'
    BY <1>4, ChargeCovered
  <2>2. Covered'
    BY <2>1 DEF Covered
  <2>3. Residue' \in Nat /\ tb'.tokens \in Int /\ credit' \in Int
    <3>1. tb' \in Bucket /\ seen' = clock /\ clock \in Nat /\ credit' \in Int
      BY <1>4 DEF PacketMetered, TypeOK
    <3>2. (seen' - tb'.last_time) * KERN_PPS_LIMIT \in Int
      BY <3>1, BucketAssumption DEF Bucket
    <3> QED
      BY <3>1, <3>2, BucketAssumption DEF Bucket, Residue
  <2>4. verdict' = "pass" => tb'.tokens >= 0
    BY <1>4, <2>3 DEF PacketMetered, Exhausted
  <2>5. ASSUME tb'.tokens >= 0 PROVE credit' >= 0
    <3>1. tb'.tokens * NS_PER_SEC \in Nat
      BY <2>3, <2>5, MulNat, BucketAssumption
    <3> QED
      BY <2>1, <2>3, <3>1
  <2> QED
    BY <2>2, <2>4, <2>5 DEF NeverMoreGenerous
<1>5. CASE Unblock
  BY <1>5 DEF Unblock, Covered, HasBucket, Residue, NeverMoreGenerous
<1>6. CASE Restore
  BY <1>6 DEF Restore, Covered, HasBucket, Residue, NeverMoreGenerous
<1>7. CASE Evict
  BY <1>7 DEF Evict, Covered, HasBucket, NeverMoreGenerous
<1>8. CASE UNCHANGED vars
  BY <1>8 DEF vars, Covered, HasBucket, Residue, NeverMoreGenerous
<1> QED
  BY <1>1, <1>2, <1>3, <1>4, <1>5, <1>6, <1>7, <1>8 DEF Next, Packet

\* The rounding, the held-back time stamp, the clamp and the 64-bit overflow
\* of token_bucket_check() never let a packet pass that an exact bucket of the
\* same rate and capacity would have dropped.
THEOREM NeverMoreGenerousThanExact == Spec => []NeverMoreGenerous
<1>1. Init => CreditInv
  <2>1. Init => Covered /\ NeverMoreGenerous
    BY DEF Init, Covered, HasBucket, NeverMoreGenerous
  <2>2. Init => TypeOK
    BY InitTypeOK
  <2> QED
    BY <2>1, <2>2, CausalInvariant DEF CreditInv
<1>2. CreditInv /\ TypeOK' /\ [Next]_vars => CreditInv'
  BY CausalInvariant, CreditStep DEF CreditInv
<1>3. CreditInv => NeverMoreGenerous
  BY DEF CreditInv
<1> QED
  BY <1>1, <1>2, <1>3, TypeCorrect, PTL DEF Spec

-----------------------------------------------------------------------------

\* The clock does not wrap the word now if it does not a step later.
LEMMA UnwrappedBefore ==
  ASSUME TypeOK, clock' \in Nat, clock <= clock', Unwrapped'
  PROVE  Unwrapped
<1> DEFINE before == clock
           after  == clock'
<1>1. /\ before \in Nat /\ after \in Nat /\ before <= after
      /\ KERN_PPS_LIMIT \in Nat /\ WORD \in Nat
      /\ after * KERN_PPS_LIMIT < WORD
  BY BucketAssumption DEF TypeOK, Unwrapped
<1> HIDE DEF before, after
<1>2. before * KERN_PPS_LIMIT <= after * KERN_PPS_LIMIT
  BY <1>1, MulMonotonic
<1>3. before * KERN_PPS_LIMIT \in Nat /\ after * KERN_PPS_LIMIT \in Nat
  BY <1>1, MulNat
<1>4. before * KERN_PPS_LIMIT < WORD
  BY <1>1, <1>2, <1>3
<1> QED
  BY <1>4 DEF Unwrapped, before

\* An elapsed time that earns so many tokens refills so many.
LEMMA RefillEarned ==
  ASSUME TypeOK, Causal, HasBucket, Unwrapped, NEW n \in Nat,
         (clock - tb.last_time) * KERN_PPS_LIMIT >= n * NS_PER_SEC
  PROVE  Refill(clock - tb.last_time, KERN_PPS_LIMIT) >= n
<1> DEFINE e == clock - tb.last_time
<1>1. e \in Nat /\ e <= clock /\ clock \in Nat
  BY ElapsedExact DEF TypeOK, Bucket
<1>2. e * KERN_PPS_LIMIT <= clock * KERN_PPS_LIMIT
  BY <1>1, MulMonotonic, BucketAssumption
<1>3. e * KERN_PPS_LIMIT \in Nat /\ clock * KERN_PPS_LIMIT \in Nat
  BY <1>1, MulNat, BucketAssumption
<1>4. e * KERN_PPS_LIMIT < WORD
  BY <1>2, <1>3, BucketAssumption DEF Unwrapped
<1> QED
  BY <1>1, <1>4, RefillReaches, BucketAssumption

\* What one charge does to a bucket, shielded or not.
LEMMA ChargeShielded ==
  ASSUME DebtInv, PacketMetered, Unwrapped
  PROVE  /\ tb'.tokens < 0 => tb'.tokens >= -1 - slips'
         /\ (clock - seen) * KERN_PPS_LIMIT >= (slips + 2) * NS_PER_SEC
              => tb'.tokens >= 0
<1> DEFINE refill == Refill(clock - tb.last_time, KERN_PPS_LIMIT)
<1>1. /\ TypeOK /\ Causal /\ HasBucket
      /\ tb' = TokenBucketCheck(tb, clock)
      /\ tb.tokens \in Int /\ slips \in Nat
      /\ tb.tokens >= -1 - slips
  BY DEF DebtInv, DebtBounded, PacketMetered, TypeOK, Bucket
<1>2. /\ refill \in Nat
      /\ refill > 0
           => tb'.tokens = AtMost(tb.tokens + refill, KERN_PPS_LIMIT) - 1
      /\ refill = 0 => tb'.tokens = tb.tokens - 1
      /\ tb' \in Bucket
  BY <1>1, ChargeCases
<1>3. /\ clock \in Nat /\ seen \in Nat /\ tb.last_time \in Nat
      /\ tb.last_time <= seen /\ seen <= clock
  BY <1>1 DEF TypeOK, Causal, Bucket
<1>4. ASSUME clock >= tb.last_time + NS_PER_SEC PROVE refill >= 1
  <2>1. clock - tb.last_time >= NS_PER_SEC
    BY <1>3, <1>4, BucketAssumption
  <2>2. clock - tb.last_time \in Nat
    BY <1>3
  <2>3. (clock - tb.last_time) * 1 <= (clock - tb.last_time) * KERN_PPS_LIMIT
    <3>1. 1 * (clock - tb.last_time)
            <= KERN_PPS_LIMIT * (clock - tb.last_time)
      BY <2>2, MulMonotonic, BucketAssumption
    <3> QED
      BY <3>1, <2>2, BucketAssumption
  <2>4. (clock - tb.last_time) * KERN_PPS_LIMIT \in Nat
    BY <2>2, MulNat, BucketAssumption
  <2>5. (clock - tb.last_time) * KERN_PPS_LIMIT >= 1 * NS_PER_SEC
    BY <2>1, <2>2, <2>3, <2>4, BucketAssumption
  <2> QED
    BY <1>1, <2>5, RefillEarned
<1>5. ASSUME (clock - seen) * KERN_PPS_LIMIT >= (slips + 2) * NS_PER_SEC
      PROVE  refill >= slips + 2
  <2>1. (clock - seen) * KERN_PPS_LIMIT
          <= (clock - tb.last_time) * KERN_PPS_LIMIT
    BY <1>3, MulMonotonic, BucketAssumption
  <2>2. /\ (clock - seen) * KERN_PPS_LIMIT \in Int
        /\ (clock - tb.last_time) * KERN_PPS_LIMIT \in Int
        /\ (slips + 2) * NS_PER_SEC \in Int
    BY <1>1, <1>3, BucketAssumption
  <2>3. (clock - tb.last_time) * KERN_PPS_LIMIT >= (slips + 2) * NS_PER_SEC
    BY <1>5, <2>1, <2>2
  <2>4. slips + 2 \in Nat
    BY <1>1
  <2> QED
    BY <1>1, <2>3, <2>4, RefillEarned
<1>6. /\ Exhausted(tb') <=> tb'.tokens < 0
      /\ Exhausted(tb') => slips' = IF lapsed THEN slips + 1 ELSE slips
  BY DEF PacketMetered, Exhausted
<1>7. tb.tokens < 0 => clock >= tb.last_time + NS_PER_SEC \/ lapsed
  BY <1>1 DEF DebtInv, Shielded, PacketMetered
<1> HIDE DEF refill
<1>8. tb'.tokens < 0 => tb'.tokens >= -1 - slips'
  <2> SUFFICES ASSUME tb'.tokens < 0 PROVE tb'.tokens >= -1 - slips'
    OBVIOUS
  <2>1. CASE tb.tokens >= 0
    BY <1>1, <1>2, <1>6, <2>1, BucketAssumption DEF AtMost
  <2>2. CASE tb.tokens < 0 /\ lapsed
    BY <1>1, <1>2, <1>6, <2>2, BucketAssumption DEF AtMost
  <2>3. CASE tb.tokens < 0 /\ clock >= tb.last_time + NS_PER_SEC
    BY <1>1, <1>2, <1>4, <1>6, <2>3, BucketAssumption DEF AtMost
  <2> QED
    BY <1>1, <1>7, <2>1, <2>2, <2>3
<1>9. ASSUME (clock - seen) * KERN_PPS_LIMIT >= (slips + 2) * NS_PER_SEC
      PROVE  tb'.tokens >= 0
  BY <1>1, <1>2, <1>5, <1>9, BucketAssumption DEF AtMost
<1> QED
  BY <1>8, <1>9

\* A step preserves the debt invariant: a charge leaves a debt only together
\* with a fresh blacklist entry, or with the record that there was no room for
\* one, and an entry that is deleted before it repaid the debt is on record.
LEMMA DebtStep ==
  DebtInv /\ TypeOK' /\ Causal' /\ [Next]_vars => DebtInv'
<1> SUFFICES ASSUME DebtInv, TypeOK', Causal', [Next]_vars, HasBucket',
                    Unwrapped'
             PROVE  /\ tb'.tokens >= -1 - slips'
                    /\ tb'.tokens < 0
                         => \/ blocked' /\ blockedAt' >= tb'.last_time
                            \/ clock' >= tb'.last_time + NS_PER_SEC
                            \/ lapsed'
  BY DEF DebtInv, DebtBounded, Shielded
<1>0. Unwrapped
  <2>1. clock \in Nat /\ clock' \in Nat
    BY DEF DebtInv, TypeOK
  <2>2. clock <= clock'
    BY <2>1 DEF Next, Tick, Packet, PacketBlacklisted, PacketFirst,
                PacketMetered, Unblock, Restore, Evict, vars
  <2> QED
    BY <2>1, <2>2, UnwrappedBefore DEF DebtInv
<1>a. HasBucket => /\ tb.tokens >= -1 - slips
                   /\ tb.tokens < 0
                        => \/ blocked /\ blockedAt >= tb.last_time
                           \/ clock >= tb.last_time + NS_PER_SEC
                           \/ lapsed
  BY <1>0 DEF DebtInv, DebtBounded, Shielded
<1>b. /\ clock \in Nat /\ tb \in Bucket /\ blockedAt \in Nat /\ slips \in Nat
      /\ tb.tokens \in Int /\ tb.last_time \in Nat
      /\ blocked \in BOOLEAN /\ lapsed \in BOOLEAN
  BY DEF DebtInv, TypeOK, Bucket
<1>1. CASE Tick
  BY <1>1, <1>a, <1>b, BucketAssumption DEF Tick, HasBucket
<1>2. CASE PacketBlacklisted
  BY <1>2, <1>a DEF PacketBlacklisted, HasBucket
<1>3. CASE PacketFirst
  <2>1. tb'.tokens = KERN_PPS_LIMIT - 1 /\ slips' = 0
    BY <1>3 DEF PacketFirst, FreshBucket, Solvent
  <2> QED
    BY <2>1, BucketAssumption
<1>4. CASE PacketMetered
  <2>1. tb'.tokens < 0 => tb'.tokens >= -1 - slips'
    BY <1>0, <1>4, ChargeShielded
  <2>2. tb'.last_time <= clock
    <3>1. tb'.last_time = clock \/ tb'.last_time = tb.last_time
      BY <1>4, ChargeCases DEF DebtInv, PacketMetered
    <3>2. tb.last_time <= clock /\ clock \in Nat
      BY <1>4 DEF DebtInv, Causal, PacketMetered, TypeOK, Bucket
    <3> QED
      BY <3>1, <3>2
  <2>3. tb'.tokens < 0 => (blocked' \/ lapsed') /\ blockedAt' = clock
    <3>1. Exhausted(tb') => (blocked' \/ lapsed') /\ blockedAt' = clock
      <4> SUFFICES ASSUME Exhausted(tb')
                   PROVE  (blocked' \/ lapsed') /\ blockedAt' = clock
        OBVIOUS
      <4>1. /\ \E room \in BOOLEAN : blocked' = room /\ lapsed' = ~ room
            /\ blockedAt' = clock
        BY <1>4, Zenon DEF PacketMetered
      <4>2. PICK room \in BOOLEAN : blocked' = room /\ lapsed' = ~ room
        BY <4>1
      <4> QED
        BY <4>1, <4>2
    <3> QED
      BY <3>1 DEF Exhausted
  <2>4. tb'.tokens \in Int /\ slips' \in Nat /\ tb'.last_time \in Nat
    BY DEF TypeOK, Bucket
  <2> QED
    BY <1>b, <2>1, <2>2, <2>3, <2>4
<1>5. CASE Unblock
  <2>1. lapsed' <=> (lapsed \/ (Exhausted(tb) /\ clock < blockedAt + NS_PER_SEC))
    BY <1>5, Zenon DEF Unblock
  <2>2. UNCHANGED <<clock, tb, blockedAt, slips>> /\ HasBucket
    BY <1>5 DEF Unblock, HasBucket
  <2> QED
    BY <2>1, <2>2, <1>a, <1>b, BucketAssumption DEF Exhausted
<1>6. CASE Restore
  BY <1>6, <1>a DEF Restore, HasBucket
<1>7. CASE Evict
  BY <1>7 DEF Evict, HasBucket
<1>8. CASE UNCHANGED vars
  BY <1>8, <1>a DEF vars, HasBucket
<1> QED
  BY <1>1, <1>2, <1>3, <1>4, <1>5, <1>6, <1>7, <1>8 DEF Next, Packet

\* The debt invariant holds initially: there is no bucket yet.
LEMMA DebtInit == Init => DebtInv
<1>1. Init => DebtBounded /\ Shielded
  BY DEF Init, DebtBounded, Shielded, HasBucket
<1> QED
  BY <1>1, InitTypeOK, CausalInvariant DEF DebtInv

\* A source's bucket needs no floor: every token of debt beyond the first is a
\* packet that slipped past a blacklist without room or a block lifted within a
\* second, whoever lifts blocks and whenever.
THEOREM DebtNeverGrows == Spec => []DebtBounded
<1>1. DebtInv /\ TypeOK' /\ [Next]_vars => DebtInv'
  BY DebtStep, CausalInvariant DEF DebtInv
<1>2. DebtInv => DebtBounded
  BY DEF DebtInv
<1> QED
  BY <1>1, <1>2, DebtInit, TypeCorrect, PTL DEF Spec

\* No history leaves a debt that silence does not repay at the rate of the
\* bucket: two tokens, and one for every packet that slipped.
THEOREM SilencePaysDebts == Spec => SilencePays
<1>1. DebtInv /\ TypeOK' /\ [Next]_vars => DebtInv'
  BY DebtStep, CausalInvariant DEF DebtInv
<1> DEFINE Passes ==
             (/\ PacketMetered
              /\ Unwrapped
              /\ (clock - seen) * KERN_PPS_LIMIT >= (slips + 2) * NS_PER_SEC)
             => verdict' = "pass"
<1>2. DebtInv => Passes
  <2> SUFFICES ASSUME DebtInv, PacketMetered, Unwrapped,
                      (clock - seen) * KERN_PPS_LIMIT
                         >= (slips + 2) * NS_PER_SEC
               PROVE  verdict' = "pass"
    OBVIOUS
  <2>1. tb'.tokens >= 0
    BY ChargeShielded
  <2>2. tb' \in Bucket
    BY ChargeCases DEF DebtInv, PacketMetered
  <2>3. ~ Exhausted(tb')
    BY <2>1, <2>2 DEF Exhausted, Bucket
  <2> QED
    BY <2>3 DEF PacketMetered
<1>3. DebtInv => [Passes]_vars
  BY <1>2
<1> QED
  BY <1>1, <1>3, DebtInit, TypeCorrect, PTL DEF Spec, SilencePays

=============================================================================
