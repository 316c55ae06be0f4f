-------------------------- MODULE TokenBucketProofs --------------------------
(***************************************************************************)
(* Facts the proofs about the token buckets cite: about division, remainder *)
(* and multiplication, so that no obligation about a bucket has to multiply *)
(* or divide two variables by itself, and about what one refill and one     *)
(* charge of a bucket do.                                                   *)
(***************************************************************************)
EXTENDS TokenBucket, TLAPS

\* Rounding down loses less than one whole divisor: the refill of a bucket,
\* (elapsed * rate) / 1000000000, never exceeds what was earned.
LEMMA DivBounds ==
  ASSUME NEW x \in Nat, NEW n \in Nat \ {0}
  PROVE  /\ x \div n \in Nat
         /\ (x \div n) * n <= x
         /\ x < (x \div n) * n + n
  OBVIOUS

\* A refill reaches q tokens as soon as q tokens were earned.
LEMMA DivAtLeast ==
  ASSUME NEW x \in Nat, NEW n \in Nat \ {0}, NEW q \in Nat, x >= q * n
  PROVE  x \div n >= q
  OBVIOUS

\* Reducing a product to a machine word never makes it larger ...
LEMMA ModBounds ==
  ASSUME NEW x \in Nat, NEW w \in Nat \ {0}
  PROVE  x % w \in Nat /\ x % w <= x /\ x % w < w
  OBVIOUS

\* ... and changes nothing while the product fits in the word.
LEMMA ModFits ==
  ASSUME NEW x \in Nat, NEW w \in Nat \ {0}, x < w
  PROVE  x % w = x
  OBVIOUS

\* Products of naturals are naturals and grow with their first factor.
LEMMA MulNat ==
  ASSUME NEW x \in Nat, NEW n \in Nat
  PROVE  x * n \in Nat
  OBVIOUS

LEMMA MulMonotonic ==
  ASSUME NEW x \in Int, NEW y \in Int, NEW n \in Nat, x <= y
  PROVE  x * n <= y * n
  OBVIOUS

\* Multiplication distributes over the sums and differences the models use.
LEMMA MulDistributes ==
  ASSUME NEW x \in Int, NEW y \in Int, NEW n \in Int
  PROVE  /\ x * n \in Int
         /\ (x + y) * n = x * n + y * n
         /\ (x - y) * n = x * n - y * n
         /\ (x - 1) * n = x * n - n
  OBVIOUS

\* Overflow during a further advance only takes away from what was earned.
LEMMA ModAdd ==
  ASSUME NEW x \in Nat, NEW y \in Nat, NEW w \in Nat \ {0}
  PROVE  (x + y) % w <= (x % w) + y
<1> DEFINE k == x \div w
           r == x % w
           Q == (x + y) \div w
           R == (x + y) % w
<1>1. k \in Nat /\ r \in Nat /\ r < w /\ x = k * w + r
  OBVIOUS
<1>2. Q \in Nat /\ R \in Nat /\ R < w /\ x + y = Q * w + R
  OBVIOUS
<1>3. Q >= k
  <2>1. SUFFICES ASSUME Q + 1 <= k PROVE FALSE
    BY <1>1, <1>2
  <2> HIDE DEF k, Q, R, r
  <2>2. (Q + 1) * w <= k * w
    BY <1>1, <1>2, <2>1, MulMonotonic
  <2>3. (Q + 1) * w = Q * w + w
    BY <1>2
  <2> QED
    BY <1>1, <1>2, <2>2, <2>3, MulNat
<1> HIDE DEF k, Q, R, r
<1>4. k * w <= Q * w
  BY <1>1, <1>2, <1>3, MulMonotonic
<1>5. R <= r + y
  BY <1>1, <1>2, <1>4, MulNat
<1> QED
  BY <1>5 DEF R, r

-----------------------------------------------------------------------------

\* A refill never exceeds what was earned, and loses less than a token of it.
LEMMA RefillBounds ==
  ASSUME NEW e \in Nat, NEW r \in Nat
  PROVE  /\ Refill(e, r) \in Nat
         /\ Refill(e, r) * NS_PER_SEC <= (e * r) % WORD
         /\ Refill(e, r) = 0 => (e * r) % WORD < NS_PER_SEC
<1> DEFINE w == (e * r) % WORD
<1>1. e * r \in Nat
  BY MulNat
<1>2. w \in Nat
  BY <1>1, ModBounds, BucketAssumption
<1> HIDE DEF w
<1>3. /\ w \div NS_PER_SEC \in Nat
      /\ (w \div NS_PER_SEC) * NS_PER_SEC <= w
      /\ w < (w \div NS_PER_SEC) * NS_PER_SEC + NS_PER_SEC
  BY <1>2, DivBounds, BucketAssumption
<1>4. Refill(e, r) = w \div NS_PER_SEC
  BY DEF Refill, w
<1>5. (w \div NS_PER_SEC) = 0 => w < NS_PER_SEC
  BY <1>3, BucketAssumption
<1> QED
  BY <1>3, <1>4, <1>5 DEF w

\* Whether the product fits in the word or not, a refill is paid for by time.
LEMMA RefillIsEarned ==
  ASSUME NEW e \in Nat, NEW r \in Nat
  PROVE  Refill(e, r) * NS_PER_SEC <= e * r
<1> DEFINE p == e * r
           f == Refill(e, r) * NS_PER_SEC
<1>1. f <= p % WORD /\ f \in Nat
  BY RefillBounds, MulNat, BucketAssumption
<1>2. p \in Nat
  BY MulNat
<1> HIDE DEF p, f
<1>3. p % WORD \in Nat /\ p % WORD <= p
  BY <1>2, ModBounds, BucketAssumption
<1>4. f <= p
  BY <1>1, <1>2, <1>3
<1> QED
  BY <1>4 DEF p, f

\* While the product fits in the word every whole token earned is refilled.
LEMMA RefillReaches ==
  ASSUME NEW e \in Nat, NEW r \in Nat, NEW q \in Nat,
         e * r < WORD, e * r >= q * NS_PER_SEC
  PROVE  Refill(e, r) >= q
<1> DEFINE p == e * r
<1>1. p \in Nat /\ p < WORD /\ p >= q * NS_PER_SEC
  BY MulNat
<1> HIDE DEF p
<1>2. p % WORD = p
  BY <1>1, ModFits, BucketAssumption
<1>3. p \div NS_PER_SEC >= q
  BY <1>1, DivAtLeast, BucketAssumption
<1> QED
  BY <1>2, <1>3 DEF Refill, p

\* The difference of two time stamps is a number of nanoseconds ...
LEMMA ElapsedNat ==
  ASSUME NEW tb \in Bucket, NEW t \in Nat
  PROVE  Elapsed(tb, t) \in Nat
<1>1. t - tb.last_time \in Int
  BY DEF Bucket
<1> QED
  BY <1>1, BucketAssumption DEF Elapsed

\* ... and exact while the clock, which a bucket never runs ahead of, has not
\* wrapped around.
LEMMA ElapsedIsExact ==
  ASSUME NEW tb \in Bucket, NEW t \in Nat, tb.last_time <= t, t < WORD
  PROVE  Elapsed(tb, t) = t - tb.last_time /\ t - tb.last_time \in Nat
<1>1. t - tb.last_time \in Nat /\ t - tb.last_time < WORD
  BY BucketAssumption DEF Bucket
<1> QED
  BY <1>1, ModFits, BucketAssumption DEF Elapsed

\* What token_bucket_check() leaves behind: the two cases of "if (refill > 0)".
LEMMA CheckCases ==
  ASSUME NEW tb \in Bucket, NEW t \in Nat
  PROVE  LET refill == Refill(Elapsed(tb, t), KERN_PPS_LIMIT)
             next   == TokenBucketCheck(tb, t)
         IN  /\ refill \in Nat
             /\ refill > 0
                  => /\ next.last_time = t
                     /\ next.tokens
                          = AtMost(tb.tokens + refill, KERN_PPS_LIMIT) - 1
             /\ refill = 0
                  => /\ next.last_time = tb.last_time
                     /\ next.tokens = tb.tokens - 1
             /\ next \in Bucket
<1> DEFINE refill == Refill(Elapsed(tb, t), KERN_PPS_LIMIT)
<1>1. refill \in Nat
  BY ElapsedNat, RefillBounds, BucketAssumption
<1>2. /\ tb = [last_time |-> tb.last_time, tokens |-> tb.tokens]
      /\ tb.last_time \in Nat /\ tb.tokens \in Int
  BY DEF Bucket
<1>3. Refill(Elapsed(tb, t), KERN_PPS_LIMIT) = refill
  OBVIOUS
<1> HIDE DEF refill
<1>4. CASE refill > 0
  <2>1. TokenBucketCheck(tb, t)
          = [last_time |-> t,
             tokens |-> AtMost(tb.tokens + refill, KERN_PPS_LIMIT) - 1]
    BY <1>3, <1>4 DEF TokenBucketCheck, Refilled
  <2>2. AtMost(tb.tokens + refill, KERN_PPS_LIMIT) - 1 \in Int
    BY <1>1, <1>2, BucketAssumption DEF AtMost
  <2> QED
    BY <1>1, <1>2, <1>4, <2>1, <2>2 DEF Bucket, refill
<1>5. CASE refill = 0
  <2>1. TokenBucketCheck(tb, t)
          = [last_time |-> tb.last_time, tokens |-> tb.tokens - 1]
    BY <1>2, <1>3, <1>5 DEF TokenBucketCheck, Refilled
  <2> QED
    BY <1>1, <1>2, <1>5, <2>1 DEF Bucket, refill
<1> QED
  BY <1>1, <1>4, <1>5

\* What a frame leaves of the aggregate bucket: a refill only after more than
\* GLOBAL_REFILL_NS, the charge, and the floor.
LEMMA GlobalCases ==
  ASSUME NEW gtb \in Bucket, NEW t \in Nat
  PROVE  LET refill == Refill(Elapsed(gtb, t), GLOBAL_PPS_LIMIT)
             full   == IF Elapsed(gtb, t) > GLOBAL_REFILL_NS
                       THEN AtMost(gtb.tokens + refill, GLOBAL_PPS_LIMIT)
                       ELSE gtb.tokens
             next   == GlobalCheck(gtb, t)
         IN  /\ refill \in Nat
             /\ full \in Int
             /\ next.last_time = IF Elapsed(gtb, t) > GLOBAL_REFILL_NS
                                 THEN t ELSE gtb.last_time
             /\ next.tokens = IF full - 1 < -GLOBAL_DEBT THEN -GLOBAL_DEBT
                              ELSE full - 1
             /\ next \in Bucket
<1> DEFINE e      == Elapsed(gtb, t)
           refill == Refill(e, GLOBAL_PPS_LIMIT)
           full   == IF e > GLOBAL_REFILL_NS
                     THEN AtMost(gtb.tokens + refill, GLOBAL_PPS_LIMIT)
                     ELSE gtb.tokens
           at     == IF e > GLOBAL_REFILL_NS THEN t ELSE gtb.last_time
           left   == IF full - 1 < -GLOBAL_DEBT THEN -GLOBAL_DEBT ELSE full - 1
<1>1. e \in Nat /\ refill \in Nat
  BY ElapsedNat, RefillBounds, BucketAssumption
<1>2. /\ gtb = [last_time |-> gtb.last_time, tokens |-> gtb.tokens]
      /\ gtb.last_time \in Nat /\ gtb.tokens \in Int
  BY DEF Bucket
<1>3. GlobalRefilled(gtb, t) = [last_time |-> at, tokens |-> full]
  BY <1>2 DEF GlobalRefilled
<1> HIDE DEF e, refill
<1>4. full \in Int /\ at \in Nat
  BY <1>1, <1>2, BucketAssumption DEF AtMost
<1> HIDE DEF full, at
<1>5. left \in Int
  BY <1>4, BucketAssumption
<1>6. GlobalCheck(gtb, t) = [last_time |-> at, tokens |-> left]
  BY <1>3 DEF GlobalCheck
<1> HIDE DEF left
<1>7. /\ GlobalCheck(gtb, t) \in Bucket
      /\ GlobalCheck(gtb, t).last_time = at
      /\ GlobalCheck(gtb, t).tokens = left
  BY <1>4, <1>5, <1>6 DEF Bucket
<1> QED
  BY <1>1, <1>4, <1>7 DEF e, refill, full, at, left

=============================================================================
