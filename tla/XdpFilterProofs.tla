--------------------------- MODULE XdpFilterProofs ---------------------------
(***************************************************************************)
(* What the XDP program guarantees for every set of sources, capacity of   *)
(* the maps, rate and word width.                                          *)
(***************************************************************************)
EXTENDS XdpFilter, TokenBucketProofs, FiniteSetTheorems

-----------------------------------------------------------------------------

\* Making room in an LRU map evicts entries and moves none.
LEMMA RoomIsMade ==
  ASSUME NEW D, NEW absent \in D, NEW map \in [Sources -> D],
         NEW s \in Sources, NEW room \in WithRoom(map, absent, s)
  PROVE  /\ room \in [Sources -> D]
         /\ room[s] = map[s]
         /\ \A x \in Sources : room[x] = map[x] \/ room[x] = absent
<1>1. Family(s) \subseteq Sources
  BY DEF Family, Sources
<1>2. room = map \/ (map[s] = absent
                     /\ \E x \in Family(s) : room = [map EXCEPT ![x] = absent])
  BY DEF WithRoom
<1> QED
  BY <1>1, <1>2

\* A meter entry stays a __u32.
LEMMA TallyType ==
  ASSUME NEW n \in {NoMeter} \cup 0 .. METER_WORD - 1
  PROVE  Tally(n) \in 0 .. METER_WORD - 1
<1>1. METER_WORD \in Nat /\ METER_WORD >= 2
  BY FilterAssumption
<1>2. CASE n = NoMeter
  BY <1>1, <1>2 DEF Tally
<1>3. CASE n # NoMeter
  <2>1. n + 1 \in Nat
    BY <1>3
  <2>2. (n + 1) % METER_WORD \in Nat /\ (n + 1) % METER_WORD < METER_WORD
    BY <1>1, <2>1, ModBounds
  <2> QED
    BY <1>1, <1>3, <2>2 DEF Tally
<1> QED
  BY <1>2, <1>3

\* The kernel maps and the counters start empty.
LEMMA InitTypeOK == Init => TypeOK
<1> SUFFICES ASSUME Init PROVE TypeOK
  OBVIOUS
<1>1. gtb \in Bucket /\ NoBucket \in Bucket
  BY BucketAssumption DEF Init, Bucket, NoBucket
<1>2. FullCredit \in Int
  BY BucketAssumption DEF FullCredit
<1>3. /\ meter \in [Sources -> {NoMeter} \cup 0 .. METER_WORD - 1]
      /\ rate \in [Sources -> Bucket]
      /\ outcome \in [Sources -> {"none", "pass", "blacklisted", "exhausted"}]
      /\ blockedAt \in [Sources -> Nat]
      /\ credit \in [Sources -> Int]
      /\ seen \in [Sources -> Nat]
      /\ charged \in [Sources -> Nat]
      /\ lapsed \in [Sources -> BOOLEAN]
      /\ slips \in [Sources -> Nat]
  BY <1>1, <1>2 DEF Init
<1>4. /\ clock \in Nat /\ packets \in Nat
      /\ allowlist \subseteq Sources /\ proto_filter \subseteq Protos
      /\ blacklist \subseteq Sources /\ ring \in Seq(Sources)
  BY DEF Init
<1>5. last \in [src : Sources \cup {Nobody}, verdict : Verdicts]
  BY DEF Init, Verdicts
<1>6. window \in [nr : Nat, start : Nat, passed : Nat]
  BY DEF Init
<1> QED
  BY <1>1, <1>3, <1>4, <1>5, <1>6 DEF TypeOK

\* A verdict on a frame.
LEMMA EndsType ==
  ASSUME NEW src \in Sources \cup {Nobody}, NEW verdict \in Verdicts,
         Ends(src, verdict)
  PROVE  last' \in [src : Sources \cup {Nobody}, verdict : Verdicts]
BY DEF Ends

\* The part of the state every frame that gets past the shields changes.
LEMMA AdmittedType ==
  ASSUME TypeOK, Admitted
  PROVE  /\ packets' \in Nat /\ gtb' \in Bucket
         /\ window' \in [nr : Nat, start : Nat, passed : Nat]
         /\ clock' \in Nat
         /\ allowlist' \subseteq Sources /\ proto_filter' \subseteq Protos
<1>1. gtb' \in Bucket
  BY GlobalCases DEF TypeOK, Admitted
<1>2. window' \in [nr : Nat, start : Nat, passed : Nat]
  <2>1. window'.passed \in Nat
    BY DEF TypeOK, Admitted
  <2> QED
    BY <2>1 DEF TypeOK, Admitted
<1>3. packets' \in Nat
  BY DEF TypeOK, Admitted, Counted
<1> QED
  BY <1>1, <1>2, <1>3, Zenon DEF TypeOK, Admitted

LEMMA MeteredType ==
  ASSUME TypeOK, NEW s \in Sources, NEW p \in Protos, Metered(s, p)
  PROVE  meter' \in [Sources -> {NoMeter} \cup 0 .. METER_WORD - 1]
<1> DEFINE D == {NoMeter} \cup 0 .. METER_WORD - 1
<1>1. PICK map \in WithRoom(meter, NoMeter, s) :
             meter' = [map EXCEPT ![s] = Tally(map[s])]
  BY DEF Metered
<1>2. map \in [Sources -> D]
  BY RoomIsMade DEF TypeOK
<1>3. Tally(map[s]) \in D
  BY <1>2, TallyType
<1> HIDE DEF D
<1>4. meter' \in [Sources -> D]
  BY <1>1, <1>2, <1>3
<1> QED
  BY <1>4 DEF D

LEMMA ChargedType ==
  ASSUME TypeOK, NEW s \in Sources, NEW p \in Protos, Charged(s, p)
  PROVE  /\ rate' \in [Sources -> Bucket] /\ credit' \in [Sources -> Int]
         /\ seen' \in [Sources -> Nat] /\ charged' \in [Sources -> Nat]
<1>1. TokenBucketCheck(rate[s], clock) \in Bucket
  BY CheckCases DEF TypeOK
<1>2. rate' \in [Sources -> Bucket]
  BY <1>1 DEF Charged, TypeOK
<1>3. AtMost(credit[s] + (clock - seen[s]) * KERN_PPS_LIMIT, FullCredit)
        - NS_PER_SEC \in Int
  <2>1. (clock - seen[s]) * KERN_PPS_LIMIT \in Int /\ FullCredit \in Int
    BY BucketAssumption DEF TypeOK, FullCredit
  <2> QED
    BY <2>1, BucketAssumption DEF TypeOK, AtMost
<1>4. credit' \in [Sources -> Int]
  BY <1>3 DEF Charged, TypeOK
<1>5. seen' \in [Sources -> Nat]
  BY DEF Charged, TypeOK
<1>6. charged' \in [Sources -> Nat]
  BY DEF Charged, TypeOK
<1> QED
  BY <1>2, <1>4, <1>5, <1>6

LEMMA SolventType ==
  ASSUME TypeOK, NEW s \in Sources, Solvent(s)
  PROVE  lapsed' \in [Sources -> BOOLEAN] /\ slips' \in [Sources -> Nat]
BY DEF Solvent, TypeOK

\* A history of yes and no, changed for one source.
LEMMA FlagType ==
  ASSUME NEW f \in [Sources -> BOOLEAN], NEW s \in Sources,
         NEW flag \in BOOLEAN
  PROVE  [f EXCEPT ![s] = flag] \in [Sources -> BOOLEAN]
OBVIOUS

\* Every step keeps every map, bucket and history in its type.
THEOREM TypeCorrect == Spec => []TypeOK
<1>1. TypeOK /\ [Next]_vars => TypeOK'
  <2> SUFFICES ASSUME TypeOK, [Next]_vars PROVE TypeOK'
    OBVIOUS
  <2>v. /\ "pass" \in Verdicts /\ "shields_up" \in Verdicts
        /\ "allowlisted" \in Verdicts /\ "proto_drop" \in Verdicts
        /\ "blacklisted" \in Verdicts /\ "auto_blocked" \in Verdicts
        /\ Nobody \in Sources \cup {Nobody}
        /\ \A s \in Sources : s \in Sources \cup {Nobody}
    BY DEF Verdicts
  <2> USE DEF kernel, limiter
  <2>1. ASSUME NEW src \in Sources \cup {Nobody}, ShieldsUp(src) PROVE TypeOK'
    <3>1. gtb' \in Bucket
      BY <2>1, GlobalCases DEF TypeOK, ShieldsUp
    <3>2. last' \in [src : Sources \cup {Nobody}, verdict : Verdicts]
      BY <2>1, <2>v, EndsType DEF ShieldsUp
    <3>3. packets' \in Nat
      BY <2>1 DEF TypeOK, ShieldsUp, Counted
    <3> QED
      BY <2>1, <3>1, <3>2, <3>3, Zenon DEF TypeOK, ShieldsUp
  <2>2. CASE OtherFrame
    <3>1. CASE Admitted /\ Ends(Nobody, "pass")
               /\ UNCHANGED <<meter, blacklist, rate, ring, limiter>>
      <4>1. last' \in [src : Sources \cup {Nobody}, verdict : Verdicts]
        BY <3>1, <2>v, EndsType
      <4> QED
        BY <3>1, <4>1, AdmittedType DEF TypeOK
    <3> QED
      BY <2>1, <2>2, <2>v, <3>1 DEF OtherFrame
  <2>3. CASE RuntFrame
    <3>1. last' \in [src : Sources \cup {Nobody}, verdict : Verdicts]
      BY <2>3, <2>v, EndsType DEF RuntFrame
    <3> QED
      BY <2>3, <3>1 DEF TypeOK, RuntFrame
  <2>4. ASSUME NEW s \in Sources, NEW p \in Protos, Pipeline(s, p)
        PROVE  TypeOK'
    <3>1. CASE ShieldsUp(s)
      BY <2>1, <3>1
    <3>2. CASE AllowlistBypass(s) \/ ProtocolDrop(s, p)
      <4>1. last' \in [src : Sources \cup {Nobody}, verdict : Verdicts]
        BY <3>2, <2>v, EndsType DEF AllowlistBypass, ProtocolDrop
      <4>2. Admitted /\ UNCHANGED <<meter, blacklist, rate, ring, limiter>>
        BY <3>2 DEF AllowlistBypass, ProtocolDrop
      <4> QED
        BY <4>1, <4>2, AdmittedType DEF TypeOK
    <3>3. CASE BlacklistDrop(s, p)
      <4>1. last' \in [src : Sources \cup {Nobody}, verdict : Verdicts]
        BY <3>3, <2>v, EndsType DEF BlacklistDrop
      <4>2. Metered(s, p) /\ Admitted
        BY <3>3 DEF BlacklistDrop, Metered
      <4>3. outcome' \in [Sources -> {"none", "pass", "blacklisted", "exhausted"}]
        BY <3>3 DEF BlacklistDrop, TypeOK
      <4> QED
        BY <3>3, <4>1, <4>2, <4>3, AdmittedType, MeteredType
        DEF TypeOK, BlacklistDrop
    <3>4. CASE FirstPacket(s, p)
      <4>1. last' \in [src : Sources \cup {Nobody}, verdict : Verdicts]
        BY <3>4, <2>v, EndsType DEF FirstPacket
      <4>2. Metered(s, p) /\ Admitted
        BY <3>4 DEF FirstPacket, Metered
      <4>3. outcome' \in [Sources -> {"none", "pass", "blacklisted", "exhausted"}]
        BY <3>4 DEF FirstPacket, TypeOK
      <4>4. rate' \in [Sources -> Bucket]
        <5>1. PICK map \in WithRoom(rate, NoBucket, s) :
                     rate' = [map EXCEPT ![s] = FreshBucket(clock)]
          BY <3>4 DEF FirstPacket
        <5>2. NoBucket \in Bucket /\ FreshBucket(clock) \in Bucket
          BY BucketAssumption DEF NoBucket, FreshBucket, Bucket, TypeOK
        <5>3. map \in [Sources -> Bucket]
          BY <5>2, RoomIsMade DEF TypeOK
        <5> QED
          BY <5>1, <5>2, <5>3
      <4>5. /\ credit' \in [Sources -> Int] /\ seen' \in [Sources -> Nat]
            /\ charged' \in [Sources -> Nat]
        <5>1. FullCredit - NS_PER_SEC \in Int
          BY BucketAssumption DEF FullCredit
        <5> HIDE DEF FullCredit
        <5> QED
          BY <3>4, <5>1 DEF FirstPacket, TypeOK
      <4>6. lapsed' \in [Sources -> BOOLEAN] /\ slips' \in [Sources -> Nat]
        BY <3>4, SolventType DEF FirstPacket
      <4> QED
        BY <3>4, <4>1, <4>2, <4>3, <4>4, <4>5, <4>6, AdmittedType, MeteredType
        DEF TypeOK, FirstPacket
    <3>5. CASE Conforming(s, p)
      <4>1. last' \in [src : Sources \cup {Nobody}, verdict : Verdicts]
        BY <3>5, <2>v, EndsType DEF Conforming
      <4>2. Charged(s, p) /\ Metered(s, p) /\ Admitted
        BY <3>5 DEF Conforming, Charged, Metered
      <4>3. outcome' \in [Sources -> {"none", "pass", "blacklisted", "exhausted"}]
        BY <3>5 DEF Conforming, TypeOK
      <4>4. lapsed' \in [Sources -> BOOLEAN] /\ slips' \in [Sources -> Nat]
        BY <3>5, SolventType DEF Conforming
      <4> QED
        BY <3>5, <4>1, <4>2, <4>3, <4>4, AdmittedType, MeteredType, ChargedType
        DEF TypeOK, Conforming
    <3>6. CASE AutoBlock(s, p)
      <4>1. last' \in [src : Sources \cup {Nobody}, verdict : Verdicts]
        BY <3>6, <2>v, EndsType DEF AutoBlock
      <4>2. Charged(s, p) /\ Metered(s, p) /\ Admitted
        BY <3>6 DEF AutoBlock, Charged, Metered
      <4>3. outcome' \in [Sources -> {"none", "pass", "blacklisted", "exhausted"}]
        BY <3>6 DEF AutoBlock, TypeOK
      <4>4. /\ blacklist' \subseteq Sources
            /\ ring' \in Seq(Sources)
            /\ blockedAt' \in [Sources -> Nat]
        BY <3>6 DEF AutoBlock, TypeOK, Blacklisted, Emitted
      <4>5. lapsed' \in [Sources -> BOOLEAN]
        <5>1. (s \notin blacklist') \in BOOLEAN
          OBVIOUS
        <5>2. lapsed' = [lapsed EXCEPT ![s] = s \notin blacklist']
          BY <3>6 DEF AutoBlock
        <5> QED
          BY <5>1, <5>2, FlagType DEF TypeOK
      <4>6. slips' \in [Sources -> Nat]
        BY <3>6 DEF AutoBlock, TypeOK
      <4> QED
        BY <3>6, <4>1, <4>2, <4>3, <4>4, <4>5, <4>6, AdmittedType, MeteredType,
           ChargedType
        DEF TypeOK, AutoBlock
    <3> QED
      BY <2>4, <3>1, <3>2, <3>3, <3>4, <3>5, <3>6 DEF Pipeline
  <2>5. CASE Tick
    <3>1. clock' \in Nat
      BY <2>5, FilterAssumption DEF Tick, TypeOK
    <3> QED
      BY <2>5, <3>1 DEF TypeOK, Tick
  <2>6. CASE Userspace
    <3>1. ASSUME NEW s \in Sources,
                 AllowlistAdd(s) \/ AllowlistRemove(s) \/ Unblock(s) \/ Restore(s)
          PROVE  TypeOK'
      <4>1. allowlist' \subseteq Sources /\ blacklist' \subseteq Sources
        BY <3>1 DEF AllowlistAdd, AllowlistRemove, Unblock, Restore, Blacklisted,
                    TypeOK
      <4> QED
        BY <3>1, <4>1, Zenon DEF AllowlistAdd, AllowlistRemove, Unblock, Restore,
                                 TypeOK
    <3>2. ASSUME NEW p \in Protos, SetProtoFilter(p) PROVE TypeOK'
      BY <3>2 DEF SetProtoFilter, TypeOK
    <3>3. CASE Consume
      <4>1. ring' \in Seq(Sources)
        BY <3>3 DEF Consume, TypeOK
      <4> QED
        BY <3>3, <4>1, Zenon DEF Consume, TypeOK
    <3> QED
      BY <2>6, <3>1, <3>2, <3>3 DEF Userspace
  <2>7. CASE Observe
    BY <2>7 DEF Observe, TypeOK
  <2>8. CASE UNCHANGED vars
    BY <2>8 DEF vars, TypeOK
  <2> QED
    BY <2>2, <2>3, <2>4, <2>5, <2>6, <2>7, <2>8 DEF Next, Frame, Packet
<1> QED
  BY <1>1, InitTypeOK, PTL DEF Spec

-----------------------------------------------------------------------------
(* The aggregate bucket.                                                   *)

\* What a frame does to the aggregate bucket, whatever comes after it.
GlobalCharged ==
  /\ UNCHANGED clock
  /\ gtb' = GlobalCheck(gtb, clock)
  /\ \/ Exhausted(gtb') /\ UNCHANGED window
     \/ /\ ~ Exhausted(gtb')
        /\ window' = [window EXCEPT !.passed = IF window.nr > 0 THEN @ + 1 ELSE 0]

\* Only a frame counts, and a counted frame is charged to the aggregate bucket;
\* the shields drop it exactly when that bucket is exhausted.
LEMMA GlobalSteps ==
  ASSUME TypeOK, clock <= MaxClock, [Next]_vars
  PROVE  \/ /\ GlobalCharged
            /\ last'.verdict = "shields_up" => Exhausted(gtb')
         \/ /\ UNCHANGED <<packets, gtb>>
            /\ clock' \in Nat /\ clock <= clock' /\ clock' <= MaxClock
            /\ \/ UNCHANGED window
               \/ window'.start = clock' /\ window'.passed = 0
<1> DEFINE Goal ==
       \/ /\ GlobalCharged
          /\ last'.verdict = "shields_up" => Exhausted(gtb')
       \/ /\ UNCHANGED <<packets, gtb>>
          /\ clock' \in Nat /\ clock <= clock' /\ clock' <= MaxClock
          /\ \/ UNCHANGED window
             \/ window'.start = clock' /\ window'.passed = 0
<1> SUFFICES Goal
  OBVIOUS
<1>0. clock \in Nat /\ MaxClock \in Nat
  BY FilterAssumption DEF TypeOK
<1>1. ASSUME NEW src, ShieldsUp(src) PROVE Goal
  BY <1>1 DEF ShieldsUp, GlobalCharged
<1>2. ASSUME NEW src, NEW verdict, Admitted, Ends(src, verdict),
             verdict # "shields_up"
      PROVE  Goal
  BY <1>2 DEF Admitted, Ends, GlobalCharged
<1>3. ASSUME NEW s \in Sources, NEW p \in Protos, Pipeline(s, p) PROVE Goal
  <2>1. CASE AllowlistBypass(s)
    BY <2>1, <1>2 DEF AllowlistBypass
  <2>2. CASE ProtocolDrop(s, p)
    BY <2>2, <1>2 DEF ProtocolDrop
  <2>3. CASE BlacklistDrop(s, p)
    BY <2>3, <1>2 DEF BlacklistDrop, Metered
  <2>4. CASE FirstPacket(s, p)
    BY <2>4, <1>2 DEF FirstPacket, Metered
  <2>5. CASE Conforming(s, p)
    BY <2>5, <1>2 DEF Conforming, Charged, Metered
  <2>6. CASE AutoBlock(s, p)
    BY <2>6, <1>2 DEF AutoBlock, Charged, Metered
  <2> QED
    BY <1>1, <1>3, <2>1, <2>2, <2>3, <2>4, <2>5, <2>6 DEF Pipeline
<1>4. CASE OtherFrame
  BY <1>1, <1>2, <1>4 DEF OtherFrame
<1>5. CASE UNCHANGED <<clock, packets, gtb, window>>
  BY <1>0, <1>5
<1>6. CASE Tick
  BY <1>0, <1>6, FilterAssumption DEF Tick, kernel
<1>7. CASE Observe
  BY <1>0, <1>7 DEF Observe, kernel
<1> HIDE DEF Goal
<1>8. CASE Userspace
  <2>1. UNCHANGED <<clock, packets, gtb, window>>
    BY <1>8 DEF Userspace, AllowlistAdd, AllowlistRemove, Unblock, Restore,
                SetProtoFilter, Consume
  <2> QED
    BY <1>5, <2>1
<1>9. CASE RuntFrame \/ UNCHANGED vars
  BY <1>5, <1>9 DEF RuntFrame, vars, kernel
<1> QED
  BY <1>3, <1>4, <1>6, <1>7, <1>8, <1>9 DEF Next, Frame, Packet

\* What an interval may let through until t.
Budget(start, t) ==
  GLOBAL_PPS_LIMIT * NS_PER_SEC
    + (t - start + GLOBAL_REFILL_NS) * GLOBAL_PPS_LIMIT

\* It grows by what the time earns.
LEMMA BudgetGrows ==
  ASSUME NEW start \in Nat, NEW t \in Nat, NEW u \in Nat, t <= u
  PROVE  /\ Budget(start, t) \in Int
         /\ Budget(start, u) = Budget(start, t) + (u - t) * GLOBAL_PPS_LIMIT
         /\ (u - t) * GLOBAL_PPS_LIMIT \in Nat
         /\ start <= t + GLOBAL_REFILL_NS
              => Budget(start, t) >= GLOBAL_PPS_LIMIT * NS_PER_SEC
<1> DEFINE x == t - start + GLOBAL_REFILL_NS
           C == GLOBAL_PPS_LIMIT * NS_PER_SEC
<1>1. C \in Nat /\ GLOBAL_PPS_LIMIT \in Nat /\ x \in Int /\ u - t \in Nat
  BY BucketAssumption, MulNat
<1>2. u - start + GLOBAL_REFILL_NS = x + (u - t)
  BY BucketAssumption
<1>3. x \in Nat \/ start > t + GLOBAL_REFILL_NS
  BY BucketAssumption
<1>4. Budget(start, t) = C + x * GLOBAL_PPS_LIMIT
  BY DEF Budget
<1>5. Budget(start, u) = C + (x + (u - t)) * GLOBAL_PPS_LIMIT
  BY <1>2 DEF Budget
<1> HIDE DEF x, C
<1>6. /\ x * GLOBAL_PPS_LIMIT \in Int /\ (u - t) * GLOBAL_PPS_LIMIT \in Nat
      /\ (x + (u - t)) * GLOBAL_PPS_LIMIT
           = x * GLOBAL_PPS_LIMIT + (u - t) * GLOBAL_PPS_LIMIT
  BY <1>1, MulDistributes, MulNat
<1>7. x \in Nat => x * GLOBAL_PPS_LIMIT \in Nat
  BY <1>1, MulNat
<1> DEFINE xP == x * GLOBAL_PPS_LIMIT
           dP == (u - t) * GLOBAL_PPS_LIMIT
<1>8. /\ Budget(start, t) = C + xP /\ Budget(start, u) = C + (xP + dP)
      /\ xP \in Int /\ dP \in Nat /\ (x \in Nat => xP \in Nat)
  BY <1>4, <1>5, <1>6, <1>7
<1> HIDE DEF xP, dP
<1>9. /\ Budget(start, t) \in Int /\ Budget(start, u) = Budget(start, t) + dP
      /\ x \in Nat => Budget(start, t) >= C
  BY <1>1, <1>8
<1>10. start <= t + GLOBAL_REFILL_NS => x \in Nat
  BY <1>3, BucketAssumption
<1> QED
  BY <1>8, <1>9, <1>10 DEF C, dP

\* n frames, or tokens, of an interval that begins at start are earned by t.
Earned(n, start, t) == n * NS_PER_SEC <= Budget(start, t)

\* What is earned stays earned, the capacity is earned from the start, and a
\* refill is earned by the time it takes.
LEMMA EarnedStays ==
  ASSUME NEW m \in Int, NEW n \in Int, m <= n,
         NEW start \in Nat, NEW t \in Nat, NEW u \in Nat, t <= u,
         Earned(n, start, t)
  PROVE  Earned(m, start, u)
<1>1. m * NS_PER_SEC <= n * NS_PER_SEC
  BY MulMonotonic, BucketAssumption
<1>2. m * NS_PER_SEC \in Int /\ n * NS_PER_SEC \in Int
  BY MulDistributes, BucketAssumption
<1> DEFINE earned == (u - t) * GLOBAL_PPS_LIMIT
<1>3. /\ Budget(start, u) = Budget(start, t) + earned
      /\ Budget(start, t) \in Int /\ earned \in Nat
  BY BudgetGrows
<1> HIDE DEF earned
<1> QED
  BY <1>1, <1>2, <1>3 DEF Earned

LEMMA CapacityIsEarned ==
  ASSUME NEW n \in Int, n <= GLOBAL_PPS_LIMIT,
         NEW start \in Nat, NEW t \in Nat, start <= t + GLOBAL_REFILL_NS
  PROVE  Earned(n, start, t)
<1>1. n * NS_PER_SEC <= GLOBAL_PPS_LIMIT * NS_PER_SEC
  BY MulMonotonic, BucketAssumption
<1>2. n * NS_PER_SEC \in Int /\ GLOBAL_PPS_LIMIT * NS_PER_SEC \in Int
  BY MulDistributes, BucketAssumption
<1>3. Budget(start, t) >= GLOBAL_PPS_LIMIT * NS_PER_SEC
      /\ Budget(start, t) \in Int
  BY BudgetGrows
<1> QED
  BY <1>1, <1>2, <1>3 DEF Earned

LEMMA TimeEarns ==
  ASSUME NEW n \in Int, NEW refill \in Nat,
         NEW start \in Nat, NEW t \in Nat, NEW u \in Nat, t <= u,
         refill * NS_PER_SEC <= (u - t) * GLOBAL_PPS_LIMIT,
         Earned(n, start, t)
  PROVE  Earned(n + refill, start, u)
<1>1. (n + refill) * NS_PER_SEC = n * NS_PER_SEC + refill * NS_PER_SEC
  BY MulDistributes, BucketAssumption
<1>2. n * NS_PER_SEC \in Int /\ refill * NS_PER_SEC \in Int
  BY MulDistributes, BucketAssumption
<1>3. /\ Budget(start, u) = Budget(start, t) + (u - t) * GLOBAL_PPS_LIMIT
      /\ Budget(start, t) \in Int /\ (u - t) * GLOBAL_PPS_LIMIT \in Nat
  BY BudgetGrows
<1> QED
  BY <1>1, <1>2, <1>3 DEF Earned

\* The inductive invariant of the aggregate bucket: it never runs ahead of the
\* clock nor leaves the range between its floor and its capacity; and the time
\* until the last refill earned the frames an interval let through, also
\* together with the tokens that are left.
AggregateInv ==
  /\ clock <= MaxClock
  /\ gtb.last_time <= clock
  /\ window.start <= clock
  /\ -GLOBAL_DEBT <= gtb.tokens /\ gtb.tokens <= GLOBAL_PPS_LIMIT
  /\ window.passed > 0
       => /\ window.start <= gtb.last_time + GLOBAL_REFILL_NS
          /\ Earned(window.passed, window.start, gtb.last_time)
          /\ Earned(window.passed + gtb.tokens, window.start, gtb.last_time)

\* A frame charged at clock: the two cases of the refill, with the product of
\* time and rate bounded and out of sight.
LEMMA GlobalCharge ==
  ASSUME TypeOK, AggregateInv, gtb' = GlobalCheck(gtb, clock)
  PROVE  \E full \in Int :
           /\ full <= GLOBAL_PPS_LIMIT
           /\ -GLOBAL_DEBT <= full
           /\ gtb'.tokens = (IF full - 1 < -GLOBAL_DEBT THEN -GLOBAL_DEBT
                             ELSE full - 1)
           /\ \/ /\ clock - gtb.last_time <= GLOBAL_REFILL_NS
                 /\ gtb'.last_time = gtb.last_time
                 /\ full = gtb.tokens
              \/ /\ gtb'.last_time = clock
                 /\ \E refill \in Nat :
                      /\ refill = Refill(clock - gtb.last_time, GLOBAL_PPS_LIMIT)
                      /\ refill * NS_PER_SEC
                           <= (clock - gtb.last_time) * GLOBAL_PPS_LIMIT
                      /\ full = AtMost(gtb.tokens + refill, GLOBAL_PPS_LIMIT)
<1> DEFINE e      == Elapsed(gtb, clock)
           refill == Refill(e, GLOBAL_PPS_LIMIT)
           full   == IF e > GLOBAL_REFILL_NS
                     THEN AtMost(gtb.tokens + refill, GLOBAL_PPS_LIMIT)
                     ELSE gtb.tokens
<1>1. /\ refill \in Nat /\ full \in Int
      /\ gtb'.last_time = IF e > GLOBAL_REFILL_NS THEN clock ELSE gtb.last_time
      /\ gtb'.tokens = IF full - 1 < -GLOBAL_DEBT THEN -GLOBAL_DEBT ELSE full - 1
  BY GlobalCases DEF TypeOK
<1>2. e = clock - gtb.last_time /\ e \in Nat
  BY ElapsedIsExact, FilterAssumption, BucketAssumption DEF TypeOK, AggregateInv
<1>3. refill * NS_PER_SEC <= e * GLOBAL_PPS_LIMIT
  BY <1>2, RefillIsEarned, BucketAssumption
<1>4. gtb.tokens \in Int /\ gtb.last_time \in Nat
  BY DEF TypeOK, Bucket
<1>5. refill = Refill(clock - gtb.last_time, GLOBAL_PPS_LIMIT)
  BY <1>2
<1> HIDE DEF refill, e
<1>6. full <= GLOBAL_PPS_LIMIT /\ -GLOBAL_DEBT <= full
  BY <1>1, <1>4, BucketAssumption DEF AtMost, AggregateInv
<1>7. CASE e > GLOBAL_REFILL_NS
  <2>1. full = AtMost(gtb.tokens + refill, GLOBAL_PPS_LIMIT)
    BY <1>7
  <2> HIDE DEF full
  <2> QED
    BY <1>1, <1>2, <1>3, <1>5, <1>6, <1>7, <2>1
<1>8. CASE ~ (e > GLOBAL_REFILL_NS)
  <2>1. full = gtb.tokens
    BY <1>8
  <2>2. clock - gtb.last_time <= GLOBAL_REFILL_NS
    BY <1>2, <1>8, BucketAssumption
  <2> HIDE DEF full
  <2> QED
    BY <1>1, <1>6, <1>8, <2>1, <2>2
<1> QED
  BY <1>7, <1>8

LEMMA AggregateStep ==
  ASSUME TypeOK, AggregateInv, [Next]_vars, TypeOK'
  PROVE  AggregateInv'
<1>1. /\ clock \in Nat /\ clock' \in Nat
      /\ gtb.last_time \in Nat /\ gtb.tokens \in Int
      /\ gtb'.last_time \in Nat /\ gtb'.tokens \in Int
      /\ window.start \in Nat /\ window.passed \in Nat
      /\ window'.start \in Nat /\ window'.passed \in Nat
  BY DEF TypeOK, Bucket
<1>2. CASE GlobalCharged
  <2>1. clock' = clock /\ gtb' = GlobalCheck(gtb, clock)
    BY <1>2 DEF GlobalCharged
  <2>2. PICK full \in Int :
           /\ full <= GLOBAL_PPS_LIMIT
           /\ -GLOBAL_DEBT <= full
           /\ gtb'.tokens = (IF full - 1 < -GLOBAL_DEBT THEN -GLOBAL_DEBT
                             ELSE full - 1)
           /\ \/ /\ clock - gtb.last_time <= GLOBAL_REFILL_NS
                 /\ gtb'.last_time = gtb.last_time
                 /\ full = gtb.tokens
              \/ /\ gtb'.last_time = clock
                 /\ \E refill \in Nat :
                      /\ refill = Refill(clock - gtb.last_time, GLOBAL_PPS_LIMIT)
                      /\ refill * NS_PER_SEC
                           <= (clock - gtb.last_time) * GLOBAL_PPS_LIMIT
                      /\ full = AtMost(gtb.tokens + refill, GLOBAL_PPS_LIMIT)
    BY <2>1, GlobalCharge
  <2>3. /\ gtb.last_time <= gtb'.last_time /\ gtb'.last_time <= clock
        /\ -GLOBAL_DEBT <= gtb'.tokens /\ gtb'.tokens <= GLOBAL_PPS_LIMIT
        /\ clock <= gtb'.last_time + GLOBAL_REFILL_NS
    BY <1>1, <2>2, BucketAssumption DEF AggregateInv
  <2>4. window'.start = window.start
    BY <1>2 DEF GlobalCharged, TypeOK
  <2>5. window.start <= gtb'.last_time + GLOBAL_REFILL_NS
    BY <1>1, <2>3, BucketAssumption DEF AggregateInv
  <2>6. CASE Exhausted(gtb') /\ UNCHANGED window
    <3>1. window'.passed + gtb'.tokens <= window.passed
      BY <1>1, <2>6 DEF Exhausted
    <3>2. window.passed > 0
            => /\ Earned(window'.passed, window.start, gtb'.last_time)
               /\ Earned(window'.passed + gtb'.tokens, window.start,
                         gtb'.last_time)
      BY <1>1, <2>3, <2>6, <3>1, EarnedStays DEF AggregateInv
    <3> QED
      BY <2>1, <2>3, <2>4, <2>5, <2>6, <3>2 DEF AggregateInv
  <2>7. CASE /\ ~ Exhausted(gtb')
             /\ window' = [window EXCEPT
                             !.passed = IF window.nr > 0 THEN @ + 1 ELSE 0]
    <3>1. gtb'.tokens >= 0 /\ gtb'.tokens = full - 1
      BY <1>1, <2>2, <2>7, BucketAssumption DEF Exhausted
    <3>2. window'.passed = window.passed + 1 \/ window'.passed = 0
      BY <2>7 DEF TypeOK
    <3>3. CASE window'.passed = 0
      BY <1>1, <2>1, <2>3, <2>4, <3>3 DEF AggregateInv
    <3>4. CASE window'.passed = window.passed + 1
      <4>1. /\ window'.passed + gtb'.tokens = window.passed + full
            /\ window'.passed <= window'.passed + gtb'.tokens
        BY <1>1, <3>1, <3>4
      <4>2. Earned(window'.passed + gtb'.tokens, window.start, gtb'.last_time)
        <5>1. CASE window.passed = 0
          BY <1>1, <2>2, <2>5, <4>1, <5>1, CapacityIsEarned
        <5>2. CASE window.passed > 0 /\ gtb'.last_time = gtb.last_time
                   /\ full = gtb.tokens
          BY <4>1, <5>2 DEF AggregateInv
        <5>3. ASSUME window.passed > 0, gtb'.last_time = clock,
                     NEW refill \in Nat,
                     refill * NS_PER_SEC
                       <= (clock - gtb.last_time) * GLOBAL_PPS_LIMIT,
                     full = AtMost(gtb.tokens + refill, GLOBAL_PPS_LIMIT)
              PROVE  Earned(window'.passed + gtb'.tokens, window.start,
                            gtb'.last_time)
          <6>1. window.passed + gtb.tokens \in Int
            BY <1>1
          <6>2. Earned(window.passed + gtb.tokens + refill, window.start, clock)
            BY <1>1, <5>3, <6>1, TimeEarns DEF AggregateInv
          <6>3. full <= gtb.tokens + refill
            BY <1>1, <5>3, BucketAssumption DEF AtMost
          <6>4. /\ window'.passed + gtb'.tokens \in Int
                /\ window.passed + gtb.tokens + refill \in Int
                /\ window'.passed + gtb'.tokens
                     <= window.passed + gtb.tokens + refill
            BY <1>1, <4>1, <6>3
          <6> QED
            BY <1>1, <5>3, <6>2, <6>4, EarnedStays
        <5> QED
          BY <1>1, <2>2, <5>1, <5>2, <5>3
      <4>3. Earned(window'.passed, window.start, gtb'.last_time)
        BY <1>1, <4>1, <4>2, EarnedStays
      <4> QED
        BY <1>1, <2>1, <2>3, <2>4, <2>5, <4>2, <4>3 DEF AggregateInv
    <3> QED
      BY <3>2, <3>3, <3>4
  <2> QED
    BY <1>2, <2>6, <2>7 DEF GlobalCharged
<1>3. CASE /\ UNCHANGED <<packets, gtb>>
           /\ clock' \in Nat /\ clock <= clock' /\ clock' <= MaxClock
           /\ \/ UNCHANGED window
              \/ window'.start = clock' /\ window'.passed = 0
  BY <1>1, <1>3, FilterAssumption DEF AggregateInv
<1> QED
  BY <1>2, <1>3, GlobalSteps DEF AggregateInv

LEMMA AggregateSpec == Spec => [](TypeOK /\ AggregateInv)
<1>1. Init => AggregateInv
  BY BucketAssumption, FilterAssumption DEF Init, AggregateInv
<1>2. TypeOK /\ AggregateInv /\ [Next]_vars /\ TypeOK' => AggregateInv'
  BY AggregateStep
<1> QED
  BY <1>1, <1>2, TypeCorrect, PTL DEF Spec

\* The aggregate bucket lets no more through in an interval than its capacity,
\* what the interval earns and what a refill period that began earlier earns.
THEOREM ShieldsCapTraffic == Spec => []AggregateCap
<1>1. TypeOK /\ AggregateInv => AggregateCap
  <2> SUFFICES ASSUME TypeOK, AggregateInv
               PROVE  Earned(window.passed, window.start, clock)
    BY DEF AggregateCap, Earned, Budget
  <2>1. /\ clock \in Nat /\ gtb.last_time \in Nat
        /\ window.start \in Nat /\ window.passed \in Nat
    BY DEF TypeOK, Bucket
  <2>2. CASE window.passed = 0
    <3>1. /\ window.start <= clock + GLOBAL_REFILL_NS
          /\ window.passed <= GLOBAL_PPS_LIMIT
      BY <2>1, <2>2, BucketAssumption DEF AggregateInv
    <3> QED
      BY <2>1, <3>1, CapacityIsEarned
  <2>3. CASE window.passed > 0
    BY <2>1, <2>3, EarnedStays DEF AggregateInv
  <2> QED
    BY <2>1, <2>2, <2>3
<1> QED
  BY <1>1, AggregateSpec, PTL

\* However deep a flood drove the aggregate bucket, its floor is repaid in
\* RepayTime and the next frame gets past the shields.
THEOREM ShieldsDoComeDown == Spec => ShieldsComeDown
<1>1. ASSUME TypeOK, AggregateInv, [Next]_vars,
             (clock - gtb.last_time) * GLOBAL_PPS_LIMIT >= RepayTime,
             (clock - gtb.last_time) * GLOBAL_PPS_LIMIT < WORD,
             clock - gtb.last_time > GLOBAL_REFILL_NS,
             packets' # packets
      PROVE  last'.verdict # "shields_up"
  <2>1. /\ gtb.last_time \in Nat /\ gtb.tokens \in Int
        /\ clock - gtb.last_time \in Nat
    BY <1>1 DEF TypeOK, Bucket, AggregateInv
  <2>2. GlobalCharged /\ (last'.verdict = "shields_up" => Exhausted(gtb'))
    BY <1>1, GlobalSteps DEF AggregateInv
  <2>3. Refill(clock - gtb.last_time, GLOBAL_PPS_LIMIT) >= GLOBAL_DEBT + 1
    <3>1. GLOBAL_DEBT + 1 \in Nat /\ GLOBAL_PPS_LIMIT \in Nat
      BY BucketAssumption
    <3> QED
      BY <1>1, <2>1, <3>1, RefillReaches DEF RepayTime
  <2>4. gtb' = GlobalCheck(gtb, clock)
    BY <2>2 DEF GlobalCharged
  <2>5. PICK full \in Int :
           /\ gtb'.tokens = (IF full - 1 < -GLOBAL_DEBT THEN -GLOBAL_DEBT
                             ELSE full - 1)
           /\ \/ clock - gtb.last_time <= GLOBAL_REFILL_NS
              \/ \E refill \in Nat :
                   /\ refill = Refill(clock - gtb.last_time, GLOBAL_PPS_LIMIT)
                   /\ full = AtMost(gtb.tokens + refill, GLOBAL_PPS_LIMIT)
    BY <1>1, <2>4, GlobalCharge
  <2>6. PICK refill \in Nat :
           /\ refill >= GLOBAL_DEBT + 1
           /\ full = AtMost(gtb.tokens + refill, GLOBAL_PPS_LIMIT)
    BY <1>1, <2>1, <2>3, <2>5, BucketAssumption
  <2>7. full >= 1
    BY <1>1, <2>1, <2>6, BucketAssumption DEF AtMost, AggregateInv
  <2>8. gtb'.tokens \in Nat
    BY <2>5, <2>7, BucketAssumption
  <2> QED
    BY <2>2, <2>8 DEF Exhausted
<1>2. (TypeOK /\ AggregateInv) /\ [Next]_vars
        => [ (/\ (clock - gtb.last_time) * GLOBAL_PPS_LIMIT >= RepayTime
              /\ (clock - gtb.last_time) * GLOBAL_PPS_LIMIT < WORD
              /\ clock - gtb.last_time > GLOBAL_REFILL_NS
              /\ packets' # packets)
             => last'.verdict # "shields_up" ]_vars
  BY <1>1
<1> QED
  BY <1>2, AggregateSpec, PTL DEF Spec, ShieldsComeDown

-----------------------------------------------------------------------------
(* The bucket and the block of a source.                                   *)

\* The unconditional part of a packet, for the steps that do not end before.
LEMMA MeteredBase ==
  ASSUME NEW s \in Sources, NEW p \in Protos,
         BlacklistDrop(s, p) \/ FirstPacket(s, p) \/ Conforming(s, p)
           \/ AutoBlock(s, p)
  PROVE  UNCHANGED clock
BY DEF BlacklistDrop, FirstPacket, Conforming, AutoBlock, Charged, Metered,
       Admitted

\* What the pipeline knows of a source, and RateLimiter of its only one.
Known(x) == <<clock, rate[x], x \in blacklist, blockedAt[x], outcome[x],
              credit[x], seen[x], lapsed[x], slips[x]>>

\* Every slip is a packet of its own: RateLimiter's bound is no bound here.
SlipsCounted == \A s \in Sources : slips[s] <= packets

\* Being blocked is one of the two outcomes RateLimiter provides for.
LEMMA MembershipIsBoolean ==
  ASSUME NEW x
  PROVE  \E room \in BOOLEAN : (x \in blacklist)' = room
<1>1. (x \in blacklist') \in BOOLEAN
  OBVIOUS
<1>2. (x \in blacklist') = (x \in blacklist')
  OBVIOUS
<1>3. \E room \in BOOLEAN : (x \in blacklist') = room
  BY <1>1, <1>2, Zenon
<1> QED
  BY <1>3

\* Every step is one of RateLimiter's for every source, or does not touch it.
LEMMA LimiterStep ==
  ASSUME TypeOK, SlipsCounted, [Next]_vars, NEW x \in Sources
  PROVE  Limiter(x)!Next \/ UNCHANGED Limiter(x)!vars
<1>1. ASSUME UNCHANGED <<clock, rate[x], blockedAt[x], outcome[x], credit[x],
                         seen[x], lapsed[x], slips[x]>>,
             x \in blacklist' <=> x \in blacklist
      PROVE  UNCHANGED Limiter(x)!vars
  BY <1>1 DEF Limiter!vars
<1>2. CASE UNCHANGED <<clock, rate, blacklist, limiter>>
  BY <1>1, <1>2 DEF limiter
<1>3. ASSUME NEW s \in Sources, NEW p \in Protos, BlacklistDrop(s, p)
      PROVE  Limiter(x)!Next \/ UNCHANGED Limiter(x)!vars
  <2>1. UNCHANGED clock
    BY <1>3, MeteredBase
  <2>2. CASE x = s
    <3>1. Limiter(x)!PacketBlacklisted
      BY <1>3, <2>1, <2>2 DEF BlacklistDrop, InBlacklist, TypeOK,
         Limiter!PacketBlacklisted
    <3> QED
      BY <3>1 DEF Limiter!Next, Limiter!Packet
  <2>3. CASE x # s
    BY <1>1, <1>3, <2>1, <2>3 DEF BlacklistDrop, TypeOK
  <2> QED
    BY <2>2, <2>3
<1>4. ASSUME NEW s \in Sources, NEW p \in Protos, FirstPacket(s, p)
      PROVE  Limiter(x)!Next \/ UNCHANGED Limiter(x)!vars
  <2>1. UNCHANGED clock
    BY <1>4, MeteredBase
  <2>2. PICK map \in WithRoom(rate, NoBucket, s) :
               rate' = [map EXCEPT ![s] = FreshBucket(clock)]
    BY <1>4 DEF FirstPacket
  <2>3. /\ map \in [Sources -> Bucket]
        /\ \A y \in Sources : map[y] = rate[y] \/ map[y] = NoBucket
    <3>1. NoBucket \in Bucket
      BY BucketAssumption DEF NoBucket, Bucket
    <3>2. rate \in [Sources -> Bucket]
      BY DEF TypeOK
    <3> QED
      BY <3>1, <3>2, RoomIsMade
  <2>4. CASE x = s
    <3>1. Limiter(x)!PacketFirst
      BY <1>4, <2>1, <2>2, <2>3, <2>4 DEF FirstPacket, InBlacklist, TypeOK,
         Solvent, Limiter!Solvent,
         Limiter!PacketFirst, Limiter!HasBucket, Limiter!FullCredit, FullCredit,
         Limiter!NoBucket, NoBucket, Limiter!FreshBucket, FreshBucket
    <3> QED
      BY <3>1 DEF Limiter!Next, Limiter!Packet
  <2>5. CASE x # s
    <3>1. UNCHANGED <<clock, blacklist, blockedAt[x], outcome[x], credit[x],
                      seen[x], lapsed[x], slips[x]>>
      BY <1>4, <2>1, <2>5 DEF FirstPacket, Solvent, TypeOK
    <3>2. CASE rate'[x] = rate[x]
      BY <1>1, <3>1, <3>2
    <3>3. CASE rate[x] # NoBucket /\ rate'[x] = NoBucket
      <4>1. Limiter(x)!Evict
        BY <3>1, <3>3 DEF Limiter!Evict, Limiter!HasBucket, Limiter!NoBucket,
                          NoBucket
      <4> QED
        BY <4>1 DEF Limiter!Next
    <3> QED
      BY <2>2, <2>3, <2>5, <3>2, <3>3
  <2> QED
    BY <2>4, <2>5
<1>5. ASSUME NEW s \in Sources, NEW p \in Protos,
             Conforming(s, p) \/ AutoBlock(s, p)
      PROVE  Limiter(x)!Next \/ UNCHANGED Limiter(x)!vars
  <2>1. UNCHANGED clock /\ Charged(s, p)
    BY <1>5, MeteredBase DEF Conforming, AutoBlock
  <2>2. CASE x = s
    <3>1. /\ x \notin blacklist /\ rate[x] # NoBucket
          /\ rate'[x] = TokenBucketCheck(rate[x], clock)
          /\ credit'[x] = AtMost(credit[x] + (clock - seen[x]) * KERN_PPS_LIMIT,
                                FullCredit) - NS_PER_SEC
          /\ seen'[x] = clock
      BY <2>1, <2>2 DEF Charged, InBlacklist, TypeOK
    <3>2. /\ ~ Exhausted(rate'[x])
               => /\ outcome'[x] = "pass" /\ blockedAt'[x] = blockedAt[x]
                  /\ (x \in blacklist' <=> x \in blacklist)
                  /\ lapsed'[x] = FALSE /\ slips'[x] = 0
          /\ Exhausted(rate'[x])
               => /\ outcome'[x] = "exhausted" /\ blockedAt'[x] = clock
                  /\ lapsed'[x] = (x \notin blacklist')
                  /\ slips'[x] = IF lapsed[x] THEN slips[x] + 1 ELSE slips[x]
      BY <1>5, <2>2 DEF Conforming, AutoBlock, Solvent, TypeOK
    <3>6. slips[x] < MaxPackets
      <4>1. packets < MaxPackets
        BY <2>1 DEF Charged, Metered, Admitted, Counted
      <4> QED
        BY <4>1, FilterAssumption DEF SlipsCounted, TypeOK
    <3>3. /\ Limiter(x)!TokenBucketCheck(rate[x], clock)
               = TokenBucketCheck(rate[x], clock)
          /\ Limiter(x)!FullCredit = FullCredit
          /\ Limiter(x)!NoBucket = NoBucket
          /\ Limiter(x)!Exhausted(rate'[x]) <=> Exhausted(rate'[x])
      BY DEF Limiter!TokenBucketCheck, TokenBucketCheck, Limiter!Refilled,
         Refilled, Limiter!Refill, Refill, Limiter!Elapsed, Elapsed,
         Limiter!AtMost, AtMost, Limiter!FullCredit, FullCredit,
         Limiter!NoBucket, NoBucket, Limiter!Exhausted, Exhausted
    <3>4. Limiter(x)!Accrued
            = AtMost(credit[x] + (clock - seen[x]) * KERN_PPS_LIMIT, FullCredit)
      BY <3>3 DEF Limiter!Accrued, Limiter!AtMost, AtMost
    <3>5. Limiter(x)!PacketMetered
      <4>1. CASE Exhausted(rate'[x])
        <5>1. \E room \in BOOLEAN : /\ (x \in blacklist)' = room
                                   /\ lapsed'[x] = ~ room
          BY <3>2, <4>1, MembershipIsBoolean
        <5> QED
          BY <2>1, <3>1, <3>2, <3>3, <3>4, <3>6, <4>1, <5>1
          DEF Limiter!PacketMetered, Limiter!HasBucket
      <4>2. CASE ~ Exhausted(rate'[x])
        BY <2>1, <3>1, <3>2, <3>3, <3>4, <3>6, <4>2
        DEF Limiter!PacketMetered, Limiter!HasBucket, Limiter!Solvent
      <4> QED
        BY <4>1, <4>2
    <3> QED
      BY <3>5 DEF Limiter!Next, Limiter!Packet
  <2>3. CASE x # s
    <3>1. x \in blacklist' <=> x \in blacklist
      BY <1>5, <2>3 DEF Conforming, AutoBlock, Blacklisted
    <3> QED
      BY <1>1, <1>5, <2>1, <2>3, <3>1
      DEF Conforming, AutoBlock, Charged, Solvent, TypeOK
  <2> QED
    BY <2>2, <2>3
<1>6. ASSUME NEW s \in Sources, NEW p \in Protos, Pipeline(s, p)
      PROVE  Limiter(x)!Next \/ UNCHANGED Limiter(x)!vars
  <2>1. CASE ShieldsUp(s) \/ AllowlistBypass(s) \/ ProtocolDrop(s, p)
    BY <1>2, <2>1 DEF ShieldsUp, AllowlistBypass, ProtocolDrop, Admitted
  <2> QED
    BY <1>3, <1>4, <1>5, <1>6, <2>1 DEF Pipeline
<1>7. CASE OtherFrame
  BY <1>2, <1>7 DEF OtherFrame, ShieldsUp, Admitted
<1>8. CASE Tick
  <2>1. Limiter(x)!Tick
    BY <1>8 DEF Tick, kernel, limiter, Limiter!Tick
  <2> QED
    BY <2>1 DEF Limiter!Next
<1>9. ASSUME NEW s \in Sources, Unblock(s)
      PROVE  Limiter(x)!Next \/ UNCHANGED Limiter(x)!vars
  <2>1. CASE x = s
    <3>1. /\ Limiter(x)!Exhausted(rate[x]) <=> Exhausted(rate[x])
          /\ lapsed'[x] = (\/ lapsed[x]
                           \/ /\ Exhausted(rate[x])
                              /\ clock < blockedAt[x] + NS_PER_SEC)
      BY <1>9, <2>1, Zenon DEF Limiter!Exhausted, Exhausted, Unblock, TypeOK
    <3>2. /\ x \in blacklist /\ x \notin blacklist'
          /\ UNCHANGED <<clock, rate, outcome, blockedAt, credit, seen, slips>>
      BY <1>9, <2>1 DEF Unblock
    <3>3. (x \in blacklist') = FALSE
      BY <3>2
    <3>4. Limiter(x)!Unblock
      BY <3>1, <3>2, <3>3, Zenon DEF Limiter!Unblock
    <3> QED
      BY <3>4 DEF Limiter!Next
  <2>2. CASE x # s
    BY <1>1, <1>9, <2>2 DEF Unblock, TypeOK
  <2> QED
    BY <2>1, <2>2
<1>10. ASSUME NEW s \in Sources, Restore(s)
       PROVE  Limiter(x)!Next \/ UNCHANGED Limiter(x)!vars
  <2>1. CASE x = s
    <3>1. /\ x \notin blacklist
          /\ UNCHANGED <<clock, rate, blockedAt, outcome, credit, seen, lapsed,
                         slips>>
      BY <1>10, <2>1 DEF Restore, limiter
    <3>2. CASE x \in blacklist'
      <4>1. Limiter(x)!Restore
        BY <3>1, <3>2 DEF Limiter!Restore
      <4> QED
        BY <4>1 DEF Limiter!Next
    <3>3. CASE x \notin blacklist'
      BY <1>1, <3>1, <3>3
    <3> QED
      BY <3>2, <3>3
  <2>2. CASE x # s
    BY <1>1, <1>10, <2>2 DEF Restore, Blacklisted, limiter
  <2> QED
    BY <2>1, <2>2
<1>11. CASE Userspace
  BY <1>2, <1>9, <1>10, <1>11 DEF Userspace, AllowlistAdd, AllowlistRemove,
     SetProtoFilter, Consume
<1>12. CASE RuntFrame \/ Observe \/ UNCHANGED vars
  BY <1>2, <1>12 DEF RuntFrame, Observe, vars, kernel
<1> QED
  BY <1>6, <1>7, <1>8, <1>11, <1>12 DEF Next, Frame, Packet

LEMMA SlipsCountedStep ==
  ASSUME TypeOK, SlipsCounted, [Next]_vars
  PROVE  SlipsCounted'
<1> SUFFICES ASSUME NEW x \in Sources PROVE slips'[x] <= packets'
  BY DEF SlipsCounted
<1>1. /\ packets \in Nat /\ slips[x] \in Nat /\ slips[x] <= packets
  BY DEF TypeOK, SlipsCounted
<1>2. CASE packets' \in {packets, packets + 1} /\ slips'[x] \in {slips[x], 0}
  BY <1>1, <1>2
<1>3. CASE packets' = packets + 1 /\ slips'[x] <= slips[x] + 1
           /\ slips'[x] \in Nat
  BY <1>1, <1>3
<1>4. ASSUME NEW s \in Sources, NEW p \in Protos, Pipeline(s, p)
      PROVE  slips'[x] <= packets'
  <2>1. packets' = packets + 1
    BY <1>4 DEF Pipeline, ShieldsUp, AllowlistBypass, ProtocolDrop,
       BlacklistDrop, FirstPacket, Conforming, AutoBlock, Charged, Metered,
       Admitted, Counted
  <2>2. CASE AutoBlock(s, p)
    BY <1>3, <2>1, <2>2 DEF AutoBlock, TypeOK
  <2>3. CASE ~ AutoBlock(s, p)
    <3>1. slips' = slips \/ slips' = [slips EXCEPT ![s] = 0]
      BY <1>4, <2>3 DEF Pipeline, ShieldsUp, AllowlistBypass, ProtocolDrop,
         BlacklistDrop, FirstPacket, Conforming, Solvent, limiter
    <3> QED
      BY <1>2, <2>1, <3>1 DEF TypeOK
  <2> QED
    BY <2>2, <2>3
<1>5. CASE OtherFrame
  BY <1>2, <1>5 DEF OtherFrame, ShieldsUp, Admitted, Counted, limiter
<1>6. CASE Tick \/ RuntFrame \/ Observe \/ UNCHANGED vars
  BY <1>2, <1>6 DEF Tick, RuntFrame, Observe, vars, limiter
<1>7. CASE Userspace
  BY <1>2, <1>7 DEF Userspace, AllowlistAdd, AllowlistRemove, Unblock, Restore,
     SetProtoFilter, Consume, limiter
<1> QED
  BY <1>4, <1>5, <1>6, <1>7 DEF Next, Frame, Packet

LEMMA SlipsCountedSpec == Spec => [](TypeOK /\ SlipsCounted)
<1>1. Init => SlipsCounted
  BY DEF Init, SlipsCounted
<1>2. TypeOK /\ SlipsCounted /\ [Next]_vars => SlipsCounted'
  BY SlipsCountedStep
<1> QED
  BY <1>1, <1>2, TypeCorrect, PTL DEF Spec

\* The filter implements RateLimiter for every source at once: neither other
\* sources' packets, nor evictions, nor full maps, nor userspace make it treat
\* a source in a way its own bucket and its own block do not account for.
THEOREM EverySourceHasItsLimiter == Spec => ActsAsRateLimiter
<1>1. Init => \A s \in Sources : Limiter(s)!Init
  BY DEF Init, Limiter!Init, Limiter!NoBucket, NoBucket, Limiter!FullCredit,
         FullCredit
<1>2. (TypeOK /\ SlipsCounted) /\ [Next]_vars
        => [ \A s \in Sources :
               Limiter(s)!Next \/ UNCHANGED Limiter(s)!vars ]_vars
  BY LimiterStep
<1> QED
  BY <1>1, <1>2, SlipsCountedSpec, PTL DEF Spec, ActsAsRateLimiter

\* What a step does to the packets a source was charged for and to its bucket.
LEMMA ChargeSteps ==
  ASSUME TypeOK, [Next]_vars, NEW x \in Sources
  PROVE  \/ /\ charged'[x] = charged[x]
            /\ rate'[x] = rate[x] \/ rate'[x] = NoBucket
            /\ outcome'[x] = outcome[x] \/ outcome'[x] = "blacklisted"
         \/ /\ charged'[x] = charged[x] + 1
            /\ rate'[x] = FreshBucket(clock)
            /\ outcome'[x] = "pass"
         \/ /\ charged'[x] = charged[x] + 1
            /\ rate'[x] = TokenBucketCheck(rate[x], clock)
            /\ outcome'[x] = "exhausted" => Exhausted(rate'[x])
<1> DEFINE Goal ==
         \/ /\ charged'[x] = charged[x]
            /\ rate'[x] = rate[x] \/ rate'[x] = NoBucket
            /\ outcome'[x] = outcome[x] \/ outcome'[x] = "blacklisted"
         \/ /\ charged'[x] = charged[x] + 1
            /\ rate'[x] = FreshBucket(clock)
            /\ outcome'[x] = "pass"
         \/ /\ charged'[x] = charged[x] + 1
            /\ rate'[x] = TokenBucketCheck(rate[x], clock)
            /\ outcome'[x] = "exhausted" => Exhausted(rate'[x])
<1> SUFFICES Goal
  OBVIOUS
<1>1. CASE UNCHANGED <<rate, outcome, charged>>
  BY <1>1
<1>2. ASSUME NEW s \in Sources, NEW p \in Protos, BlacklistDrop(s, p)
      PROVE  Goal
  BY <1>2 DEF BlacklistDrop, TypeOK
<1>3. ASSUME NEW s \in Sources, NEW p \in Protos, FirstPacket(s, p)
      PROVE  Goal
  <2>1. PICK map \in WithRoom(rate, NoBucket, s) :
               rate' = [map EXCEPT ![s] = FreshBucket(clock)]
    BY <1>3 DEF FirstPacket
  <2>2. /\ map \in [Sources -> Bucket]
        /\ map[x] = rate[x] \/ map[x] = NoBucket
    <3>1. NoBucket \in Bucket
      BY BucketAssumption DEF NoBucket, Bucket
    <3>2. rate \in [Sources -> Bucket]
      BY DEF TypeOK
    <3> QED
      BY <3>1, <3>2, RoomIsMade
  <2> QED
    BY <1>3, <2>1, <2>2 DEF FirstPacket, TypeOK
<1>4. ASSUME NEW s \in Sources, NEW p \in Protos,
             Conforming(s, p) \/ AutoBlock(s, p)
      PROVE  Goal
  <2>1. Charged(s, p)
    BY <1>4 DEF Conforming, AutoBlock
  <2>2. CASE x = s
    BY <1>4, <2>1, <2>2 DEF Conforming, AutoBlock, Charged, TypeOK
  <2>3. CASE x # s
    BY <1>4, <2>1, <2>3 DEF Conforming, AutoBlock, Charged, TypeOK
  <2> QED
    BY <2>2, <2>3
<1> HIDE DEF Goal
<1>5. ASSUME NEW s \in Sources, NEW p \in Protos, Pipeline(s, p) PROVE Goal
  <2>1. CASE ShieldsUp(s) \/ AllowlistBypass(s) \/ ProtocolDrop(s, p)
    BY <1>1, <2>1 DEF ShieldsUp, AllowlistBypass, ProtocolDrop, limiter
  <2> QED
    BY <1>2, <1>3, <1>4, <1>5, <2>1 DEF Pipeline
<1>6. CASE OtherFrame
  BY <1>1, <1>6 DEF OtherFrame, ShieldsUp, limiter
<1>7. CASE Tick \/ RuntFrame \/ Observe \/ UNCHANGED vars
  BY <1>1, <1>7 DEF Tick, RuntFrame, Observe, vars, kernel, limiter
<1>8. CASE Userspace
  BY <1>1, <1>8 DEF Userspace, AllowlistAdd, AllowlistRemove, Unblock, Restore,
     SetProtoFilter, Consume, limiter
<1> QED
  BY <1>5, <1>6, <1>7, <1>8 DEF Next, Frame, Packet

\* The inductive invariant: what is missing in a bucket was taken by packets
\* charged to it, and the verdict of the last charge agrees.
ChargedInv ==
  \A s \in Sources :
    /\ rate[s].tokens + charged[s] >= KERN_PPS_LIMIT
    /\ outcome[s] = "exhausted" => charged[s] > KERN_PPS_LIMIT

\* A source is never found exhausted within KERN_PPS_LIMIT packets of its own.
THEOREM OnlyFloodsAreBlocked == Spec => []NoBlockWithinLimit
<1>1. Init => ChargedInv
  BY BucketAssumption DEF Init, ChargedInv, NoBucket
<1>2. TypeOK /\ ChargedInv /\ [Next]_vars => ChargedInv'
  <2> SUFFICES ASSUME TypeOK, ChargedInv, [Next]_vars, NEW x \in Sources
               PROVE  /\ rate'[x].tokens + charged'[x] >= KERN_PPS_LIMIT
                      /\ outcome'[x] = "exhausted"
                           => charged'[x] > KERN_PPS_LIMIT
    BY DEF ChargedInv
  <2>1. /\ rate[x] \in Bucket /\ rate[x].tokens \in Int
        /\ charged[x] \in Nat /\ clock \in Nat
        /\ rate[x].tokens + charged[x] >= KERN_PPS_LIMIT
        /\ outcome[x] = "exhausted" => charged[x] > KERN_PPS_LIMIT
    BY DEF TypeOK, Bucket, ChargedInv
  <2>2. CASE /\ charged'[x] = charged[x]
             /\ rate'[x] = rate[x] \/ rate'[x] = NoBucket
             /\ outcome'[x] = outcome[x] \/ outcome'[x] = "blacklisted"
    BY <2>1, <2>2, BucketAssumption DEF NoBucket
  <2>3. CASE /\ charged'[x] = charged[x] + 1
             /\ rate'[x] = FreshBucket(clock)
             /\ outcome'[x] = "pass"
    BY <2>1, <2>3, BucketAssumption DEF FreshBucket
  <2>4. CASE /\ charged'[x] = charged[x] + 1
             /\ rate'[x] = TokenBucketCheck(rate[x], clock)
             /\ outcome'[x] = "exhausted" => Exhausted(rate'[x])
    <3> DEFINE refill == Refill(Elapsed(rate[x], clock), KERN_PPS_LIMIT)
               next   == TokenBucketCheck(rate[x], clock)
    <3>0. /\ refill \in Nat
          /\ refill > 0
               => /\ next.last_time = clock
                  /\ next.tokens
                       = AtMost(rate[x].tokens + refill, KERN_PPS_LIMIT) - 1
          /\ refill = 0
               => /\ next.last_time = rate[x].last_time
                  /\ next.tokens = rate[x].tokens - 1
      BY <2>1, CheckCases, Zenon
    <3> HIDE DEF refill
    <3>1. /\ refill \in Nat
          /\ refill > 0 => rate'[x].tokens
                = AtMost(rate[x].tokens + refill, KERN_PPS_LIMIT) - 1
          /\ refill = 0 => rate'[x].tokens = rate[x].tokens - 1
      BY <2>4, <3>0
    <3> HIDE DEF next
    <3>2. /\ rate'[x].tokens \in Int
          /\ rate'[x].tokens + charged'[x] >= KERN_PPS_LIMIT
      BY <2>1, <2>4, <3>1, BucketAssumption DEF AtMost
    <3> QED
      BY <2>1, <2>4, <3>2, BucketAssumption DEF Exhausted
  <2> QED
    BY <2>2, <2>3, <2>4, ChargeSteps
<1>3. ChargedInv => NoBlockWithinLimit
  BY DEF ChargedInv, NoBlockWithinLimit
<1> QED
  BY <1>1, <1>2, <1>3, TypeCorrect, PTL DEF Spec

-----------------------------------------------------------------------------
(* The order of the pipeline.                                              *)

\* A frame that is counted has a verdict that fixes the map entries it may have
\* touched.
LEMMA FrameVerdicts ==
  ASSUME TypeOK, [Next]_vars, packets' # packets, NEW s \in Sources,
         last'.src = s
  PROVE  /\ last'.verdict = "pass" => s \notin blacklist
         /\ s \in allowlist => UNCHANGED <<blacklist, charged, meter>>
<1> DEFINE Goal == /\ last'.verdict = "pass" => s \notin blacklist
                   /\ s \in allowlist => UNCHANGED <<blacklist, charged, meter>>
<1> SUFFICES Goal
  OBVIOUS
<1>0. Nobody # s
  BY FilterAssumption
<1>1. ASSUME NEW x \in Sources, NEW p \in Protos, Pipeline(x, p) PROVE Goal
  <2>1. CASE ShieldsUp(x)
    BY <2>1 DEF ShieldsUp, Ends, limiter
  <2>2. CASE AllowlistBypass(x)
    BY <2>2 DEF AllowlistBypass, Ends, limiter
  <2>3. CASE ProtocolDrop(x, p)
    BY <2>3 DEF ProtocolDrop, Ends, limiter
  <2>4. CASE BlacklistDrop(x, p)
    BY <2>4 DEF BlacklistDrop, Metered, Ends, Allowlisted
  <2>5. CASE FirstPacket(x, p)
    BY <2>5 DEF FirstPacket, Metered, Ends, Allowlisted, InBlacklist
  <2>6. CASE Conforming(x, p)
    BY <2>6 DEF Conforming, Charged, Metered, Ends, Allowlisted, InBlacklist
  <2>7. CASE AutoBlock(x, p)
    BY <2>7 DEF AutoBlock, Charged, Metered, Ends, Allowlisted, InBlacklist
  <2> QED
    BY <1>1, <2>1, <2>2, <2>3, <2>4, <2>5, <2>6, <2>7 DEF Pipeline
<1>2. CASE OtherFrame
  BY <1>0, <1>2 DEF OtherFrame, ShieldsUp, Ends
<1>3. CASE UNCHANGED packets
  BY <1>3
<1>4. CASE Tick \/ RuntFrame \/ Userspace \/ Observe \/ UNCHANGED vars
  BY <1>3, <1>4 DEF Tick, RuntFrame, Observe, vars, Userspace, AllowlistAdd,
     AllowlistRemove, Unblock, Restore, SetProtoFilter, Consume
<1> HIDE DEF Goal
<1> QED
  BY <1>1, <1>2, <1>4 DEF Next, Frame, Packet

\* The allowlist comes before the blacklist and the blacklist before the bucket:
\* a block holds for every packet that is not allowlisted, and no allowlisted
\* packet is metered, charged or blocked.
THEOREM BlocksHold == Spec => BlockHolds
<1>1. TypeOK /\ [Next]_vars
        => [ \A s \in Sources :
               /\ (packets' # packets /\ last' = [src |-> s, verdict |-> "pass"])
                     => s \notin blacklist
               /\ (packets' # packets /\ last'.src = s /\ s \in allowlist)
                     => /\ blacklist' = blacklist
                        /\ charged' = charged
                        /\ meter' = meter ]_vars
  <2> SUFFICES ASSUME TypeOK, [Next]_vars, packets' # packets,
                      NEW s \in Sources, last'.src = s
               PROVE  /\ last' = [src |-> s, verdict |-> "pass"]
                            => s \notin blacklist
                      /\ s \in allowlist
                            => /\ blacklist' = blacklist
                               /\ charged' = charged
                               /\ meter' = meter
    OBVIOUS
  <2> QED
    BY FrameVerdicts
<1> QED
  BY <1>1, TypeCorrect, PTL DEF Spec, BlockHolds

\* An event is the last entry of the ring buffer it is appended to.
LEMMA EmittedIsLast ==
  ASSUME TypeOK, NEW s \in Sources
  PROVE  /\ Len(Emitted(s)) > Len(ring) => Emitted(s)[Len(Emitted(s))] = s
         /\ Len(ring) < RING_EVENTS => Emitted(s) = Append(ring, s)
BY DEF TypeOK, Emitted

\* What changes the blacklist and the ring buffer: an automatic block changes
\* both, and whatever else changes one of them is not a counted frame.
LEMMA BlockSteps ==
  ASSUME TypeOK, [Next]_vars
  PROVE  \/ UNCHANGED <<blacklist, ring>>
         \/ UNCHANGED packets /\ (UNCHANGED ring \/ Consume)
         \/ \E s \in Sources : blacklist' = Blacklisted(s) /\ ring' = Emitted(s)
<1> DEFINE Goal ==
         \/ UNCHANGED <<blacklist, ring>>
         \/ UNCHANGED packets /\ (UNCHANGED ring \/ Consume)
         \/ \E s \in Sources : blacklist' = Blacklisted(s) /\ ring' = Emitted(s)
<1> SUFFICES Goal
  OBVIOUS
<1>1. ASSUME NEW s \in Sources, NEW p \in Protos, AutoBlock(s, p) PROVE Goal
  BY <1>1 DEF AutoBlock
<1>2. ASSUME NEW s \in Sources, NEW p \in Protos, Pipeline(s, p),
             ~ AutoBlock(s, p)
      PROVE  UNCHANGED <<blacklist, ring>>
  BY <1>2 DEF Pipeline, ShieldsUp, AllowlistBypass, ProtocolDrop, BlacklistDrop,
              FirstPacket, Conforming
<1>3. CASE OtherFrame \/ RuntFrame \/ Tick \/ Observe \/ UNCHANGED vars
  BY <1>3 DEF OtherFrame, RuntFrame, ShieldsUp, Tick, Observe, vars, kernel
<1>4. CASE Userspace
  BY <1>4 DEF Userspace, AllowlistAdd, AllowlistRemove, Unblock, Restore,
              SetProtoFilter, Consume
<1> QED
  BY <1>1, <1>2, <1>3, <1>4 DEF Next, Frame, Packet

\* No step can enter an event without the block it tells of, or a block without
\* its event, unless the one map or the one buffer is full.
THEOREM EventsTellOfBlocks == Spec => EventsTellBlocks
<1>1. TypeOK /\ [Next]_vars
        => [ /\ Len(ring') > Len(ring)
                   => LET s == ring'[Len(ring')]
                      IN  s \in blacklist' \/ Full(blacklist, s)
             /\ \A s \in blacklist' \ blacklist :
                  (packets' # packets /\ Len(ring) < RING_EVENTS)
                    => ring' = Append(ring, s) ]_vars
  <2> SUFFICES ASSUME TypeOK, [Next]_vars
               PROVE  /\ Len(ring') > Len(ring)
                            => \/ ring'[Len(ring')] \in blacklist'
                               \/ Full(blacklist, ring'[Len(ring')])
                      /\ \A s \in blacklist' \ blacklist :
                           (packets' # packets /\ Len(ring) < RING_EVENTS)
                             => ring' = Append(ring, s)
    OBVIOUS
  <2>1. Len(ring) \in Nat
    BY DEF TypeOK
  <2>2. CASE UNCHANGED <<blacklist, ring>>
    BY <2>1, <2>2
  <2>3. CASE UNCHANGED packets /\ (UNCHANGED ring \/ Consume)
    <3>1. Consume => Len(ring') < Len(ring)
      BY DEF Consume, TypeOK
    <3>2. ~ Len(ring') > Len(ring)
      BY <2>1, <2>3, <3>1
    <3> QED
      BY <2>3, <3>2
  <2>4. ASSUME NEW s \in Sources, blacklist' = Blacklisted(s), ring' = Emitted(s)
        PROVE  /\ Len(ring') > Len(ring)
                     => \/ ring'[Len(ring')] \in blacklist'
                        \/ Full(blacklist, ring'[Len(ring')])
               /\ \A x \in blacklist' \ blacklist :
                     (packets' # packets /\ Len(ring) < RING_EVENTS)
                       => ring' = Append(ring, x)
    <3>1. /\ Len(ring') > Len(ring) => ring'[Len(ring')] = s
          /\ Len(ring) < RING_EVENTS => ring' = Append(ring, s)
      BY <2>4, EmittedIsLast
    <3>2. s \in blacklist' \/ Full(blacklist, s)
      <4>1. CASE Cardinality(blacklist \cap Family(s)) < MaxEntries(s)
        BY <2>4, <4>1 DEF Blacklisted
      <4>2. CASE ~ (Cardinality(blacklist \cap Family(s)) < MaxEntries(s))
        <5>1. /\ Cardinality(blacklist \cap Family(s)) \in Nat
              /\ MaxEntries(s) \in Nat
          <6>1. IsFiniteSet(blacklist \cap Family(s))
            BY FilterAssumption, FS_Subset DEF TypeOK
          <6> QED
            BY <6>1, FS_CardinalityType, FilterAssumption DEF MaxEntries
        <5> QED
          BY <4>2, <5>1 DEF Full
      <4> QED
        BY <4>1, <4>2
    <3>3. \A x \in blacklist' \ blacklist : x = s
      BY <2>4 DEF Blacklisted
    <3> QED
      BY <3>1, <3>2, <3>3
  <2> QED
    BY <2>2, <2>3, <2>4, BlockSteps
<1> QED
  BY <1>1, TypeCorrect, PTL DEF Spec, EventsTellBlocks

=============================================================================
