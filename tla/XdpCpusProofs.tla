---------------------------- MODULE XdpCpusProofs ----------------------------
(***************************************************************************)
(* What survives the races of XdpCpus, for any number of CPUs, sources,    *)
(* elements and frames, and for every rate and word width.                 *)
(***************************************************************************)
EXTENDS XdpCpus, TokenBucketProofs, FiniteSetTheorems

\* The source finds the element in the map, or a CPU has a pointer to it on its
\* behalf.
Uses(s, e) ==
  \/ e \in entry[s]
  \/ \E c \in Cpus : Holds(c, e) /\ cpu[c].src = s

\* An element used for two sources makes both of them mixed.
Separate ==
  \A e \in Elements : \A s, t \in Sources :
    (Uses(s, e) /\ Uses(t, e) /\ s # t) => s \in mixed

\* The bucket in the element is one of the source: not one the CPU has yet to
\* fill.
Relies(s, e) ==
  \/ e \in entry[s]
  \/ \E c \in Cpus : Holds(c, e) /\ cpu[c].src = s /\ cpu[c].at # "fill"

\* What a bucket held at first is only ever spent by a charge.  A count a CPU
\* is about to store was loaded before: charges that happened since make the
\* bound on it weaker, never wrong.
Covers(s) ==
  /\ \A e \in Elements :
       Relies(s, e) => bucket[e].tokens + charged[s] >= KERN_PPS_LIMIT
  /\ \A c \in Cpus :
       cpu[c].src = s =>
         /\ At(c, "b_store")
              => cpu[c].tokens + charged[s] + 1 >= KERN_PPS_LIMIT
         /\ At(c, "auto_block") => charged[s] > KERN_PPS_LIMIT
  /\ blocked[s] => charged[s] > KERN_PPS_LIMIT

Covered == \A s \in Sources \ mixed : Covers(s)

\* The frames of a source that are past the blacklist check.
PastLabels == {"rate", "insert", "fill", "link", "b_time", "b_stamp", "b_load",
               "b_store", "auto_block"}
Past(s) == {c \in Cpus : cpu[c].at \in PastLabels /\ cpu[c].src = s}

\* Each of them can still leak through a block, or repeat its event, once.
LeaksInHand ==
  \A s \in Sources :
    blocked[s] =>
      leaked[s] + events[s] + Cardinality(Past(s)) <= Cardinality(Cpus)

-----------------------------------------------------------------------------
(* Types.                                                                  *)

LEMMA FrameType ==
  ASSUME NEW l \in Labels, NEW s \in Sources, NEW t \in Nat
  PROVE  FrameAt(l, s, t) \in Frame
BY DEF FrameAt, Frame

LEMMA IdleType == Idle \in Frame /\ Idle.at = "idle" /\ Idle.tb = {}
<1>1. (CHOOSE s \in Sources : TRUE) \in Sources
  BY CpuAssumption
<1>2. "idle" \in Labels
  BY DEF Labels
<1> QED
  BY <1>1, <1>2, FrameType DEF Idle, FrameAt

LEMMA RegisterTypes ==
  ASSUME NEW f \in Frame, NEW l \in Labels
  PROVE  /\ [f EXCEPT !.at = l] \in Frame
         /\ \A n \in Nat : [f EXCEPT !.at = l, !.refill = n] \in Frame
         /\ \A n \in Int : [f EXCEPT !.at = l, !.tokens = n] \in Frame
         /\ \A es \in SUBSET Elements :
              [f EXCEPT !.at = l, !.tb = es] \in Frame
BY DEF Frame

\* A CPU's next frame is a frame.
LEMMA CpuType ==
  ASSUME TypeOK, NEW c \in Cpus, NEW f \in Frame, Goes(c, f)
  PROVE  /\ cpu' \in [Cpus -> Frame]
         /\ cpu'[c] = f
         /\ \A d \in Cpus \ {c} : cpu'[d] = cpu[d]
BY DEF TypeOK, Goes

LEMMA TypeInit == Init => TypeOK
<1> SUFFICES ASSUME Init PROVE TypeOK
  OBVIOUS
<1>1. gtb \in Bucket /\ bucket \in [Elements -> Bucket]
  BY DEF Init, Bucket
<1>2. cpu \in [Cpus -> Frame]
  BY IdleType DEF Init
<1> QED
  BY <1>1, <1>2 DEF Init, TypeOK

\* What a CPU's step writes to its own frame.
LEMMA FrameStep ==
  ASSUME TypeOK, NEW c \in Cpus, Step(c), ~ RuntFrame(c)
  PROVE  \E f \in Frame : Goes(c, f)
<1> USE BucketAssumption
<1> DEFINE Good == \E f \in Frame : Goes(c, f)
<1>0. /\ cpu[c] \in Frame /\ cpu[c].now \in Nat /\ cpu[c].src \in Sources
      /\ cpu[c].refill \in Nat /\ cpu[c].tb \subseteq Elements
      /\ gtb \in Bucket /\ bucket \in [Elements -> Bucket]
  BY DEF TypeOK, Frame
<1>a. ASSUME NEW l \in Labels, Moves(c, l) PROVE Good
  BY <1>0, <1>a, RegisterTypes DEF Moves
<1>b. Leaves(c) => Good
  BY IdleType DEF Leaves
<1>c. ASSUME NEW l \in Labels, NEW s \in Sources, NEW t \in Nat,
             Goes(c, FrameAt(l, s, t))
      PROVE  Good
  BY <1>c, FrameType
<1>2. CASE Receive(c)
  BY <1>2, <1>c DEF Receive, TypeOK, Labels
<1>3. CASE GlobalTime(c)
  <2>1. Refill(Elapsed(gtb, cpu[c].now), GLOBAL_PPS_LIMIT) \in Nat
    BY <1>0, ElapsedNat, RefillBounds DEF TypeOK
  <2>2. "g_stamp" \in Labels /\ "g_load" \in Labels
    BY DEF Labels
  <2> QED
    BY <1>3, <2>1, <2>2, <1>0, <1>a, RegisterTypes DEF GlobalTime
<1>4. CASE GlobalStamp(c)
  BY <1>4, <1>a DEF GlobalStamp, Labels
<1>5. CASE GlobalLoad(c)
  <2>1. GlobalSpent(Replenished(gtb.tokens, cpu[c].refill, GLOBAL_PPS_LIMIT))
          \in Int
    BY <1>0 DEF GlobalSpent, Replenished, AtMost, Bucket
  <2>2. "g_store" \in Labels
    BY DEF Labels
  <2> QED
    BY <1>5, <2>1, <2>2, <1>0, RegisterTypes DEF GlobalLoad
<1>6. CASE GlobalStore(c)
  <2>1. "blacklist" \in Labels
    BY DEF Labels
  <2> QED
    BY <1>6, <2>1, <1>0, <1>b, <1>c DEF GlobalStore
<1>7. CASE BlacklistLookup(c)
  <2>1. "rate" \in Labels
    BY DEF Labels
  <2> QED
    BY <1>7, <2>1, <1>a, <1>b DEF BlacklistLookup
<1>8. CASE RateLookup(c)
  <2>1. "insert" \in Labels /\ "b_time" \in Labels
    BY DEF Labels
  <2>2. entry[cpu[c].src] \in SUBSET Elements
    BY <1>0 DEF TypeOK
  <2> QED
    BY <1>8, <2>1, <2>2, <1>0, RegisterTypes DEF RateLookup
<1>9. CASE InsertTakes(c)
  <2>1. "fill" \in Labels
    BY DEF Labels
  <2> QED
    BY <1>9, <2>1, <1>0, RegisterTypes DEF InsertTakes
<1>10. CASE InsertFails(c) \/ InsertLinks(c) \/ AutoBlock(c)
  BY <1>10, <1>b DEF InsertFails, InsertLinks, AutoBlock
<1>11. CASE InsertFills(c)
  BY <1>11, <1>a DEF InsertFills, Labels
<1>12. CASE BucketTime(c)
  <2>1. PICK e \in cpu[c].tb :
          LET gained == Refill(Elapsed(bucket[e], cpu[c].now), KERN_PPS_LIMIT)
          IN  Goes(c, [cpu[c] EXCEPT
                         !.at = IF gained > 0 THEN "b_stamp" ELSE "b_load",
                         !.refill = gained])
    BY <1>12 DEF BucketTime
  <2> DEFINE gained == Refill(Elapsed(bucket[e], cpu[c].now), KERN_PPS_LIMIT)
  <2>2. gained \in Nat
    BY <1>0, ElapsedNat, RefillBounds
  <2>3. (IF gained > 0 THEN "b_stamp" ELSE "b_load") \in Labels
    BY DEF Labels
  <2> HIDE DEF gained
  <2> QED
    BY <2>1, <2>2, <2>3, <1>0, RegisterTypes DEF gained
<1>13. CASE BucketStamp(c)
  BY <1>13, <1>a DEF BucketStamp, Labels
<1>14. CASE BucketLoad(c)
  <2>1. PICK e \in cpu[c].tb :
          Goes(c, [cpu[c] EXCEPT
                     !.at = "b_store",
                     !.tokens = Replenished(bucket[e].tokens, cpu[c].refill,
                                            KERN_PPS_LIMIT) - 1])
    BY <1>14 DEF BucketLoad
  <2>2. Replenished(bucket[e].tokens, cpu[c].refill, KERN_PPS_LIMIT) - 1 \in Int
    BY <1>0 DEF Replenished, AtMost, Bucket
  <2>3. "b_store" \in Labels
    BY DEF Labels
  <2> QED
    BY <2>1, <2>2, <2>3, <1>0, RegisterTypes
<1>15. CASE BucketStore(c)
  <2>1. "auto_block" \in Labels
    BY DEF Labels
  <2> QED
    BY <1>15, <2>1, <1>0, <1>b, <1>c DEF BucketStore
<1> QED
  BY <1>2, <1>3, <1>4, <1>5, <1>6, <1>7, <1>8, <1>9, <1>10, <1>11, <1>12,
     <1>13, <1>14, <1>15 DEF Step

\* The steps of one CPU keep the types.
LEMMA TypeStep ==
  ASSUME TypeOK, NEW c \in Cpus, Step(c)
  PROVE  TypeOK'
<1> USE BucketAssumption
<1>1. CASE RuntFrame(c)
  BY <1>1 DEF RuntFrame, vars, maps, history, TypeOK
<1>2. CASE ~ RuntFrame(c)
  <2>1. cpu' \in [Cpus -> Frame]
    BY <1>2, FrameStep, CpuType
  <2>2. cpu[c].src \in Sources /\ cpu[c].now \in Nat /\ cpu[c].tokens \in Int
        /\ cpu[c].tb \subseteq Elements
    BY DEF TypeOK, Frame
  <2>3. CASE \/ Receive(c) \/ GlobalTime(c) \/ GlobalLoad(c)
             \/ BlacklistLookup(c) \/ RateLookup(c) \/ BucketTime(c)
             \/ BucketLoad(c)
    <3>1. UNCHANGED <<clock, gtb, maps, history>>
      BY <2>3 DEF Receive, GlobalTime, GlobalLoad, BlacklistLookup, RateLookup,
                  BucketTime, BucketLoad
    <3>2. frames' = frames \/ frames' = frames + 1
      BY <2>3 DEF Receive, GlobalTime, GlobalLoad, BlacklistLookup, RateLookup,
                  BucketTime, BucketLoad
    <3> QED
      BY <2>1, <3>1, <3>2 DEF TypeOK, maps, history
  <2>4. CASE GlobalStamp(c) \/ GlobalStore(c)
    <3>1. gtb' \in Bucket
      BY <2>2, <2>4 DEF GlobalStamp, GlobalStore, TypeOK, Bucket
    <3>2. UNCHANGED <<clock, frames, maps, history>>
      BY <2>4 DEF GlobalStamp, GlobalStore
    <3> QED
      BY <2>1, <3>1, <3>2 DEF TypeOK, maps, history
  <2>5. CASE InsertTakes(c)
    <3>1. entry' \in [Sources -> SUBSET Elements]
      BY <2>5 DEF InsertTakes, TypeOK
    <3>2. mixed' \subseteq Sources
      <4>1. \A d \in Cpus : cpu[d].src \in Sources
        BY DEF TypeOK, Frame
      <4>2. \A e : Intruded(e, cpu[c].src) \subseteq Sources
        BY <4>1 DEF Intruded
      <4>3. PICK e \in Elements :
              mixed' = IF Intruded(e, cpu[c].src) = {} THEN mixed
                       ELSE mixed \cup Intruded(e, cpu[c].src)
                              \cup {cpu[c].src}
        BY <2>5 DEF InsertTakes
      <4> QED
        BY <2>2, <4>2, <4>3 DEF TypeOK
    <3> QED
      BY <2>1, <2>5, <3>1, <3>2 DEF InsertTakes, TypeOK
  <2>6. CASE InsertFails(c) \/ InsertLinks(c)
    <3>1. leaked' \in [Sources -> Nat]
      BY <2>6 DEF InsertFails, InsertLinks, Passes, TypeOK
    <3>2. entry' \in [Sources -> SUBSET Elements]
      BY <2>2, <2>6 DEF InsertFails, InsertLinks, TypeOK, maps
    <3> QED
      BY <2>1, <2>6, <3>1, <3>2 DEF InsertFails, InsertLinks, TypeOK, maps
  <2>7. CASE InsertFills(c)
    <3>1. FreshBucket(cpu[c].now) \in Bucket
      BY <2>2 DEF FreshBucket, Bucket
    <3>2. bucket' \in [Elements -> Bucket]
      BY <2>7, <3>1 DEF InsertFills, TypeOK
    <3>3. charged' \in [Sources -> Nat]
      BY <2>2, <2>7 DEF InsertFills, Charge, TypeOK
    <3> QED
      BY <2>1, <2>7, <3>2, <3>3 DEF InsertFills, TypeOK
  <2>8. CASE BucketStamp(c)
    <3>1. bucket' \in [Elements -> Bucket]
      BY <2>2, <2>8 DEF BucketStamp, TypeOK, Bucket
    <3> QED
      BY <2>1, <2>8, <3>1 DEF BucketStamp, TypeOK, history
  <2>9. CASE BucketStore(c)
    <3>1. bucket' \in [Elements -> Bucket]
      BY <2>2, <2>9 DEF BucketStore, TypeOK, Bucket
    <3>2. charged' \in [Sources -> Nat]
      BY <2>2, <2>9 DEF BucketStore, Charge, TypeOK
    <3>3. leaked' \in [Sources -> Nat]
      BY <2>9 DEF BucketStore, Passes, TypeOK
    <3> QED
      BY <2>1, <2>9, <3>1, <3>2, <3>3 DEF BucketStore, TypeOK
  <2>10. CASE AutoBlock(c)
    <3>1. blocked' \in [Sources -> BOOLEAN]
      BY <2>10 DEF AutoBlock, TypeOK
    <3>2. leaked' \in [Sources -> Nat]
      BY <2>2, <2>10 DEF AutoBlock, TypeOK
    <3>3. events' \in [Sources -> Nat]
      BY <2>2, <2>10 DEF AutoBlock, TypeOK
    <3> QED
      BY <2>1, <2>10, <3>1, <3>2, <3>3 DEF AutoBlock, TypeOK
  <2> QED
    BY <1>2, <2>3, <2>4, <2>5, <2>6, <2>7, <2>8, <2>9, <2>10 DEF Step
<1> QED
  BY <1>1, <1>2

LEMMA TypeNext == TypeOK /\ [Next]_vars => TypeOK'
<1> SUFFICES ASSUME TypeOK, [Next]_vars PROVE TypeOK'
  OBVIOUS
<1>1. ASSUME NEW s \in Sources, Unblock(s) PROVE TypeOK'
  <2>1. blocked' \in [Sources -> BOOLEAN]
    BY <1>1 DEF Unblock, TypeOK
  <2> QED
    BY <1>1, <2>1 DEF Unblock, history, TypeOK
<1>2. CASE Tick
  BY <1>2 DEF Tick, maps, history, TypeOK
<1>3. CASE UNCHANGED vars
  BY <1>3 DEF vars, maps, history, TypeOK
<1> QED
  BY <1>1, <1>2, <1>3, TypeStep DEF Next

\* Type correctness: no interleaving makes a register negative or a bucket's
\* time anything but a time.
THEOREM TypeCorrect == Spec => []TypeOK
BY TypeInit, TypeNext, PTL DEF Spec

-----------------------------------------------------------------------------
(* Who uses an element.                                                    *)

\* A step that does not read the map keeps the CPU's pointer or drops it.
LEMMA PointerStep ==
  ASSUME TypeOK, NEW c \in Cpus, Step(c),
         ~ RuntFrame(c), ~ RateLookup(c), ~ InsertTakes(c)
  PROVE  /\ \A d \in Cpus \ {c} : cpu'[d] = cpu[d]
         /\ \/ cpu'[c].tb = {}
            \/ cpu'[c].tb = cpu[c].tb /\ cpu'[c].src = cpu[c].src
<1>1. PICK f \in Frame : Goes(c, f)
  BY FrameStep
<1>2. cpu[c] \in Frame
  BY DEF TypeOK
<1>3. cpu'[c] = f /\ \A d \in Cpus \ {c} : cpu'[d] = cpu[d]
  BY <1>1, CpuType
<1> DEFINE Kept ==
      cpu'[c].tb = {} \/ (cpu'[c].tb = cpu[c].tb /\ cpu'[c].src = cpu[c].src)
<1> SUFFICES Kept
  BY <1>3
<1>a. ASSUME NEW g, Goes(c, g) PROVE cpu'[c] = g
  BY <1>a DEF Goes, TypeOK
<1>b. Leaves(c) => Kept
  BY <1>a, IdleType DEF Leaves
<1>c. ASSUME NEW l, Moves(c, l) PROVE Kept
  BY <1>a, <1>c, <1>2 DEF Moves, Frame
<1>d. ASSUME NEW l, NEW s, NEW t, Goes(c, FrameAt(l, s, t))
      PROVE  Kept
  BY <1>a, <1>d DEF FrameAt
<1>e. ASSUME NEW l, NEW n, Goes(c, [cpu[c] EXCEPT !.at = l, !.refill = n])
      PROVE  Kept
  BY <1>a, <1>e, <1>2 DEF Frame
<1>f. ASSUME NEW l, NEW n, Goes(c, [cpu[c] EXCEPT !.at = l, !.tokens = n])
      PROVE  Kept
  BY <1>a, <1>f, <1>2 DEF Frame
<1>4. CASE Receive(c)
  BY <1>4, <1>d DEF Receive
<1>5. CASE GlobalTime(c)
  BY <1>5, <1>c, <1>e DEF GlobalTime
<1>6. CASE GlobalStamp(c) \/ BucketStamp(c) \/ InsertFills(c)
  BY <1>6, <1>c DEF GlobalStamp, BucketStamp, InsertFills
<1>7. CASE GlobalLoad(c)
  BY <1>7, <1>f DEF GlobalLoad
<1>8. CASE GlobalStore(c)
  BY <1>8, <1>b, <1>d DEF GlobalStore
<1>9. CASE BlacklistLookup(c)
  BY <1>9, <1>b, <1>c DEF BlacklistLookup
<1>10. CASE InsertFails(c) \/ InsertLinks(c) \/ AutoBlock(c)
  BY <1>10, <1>b DEF InsertFails, InsertLinks, AutoBlock
<1>11. CASE BucketTime(c)
  BY <1>11, <1>e DEF BucketTime
<1>12. CASE BucketLoad(c)
  BY <1>12, <1>f DEF BucketLoad
<1>13. CASE BucketStore(c)
  BY <1>13, <1>b, <1>d DEF BucketStore
<1> QED
  BY <1>4, <1>5, <1>6, <1>7, <1>8, <1>9, <1>10, <1>11, <1>12, <1>13 DEF Step

\* RateLookup: the new pointer is to an element the source has.
LEMMA LookupStep ==
  ASSUME TypeOK, NEW c \in Cpus, RateLookup(c)
  PROVE  /\ \A d \in Cpus \ {c} : cpu'[d] = cpu[d]
         /\ cpu'[c].src = cpu[c].src
         /\ cpu'[c].tb = entry[cpu[c].src]
         /\ cpu'[c].at \in {"insert", "b_time"}
<1>1. cpu[c] \in Frame
  BY DEF TypeOK
<1>2. cpu' = [cpu EXCEPT ![c] =
                [cpu[c] EXCEPT
                   !.at = IF entry[cpu[c].src] = {} THEN "insert" ELSE "b_time",
                   !.tb = entry[cpu[c].src]]]
  BY DEF RateLookup, Goes
<1> QED
  BY <1>1, <1>2 DEF Frame, TypeOK

\* InsertTakes: the element has no other user but those that become mixed.
LEMMA TakeStep ==
  ASSUME TypeOK, NEW c \in Cpus, InsertTakes(c)
  PROVE  \E e \in Elements :
           /\ \A d \in Cpus \ {c} : cpu'[d] = cpu[d]
           /\ cpu'[c].src = cpu[c].src
           /\ cpu'[c].tb = {e}
           /\ cpu'[c].at = "fill"
           /\ entry' = [s \in Sources |-> entry[s] \ {e}]
           /\ mixed' = IF Intruded(e, cpu[c].src) = {} THEN mixed
                       ELSE mixed \cup Intruded(e, cpu[c].src) \cup {cpu[c].src}
<1>1. cpu[c] \in Frame
  BY DEF TypeOK
<1>2. PICK e \in Elements :
        /\ entry' = [s \in Sources |-> entry[s] \ {e}]
        /\ cpu' = [cpu EXCEPT ![c] =
                     [cpu[c] EXCEPT !.at = "fill", !.tb = {e}]]
        /\ mixed' = IF Intruded(e, cpu[c].src) = {} THEN mixed
                    ELSE mixed \cup Intruded(e, cpu[c].src) \cup {cpu[c].src}
  BY DEF InsertTakes, Goes
<1>3. cpu'[c] = [cpu[c] EXCEPT !.at = "fill", !.tb = {e}]
  BY <1>2 DEF TypeOK
<1>4. cpu'[c].src = cpu[c].src /\ cpu'[c].tb = {e} /\ cpu'[c].at = "fill"
  BY <1>1, <1>3 DEF Frame
<1> QED
  BY <1>2, <1>4 DEF TypeOK

\* Entries change only where an element is taken or linked.
LEMMA EntryStep ==
  ASSUME NEW c \in Cpus, Step(c), ~ InsertTakes(c), ~ InsertLinks(c)
  PROVE  entry' = entry
BY DEF Step, RuntFrame, vars, maps, history, Receive, GlobalTime, GlobalStamp,
       GlobalLoad, GlobalStore, BlacklistLookup, RateLookup, InsertFails,
       InsertFills, BucketTime, BucketStamp, BucketLoad, BucketStore, AutoBlock

LEMMA MixedStep ==
  ASSUME NEW c \in Cpus, Step(c), ~ InsertTakes(c)
  PROVE  mixed' = mixed
BY DEF Step, RuntFrame, vars, maps, history, Receive, GlobalTime, GlobalStamp,
       GlobalLoad, GlobalStore, BlacklistLookup, RateLookup, InsertFails,
       InsertFills, InsertLinks, BucketTime, BucketStamp, BucketLoad,
       BucketStore, AutoBlock

\* No step but InsertTakes makes a source use an element it did not use, and
\* none but InsertFills makes it rely on one it did not rely on.
LEMMA UsesStep ==
  ASSUME TypeOK, NEW c \in Cpus, Step(c), ~ InsertTakes(c),
         NEW s \in Sources, NEW e \in Elements
  PROVE  /\ Uses(s, e)' => Uses(s, e)
         /\ ~ InsertFills(c) => (Relies(s, e)' => Relies(s, e))
<1>1. CASE RuntFrame(c)
  BY <1>1 DEF RuntFrame, vars, Uses, Relies, Holds
<1>2. CASE RateLookup(c)
  <2>1. entry' = entry
    BY <1>2 DEF RateLookup, maps
  <2> QED
    BY <1>2, <2>1, LookupStep DEF Uses, Relies, Holds
<1>3. CASE InsertLinks(c)
  <2>1. ~ RuntFrame(c) /\ ~ RateLookup(c)
    BY <1>3 DEF InsertLinks, RuntFrame, RateLookup, At
  <2>2. entry' = [entry EXCEPT ![cpu[c].src] = cpu[c].tb] /\ cpu[c].at = "link"
    BY <1>3 DEF InsertLinks, At
  <2>3. cpu'[c].tb = {} /\ \A d \in Cpus \ {c} : cpu'[d] = cpu[d]
    BY <1>3, IdleType DEF InsertLinks, Leaves, Goes, TypeOK
  <2> QED
    BY <2>2, <2>3 DEF Uses, Relies, Holds, TypeOK
<1>4. CASE ~ RuntFrame(c) /\ ~ RateLookup(c) /\ ~ InsertLinks(c)
  <2>1. entry' = entry
    BY <1>4, EntryStep
  <2>2. InsertFills(c) \/ cpu[c].at # "fill"
    BY <1>4 DEF Step, At, Receive, GlobalTime, GlobalStamp, GlobalLoad,
       GlobalStore, BlacklistLookup, InsertFails, BucketTime, BucketStamp,
       BucketLoad, BucketStore, AutoBlock
  <2> QED
    BY <1>4, <2>1, <2>2, PointerStep DEF Uses, Relies, Holds
<1> QED
  BY <1>1, <1>2, <1>3, <1>4

LEMMA SeparateStep ==
  ASSUME TypeOK, Separate, NEW c \in Cpus, Step(c)
  PROVE  Separate'
<1>1. CASE ~ InsertTakes(c)
  <2>1. mixed' = mixed
    BY <1>1, MixedStep
  <2> QED
    BY <1>1, <2>1, UsesStep DEF Separate
<1>2. CASE InsertTakes(c)
  <2>1. PICK e \in Elements :
           /\ \A d \in Cpus \ {c} : cpu'[d] = cpu[d]
           /\ cpu'[c].src = cpu[c].src
           /\ cpu'[c].tb = {e}
           /\ cpu'[c].at = "fill"
           /\ entry' = [s \in Sources |-> entry[s] \ {e}]
           /\ mixed' = IF Intruded(e, cpu[c].src) = {} THEN mixed
                       ELSE mixed \cup Intruded(e, cpu[c].src) \cup {cpu[c].src}
    BY <1>2, TakeStep
  <2> DEFINE own == cpu[c].src
  <2>2. ASSUME NEW g \in Elements, NEW s \in Sources, NEW t \in Sources,
               Uses(s, g)', Uses(t, g)', s # t
        PROVE  s \in mixed'
    <3>1. CASE g # e
      <4>1. Uses(s, g) /\ Uses(t, g)
        BY <2>1, <2>2, <3>1 DEF Uses, Holds
      <4> QED
        BY <4>1, <2>1, <2>2 DEF Separate
    <3>2. CASE g = e
      <4>1. ASSUME NEW u \in Sources, Uses(u, g)', u # own
            PROVE  u \in Intruded(e, own)
        <5>1. PICK d \in Cpus : g \in cpu'[d].tb /\ cpu'[d].src = u
          BY <2>1, <3>2, <4>1 DEF Uses, Holds
        <5>2. d # c
          BY <2>1, <4>1, <5>1
        <5>3. cpu'[d] = cpu[d]
          BY <2>1, <5>2
        <5> QED
          BY <3>2, <4>1, <5>1, <5>3 DEF Intruded, Holds
      <4>2. s = own \/ s \in Intruded(e, own)
        BY <2>2, <4>1
      <4>3. Intruded(e, own) # {}
        BY <2>2, <4>1
      <4> QED
        BY <2>1, <4>2, <4>3
    <3> QED
      BY <3>1, <3>2
  <2> QED
    BY <2>2 DEF Separate
<1> QED
  BY <1>1, <1>2

-----------------------------------------------------------------------------
(* Where a step leads.                                                     *)

EarlyLabels == {"idle", "g_time", "g_stamp", "g_load", "g_store", "blacklist"}

LEMMA GoesTo ==
  ASSUME TypeOK, NEW c \in Cpus
  PROVE  /\ Leaves(c) => cpu'[c] = Idle /\ cpu'[c].at = "idle"
         /\ \A l \in Labels :
              Moves(c, l) => cpu'[c].at = l /\ cpu'[c].src = cpu[c].src
         /\ \A l, s, t :
              Goes(c, FrameAt(l, s, t)) => cpu'[c].at = l /\ cpu'[c].src = s
         /\ \A l, n :
              Goes(c, [cpu[c] EXCEPT !.at = l, !.refill = n])
                => cpu'[c].at = l /\ cpu'[c].src = cpu[c].src
         /\ \A l, n :
              Goes(c, [cpu[c] EXCEPT !.at = l, !.tokens = n])
                => /\ cpu'[c].at = l /\ cpu'[c].src = cpu[c].src
                   /\ cpu'[c].tokens = n
<1>1. cpu[c] \in Frame
  BY DEF TypeOK
<1>2. ASSUME NEW f, Goes(c, f) PROVE cpu'[c] = f
  BY <1>2 DEF Goes, TypeOK
<1>3. Leaves(c) => cpu'[c] = Idle /\ cpu'[c].at = "idle"
  BY <1>2, IdleType DEF Leaves
<1>4. ASSUME NEW l \in Labels, Moves(c, l)
      PROVE  cpu'[c].at = l /\ cpu'[c].src = cpu[c].src
  BY <1>1, <1>2, <1>4 DEF Moves, Frame
<1>5. ASSUME NEW l, NEW s, NEW t, Goes(c, FrameAt(l, s, t))
      PROVE  cpu'[c].at = l /\ cpu'[c].src = s
  BY <1>2, <1>5 DEF FrameAt
<1>6. ASSUME NEW l, NEW n, Goes(c, [cpu[c] EXCEPT !.at = l, !.refill = n])
      PROVE  cpu'[c].at = l /\ cpu'[c].src = cpu[c].src
  BY <1>1, <1>2, <1>6 DEF Frame
<1>7. ASSUME NEW l, NEW n, Goes(c, [cpu[c] EXCEPT !.at = l, !.tokens = n])
      PROVE  /\ cpu'[c].at = l /\ cpu'[c].src = cpu[c].src
             /\ cpu'[c].tokens = n
  BY <1>1, <1>2, <1>7 DEF Frame
<1> QED
  BY <1>3, <1>4, <1>5, <1>6, <1>7

LEMMA EarlyStep ==
  ASSUME TypeOK, NEW c \in Cpus,
         \/ Receive(c) \/ GlobalTime(c) \/ GlobalStamp(c) \/ GlobalLoad(c)
         \/ GlobalStore(c)
  PROVE  cpu[c].at \in EarlyLabels /\ cpu'[c].at \in EarlyLabels
<1> USE DEF EarlyLabels, At
<1>0. "g_load" \in Labels
  BY DEF Labels
<1>1. CASE Receive(c)
  BY <1>1, GoesTo DEF Receive
<1>2. CASE GlobalTime(c)
  BY <1>0, <1>2, GoesTo DEF GlobalTime
<1>3. CASE GlobalStamp(c)
  BY <1>0, <1>3, GoesTo DEF GlobalStamp
<1>4. CASE GlobalLoad(c)
  BY <1>4, GoesTo DEF GlobalLoad
<1>5. CASE GlobalStore(c)
  BY <1>5, GoesTo DEF GlobalStore
<1> QED
  BY <1>1, <1>2, <1>3, <1>4, <1>5

LEMMA BlacklistStep ==
  ASSUME TypeOK, NEW c \in Cpus, BlacklistLookup(c)
  PROVE  /\ cpu[c].at = "blacklist"
         /\ blocked[cpu[c].src] => cpu'[c].at = "idle"
         /\ ~ blocked[cpu[c].src]
              => cpu'[c].at = "rate" /\ cpu'[c].src = cpu[c].src
<1>1. "rate" \in Labels
  BY DEF Labels
<1> QED
  BY <1>1, GoesTo DEF BlacklistLookup, At

\* On the way from the blacklist check to the verdict.
LEMMA BucketSteps ==
  ASSUME TypeOK, NEW c \in Cpus,
         \/ RateLookup(c) \/ InsertTakes(c) \/ InsertFills(c)
         \/ BucketTime(c) \/ BucketStamp(c) \/ BucketLoad(c)
  PROVE  /\ cpu[c].at \in PastLabels /\ cpu'[c].at \in PastLabels
         /\ cpu'[c].src = cpu[c].src
         /\ ~ BucketLoad(c) => cpu'[c].at \notin {"b_store", "auto_block"}
<1> USE DEF PastLabels, At
<1>0. "link" \in Labels /\ "b_load" \in Labels
  BY DEF Labels
<1>1. CASE RateLookup(c)
  BY <1>1, LookupStep DEF RateLookup
<1>2. CASE InsertTakes(c)
  BY <1>2, TakeStep DEF InsertTakes
<1>3. CASE InsertFills(c)
  BY <1>0, <1>3, GoesTo DEF InsertFills
<1>4. CASE BucketTime(c)
  <2>1. \E e \in cpu[c].tb : \E l \in {"b_stamp", "b_load"} : \E n :
          Goes(c, [cpu[c] EXCEPT !.at = l, !.refill = n])
    BY <1>4 DEF BucketTime
  <2> QED
    BY <1>4, <2>1, GoesTo DEF BucketTime
<1>5. CASE BucketStamp(c)
  BY <1>0, <1>5, GoesTo DEF BucketStamp
<1>6. CASE BucketLoad(c)
  BY <1>6, GoesTo DEF BucketLoad
<1> QED
  BY <1>1, <1>2, <1>3, <1>4, <1>5, <1>6

LEMMA LastSteps ==
  ASSUME TypeOK, NEW c \in Cpus,
         \/ InsertFails(c) \/ InsertLinks(c) \/ AutoBlock(c)
         \/ BucketStore(c) /\ ~ (cpu[c].tokens < 0)
  PROVE  cpu[c].at \in PastLabels /\ cpu'[c].at = "idle"
BY GoesTo DEF InsertFails, InsertLinks, AutoBlock, BucketStore, PastLabels, At

LEMMA OthersStand ==
  ASSUME TypeOK, NEW c \in Cpus, Step(c)
  PROVE  \A d \in Cpus \ {c} : cpu'[d] = cpu[d]
<1>1. CASE RuntFrame(c)
  BY <1>1 DEF RuntFrame, vars
<1>2. CASE ~ RuntFrame(c)
  BY <1>2, FrameStep, CpuType
<1> QED
  BY <1>1, <1>2

-----------------------------------------------------------------------------
(* No block within the limit.                                              *)

\* A step without a charge or a verdict.
LEMMA CoveredElsewhere ==
  ASSUME TypeOK, Covered, NEW c \in Cpus,
         \A d \in Cpus \ {c} : cpu'[d] = cpu[d],
         cpu'[c].at \notin {"b_store", "auto_block"},
         \A s \in Sources, e \in Elements : Relies(s, e)' => Relies(s, e),
         \A e \in Elements : bucket'[e].tokens = bucket[e].tokens,
         charged' = charged, blocked' = blocked, mixed \subseteq mixed'
  PROVE  Covered'
BY DEF Covered, Covers, At

LEMMA CoveredStep ==
  ASSUME TypeOK, TypeOK', Separate, Covered, NEW c \in Cpus, Step(c)
  PROVE  Covered'
<1> USE BucketAssumption
<1> DEFINE own == cpu[c].src
<1>0. /\ own \in Sources /\ cpu[c].tokens \in Int /\ cpu[c].refill \in Nat
      /\ cpu[c].tb \subseteq Elements
      /\ bucket \in [Elements -> Bucket] /\ charged \in [Sources -> Nat]
      /\ \A d \in Cpus \ {c} : cpu'[d] = cpu[d]
  BY OthersStand DEF TypeOK, Frame
<1>1. CASE RuntFrame(c)
  BY <1>1 DEF RuntFrame, vars, history, Covered, Covers, Relies, Holds, At
<1>2. CASE \/ Receive(c) \/ GlobalTime(c) \/ GlobalStamp(c) \/ GlobalLoad(c)
           \/ GlobalStore(c)
  <2>1. ~ InsertTakes(c) /\ ~ InsertFills(c)
    BY <1>2 DEF Receive, GlobalTime, GlobalStamp, GlobalLoad, GlobalStore,
                InsertTakes, InsertFills, At
  <2>2. UNCHANGED <<bucket, charged, blocked, mixed>>
    BY <1>2 DEF Receive, GlobalTime, GlobalStamp, GlobalLoad, GlobalStore,
                maps, history
  <2>3. cpu'[c].at \notin {"b_store", "auto_block"}
    BY <1>2, EarlyStep DEF EarlyLabels
  <2> QED
    BY <1>0, <2>1, <2>2, <2>3, UsesStep, CoveredElsewhere
<1>3. CASE BlacklistLookup(c) \/ InsertFails(c) \/ InsertLinks(c)
  <2>1. ~ InsertTakes(c) /\ ~ InsertFills(c)
    <3>1. CASE BlacklistLookup(c) \/ InsertLinks(c)
      BY <3>1 DEF BlacklistLookup, InsertLinks, InsertTakes, InsertFills, At
    <3>2. CASE InsertFails(c)
      <4>1. cpu'[c].at # "fill"
        BY <3>2, LastSteps
      <4> QED
        BY <3>2, <4>1, TakeStep DEF InsertFails, InsertFills, At
    <3> QED
      BY <1>3, <3>1, <3>2
  <2>2. UNCHANGED <<bucket, charged, blocked, mixed>>
    BY <1>3 DEF BlacklistLookup, InsertFails, InsertLinks, maps, history
  <2>3. cpu'[c].at \notin {"b_store", "auto_block"}
    BY <1>3, BlacklistStep, LastSteps
  <2> QED
    BY <1>0, <2>1, <2>2, <2>3, UsesStep, CoveredElsewhere
<1>4. CASE RateLookup(c) \/ BucketTime(c) \/ BucketStamp(c)
  <2>1. ~ InsertTakes(c) /\ ~ InsertFills(c) /\ ~ BucketLoad(c)
    BY <1>4 DEF RateLookup, BucketTime, BucketStamp, InsertTakes, InsertFills,
                BucketLoad, At
  <2>2. UNCHANGED <<charged, blocked, mixed>>
    BY <1>4 DEF RateLookup, BucketTime, BucketStamp, maps, history
  <2>3. \A e \in Elements : bucket'[e].tokens = bucket[e].tokens
    <3>1. CASE BucketStamp(c)
      BY <1>0, <3>1 DEF BucketStamp, Bucket
    <3>2. CASE RateLookup(c) \/ BucketTime(c)
      BY <3>2 DEF RateLookup, BucketTime, maps
    <3> QED
      BY <1>4, <3>1, <3>2
  <2>4. cpu'[c].at \notin {"b_store", "auto_block"}
    BY <1>4, <2>1, BucketSteps
  <2> QED
    BY <1>0, <2>1, <2>2, <2>3, <2>4, UsesStep, CoveredElsewhere
<1>5. CASE InsertTakes(c)
  <2>1. PICK e \in Elements :
           /\ cpu'[c].src = own
           /\ cpu'[c].tb = {e}
           /\ cpu'[c].at = "fill"
           /\ entry' = [s \in Sources |-> entry[s] \ {e}]
           /\ mixed \subseteq mixed'
    BY <1>5, TakeStep
  <2>2. \A s \in Sources, g \in Elements : Relies(s, g)' => Relies(s, g)
    BY <1>0, <2>1 DEF Relies, Holds
  <2>3. UNCHANGED <<bucket, charged, blocked>>
    BY <1>5 DEF InsertTakes
  <2> QED
    BY <1>0, <2>1, <2>2, <2>3, CoveredElsewhere
<1>6. CASE InsertFills(c)
  <2>1. /\ ~ InsertTakes(c) /\ ~ BucketLoad(c)
        /\ UNCHANGED <<entry, blocked, mixed>>
        /\ charged' = [charged EXCEPT ![own] = @ + 1]
        /\ bucket' = [e \in Elements |->
             IF Holds(c, e) THEN FreshBucket(cpu[c].now) ELSE bucket[e]]
    BY <1>6 DEF InsertFills, InsertTakes, BucketLoad, At, Charge
  <2>2. cpu'[c].at \notin {"b_store", "auto_block"}
    BY <1>6, <2>1, BucketSteps
  <2>3. \A s \in Sources, e \in Elements : Uses(s, e)' => Uses(s, e)
    BY <2>1, UsesStep
  <2>4. ASSUME NEW s \in Sources \ mixed, NEW e \in Elements, Relies(s, e)'
        PROVE  bucket'[e].tokens + charged'[s] >= KERN_PPS_LIMIT
    <3>1. Uses(s, e)
      BY <2>3, <2>4 DEF Relies, Uses, Holds
    <3>2. CASE Holds(c, e)
      <4>1. s = own
        BY <1>0, <2>4, <3>1, <3>2 DEF Separate, Uses
      <4>2. bucket'[e].tokens = KERN_PPS_LIMIT - 1
        BY <2>1, <3>2 DEF FreshBucket
      <4>3. charged'[s] >= 1 /\ charged'[s] \in Nat
        BY <1>0, <2>1, <4>1
      <4> QED
        BY <4>2, <4>3
    <3>3. CASE ~ Holds(c, e)
      <4>1. ~ (e \in cpu'[c].tb)
        <5>1. ~ RuntFrame(c) /\ ~ RateLookup(c)
          BY <1>6 DEF InsertFills, RuntFrame, RateLookup, At
        <5> QED
          BY <1>6, <2>1, <3>3, <5>1, PointerStep DEF Holds
      <4>2. Relies(s, e)
        BY <1>0, <2>1, <2>4, <4>1 DEF Relies, Holds
      <4>3. bucket[e].tokens + charged[s] >= KERN_PPS_LIMIT
        BY <2>4, <4>2 DEF Covered, Covers
      <4>4. bucket'[e] = bucket[e] /\ bucket[e].tokens \in Int
        BY <1>0, <2>1, <3>3 DEF Bucket
      <4>5. charged'[s] >= charged[s] /\ charged[s] \in Nat /\ charged'[s] \in Nat
        BY <1>0, <2>1, <2>4
      <4> QED
        BY <4>3, <4>4, <4>5
    <3> QED
      BY <3>2, <3>3
  <2>5. \A s \in Sources : /\ charged[s] \in Nat /\ charged'[s] \in Nat
                           /\ charged'[s] >= charged[s]
    BY <1>0, <2>1
  <2>6. \A d \in Cpus : cpu[d].tokens \in Int
    BY DEF TypeOK, Frame
  <2> QED
    BY <1>0, <2>1, <2>2, <2>4, <2>5, <2>6 DEF Covered, Covers, At
<1>7. CASE BucketLoad(c)
  <2>1. PICK e \in cpu[c].tb :
          Goes(c, [cpu[c] EXCEPT
                     !.at = "b_store",
                     !.tokens = Replenished(bucket[e].tokens, cpu[c].refill,
                                            KERN_PPS_LIMIT) - 1])
    BY <1>7 DEF BucketLoad
  <2> DEFINE held == Replenished(bucket[e].tokens, cpu[c].refill, KERN_PPS_LIMIT)
  <2>2. /\ cpu'[c].at = "b_store" /\ cpu'[c].src = own
        /\ cpu'[c].tokens = held - 1
    <3> DEFINE count == held - 1
    <3>1. Goes(c, [cpu[c] EXCEPT !.at = "b_store", !.tokens = count])
      BY <2>1
    <3> HIDE DEF count
    <3>2. /\ cpu'[c].at = "b_store" /\ cpu'[c].src = own
          /\ cpu'[c].tokens = count
      BY <3>1, GoesTo
    <3> QED
      BY <3>2 DEF count
  <2>3. ~ InsertTakes(c) /\ ~ InsertFills(c) /\ cpu[c].at = "b_load"
    BY <1>7 DEF BucketLoad, InsertTakes, InsertFills, At
  <2>4. UNCHANGED <<bucket, blocked, charged, mixed>>
    BY <1>7 DEF BucketLoad, maps, history
  <2>5. own \notin mixed => held \in Int /\ held + charged[own] >= KERN_PPS_LIMIT
    <3>1. e \in Elements /\ Relies(own, e)
      BY <1>0, <2>1, <2>3 DEF Relies, Holds
    <3>2. own \notin mixed
            => bucket[e].tokens + charged[own] >= KERN_PPS_LIMIT
      BY <1>0, <3>1 DEF Covered, Covers
    <3>3. bucket[e].tokens \in Int /\ charged[own] \in Nat
      BY <1>0, <3>1 DEF Bucket
    <3> QED
      BY <1>0, <3>2, <3>3 DEF Replenished, AtMost
  <2>6. \A s \in Sources, g \in Elements : Relies(s, g)' => Relies(s, g)
    BY <2>3, UsesStep
  <2>7. charged[own] \in Nat
    BY <1>0
  <2> HIDE DEF held
  <2>8. ASSUME NEW s \in Sources \ mixed, NEW d \in Cpus, cpu'[d].src = s,
               cpu'[d].at = "b_store"
        PROVE  cpu'[d].tokens + charged'[s] + 1 >= KERN_PPS_LIMIT
    <3>1. CASE d = c
      <4>1. s = own
        BY <2>2, <2>8, <3>1
      <4> QED
        BY <2>2, <2>4, <2>5, <2>7, <2>8, <3>1, <4>1
    <3>2. CASE d # c
      BY <1>0, <2>4, <2>8, <3>2 DEF Covered, Covers, At
    <3> QED
      BY <3>1, <3>2
  <2>9. ASSUME NEW s \in Sources \ mixed, NEW d \in Cpus, cpu'[d].src = s,
               cpu'[d].at = "auto_block"
        PROVE  charged'[s] > KERN_PPS_LIMIT
    BY <1>0, <2>2, <2>4, <2>9 DEF Covered, Covers, At
  <2> QED
    BY <2>4, <2>6, <2>8, <2>9 DEF Covered, Covers, At
<1>8. CASE BucketStore(c)
  <2>1. /\ ~ InsertTakes(c) /\ ~ InsertFills(c) /\ cpu[c].at = "b_store"
        /\ UNCHANGED <<blocked, mixed>>
        /\ charged' = [charged EXCEPT ![own] = @ + 1]
    BY <1>8 DEF BucketStore, InsertTakes, InsertFills, At, Charge
  <2>2. PICK e \in cpu[c].tb : bucket' = [bucket EXCEPT ![e].tokens = cpu[c].tokens]
    BY <1>8 DEF BucketStore
  <2>3. \A s \in Sources, g \in Elements : Relies(s, g)' => Relies(s, g)
    BY <2>1, UsesStep
  <2>4. own \notin mixed
          => cpu[c].tokens + charged[own] + 1 >= KERN_PPS_LIMIT
    BY <1>0, <2>1 DEF Covered, Covers, At
  <2>5. \A s \in Sources : /\ charged[s] \in Nat /\ charged'[s] \in Nat
                           /\ charged'[s] >= charged[s]
    BY <1>0, <2>1
  <2>6. charged'[own] = charged[own] + 1
    BY <1>0, <2>1
  <2>7. ASSUME NEW s \in Sources \ mixed, NEW g \in Elements, Relies(s, g)'
        PROVE  bucket'[g].tokens + charged'[s] >= KERN_PPS_LIMIT
    <3>1. CASE g = e
      <4>1. Uses(s, e) /\ Uses(own, e)
        BY <2>2, <2>3, <2>7, <3>1 DEF Relies, Uses, Holds
      <4>2. s = own
        BY <1>0, <2>7, <3>1, <4>1 DEF Separate
      <4>3. bucket'[g].tokens = cpu[c].tokens
        BY <1>0, <2>2, <2>7, <3>1 DEF Bucket
      <4>4. /\ cpu[c].tokens + charged[own] + 1 >= KERN_PPS_LIMIT
            /\ charged'[s] = charged[own] + 1 /\ charged[own] \in Nat
        BY <1>0, <2>4, <2>6, <2>7, <4>2
      <4> QED
        BY <1>0, <4>3, <4>4
    <3>2. CASE g # e
      <4>1. bucket'[g] = bucket[g] /\ bucket[g].tokens \in Int
        BY <1>0, <2>2, <3>2 DEF Bucket
      <4>2. bucket[g].tokens + charged[s] >= KERN_PPS_LIMIT
        BY <2>3, <2>7 DEF Covered, Covers
      <4>3. charged[s] \in Nat /\ charged'[s] \in Nat /\ charged'[s] >= charged[s]
        BY <2>5, <2>7
      <4> QED
        BY <4>1, <4>2, <4>3
    <3> QED
      BY <3>1, <3>2
  <2>8. /\ cpu'[c].at # "b_store"
        /\ cpu'[c].at = "auto_block" => cpu'[c].src = own /\ cpu[c].tokens < 0
    BY <1>8, GoesTo DEF BucketStore
  <2>9. cpu[c].tokens < 0 /\ own \notin mixed => charged'[own] > KERN_PPS_LIMIT
    <3>1. charged[own] \in Nat
      BY <1>0
    <3> QED
      BY <1>0, <2>4, <2>6, <3>1
  <2>10. \A d \in Cpus : cpu[d].tokens \in Int
    BY DEF TypeOK, Frame
  <2>11. ASSUME NEW s \in Sources \ mixed, NEW d \in Cpus, cpu'[d].src = s,
                cpu'[d].at = "b_store"
         PROVE  cpu'[d].tokens + charged'[s] + 1 >= KERN_PPS_LIMIT
    <3>1. d # c /\ cpu'[d] = cpu[d]
      BY <1>0, <2>8, <2>11
    <3>2. cpu[d].tokens + charged[s] + 1 >= KERN_PPS_LIMIT
      BY <2>11, <3>1 DEF Covered, Covers, At
    <3> QED
      BY <2>5, <2>10, <2>11, <3>1, <3>2
  <2>12. ASSUME NEW s \in Sources \ mixed, NEW d \in Cpus, cpu'[d].src = s,
                cpu'[d].at = "auto_block"
         PROVE  charged'[s] > KERN_PPS_LIMIT
    <3>1. CASE d = c
      BY <2>8, <2>9, <2>12, <3>1
    <3>2. CASE d # c
      <4>1. charged[s] > KERN_PPS_LIMIT
        BY <1>0, <2>12, <3>2 DEF Covered, Covers, At
      <4> QED
        BY <2>5, <2>12, <4>1
    <3> QED
      BY <3>1, <3>2
  <2>13. \A s \in Sources \ mixed : blocked'[s] => charged'[s] > KERN_PPS_LIMIT
    BY <2>1, <2>5 DEF Covered, Covers
  <2> QED
    BY <2>1, <2>7, <2>11, <2>12, <2>13 DEF Covered, Covers, At
<1>9. CASE AutoBlock(c)
  <2>1. /\ ~ InsertTakes(c) /\ ~ InsertFills(c) /\ cpu[c].at = "auto_block"
        /\ UNCHANGED <<bucket, charged, mixed>>
        /\ blocked' = [blocked EXCEPT ![own] = TRUE]
    BY <1>9 DEF AutoBlock, InsertTakes, InsertFills, At
  <2>2. cpu'[c].at = "idle"
    BY <1>9, LastSteps
  <2>3. \A s \in Sources, g \in Elements : Relies(s, g)' => Relies(s, g)
    BY <2>1, UsesStep
  <2>4. own \notin mixed => charged[own] > KERN_PPS_LIMIT
    BY <1>0, <2>1 DEF Covered, Covers, At
  <2>5. ASSUME NEW s \in Sources \ mixed, blocked'[s]
        PROVE  charged[s] > KERN_PPS_LIMIT
    <3>1. blocked[s] \/ s = own
      BY <2>1, <2>5 DEF TypeOK
    <3> QED
      BY <2>4, <2>5, <3>1 DEF Covered, Covers
  <2> QED
    BY <1>0, <2>1, <2>2, <2>3, <2>5 DEF Covered, Covers, At
<1> QED
  BY <1>1, <1>2, <1>3, <1>4, <1>5, <1>6, <1>7, <1>8, <1>9 DEF Step

LEMMA CoveredNext ==
  ASSUME TypeOK, TypeOK', Separate, Covered, [Next]_vars
  PROVE  Separate' /\ Covered'
<1>1. ASSUME NEW s \in Sources, Unblock(s) PROVE Separate' /\ Covered'
  <2>1. /\ UNCHANGED <<bucket, entry, cpu, charged, mixed>>
        /\ \A t \in Sources : blocked'[t] => blocked[t]
    BY <1>1 DEF Unblock, history, TypeOK
  <2> QED
    BY <2>1 DEF Separate, Uses, Covered, Covers, Relies, Holds, At
<1>2. CASE Tick \/ UNCHANGED vars
  <2>1. UNCHANGED <<bucket, entry, cpu, charged, mixed, blocked>>
    BY <1>2 DEF Tick, vars, maps, history
  <2> QED
    BY <2>1 DEF Separate, Uses, Covered, Covers, Relies, Holds, At
<1> QED
  BY <1>1, <1>2, SeparateStep, CoveredStep DEF Next

\* fluxguard_filter() on any number of CPUs: a source is found exhausted, and
\* blocked, only after more than KERN_PPS_LIMIT of its packets were charged,
\* unless an element was recycled under a CPU that was using it for this source
\* or for the one that got it.
THEOREM NeverBlockedEarly == Spec => []NoBlockWithinLimit
<1>1. Init => Separate /\ Covered
  <2> SUFFICES ASSUME Init PROVE Separate /\ Covered
    OBVIOUS
  <2>1. \A s \in Sources, e \in Elements : ~ Uses(s, e) /\ ~ Relies(s, e)
    BY IdleType DEF Init, Uses, Relies, Holds
  <2>2. \A c \in Cpus : ~ At(c, "b_store") /\ ~ At(c, "auto_block")
    BY IdleType DEF Init, At
  <2>3. \A s \in Sources : ~ blocked[s]
    BY DEF Init
  <2> QED
    BY <2>1, <2>2, <2>3 DEF Separate, Covered, Covers
<1>2. Covered => NoBlockWithinLimit
  BY DEF Covered, Covers, NoBlockWithinLimit
<1> QED
  BY <1>1, <1>2, CoveredNext, TypeCorrect, PTL DEF Spec

-----------------------------------------------------------------------------
(* Blocks take hold.                                                       *)

LEMMA PastIsFinite ==
  ASSUME NEW s \in Sources
  PROVE  IsFiniteSet(Past(s)) /\ Cardinality(Past(s)) \in Nat
<1>1. Past(s) \subseteq Cpus
  BY DEF Past
<1> QED
  BY <1>1, CpuAssumption, FS_Subset, FS_CardinalityType

\* A CPU that stays on its side of the blacklist check.
LEMMA StaysPast ==
  ASSUME NEW c \in Cpus, NEW s \in Sources,
         \A d \in Cpus \ {c} : cpu'[d] = cpu[d],
         cpu'[c].at \in PastLabels <=> cpu[c].at \in PastLabels,
         cpu[c].at \in PastLabels => cpu'[c].src = cpu[c].src
  PROVE  Past(s)' = Past(s)
BY DEF Past

\* A CPU that is done with its frame.
LEMMA LeavesPast ==
  ASSUME TypeOK, NEW c \in Cpus, NEW own \in Sources, cpu[c].src = own,
         \A d \in Cpus \ {c} : cpu'[d] = cpu[d],
         cpu[c].at \in PastLabels, cpu'[c].at = "idle"
  PROVE  /\ \A s \in Sources \ {own} : Past(s)' = Past(s)
         /\ Cardinality(Past(own)') = Cardinality(Past(own)) - 1
<1>1. "idle" \notin PastLabels
  BY DEF PastLabels
<1>2. \A s \in Sources \ {own} : Past(s)' = Past(s)
  BY <1>1 DEF Past
<1>3. Past(own)' = Past(own) \ {c}
  BY <1>1 DEF Past
<1>4. c \in Past(own)
  BY DEF Past
<1> QED
  BY <1>2, <1>3, <1>4, PastIsFinite, FS_RemoveElement

LEMMA LeaksStep ==
  ASSUME TypeOK, TypeOK', LeaksInHand, NEW c \in Cpus, Step(c)
  PROVE  LeaksInHand'
<1>0. PICK own \in Sources : cpu[c].src = own
  BY DEF TypeOK, Frame
<1>1. \A d \in Cpus \ {c} : cpu'[d] = cpu[d]
  BY OthersStand
<1>2. ASSUME \A s \in Sources : Past(s)' = Past(s),
             UNCHANGED <<blocked, leaked, events>>
      PROVE  LeaksInHand'
  BY <1>2 DEF LeaksInHand
<1>3. ASSUME cpu[c].at \in PastLabels, cpu'[c].at = "idle",
             UNCHANGED <<blocked, events>>, Passes(c)
      PROVE  LeaksInHand'
  <2>1. /\ \A s \in Sources \ {own} : Past(s)' = Past(s)
        /\ Cardinality(Past(own)') = Cardinality(Past(own)) - 1
    BY <1>0, <1>1, <1>3, LeavesPast
  <2>2. ASSUME NEW s \in Sources, blocked[s]
        PROVE  leaked'[s] + events[s] + Cardinality(Past(s)')
                 <= Cardinality(Cpus)
    <3>1. leaked[s] + events[s] + Cardinality(Past(s)) <= Cardinality(Cpus)
      BY <2>2 DEF LeaksInHand
    <3>2. leaked[s] \in Nat /\ events[s] \in Nat /\ Cardinality(Past(s)) \in Nat
      BY PastIsFinite DEF TypeOK
    <3>3. Cardinality(Cpus) \in Nat
      BY CpuAssumption, FS_CardinalityType
    <3>4. CASE s = own
      <4>1. leaked'[s] = leaked[s] + 1
        BY <1>0, <1>3, <2>2, <3>4 DEF Passes, TypeOK
      <4> QED
        BY <2>1, <3>1, <3>2, <3>3, <3>4, <4>1
    <3>5. CASE s # own
      <4>1. leaked'[s] = leaked[s]
        BY <1>0, <1>3, <3>5 DEF Passes, TypeOK
      <4> QED
        BY <2>1, <3>1, <3>5, <4>1
    <3> QED
      BY <3>4, <3>5
  <2> QED
    BY <1>3, <2>2 DEF LeaksInHand
<1>4. CASE RuntFrame(c)
  BY <1>2, <1>4 DEF RuntFrame, vars, history, Past
<1>5. CASE \/ Receive(c) \/ GlobalTime(c) \/ GlobalStamp(c) \/ GlobalLoad(c)
           \/ GlobalStore(c)
  <2>1. cpu[c].at \notin PastLabels /\ cpu'[c].at \notin PastLabels
    BY <1>5, EarlyStep DEF EarlyLabels, PastLabels
  <2>2. UNCHANGED <<blocked, leaked, events>>
    BY <1>5 DEF Receive, GlobalTime, GlobalStamp, GlobalLoad, GlobalStore,
                maps, history
  <2> QED
    BY <1>1, <1>2, <2>1, <2>2, StaysPast
<1>6. CASE BlacklistLookup(c)
  <2>1. UNCHANGED <<blocked, leaked, events>> /\ cpu[c].at \notin PastLabels
    BY <1>6, BlacklistStep DEF BlacklistLookup, maps, history, PastLabels
  <2>2. CASE blocked[own]
    <3>1. cpu'[c].at \notin PastLabels
      BY <1>0, <1>6, <2>2, BlacklistStep DEF PastLabels
    <3> QED
      BY <1>1, <1>2, <2>1, <3>1, StaysPast
  <2>3. CASE ~ blocked[own]
    <3>1. cpu'[c].src = own
      BY <1>0, <1>6, <2>3, BlacklistStep
    <3>2. \A s \in Sources \ {own} : Past(s)' = Past(s)
      BY <1>0, <1>1, <3>1 DEF Past
    <3> QED
      BY <2>1, <2>3, <3>2 DEF LeaksInHand
  <2> QED
    BY <2>2, <2>3
<1>7. CASE \/ RateLookup(c) \/ InsertTakes(c) \/ InsertFills(c)
           \/ BucketTime(c) \/ BucketStamp(c) \/ BucketLoad(c)
  <2>1. UNCHANGED <<blocked, leaked, events>>
    BY <1>7 DEF RateLookup, InsertTakes, InsertFills, BucketTime, BucketStamp,
                BucketLoad, maps, history
  <2> QED
    BY <1>1, <1>2, <1>7, <2>1, BucketSteps, StaysPast
<1>8. CASE InsertFails(c) \/ InsertLinks(c)
  <2>1. cpu[c].at \in PastLabels /\ cpu'[c].at = "idle"
    BY <1>8, LastSteps
  <2> QED
    BY <1>3, <1>8, <2>1 DEF InsertFails, InsertLinks, maps
<1>9. CASE BucketStore(c)
  <2>1. UNCHANGED <<blocked, events>>
    BY <1>9 DEF BucketStore
  <2>2. CASE cpu[c].tokens < 0
    <3>1. leaked' = leaked /\ cpu[c].at = "b_store"
      BY <1>9, <2>2 DEF BucketStore, At
    <3>2. cpu'[c].at = "auto_block" /\ cpu'[c].src = cpu[c].src
      BY <1>9, <2>2, GoesTo DEF BucketStore
    <3>3. cpu[c].at \in PastLabels /\ cpu'[c].at \in PastLabels
      BY <3>1, <3>2 DEF PastLabels
    <3> QED
      BY <1>1, <1>2, <2>1, <3>1, <3>2, <3>3, StaysPast
  <2>3. CASE ~ (cpu[c].tokens < 0)
    <3>1. Passes(c)
      BY <1>9, <2>3 DEF BucketStore
    <3> QED
      BY <1>3, <1>9, <2>1, <2>3, <3>1, LastSteps
  <2> QED
    BY <2>2, <2>3
<1>10. CASE AutoBlock(c)
  <2>1. /\ \A s \in Sources \ {own} : Past(s)' = Past(s)
        /\ Cardinality(Past(own)') = Cardinality(Past(own)) - 1
    BY <1>0, <1>1, <1>10, LastSteps, LeavesPast
  <2>2. /\ Cardinality(Cpus) \in Nat
        /\ Cardinality(Past(own)) <= Cardinality(Cpus)
        /\ Cardinality(Past(own)) \in Nat
    BY CpuAssumption, FS_CardinalityType, FS_Subset, PastIsFinite DEF Past
  <2>3. /\ blocked' = [blocked EXCEPT ![own] = TRUE]
        /\ leaked' = [leaked EXCEPT ![own] = IF blocked[own] THEN @ ELSE 0]
        /\ events' = [events EXCEPT ![own] = IF blocked[own] THEN @ + 1 ELSE 1]
    BY <1>0, <1>10 DEF AutoBlock
  <2>4. ASSUME NEW s \in Sources \ {own}, blocked'[s]
        PROVE  leaked'[s] + events'[s] + Cardinality(Past(s)')
                 <= Cardinality(Cpus)
    <3>1. blocked[s] /\ leaked'[s] = leaked[s] /\ events'[s] = events[s]
      BY <2>3, <2>4 DEF TypeOK
    <3> QED
      BY <2>1, <3>1 DEF LeaksInHand
  <2>5. leaked'[own] + events'[own] + Cardinality(Past(own)')
          <= Cardinality(Cpus)
    <3>1. leaked[own] \in Nat /\ events[own] \in Nat
      BY DEF TypeOK
    <3>2. CASE blocked[own]
      <4>1. leaked'[own] = leaked[own] /\ events'[own] = events[own] + 1
        BY <2>3, <3>2 DEF TypeOK
      <4>2. leaked[own] + events[own] + Cardinality(Past(own))
              <= Cardinality(Cpus)
        BY <3>2 DEF LeaksInHand
      <4> QED
        BY <2>1, <2>2, <3>1, <4>1, <4>2
    <3>3. CASE ~ blocked[own]
      <4>1. leaked'[own] = 0 /\ events'[own] = 1
        BY <2>3, <3>3 DEF TypeOK
      <4> QED
        BY <2>1, <2>2, <4>1
    <3> QED
      BY <3>2, <3>3
  <2> QED
    BY <2>4, <2>5 DEF LeaksInHand
<1> QED
  BY <1>4, <1>5, <1>6, <1>7, <1>8, <1>9, <1>10 DEF Step

LEMMA LeaksNext ==
  ASSUME TypeOK, TypeOK', LeaksInHand, [Next]_vars
  PROVE  LeaksInHand'
<1>1. ASSUME NEW s \in Sources, Unblock(s) PROVE LeaksInHand'
  <2>1. /\ UNCHANGED <<cpu, leaked, events>>
        /\ \A t \in Sources : blocked'[t] => blocked[t]
    BY <1>1 DEF Unblock, history, TypeOK
  <2> QED
    BY <2>1 DEF LeaksInHand, Past
<1>2. CASE Tick \/ UNCHANGED vars
  BY <1>2 DEF Tick, vars, maps, history, LeaksInHand, Past
<1> QED
  BY <1>1, <1>2, LeaksStep DEF Next

\* Between the blacklist check of one CPU and the auto-block of another: a block
\* leaks and repeats no more than the frames in hand, one for each CPU.
THEOREM BlocksTakeHold == Spec => []BlockTakesHold
<1>1. Init => LeaksInHand
  BY DEF Init, LeaksInHand
<1>2. TypeOK /\ LeaksInHand => BlockTakesHold
  <2> SUFFICES ASSUME TypeOK, LeaksInHand, NEW s \in Sources, blocked[s]
               PROVE  leaked[s] + events[s] <= Cardinality(Cpus)
    BY DEF BlockTakesHold
  <2>1. leaked[s] + events[s] + Cardinality(Past(s)) <= Cardinality(Cpus)
    BY DEF LeaksInHand
  <2>2. leaked[s] \in Nat /\ events[s] \in Nat /\ Cardinality(Past(s)) \in Nat
    BY PastIsFinite DEF TypeOK
  <2>3. Cardinality(Cpus) \in Nat
    BY CpuAssumption, FS_CardinalityType
  <2> QED
    BY <2>1, <2>2, <2>3
<1> QED
  BY <1>1, <1>2, LeaksNext, TypeCorrect, PTL DEF Spec

=============================================================================
