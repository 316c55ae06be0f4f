------------------------------ MODULE XdpFilter ------------------------------
(***************************************************************************)
(* fluxguard_filter(), the XDP program, with the maps it shares with the   *)
(* brain, the allowlist tools and the dashboard.  A packet is one step: an *)
(* XDP program runs to completion on its CPU, and this module is about one *)
(* receive queue.  The IPv4 and the IPv6 path are the same pipeline on two *)
(* sets of maps, so a source is a member of V4 or V6 and its family fixes  *)
(* the capacity of the maps it is entered in.                              *)
(*                                                                         *)
(* outcome, blockedAt, credit, seen, lapsed and slips tell, per source,    *)
(* what RateLimiter tells of its only one; charged and window are          *)
(* histories as well.                                                      *)
(***************************************************************************)
EXTENDS TokenBucket, FiniteSets, Sequences

CONSTANTS
  V4, V6,          \* source addresses, by family
  Nobody,          \* the source of a frame that carries no IP packet
  Protos,          \* IP protocol numbers
  MAX_ENTRIES,     \* capacity of blacklist_map, meter_map and rate_map
  MAX_ENTRIES_V6,  \* capacity of their IPv6 counterparts
  METER_WORD,      \* number of values of a meter entry, a __u32
  RING_EVENTS,     \* attack events that fit in event_ringbuf
  MaxPackets,      \* bound on the frames received
  MaxObservations, \* bound on the intervals observed
  MaxClock,        \* bound on the clock
  MaxStep          \* bound on one advance of the clock

Sources == V4 \cup V6

ASSUME FilterAssumption ==
  /\ IsFiniteSet(Sources)
  /\ V4 \cap V6 = {}
  /\ Nobody \notin Sources
  /\ MAX_ENTRIES \in Nat \ {0}
  /\ MAX_ENTRIES_V6 \in Nat \ {0}
  /\ METER_WORD \in Nat \ {0, 1}
  /\ RING_EVENTS \in Nat
  /\ MaxPackets \in Nat
  /\ MaxObservations \in Nat
  /\ MaxClock \in Nat
  /\ MaxClock < WORD
  /\ MaxStep \in Nat \ {0}

VARIABLES
  clock,         \* bpf_ktime_get_ns()
  packets,       \* global_counter_map, summed over the CPUs
  gtb,           \* global_rate_map
  allowlist,     \* allowlist_map and allowlist_map_v6
  proto_filter,  \* protocols with action 1 in proto_filter_map
  meter,         \* meter_map and meter_map_v6
  blacklist,     \* blacklist_map and blacklist_map_v6
  rate,          \* rate_map and rate_map_v6
  ring,          \* event_ringbuf
  last,          \* the last frame's source and what became of it
  outcome,       \* history: how steps 4 and 5 judged a source the last time
  blockedAt,     \* history: when the program last tried to block the source
  credit,        \* history: the source's exact bucket (see RateLimiter)
  seen,          \* history: when the source's bucket was last charged
  lapsed,        \* history: the debt of the source has lost its shield
  slips,         \* history: packets charged to it nevertheless
  charged,       \* history: packets charged to the source's buckets so far
  window         \* history: frames the aggregate bucket let through since the
                 \* begin of an interval, and how many intervals there were

kernel  == <<gtb, allowlist, proto_filter, meter, blacklist, rate, ring>>
limiter == <<outcome, blockedAt, credit, seen, lapsed, slips, charged>>
vars    == <<clock, packets, kernel, last, limiter, window>>

NoMeter == -1

Verdicts == {"pass", "shields_up", "allowlisted", "proto_drop",
             "blacklisted", "auto_blocked"}

TypeOK ==
  /\ clock \in Nat
  /\ packets \in Nat
  /\ gtb \in Bucket
  /\ allowlist \subseteq Sources
  /\ proto_filter \subseteq Protos
  /\ meter \in [Sources -> {NoMeter} \cup 0 .. METER_WORD - 1]
  /\ blacklist \subseteq Sources
  /\ rate \in [Sources -> Bucket]
  /\ ring \in Seq(Sources)
  /\ last \in [src : Sources \cup {Nobody}, verdict : Verdicts]
  /\ outcome \in [Sources -> {"none", "pass", "blacklisted", "exhausted"}]
  /\ blockedAt \in [Sources -> Nat]
  /\ credit \in [Sources -> Int]
  /\ seen \in [Sources -> Nat]
  /\ lapsed \in [Sources -> BOOLEAN]
  /\ slips \in [Sources -> Nat]
  /\ charged \in [Sources -> Nat]
  /\ window \in [nr : Nat, start : Nat, passed : Nat]

FullCredit == KERN_PPS_LIMIT * NS_PER_SEC

\* libbpf creates every map empty; the slot of an array map is all zeros.
Init ==
  /\ clock = 0
  /\ packets = 0
  /\ gtb = [last_time |-> 0, tokens |-> 0]
  /\ allowlist = {}
  /\ proto_filter = {}
  /\ meter = [s \in Sources |-> NoMeter]
  /\ blacklist = {}
  /\ rate = [s \in Sources |-> NoBucket]
  /\ ring = <<>>
  /\ last = [src |-> Nobody, verdict |-> "pass"]
  /\ outcome = [s \in Sources |-> "none"]
  /\ blockedAt = [s \in Sources |-> 0]
  /\ credit = [s \in Sources |-> FullCredit]
  /\ seen = [s \in Sources |-> 0]
  /\ lapsed = [s \in Sources |-> FALSE]
  /\ slips = [s \in Sources |-> 0]
  /\ charged = [s \in Sources |-> 0]
  /\ window = [nr |-> 0, start |-> 0, passed |-> 0]

-----------------------------------------------------------------------------
(* The maps.                                                               *)

\* Mutant: the blacklist is consulted before the allowlist.
AllowlistedUnlessBlocked(s) == s \in allowlist \ blacklist

Allowlisted(s) == s \in allowlist

Family(s) == IF s \in V6 THEN V6 ELSE V4

MaxEntries(s) == IF s \in V6 THEN MAX_ENTRIES_V6 ELSE MAX_ENTRIES

\* What an LRU hash holds when room for s has been made in it: a full map
\* gives up some entry of its own.
WithRoom(map, absent, s) ==
  LET used == {x \in Family(s) : map[x] # absent}
  IN  IF map[s] # absent \/ Cardinality(used) < MaxEntries(s)
      THEN {map}
      ELSE {[map EXCEPT ![x] = absent] : x \in used}

\* Mutant: keys of a family collide.
InBlacklistColliding(s) == blacklist \cap Family(s) # {}

InBlacklist(s) == s \in blacklist

\* Mutant: the counter does not wrap around.
TallyUnbounded(n) == IF n = NoMeter THEN 1 ELSE n + 1

\* A packet counted in meter_map.
Tally(n) == IF n = NoMeter THEN 1 ELSE (n + 1) % METER_WORD

\* Mutant: one entry of the map stays free.
BlacklistedShort(s) ==
  IF Cardinality(blacklist \cap Family(s)) + 1 < MaxEntries(s)
  THEN blacklist \cup {s}
  ELSE blacklist

\* A plain hash refuses a new key when it is full, and nobody looks at the
\* return code of bpf_map_update_elem().
Blacklisted(s) ==
  IF Cardinality(blacklist \cap Family(s)) < MaxEntries(s)
  THEN blacklist \cup {s}
  ELSE blacklist

\* The ring buffer drops an event it has no room for.
Emitted(s) == IF Len(ring) < RING_EVENTS THEN Append(ring, s) ELSE ring

-----------------------------------------------------------------------------
(* A frame: the per-CPU counter and the aggregate bucket come first.       *)

Counted ==
  /\ packets < MaxPackets
  /\ packets' = packets + 1

Ends(src, verdict) == last' = [src |-> src, verdict |-> verdict]

\* Shields up: the aggregate bucket is empty and the frame is dropped
\* unread, whoever sent it.
ShieldsUp(src) ==
  /\ Counted
  /\ gtb' = GlobalCheck(gtb, clock)
  /\ Exhausted(gtb')
  /\ Ends(src, "shields_up")
  /\ UNCHANGED <<clock, allowlist, proto_filter, meter, blacklist, rate, ring,
                 limiter, window>>

Admitted ==
  /\ Counted
  /\ gtb' = GlobalCheck(gtb, clock)
  /\ ~ Exhausted(gtb')
  /\ window' = [window EXCEPT !.passed = IF window.nr > 0 THEN @ + 1 ELSE 0]
  /\ UNCHANGED <<clock, allowlist, proto_filter>>

\* ARP and everything else that is not IP, and IP headers cut short.
OtherFrame ==
  \/ ShieldsUp(Nobody)
  \/ /\ Admitted
     /\ Ends(Nobody, "pass")
     /\ UNCHANGED <<meter, blacklist, rate, ring, limiter>>

\* A frame without a whole Ethernet header is not even counted.
RuntFrame ==
  /\ Ends(Nobody, "pass")
  /\ UNCHANGED <<clock, packets, kernel, limiter, window>>

-----------------------------------------------------------------------------
(* An IP packet: the steps of the pipeline, in their order.                *)

AllowlistBypass(s) ==
  /\ Admitted
  /\ Allowlisted(s)
  /\ Ends(s, "allowlisted")
  /\ UNCHANGED <<meter, blacklist, rate, ring, limiter>>

ProtocolDrop(s, p) ==
  /\ Admitted
  /\ ~ Allowlisted(s)
  /\ p \in proto_filter
  /\ Ends(s, "proto_drop")
  /\ UNCHANGED <<meter, blacklist, rate, ring, limiter>>

\* Steps 1 and 2 are behind and the packet is metered.
Metered(s, p) ==
  /\ Admitted
  /\ ~ Allowlisted(s)
  /\ p \notin proto_filter
  /\ \E map \in WithRoom(meter, NoMeter, s) :
       meter' = [map EXCEPT ![s] = Tally(@)]

BlacklistDrop(s, p) ==
  /\ Metered(s, p)
  /\ InBlacklist(s)
  /\ Ends(s, "blacklisted")
  /\ outcome' = [outcome EXCEPT ![s] = "blacklisted"]
  /\ UNCHANGED <<blacklist, rate, ring, blockedAt, credit, seen, lapsed, slips,
                 charged>>

\* History: the bucket of the source is out of debt.
Solvent(s) ==
  /\ lapsed' = [lapsed EXCEPT ![s] = FALSE]
  /\ slips' = [slips EXCEPT ![s] = 0]

FirstPacket(s, p) ==
  /\ Metered(s, p)
  /\ ~ InBlacklist(s)
  /\ rate[s] = NoBucket
  /\ \E map \in WithRoom(rate, NoBucket, s) :
       rate' = [map EXCEPT ![s] = FreshBucket(clock)]
  /\ Ends(s, "pass")
  /\ outcome' = [outcome EXCEPT ![s] = "pass"]
  /\ credit' = [credit EXCEPT ![s] = FullCredit - NS_PER_SEC]
  /\ seen' = [seen EXCEPT ![s] = clock]
  /\ charged' = [charged EXCEPT ![s] = @ + 1]
  /\ Solvent(s)
  /\ UNCHANGED <<blacklist, ring, blockedAt>>

Charged(s, p) ==
  /\ Metered(s, p)
  /\ ~ InBlacklist(s)
  /\ rate[s] # NoBucket
  /\ rate' = [rate EXCEPT ![s] = TokenBucketCheck(@, clock)]
  /\ credit' = [credit EXCEPT ![s] =
       AtMost(@ + (clock - seen[s]) * KERN_PPS_LIMIT, FullCredit) - NS_PER_SEC]
  /\ seen' = [seen EXCEPT ![s] = clock]
  /\ charged' = [charged EXCEPT ![s] = @ + 1]

Conforming(s, p) ==
  /\ Charged(s, p)
  /\ ~ Exhausted(rate'[s])
  /\ Ends(s, "pass")
  /\ outcome' = [outcome EXCEPT ![s] = "pass"]
  /\ Solvent(s)
  /\ UNCHANGED <<blacklist, ring, blockedAt>>

AutoBlock(s, p) ==
  /\ Charged(s, p)
  /\ Exhausted(rate'[s])
  /\ blacklist' = Blacklisted(s)
  /\ ring' = Emitted(s)
  /\ Ends(s, "auto_blocked")
  /\ outcome' = [outcome EXCEPT ![s] = "exhausted"]
  /\ blockedAt' = [blockedAt EXCEPT ![s] = clock]
  /\ lapsed' = [lapsed EXCEPT ![s] = s \notin blacklist']
  /\ slips' = [slips EXCEPT ![s] = IF lapsed[s] THEN @ + 1 ELSE @]

Pipeline(s, p) ==
  \/ ShieldsUp(s)
  \/ AllowlistBypass(s)
  \/ ProtocolDrop(s, p)
  \/ BlacklistDrop(s, p)
  \/ FirstPacket(s, p)
  \/ Conforming(s, p)
  \/ AutoBlock(s, p)

Packet == \E s \in Sources, p \in Protos : Pipeline(s, p)

-----------------------------------------------------------------------------
(* The rest of the system, as the maps see it.                             *)

Tick ==
  \E d \in 1 .. MaxStep :
    /\ clock + d <= MaxClock
    /\ clock' = clock + d
    /\ UNCHANGED <<packets, kernel, last, limiter, window>>

AllowlistAdd(s) ==
  /\ s \notin allowlist
  /\ allowlist' = allowlist \cup {s}
  /\ UNCHANGED <<clock, packets, gtb, proto_filter, meter, blacklist, rate,
                 ring, last, limiter, window>>

AllowlistRemove(s) ==
  /\ s \in allowlist
  /\ allowlist' = allowlist \ {s}
  /\ UNCHANGED <<clock, packets, gtb, proto_filter, meter, blacklist, rate,
                 ring, last, limiter, window>>

\* The brain writes the filter once, when it starts with --drop-proto.
SetProtoFilter(p) ==
  /\ p \notin proto_filter
  /\ proto_filter' = proto_filter \cup {p}
  /\ UNCHANGED <<clock, packets, gtb, allowlist, meter, blacklist, rate,
                 ring, last, limiter, window>>

\* The brain deletes a block that expired ...
Unblock(s) ==
  /\ s \in blacklist
  /\ blacklist' = blacklist \ {s}
  /\ lapsed' = [lapsed EXCEPT ![s] =
       @ \/ (Exhausted(rate[s]) /\ clock < blockedAt[s] + NS_PER_SEC)]
  /\ UNCHANGED <<clock, packets, gtb, allowlist, proto_filter, meter, rate,
                 ring, last, outcome, blockedAt, credit, seen, slips, charged,
                 window>>

\* ... and writes the blocks of its checkpoint back when it restarts.
Restore(s) ==
  /\ s \notin blacklist
  /\ blacklist' = Blacklisted(s)
  /\ UNCHANGED <<clock, packets, gtb, allowlist, proto_filter, meter, rate,
                 ring, last, limiter, window>>

\* The dashboard moves the consumer position on, which gives the room of the
\* oldest event back to the program.
Consume ==
  /\ ring # <<>>
  /\ ring' = Tail(ring)
  /\ UNCHANGED <<clock, packets, gtb, allowlist, proto_filter, meter,
                 blacklist, rate, last, limiter, window>>

\* History: an observation of the aggregate rate begins now.
Observe ==
  /\ window.nr < MaxObservations
  /\ window' = [nr |-> window.nr + 1, start |-> clock, passed |-> 0]
  /\ UNCHANGED <<clock, packets, kernel, last, limiter>>

Frame == RuntFrame \/ OtherFrame \/ Packet

Userspace ==
  \/ \E s \in Sources : \/ AllowlistAdd(s) \/ AllowlistRemove(s)
                        \/ Unblock(s) \/ Restore(s)
  \/ \E p \in Protos : SetProtoFilter(p)
  \/ Consume

Next == Tick \/ Frame \/ Userspace \/ Observe

Spec == Init /\ [][Next]_vars

-----------------------------------------------------------------------------

\* Whatever the rest of the traffic, userspace and the LRU evictions do to a
\* source, the filter judges it as RateLimiter does: with one bucket of its own.
Limiter(s) == INSTANCE RateLimiter WITH
  tb          <- rate[s],
  blocked     <- s \in blacklist,
  blockedAt   <- blockedAt[s],
  verdict     <- outcome[s],
  credit      <- credit[s],
  seen        <- seen[s],
  lapsed      <- lapsed[s],
  slips       <- slips[s],
  MaxSlips    <- MaxPackets

ActsAsRateLimiter ==
  /\ \A s \in Sources : Limiter(s)!Init
  /\ [][ \A s \in Sources : Limiter(s)!Next \/ UNCHANGED Limiter(s)!vars ]_vars

\* A source is found exhausted only after more than KERN_PPS_LIMIT packets of
\* its own: no other source's packets, evictions or blocks count against it.
NoBlockWithinLimit ==
  \A s \in Sources : outcome[s] = "exhausted" => charged[s] > KERN_PPS_LIMIT

\* In every interval, however it lies between the refills of the aggregate
\* bucket, no more frames get past that bucket than its capacity, what the
\* interval earns and what a refill period that began earlier earns.
AggregateCap ==
  window.passed * NS_PER_SEC
    <= GLOBAL_PPS_LIMIT * NS_PER_SEC
         + (clock - window.start + GLOBAL_REFILL_NS) * GLOBAL_PPS_LIMIT

\* The floor under the aggregate bucket: however long a flood lasts, the first
\* frame after the time that repays the floor is not dropped by the shields.
\* Only a product of time and rate that wraps around the word, after ten hours
\* without a frame at 500000 packets a second, may repay less.
RepayTime == (GLOBAL_DEBT + 1) * NS_PER_SEC

ShieldsComeDown ==
  [][ (/\ (clock - gtb.last_time) * GLOBAL_PPS_LIMIT >= RepayTime
       /\ (clock - gtb.last_time) * GLOBAL_PPS_LIMIT < WORD
       /\ clock - gtb.last_time > GLOBAL_REFILL_NS
       /\ packets' # packets)
      => last'.verdict # "shields_up" ]_vars

\* A packet of a blocked source gets through only while it is allowlisted, and
\* only a packet of an allowlisted source escapes the block, the filter and
\* the bucket: it can neither be charged nor blocked.
BlockHolds ==
  [][ \A s \in Sources :
        /\ (packets' # packets /\ last' = [src |-> s, verdict |-> "pass"])
              => s \notin blacklist
        /\ (packets' # packets /\ last'.src = s /\ s \in allowlist)
              => /\ blacklist' = blacklist
                 /\ charged' = charged
                 /\ meter' = meter ]_vars

\* The events tell of the blocks: what enters the ring names a source that is
\* in the blacklist, unless the map of its family was full, and a source the
\* filter enters in the blacklist is named, unless the ring was full.
Full(map, s) == Cardinality(map \cap Family(s)) >= MaxEntries(s)

EventsTellBlocks ==
  [][ /\ Len(ring') > Len(ring)
            => LET s == ring'[Len(ring')]
               IN  s \in blacklist' \/ Full(blacklist, s)
      /\ \A s \in blacklist' \ blacklist :
           (packets' # packets /\ Len(ring) < RING_EVENTS)
             => ring' = Append(ring, s) ]_vars

=============================================================================
