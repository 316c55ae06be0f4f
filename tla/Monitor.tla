------------------------------- MODULE Monitor -------------------------------
(***************************************************************************)
(* What an operator is shown: the numbers the brain's loop collects from   *)
(* the maps, the MetricsState it publishes them in, the scrapes of its     *)
(* HTTP thread and what the dashboard makes of two of them.                *)
(*                                                                         *)
(* The loop publishes in several steps, each under the lock of             *)
(* MetricsState, and a scrape may come between any two of them.  When a    *)
(* timer is due, what the checkpoint holds and what the loop's copy of the *)
(* allowlist holds are matters of Brain: here any timer may be found       *)
(* expired by any loop, a brain may start with any timers, and any copy    *)
(* may be in use.  How a dump walks through a map is the matter of         *)
(* MapDump: here it takes its entries at once, those it meets.             *)
(***************************************************************************)
EXTENDS Integers, FiniteSets

CONSTANTS
  V4, V6,       \* source addresses, by family
  V6Opens,      \* how many IPv6 maps a starting brain may open
  Exempt,       \* sources that may be in the allowlist
  TOP,          \* rows of the dashboard (12 in the program)
  GLOBAL_LIMIT, \* tokens of a full aggregate bucket
  GLOBAL_DEBT,  \* the aggregate bucket never sinks below -GLOBAL_DEBT
  MaxFrames,    \* bound on the frames received
  MaxBlocks,    \* bound on the kernel's blocks
  MaxFaults,    \* bound on failing system calls and HTTP requests
  MaxCrashes    \* bound on the deaths of the brain and on reboots

Ips == V4 \cup V6

ASSUME MonitorAssumption ==
  /\ IsFiniteSet(Ips)
  /\ V4 \cap V6 = {}
  /\ V6Opens \subseteq 0 .. 3
  /\ Exempt \subseteq Ips
  /\ TOP \in Nat
  /\ GLOBAL_LIMIT \in Nat \ {0}
  /\ GLOBAL_DEBT \in Nat \ {0}
  /\ MaxFrames \in Nat
  /\ MaxBlocks \in Nat
  /\ MaxFaults \in Nat
  /\ MaxCrashes \in Nat

VARIABLES
  meter,      \* meter_map and meter_map_v6
  blacklist,  \* blacklist_map and blacklist_map_v6
  tokens,     \* the aggregate bucket of global_rate_map
  sent,       \* history: packets of a source counted in the meter
  lows,       \* history: frames since boot that left the aggregate bucket empty
  pc,         \* where the brain's loop is
  v6_fds,     \* how many IPv6 maps the brain has opened
  timed,      \* keys of blocked_until
  todo,       \* what is left of the for loop
  read,       \* what the loop has read from the maps
  prev_global_tokens,
  before,     \* history: lows and missed of the loop before
  metrics,    \* MetricsState
  seen,       \* what the dashboard shows: the last scrape, the sources that have
              \* a row, those of them shown as blocked, and the increase of each
              \* counter, which it divides by the time since the last refresh
  count       \* histories: frames, blocks, faults, crashes; of this brain, the
              \* timers restored, the entries deleted, the deletes that failed

kernel == <<meter, blacklist, tokens, sent, lows>>
brain == <<pc, v6_fds, timed, todo, read, prev_global_tokens, before>>
vars == <<kernel, brain, metrics, seen, count>>

NoEntry == -1
Zero == [ip \in Ips |-> 0]
NoCounts == [ip \in Ips |-> NoEntry]
Counts == [Ips -> Nat \cup {NoEntry}]

\* sent, lows and missed are histories: what was sent, and how many frames had
\* emptied the bucket, when it was read, and whether the bucket was not read.
NothingRead == [blacklist |-> {}, counts |-> NoCounts, tokens |-> 0,
                sent |-> sent, lows |-> 0, missed |-> TRUE]

\* _packets_by_ip, _blocked_ips_set, _blocked_ips and the three counters; sent
\* is a history: the packets sent when the counters were read.
NewMetrics ==
  [packets |-> NoCounts, blocked_set |-> {}, blocked |-> 0,
   block_events |-> 0, unblock_events |-> 0, exceeded |-> 0, sent |-> sent]

Stages == {"blacklist", "meter", "blacklist_v6", "meter_v6", "tokens"}

TypeOK ==
  /\ meter \in Counts
  /\ blacklist \subseteq Ips
  /\ tokens \in -GLOBAL_DEBT .. GLOBAL_LIMIT
  /\ sent \in [Ips -> Nat]
  /\ lows \in Nat
  /\ pc \in Stages \cup {"off", "shields", "detect", "expire", "publish_set",
                         "publish_snapshot"}
  /\ v6_fds \in 0 .. 3
  /\ timed \subseteq Ips
  /\ todo \subseteq Ips
  /\ read \in [blacklist : SUBSET Ips, counts : Counts, tokens : Int,
               sent : [Ips -> Nat], lows : Nat, missed : BOOLEAN]
  /\ prev_global_tokens \in Int
  /\ before \in [lows : Nat, missed : BOOLEAN]
  /\ metrics \in [packets : Counts, blocked_set : SUBSET Ips, blocked : Nat,
                  block_events : Nat, unblock_events : Nat, exceeded : Nat,
                  sent : [Ips -> Nat]]
  /\ seen \in [packets : Counts, rows : SUBSET Ips, blocked : SUBSET Ips,
               increase : [Ips -> Int], sent : [Ips -> Nat]]
  /\ count \in [frames : Nat, blocks : Nat, faults : Nat, crashes : Nat,
                restored : Nat, deleted : Nat, lost : Nat]

NothingSeen == [packets |-> NoCounts, rows |-> {}, blocked |-> {},
                increase |-> Zero, sent |-> sent]

NothingBefore == [lows |-> 0, missed |-> FALSE]

Init ==
  /\ meter = NoCounts
  /\ blacklist = {}
  /\ tokens = 0
  /\ sent = Zero
  /\ lows = 0
  /\ pc = "off"
  /\ v6_fds = 0
  /\ timed = {}
  /\ todo = {}
  /\ read = NothingRead
  /\ prev_global_tokens = 0
  /\ before = NothingBefore
  /\ metrics = NewMetrics
  /\ seen = NothingSeen
  /\ count = [frames |-> 0, blocks |-> 0, faults |-> 0, crashes |-> 0,
              restored |-> 0, deleted |-> 0, lost |-> 0]

-----------------------------------------------------------------------------
(* The XDP program, as far as these numbers are concerned.                 *)

\* Mutant: the floor is missing.
SpentBottomless(held) == held - 1

Spent(held) == IF held - 1 < -GLOBAL_DEBT THEN -GLOBAL_DEBT ELSE held - 1

\* A frame may come late enough for a refill, in part or in full.  It is metered
\* unless the aggregate bucket is exhausted, and the meter may forget it later.
Frame(ip) ==
  /\ count.frames < MaxFrames
  /\ count' = [count EXCEPT !.frames = @ + 1]
  /\ \E held \in tokens .. GLOBAL_LIMIT : tokens' = Spent(held)
  /\ lows' = IF tokens' <= 0 THEN lows + 1 ELSE lows
  /\ IF tokens' < 0
     THEN UNCHANGED <<meter, sent>>
     ELSE /\ meter' = [meter EXCEPT ![ip] = IF @ = NoEntry THEN 1 ELSE @ + 1]
          /\ sent' = [sent EXCEPT ![ip] = @ + 1]
  /\ UNCHANGED <<blacklist, brain, metrics, seen>>

Evict(ip) ==
  /\ meter[ip] # NoEntry
  /\ meter' = [meter EXCEPT ![ip] = NoEntry]
  /\ UNCHANGED <<blacklist, tokens, sent, lows, brain, metrics, seen, count>>

AutoBlock(ip) ==
  /\ ip \notin blacklist
  /\ count.blocks < MaxBlocks
  /\ count' = [count EXCEPT !.blocks = @ + 1]
  /\ blacklist' = blacklist \cup {ip}
  /\ UNCHANGED <<meter, tokens, sent, lows, brain, metrics, seen>>

-----------------------------------------------------------------------------
(* The loop of the brain.                                                  *)

Succeeds == UNCHANGED count

Fails ==
  /\ count.faults < MaxFaults
  /\ count' = [count EXCEPT !.faults = @ + 1]

\* The IPv6 maps are opened in this order until an open fails: meter_map_v6,
\* blacklist_map_v6, allowlist_map_v6.
HasMap(ip, fds) == ip \in V4 \/ fds >= 2

\* The blocks of the checkpoint go back to the kernel, those it takes.
Start ==
  /\ pc = "off"
  /\ pc' = "blacklist"
  /\ v6_fds' \in V6Opens
  /\ timed' \in SUBSET Ips
  /\ \E back \in SUBSET {ip \in timed' : HasMap(ip, v6_fds')} :
       blacklist' = blacklist \cup back
  /\ count' = [count EXCEPT !.restored = Cardinality(timed')]
  /\ metrics' = NewMetrics
  /\ read' = NothingRead
  /\ UNCHANGED <<meter, tokens, sent, lows, todo, prev_global_tokens, before,
                 seen>>

After(stage) ==
  CASE stage = "blacklist"    -> "meter"
    [] stage = "meter"        -> "blacklist_v6"
    [] stage = "blacklist_v6" -> "meter_v6"
    [] stage = "meter_v6"     -> "tokens"

\* The sources whose entries a stage reads.
Readable(stage) ==
  CASE stage \in {"blacklist", "meter"} -> V4
    [] stage = "blacklist_v6" -> IF v6_fds >= 2 THEN V6 ELSE {}
    [] stage = "meter_v6"     -> IF v6_fds >= 1 THEN V6 ELSE {}

\* What a dump of these keys adds to what the loop has read.
Dumped(stage, keys) ==
  IF stage \in {"blacklist", "blacklist_v6"}
  THEN [read EXCEPT !.blacklist = @ \cup (keys \cap blacklist)]
  ELSE [read EXCEPT !.counts =
                      [ip \in Ips |-> IF ip \in keys THEN meter[ip] ELSE @[ip]],
                    !.sent =
                      [ip \in Ips |-> IF ip \in keys THEN sent[ip] ELSE @[ip]]]

\* One dump after the other.  An error of its first call skips all that come
\* after it; one of a later call leaves out a key, or all that are left.
Dump(stage) ==
  /\ pc = stage
  /\ \/ /\ Succeeds
        /\ read' = Dumped(stage, Readable(stage))
        /\ pc' = After(stage)
     \/ /\ Fails
        /\ \E keys \in SUBSET Readable(stage) : read' = Dumped(stage, keys)
        /\ pc' = After(stage)
     \/ /\ Fails
        /\ UNCHANGED read
        /\ pc' = "shields"
  /\ UNCHANGED <<kernel, v6_fds, timed, todo, prev_global_tokens, before,
                 metrics, seen>>

\* A bucket that cannot be read counts as empty.
ReadTokens ==
  /\ pc = "tokens"
  /\ pc' = "shields"
  /\ \/ /\ Succeeds
        /\ read' = [read EXCEPT !.tokens = tokens, !.lows = lows,
                                !.missed = FALSE]
     \/ /\ Fails
        /\ UNCHANGED read
  /\ UNCHANGED <<kernel, v6_fds, timed, todo, prev_global_tokens, before,
                 metrics, seen>>

\* Mutants: a bucket that did not move alarms again, and one that was not seen
\* full never does.
ExhaustedStill == read.tokens <= 0 /\ read.tokens <= prev_global_tokens
ExhaustedAtOnce == read.tokens <= 0 /\ prev_global_tokens > 0

ExhaustedFurther == read.tokens <= 0 /\ read.tokens < prev_global_tokens

ShieldsCheck ==
  /\ pc = "shields"
  /\ pc' = "detect"
  /\ metrics' = IF ExhaustedFurther
                THEN [metrics EXCEPT !.exceeded = @ + 1] ELSE metrics
  /\ \E allowlist_cache \in SUBSET Exempt :
       todo' = (read.blacklist \ timed) \ allowlist_cache
  /\ UNCHANGED <<kernel, v6_fds, timed, read, prev_global_tokens, before, seen,
                 count>>

Detect(ip) ==
  /\ pc = "detect"
  /\ ip \in todo
  /\ todo' = todo \ {ip}
  /\ timed' = timed \cup {ip}
  /\ metrics' = [metrics EXCEPT !.block_events = @ + 1]
  /\ UNCHANGED <<kernel, pc, v6_fds, read, prev_global_tokens, before, seen,
                 count>>

Detected ==
  /\ pc = "detect"
  /\ todo = {}
  /\ pc' = "expire"
  /\ todo' \in SUBSET timed
  /\ UNCHANGED <<kernel, v6_fds, timed, read, prev_global_tokens, before,
                 metrics, seen, count>>

Unblocked == metrics' = [metrics EXCEPT !.unblock_events = @ + 1]

\* Mutant: an unblock is counted whether the delete succeeds or not.
ExpireCounted(ip) ==
  /\ pc = "expire"
  /\ ip \in todo
  /\ todo' = todo \ {ip}
  /\ timed' = timed \ {ip}
  /\ blacklist' = IF HasMap(ip, v6_fds) THEN blacklist \ {ip} ELSE blacklist
  /\ count' = [count EXCEPT !.deleted = IF blacklist' = blacklist THEN @ ELSE @ + 1]
  /\ Unblocked
  /\ UNCHANGED <<meter, tokens, sent, lows, pc, v6_fds, read,
                 prev_global_tokens, before, seen>>

\* The timer goes in any case.  A delete that fails, for lack of an entry too,
\* is not counted as an unblock; that of an IPv6 timer is counted, but not
\* made, when the map was not opened.
Expire(ip) ==
  /\ pc = "expire"
  /\ ip \in todo
  /\ todo' = todo \ {ip}
  /\ timed' = timed \ {ip}
  /\ \/ /\ HasMap(ip, v6_fds) /\ ip \in blacklist
        /\ count' = [count EXCEPT !.deleted = @ + 1]
        /\ blacklist' = blacklist \ {ip}
        /\ Unblocked
     \/ /\ ~ HasMap(ip, v6_fds)
        /\ Succeeds
        /\ Unblocked
        /\ UNCHANGED blacklist
     \/ /\ HasMap(ip, v6_fds) /\ ip \notin blacklist
        /\ count' = [count EXCEPT !.lost = @ + 1]
        /\ UNCHANGED <<blacklist, metrics>>
     \/ /\ HasMap(ip, v6_fds) /\ ip \in blacklist
        /\ count.faults < MaxFaults
        /\ count' = [count EXCEPT !.faults = @ + 1, !.lost = @ + 1]
        /\ UNCHANGED <<blacklist, metrics>>
  /\ UNCHANGED <<meter, tokens, sent, lows, pc, v6_fds, read,
                 prev_global_tokens, before, seen>>

Expired ==
  /\ pc = "expire"
  /\ todo = {}
  /\ pc' = "publish_set"
  /\ UNCHANGED <<kernel, v6_fds, timed, todo, read, prev_global_tokens, before,
                 metrics, seen, count>>

\* Mutant: the set that is published is what the kernel's map held.
UpdateBlockedSetRaw ==
  /\ pc = "publish_set"
  /\ pc' = "publish_snapshot"
  /\ metrics' = [metrics EXCEPT !.blocked_set = read.blacklist]
  /\ UNCHANGED <<kernel, v6_fds, timed, todo, read, prev_global_tokens, before,
                 seen, count>>

update_blocked_set ==
  /\ pc = "publish_set"
  /\ pc' = "publish_snapshot"
  /\ metrics' = [metrics EXCEPT !.blocked_set = timed]
  /\ UNCHANGED <<kernel, v6_fds, timed, todo, read, prev_global_tokens, before,
                 seen, count>>

update_snapshot ==
  /\ pc = "publish_snapshot"
  /\ pc' = "blacklist"
  /\ metrics' = [metrics EXCEPT !.packets = read.counts,
                                !.sent = read.sent,
                                !.blocked = Cardinality(timed)]
  /\ prev_global_tokens' = read.tokens
  /\ before' = [lows |-> read.lows, missed |-> read.missed]
  /\ read' = NothingRead
  /\ UNCHANGED <<kernel, v6_fds, timed, todo, seen, count>>

\* The memory of the process is lost.
BrainDies ==
  /\ pc' = "off"
  /\ v6_fds' = 0
  /\ timed' = {}
  /\ todo' = {}
  /\ read' = NothingRead
  /\ prev_global_tokens' = 0
  /\ before' = NothingBefore
  /\ metrics' = NewMetrics
  /\ count' = [count EXCEPT !.crashes = @ + 1, !.restored = 0, !.deleted = 0,
                            !.lost = 0]

Crash ==
  /\ pc # "off"
  /\ count.crashes < MaxCrashes
  /\ BrainDies
  /\ UNCHANGED <<kernel, seen>>

\* All maps and all processes are lost; the checkpoint is not.
Reboot ==
  /\ count.crashes < MaxCrashes
  /\ BrainDies
  /\ meter' = NoCounts
  /\ blacklist' = {}
  /\ tokens' = 0
  /\ lows' = 0
  /\ seen' = NothingSeen
  /\ UNCHANGED sent

-----------------------------------------------------------------------------
(* The dashboard.                                                          *)

\* Mutant: a source that was not in the last scrape counts from zero.
IncreaseFromZero(packets, ip) ==
  IF packets[ip] = NoEntry THEN 0
  ELSE packets[ip] - (IF seen.packets[ip] = NoEntry THEN 0 ELSE seen.packets[ip])

\* cnt - prev_packets.get(ip, cnt)
Increase(packets, ip) ==
  IF NoEntry \in {packets[ip], seen.packets[ip]} THEN 0
  ELSE packets[ip] - seen.packets[ip]

\* The sources with most packets, of those that have a counter.
Top(packets) ==
  LET counted == {ip \in Ips : packets[ip] # NoEntry}
  IN  {rows \in SUBSET counted :
         /\ \/ rows = counted /\ Cardinality(rows) <= TOP
            \/ Cardinality(rows) = TOP
         /\ \A ip \in rows, other \in counted \ rows :
              packets[ip] >= packets[other]}

\* Only a source with a row is shown at all, as blocked or as active.
Shows(packets, blocked_set, at) ==
  \E rows \in Top(packets) :
    seen' = [packets |-> packets, rows |-> rows, sent |-> at,
             blocked |-> rows \cap blocked_set,
             increase |-> [ip \in Ips |->
                             IF ip \in rows THEN Increase(packets, ip) ELSE 0]]

\* The text is rendered under the lock.
Scrape ==
  /\ pc # "off"
  /\ Shows(metrics.packets, metrics.blocked_set, metrics.sent)
  /\ Succeeds
  /\ UNCHANGED <<kernel, brain, metrics>>

\* Nobody listens, or the answer does not come in time: as if all were empty.
ScrapeFails ==
  /\ \/ pc = "off" /\ Succeeds
     \/ Fails
  /\ Shows(NoCounts, {}, sent)
  /\ UNCHANGED <<kernel, brain, metrics>>

Refresh == Scrape \/ ScrapeFails

-----------------------------------------------------------------------------

Work ==
  \/ \E stage \in Stages \ {"tokens"} : Dump(stage)
  \/ ReadTokens \/ ShieldsCheck \/ Detected \/ Expired
  \/ \E ip \in Ips : Detect(ip) \/ Expire(ip)
  \/ update_blocked_set \/ update_snapshot

Kernel == \E ip \in Ips : Frame(ip) \/ Evict(ip) \/ AutoBlock(ip)

Next == Kernel \/ Start \/ Work \/ Crash \/ Reboot \/ Refresh

Spec == Init /\ [][Next]_vars

Fairness == WF_vars(Start) /\ WF_vars(Work) /\ WF_vars(Refresh)

FairSpec == Spec /\ Fairness

-----------------------------------------------------------------------------

\* The dashboard never counts more packets for a source than it sent: whatever
\* the meter forgot, a dump or a scrape missed and a restart reset, the increase
\* is at most the packets of the time between the two readings of the meter.
RateNeverInflated ==
  [][ \A ip \in Ips : seen'.increase[ip] > 0
        => seen'.increase[ip] <= seen'.sent[ip] - seen.sent[ip] ]_seen

\* Blocks and unblocks are counted once each: a timer that was found or set is
\* one that runs, one that was counted as an unblock or one whose delete failed;
\* and a brain that has the maps of both families counts an unblock for every
\* entry it deleted and for no other.
BooksBalance ==
  pc # "off" =>
    /\ metrics.block_events + count.restored
         = metrics.unblock_events + count.lost + Cardinality(timed)
    /\ v6_fds >= 2 => metrics.unblock_events = count.deleted

\* Each alarm has a cause of its own: between two loops that both read the
\* aggregate bucket global_pps_exceeded_total rises only if a frame emptied the
\* bucket after the first reading and before the second.
AlarmsAreReal ==
  [][ (metrics'.exceeded > metrics.exceeded /\ ~ read.missed /\ ~ before.missed)
        => read.lows > before.lows ]_metrics

\* An aggregate bucket that stays exhausted is noticed, also when the brain
\* starts in the middle of it.
FloodIsCounted ==
  (pc # "off" /\ tokens < 0) ~> (metrics.exceeded > 0 \/ tokens >= 0 \/ pc = "off")

\* The rows tell which sources have a timer, but for the time from the detection
\* to the publication in a loop: a block found, or lifted, in one loop is shown
\* right in the next, and the first loop of a brain shows no row whose status
\* was not published.
RowsTellBlocks ==
  [][ \A ip \in seen'.rows :
        pc \notin {"detect", "expire", "publish_set"}
          => (ip \in seen'.blocked <=> ip \in timed) ]_seen

=============================================================================
