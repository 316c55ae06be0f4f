---------------------------- MODULE MonitorProofs ----------------------------
(***************************************************************************)
(* What an operator can rely on, for every set of sources and every        *)
(* capacity of the aggregate bucket: the type of every number, the books   *)
(* of the block and unblock counters, the alarms and what the rows show.   *)
(***************************************************************************)
EXTENDS Monitor, FiniteSetTheorems, TLAPS

Reading == [blacklist : SUBSET Ips, counts : Counts, tokens : Int,
            sent : [Ips -> Nat], lows : Nat, missed : BOOLEAN]
Published == [packets : Counts, blocked_set : SUBSET Ips, blocked : Nat,
              block_events : Nat, unblock_events : Nat, exceeded : Nat,
              sent : [Ips -> Nat]]
Shown == [packets : Counts, rows : SUBSET Ips, blocked : SUBSET Ips,
          increase : [Ips -> Int], sent : [Ips -> Nat]]
Tallies == [frames : Nat, blocks : Nat, faults : Nat, crashes : Nat,
            restored : Nat, deleted : Nat, lost : Nat]
Baselines == [lows : Nat, missed : BOOLEAN]

\* TypeOK, variable by variable.
LEMMA TypeOKDef ==
  TypeOK <=> /\ meter \in Counts
             /\ blacklist \subseteq Ips
             /\ tokens \in -GLOBAL_DEBT .. GLOBAL_LIMIT
             /\ sent \in [Ips -> Nat]
             /\ lows \in Nat
             /\ pc \in Stages \cup {"off", "shields", "detect", "expire",
                                    "publish_set", "publish_snapshot"}
             /\ v6_fds \in 0 .. 3
             /\ timed \subseteq Ips
             /\ todo \subseteq Ips
             /\ read \in Reading
             /\ prev_global_tokens \in Int
             /\ before \in Baselines
             /\ metrics \in Published
             /\ seen \in Shown
             /\ count \in Tallies
BY Zenon DEF TypeOK, Reading, Published, Shown, Tallies, Baselines

LEMMA NothingReadType ==
  ASSUME sent \in [Ips -> Nat]
  PROVE  /\ NoCounts \in Counts /\ NothingRead \in Reading
         /\ NewMetrics \in Published /\ NothingBefore \in Baselines
         /\ NothingSeen \in Shown
BY DEF NoCounts, Counts, NothingRead, Reading, NewMetrics, Published,
       NothingBefore, Baselines, NothingSeen, Shown, Zero

\* The timers of a finite set of sources can be counted.
LEMMA TimersAreFinite ==
  ASSUME NEW S, S \subseteq Ips
  PROVE  IsFiniteSet(S) /\ Cardinality(S) \in Nat
BY MonitorAssumption, FS_Subset, FS_CardinalityType

LEMMA InitTypeOK == Init => TypeOK
<1> SUFFICES ASSUME Init PROVE TypeOK
  OBVIOUS
<1>1. sent \in [Ips -> Nat]
  BY DEF Init, Zero
<1>2. seen \in Shown
  BY <1>1, NothingReadType DEF Init
<1>3. count \in Tallies
  BY DEF Init, Tallies
<1>4. tokens \in -GLOBAL_DEBT .. GLOBAL_LIMIT
  BY MonitorAssumption DEF Init
<1>5. /\ meter \in Counts /\ read \in Reading /\ metrics \in Published
      /\ prev_global_tokens \in Int /\ lows \in Nat
      /\ before \in Baselines /\ v6_fds \in 0 .. 3
  BY <1>1, NothingReadType DEF Init
<1> QED
  BY <1>1, <1>2, <1>3, <1>4, <1>5, TypeOKDef DEF Init

-----------------------------------------------------------------------------

\* One lemma per group of actions; the first four leave most variables alone.
LEMMA KernelType ==
  ASSUME TypeOK, Kernel
  PROVE  TypeOK'
<1> USE DEF brain, kernel
<1>0. PICK ip \in Ips : Frame(ip) \/ Evict(ip) \/ AutoBlock(ip)
  BY DEF Kernel
<1>1. CASE Frame(ip)
  <2>1. tokens' \in -GLOBAL_DEBT .. GLOBAL_LIMIT
    BY <1>1, MonitorAssumption DEF Frame, Spent, TypeOK
  <2>2. count' \in Tallies
    BY <1>1, TypeOKDef DEF Frame, Tallies
  <2>3. lows' \in Nat
    BY <1>1 DEF Frame, TypeOK
  <2>4. meter' \in Counts /\ sent' \in [Ips -> Nat]
    <3>1. CASE UNCHANGED <<meter, sent>>
      BY <3>1 DEF TypeOK
    <3>2. CASE /\ meter' = [meter EXCEPT ![ip] = IF @ = NoEntry THEN 1 ELSE @ + 1]
               /\ sent' = [sent EXCEPT ![ip] = @ + 1]
      <4>1. /\ meter \in [Ips -> Nat \cup {NoEntry}] /\ sent \in [Ips -> Nat]
            /\ meter[ip] \in Nat \cup {NoEntry} /\ sent[ip] \in Nat
        BY DEF TypeOK, Counts
      <4>2. /\ (IF meter[ip] = NoEntry THEN 1 ELSE meter[ip] + 1) \in Nat
            /\ sent[ip] + 1 \in Nat
        BY <4>1
      <4> QED
        BY <3>2, <4>1, <4>2 DEF Counts
    <3> QED
      BY <1>1, <3>1, <3>2 DEF Frame
  <2> QED
    BY <1>1, <2>1, <2>2, <2>3, <2>4, TypeOKDef, Zenon DEF Frame, TypeOK,
       Reading, Published, Shown, Tallies
<1>2. CASE Evict(ip)
  <2>1. meter' \in Counts
    BY <1>2 DEF Evict, TypeOK, Counts
  <2> QED
    BY <1>2, <2>1, Zenon DEF Evict, TypeOK
<1>3. CASE AutoBlock(ip)
  <2>1. blacklist' \subseteq Ips
    BY <1>3 DEF AutoBlock, TypeOK
  <2>2. count' \in Tallies
    BY <1>3, TypeOKDef DEF AutoBlock, Tallies
  <2> QED
    BY <1>3, <2>1, <2>2, Zenon DEF AutoBlock, TypeOK, Tallies
<1> QED
  BY <1>0, <1>1, <1>2, <1>3

LEMMA StartType ==
  ASSUME TypeOK, Start
  PROVE  TypeOK'
<1>1. timed' \subseteq Ips /\ blacklist' \subseteq Ips
  BY DEF Start, TypeOK
<1>2. count' \in Tallies
  <2>1. Cardinality(timed') \in Nat
    BY <1>1, TimersAreFinite
  <2> QED
    BY <2>1, TypeOKDef DEF Start, Tallies
<1>3. read' \in Reading /\ metrics' \in Published
  BY NothingReadType DEF Start, TypeOK
<1>4. pc' \in Stages \cup {"off", "shields", "detect", "expire", "publish_set",
                         "publish_snapshot"}
  BY DEF Start, Stages
<1>5. v6_fds' \in 0 .. 3
  BY MonitorAssumption DEF Start
<1> QED
  BY <1>1, <1>2, <1>3, <1>4, <1>5, Zenon
  DEF Start, TypeOK, Reading, Published, Tallies

\* A dump reads entries of sources.
LEMMA ReadableType ==
  ASSUME NEW stage \in Stages \ {"tokens"}
  PROVE  Readable(stage) \in SUBSET Ips
BY DEF Readable, Stages, Ips

\* What a dump adds to a reading.
LEMMA DumpedType ==
  ASSUME TypeOK, NEW stage \in Stages, NEW keys \in SUBSET Ips
  PROVE  /\ Dumped(stage, keys) \in Reading
         /\ Dumped(stage, keys).tokens = read.tokens
         /\ Dumped(stage, keys).lows = read.lows
         /\ Dumped(stage, keys).missed = read.missed
         /\ \A ip \in Ips :
              \/ /\ Dumped(stage, keys).counts[ip] = read.counts[ip]
                 /\ Dumped(stage, keys).sent[ip] = read.sent[ip]
              \/ /\ Dumped(stage, keys).counts[ip] = meter[ip]
                 /\ Dumped(stage, keys).sent[ip] = sent[ip]
<1>1. /\ read \in Reading /\ meter \in [Ips -> Nat \cup {NoEntry}]
      /\ sent \in [Ips -> Nat] /\ blacklist \subseteq Ips
  BY TypeOKDef DEF Counts
<1>2. /\ read.counts \in [Ips -> Nat \cup {NoEntry}]
      /\ read.sent \in [Ips -> Nat] /\ read.blacklist \subseteq Ips
  BY <1>1 DEF Reading, Counts
<1>3. CASE stage \in {"blacklist", "blacklist_v6"}
  BY <1>1, <1>2, <1>3 DEF Dumped, Reading, Counts
<1>4. CASE ~ (stage \in {"blacklist", "blacklist_v6"})
  <2> DEFINE c == [ip \in Ips |-> IF ip \in keys THEN meter[ip]
                                  ELSE read.counts[ip]]
             t == [ip \in Ips |-> IF ip \in keys THEN sent[ip]
                                  ELSE read.sent[ip]]
  <2>1. Dumped(stage, keys) = [read EXCEPT !.counts = c, !.sent = t]
    BY <1>4 DEF Dumped
  <2>2. c \in Counts /\ t \in [Ips -> Nat]
    BY <1>1, <1>2 DEF Counts
  <2>3. \A ip \in Ips : \/ c[ip] = read.counts[ip] /\ t[ip] = read.sent[ip]
                        \/ c[ip] = meter[ip] /\ t[ip] = sent[ip]
    OBVIOUS
  <2> HIDE DEF c, t
  <2> QED
    BY <1>1, <2>1, <2>2, <2>3 DEF Reading
<1> QED
  BY <1>3, <1>4

\* What the loop has read of the aggregate bucket.
LEMMA TokensRead ==
  ASSUME read \in Reading, tokens \in Int, lows \in Nat,
         read' = [read EXCEPT !.tokens = tokens, !.lows = lows, !.missed = FALSE]
  PROVE  /\ read' \in Reading
         /\ read'.tokens = tokens /\ read'.lows = lows /\ ~ read'.missed
         /\ read'.counts = read.counts /\ read'.sent = read.sent
<1>1. read = [blacklist |-> read.blacklist, counts |-> read.counts,
              tokens |-> read.tokens, sent |-> read.sent, lows |-> read.lows,
              missed |-> read.missed]
  BY DEF Reading
<1>2. read' = [blacklist |-> read.blacklist, counts |-> read.counts,
               tokens |-> tokens, sent |-> read.sent, lows |-> lows,
               missed |-> FALSE]
  BY <1>1
<1> QED
  BY <1>2 DEF Reading

\* The counters of faults and timers stay numbers.
LEMMA OutcomeType ==
  ASSUME TypeOK, Succeeds \/ Fails
  PROVE  count' \in Tallies
BY TypeOKDef DEF Succeeds, Fails, Tallies

LEMMA CollectType ==
  ASSUME TypeOK,
         (\E stage \in Stages \ {"tokens"} : Dump(stage)) \/ ReadTokens
           \/ ShieldsCheck
  PROVE  TypeOK'
<1> USE DEF kernel
<1>1. ASSUME NEW stage \in Stages \ {"tokens"}, Dump(stage) PROVE TypeOK'
  <2>1. count' \in Tallies
    BY <1>1, OutcomeType DEF Dump
  <2>2. \A keys \in SUBSET Readable(stage) : keys \in SUBSET Ips
    BY ReadableType
  <2>3. read' \in Reading
    <3>1. \/ read' = read
          \/ \E keys \in SUBSET Readable(stage) : read' = Dumped(stage, keys)
      BY <1>1 DEF Dump
    <3> QED
      BY <2>2, <3>1, DumpedType, TypeOKDef
  <2>4. pc' \in Stages \cup {"shields"}
    BY <1>1 DEF Dump, After, Stages
  <2> QED
    BY <1>1, <2>1, <2>3, <2>4, Zenon DEF Dump, TypeOK, Reading, Tallies
<1>2. CASE ReadTokens
  <2>1. count' \in Tallies
    BY <1>2, OutcomeType DEF ReadTokens
  <2>2. read' \in Reading
    BY <1>2, MonitorAssumption, TypeOKDef, TokensRead DEF ReadTokens
  <2>3. pc' = "shields"
    BY <1>2 DEF ReadTokens
  <2> QED
    BY <1>2, <2>1, <2>2, <2>3, Zenon DEF ReadTokens, TypeOK, Reading, Tallies
<1>3. CASE ShieldsCheck
  <2>1. metrics' \in Published
    BY <1>3, TypeOKDef DEF ShieldsCheck, Published
  <2>2. todo' \subseteq Ips
    BY <1>3, TypeOKDef DEF ShieldsCheck, Reading
  <2>3. pc' = "detect"
    BY <1>3 DEF ShieldsCheck
  <2> QED
    BY <1>3, <2>1, <2>2, <2>3, Zenon DEF ShieldsCheck, TypeOK, Published
<1> QED
  BY <1>1, <1>2, <1>3

\* An expired timer whose delete is made, finds nothing, or fails.
LEMMA DeletedTimer ==
  ASSUME count \in Tallies, count' = [count EXCEPT !.deleted = @ + 1]
  PROVE  /\ count' \in Tallies /\ count'.deleted = count.deleted + 1
         /\ count'.lost = count.lost /\ count'.restored = count.restored
BY DEF Tallies

LEMMA LostTimer ==
  ASSUME count \in Tallies, count' = [count EXCEPT !.lost = @ + 1]
  PROVE  /\ count' \in Tallies /\ count'.deleted = count.deleted
         /\ count'.lost = count.lost + 1 /\ count'.restored = count.restored
BY DEF Tallies

LEMMA FailedDelete ==
  ASSUME count \in Tallies,
         count' = [count EXCEPT !.faults = @ + 1, !.lost = @ + 1]
  PROVE  /\ count' \in Tallies /\ count'.deleted = count.deleted
         /\ count'.lost = count.lost + 1 /\ count'.restored = count.restored
<1>1. count = [frames |-> count.frames, blocks |-> count.blocks,
               faults |-> count.faults, crashes |-> count.crashes,
               restored |-> count.restored, deleted |-> count.deleted,
               lost |-> count.lost]
  BY DEF Tallies
<1>2. count' = [frames |-> count.frames, blocks |-> count.blocks,
                faults |-> count.faults + 1, crashes |-> count.crashes,
                restored |-> count.restored, deleted |-> count.deleted,
                lost |-> count.lost + 1]
  BY <1>1
<1> QED
  BY <1>2 DEF Tallies

\* A process that dies takes its tallies with it.
LEMMA DeadTimers ==
  ASSUME count \in Tallies,
         count' = [count EXCEPT !.crashes = @ + 1, !.restored = 0,
                                !.deleted = 0, !.lost = 0]
  PROVE  count' \in Tallies /\ count'.deleted = 0 /\ count'.lost = 0
<1>1. count = [frames |-> count.frames, blocks |-> count.blocks,
               faults |-> count.faults, crashes |-> count.crashes,
               restored |-> count.restored, deleted |-> count.deleted,
               lost |-> count.lost]
  BY DEF Tallies
<1>2. count' = [frames |-> count.frames, blocks |-> count.blocks,
                faults |-> count.faults, crashes |-> count.crashes + 1,
                restored |-> 0, deleted |-> 0, lost |-> 0]
  BY <1>1
<1> QED
  BY <1>2 DEF Tallies

LEMMA TimersType ==
  ASSUME TypeOK,
         (\E ip \in Ips : Detect(ip) \/ Expire(ip)) \/ Detected \/ Expired
  PROVE  TypeOK'
<1> USE DEF kernel
<1>1. ASSUME NEW ip \in Ips, Detect(ip) PROVE TypeOK'
  <2>1. metrics' \in Published
    BY <1>1, TypeOKDef DEF Detect, Published
  <2>2. todo' \subseteq Ips /\ timed' \subseteq Ips
    BY <1>1 DEF Detect, TypeOK
  <2> QED
    BY <1>1, <2>1, <2>2, Zenon DEF Detect, TypeOK, Published
<1>2. ASSUME NEW ip \in Ips, Expire(ip) PROVE TypeOK'
  <2>1. metrics' \in Published
    BY <1>2, TypeOKDef DEF Expire, Unblocked, Published
  <2>2. count' \in Tallies
    <3>1. \/ count' = count
          \/ count' = [count EXCEPT !.deleted = @ + 1]
          \/ count' = [count EXCEPT !.lost = @ + 1]
          \/ count' = [count EXCEPT !.faults = @ + 1, !.lost = @ + 1]
      BY <1>2 DEF Expire, Succeeds
    <3> QED
      BY <3>1, TypeOKDef, FailedDelete, LostTimer, DeletedTimer
  <2>3. /\ todo' \subseteq Ips /\ timed' \subseteq Ips
        /\ blacklist' \subseteq Ips
    BY <1>2 DEF Expire, TypeOK
  <2> QED
    BY <1>2, <2>1, <2>2, <2>3, Zenon DEF Expire, TypeOK, Published, Tallies
<1>3. CASE Detected
  <2>1. todo' \subseteq Ips /\ pc' = "expire"
    BY <1>3 DEF Detected, TypeOK
  <2> QED
    BY <1>3, <2>1, Zenon DEF Detected, TypeOK
<1>4. CASE Expired
  <2>1. pc' = "publish_set"
    BY <1>4 DEF Expired
  <2> QED
    BY <1>4, <2>1, Zenon DEF Expired, TypeOK
<1> QED
  BY <1>1, <1>2, <1>3, <1>4

LEMMA PublishType ==
  ASSUME TypeOK, update_blocked_set \/ update_snapshot
  PROVE  TypeOK'
<1> USE DEF kernel
<1>1. CASE update_blocked_set
  <2>1. metrics' \in Published
    BY <1>1, TypeOKDef DEF update_blocked_set, Published
  <2>2. pc' = "publish_snapshot"
    BY <1>1 DEF update_blocked_set
  <2> QED
    BY <1>1, <2>1, <2>2, Zenon DEF update_blocked_set, TypeOK, Published
<1>2. CASE update_snapshot
  <2>1. metrics' \in Published
    <3>1. /\ read.counts \in Counts /\ read.sent \in [Ips -> Nat]
          /\ Cardinality(timed) \in Nat
      BY TypeOKDef, TimersAreFinite DEF Reading
    <3> QED
      BY <1>2, <3>1, TypeOKDef DEF update_snapshot, Published
  <2>2. read' \in Reading
    BY <1>2, NothingReadType DEF update_snapshot, TypeOK
  <2>3. /\ pc' \in Stages /\ prev_global_tokens' \in Int
        /\ before' \in Baselines
    BY <1>2, TypeOKDef DEF update_snapshot, Stages, Reading, Baselines
  <2> QED
    BY <1>2, <2>1, <2>2, <2>3, Zenon
    DEF update_snapshot, TypeOK, Published, Reading, Baselines
<1> QED
  BY <1>1, <1>2

LEMMA FailureType ==
  ASSUME TypeOK, Crash \/ Reboot
  PROVE  TypeOK'
<1> USE DEF kernel
<1>1. BrainDies /\ count' \in Tallies
  BY TypeOKDef, DeadTimers DEF Crash, Reboot, BrainDies
<1>2. /\ pc' = "off" /\ v6_fds' \in 0 .. 3 /\ timed' \subseteq Ips
      /\ todo' \subseteq Ips /\ prev_global_tokens' \in Int
  BY <1>1 DEF BrainDies
<1>3. read' \in Reading /\ metrics' \in Published /\ before' \in Baselines
  BY <1>1, NothingReadType DEF BrainDies, TypeOK
<1>4. CASE Crash
  BY <1>1, <1>2, <1>3, <1>4, Zenon
  DEF Crash, TypeOK, Tallies, Reading, Published, Baselines
<1>5. CASE Reboot
  <2>1. seen' \in Shown /\ meter' \in Counts
    BY <1>5, NothingReadType DEF Reboot, TypeOK
  <2>2. /\ tokens' \in -GLOBAL_DEBT .. GLOBAL_LIMIT /\ blacklist' \subseteq Ips
        /\ lows' \in Nat
    BY <1>5, MonitorAssumption DEF Reboot
  <2> QED
    BY <1>1, <1>2, <1>3, <1>5, <2>1, <2>2, Zenon
    DEF Reboot, TypeOK, Tallies, Shown, Reading, Published, Baselines
<1> QED
  BY <1>4, <1>5

\* What the dashboard makes of a scrape.
LEMMA ShowsType ==
  ASSUME TypeOK, NEW packets \in Counts, NEW shown \in SUBSET Ips,
         NEW at \in [Ips -> Nat], Shows(packets, shown, at)
  PROVE  seen' \in Shown
<1>1. ASSUME NEW ip \in Ips PROVE Increase(packets, ip) \in Int
  <2>1. /\ packets[ip] \in Nat \cup {NoEntry}
        /\ seen.packets[ip] \in Nat \cup {NoEntry}
    BY TypeOKDef DEF Shown, Counts
  <2> QED
    BY <2>1 DEF Increase, NoEntry
<1>2. PICK rows \in Top(packets) :
         seen' = [packets |-> packets, rows |-> rows, sent |-> at,
                  blocked |-> rows \cap shown,
                  increase |-> [ip \in Ips |-> IF ip \in rows
                                              THEN Increase(packets, ip) ELSE 0]]
  BY Zenon DEF Shows
<1> DEFINE up == [ip \in Ips |-> IF ip \in rows THEN Increase(packets, ip) ELSE 0]
<1>3. up \in [Ips -> Int]
  BY <1>1
<1>4. seen' = [packets |-> packets, rows |-> rows, sent |-> at,
               blocked |-> rows \cap shown, increase |-> up]
  BY <1>2
<1>5. rows \in SUBSET Ips
  BY DEF Top
<1> HIDE DEF up
<1> QED
  BY <1>3, <1>4, <1>5 DEF Shown

LEMMA RefreshType ==
  ASSUME TypeOK, Refresh
  PROVE  TypeOK'
<1> USE DEF kernel, brain
<1>1. count' \in Tallies
  BY OutcomeType DEF Refresh, Scrape, ScrapeFails
<1>2. seen' \in Shown
  <2>1. CASE Scrape
    <3>1. /\ metrics.packets \in Counts /\ metrics.blocked_set \in SUBSET Ips
          /\ metrics.sent \in [Ips -> Nat]
      BY TypeOKDef DEF Published
    <3> QED
      BY <2>1, <3>1, ShowsType DEF Scrape
  <2>2. CASE ScrapeFails
    <3>1. /\ NoCounts \in Counts /\ {} \in SUBSET Ips /\ sent \in [Ips -> Nat]
      BY TypeOKDef, NothingReadType
    <3> QED
      BY <2>2, <3>1, ShowsType DEF ScrapeFails
  <2> QED
    BY <2>1, <2>2 DEF Refresh
<1>3. UNCHANGED <<kernel, brain, metrics>>
  BY DEF Refresh, Scrape, ScrapeFails
<1> QED
  BY <1>1, <1>2, <1>3, Zenon DEF TypeOK, Tallies, Shown

\* Every number and every set the brain, MetricsState and the dashboard hold
\* has its type in every interleaving, failure and restart.
THEOREM TypeCorrect == Spec => []TypeOK
<1>1. TypeOK /\ [Next]_vars => TypeOK'
  <2> SUFFICES ASSUME TypeOK, [Next]_vars PROVE TypeOK'
    OBVIOUS
  <2>1. CASE UNCHANGED vars
    BY <2>1, Zenon DEF vars, kernel, brain, TypeOK
  <2>2. CASE Work
    BY <2>2, CollectType, TimersType, PublishType DEF Work
  <2> QED
    BY <2>1, <2>2, KernelType, StartType, FailureType, RefreshType DEF Next
<1> QED
  BY <1>1, InitTypeOK, PTL DEF Spec

-----------------------------------------------------------------------------
(* The books.                                                              *)

\* The for loops of the brain take a key only once: a new block has no timer
\* before it is given one, and an expired one still has it.
BooksInv ==
  /\ BooksBalance
  /\ pc = "detect" => todo \cap timed = {}
  /\ pc = "expire" => todo \subseteq timed
  /\ pc = "off" => count.deleted = 0 /\ count.lost = 0

\* Adding or removing one timer changes their number by one.
LEMMA OneTimer ==
  ASSUME NEW ip \in Ips, NEW S, S \subseteq Ips
  PROVE  /\ Cardinality(S) \in Nat
         /\ ip \notin S => Cardinality(S \cup {ip}) = Cardinality(S) + 1
         /\ ip \in S => Cardinality(S \ {ip}) = Cardinality(S) - 1
<1>1. IsFiniteSet(S)
  BY TimersAreFinite
<1> QED
  BY <1>1, FS_CardinalityType, FS_AddElement, FS_RemoveElement

\* The steps that touch neither the counters nor the timers.
LEMMA BooksUntouched ==
  ASSUME BooksInv,
         /\ metrics'.block_events = metrics.block_events
         /\ metrics'.unblock_events = metrics.unblock_events
         /\ count'.restored = count.restored /\ count'.lost = count.lost
         /\ count'.deleted = count.deleted
         /\ timed' = timed /\ v6_fds' = v6_fds,
         pc # "off", pc' # "off",
         pc' = "detect" => todo' \cap timed' = {},
         pc' = "expire" => todo' \subseteq timed'
  PROVE  BooksInv'
BY Zenon DEF BooksInv, BooksBalance

LEMMA BooksStep ==
  ASSUME TypeOK, BooksInv, [Next]_vars
  PROVE  BooksInv'
<1> USE DEF kernel, brain
<1>1. /\ metrics \in Published /\ count \in Tallies
      /\ timed \subseteq Ips /\ todo \subseteq Ips
      /\ metrics.block_events \in Nat /\ metrics.unblock_events \in Nat
      /\ count.restored \in Nat /\ count.lost \in Nat /\ count.deleted \in Nat
      /\ Cardinality(timed) \in Nat
  BY TypeOKDef, TimersAreFinite DEF Published, Tallies
<1>2. ASSUME UNCHANGED <<brain, metrics>>,
             count'.restored = count.restored, count'.lost = count.lost,
             count'.deleted = count.deleted
      PROVE  BooksInv'
  BY <1>2, Zenon DEF BooksInv, BooksBalance
<1>3. CASE Kernel \/ Refresh \/ UNCHANGED vars
  <2>1. UNCHANGED <<brain, metrics>>
    BY <1>3 DEF Kernel, Frame, Evict, AutoBlock, Refresh, Scrape, ScrapeFails,
                vars
  <2>2. \/ count' = count
        \/ \E n \in Nat : count' = [count EXCEPT !.frames = n]
        \/ \E n \in Nat : count' = [count EXCEPT !.blocks = n]
        \/ \E n \in Nat : count' = [count EXCEPT !.faults = n]
    BY <1>1, <1>3 DEF Kernel, Frame, Evict, AutoBlock, Refresh, Scrape,
       ScrapeFails, Succeeds, Fails, vars, Tallies
  <2> QED
    BY <1>1, <1>2, <2>1, <2>2 DEF Tallies
<1>4. CASE Start
  <2>1. /\ timed' \subseteq Ips
        /\ metrics'.block_events = 0 /\ metrics'.unblock_events = 0
        /\ count'.restored = Cardinality(timed')
        /\ count'.lost = 0 /\ count'.deleted = 0
        /\ pc' = "blacklist"
    BY <1>1, <1>4 DEF Start, NewMetrics, Tallies, BooksInv
  <2>2. Cardinality(timed') \in Nat
    BY <2>1, TimersAreFinite
  <2> QED
    BY <2>1, <2>2 DEF BooksInv, BooksBalance
<1>5. CASE Crash \/ Reboot
  <2>1. pc' = "off" /\ count'.deleted = 0 /\ count'.lost = 0
    BY <1>1, <1>5, DeadTimers DEF Crash, Reboot, BrainDies
  <2> QED
    BY <2>1 DEF BooksInv, BooksBalance
<1>6. ASSUME NEW stage \in Stages \ {"tokens"}, Dump(stage) PROVE BooksInv'
  <2>1. pc' # "detect" /\ pc' # "expire" /\ pc # "off" /\ pc' # "off"
    BY <1>6 DEF Dump, After, Stages
  <2>2. /\ count'.restored = count.restored /\ count'.lost = count.lost
        /\ count'.deleted = count.deleted
    BY <1>1, <1>6 DEF Dump, Succeeds, Fails, Tallies
  <2>3. UNCHANGED <<timed, v6_fds, metrics>>
    BY <1>6 DEF Dump
  <2> QED
    BY <2>1, <2>2, <2>3, BooksUntouched
<1>7. CASE ReadTokens
  <2>1. pc' # "detect" /\ pc' # "expire" /\ pc # "off" /\ pc' # "off"
    BY <1>7 DEF ReadTokens
  <2>2. /\ count'.restored = count.restored /\ count'.lost = count.lost
        /\ count'.deleted = count.deleted
    BY <1>1, <1>7 DEF ReadTokens, Succeeds, Fails, Tallies
  <2> QED
    BY <1>7, <2>1, <2>2, BooksUntouched DEF ReadTokens
<1>8. CASE ShieldsCheck
  <2>1. /\ metrics'.block_events = metrics.block_events
        /\ metrics'.unblock_events = metrics.unblock_events
    BY <1>1, <1>8 DEF ShieldsCheck, Published
  <2>2. /\ pc' = "detect" /\ pc # "off" /\ todo' \cap timed' = {}
        /\ UNCHANGED <<timed, v6_fds, count>>
    BY <1>8 DEF ShieldsCheck
  <2> QED
    BY <2>1, <2>2, BooksUntouched
<1>9. ASSUME NEW ip \in Ips, Detect(ip) PROVE BooksInv'
  <2>1. /\ metrics'.block_events = metrics.block_events + 1
        /\ metrics'.unblock_events = metrics.unblock_events
    BY <1>1, <1>9 DEF Detect, Published
  <2>2. ip \notin timed
    BY <1>9 DEF Detect, BooksInv
  <2>3. Cardinality(timed') = Cardinality(timed) + 1
    BY <1>1, <1>9, <2>2, OneTimer DEF Detect
  <2>4. /\ pc = "detect" /\ UNCHANGED <<pc, v6_fds, count>>
        /\ todo' = todo \ {ip} /\ timed' = timed \cup {ip}
    BY <1>9 DEF Detect
  <2> QED
    BY <1>1, <2>1, <2>3, <2>4 DEF BooksInv, BooksBalance
<1>10. CASE Detected
  <2>1. /\ pc' = "expire" /\ pc = "detect" /\ todo' \subseteq timed
        /\ UNCHANGED <<timed, v6_fds, metrics, count>>
    BY <1>10 DEF Detected
  <2> QED
    BY <2>1, BooksUntouched
<1>11. ASSUME NEW ip \in Ips, Expire(ip) PROVE BooksInv'
  <2>1. /\ pc = "expire" /\ UNCHANGED <<pc, v6_fds>>
        /\ todo' = todo \ {ip} /\ timed' = timed \ {ip} /\ ip \in todo
    BY <1>11 DEF Expire
  <2>2. \/ Unblocked /\ count' = [count EXCEPT !.deleted = @ + 1]
        \/ Unblocked /\ count' = count /\ ~ (v6_fds >= 2)
        \/ metrics' = metrics /\ count' = [count EXCEPT !.lost = @ + 1]
        \/ /\ metrics' = metrics
           /\ count' = [count EXCEPT !.faults = @ + 1, !.lost = @ + 1]
    BY <1>11 DEF Expire, Succeeds, HasMap
  <2>3. Unblocked => /\ metrics'.block_events = metrics.block_events
                     /\ metrics'.unblock_events = metrics.unblock_events + 1
    BY <1>1 DEF Unblocked, Published
  <2>6. /\ metrics'.block_events = metrics.block_events
        /\ count'.restored = count.restored
        /\ \/ /\ metrics'.unblock_events = metrics.unblock_events + 1
              /\ count'.lost = count.lost
              /\ v6_fds >= 2 => count'.deleted = count.deleted + 1
           \/ /\ metrics'.unblock_events = metrics.unblock_events
              /\ count'.lost = count.lost + 1
              /\ count'.deleted = count.deleted
    BY <1>1, <2>2, <2>3, DeletedTimer, LostTimer, FailedDelete
  <2>4. ip \in timed
    BY <2>1 DEF BooksInv
  <2>5. Cardinality(timed') = Cardinality(timed) - 1
    BY <1>1, <2>1, <2>4, OneTimer
  <2> QED
    BY <1>1, <2>1, <2>5, <2>6 DEF BooksInv, BooksBalance
<1>12. CASE Expired
  <2>1. /\ pc' = "publish_set" /\ pc = "expire"
        /\ UNCHANGED <<timed, v6_fds, metrics, count>>
    BY <1>12 DEF Expired
  <2> QED
    BY <2>1, BooksUntouched
<1>13. CASE update_blocked_set
  <2>1. /\ metrics'.block_events = metrics.block_events
        /\ metrics'.unblock_events = metrics.unblock_events
    BY <1>1, <1>13 DEF update_blocked_set, Published
  <2>2. /\ pc' = "publish_snapshot" /\ pc # "off"
        /\ UNCHANGED <<timed, v6_fds, count>>
    BY <1>13 DEF update_blocked_set
  <2> QED
    BY <2>1, <2>2, BooksUntouched
<1>14. CASE update_snapshot
  <2>1. /\ metrics'.block_events = metrics.block_events
        /\ metrics'.unblock_events = metrics.unblock_events
    BY <1>1, <1>14 DEF update_snapshot, Published
  <2>2. /\ pc' = "blacklist" /\ pc # "off"
        /\ UNCHANGED <<timed, v6_fds, count>>
    BY <1>14 DEF update_snapshot
  <2> QED
    BY <2>1, <2>2, BooksUntouched
<1> QED
  BY <1>3, <1>4, <1>5, <1>6, <1>7, <1>8, <1>9, <1>10, <1>11, <1>12, <1>13, <1>14
  DEF Next, Work

\* The exported counters of block and unblock events and the timers of the
\* checkpoint always account for the timers there are; a brain that has opened
\* blacklist_map_v6 has counted as unblocks the entries it deleted, no others.
THEOREM TheBooksBalance == Spec => []BooksBalance
<1>1. Init => BooksInv
  BY DEF Init, BooksInv, BooksBalance
<1>2. BooksInv => BooksBalance
  BY DEF BooksInv
<1>3. TypeOK /\ BooksInv /\ [Next]_vars => BooksInv'
  BY BooksStep
<1> QED
  BY <1>1, <1>2, <1>3, TypeCorrect, PTL DEF Spec

-----------------------------------------------------------------------------
(* The alarms.                                                             *)

\* A bucket that held t1 after l1 low frames may hold t2 after l2 of them: it
\* only sinks, and ends empty, by a frame that is counted.
Follows(t1, l1, t2, l2) == l2 >= l1 /\ (l2 = l1 => t2 > 0 \/ t2 >= t1)

\* Every reading of the bucket precedes its present state, and the one of the
\* loop before precedes the one of this loop.
AlarmInv ==
  /\ tokens < 0 => lows > 0
  /\ ~ before.missed => Follows(prev_global_tokens, before.lows, tokens, lows)
  /\ ~ read.missed => Follows(read.tokens, read.lows, tokens, lows)
  /\ (~ before.missed /\ ~ read.missed)
       => Follows(prev_global_tokens, before.lows, read.tokens, read.lows)

LEMMA AlarmStep ==
  ASSUME TypeOK, AlarmInv, [Next]_vars, TypeOK'
  PROVE  AlarmInv'
<1> USE DEF kernel, brain
<1>1. /\ read \in Reading /\ before \in Baselines
      /\ tokens \in Int /\ lows \in Nat /\ prev_global_tokens \in Int
      /\ read.tokens \in Int /\ read.lows \in Nat /\ before.lows \in Nat
      /\ read.missed \in BOOLEAN /\ before.missed \in BOOLEAN
  BY TypeOKDef, MonitorAssumption DEF Reading, Baselines
<1>2. tokens' \in Int /\ lows' \in Nat
  BY MonitorAssumption DEF TypeOK
\* The bucket fills, or a frame empties it.
<1>3. ASSUME UNCHANGED brain, lows' >= lows,
             (tokens' = tokens /\ lows' = lows) \/ tokens' > 0 \/ lows' > lows
      PROVE  AlarmInv'
  <2>1. UNCHANGED <<prev_global_tokens, before, read>>
    BY <1>3
  <2> QED
    BY <1>1, <1>2, <1>3, <2>1 DEF AlarmInv, Follows
<1>4. CASE Kernel
  <2>1. PICK ip \in Ips : Frame(ip) \/ Evict(ip) \/ AutoBlock(ip)
    BY <1>4 DEF Kernel
  <2>2. /\ lows' >= lows
        /\ (tokens' = tokens /\ lows' = lows) \/ tokens' > 0 \/ lows' > lows
    BY <1>1, <1>2, <2>1 DEF Frame, Evict, AutoBlock
  <2>3. UNCHANGED brain
    BY <2>1 DEF Frame, Evict, AutoBlock
  <2> QED
    BY <1>3, <2>2, <2>3
\* A dead brain has read nothing, and the next one compares with 0.
<1>5. CASE Crash \/ Reboot
  <2>1. /\ read'.missed /\ prev_global_tokens' = 0
        /\ before'.lows = 0 /\ ~ before'.missed
    BY <1>5 DEF Crash, Reboot, BrainDies, NothingRead, NothingBefore
  <2>2. (tokens' = tokens /\ lows' = lows) \/ (tokens' = 0 /\ lows' = 0)
    BY <1>5 DEF Crash, Reboot
  <2> QED
    BY <1>1, <1>2, <2>1, <2>2 DEF AlarmInv, Follows
\* Nothing that matters here changes, but what was read may be forgotten.
<1>6. ASSUME UNCHANGED <<tokens, lows, prev_global_tokens, before>>,
             \/ read'.missed
             \/ /\ read'.tokens = read.tokens /\ read'.lows = read.lows
                /\ read'.missed = read.missed
      PROVE  AlarmInv'
  BY <1>1, <1>2, <1>6 DEF AlarmInv, Follows
<1>7. CASE Start
  BY <1>6, <1>7 DEF Start, NothingRead
<1>8. ASSUME NEW stage \in Stages \ {"tokens"}, Dump(stage) PROVE AlarmInv'
  <2>1. \/ read' = read
        \/ \E keys \in SUBSET Readable(stage) : read' = Dumped(stage, keys)
    BY <1>8 DEF Dump
  <2>2. \A keys \in SUBSET Readable(stage) : keys \in SUBSET Ips
    BY ReadableType
  <2>3. /\ read'.tokens = read.tokens /\ read'.lows = read.lows
        /\ read'.missed = read.missed
    BY <2>1, <2>2, DumpedType
  <2> QED
    BY <1>6, <1>8, <2>3 DEF Dump
<1>9. CASE ReadTokens
  <2>1. UNCHANGED <<tokens, lows, prev_global_tokens, before>>
    BY <1>9 DEF ReadTokens
  <2>2. CASE UNCHANGED read
    BY <1>6, <2>1, <2>2
  <2>3. CASE read' = [read EXCEPT !.tokens = tokens, !.lows = lows,
                                  !.missed = FALSE]
    <3>1. read'.tokens = tokens /\ read'.lows = lows
      BY <1>1, <2>3, TokensRead
    <3> QED
      BY <1>1, <1>2, <2>1, <3>1 DEF AlarmInv, Follows
  <2> QED
    BY <1>9, <2>2, <2>3 DEF ReadTokens
<1>10. CASE update_snapshot
  <2>1. /\ UNCHANGED <<tokens, lows>>
        /\ prev_global_tokens' = read.tokens
        /\ before'.lows = read.lows /\ before'.missed = read.missed
        /\ read'.missed
    BY <1>10 DEF update_snapshot, NothingRead
  <2> QED
    BY <1>1, <1>2, <2>1 DEF AlarmInv, Follows
<1>11. CASE \/ (\E ip \in Ips : Detect(ip) \/ Expire(ip)) \/ ShieldsCheck
            \/ Detected \/ Expired \/ update_blocked_set \/ Refresh
            \/ UNCHANGED vars
  <2>1. UNCHANGED <<tokens, lows, prev_global_tokens, before, read>>
    BY <1>11 DEF Detect, Expire, ShieldsCheck, Detected, Expired,
       update_blocked_set, Refresh, Scrape, ScrapeFails, vars
  <2> QED
    BY <1>6, <2>1
<1> QED
  BY <1>4, <1>5, <1>7, <1>8, <1>9, <1>10, <1>11 DEF Next, Work

LEMMA AlarmSpec == Spec => [](TypeOK /\ AlarmInv)
<1>1. Init => AlarmInv
  BY DEF Init, AlarmInv, Follows, NothingRead, NothingBefore
<1>2. TypeOK /\ AlarmInv /\ [Next]_vars /\ TypeOK' => AlarmInv'
  BY AlarmStep
<1> QED
  BY <1>1, <1>2, TypeCorrect, PTL DEF Spec

\* Only the check of the shields counts an alarm.
LEMMA OnlyShieldsAlarm ==
  ASSUME TypeOK, [Next]_vars, metrics'.exceeded > metrics.exceeded
  PROVE  ShieldsCheck /\ ExhaustedFurther
<1>1. metrics \in Published /\ metrics.exceeded \in Nat
  BY TypeOKDef DEF Published
<1>2. CASE ShieldsCheck
  BY <1>1, <1>2 DEF ShieldsCheck
<1>3. CASE Start \/ Crash \/ Reboot
  <2>1. metrics'.exceeded = 0
    BY <1>3 DEF Start, Crash, Reboot, BrainDies, NewMetrics
  <2> QED
    BY <1>1, <2>1
<1>4. ASSUME NEW ip \in Ips, Detect(ip) \/ Expire(ip) PROVE FALSE
  <2>1. metrics'.exceeded = metrics.exceeded
    BY <1>1, <1>4 DEF Detect, Expire, Unblocked, Published
  <2> QED
    BY <1>1, <2>1
<1>5. CASE update_blocked_set \/ update_snapshot
  <2>1. metrics'.exceeded = metrics.exceeded
    BY <1>1, <1>5 DEF update_blocked_set, update_snapshot, Published
  <2> QED
    BY <1>1, <2>1
<1>6. CASE \/ Kernel \/ (\E stage \in Stages \ {"tokens"} : Dump(stage))
           \/ ReadTokens \/ Detected \/ Expired \/ Refresh \/ UNCHANGED vars
  <2>1. metrics' = metrics
    BY <1>6 DEF Kernel, Frame, Evict, AutoBlock, Dump, ReadTokens, Detected,
       Expired, Refresh, Scrape, ScrapeFails, vars
  <2> QED
    BY <1>1, <2>1
<1> QED
  BY <1>2, <1>3, <1>4, <1>5, <1>6 DEF Next, Work

\* Between two loops that both read the aggregate bucket, no alarm is raised
\* unless a frame left the bucket empty between the two readings.
THEOREM AlarmsHaveCauses == Spec => AlarmsAreReal
<1>1. ASSUME TypeOK, AlarmInv, [Next]_vars,
             metrics'.exceeded > metrics.exceeded,
             ~ read.missed, ~ before.missed
      PROVE  read.lows > before.lows
  <2>1. ExhaustedFurther
    BY <1>1, OnlyShieldsAlarm
  <2>2. Follows(prev_global_tokens, before.lows, read.tokens, read.lows)
    BY <1>1 DEF AlarmInv
  <2>3. /\ read.tokens \in Int /\ read.lows \in Nat /\ before.lows \in Nat
        /\ prev_global_tokens \in Int
    BY <1>1, TypeOKDef DEF Reading, Baselines
  <2> QED
    BY <2>1, <2>2, <2>3 DEF ExhaustedFurther, Follows
<1>2. (TypeOK /\ AlarmInv) /\ [Next]_vars
        => [ (metrics'.exceeded > metrics.exceeded /\ ~ read.missed
                /\ ~ before.missed) => read.lows > before.lows ]_metrics
  BY <1>1
<1> QED
  BY <1>2, AlarmSpec, PTL DEF Spec, AlarmsAreReal

-----------------------------------------------------------------------------
(* The rates.                                                              *)

\* The packets of a source the meter does not know of any more.
Forgotten(ip) == sent[ip] - (IF meter[ip] = NoEntry THEN 0 ELSE meter[ip])

\* A reading made when the meter had forgotten no more than it has now, and one
\* made when it had forgotten no more than at another reading.
Past(packets, at, ip) ==
  packets[ip] # NoEntry => at[ip] - packets[ip] <= Forgotten(ip)

Before(packets, at, later, then, ip) ==
  NoEntry \notin {packets[ip], later[ip]}
    => at[ip] - packets[ip] <= then[ip] - later[ip]

\* What the dashboard shows was read before what is published, that before what
\* the loop has read, and that before now.
RateInv ==
  \A ip \in Ips :
    /\ Past(seen.packets, seen.sent, ip)
    /\ Past(metrics.packets, metrics.sent, ip)
    /\ Past(read.counts, read.sent, ip)
    /\ Before(seen.packets, seen.sent, metrics.packets, metrics.sent, ip)
    /\ Before(seen.packets, seen.sent, read.counts, read.sent, ip)
    /\ Before(metrics.packets, metrics.sent, read.counts, read.sent, ip)

\* What may happen to the readings of one source in a step.
SameSeen(ip) ==
  seen'.packets[ip] = seen.packets[ip] /\ seen'.sent[ip] = seen.sent[ip]
SameMetrics(ip) ==
  /\ metrics'.packets[ip] = metrics.packets[ip]
  /\ metrics'.sent[ip] = metrics.sent[ip]
SameRead(ip) ==
  read'.counts[ip] = read.counts[ip] /\ read'.sent[ip] = read.sent[ip]
SameMeter(ip) == meter'[ip] = meter[ip] /\ sent'[ip] = sent[ip]

\* The meter only ever forgets more.
LEMMA MeterForgets ==
  ASSUME TypeOK, NEW ip \in Ips, Kernel \/ Reboot
  PROVE  Forgotten(ip)' >= Forgotten(ip)
<1>1. /\ meter \in [Ips -> Nat \cup {NoEntry}] /\ sent \in [Ips -> Nat]
      /\ meter[ip] \in Nat \cup {NoEntry} /\ sent[ip] \in Nat
  BY DEF TypeOK, Counts
<1>2. ASSUME NEW x \in Ips, Frame(x) PROVE Forgotten(ip)' >= Forgotten(ip)
  <2>1. CASE UNCHANGED <<meter, sent>>
    BY <1>1, <2>1 DEF Forgotten, NoEntry
  <2>2. CASE /\ meter' = [meter EXCEPT ![x] = IF @ = NoEntry THEN 1 ELSE @ + 1]
             /\ sent' = [sent EXCEPT ![x] = @ + 1]
    <3>1. CASE x = ip
      BY <1>1, <2>2, <3>1 DEF Forgotten, NoEntry
    <3>2. CASE x # ip
      BY <1>1, <2>2, <3>2 DEF Forgotten, NoEntry
    <3> QED
      BY <3>1, <3>2
  <2> QED
    BY <1>2, <2>1, <2>2 DEF Frame
<1>3. ASSUME NEW x \in Ips, Evict(x) PROVE Forgotten(ip)' >= Forgotten(ip)
  BY <1>1, <1>3 DEF Evict, Forgotten, NoEntry
<1>4. ASSUME NEW x \in Ips, AutoBlock(x) PROVE Forgotten(ip)' >= Forgotten(ip)
  BY <1>1, <1>4 DEF AutoBlock, Forgotten, NoEntry
<1>5. CASE Reboot
  BY <1>1, <1>5 DEF Reboot, Forgotten, NoEntry, NoCounts
<1> QED
  BY <1>2, <1>3, <1>4, <1>5 DEF Kernel

LEMMA ReadingSteps ==
  ASSUME TypeOK, NEW ip \in Ips, [Next]_vars
  PROVE  \/ /\ Forgotten(ip)' >= Forgotten(ip)
            /\ SameSeen(ip) \/ seen'.packets[ip] = NoEntry
            /\ SameMetrics(ip) \/ metrics'.packets[ip] = NoEntry
            /\ SameRead(ip) \/ read'.counts[ip] = NoEntry
         \/ /\ SameMeter(ip)
            /\ \/ /\ seen'.packets[ip] = metrics.packets[ip]
                  /\ seen'.sent[ip] = metrics.sent[ip]
                  /\ SameMetrics(ip) /\ SameRead(ip)
               \/ /\ metrics'.packets[ip] = NoEntry
                  /\ read'.counts[ip] = NoEntry
                  /\ SameSeen(ip)
               \/ /\ metrics'.packets[ip] = read.counts[ip]
                  /\ metrics'.sent[ip] = read.sent[ip]
                  /\ read'.counts[ip] = NoEntry
                  /\ SameSeen(ip)
               \/ /\ SameRead(ip) \/ /\ read'.counts[ip] = meter[ip]
                                     /\ read'.sent[ip] = sent[ip]
                  /\ SameSeen(ip) /\ SameMetrics(ip)
<1> DEFINE Lost == /\ Forgotten(ip)' >= Forgotten(ip)
                   /\ SameSeen(ip) \/ seen'.packets[ip] = NoEntry
                   /\ SameMetrics(ip) \/ metrics'.packets[ip] = NoEntry
                   /\ SameRead(ip) \/ read'.counts[ip] = NoEntry
           Scraped == /\ seen'.packets[ip] = metrics.packets[ip]
                      /\ seen'.sent[ip] = metrics.sent[ip]
                      /\ SameMetrics(ip) /\ SameRead(ip)
           Begun == /\ metrics'.packets[ip] = NoEntry
                    /\ read'.counts[ip] = NoEntry
                    /\ SameSeen(ip)
           Moved == /\ metrics'.packets[ip] = read.counts[ip]
                    /\ metrics'.sent[ip] = read.sent[ip]
                    /\ read'.counts[ip] = NoEntry
                    /\ SameSeen(ip)
           Collected == /\ SameRead(ip) \/ /\ read'.counts[ip] = meter[ip]
                                           /\ read'.sent[ip] = sent[ip]
                        /\ SameSeen(ip) /\ SameMetrics(ip)
           Goal == \/ Lost
                   \/ /\ SameMeter(ip)
                      /\ Scraped \/ Begun \/ Moved \/ Collected
<1> SUFFICES Goal
  OBVIOUS
<1> USE DEF kernel, brain
<1>1. NoCounts[ip] = NoEntry
  BY DEF NoCounts
<1>2. metrics \in Published /\ seen \in Shown /\ read \in Reading
  BY TypeOKDef
<1>3. CASE Kernel
  <2>1. UNCHANGED <<seen, metrics, read>>
    BY <1>3 DEF Kernel, Frame, Evict, AutoBlock
  <2>2. Lost
    BY <1>3, <2>1, MeterForgets DEF SameSeen, SameMetrics, SameRead
  <2> QED
    BY <2>2
<1>4. CASE Reboot
  <2>1. /\ seen'.packets[ip] = NoEntry /\ metrics'.packets[ip] = NoEntry
        /\ read'.counts[ip] = NoEntry
    BY <1>1, <1>4 DEF Reboot, BrainDies, NothingSeen, NewMetrics, NothingRead
  <2>2. Lost
    BY <1>4, <2>1, MeterForgets
  <2> QED
    BY <2>2
<1>5. CASE Start \/ Crash
  <2>1. SameMeter(ip) /\ Begun
    BY <1>1, <1>5 DEF Start, Crash, BrainDies, NewMetrics, NothingRead,
       SameMeter, SameSeen
  <2> QED
    BY <2>1
<1>6. CASE update_snapshot
  <2>1. /\ metrics'.packets = read.counts /\ metrics'.sent = read.sent
    BY <1>2, <1>6 DEF update_snapshot, Published
  <2>2. SameMeter(ip) /\ Moved
    BY <1>1, <1>6, <2>1 DEF update_snapshot, NothingRead, SameMeter, SameSeen
  <2> QED
    BY <2>2
<1>7. ASSUME NEW stage \in Stages \ {"tokens"}, Dump(stage) PROVE Goal
  <2>1. \A keys \in SUBSET Readable(stage) : keys \in SUBSET Ips
    BY ReadableType
  <2>4. \/ read' = read
        \/ \E keys \in SUBSET Readable(stage) : read' = Dumped(stage, keys)
    BY <1>7 DEF Dump
  <2>2. SameRead(ip) \/ (read'.counts[ip] = meter[ip] /\ read'.sent[ip] = sent[ip])
    BY <2>1, <2>4, DumpedType DEF SameRead
  <2>3. SameMeter(ip) /\ Collected
    BY <1>7, <2>2 DEF Dump, SameMeter, SameSeen, SameMetrics
  <2> QED
    BY <2>3
<1>8. ASSUME UNCHANGED <<meter, sent, seen>>,
             metrics'.packets = metrics.packets, metrics'.sent = metrics.sent,
             read'.counts = read.counts, read'.sent = read.sent
      PROVE  Goal
  <2>1. SameMeter(ip) /\ Collected
    BY <1>8 DEF SameMeter, SameSeen, SameMetrics, SameRead
  <2> QED
    BY <2>1
<1>9. CASE Scrape
  <2>1. SameMeter(ip) /\ Scraped
    BY <1>9 DEF Scrape, Shows, SameMeter, SameMetrics, SameRead
  <2> QED
    BY <2>1
<1>10. CASE ScrapeFails
  <2>1. seen'.packets[ip] = NoEntry /\ UNCHANGED <<meter, sent, metrics, read>>
    BY <1>1, <1>10 DEF ScrapeFails, Shows
  <2>2. Forgotten(ip)' >= Forgotten(ip)
    <3>1. Forgotten(ip) \in Int
      BY DEF TypeOK, Counts, Forgotten, NoEntry
    <3>2. Forgotten(ip)' = Forgotten(ip)
      BY <2>1 DEF Forgotten
    <3> QED
      BY <3>1, <3>2
  <2>3. Lost
    BY <2>1, <2>2 DEF SameMetrics, SameRead
  <2> QED
    BY <2>3
<1> HIDE DEF Goal
<1>11. CASE ReadTokens
  <2>1. read'.counts = read.counts /\ read'.sent = read.sent
    BY <1>2, <1>11, TokensRead, MonitorAssumption DEF ReadTokens, TypeOK
  <2> QED
    BY <1>8, <1>11, <2>1 DEF ReadTokens
<1>12. CASE ShieldsCheck \/ update_blocked_set
              \/ \E x \in Ips : Detect(x) \/ Expire(x)
  <2>1. /\ metrics'.packets = metrics.packets /\ metrics'.sent = metrics.sent
        /\ UNCHANGED <<meter, sent, seen, read>>
    BY <1>2, <1>12 DEF ShieldsCheck, update_blocked_set, Detect, Expire,
       Unblocked, Published
  <2> QED
    BY <1>8, <2>1
<1>13. CASE Detected \/ Expired \/ UNCHANGED vars
  <2>1. UNCHANGED <<meter, sent, seen, metrics, read>>
    BY <1>13 DEF Detected, Expired, vars
  <2> QED
    BY <1>8, <2>1
<1> QED
  BY <1>3, <1>4, <1>5, <1>6, <1>7, <1>9, <1>10, <1>11, <1>12, <1>13
  DEF Next, Work, Refresh

LEMMA RateStep ==
  ASSUME TypeOK, RateInv, [Next]_vars, TypeOK'
  PROVE  RateInv'
<1> SUFFICES ASSUME NEW ip \in Ips
             PROVE  /\ Past(seen.packets, seen.sent, ip)'
                    /\ Past(metrics.packets, metrics.sent, ip)'
                    /\ Past(read.counts, read.sent, ip)'
                    /\ Before(seen.packets, seen.sent, metrics.packets,
                              metrics.sent, ip)'
                    /\ Before(seen.packets, seen.sent, read.counts, read.sent,
                              ip)'
                    /\ Before(metrics.packets, metrics.sent, read.counts,
                              read.sent, ip)'
  BY DEF RateInv
<1>1. /\ seen.packets[ip] \in Nat \cup {NoEntry} /\ seen.sent[ip] \in Nat
      /\ metrics.packets[ip] \in Nat \cup {NoEntry} /\ metrics.sent[ip] \in Nat
      /\ read.counts[ip] \in Nat \cup {NoEntry} /\ read.sent[ip] \in Nat
      /\ meter[ip] \in Nat \cup {NoEntry} /\ sent[ip] \in Nat
      /\ Forgotten(ip) \in Int
  BY DEF TypeOK, Counts, Forgotten, NoEntry
<1>2. /\ meter'[ip] \in Nat \cup {NoEntry} /\ sent'[ip] \in Nat
      /\ Forgotten(ip)' \in Int
  BY DEF TypeOK, Counts, Forgotten, NoEntry
<1>3. /\ Past(seen.packets, seen.sent, ip)
      /\ Past(metrics.packets, metrics.sent, ip)
      /\ Past(read.counts, read.sent, ip)
      /\ Before(seen.packets, seen.sent, metrics.packets, metrics.sent, ip)
      /\ Before(seen.packets, seen.sent, read.counts, read.sent, ip)
      /\ Before(metrics.packets, metrics.sent, read.counts, read.sent, ip)
  BY DEF RateInv
<1>4. SameMeter(ip) => Forgotten(ip)' = Forgotten(ip)
  BY DEF SameMeter, Forgotten
<1>5. meter[ip] # NoEntry => sent[ip] - meter[ip] = Forgotten(ip)
  BY DEF Forgotten
<1> HIDE DEF Forgotten
<1> USE DEF Past, Before, SameSeen, SameMetrics, SameRead, NoEntry
<1>6. CASE /\ Forgotten(ip)' >= Forgotten(ip)
           /\ SameSeen(ip) \/ seen'.packets[ip] = NoEntry
           /\ SameMetrics(ip) \/ metrics'.packets[ip] = NoEntry
           /\ SameRead(ip) \/ read'.counts[ip] = NoEntry
  BY <1>1, <1>2, <1>3, <1>6
<1>7. CASE /\ SameMeter(ip)
           /\ seen'.packets[ip] = metrics.packets[ip]
           /\ seen'.sent[ip] = metrics.sent[ip]
           /\ SameMetrics(ip) /\ SameRead(ip)
  BY <1>1, <1>2, <1>3, <1>4, <1>7
<1>8. CASE /\ SameMeter(ip)
           /\ metrics'.packets[ip] = NoEntry /\ read'.counts[ip] = NoEntry
           /\ SameSeen(ip)
  BY <1>1, <1>2, <1>3, <1>4, <1>8
<1>9. CASE /\ SameMeter(ip)
           /\ metrics'.packets[ip] = read.counts[ip]
           /\ metrics'.sent[ip] = read.sent[ip]
           /\ read'.counts[ip] = NoEntry
           /\ SameSeen(ip)
  BY <1>1, <1>2, <1>3, <1>4, <1>9
<1>10. CASE /\ SameMeter(ip)
            /\ SameRead(ip) \/ /\ read'.counts[ip] = meter[ip]
                               /\ read'.sent[ip] = sent[ip]
            /\ SameSeen(ip) /\ SameMetrics(ip)
  BY <1>1, <1>2, <1>3, <1>4, <1>5, <1>10
<1> QED
  BY <1>6, <1>7, <1>8, <1>9, <1>10, ReadingSteps

LEMMA RateSpec == Spec => [](TypeOK /\ RateInv)
<1>1. Init => RateInv
  BY DEF Init, RateInv, Past, Before, NewMetrics, NothingRead, NothingSeen,
     NoCounts
<1>2. TypeOK /\ RateInv /\ [Next]_vars /\ TypeOK' => RateInv'
  BY RateStep
<1> QED
  BY <1>1, <1>2, TypeCorrect, PTL DEF Spec

\* A counter may be reset, evicted or missed between two scrapes: the rate that
\* is shown is at most that of the packets sent between the two readings.
THEOREM RatesAreHonest == Spec => RateNeverInflated
<1>1. ASSUME TypeOK, RateInv, [Next]_vars, seen' # seen, NEW ip \in Ips,
             seen'.increase[ip] > 0
      PROVE  seen'.increase[ip] <= seen'.sent[ip] - seen.sent[ip]
  <2>1. /\ seen.packets[ip] \in Nat \cup {NoEntry} /\ seen.sent[ip] \in Nat
        /\ metrics.packets[ip] \in Nat \cup {NoEntry}
        /\ metrics.sent[ip] \in Nat
    BY <1>1 DEF TypeOK, Counts
  <2>2. Before(seen.packets, seen.sent, metrics.packets, metrics.sent, ip)
    BY <1>1 DEF RateInv
  <2>3. CASE Scrape
    <3>1. /\ seen'.increase[ip] = Increase(metrics.packets, ip)
          /\ seen'.sent = metrics.sent
      BY <1>1, <2>3 DEF Scrape, Shows
    <3>2. NoEntry \notin {metrics.packets[ip], seen.packets[ip]}
      BY <1>1, <3>1 DEF Increase
    <3> QED
      BY <2>1, <2>2, <3>1, <3>2 DEF Increase, Before
  <2>4. CASE ScrapeFails
    <3>1. seen'.increase[ip] = 0
      BY <2>4 DEF ScrapeFails, Shows, Increase, NoCounts
    <3> QED
      BY <1>1, <3>1
  <2>5. CASE Reboot
    <3>1. seen'.increase[ip] = 0
      BY <1>1, <2>5 DEF Reboot, NothingSeen, Zero
    <3> QED
      BY <1>1, <3>1
  <2>6. CASE Kernel \/ Start \/ Work \/ Crash \/ UNCHANGED vars
    <3>1. seen' = seen
      BY <2>6 DEF Kernel, Frame, Evict, AutoBlock, Start, Work, Dump, ReadTokens,
         ShieldsCheck, Detect, Detected, Expire, Expired, update_blocked_set,
         update_snapshot, Crash, vars
    <3> QED
      BY <1>1, <3>1
  <2> QED
    BY <1>1, <2>3, <2>4, <2>5, <2>6 DEF Next, Refresh
<1>2. (TypeOK /\ RateInv) /\ [Next]_vars
        => [ \A ip \in Ips : seen'.increase[ip] > 0
               => seen'.increase[ip] <= seen'.sent[ip] - seen.sent[ip] ]_seen
  BY <1>1
<1> QED
  BY <1>2, RateSpec, PTL DEF Spec, RateNeverInflated

-----------------------------------------------------------------------------
(* The rows.                                                               *)

\* Until the next detection the published set is that of the timers, unless no
\* counter was published and there are no rows.
StatusInv ==
  /\ pc = "publish_snapshot" => metrics.blocked_set = timed
  /\ pc \in Stages \cup {"shields"}
       => metrics.blocked_set = timed \/ metrics.packets = NoCounts

LEMMA StatusStep ==
  ASSUME TypeOK, StatusInv, [Next]_vars
  PROVE  StatusInv'
<1> USE DEF kernel, brain
<1>1. metrics \in Published
  BY TypeOKDef
<1>2. CASE Kernel \/ Refresh \/ UNCHANGED vars
  <2>1. UNCHANGED <<pc, metrics, timed>>
    BY <1>2 DEF Kernel, Frame, Evict, AutoBlock, Refresh, Scrape, ScrapeFails,
       vars
  <2> QED
    BY <2>1 DEF StatusInv
<1>3. CASE Start
  <2>1. metrics'.packets = NoCounts /\ pc' = "blacklist"
    BY <1>3 DEF Start, NewMetrics
  <2> QED
    BY <2>1 DEF StatusInv
<1>4. CASE Crash \/ Reboot
  <2>1. pc' = "off"
    BY <1>4 DEF Crash, Reboot, BrainDies
  <2> QED
    BY <2>1 DEF StatusInv, Stages
<1>5. CASE (\E stage \in Stages \ {"tokens"} : Dump(stage)) \/ ReadTokens
  <2>1. pc \in Stages /\ UNCHANGED <<metrics, timed>>
    BY <1>5 DEF Dump, ReadTokens, Stages
  <2>2. pc' # "publish_snapshot"
    BY <1>5 DEF Dump, ReadTokens, After, Stages
  <2> QED
    BY <2>1, <2>2 DEF StatusInv
<1>6. CASE \/ ShieldsCheck \/ Detected \/ Expired
           \/ \E ip \in Ips : Detect(ip) \/ Expire(ip)
  <2>1. pc' \in {"detect", "expire", "publish_set"}
    BY <1>6 DEF ShieldsCheck, Detected, Expired, Detect, Expire
  <2> QED
    BY <2>1 DEF StatusInv, Stages
<1>7. CASE update_blocked_set
  <2>1. /\ pc' = "publish_snapshot" /\ timed' = timed
        /\ metrics'.blocked_set = timed
    BY <1>1, <1>7 DEF update_blocked_set, Published
  <2> QED
    BY <2>1 DEF StatusInv, Stages
<1>8. CASE update_snapshot
  <2>1. /\ pc = "publish_snapshot" /\ pc' = "blacklist" /\ timed' = timed
        /\ metrics'.blocked_set = metrics.blocked_set
    BY <1>1, <1>8 DEF update_snapshot, Published
  <2> QED
    BY <2>1 DEF StatusInv
<1> QED
  BY <1>2, <1>3, <1>4, <1>5, <1>6, <1>7, <1>8, Zenon DEF Next, Work

LEMMA StatusSpec == Spec => [](TypeOK /\ StatusInv)
<1>1. Init => StatusInv
  BY DEF Init, StatusInv, Stages
<1>2. TypeOK /\ StatusInv /\ [Next]_vars => StatusInv'
  BY StatusStep
<1> QED
  BY <1>1, <1>2, TypeCorrect, PTL DEF Spec

\* Outside the time from the detection to the publication, a refresh shows a
\* source that has a row as blocked exactly if its timer runs.
THEOREM RowsAreCurrent == Spec => RowsTellBlocks
<1>1. ASSUME TypeOK, StatusInv, [Next]_vars, seen' # seen, NEW ip \in seen'.rows,
             pc \notin {"detect", "expire", "publish_set"}
      PROVE  ip \in seen'.blocked <=> ip \in timed
  <2> USE DEF kernel, brain
  <2>1. CASE Scrape
    <3>1. /\ ip \in Ips /\ metrics.packets[ip] # NoEntry
          /\ seen'.blocked = seen'.rows \cap metrics.blocked_set
      BY <1>1, <2>1 DEF Scrape, Shows, Top
    <3>2. metrics.packets # NoCounts
      BY <3>1 DEF NoCounts
    <3>3. pc \in Stages \cup {"shields", "publish_snapshot"}
      BY <1>1, <2>1 DEF Scrape, TypeOK
    <3> QED
      BY <1>1, <3>1, <3>2, <3>3 DEF StatusInv
  <2>2. CASE ScrapeFails
    <3>1. seen'.rows = {}
      BY <2>2 DEF ScrapeFails, Shows, Top, NoCounts
    <3> QED
      BY <1>1, <3>1
  <2>3. CASE Reboot
    BY <1>1, <2>3 DEF Reboot, NothingSeen
  <2>4. CASE Kernel \/ Start \/ Work \/ Crash \/ UNCHANGED vars
    <3>1. seen' = seen
      BY <2>4 DEF Kernel, Frame, Evict, AutoBlock, Start, Work, Dump, ReadTokens,
         ShieldsCheck, Detect, Detected, Expire, Expired, update_blocked_set,
         update_snapshot, Crash, vars
    <3> QED
      BY <1>1, <3>1
  <2> QED
    BY <1>1, <2>1, <2>2, <2>3, <2>4 DEF Next, Refresh
<1>2. (TypeOK /\ StatusInv) /\ [Next]_vars
        => [ \A ip \in seen'.rows :
               pc \notin {"detect", "expire", "publish_set"}
                 => (ip \in seen'.blocked <=> ip \in timed) ]_seen
  BY <1>1
<1> QED
  BY <1>2, StatusSpec, PTL DEF Spec, RowsTellBlocks

=============================================================================
