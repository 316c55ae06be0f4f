----------------------------- MODULE BrainProofs -----------------------------
(***************************************************************************)
(* What the control loop guarantees for every set of sources, cooldown,    *)
(* lag and number of failures, crashes and stops, and that it implements   *)
(* BlockLifecycle.                                                         *)
(***************************************************************************)
EXTENDS Brain, TLAPS

\* Between the time a loop is read from the clock and the time the loop goes to
\* sleep or to an end.
Looping == {"refresh", "dump", "dump_v6", "detect", "expire", "save_open",
            "save_write"}

\* todo holds the sources the loop is about to give a timer.
Detecting ==
  pc = "detect" \/ (pc \in {"save_open", "save_write"} /\ after = "detect")

\* The places at which the loop has no change of a timer to save.
Clean == {"restore", "loop", "refresh", "dump", "dump_v6", "detect", "sleep"}

Synced == (saved /\ pc \in Clean) => Parsed = blocked_until

\* The loop's time is not ahead of the clock, and not too old when it is used.
NowPast == now <= clock

Recent == pc \in Looping => clock - now <= MaxLag

NothingSeen == pc \in Dead \cup {"restore"} => curr_blacklist = {}

\* What the loop is about to delete has expired.
Due ==
  pc = "expire" => \A ip \in todo : /\ blocked_until[ip] # NoTimer
                                   /\ blocked_until[ip] <= now

TimeInv == TypeOK /\ NowPast /\ Recent /\ NothingSeen /\ Due

\* A timer of a source belongs to a block in force and is not too short.
Covers(timer, ip) ==
  timer # NoTimer => /\ ip \in blacklist
                     /\ timer >= since[ip] + cooldown_sec - MaxLag

\* A source the loop has seen in the blacklist is still there, and has not been
\* for less time than the lag allows.
SeenInTime(ip) ==
  (ip \in curr_blacklist \/ (Detecting /\ ip \in todo))
    => ip \in blacklist /\ since[ip] <= now + MaxLag

FirstBlock(ip) ==
  /\ since[ip] <= clock
  /\ Covers(blocked_until[ip], ip)
  /\ Covers(file.timers[ip], ip)
  /\ SeenInTime(ip)

FirstBlockInv ==
  count.reboots = 0 => \A ip \in Ips \ lifted : FirstBlock(ip)

Checkpoints == [valid : BOOLEAN, timers : Timers]

Counters == [faults : Nat, crashes : Nat, stops : Nat, reboots : Nat]

-----------------------------------------------------------------------------

\* What a restarting brain takes from the checkpoint are timers.
LEMMA ParsedType ==
  ASSUME TypeOK
  PROVE  /\ Parsed \in Timers
         /\ NoTimers \in Timers
BY DEF TypeOK, Parsed, NoTimers, Timers

\* A dead process has lost its memory.
LEMMA LostMemoryType ==
  ASSUME MemoryLost
  PROVE  /\ pc' \in Labels
         /\ shutdown' \in BOOLEAN
         /\ v6_fds' \in 0 .. 3
         /\ allowlist_cache' \subseteq Ips
         /\ allowlist_ts' \in Nat
         /\ curr_blacklist' \subseteq Ips
         /\ todo' \subseteq Ips
         /\ after' \in {"detect", "sleep"}
         /\ blocked_until' \in Timers
         /\ wake' \in Nat
<1>1. NoTimers \in Timers
  BY DEF NoTimers, Timers
<1>2. 0 \in 0 .. 3
  OBVIOUS
<1> QED
  BY <1>1, <1>2 DEF MemoryLost, Labels, Dead

\* The service starts with variables of the right types.
LEMMA InitTypeOK == Init => TypeOK
<1>1. NoTimers \in Timers
  BY DEF NoTimers, Timers
<1>2. 0 \in Nat /\ 0 \in 0 .. 3 /\ "off" \in Labels
  BY DEF Labels, Dead
<1>3. [faults |-> 0, crashes |-> 0, stops |-> 0, reboots |-> 0] \in Counters
  BY DEF Counters
<1>4. [valid |-> TRUE, timers |-> NoTimers] \in Checkpoints
  BY <1>1, Zenon DEF Checkpoints
<1> QED
  BY <1>1, <1>2, <1>3, <1>4, Zenon DEF Init, TypeOK, Checkpoints, Counters

\* Every action keeps every variable in its type, whatever the constants.
THEOREM TypeCorrect == Spec => []TypeOK
<1>1. Init => TypeOK
  BY InitTypeOK
<1>2. TypeOK /\ [Next]_vars => TypeOK'
  <2> SUFFICES ASSUME TypeOK, [Next]_vars PROVE TypeOK'
    OBVIOUS
  <2>0. /\ Parsed \in Timers
        /\ NoTimers \in Timers
    BY ParsedType
  <2> USE DEF TypeOK, environment, cache, memory, process, disk, Labels, Dead
  <2>1. CASE Start
    <3>1. v6_fds' \in 0 .. 3
      BY <2>1, BrainAssumption DEF Start
    <3>2. todo' \subseteq Ips
      BY <2>1 DEF Start, Timed
    <3>3. pc' \in Labels /\ allowlist_ts' \in Nat
      BY <2>1 DEF Start
    <3> HIDE DEF Labels, Dead
    <3> QED
      BY <2>0, <2>1, <3>1, <3>2, <3>3, Zenon DEF Start
  <2>2. ASSUME NEW ip \in Ips, Restore(ip) PROVE TypeOK'
    BY <2>2 DEF Restore, Succeeds, Fails, set_map_u32
  <2>3. CASE Restored
    BY <2>3 DEF Restored
  <2>4. CASE Loop
    <3>1. pc' \in Labels /\ allowlist_ts' \in Nat /\ now' \in Nat
      BY <2>4 DEF Loop
    <3>0. 0 \in 0 .. 3
      OBVIOUS
    <3>2. CASE shutdown
      BY <2>0, <2>4, <3>0, <3>1, <3>2, Zenon DEF Loop
    <3>3. CASE ~ shutdown
      BY <2>4, <3>1, <3>3, Zenon DEF Loop
    <3> QED
      BY <3>2, <3>3
  <2>5. CASE Refresh
    BY <2>5 DEF Refresh, Succeeds, Fails, dump_map_u32, dump_map_u32_v6, DumpedBlacklistV6, DumpedAllowlistV6,
                Incomplete, Ips
  <2>6. CASE Dump
    BY <2>6 DEF Dump, Succeeds, Fails, dump_map_u32, Incomplete
  <2>7. CASE DumpV6
    BY <2>7 DEF DumpV6, Succeeds, Fails, dump_map_u32_v6, DumpedBlacklistV6, DumpedAllowlistV6, Incomplete, Unknown
  <2>8. ASSUME NEW ip \in Ips, Detect(ip) PROVE TypeOK'
    BY <2>8, BrainAssumption DEF Detect, Deadline, Timers
  <2>9. CASE Detected
    BY <2>9, BrainAssumption DEF Detected, FallAsleep, Expired, Timed
  <2>10. ASSUME NEW ip \in Ips, Expire(ip) PROVE TypeOK'
    BY <2>10 DEF Expire, Succeeds, Fails, del_map_u32, Timers
  <2>11. CASE AllExpired
    BY <2>11 DEF AllExpired
  <2>12. CASE SaveOpen
    <3>1. file' \in Checkpoints /\ saved' \in BOOLEAN
      <4>1. [valid |-> FALSE, timers |-> NoTimers] \in Checkpoints
        BY <2>0, Zenon DEF Checkpoints
      <4>2. file \in Checkpoints
        BY DEF Checkpoints
      <4> QED
        BY <2>12, <4>1, <4>2, Zenon DEF SaveOpen
    <3>2. pc' \in Labels /\ wake' \in Nat
      BY <2>12, BrainAssumption DEF SaveOpen, Return, FallAsleep
    <3>3. count' \in Counters
      BY <2>12 DEF SaveOpen, Succeeds, Fails, Counters
    <3> HIDE DEF Labels, Dead
    <3> QED
      BY <2>12, <3>1, <3>2, <3>3, Zenon DEF SaveOpen, Checkpoints, Counters
  <2>13. CASE SaveWrite
    <3>1. file' \in Checkpoints /\ saved' \in BOOLEAN
      <4>1. [valid |-> TRUE, timers |-> blocked_until] \in Checkpoints
        BY Zenon DEF Checkpoints
      <4>2. file \in Checkpoints
        BY DEF Checkpoints
      <4> QED
        BY <2>13, <4>1, <4>2, Zenon DEF SaveWrite
    <3>2. pc' \in Labels /\ wake' \in Nat
      BY <2>13, BrainAssumption DEF SaveWrite, Return, FallAsleep
    <3>3. count' \in Counters
      BY <2>13 DEF SaveWrite, Succeeds, Fails, Counters
    <3> HIDE DEF Labels, Dead
    <3> QED
      BY <2>13, <3>1, <3>2, <3>3, Zenon DEF SaveWrite, Checkpoints, Counters
  <2>14. CASE Wake
    BY <2>14 DEF Wake
  <2>15. CASE Tick
    BY <2>15 DEF Tick
  <2>16. ASSUME NEW ip \in Ips, AutoBlock(ip) PROVE TypeOK'
    BY <2>16 DEF AutoBlock
  <2>17. ASSUME NEW ip \in Ips, AllowlistAdd(ip) \/ AllowlistRemove(ip)
         PROVE  TypeOK'
    BY <2>17 DEF AllowlistAdd, AllowlistRemove
  <2>18. CASE HandleSigterm
    BY <2>18 DEF HandleSigterm
  <2>19. CASE Crash
    <3>1. MemoryLost
      BY <2>19 DEF Crash
    <3>2. count' \in Counters
      BY <2>19 DEF Crash, Counters
    <3> HIDE DEF Labels, Dead
    <3> QED
      BY <2>19, <3>1, <3>2, LostMemoryType, Zenon DEF Crash, Counters
  <2>20. CASE Reboot
    <3>1. MemoryLost
      BY <2>20 DEF Reboot
    <3>2. count' \in Counters
      BY <2>20 DEF Reboot, Counters
    <3>3. clock' \in Nat /\ now' \in Nat
      BY <2>20 DEF Reboot
    <3> HIDE DEF Labels, Dead
    <3> QED
      BY <2>20, <3>1, <3>2, <3>3, LostMemoryType, Zenon DEF Reboot, Counters
  <2>21. CASE UNCHANGED vars
    BY <2>21 DEF vars
  <2>22. CASE OpenFails
    BY <2>22 DEF OpenFails, Fails
  <2> QED
    BY <2>1, <2>2, <2>3, <2>4, <2>5, <2>6, <2>7, <2>8, <2>9, <2>10, <2>11,
       <2>12, <2>13, <2>14, <2>15, <2>16, <2>17, <2>18, <2>19, <2>20, <2>21, <2>22
    DEF Next, Work, Kernel, Operator
<1> QED
  BY <1>1, <1>2, PTL DEF Spec
-----------------------------------------------------------------------------

\* Whenever the last save succeeded, file and memory agree at every place where
\* the loop has nothing to save.
LEMMA SyncedStep ==
  TypeOK /\ Synced /\ [Next]_vars => Synced'
<1> SUFFICES ASSUME TypeOK, Synced, [Next]_vars PROVE Synced'
  OBVIOUS
<1> USE DEF Synced, Clean, Parsed, environment, cache, memory, process, disk,
            Dead
<1>1. CASE Start
  BY <1>1 DEF Start
<1>2. ASSUME NEW ip \in Ips, Restore(ip) PROVE Synced'
  BY <1>2 DEF Restore
<1>3. CASE Restored
  BY <1>3 DEF Restored
<1>4. CASE Loop
  BY <1>4 DEF Loop
<1>5. CASE Refresh
  BY <1>5 DEF Refresh
<1>6. CASE Dump
  BY <1>6 DEF Dump
<1>7. CASE DumpV6
  BY <1>7 DEF DumpV6
<1>8. ASSUME NEW ip \in Ips, Detect(ip) PROVE Synced'
  BY <1>8 DEF Detect
<1>9. CASE Detected
  BY <1>9 DEF Detected, FallAsleep
<1>10. ASSUME NEW ip \in Ips, Expire(ip) PROVE Synced'
  BY <1>10 DEF Expire
<1>11. CASE AllExpired
  BY <1>11 DEF AllExpired
<1>12. CASE SaveOpen
  BY <1>12 DEF SaveOpen
<1>13. CASE SaveWrite
  BY <1>13 DEF SaveWrite
<1>14. CASE Wake
  BY <1>14 DEF Wake
<1>15. CASE Tick
  BY <1>15 DEF Tick
<1>16. ASSUME NEW ip \in Ips, AutoBlock(ip) PROVE Synced'
  BY <1>16 DEF AutoBlock
<1>17. ASSUME NEW ip \in Ips, AllowlistAdd(ip) \/ AllowlistRemove(ip)
       PROVE  Synced'
  BY <1>17 DEF AllowlistAdd, AllowlistRemove
<1>18. CASE HandleSigterm
  BY <1>18 DEF HandleSigterm
<1>19. CASE Crash
  BY <1>19 DEF Crash, MemoryLost
<1>20. CASE Reboot
  BY <1>20 DEF Reboot, MemoryLost
<1>21. CASE UNCHANGED vars
  BY <1>21 DEF vars
<1>22. CASE OpenFails
  BY <1>22 DEF OpenFails, Startable
<1> QED
  BY <1>1, <1>2, <1>3, <1>4, <1>5, <1>6, <1>7, <1>8, <1>9, <1>10, <1>11,
     <1>12, <1>13, <1>14, <1>15, <1>16, <1>17, <1>18, <1>19, <1>20, <1>21,
     <1>22
  DEF Next, Work, Kernel, Operator

\* A brain that dies in its sleep restarts with the timers it had, unless its
\* last save failed (monitor(), save_checkpoint() and load_checkpoint()).
THEOREM CheckpointFollowsMemory == Spec => []CheckpointMatchesMemory
<1>1. Init => Synced
  BY DEF Init, Synced, Clean
<1>2. Synced => CheckpointMatchesMemory
  BY DEF Synced, Clean, CheckpointMatchesMemory
<1> QED
  BY <1>1, <1>2, SyncedStep, TypeCorrect, PTL DEF Spec

-----------------------------------------------------------------------------

\* The loop's time is a recent time of the clock wherever it is used, and only
\* expired timers are on their way to deletion.
LEMMA TimeStep ==
  TypeOK' /\ TimeInv /\ [Next]_vars => TimeInv'
<1> SUFFICES ASSUME TypeOK', TimeInv, [Next]_vars PROVE TimeInv'
  OBVIOUS
<1> USE DEF TimeInv, NowPast, Recent, NothingSeen, Due, Looping, Dead, TypeOK,
            environment, cache, memory, process, disk
<1>1. CASE Start
  BY <1>1 DEF Start, Startable
<1>2. ASSUME NEW ip \in Ips, Restore(ip) PROVE TimeInv'
  BY <1>2 DEF Restore
<1>3. CASE Restored
  BY <1>3 DEF Restored
<1>4. CASE Loop
  <2>1. now' = clock /\ clock' = clock /\ curr_blacklist' = {}
    BY <1>4 DEF Loop
  <2>2. pc' # "expire"
    BY <1>4 DEF Loop
  <2> QED
    BY <2>1, <2>2, BrainAssumption
<1>5. CASE Refresh
  BY <1>5 DEF Refresh
<1>6. CASE Dump
  BY <1>6 DEF Dump
<1>7. CASE DumpV6
  BY <1>7 DEF DumpV6
<1>8. ASSUME NEW ip \in Ips, Detect(ip) PROVE TimeInv'
  BY <1>8 DEF Detect
<1>9. CASE Detected
  BY <1>9 DEF Detected, FallAsleep, Expired, Timed
<1>10. ASSUME NEW ip \in Ips, Expire(ip) PROVE TimeInv'
  BY <1>10 DEF Expire
<1>11. CASE AllExpired
  BY <1>11 DEF AllExpired
<1>12. CASE SaveOpen
  BY <1>12 DEF SaveOpen, Return, FallAsleep
<1>13. CASE SaveWrite
  BY <1>13 DEF SaveWrite, Return, FallAsleep
<1>14. CASE Wake
  BY <1>14 DEF Wake
<1>15. CASE Tick
  <2>1. pc \in Looping => clock - now < MaxLag
    BY <1>15 DEF Tick
  <2>2. /\ clock' = clock + 1
        /\ UNCHANGED <<pc, now, curr_blacklist, todo, blocked_until>>
    BY <1>15 DEF Tick
  <2> QED
    BY <2>1, <2>2, BrainAssumption
<1>16. ASSUME NEW ip \in Ips, AutoBlock(ip) PROVE TimeInv'
  BY <1>16 DEF AutoBlock
<1>17. ASSUME NEW ip \in Ips, AllowlistAdd(ip) \/ AllowlistRemove(ip)
       PROVE  TimeInv'
  BY <1>17 DEF AllowlistAdd, AllowlistRemove
<1>18. CASE HandleSigterm
  BY <1>18 DEF HandleSigterm
<1>19. CASE Crash
  BY <1>19 DEF Crash, MemoryLost
<1>20. CASE Reboot
  BY <1>20 DEF Reboot, MemoryLost
<1>21. CASE UNCHANGED vars
  BY <1>21 DEF vars
<1>22. CASE OpenFails
  BY <1>22 DEF OpenFails, Startable
<1> QED
  BY <1>1, <1>2, <1>3, <1>4, <1>5, <1>6, <1>7, <1>8, <1>9, <1>10, <1>11,
     <1>12, <1>13, <1>14, <1>15, <1>16, <1>17, <1>18, <1>19, <1>20, <1>21,
     <1>22
  DEF Next, Work, Kernel, Operator

\* The same, from the first start on.
LEMMA TimeInvariant == Spec => []TimeInv
<1>1. Init => TimeInv
  BY InitTypeOK
  DEF Init, TimeInv, NowPast, Recent, NothingSeen, Due, Looping, Dead
<1> QED
  BY <1>1, TimeStep, TypeCorrect, PTL DEF Spec

-----------------------------------------------------------------------------

\* The counters of disturbances and the set of lifted blocks only grow.
LEMMA HistoryGrows ==
  ASSUME TypeOK, [Next]_vars
  PROVE  /\ lifted \subseteq lifted'
         /\ count'.reboots = 0 => count.reboots = 0 /\ ~ Reboot
<1> DEFINE Goal == /\ lifted \subseteq lifted'
                   /\ count'.reboots = count.reboots
<1>0. count \in Counters
  BY DEF TypeOK, Counters
<1>a. CASE Reboot
  <2>1. count'.reboots = count.reboots + 1 /\ count.reboots \in Nat
    BY <1>0, <1>a DEF Reboot, Counters
  <2> QED
    BY <1>a, <2>1 DEF Reboot
<1> SUFFICES ASSUME ~ Reboot PROVE Goal
  BY <1>a
<1> USE DEF Counters, environment, cache, memory, process, disk, Succeeds, Fails
<1>1. CASE Start
  BY <1>1 DEF Start
<1>2. ASSUME NEW ip \in Ips, Restore(ip) PROVE Goal
  BY <1>2, <1>0 DEF Restore
<1>3. CASE Restored
  BY <1>3 DEF Restored
<1>4. CASE Loop
  BY <1>4 DEF Loop
<1>5. CASE Refresh
  BY <1>5, <1>0 DEF Refresh
<1>6. CASE Dump
  BY <1>6, <1>0 DEF Dump
<1>7. CASE DumpV6
  BY <1>7, <1>0 DEF DumpV6
<1>8. ASSUME NEW ip \in Ips, Detect(ip) PROVE Goal
  BY <1>8 DEF Detect
<1>9. CASE Detected
  BY <1>9, <1>0 DEF Detected
<1>10. ASSUME NEW ip \in Ips, Expire(ip) PROVE Goal
  BY <1>10, <1>0 DEF Expire, del_map_u32
<1>11. CASE AllExpired
  BY <1>11 DEF AllExpired
<1>12. CASE SaveOpen
  BY <1>12, <1>0 DEF SaveOpen
<1>13. CASE SaveWrite
  BY <1>13, <1>0 DEF SaveWrite
<1>14. CASE Wake
  BY <1>14 DEF Wake
<1>15. CASE Tick
  BY <1>15 DEF Tick
<1>16. ASSUME NEW ip \in Ips, AutoBlock(ip) PROVE Goal
  BY <1>16 DEF AutoBlock
<1>17. ASSUME NEW ip \in Ips, AllowlistAdd(ip) \/ AllowlistRemove(ip)
       PROVE  Goal
  BY <1>17 DEF AllowlistAdd, AllowlistRemove
<1>18. CASE HandleSigterm
  BY <1>18, <1>0 DEF HandleSigterm
<1>19. CASE Crash
  BY <1>19, <1>0 DEF Crash, MemoryLost
<1>20. CASE Reboot
  BY <1>20
<1>21. CASE UNCHANGED vars
  BY <1>21 DEF vars
<1>22. CASE OpenFails
  BY <1>22 DEF OpenFails, Startable
<1> QED
  BY <1>1, <1>2, <1>3, <1>4, <1>5, <1>6, <1>7, <1>8, <1>9, <1>10, <1>11,
     <1>12, <1>13, <1>14, <1>15, <1>16, <1>17, <1>18, <1>19, <1>20, <1>21,
     <1>22
  DEF Next, Work, Kernel, Operator

\* First blocks, through every step but a reboot.
LEMMA FirstBlockStep ==
  TypeOK' /\ TimeInv /\ FirstBlockInv /\ [Next]_vars => FirstBlockInv'
<1> SUFFICES ASSUME TimeInv, FirstBlockInv, [Next]_vars,
                    count'.reboots = 0, NEW s \in Ips \ lifted'
             PROVE  FirstBlock(s)'
  BY DEF FirstBlockInv
<1>0. TypeOK /\ ~ Reboot /\ FirstBlock(s)
  BY HistoryGrows DEF TimeInv, FirstBlockInv
<1> DEFINE Ints == /\ clock \in Int /\ now \in Int /\ since[s] \in Int
                   /\ MaxLag \in Nat /\ cooldown_sec \in Nat
<1>a. Ints
  BY <1>0, BrainAssumption DEF TypeOK
<1> USE DEF FirstBlock, Covers, SeenInTime, Detecting, environment, cache,
            memory, process, disk
<1>1. CASE Start
  <2>1. /\ blocked_until' = Parsed
        /\ UNCHANGED <<clock, blacklist, since, file>>
    BY <1>1 DEF Start
  <2>2. curr_blacklist' = {} /\ pc' = "restore"
    BY <1>1 DEF Start, Startable, TimeInv, NothingSeen
  <2>3. Covers(Parsed[s], s)
    BY <1>0 DEF Parsed, NoTimers
  <2> QED
    BY <1>0, <2>1, <2>2, <2>3
<1>2. ASSUME NEW ip \in Ips, Restore(ip) PROVE FirstBlock(s)'
  BY <1>2, <1>0, <1>0 DEF Restore, set_map_u32
<1>3. CASE Restored
  BY <1>3, <1>0 DEF Restored
<1>4. CASE Loop
  <2>1. curr_blacklist' = {} /\ ~ Detecting'
    BY <1>4 DEF Loop
  <2>2. /\ UNCHANGED <<clock, blacklist, since, file>>
        /\ blocked_until'[s] \in {NoTimer, blocked_until[s]}
    BY <1>4 DEF Loop, NoTimers
  <2> QED
    BY <1>0, <2>1, <2>2
<1>5. CASE Refresh
  BY <1>5, <1>0 DEF Refresh
<1>6. CASE Dump
  <2>1. clock <= now + MaxLag
    BY <1>6, <1>a DEF Dump, TimeInv, Recent, Looping
  <2>2. /\ curr_blacklist' \subseteq blacklist \/ curr_blacklist' = curr_blacklist
        /\ todo' = {} \/ ~ Detecting'
        /\ UNCHANGED <<clock, blacklist, since, blocked_until, file, now>>
    BY <1>6 DEF Dump, dump_map_u32, Incomplete
  <2> QED
    BY <1>0, <2>1, <2>2, <1>a
<1>7. CASE DumpV6
  <2>1. clock <= now + MaxLag
    BY <1>7, <1>a DEF DumpV6, TimeInv, Recent, Looping
  <2>2. /\ s \in curr_blacklist' => s \in curr_blacklist \/ s \in blacklist
        /\ todo' \subseteq curr_blacklist'
        /\ UNCHANGED <<clock, blacklist, since, blocked_until, file, now>>
    BY <1>7 DEF DumpV6, dump_map_u32_v6, DumpedBlacklistV6, DumpedAllowlistV6, Incomplete, Unknown
  <2> QED
    BY <1>0, <2>1, <2>2, <1>a
<1>8. ASSUME NEW ip \in Ips, Detect(ip) PROVE FirstBlock(s)'
  <2>1. /\ pc = "detect" /\ ip \in todo
        /\ todo' = todo \ {ip}
        /\ blocked_until' = [blocked_until EXCEPT ![ip] = now + cooldown_sec]
        /\ UNCHANGED <<clock, blacklist, since, file, now, curr_blacklist>>
    BY <1>8 DEF Detect, Deadline
  <2>2. CASE s = ip
    BY <1>0, <2>1, <2>2, <1>a DEF TypeOK, Timers
  <2>3. CASE s # ip
    BY <1>0, <2>1, <2>3 DEF TypeOK, Timers
  <2> QED
    BY <2>2, <2>3
<1>9. CASE Detected
  <2>1. /\ UNCHANGED <<clock, blacklist, since, blocked_until, file, now,
                       curr_blacklist>>
        /\ ~ Detecting'
    BY <1>9 DEF Detected, FallAsleep
  <2> QED
    BY <1>0, <2>1
<1>10. ASSUME NEW ip \in Ips, Expire(ip) PROVE FirstBlock(s)'
  <2>1. /\ blocked_until' = [blocked_until EXCEPT ![ip] = NoTimer]
        /\ s \in blacklist => s \in blacklist'
        /\ ~ Detecting'
        /\ UNCHANGED <<clock, since, file, now, curr_blacklist>>
    BY <1>10 DEF Expire, del_map_u32
  <2>2. blocked_until'[s] \in {NoTimer, blocked_until[s]}
    BY <2>1 DEF TimeInv, TypeOK, Timers
  <2> QED
    BY <1>0, <2>1, <2>2
<1>11. CASE AllExpired
  BY <1>11, <1>0 DEF AllExpired
<1>12. CASE SaveOpen
  <2>1. /\ file'.timers[s] \in {file.timers[s], NoTimer}
        /\ UNCHANGED <<clock, blacklist, since, blocked_until, now,
                       curr_blacklist, todo>>
        /\ Detecting' => Detecting
    BY <1>12 DEF SaveOpen, Return, FallAsleep, NoTimers
  <2> QED
    BY <1>0, <2>1
<1>13. CASE SaveWrite
  <2>1. /\ file'.timers[s] \in {file.timers[s], blocked_until[s]}
        /\ UNCHANGED <<clock, blacklist, since, blocked_until, now,
                       curr_blacklist, todo>>
        /\ Detecting' => Detecting
    BY <1>13 DEF SaveWrite, Return, FallAsleep
  <2> QED
    BY <1>0, <2>1
<1>14. CASE Wake
  BY <1>14, <1>0 DEF Wake
<1>15. CASE Tick
  BY <1>15, <1>0, <1>a DEF Tick
<1>16. ASSUME NEW ip \in Ips, AutoBlock(ip) PROVE FirstBlock(s)'
  <2>1. /\ ip \notin blacklist
        /\ blacklist' = blacklist \cup {ip}
        /\ since' = [since EXCEPT ![ip] = clock]
        /\ UNCHANGED <<clock, blocked_until, file, now, curr_blacklist, todo, pc,
                       after>>
    BY <1>16 DEF AutoBlock
  <2>2. CASE s = ip
    BY <1>0, <2>1, <2>2 DEF TypeOK
  <2>3. CASE s # ip
    BY <1>0, <2>1, <2>3 DEF TypeOK
  <2> QED
    BY <2>2, <2>3
<1>17. ASSUME NEW ip \in Ips, AllowlistAdd(ip) \/ AllowlistRemove(ip)
       PROVE  FirstBlock(s)'
  BY <1>17, <1>0 DEF AllowlistAdd, AllowlistRemove
<1>18. CASE HandleSigterm
  BY <1>18, <1>0 DEF HandleSigterm
<1>19. CASE Crash
  <2>1. /\ curr_blacklist' = {} /\ ~ Detecting'
        /\ blocked_until' = NoTimers
        /\ UNCHANGED <<clock, blacklist, since, file>>
    BY <1>19 DEF Crash, MemoryLost
  <2> QED
    BY <1>0, <2>1 DEF NoTimers
<1>20. CASE Reboot
  BY <1>20, <1>0
<1>21. CASE UNCHANGED vars
  BY <1>21, <1>0 DEF vars
<1>22. CASE OpenFails
  <2>1. /\ curr_blacklist' = {} /\ ~ Detecting'
        /\ UNCHANGED <<clock, blacklist, since, blocked_until, file>>
    BY <1>22 DEF OpenFails, Startable, TimeInv, NothingSeen
  <2> QED
    BY <1>0, <2>1
<1> QED
  BY <1>1, <1>2, <1>3, <1>4, <1>5, <1>6, <1>7, <1>8, <1>9, <1>10, <1>11,
     <1>12, <1>13, <1>14, <1>15, <1>16, <1>17, <1>18, <1>19, <1>20, <1>21,
     <1>22
  DEF Next, Work, Kernel, Operator

-----------------------------------------------------------------------------

\* No timer lies further ahead than a cooldown.
Near ==
  \A ip \in Ips : /\ blocked_until[ip] <= clock + cooldown_sec
                  /\ file.timers[ip] <= clock + cooldown_sec

\* Every step but a reboot keeps the timers near.
LEMMA NearStep ==
  ASSUME MaxReboots = 0
  PROVE  TypeOK' /\ TimeInv /\ Near /\ [Next]_vars => Near'
<1> SUFFICES ASSUME TypeOK', TimeInv, Near, [Next]_vars, NEW s \in Ips
             PROVE  /\ blocked_until'[s] <= clock' + cooldown_sec
                    /\ file'.timers[s] <= clock' + cooldown_sec
  BY DEF Near
<1> DEFINE Goal == /\ blocked_until'[s] <= clock' + cooldown_sec
                   /\ file'.timers[s] <= clock' + cooldown_sec
<1>0. /\ clock \in Nat /\ now \in Nat /\ now <= clock
      /\ cooldown_sec \in Nat
      /\ blocked_until \in [Ips -> Nat \cup {NoTimer}]
      /\ blocked_until[s] <= clock + cooldown_sec
      /\ file.timers[s] <= clock + cooldown_sec
      /\ file.timers[s] \in Int /\ blocked_until[s] \in Int
      /\ count.reboots \in Nat
  BY BrainAssumption DEF TimeInv, NowPast, TypeOK, Near, Timers, NoTimer
<1>a. NoTimers[s] = NoTimer /\ NoTimer <= clock + cooldown_sec
  BY <1>0 DEF NoTimers, NoTimer
<1> USE DEF environment, cache, memory, process, disk
<1>1. CASE Start
  BY <1>1, <1>a, <1>0 DEF Start, Parsed
<1>2. ASSUME NEW ip \in Ips, Restore(ip) PROVE Goal
  BY <1>2, <1>0 DEF Restore
<1>3. CASE Restored
  BY <1>3, <1>0 DEF Restored
<1>4. CASE Loop
  BY <1>4, <1>a, <1>0 DEF Loop
<1>5. CASE Refresh
  BY <1>5, <1>0 DEF Refresh
<1>6. CASE Dump
  BY <1>6, <1>0 DEF Dump
<1>7. CASE DumpV6
  BY <1>7, <1>0 DEF DumpV6
<1>8. ASSUME NEW ip \in Ips, Detect(ip) PROVE Goal
  BY <1>8, BrainAssumption, <1>0 DEF Detect, Deadline
<1>9. CASE Detected
  BY <1>9, <1>0 DEF Detected
<1>10. ASSUME NEW ip \in Ips, Expire(ip) PROVE Goal
  BY <1>10, <1>a, <1>0 DEF Expire
<1>11. CASE AllExpired
  BY <1>11, <1>0 DEF AllExpired
<1>12. CASE SaveOpen
  BY <1>12, <1>a, <1>0 DEF SaveOpen
<1>13. CASE SaveWrite
  BY <1>13, <1>0 DEF SaveWrite
<1>14. CASE Wake
  BY <1>14, <1>0 DEF Wake
<1>15. CASE Tick
  BY <1>15, <1>0 DEF Tick
<1>16. ASSUME NEW ip \in Ips, AutoBlock(ip) PROVE Goal
  BY <1>16, <1>0 DEF AutoBlock
<1>17. ASSUME NEW ip \in Ips, AllowlistAdd(ip) \/ AllowlistRemove(ip)
       PROVE  Goal
  BY <1>17, <1>0 DEF AllowlistAdd, AllowlistRemove
<1>18. CASE HandleSigterm
  BY <1>18, <1>0 DEF HandleSigterm
<1>19. CASE Crash
  BY <1>19, <1>a, <1>0 DEF Crash, MemoryLost
<1>20. CASE Reboot
  BY <1>20, <1>0 DEF Reboot
<1>21. CASE UNCHANGED vars
  BY <1>21, <1>0 DEF vars
<1>22. CASE OpenFails
  BY <1>22, <1>a, <1>0 DEF OpenFails, Startable
<1> QED
  BY <1>1, <1>2, <1>3, <1>4, <1>5, <1>6, <1>7, <1>8, <1>9, <1>10, <1>11,
     <1>12, <1>13, <1>14, <1>15, <1>16, <1>17, <1>18, <1>19, <1>20, <1>21,
     <1>22
  DEF Next, Work, Kernel, Operator

\* While the machine runs no timer, in memory or in the checkpoint, lies further
\* ahead than a cooldown (monitor() never extends the deadline it computes).
THEOREM TimersAreNear ==
  ASSUME MaxReboots = 0
  PROVE  Spec => []NoTimerBeyondCooldown
<1>0. MaxReboots = 0
  OBVIOUS
<1>1. Init => Near
  BY BrainAssumption DEF Init, Near, NoTimers, NoTimer
<1>2. TypeOK' /\ TimeInv /\ Near /\ [Next]_vars => Near'
  BY <1>0, NearStep
<1>3. Near => NoTimerBeyondCooldown
  BY DEF Near, NoTimerBeyondCooldown
<1> QED
  BY <1>1, <1>2, <1>3, TimeInvariant, TypeCorrect, PTL DEF Spec

-----------------------------------------------------------------------------

\* Nothing failed, the process never died and the machine never restarted.
Undisturbed == count.faults = 0 /\ count.crashes = 0 /\ count.reboots = 0

\* The loop has seen the source in the blacklist and may give it a timer.
Noticed(ip) ==
  \/ pc = "dump_v6" /\ ip \in curr_blacklist
  \/ Detecting /\ ip \in todo

\* What keeps every block, not only the first of a source, from ending early:
\* the timers in memory, and those a new process would start with, belong to
\* blocks in force.
Kept(ip) ==
  /\ since[ip] <= clock
  /\ Covers(blocked_until[ip], ip)
  /\ pc \in Dead => Covers(Parsed[ip], ip)
  /\ Noticed(ip) => ip \in blacklist /\ since[ip] <= now + MaxLag

PromiseInv == Undisturbed => saved /\ \A ip \in Ips : Kept(ip)

\* A disturbance is never forgotten, and before the first one no save fails.
LEMMA DisturbedStays ==
  ASSUME TypeOK, [Next]_vars, Undisturbed'
  PROVE  /\ Undisturbed /\ ~ Fails /\ ~ Crash /\ ~ Reboot
         /\ (UNCHANGED count) \/ HandleSigterm
         /\ saved => saved'
<1> DEFINE Goal == /\ (UNCHANGED count) \/ HandleSigterm
                   /\ saved => saved'
<1>0. count \in Counters
  BY DEF TypeOK, Counters
<1>a. ~ Fails
  BY <1>0 DEF Fails, Counters, Undisturbed
<1>b. ~ Crash /\ ~ Reboot
  BY <1>0 DEF Crash, Reboot, Counters, Undisturbed
<1>c. SUFFICES Goal
  BY <1>0, <1>a, <1>b DEF HandleSigterm, Counters, Undisturbed
<1> USE DEF environment, cache, memory, process, disk, Succeeds
<1>1. CASE Start
  BY <1>1 DEF Start
<1>2. ASSUME NEW ip \in Ips, Restore(ip) PROVE Goal
  BY <1>2, <1>a DEF Restore
<1>3. CASE Restored
  BY <1>3 DEF Restored
<1>4. CASE Loop
  BY <1>4 DEF Loop
<1>5. CASE Refresh
  BY <1>5, <1>a DEF Refresh
<1>6. CASE Dump
  BY <1>6, <1>a DEF Dump
<1>7. CASE DumpV6
  BY <1>7, <1>a DEF DumpV6
<1>8. ASSUME NEW ip \in Ips, Detect(ip) PROVE Goal
  BY <1>8 DEF Detect
<1>9. CASE Detected
  BY <1>9 DEF Detected
<1>10. ASSUME NEW ip \in Ips, Expire(ip) PROVE Goal
  BY <1>10, <1>a DEF Expire
<1>11. CASE AllExpired
  BY <1>11 DEF AllExpired
<1>12. CASE SaveOpen
  BY <1>12, <1>a DEF SaveOpen
<1>13. CASE SaveWrite
  BY <1>13, <1>a DEF SaveWrite
<1>14. CASE Wake
  BY <1>14 DEF Wake
<1>15. CASE Tick
  BY <1>15 DEF Tick
<1>16. ASSUME NEW ip \in Ips, AutoBlock(ip) PROVE Goal
  BY <1>16 DEF AutoBlock
<1>17. ASSUME NEW ip \in Ips, AllowlistAdd(ip) \/ AllowlistRemove(ip)
       PROVE  Goal
  BY <1>17 DEF AllowlistAdd, AllowlistRemove
<1>18. CASE HandleSigterm
  BY <1>18 DEF HandleSigterm
<1>19. CASE Crash
  BY <1>19, <1>b
<1>20. CASE Reboot
  BY <1>20, <1>b
<1>21. CASE UNCHANGED vars
  BY <1>21 DEF vars
<1>22. CASE OpenFails
  BY <1>22, <1>a DEF OpenFails
<1> QED
  BY <1>1, <1>2, <1>3, <1>4, <1>5, <1>6, <1>7, <1>8, <1>9, <1>10, <1>11,
     <1>12, <1>13, <1>14, <1>15, <1>16, <1>17, <1>18, <1>19, <1>20, <1>21,
     <1>22
  DEF Next, Work, Kernel, Operator

\* While nothing fails every block keeps its timer and every timer its block,
\* also across a stop and the start after it.
LEMMA PromiseStep ==
  TypeOK' /\ TimeInv /\ Synced /\ PromiseInv /\ [Next]_vars => PromiseInv'
<1> SUFFICES ASSUME TypeOK', TimeInv, Synced, PromiseInv, [Next]_vars,
                    Undisturbed', NEW s \in Ips
             PROVE  Kept(s)'
  BY DisturbedStays DEF PromiseInv, TimeInv
<1> DEFINE Goal == Kept(s)'
<1>0. /\ TypeOK /\ ~ Fails /\ ~ Crash /\ ~ Reboot
      /\ saved /\ Kept(s) /\ \A ip \in Ips : Kept(ip)
  BY DisturbedStays DEF TimeInv, PromiseInv
<1>a. /\ clock \in Int /\ now \in Int /\ since[s] \in Int
      /\ MaxLag \in Nat /\ cooldown_sec \in Nat
  BY <1>0, BrainAssumption DEF TypeOK
<1>b. saved /\ Kept(s)
  BY <1>0
<1> HIDE DEF Goal
<1> USE DEF Kept, Covers, Noticed, Detecting, Dead, environment, cache, memory,
            process, disk, Parsed
<1>1. CASE Start
  BY <1>1, <1>b DEF Start, Startable, Goal
<1>2. ASSUME NEW ip \in Ips, Restore(ip) PROVE Goal
  BY <1>2, <1>b DEF Restore, set_map_u32, Goal
<1>3. CASE Restored
  BY <1>3, <1>b DEF Restored, Goal
<1>4. CASE Loop
  <2>1. CASE shutdown
    <3>1. /\ pc' = "stopped" /\ blocked_until' = NoTimers
          /\ UNCHANGED <<clock, blacklist, since, file, saved, todo>>
      BY <1>4, <2>1 DEF Loop
    <3>2. Parsed = blocked_until
      BY <1>4, <1>b DEF Synced, Clean, Loop
    <3> QED
      BY <1>b, <3>1, <3>2 DEF NoTimers, Goal
  <2>2. CASE ~ shutdown
    BY <1>4, <1>b, <2>2 DEF Loop, Goal
  <2> QED
    BY <2>1, <2>2
<1>5. CASE Refresh
  BY <1>5, <1>b DEF Refresh, Goal
<1>6. CASE Dump
  <2>1. clock <= now + MaxLag
    BY <1>6, <1>a DEF Dump, TimeInv, Recent, Looping
  <2>2. /\ curr_blacklist' \subseteq blacklist
        /\ pc' = "dump_v6"
        /\ UNCHANGED <<clock, blacklist, since, blocked_until, file, now, saved>>
    BY <1>6, <1>0 DEF Dump, dump_map_u32
  <2> QED
    BY <1>b, <2>1, <2>2, <1>a DEF Goal
<1>7. CASE DumpV6
  <2>1. clock <= now + MaxLag
    BY <1>7, <1>a DEF DumpV6, TimeInv, Recent, Looping
  <2>2. /\ s \in curr_blacklist' => s \in curr_blacklist \/ s \in blacklist
        /\ todo' \subseteq curr_blacklist'
        /\ pc = "dump_v6" /\ pc' = "detect"
        /\ UNCHANGED <<clock, blacklist, since, blocked_until, file, now, saved>>
    BY <1>7, <1>0 DEF DumpV6, dump_map_u32_v6, DumpedBlacklistV6, DumpedAllowlistV6, Unknown
  <2> QED
    BY <1>b, <2>1, <2>2, <1>a DEF Goal
<1>8. ASSUME NEW ip \in Ips, Detect(ip) PROVE Goal
  <2>1. /\ pc = "detect" /\ ip \in todo /\ pc' = "save_open"
        /\ todo' = todo \ {ip}
        /\ blocked_until' = [blocked_until EXCEPT ![ip] = now + cooldown_sec]
        /\ UNCHANGED <<clock, blacklist, since, file, now, saved>>
    BY <1>8 DEF Detect, Deadline
  <2>2. CASE s = ip
    BY <1>b, <1>0, <2>1, <2>2, <1>a DEF TypeOK, Timers, Goal
  <2>3. CASE s # ip
    BY <1>b, <1>0, <2>1, <2>3 DEF TypeOK, Timers, Goal
  <2> QED
    BY <2>2, <2>3
<1>9. CASE Detected
  BY <1>9, <1>b DEF Detected, FallAsleep, Goal
<1>10. ASSUME NEW ip \in Ips, Expire(ip) PROVE Goal
  <2>1. /\ blocked_until' = [blocked_until EXCEPT ![ip] = NoTimer]
        /\ s \in blacklist /\ s # ip => s \in blacklist'
        /\ pc' = "expire"
        /\ UNCHANGED <<clock, since, file, now, saved>>
    BY <1>10 DEF Expire, del_map_u32
  <2>2. blocked_until'[s] = IF s = ip THEN NoTimer ELSE blocked_until[s]
    BY <2>1, <1>0 DEF TypeOK, Timers
  <2> QED
    BY <1>b, <2>1, <2>2 DEF Goal
<1>11. CASE AllExpired
  BY <1>11, <1>b DEF AllExpired, Goal
<1>12. CASE SaveOpen
  <2>1. /\ pc' = "save_write"
        /\ UNCHANGED <<clock, blacklist, since, blocked_until, now, todo, after,
                       saved>>
        /\ pc = "save_open"
    BY <1>12, <1>0 DEF SaveOpen
  <2> QED
    BY <1>b, <2>1 DEF Goal
<1>13. CASE SaveWrite
  <2>1. /\ saved' = TRUE
        /\ UNCHANGED <<clock, blacklist, since, blocked_until, now, todo>>
        /\ Detecting' => Detecting
        /\ pc' \notin {"dump_v6"} \cup Dead
    BY <1>13, <1>0 DEF SaveWrite, Return, FallAsleep
  <2> QED
    BY <1>b, <2>1 DEF Goal
<1>14. CASE Wake
  BY <1>14, <1>b DEF Wake, Goal
<1>15. CASE Tick
  BY <1>15, <1>b, <1>a DEF Tick, Goal
<1>16. ASSUME NEW ip \in Ips, AutoBlock(ip) PROVE Goal
  <2>1. /\ ip \notin blacklist
        /\ blacklist' = blacklist \cup {ip}
        /\ since' = [since EXCEPT ![ip] = clock]
        /\ UNCHANGED <<clock, blocked_until, file, now, curr_blacklist, todo, pc,
                       after, saved>>
    BY <1>16 DEF AutoBlock
  <2>2. CASE s = ip
    BY <1>b, <1>0, <2>1, <2>2, <1>a DEF TypeOK, Goal
  <2>3. CASE s # ip
    BY <1>b, <1>0, <2>1, <2>3 DEF TypeOK, Goal
  <2> QED
    BY <2>2, <2>3
<1>17. ASSUME NEW ip \in Ips, AllowlistAdd(ip) \/ AllowlistRemove(ip)
       PROVE  Goal
  BY <1>17, <1>b DEF AllowlistAdd, AllowlistRemove, Goal
<1>18. CASE HandleSigterm
  BY <1>18, <1>b DEF HandleSigterm, Goal
<1>19. CASE UNCHANGED vars
  BY <1>19, <1>b DEF vars, Goal
<1>20. CASE OpenFails
  BY <1>20, <1>b DEF OpenFails, Startable
<1> QED
  BY <1>0, <1>1, <1>2, <1>3, <1>4, <1>5, <1>6, <1>7, <1>8, <1>9, <1>10, <1>11,
     <1>12, <1>13, <1>14, <1>15, <1>16, <1>17, <1>18, <1>19, <1>20
  DEF Next, Work, Kernel, Operator, Goal

\* A step that touches no block is a disturbance or nothing at all.
LEMMA QuietStep ==
  ASSUME TypeOK, UNCHANGED <<clock, blacklist, since, lifted>>,
         (UNCHANGED count) \/ Fails
  PROVE  Lifecycle!Next \/ UNCHANGED Lifecycle!vars
<1>1. CASE UNCHANGED count
  BY <1>1 DEF Lifecycle!vars
<1>2. CASE Fails
  <2>1. count \in Counters
    BY DEF TypeOK, Counters
  <2>2. /\ count'.faults + count'.crashes + count'.reboots > 0
        /\ count'.reboots = count.reboots
    BY <1>2, <2>1 DEF Fails, Counters
  <2>3. Lifecycle!Disturb
    BY <2>2 DEF Lifecycle!Disturb
  <2> QED
    BY <2>3 DEF Lifecycle!Next
<1> QED
  BY <1>1, <1>2

\* A delete lifts a block that may be lifted.
LEMMA LiftStep ==
  ASSUME TimeInv, FirstBlockInv, PromiseInv, NEW ip \in Ips, Expire(ip),
         Succeeds, del_map_u32(ip), ip \in blacklist
  PROVE  Lifecycle!Lift(ip)
<1>0. /\ clock \in Int /\ now \in Int /\ since[ip] \in Int
      /\ blocked_until[ip] \in Int
      /\ MaxLag \in Int /\ cooldown_sec \in Int
      /\ count \in Counters
  BY BrainAssumption DEF TimeInv, TypeOK, Timers, NoTimer, Counters
<1>1. blocked_until[ip] # NoTimer /\ blocked_until[ip] <= now /\ now <= clock
  BY DEF Expire, TimeInv, Due, NowPast
<1>2. /\ blacklist' = blacklist \ {ip}
      /\ lifted' = lifted \cup {ip}
      /\ count' = count
      /\ UNCHANGED <<clock, since>>
  BY DEF Expire, del_map_u32, Succeeds
<1>3. Covers(blocked_until[ip], ip) => clock - since[ip] >= cooldown_sec - MaxLag
  BY <1>0, <1>1 DEF Covers
<1>4. \/ clock - since[ip] >= cooldown_sec - MaxLag
      \/ /\ count.faults + count.crashes + count.reboots > 0
         /\ ip \in IF count.reboots > 0 THEN Ips ELSE lifted
  <2>1. CASE Undisturbed
    BY <2>1, <1>3 DEF PromiseInv, Kept
  <2>2. CASE count.reboots = 0 /\ ip \notin lifted
    BY <2>2, <1>3 DEF FirstBlockInv, FirstBlock
  <2>3. CASE count.reboots = 0 /\ ip \in lifted /\ ~ Undisturbed
    BY <2>3, <1>0 DEF Undisturbed, Counters
  <2>4. CASE count.reboots # 0
    BY <2>4, <1>0 DEF Counters
  <2> QED
    BY <2>1, <2>2, <2>3, <2>4
<1>5. (IF count'.reboots > 0 THEN Ips ELSE lifted')
        = (IF count.reboots > 0 THEN Ips ELSE lifted) \cup {ip}
  BY <1>2
<1> QED
  BY <1>2, <1>4, <1>5 DEF Lifecycle!Lift

\* Every step of the brain, of the kernel and of the machine is a step of the
\* promise or changes nothing it is about.
LEMMA LifecycleStep ==
  TypeOK' /\ TimeInv /\ FirstBlockInv /\ PromiseInv /\ [Next]_vars
    => [Lifecycle!Next]_Lifecycle!vars
<1> SUFFICES ASSUME TypeOK', TimeInv, FirstBlockInv, PromiseInv, [Next]_vars
             PROVE  Lifecycle!Next \/ UNCHANGED Lifecycle!vars
  OBVIOUS
<1> DEFINE Goal == Lifecycle!Next \/ UNCHANGED Lifecycle!vars
           Untouched == /\ UNCHANGED <<clock, blacklist, since, lifted>>
                        /\ (UNCHANGED count) \/ Fails
<1>0. TypeOK /\ count \in Counters /\ count' \in Counters
  BY DEF TimeInv, TypeOK, Counters
<1>a. Untouched => Goal
  BY <1>0, QuietStep
<1> SUFFICES Goal
  OBVIOUS
<1> HIDE DEF Goal
<1> USE DEF environment, cache, memory, process, disk, Succeeds
<1>1. CASE Start
  BY <1>1, <1>a DEF Start
<1>2. ASSUME NEW ip \in Ips, Restore(ip) PROVE Goal
  <2>1. CASE UNCHANGED blacklist
    BY <1>2, <1>a, <2>1 DEF Restore
  <2>2. CASE /\ ip \notin blacklist
             /\ blacklist' = blacklist \cup {ip}
             /\ UNCHANGED <<clock, since, lifted, count>>
    BY <2>2 DEF Lifecycle!Next, Lifecycle!Resume, Goal
  <2>3. CASE ip \in blacklist /\ set_map_u32(ip)
    BY <1>2, <1>a, <2>3, <2>1 DEF set_map_u32
  <2> QED
    BY <1>2, <2>1, <2>2, <2>3 DEF Restore, set_map_u32
<1>3. CASE Restored
  BY <1>3, <1>a DEF Restored
<1>4. CASE Loop
  BY <1>4, <1>a DEF Loop
<1>5. CASE Refresh
  BY <1>5, <1>a DEF Refresh
<1>6. CASE Dump
  BY <1>6, <1>a DEF Dump
<1>7. CASE DumpV6
  BY <1>7, <1>a DEF DumpV6
<1>8. ASSUME NEW ip \in Ips, Detect(ip) PROVE Goal
  BY <1>8, <1>a DEF Detect
<1>9. CASE Detected
  BY <1>9, <1>a DEF Detected
<1>10. ASSUME NEW ip \in Ips, Expire(ip) PROVE Goal
  <2>1. CASE Succeeds /\ del_map_u32(ip) /\ ip \in blacklist
    <3>1. Lifecycle!Lift(ip)
      BY <1>10, <2>1, LiftStep
    <3> QED
      BY <3>1 DEF Lifecycle!Next, Goal
  <2>2. CASE UNCHANGED <<blacklist, lifted>>
    BY <1>10, <1>a, <2>2 DEF Expire
  <2> QED
    BY <1>10, <2>1, <2>2 DEF Expire
<1>11. CASE AllExpired
  BY <1>11, <1>a DEF AllExpired
<1>12. CASE SaveOpen
  BY <1>12, <1>a DEF SaveOpen
<1>13. CASE SaveWrite
  BY <1>13, <1>a DEF SaveWrite
<1>14. CASE Wake
  BY <1>14, <1>a DEF Wake
<1>15. CASE Tick
  <2>1. Lifecycle!Elapse
    BY <1>15, <1>0 DEF Tick, Lifecycle!Elapse, TypeOK
  <2> QED
    BY <2>1 DEF Lifecycle!Next, Goal
<1>16. ASSUME NEW ip \in Ips, AutoBlock(ip) PROVE Goal
  <2>1. Lifecycle!Block(ip)
    BY <1>16 DEF AutoBlock, Lifecycle!Block
  <2> QED
    BY <2>1 DEF Lifecycle!Next, Goal
<1>17. ASSUME NEW ip \in Ips, AllowlistAdd(ip) \/ AllowlistRemove(ip)
       PROVE  Goal
  BY <1>17, <1>a DEF AllowlistAdd, AllowlistRemove
<1>18. CASE HandleSigterm
  <2>1. /\ UNCHANGED <<clock, blacklist, since, lifted>>
        /\ count'.faults = count.faults /\ count'.crashes = count.crashes
        /\ count'.reboots = count.reboots
    BY <1>18, <1>0 DEF HandleSigterm, Counters
  <2> QED
    BY <2>1 DEF Lifecycle!vars, Goal
<1>19. CASE Crash
  <2>1. /\ UNCHANGED <<clock, blacklist, since, lifted>>
        /\ count'.crashes > 0 /\ count'.reboots = count.reboots
    BY <1>19, <1>0 DEF Crash, Counters
  <2>2. count'.faults + count'.crashes + count'.reboots > 0
    BY <1>0, <2>1 DEF Counters
  <2>3. Lifecycle!Disturb
    BY <2>1, <2>2 DEF Lifecycle!Disturb
  <2> QED
    BY <2>3 DEF Lifecycle!Next, Goal
<1>20. CASE Reboot
  <2>1. /\ clock' = 0 /\ blacklist' = {} /\ UNCHANGED since
        /\ count'.reboots > 0
    BY <1>20, <1>0 DEF Reboot, Counters
  <2>2. count'.faults + count'.crashes + count'.reboots > 0
    BY <1>0, <2>1 DEF Counters
  <2>3. Lifecycle!Reboot
    BY <2>1, <2>2 DEF Lifecycle!Reboot
  <2> QED
    BY <2>3 DEF Lifecycle!Next, Goal
<1>21. CASE UNCHANGED vars
  BY <1>21, <1>a DEF vars
<1>22. CASE OpenFails
  BY <1>22, <1>a DEF OpenFails, Startable
<1> QED
  BY <1>1, <1>2, <1>3, <1>4, <1>5, <1>6, <1>7, <1>8, <1>9, <1>10, <1>11,
     <1>12, <1>13, <1>14, <1>15, <1>16, <1>17, <1>18, <1>19, <1>20, <1>21,
     <1>22
  DEF Next, Work, Kernel, Operator

\* monitor() keeps the promise of BlockLifecycle: a block that nothing disturbs
\* lasts for the cooldown, less MaxLag, every time, and the first block of a
\* source does so through failing calls, dying processes and stops.
THEOREM BrainKeepsPromise == Spec => KeepsPromise
<1>1. Init => FirstBlockInv /\ PromiseInv /\ Synced
  BY DEF Init, FirstBlockInv, FirstBlock, SeenInTime, Covers, Detecting,
         PromiseInv, Kept, Noticed, Dead, Parsed, NoTimers, Synced, Clean
<1>2. Init => Lifecycle!Init
  BY DEF Init, Lifecycle!Init
<1> QED
  BY <1>1, <1>2, LifecycleStep, FirstBlockStep, PromiseStep, SyncedStep,
     TimeInvariant, TypeCorrect, PTL
  DEF Spec, KeepsPromise, Lifecycle!Spec

-----------------------------------------------------------------------------

\* The longest time from one reading of the loop's time to the next.
Period == MaxLag + poll_interval

\* Nobody told the process to stop, either.
Calm == Undisturbed /\ count.stops = 0

Starting == pc \in {"off", "restore"}

CalmProcess ==
  /\ ~ shutdown
  /\ pc # "stopped"
  /\ clock <= now + Period
  /\ Starting => /\ blocked_until = NoTimers
                 /\ now <= MaxLag
                 /\ clock <= now + MaxLag
  /\ pc = "off" => now = 0 /\ Parsed = NoTimers
  /\ pc = "sleep" => wake <= now + Period
  /\ allowlist \cup allowlist_cache \subseteq exempt

\* The loop is yet to look at the source, with the time it has now.
Ahead(ip) ==
  \/ pc \in {"refresh", "dump"}
  \/ pc = "dump_v6" /\ (ip \in V6 \/ ip \in curr_blacklist)
  \/ Detecting /\ ip \in todo

\* A blocked source without a timer was blocked after the last loop looked at
\* it, or it still waits for the loop that will.
Awaited(ip) ==
  /\ pc = "loop" => now <= since[ip] \/ (now <= MaxLag /\ clock <= now + MaxLag)
  /\ Ahead(ip) => now <= since[ip] + Notice
  /\ (~ Starting /\ pc # "loop" /\ ~ Ahead(ip)) => now <= since[ip]

\* The loop has looked at the source's timer and left it.
Checked(ip) ==
  \/ pc \in {"sleep", "loop"}
  \/ pc \in {"save_open", "save_write"} /\ after = "sleep"
  \/ pc = "expire" /\ ip \notin todo

\* A timer was set once and in time, and no loop leaves one that is over.
Running(ip) ==
  /\ ~ (Detecting /\ ip \in todo)
  /\ blocked_until[ip] <= since[ip] + Notice + cooldown_sec
  /\ now < blocked_until[ip] + Period
  /\ Checked(ip) => now < blocked_until[ip]

Ending(ip) ==
  (ip \in blacklist \ exempt /\ HasMap(ip))
    => IF blocked_until[ip] = NoTimer THEN Awaited(ip) ELSE Running(ip)

CalmInv == Calm => CalmProcess /\ \A ip \in Ips : Ending(ip)

\* What no calm step does.
LEMMA CalmStays ==
  ASSUME TypeOK, [Next]_vars, Calm'
  PROVE  /\ Calm /\ ~ Fails /\ ~ Crash /\ ~ Reboot /\ ~ HandleSigterm
         /\ UNCHANGED count
<1>1. count \in Counters
  BY DEF TypeOK, Counters
<1>2. ~ HandleSigterm
  BY <1>1 DEF HandleSigterm, Counters, Calm
<1> QED
  BY <1>2, DisturbedStays DEF Calm

\* The loop's time and the state of the process.
LEMMA CalmProcessStep ==
  ASSUME TypeOK', TimeInv, CalmInv, [Next]_vars, Calm'
  PROVE  CalmProcess'
<1>0. TypeOK /\ ~ Fails /\ ~ Crash /\ ~ Reboot /\ ~ HandleSigterm /\ CalmProcess
  BY CalmStays DEF TimeInv, CalmInv
<1>a. /\ clock \in Int /\ now \in Int /\ wake \in Int
      /\ MaxLag \in Nat /\ poll_interval \in Nat /\ now <= clock
  BY <1>0, BrainAssumption DEF TypeOK, TimeInv, NowPast
<1>b. CalmProcess
  BY <1>0
<1> USE DEF CalmProcess, Period, Starting, environment, cache, memory, process,
            disk, Parsed
<1>1. CASE Start
  BY <1>1, <1>a, <1>b DEF Start, Startable, Dead
<1>2. ASSUME NEW ip \in Ips, Restore(ip) PROVE CalmProcess'
  BY <1>2, <1>b DEF Restore
<1>3. CASE Restored
  BY <1>3, <1>b DEF Restored
<1>4. CASE Loop
  BY <1>4, <1>a, <1>b DEF Loop
<1>5. CASE Refresh
  <2>1. allowlist_cache' \subseteq allowlist
    BY <1>5, <1>0 DEF Refresh, dump_map_u32, dump_map_u32_v6, DumpedBlacklistV6, DumpedAllowlistV6
  <2> QED
    BY <1>5, <1>b, <2>1 DEF Refresh
<1>6. CASE Dump
  BY <1>6, <1>b DEF Dump
<1>7. CASE DumpV6
  BY <1>7, <1>b DEF DumpV6
<1>8. ASSUME NEW ip \in Ips, Detect(ip) PROVE CalmProcess'
  BY <1>8, <1>b DEF Detect
<1>9. CASE Detected
  <2>1. clock <= now + MaxLag
    BY <1>9, <1>a DEF Detected, TimeInv, Recent, Looping
  <2> QED
    BY <1>9, <1>a, <1>b, <2>1 DEF Detected, FallAsleep
<1>10. ASSUME NEW ip \in Ips, Expire(ip) PROVE CalmProcess'
  BY <1>10, <1>b DEF Expire
<1>11. CASE AllExpired
  BY <1>11, <1>b DEF AllExpired
<1>12. CASE SaveOpen
  BY <1>12, <1>0, <1>b DEF SaveOpen
<1>13. CASE SaveWrite
  <2>1. clock <= now + MaxLag
    BY <1>13, <1>a DEF SaveWrite, TimeInv, Recent, Looping
  <2>2. /\ UNCHANGED <<clock, now, shutdown, allowlist, allowlist_cache, exempt>>
        /\ \/ pc' = "detect"
           \/ pc' = "sleep" /\ wake' = clock + poll_interval
    BY <1>13 DEF SaveWrite, Return, FallAsleep
  <2> QED
    BY <1>a, <1>b, <2>1, <2>2
<1>14. CASE Wake
  BY <1>14, <1>b DEF Wake
<1>15. CASE Tick
  <2>1. /\ pc = "sleep" => clock < wake
        /\ (pc # "sleep" /\ pc # "stopped") => clock - now < MaxLag
        /\ clock' = clock + 1
        /\ UNCHANGED <<pc, now, wake, shutdown, allowlist, allowlist_cache,
                       exempt, file, blocked_until>>
    BY <1>15 DEF Tick
  <2> QED
    BY <1>a, <1>b, <2>1
<1>16. ASSUME NEW ip \in Ips, AutoBlock(ip) PROVE CalmProcess'
  BY <1>16, <1>b DEF AutoBlock
<1>17. ASSUME NEW ip \in Ips, AllowlistAdd(ip) \/ AllowlistRemove(ip)
       PROVE  CalmProcess'
  BY <1>17, <1>b DEF AllowlistAdd, AllowlistRemove
<1>18. CASE UNCHANGED vars
  BY <1>18, <1>b DEF vars
<1>19. CASE OpenFails
  BY <1>19, <1>0 DEF OpenFails
<1> QED
  BY <1>0, <1>1, <1>2, <1>3, <1>4, <1>5, <1>6, <1>7, <1>8, <1>9, <1>10, <1>11,
     <1>12, <1>13, <1>14, <1>15, <1>16, <1>17, <1>18, <1>19
  DEF Next, Work, Kernel, Operator

\* In calm steps every block of a source that was never allowlisted moves on
\* towards its end.
LEMMA CalmStep ==
  ASSUME cooldown_sec + Period > 0
  PROVE  TypeOK' /\ TimeInv /\ PromiseInv /\ CalmInv /\ [Next]_vars => CalmInv'
<1> SUFFICES ASSUME TypeOK', TimeInv, PromiseInv, CalmInv, [Next]_vars, Calm',
                    NEW s \in Ips, (s \in blacklist \ exempt /\ HasMap(s))'
             PROVE  (IF blocked_until[s] = NoTimer THEN Awaited(s)
                                                   ELSE Running(s))'
  BY CalmProcessStep DEF CalmInv, Ending
<1> DEFINE Goal == (IF blocked_until[s] = NoTimer THEN Awaited(s)
                                                  ELSE Running(s))'
           Good == IF blocked_until[s] = NoTimer THEN Awaited(s) ELSE Running(s)
           mine == <<pc, after, todo, curr_blacklist, now, clock, blocked_until,
                     since, v6_fds>>
<1>0. /\ TypeOK /\ ~ Fails /\ ~ Crash /\ ~ Reboot /\ ~ HandleSigterm
      /\ CalmProcess /\ Ending(s) /\ Kept(s)
  BY CalmStays DEF TimeInv, CalmInv, PromiseInv, Calm
<1>a. /\ clock \in Int /\ now \in Nat /\ wake \in Int /\ since[s] \in Nat
      /\ MaxLag \in Nat /\ poll_interval \in Nat /\ cooldown_sec \in Nat
      /\ now <= clock /\ clock <= now + Period
      /\ Period \in Nat /\ Period >= MaxLag
      /\ Notice \in Nat /\ Notice >= Period /\ Notice >= 2 * MaxLag
      /\ cooldown_sec + Period > 0
      /\ blocked_until \in [Ips -> Nat \cup {-1}]
  BY <1>0, BrainAssumption
  DEF TypeOK, TimeInv, NowPast, CalmProcess, Period, Notice, Timers, NoTimer
<1>b. (s \in blacklist /\ s \notin exempt /\ HasMap(s)) => Good
  BY <1>0 DEF Ending
<1>c. ASSUME s \in blacklist, s \notin exempt, UNCHANGED mine PROVE Goal
  BY <1>c, <1>b DEF HasMap, Awaited, Running, Starting, Ahead, Checked, Detecting
<1> SUFFICES Goal
  OBVIOUS
<1> HIDE DEF Goal, Good
<1> USE DEF environment, cache, memory, process, disk
<1>1. CASE Start
  BY <1>1, <1>0 DEF Start, Startable, Dead, CalmProcess, Goal, Starting, Awaited,
                   Ahead, Detecting, NoTimers
<1>2. ASSUME NEW ip \in Ips, Restore(ip) PROVE Goal
  <2>1. pc' = "restore" /\ blocked_until' = NoTimers
    BY <1>2, <1>0 DEF Restore, CalmProcess, Starting
  <2> QED
    BY <2>1 DEF Goal, Starting, Awaited, Ahead, Detecting, NoTimers
<1>3. CASE Restored
  <2>1. /\ pc' = "loop" /\ blocked_until' = NoTimers
        /\ now' <= MaxLag /\ clock' <= now' + MaxLag
    BY <1>3, <1>0 DEF Restored, CalmProcess, Starting
  <2> QED
    BY <2>1 DEF Goal, Starting, Awaited, Ahead, Detecting, NoTimers
<1>4. CASE Loop
  <2>1. /\ ~ shutdown /\ pc = "loop" /\ now' = clock
        /\ pc' \in {"refresh", "dump"}
        /\ UNCHANGED <<clock, blacklist, exempt, v6_fds, since, blocked_until>>
    BY <1>4, <1>0 DEF Loop, CalmProcess
  <2>2. Good
    BY <1>b, <2>1 DEF HasMap
  <2>3. CASE blocked_until[s] = NoTimer
    <3>1. now <= since[s] \/ (now <= MaxLag /\ clock <= now + MaxLag)
      BY <2>1, <2>2, <2>3 DEF Good, Awaited
    <3>2. now' <= since[s]' + Notice
      BY <1>a, <2>1, <3>1
    <3> QED
      BY <2>1, <2>3, <3>2 DEF Goal, Awaited, Ahead, Starting
  <2>4. CASE blocked_until[s] # NoTimer
    <3>1. /\ now < blocked_until[s]
          /\ blocked_until[s] <= since[s] + Notice + cooldown_sec
      BY <2>1, <2>2, <2>4 DEF Good, Running, Checked
    <3>2. now' < blocked_until'[s] + Period
      BY <1>a, <2>1, <3>1
    <3> QED
      BY <2>1, <2>4, <3>1, <3>2 DEF Goal, Running, Checked, Detecting
  <2> QED
    BY <2>3, <2>4
<1>5. CASE Refresh
  <2>1. /\ pc = "refresh" /\ pc' = "dump"
        /\ UNCHANGED <<clock, now, blacklist, exempt, v6_fds, since,
                       blocked_until>>
    BY <1>5 DEF Refresh
  <2> QED
    BY <1>b, <2>1
    DEF HasMap, Good, Goal, Awaited, Ahead, Running, Checked, Detecting, Starting
<1>6. CASE Dump
  <2>1. /\ pc = "dump" /\ pc' = "dump_v6"
        /\ curr_blacklist' = blacklist \cap V4
        /\ UNCHANGED <<clock, now, blacklist, exempt, v6_fds, since,
                       blocked_until>>
    BY <1>6, <1>0 DEF Dump, dump_map_u32
  <2>2. s \in V6 \/ s \in curr_blacklist'
    BY <2>1 DEF Ips
  <2> QED
    BY <1>b, <2>1, <2>2
    DEF HasMap, Good, Goal, Awaited, Ahead, Running, Checked, Detecting, Starting
<1>7. CASE DumpV6
  <2>1. /\ pc = "dump_v6" /\ pc' = "detect"
        /\ curr_blacklist' = curr_blacklist \cup DumpedBlacklistV6
        /\ todo' = Unknown(curr_blacklist')
        /\ UNCHANGED <<clock, now, blacklist, exempt, v6_fds, since,
                       blocked_until, allowlist_cache>>
    BY <1>7, <1>0 DEF DumpV6
  <2>2. Good
    BY <1>b, <2>1 DEF HasMap
  <2>3. CASE blocked_until[s] = NoTimer
    <3>1. s \notin allowlist_cache
      BY <1>0, <2>1 DEF CalmProcess
    <3>2. s \in curr_blacklist' => s \in todo'
      BY <2>1, <2>3, <3>1 DEF Unknown, Timed
    <3>3. s \in V6 => s \in curr_blacklist'
      BY <2>1 DEF dump_map_u32_v6, DumpedBlacklistV6, DumpedAllowlistV6, HasMap
    <3>4. CASE s \in todo'
      <4>1. Ahead(s)
        BY <2>1, <3>4 DEF Ahead, Unknown, dump_map_u32_v6, DumpedBlacklistV6, DumpedAllowlistV6
      <4> QED
        BY <2>1, <2>2, <2>3, <3>4, <4>1
        DEF Good, Goal, Awaited, Ahead, Detecting, Starting
    <3>5. CASE s \notin todo'
      <4>1. ~ Ahead(s)
        BY <2>1, <3>2, <3>3, <3>5 DEF Ahead, Detecting
      <4> QED
        BY <2>1, <2>2, <2>3, <3>5, <4>1
        DEF Good, Goal, Awaited, Ahead, Detecting, Starting
    <3> QED
      BY <3>4, <3>5
  <2>4. CASE blocked_until[s] # NoTimer
    BY <2>1, <2>2, <2>4
    DEF Good, Goal, Running, Checked, Detecting, Unknown, Timed
  <2> QED
    BY <2>3, <2>4
<1>8. ASSUME NEW ip \in Ips, Detect(ip) PROVE Goal
  <2>1. /\ pc = "detect" /\ ip \in todo /\ pc' = "save_open"
        /\ after' = "detect"
        /\ todo' = todo \ {ip}
        /\ blocked_until' = [blocked_until EXCEPT ![ip] = now + cooldown_sec]
        /\ UNCHANGED <<clock, now, blacklist, exempt, v6_fds, since>>
    BY <1>8 DEF Detect, Deadline
  <2>2. Good
    BY <1>b, <2>1 DEF HasMap
  <2>3. CASE s = ip
    <3>1. blocked_until'[s] = now + cooldown_sec /\ blocked_until'[s] # NoTimer
      BY <1>a, <2>1, <2>3 DEF NoTimer
    <3>2. now <= since[s] + Notice
      <4>1. CASE blocked_until[s] = NoTimer
        BY <2>1, <2>2, <2>3, <4>1 DEF Good, Awaited, Ahead, Detecting
      <4>2. CASE blocked_until[s] # NoTimer
        BY <2>1, <2>2, <2>3, <4>2 DEF Good, Running, Detecting
      <4> QED
        BY <4>1, <4>2
    <3> QED
      BY <1>a, <2>1, <2>3, <3>1, <3>2 DEF Goal, Running, Checked, Detecting
  <2>4. CASE s # ip
    <3>1. blocked_until'[s] = blocked_until[s]
      BY <1>a, <2>1, <2>4
    <3> QED
      BY <2>1, <2>2, <2>4, <3>1
      DEF Good, Goal, Awaited, Ahead, Detecting, Running, Checked, Starting
  <2> QED
    BY <2>3, <2>4
<1>9. CASE Detected
  <2>1. /\ pc = "detect" /\ todo = {} /\ pc' \in {"sleep", "expire"}
        /\ pc' = "expire" => todo' = Expired
        /\ pc' = "sleep" => Expired = {}
        /\ UNCHANGED <<clock, now, blacklist, exempt, v6_fds, since,
                       blocked_until>>
    BY <1>9 DEF Detected, FallAsleep
  <2>2. Good
    BY <1>b, <2>1 DEF HasMap
  <2>3. CASE blocked_until[s] = NoTimer
    BY <2>1, <2>2, <2>3 DEF Good, Goal, Awaited, Ahead, Detecting, Starting
  <2>4. CASE blocked_until[s] # NoTimer
    <3>1. s \notin Expired => now < blocked_until[s]
      BY <1>a, <2>4 DEF Expired, Timed
    <3> QED
      BY <2>1, <2>2, <2>4, <3>1 DEF Good, Goal, Running, Checked, Detecting
  <2> QED
    BY <2>3, <2>4
<1>10. ASSUME NEW ip \in Ips, Expire(ip) PROVE Goal
  <2>1. /\ pc = "expire" /\ pc' = "expire" /\ ip \in todo
        /\ todo' = todo \ {ip}
        /\ blocked_until' = [blocked_until EXCEPT ![ip] = NoTimer]
        /\ \/ blacklist' = blacklist \ {ip}
           \/ (~ HasMap(ip) \/ ip \notin blacklist) /\ UNCHANGED blacklist
        /\ UNCHANGED <<clock, now, exempt, v6_fds, since>>
    BY <1>10, <1>0 DEF Expire, del_map_u32
  <2>2. s # ip
    BY <2>1 DEF HasMap
  <2>3. Good
    BY <1>b, <2>1 DEF HasMap
  <2>4. blocked_until'[s] = blocked_until[s]
    BY <1>a, <2>1, <2>2
  <2> QED
    BY <2>1, <2>2, <2>3, <2>4
    DEF Good, Goal, Awaited, Ahead, Detecting, Running, Checked, Starting
<1>11. CASE AllExpired
  <2>1. /\ pc = "expire" /\ todo = {} /\ pc' = "save_open" /\ after' = "sleep"
        /\ UNCHANGED <<clock, now, blacklist, exempt, v6_fds, since,
                       blocked_until>>
    BY <1>11 DEF AllExpired
  <2> QED
    BY <1>b, <2>1
    DEF HasMap, Good, Goal, Awaited, Ahead, Running, Checked, Detecting, Starting
<1>12. CASE SaveOpen
  <2>1. /\ pc = "save_open" /\ pc' = "save_write"
        /\ UNCHANGED <<clock, now, blacklist, exempt, v6_fds, since,
                       blocked_until, todo, after>>
    BY <1>12, <1>0 DEF SaveOpen
  <2> QED
    BY <1>b, <2>1
    DEF HasMap, Good, Goal, Awaited, Ahead, Running, Checked, Detecting, Starting
<1>13. CASE SaveWrite
  <2>1. /\ pc = "save_write"
        /\ \/ after = "detect" /\ pc' = "detect"
           \/ after = "sleep" /\ pc' = "sleep"
        /\ UNCHANGED <<clock, now, blacklist, exempt, v6_fds, since,
                       blocked_until, todo, after>>
    BY <1>13, <1>0 DEF SaveWrite, Return, FallAsleep
  <2> QED
    BY <1>b, <2>1
    DEF HasMap, Good, Goal, Awaited, Ahead, Running, Checked, Detecting, Starting
<1>14. CASE Wake
  <2>1. /\ pc = "sleep" /\ pc' = "loop"
        /\ UNCHANGED <<clock, now, blacklist, exempt, v6_fds, since,
                       blocked_until, todo, after>>
    BY <1>14 DEF Wake
  <2> QED
    BY <1>b, <2>1
    DEF HasMap, Good, Goal, Awaited, Ahead, Running, Checked, Detecting, Starting
<1>15. CASE Tick
  <2>1. /\ (pc # "sleep" /\ pc # "stopped") => clock - now < MaxLag
        /\ clock' = clock + 1
        /\ UNCHANGED <<pc, now, blacklist, exempt, v6_fds, since, blocked_until,
                       todo, after, curr_blacklist>>
    BY <1>15 DEF Tick
  <2>2. Good
    BY <1>b, <2>1 DEF HasMap
  <2>3. clock' <= now + MaxLag \/ pc # "loop"
    BY <1>0, <1>a, <2>1 DEF CalmProcess
  <2> QED
    BY <2>1, <2>2, <2>3
    DEF Good, Goal, Awaited, Ahead, Running, Checked, Detecting, Starting
<1>16. ASSUME NEW ip \in Ips, AutoBlock(ip) PROVE Goal
  <2>1. /\ ip \notin blacklist
        /\ blacklist' = blacklist \cup {ip}
        /\ since' = [since EXCEPT ![ip] = clock]
        /\ UNCHANGED <<clock, now, exempt, v6_fds, blocked_until, todo, after,
                       curr_blacklist, pc>>
    BY <1>16 DEF AutoBlock
  <2>2. CASE s = ip
    <3>1. blocked_until'[s] = NoTimer
      BY <1>0, <2>1, <2>2 DEF Kept, Covers
    <3>2. since'[s] = clock
      BY <1>0, <2>1, <2>2 DEF TypeOK
    <3>3. now <= since'[s] /\ now <= since'[s] + Notice
      BY <1>a, <3>2
    <3> QED
      BY <2>1, <3>1, <3>3 DEF Goal, Awaited
  <2>3. CASE s # ip
    <3>1. since'[s] = since[s] /\ s \in blacklist
      BY <1>0, <2>1, <2>3 DEF TypeOK
    <3> QED
      BY <1>b, <2>1, <3>1
      DEF HasMap, Good, Goal, Awaited, Ahead, Running, Checked, Detecting,
          Starting
  <2> QED
    BY <2>2, <2>3
<1>17. ASSUME NEW ip \in Ips, AllowlistAdd(ip) \/ AllowlistRemove(ip)
       PROVE  Goal
  BY <1>17, <1>c DEF AllowlistAdd, AllowlistRemove
<1>18. CASE UNCHANGED vars
  BY <1>18, <1>c DEF vars
<1>19. CASE OpenFails
  BY <1>19, <1>0 DEF OpenFails, Startable
<1> QED
  BY <1>0, <1>1, <1>2, <1>3, <1>4, <1>5, <1>6, <1>7, <1>8, <1>9, <1>10, <1>11,
     <1>12, <1>13, <1>14, <1>15, <1>16, <1>17, <1>18, <1>19
  DEF Next, Work, Kernel, Operator

\* The deadlines of the loop bound the age of every block.
LEMMA CalmBound ==
  ASSUME cooldown_sec + Period > 0, TimeInv, PromiseInv, CalmInv
  PROVE  BlockEndsInTime
<1> SUFFICES ASSUME count = [faults |-> 0, crashes |-> 0, stops |-> 0,
                             reboots |-> 0],
                    NEW s \in blacklist \ exempt, HasMap(s)
             PROVE  clock - since[s]
                      < Notice + cooldown_sec + Period + MaxLag
  BY DEF BlockEndsInTime, Period
<1>1. /\ s \in Ips /\ CalmProcess
      /\ IF blocked_until[s] = NoTimer THEN Awaited(s) ELSE Running(s)
  BY DEF TimeInv, TypeOK, Calm, Undisturbed, CalmInv, Ending
<1>2. /\ clock \in Int /\ now \in Nat /\ since[s] \in Nat
      /\ MaxLag \in Nat /\ poll_interval \in Nat /\ cooldown_sec \in Nat
      /\ now <= clock /\ clock <= now + Period
      /\ Period \in Nat /\ Period >= MaxLag
      /\ Notice \in Nat /\ Notice >= Period /\ Notice >= 2 * MaxLag
      /\ cooldown_sec + Period > 0
      /\ Period > 0 => Notice > 0
      /\ blocked_until[s] \in Int
  BY <1>1, BrainAssumption
  DEF TimeInv, TypeOK, NowPast, CalmProcess, Period, Notice, Timers, NoTimer
<1>3. pc \in Looping => clock <= now + MaxLag
  BY <1>2 DEF TimeInv, Recent
<1>4. pc \in Looping \cup {"off", "restore", "loop", "sleep"}
  BY <1>1 DEF CalmProcess, TimeInv, TypeOK, Labels, Dead, Looping
<1>5. CASE Starting
  BY <1>1, <1>2, <1>5 DEF CalmProcess, Starting
<1>6. CASE ~ Starting /\ blocked_until[s] = NoTimer
  BY <1>1, <1>2, <1>3, <1>4, <1>6 DEF Awaited, Starting, Ahead, Detecting, Looping
<1>7. CASE ~ Starting /\ blocked_until[s] # NoTimer
  BY <1>1, <1>2, <1>3, <1>4, <1>7 DEF Running, Starting, Checked, Looping
<1> QED
  BY <1>5, <1>6, <1>7

\* Nobody is blocked for good: while nothing fails a block ends within the time
\* monitor() takes to notice it, the cooldown, one period and the time of a
\* loop.  The bound is a strict one, so not all of the constants may be zero.
THEOREM BlocksEndInTime ==
  ASSUME cooldown_sec + (MaxLag + poll_interval) > 0
  PROVE  Spec => []BlockEndsInTime
<1>0. cooldown_sec + Period > 0
  BY DEF Period
<1>1. Init => PromiseInv /\ Synced /\ CalmInv
  <2> SUFFICES ASSUME Init PROVE PromiseInv /\ Synced /\ CalmInv
    OBVIOUS
  <2>1. PromiseInv /\ Synced
    BY DEF Init, Covers, Detecting, PromiseInv, Kept, Noticed, Dead, Parsed,
           NoTimers, Synced, Clean
  <2>2. CalmProcess
    BY BrainAssumption DEF Init, CalmProcess, Period, Starting, Parsed
  <2>3. \A ip \in Ips : Ending(ip)
    BY DEF Init, Ending
  <2> QED
    BY <2>1, <2>2, <2>3 DEF CalmInv
<1>2. TypeOK' /\ TimeInv /\ PromiseInv /\ CalmInv /\ [Next]_vars => CalmInv'
  BY <1>0, CalmStep
<1>3. TimeInv /\ PromiseInv /\ CalmInv => BlockEndsInTime
  BY <1>0, CalmBound
<1> QED
  BY <1>1, <1>2, <1>3, PromiseStep, SyncedStep, TimeInvariant, TypeCorrect, PTL
  DEF Spec

=============================================================================
