-------------------------------- MODULE Brain --------------------------------
(***************************************************************************)
(* The control loop of fluxguard_brain.py: the process that turns the      *)
(* entries the XDP program leaves in the blacklist maps into timed blocks, *)
(* deletes them when their time is over and keeps the timers in a          *)
(* checkpoint file.                                                        *)
(*                                                                         *)
(* Each system call that touches a map or the file is a step of its own,   *)
(* and so is each change of blocked_until; between any two steps the       *)
(* kernel may block a source, an operator may edit the allowlist, time may *)
(* pass, a system call may fail, and the process may be told to stop, die  *)
(* (an exception of write_json_log() ends it, too) or lose its machine.    *)
(*                                                                         *)
(* now is the loop's variable.  It is read from the clock once, at the top *)
(* of the loop, and used until the loop goes to sleep.                     *)
(***************************************************************************)
EXTENDS Integers

CONSTANTS
  V4, V6,                 \* source addresses, by family
  V6Opens,                \* how many IPv6 maps a starting process may open
  cooldown_sec,           \* --cooldown-sec
  allowlist_refresh_sec,  \* --allowlist-refresh-sec
  poll_interval,          \* --poll-interval: how long the loop sleeps
  MaxLag,     \* bound on the time a loop works before it sleeps, and on the
              \* time systemd takes to start a process that died
  MaxClock,   \* bound on the clock
  Horizon,    \* bound on the time of the kernel's and the operator's actions,
              \* of failures and of a stopped process
  MaxFaults,  \* bound on failing system calls
  MaxCrashes, \* bound on the deaths of the process
  MaxStops,   \* bound on the orders to stop
  MaxReboots  \* bound on reboots

Ips == V4 \cup V6

ASSUME BrainAssumption ==
  /\ V4 \cap V6 = {}
  /\ V6Opens \subseteq 0 .. 3
  /\ cooldown_sec \in Nat
  /\ allowlist_refresh_sec \in Nat
  /\ poll_interval \in Nat
  /\ MaxLag \in Nat
  /\ MaxClock \in Nat
  /\ Horizon \in Nat
  /\ MaxFaults \in Nat
  /\ MaxCrashes \in Nat
  /\ MaxStops \in Nat
  /\ MaxReboots \in Nat

VARIABLES
  clock,            \* time.monotonic()
  blacklist,        \* blacklist_map and blacklist_map_v6
  allowlist,        \* allowlist_map and allowlist_map_v6
  pc,               \* where the process is
  shutdown,         \* shutdown_event
  v6_fds,           \* how many IPv6 maps the process has opened
  now,              \* the loop's time; of a dead process, when it died
  allowlist_cache,  \* the loop's copy of the allowlist ...
  allowlist_ts,     \* ... and when it was made
  curr_blacklist,   \* the loop's copy of the blacklist
  todo,             \* what is left of the for loop the process is in
  after,            \* where save_checkpoint() returns to
  blocked_until,    \* the timers, NoTimer where there is none
  wake,             \* when the sleep ends
  file,             \* the checkpoint: its timers, and whether it can be parsed
  count,            \* how many faults, crashes, stops and reboots there were
  since,            \* history: when the kernel last blocked the source
  saved,            \* history: the last attempt to save succeeded
  lifted,           \* history: sources that were unblocked before
  exempt            \* history: sources that were ever allowlisted

environment == <<clock, blacklist, allowlist, since, lifted, exempt>>
cache == <<v6_fds, allowlist_cache, allowlist_ts>>
memory == <<cache, curr_blacklist, todo, after, blocked_until, wake>>
process == <<pc, shutdown, now, memory>>
disk == <<file, saved>>
vars == <<environment, process, disk, count>>

NoTimer == -1
NoTimers == [ip \in Ips |-> NoTimer]
Timed(timers) == {ip \in Ips : timers[ip] # NoTimer}

Dead == {"off", "stopped"}

Labels == Dead \cup {"restore", "loop", "refresh", "dump", "dump_v6", "detect",
                     "expire", "save_open", "save_write", "sleep"}

Timers == [Ips -> Nat \cup {NoTimer}]

TypeOK ==
  /\ clock \in Nat
  /\ blacklist \subseteq Ips
  /\ allowlist \subseteq Ips
  /\ pc \in Labels
  /\ shutdown \in BOOLEAN
  /\ v6_fds \in 0 .. 3
  /\ now \in Nat
  /\ allowlist_cache \subseteq Ips
  /\ allowlist_ts \in Nat
  /\ curr_blacklist \subseteq Ips
  /\ todo \subseteq Ips
  /\ after \in {"detect", "sleep"}
  /\ blocked_until \in Timers
  /\ wake \in Nat
  /\ file \in [valid : BOOLEAN, timers : Timers]
  /\ count \in [faults : Nat, crashes : Nat, stops : Nat, reboots : Nat]
  /\ since \in [Ips -> Nat]
  /\ saved \in BOOLEAN
  /\ lifted \subseteq Ips
  /\ exempt \subseteq Ips

\* The first start of the service: no checkpoint yet, which load_checkpoint()
\* takes for an empty one.
Init ==
  /\ clock = 0
  /\ blacklist = {}
  /\ allowlist = {}
  /\ pc = "off"
  /\ shutdown = FALSE
  /\ v6_fds = 0
  /\ now = 0
  /\ allowlist_cache = {}
  /\ allowlist_ts = 0
  /\ curr_blacklist = {}
  /\ todo = {}
  /\ after = "detect"
  /\ blocked_until = NoTimers
  /\ wake = 0
  /\ file = [valid |-> TRUE, timers |-> NoTimers]
  /\ count = [faults |-> 0, crashes |-> 0, stops |-> 0, reboots |-> 0]
  /\ since = [ip \in Ips |-> 0]
  /\ saved = TRUE
  /\ lifted = {}
  /\ exempt = {}

-----------------------------------------------------------------------------
(* System calls.                                                           *)

Succeeds == UNCHANGED count

\* An OSError.
Fails ==
  /\ clock <= Horizon
  /\ count.faults < MaxFaults
  /\ count' = [count EXCEPT !.faults = @ + 1]

\* The IPv6 maps are opened in this order until an open fails: meter_map_v6,
\* blacklist_map_v6, allowlist_map_v6.
HasMap(ip) == ip \in V4 \/ v6_fds >= 2

HasAllowlist(ip) == ip \in V4 \/ v6_fds = 3

\* The keys of a map.  Nobody but the loop deletes blacklist entries, and it
\* looks at every source on its own, so the moments at which a dump meets the
\* single entries may be taken for one.
dump_map_u32(map) == map \cap V4

dump_map_u32_v6(map) == map \cap V6

DumpedBlacklistV6 == {ip \in dump_map_u32_v6(blacklist) : HasMap(ip)}
DumpedAllowlistV6 == {ip \in dump_map_u32_v6(allowlist) : HasAllowlist(ip)}

\* Only the first call of a dump raises its error: one that fails later skips
\* an entry or ends the dump, and the caller takes what there is for all.
Incomplete(dumped) == SUBSET dumped

set_map_u32(ip) == blacklist' = blacklist \cup {ip}

del_map_u32(ip) ==
  /\ blacklist' = blacklist \ {ip}
  /\ lifted' = lifted \cup {ip}

-----------------------------------------------------------------------------
(* Starting up.                                                            *)

\* load_checkpoint(): whatever cannot be parsed counts as empty.
Parsed == IF file.valid THEN file.timers ELSE NoTimers

\* Mutant: an unreadable checkpoint is fatal.
StartableIfValid == pc \in Dead /\ file.valid

Startable == pc \in Dead

Start ==
  /\ Startable
  /\ pc' = "restore"
  /\ v6_fds' \in V6Opens
  /\ now' = clock
  /\ blocked_until' = Parsed
  /\ todo' = Timed(Parsed)
  /\ allowlist_cache' = {}
  /\ allowlist_ts' = 0
  /\ UNCHANGED <<environment, shutdown, curr_blacklist, after, wake, disk,
                 count>>

\* Without the IPv4 maps the process exits, before it has read the checkpoint.
OpenFails ==
  /\ Startable
  /\ Fails
  /\ pc' = "off"
  /\ now' = clock
  /\ UNCHANGED <<environment, shutdown, memory, disk>>

\* The blocks of the checkpoint go back to the kernel; errors are ignored.  A
\* block that was lifted is resumed, so it keeps the time it began.
Restore(ip) ==
  /\ pc = "restore"
  /\ ip \in todo
  /\ todo' = todo \ {ip}
  /\ \/ /\ HasMap(ip)
        /\ Succeeds
        /\ set_map_u32(ip)
     \/ /\ HasMap(ip)
        /\ Fails
        /\ UNCHANGED blacklist
     \/ /\ ~ HasMap(ip)
        /\ Succeeds
        /\ UNCHANGED blacklist
  /\ UNCHANGED <<clock, allowlist, since, lifted, exempt, pc, shutdown, now,
                 cache, curr_blacklist, after, blocked_until, wake, disk>>

Restored ==
  /\ pc = "restore"
  /\ todo = {}
  /\ pc' = "loop"
  /\ UNCHANGED <<environment, shutdown, now, memory, disk, count>>

-----------------------------------------------------------------------------
(* The loop.                                                               *)

Loop ==
  /\ pc = "loop"
  /\ IF shutdown
     THEN /\ pc' = "stopped"
          /\ shutdown' = FALSE
          /\ now' = clock
          /\ v6_fds' = 0
          /\ allowlist_cache' = {}
          /\ allowlist_ts' = 0
          /\ blocked_until' = NoTimers
     ELSE /\ now' = clock
          /\ pc' = IF clock - allowlist_ts >= allowlist_refresh_sec
                   THEN "refresh" ELSE "dump"
          /\ UNCHANGED <<shutdown, v6_fds, allowlist_cache, allowlist_ts,
                         blocked_until>>
  /\ curr_blacklist' = {}
  /\ UNCHANGED <<environment, todo, after, wake, disk, count>>

\* The IPv4 half of the cache is replaced even if the IPv6 dump fails.
Refresh ==
  /\ pc = "refresh"
  /\ pc' = "dump"
  /\ \/ /\ Succeeds
        /\ allowlist_cache' = dump_map_u32(allowlist)
                                \cup DumpedAllowlistV6
        /\ allowlist_ts' = now
     \/ /\ Fails
        /\ \/ UNCHANGED allowlist_cache
           \/ /\ v6_fds = 3
              /\ allowlist_cache' = dump_map_u32(allowlist)
                                      \cup (allowlist_cache \cap V6)
        /\ UNCHANGED allowlist_ts
     \/ /\ Fails
        /\ \/ \E part \in Incomplete(dump_map_u32(allowlist)) :
                allowlist_cache' = part \cup DumpedAllowlistV6
           \/ \E part \in Incomplete(DumpedAllowlistV6) :
                allowlist_cache' = dump_map_u32(allowlist) \cup part
        /\ allowlist_ts' = now
  /\ UNCHANGED <<environment, shutdown, now, v6_fds, curr_blacklist, todo,
                 after, blocked_until, wake, disk>>

\* The loop acts on the sources that have neither a timer nor a place in its
\* copy of the allowlist.
Unknown(dumped) == (dumped \ Timed(blocked_until)) \ allowlist_cache

\* One try block around all dumps: the first that fails skips the others.
Dump ==
  /\ pc = "dump"
  /\ \/ /\ Succeeds
        /\ pc' = "dump_v6"
        /\ curr_blacklist' = dump_map_u32(blacklist)
        /\ UNCHANGED todo
     \/ /\ Fails
        /\ pc' = "dump_v6"
        /\ curr_blacklist' \in Incomplete(dump_map_u32(blacklist))
        /\ UNCHANGED todo
     \/ /\ Fails
        /\ pc' = "detect"
        /\ todo' = {}
        /\ UNCHANGED curr_blacklist
  /\ UNCHANGED <<environment, shutdown, now, cache, after, blocked_until,
                 wake, disk>>

DumpV6 ==
  /\ pc = "dump_v6"
  /\ pc' = "detect"
  /\ \/ /\ Succeeds
        /\ curr_blacklist' = curr_blacklist \cup DumpedBlacklistV6
     \/ /\ Fails
        /\ \E part \in Incomplete(DumpedBlacklistV6) :
             curr_blacklist' = curr_blacklist \cup part
  /\ todo' = Unknown(curr_blacklist')
  /\ UNCHANGED <<environment, shutdown, now, cache, after, blocked_until,
                 wake, disk>>

\* Mutants: the cooldown is subtracted, begins with the next loop, and begins
\* with the last refresh of the allowlist.
DeadlineSign == now - cooldown_sec
DeadlineLate == now + poll_interval + cooldown_sec
DeadlineStale == allowlist_ts + cooldown_sec

Deadline == now + cooldown_sec

\* The IPv4 sources are handled before the IPv6 ones.
Detect(ip) ==
  /\ pc = "detect"
  /\ ip \in todo
  /\ ip \in V6 => todo \cap V4 = {}
  /\ todo' = todo \ {ip}
  /\ blocked_until' = [blocked_until EXCEPT ![ip] = Deadline]
  /\ pc' = "save_open"
  /\ after' = "detect"
  /\ UNCHANGED <<environment, shutdown, now, cache, curr_blacklist, wake,
                 disk, count>>

\* Mutant: timers that end now do not count as expired.
ExpiredStrict == {ip \in Timed(blocked_until) : now > blocked_until[ip]}

Expired == {ip \in Timed(blocked_until) : now >= blocked_until[ip]}

FallAsleep ==
  /\ pc' = "sleep"
  /\ wake' = clock + poll_interval

Detected ==
  /\ pc = "detect"
  /\ todo = {}
  /\ IF Expired = {}
     THEN FallAsleep /\ UNCHANGED todo
     ELSE pc' = "expire" /\ todo' = Expired /\ UNCHANGED wake
  /\ UNCHANGED <<environment, shutdown, now, cache, curr_blacklist, after,
                 blocked_until, disk, count>>

\* The timer goes whether the entry could be deleted or not (ENOENT if there
\* is none); an IPv6 timer goes without a delete when the maps are missing.
Expire(ip) ==
  /\ pc = "expire"
  /\ ip \in todo
  /\ todo' = todo \ {ip}
  /\ blocked_until' = [blocked_until EXCEPT ![ip] = NoTimer]
  /\ \/ /\ HasMap(ip) /\ ip \in blacklist
        /\ Succeeds
        /\ del_map_u32(ip)
     \/ /\ HasMap(ip) /\ ip \in blacklist
        /\ Fails
        /\ UNCHANGED <<blacklist, lifted>>
     \/ /\ ~ HasMap(ip) \/ ip \notin blacklist
        /\ Succeeds
        /\ UNCHANGED <<blacklist, lifted>>
  /\ UNCHANGED <<clock, allowlist, since, exempt, pc, shutdown, now,
                 cache, curr_blacklist, after, wake, disk>>

\* Mutant: only new blocks are saved.
AllExpiredUnsaved ==
  /\ pc = "expire"
  /\ todo = {}
  /\ FallAsleep
  /\ UNCHANGED <<environment, shutdown, now, cache, curr_blacklist, todo,
                 after, blocked_until, disk, count>>

AllExpired ==
  /\ pc = "expire"
  /\ todo = {}
  /\ pc' = "save_open"
  /\ after' = "sleep"
  /\ UNCHANGED <<environment, shutdown, now, cache, curr_blacklist, todo,
                 blocked_until, wake, disk, count>>

-----------------------------------------------------------------------------
(* save_checkpoint(): exceptions are reported on stderr and forgotten.     *)

Return ==
  \/ after = "detect" /\ pc' = "detect" /\ UNCHANGED wake
  \/ after = "sleep" /\ FallAsleep

\* open(..., "w") empties the file ...
SaveOpen ==
  /\ pc = "save_open"
  /\ \/ /\ Succeeds
        /\ file' = [valid |-> FALSE, timers |-> NoTimers]
        /\ pc' = "save_write"
        /\ UNCHANGED <<saved, wake>>
     \/ /\ Fails
        /\ saved' = FALSE
        /\ Return
        /\ UNCHANGED file
  /\ UNCHANGED <<environment, shutdown, now, cache, curr_blacklist, todo,
                 after, blocked_until>>

\* ... and its new content arrives when it is flushed and closed.
SaveWrite ==
  /\ pc = "save_write"
  /\ \/ /\ Succeeds
        /\ file' = [valid |-> TRUE, timers |-> blocked_until]
        /\ saved' = TRUE
     \/ /\ Fails
        /\ saved' = FALSE
        /\ UNCHANGED file
  /\ Return
  /\ UNCHANGED <<environment, shutdown, now, cache, curr_blacklist, todo,
                 after, blocked_until>>

\* The sleep ends early when the process is told to stop, and at the bound of
\* the clock.
Wake ==
  /\ pc = "sleep"
  /\ clock >= wake \/ shutdown \/ clock = MaxClock
  /\ pc' = "loop"
  /\ UNCHANGED <<environment, shutdown, now, memory, disk, count>>

-----------------------------------------------------------------------------
(* What happens around the process.                                        *)

Tick ==
  /\ clock < MaxClock
  /\ CASE pc = "sleep"   -> clock < wake
       [] pc = "stopped" -> clock <= Horizon
       [] OTHER          -> clock - now < MaxLag
  /\ clock' = clock + 1
  /\ UNCHANGED <<blacklist, allowlist, since, lifted, exempt, process, disk,
                 count>>

\* The XDP program found the source's bucket exhausted (AutoBlock of XdpFilter).
AutoBlock(ip) ==
  /\ clock <= Horizon
  /\ ip \notin blacklist
  /\ ip \notin allowlist
  /\ blacklist' = blacklist \cup {ip}
  /\ since' = [since EXCEPT ![ip] = clock]
  /\ UNCHANGED <<clock, allowlist, lifted, exempt, process, disk, count>>

AllowlistAdd(ip) ==
  /\ clock <= Horizon
  /\ ip \notin allowlist
  /\ allowlist' = allowlist \cup {ip}
  /\ exempt' = exempt \cup {ip}
  /\ UNCHANGED <<clock, blacklist, since, lifted, process, disk, count>>

AllowlistRemove(ip) ==
  /\ clock <= Horizon
  /\ ip \in allowlist
  /\ allowlist' = allowlist \ {ip}
  /\ UNCHANGED <<clock, blacklist, since, lifted, exempt, process, disk, count>>

\* SIGTERM or SIGINT.
HandleSigterm ==
  /\ pc \notin Dead
  /\ ~ shutdown
  /\ count.stops < MaxStops
  /\ count' = [count EXCEPT !.stops = @ + 1]
  /\ shutdown' = TRUE
  /\ UNCHANGED <<environment, pc, now, memory, disk>>

MemoryLost ==
  /\ pc' = "off"
  /\ shutdown' = FALSE
  /\ v6_fds' = 0
  /\ allowlist_cache' = {}
  /\ allowlist_ts' = 0
  /\ curr_blacklist' = {}
  /\ todo' = {}
  /\ after' = "detect"
  /\ blocked_until' = NoTimers
  /\ wake' = 0

\* The process dies; the pinned maps and the file stay as they are.
Crash ==
  /\ pc \notin Dead
  /\ clock <= Horizon
  /\ count.crashes < MaxCrashes
  /\ count' = [count EXCEPT !.crashes = @ + 1]
  /\ now' = clock
  /\ MemoryLost
  /\ UNCHANGED <<environment, disk>>

\* The machine restarts: the maps are gone and the monotonic clock begins
\* again, but the file is still there.
Reboot ==
  /\ count.reboots < MaxReboots
  /\ count' = [count EXCEPT !.reboots = @ + 1]
  /\ clock' = 0
  /\ now' = 0
  /\ blacklist' = {}
  /\ allowlist' = {}
  /\ MemoryLost
  /\ UNCHANGED <<since, lifted, exempt, disk>>

-----------------------------------------------------------------------------

Work ==
  \/ Restored \/ Loop \/ Refresh \/ Dump \/ DumpV6 \/ Detected \/ AllExpired
  \/ SaveOpen \/ SaveWrite \/ Wake
  \/ \E ip \in Ips : Restore(ip) \/ Detect(ip) \/ Expire(ip)

Kernel == \E ip \in Ips : AutoBlock(ip)

Operator == HandleSigterm \/ \E ip \in Ips : AllowlistAdd(ip) \/ AllowlistRemove(ip)

Next == Start \/ OpenFails \/ Work \/ Tick \/ Kernel \/ Operator \/ Crash \/ Reboot

Spec == Init /\ [][Next]_vars

\* The process runs, systemd starts it again after it died (Restart=on-failure,
\* not after it was stopped), and time passes.
Fairness ==
  /\ WF_vars(Work)
  /\ WF_vars(pc = "off" /\ Start)
  /\ WF_vars(Tick)

FairSpec == Spec /\ Fairness

-----------------------------------------------------------------------------

\* Whenever the loop sleeps and the last save succeeded, a process that dies
\* now starts again with exactly the timers it had: no change of blocked_until
\* on any path of the loop escapes the checkpoint.
CheckpointMatchesMemory ==
  (pc = "sleep" /\ saved) => Parsed = blocked_until

\* No timer, in memory or on disk, lies further ahead than a whole cooldown,
\* through crashes, stops and failing saves.
NoTimerBeyondCooldown ==
  \A ip \in Ips : /\ blocked_until[ip] <= clock + cooldown_sec
                  /\ file.timers[ip] <= clock + cooldown_sec

\* How long a block waits for the loop that sees it: for the next loop or, when
\* the kernel blocks while the process starts, for the first one.
Notice == IF MaxLag > poll_interval THEN 2 * MaxLag ELSE MaxLag + poll_interval

\* While nothing fails and the process is neither stopped nor dies, a block of
\* a source that is not allowlisted ends in bounded time: it is seen within
\* Notice, its timer is found expired less than one period of the loop late,
\* and the delete comes within the same loop.
BlockEndsInTime ==
  (count = [faults |-> 0, crashes |-> 0, stops |-> 0, reboots |-> 0])
    => \A ip \in {i \in blacklist \ exempt : HasMap(i)} :
         clock - since[ip]
           < Notice + cooldown_sec + (MaxLag + poll_interval) + MaxLag

\* "Otherwise, blocked IPs would be blacklisted forever (no amnesty)"
\* (phase09-10-autoblacklist-ringbuf.md): every block ends, also after crashes
\* and failures, unless the brain stays stopped or the source is allowlisted.
Amnesty ==
  \A ip \in Ips :
    (ip \in blacklist /\ HasMap(ip))
      ~> (ip \notin blacklist \/ pc = "stopped" \/ ip \in allowlist)

\* The brain implements the promise: blocks last for the cooldown, less the lag
\* between the time a loop reads and the time it looks at the blacklist, unless
\* a failing call or a death of the process left the timer of an earlier block
\* of the source behind.
Lifecycle == INSTANCE BlockLifecycle WITH
  blocked   <- blacklist,
  lifted    <- IF count.reboots > 0 THEN Ips ELSE lifted,
  disturbed <- count.faults + count.crashes + count.reboots > 0,
  MIN_BLOCK <- cooldown_sec - MaxLag

KeepsPromise == Lifecycle!Spec

=============================================================================
