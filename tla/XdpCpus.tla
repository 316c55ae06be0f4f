------------------------------- MODULE XdpCpus -------------------------------
(***************************************************************************)
(* fluxguard_filter() on several CPUs at once.  Receive queues are served  *)
(* by different CPUs, the maps are shared, and the buckets are read and    *)
(* written by plain loads and stores: what XdpFilter takes for one step is *)
(* here one step per access to shared memory.                              *)
(*                                                                         *)
(* The frames are packets of sources of one family, neither allowlisted    *)
(* nor sent with a filtered protocol.  The per-CPU counter and the         *)
(* atomically incremented meter are left out: nothing in the program reads *)
(* them.                                                                   *)
(*                                                                         *)
(* rate_map is an LRU hash of preallocated elements.  A lookup returns a   *)
(* pointer to the element, and the program goes on using it whatever       *)
(* becomes of the element: it may be replaced by another one, or taken     *)
(* away and given to another source.  The map itself is the kernel's       *)
(* (external); an update takes an element, fills it and links it.          *)
(*                                                                         *)
(* The compiler keeps a bucket's token count in a register from its load   *)
(* to its only store, so the verdict is about the value the CPU computed.  *)
(***************************************************************************)
EXTENDS TokenBucket, FiniteSets

CONSTANTS
  Cpus,       \* CPUs that serve a receive queue
  Sources,    \* source addresses
  Elements,   \* elements of rate_map
  MaxFrames,  \* bound on the frames received
  MaxClock    \* bound on the clock

ASSUME CpuAssumption ==
  /\ IsFiniteSet(Cpus)
  /\ Sources # {}
  /\ MaxFrames \in Nat
  /\ MaxClock \in Nat
  /\ MaxClock < WORD

VARIABLES
  clock,    \* bpf_ktime_get_ns()
  gtb,      \* global_rate_map
  bucket,   \* the buckets in the elements of rate_map
  entry,    \* the elements a source finds in rate_map: one or none
  blocked,  \* blacklist_map
  cpu,      \* where a CPU is in the program, and its registers
  frames,   \* frames received so far
  charged,  \* history: packets charged to a bucket of the source
  leaked,   \* history: packets passed since the source was blocked
  events,   \* history: events emitted since the source was blocked
  mixed     \* history: sources that used an element together with another one

history == <<charged, leaked, events, mixed>>
vars == <<clock, gtb, bucket, entry, blocked, cpu, frames, history>>

Labels == {"idle", "g_time", "g_stamp", "g_load", "g_store", "blacklist",
           "rate", "insert", "fill", "link", "b_time", "b_stamp", "b_load",
           "b_store", "auto_block"}

\* src and now are read once, when the frame arrives; refill are the tokens
\* computed from the last_time that was read, tokens the count to be stored,
\* tb the element the CPU has a pointer to.
Frame == [at : Labels, src : Sources, now : Nat, refill : Nat, tokens : Int,
          tb : SUBSET Elements]

FrameAt(label, s, t) ==
  [at |-> label, src |-> s, now |-> t, refill |-> 0, tokens |-> 0, tb |-> {}]

\* No frame: what the registers hold is of no use to anyone.
Idle == FrameAt("idle", CHOOSE s \in Sources : TRUE, 0)

TypeOK ==
  /\ clock \in Nat
  /\ gtb \in Bucket
  /\ bucket \in [Elements -> Bucket]
  /\ entry \in [Sources -> SUBSET Elements]
  /\ blocked \in [Sources -> BOOLEAN]
  /\ cpu \in [Cpus -> Frame]
  /\ frames \in Nat
  /\ charged \in [Sources -> Nat]
  /\ leaked \in [Sources -> Nat]
  /\ events \in [Sources -> Nat]
  /\ mixed \subseteq Sources

Init ==
  /\ clock = 0
  /\ gtb = [last_time |-> 0, tokens |-> 0]
  /\ bucket = [e \in Elements |-> [last_time |-> 0, tokens |-> 0]]
  /\ entry = [s \in Sources |-> {}]
  /\ blocked = [s \in Sources |-> FALSE]
  /\ cpu = [c \in Cpus |-> Idle]
  /\ frames = 0
  /\ charged = [s \in Sources |-> 0]
  /\ leaked = [s \in Sources |-> 0]
  /\ events = [s \in Sources |-> 0]
  /\ mixed = {}

-----------------------------------------------------------------------------

At(c, label) == cpu[c].at = label

Goes(c, frame) == cpu' = [cpu EXCEPT ![c] = frame]

\* Its next step, the registers as they are.
Moves(c, label) == Goes(c, [cpu[c] EXCEPT !.at = label])

Leaves(c) == Goes(c, Idle)

\* What a CPU writes to gtb->tokens: the floor is part of the last store.
GlobalSpent(held) ==
  IF held - 1 < -GLOBAL_DEBT THEN -GLOBAL_DEBT ELSE held - 1

\* A token count after the refill a CPU computed from an earlier load.
Replenished(held, gained, cap) ==
  IF gained > 0 THEN AtMost(held + gained, cap) ELSE held

maps == <<bucket, entry, blocked>>

\* A frame without a whole Ethernet header leaves no trace.
RuntFrame(c) == At(c, "idle") /\ UNCHANGED vars

Receive(c) ==
  /\ At(c, "idle")
  /\ frames < MaxFrames
  /\ \E s \in Sources : Goes(c, FrameAt("g_time", s, clock))
  /\ frames' = frames + 1
  /\ UNCHANGED <<clock, gtb, maps, history>>

\* The aggregate bucket: last_time is loaded, and stored if a refill is due ...
GlobalTime(c) ==
  LET elapsed == Elapsed(gtb, cpu[c].now)
  IN  /\ At(c, "g_time")
      /\ IF elapsed > GLOBAL_REFILL_NS
         THEN Goes(c, [cpu[c] EXCEPT
                         !.at = "g_stamp",
                         !.refill = Refill(elapsed, GLOBAL_PPS_LIMIT)])
         ELSE Moves(c, "g_load")
      /\ UNCHANGED <<clock, gtb, maps, frames, history>>

GlobalStamp(c) ==
  /\ At(c, "g_stamp")
  /\ Moves(c, "g_load")
  /\ gtb' = [gtb EXCEPT !.last_time = cpu[c].now]
  /\ UNCHANGED <<clock, maps, frames, history>>

\* ... and the count is loaded and stored.
GlobalLoad(c) ==
  /\ At(c, "g_load")
  /\ Goes(c, [cpu[c] EXCEPT
                !.at = "g_store",
                !.tokens = GlobalSpent(Replenished(gtb.tokens, cpu[c].refill,
                                                   GLOBAL_PPS_LIMIT))])
  /\ UNCHANGED <<clock, gtb, maps, frames, history>>

GlobalStore(c) ==
  /\ At(c, "g_store")
  /\ gtb' = [gtb EXCEPT !.tokens = cpu[c].tokens]
  /\ IF cpu[c].tokens < 0
     THEN Leaves(c)
     ELSE Goes(c, FrameAt("blacklist", cpu[c].src, cpu[c].now))
  /\ UNCHANGED <<clock, maps, frames, history>>

-----------------------------------------------------------------------------

\* Mutant: the blacklist is not consulted.
BlacklistIgnored(c) ==
  /\ At(c, "blacklist")
  /\ Moves(c, "rate")
  /\ UNCHANGED <<clock, gtb, maps, frames, history>>

BlacklistLookup(c) ==
  /\ At(c, "blacklist")
  /\ IF blocked[cpu[c].src] THEN Leaves(c) ELSE Moves(c, "rate")
  /\ UNCHANGED <<clock, gtb, maps, frames, history>>

\* tb: the element the source has now, or NULL.
RateLookup(c) ==
  LET found == entry[cpu[c].src]
  IN  /\ At(c, "rate")
      /\ Goes(c, [cpu[c] EXCEPT
                    !.at = IF found = {} THEN "insert" ELSE "b_time",
                    !.tb = found])
      /\ UNCHANGED <<clock, gtb, maps, frames, history>>

Charge(c) == charged' = [charged EXCEPT ![cpu[c].src] = @ + 1]

Passes(c) ==
  leaked' = [leaked EXCEPT ![cpu[c].src] =
               IF blocked[cpu[c].src] THEN @ + 1 ELSE 0]

Holds(c, e) == e \in cpu[c].tb

\* Taken for an update and not linked yet.
Reserved(e) == \E c \in Cpus : Holds(c, e) /\ cpu[c].at \in {"fill", "link"}

\* The other sources on whose behalf a CPU has a pointer to e.
Intruded(e, s) == {cpu[c].src : c \in {h \in Cpus : Holds(h, e)}} \ {s}

\* bpf_map_update_elem() first takes an element: a free one, or one of any
\* source, which loses its entry.  CPUs with a pointer to it keep the pointer.
InsertTakes(c) ==
  /\ At(c, "insert")
  /\ \E e \in Elements :
       LET others == Intruded(e, cpu[c].src)
       IN  /\ ~ Reserved(e)
           /\ entry' = [s \in Sources |-> entry[s] \ {e}]
           /\ Goes(c, [cpu[c] EXCEPT !.at = "fill", !.tb = {e}])
           /\ mixed' = IF others = {} THEN mixed
                       ELSE mixed \cup others \cup {cpu[c].src}
  /\ UNCHANGED <<clock, gtb, bucket, blocked, frames, charged, leaked, events>>

\* There is none the CPU can take, which depends on the kernel's lists: the
\* result of the update is not looked at.
InsertFails(c) ==
  /\ At(c, "insert")
  /\ Leaves(c)
  /\ Passes(c)
  /\ UNCHANGED <<clock, gtb, maps, frames, charged, events, mixed>>

\* The bucket is copied into the element ...
InsertFills(c) ==
  /\ At(c, "fill")
  /\ Moves(c, "link")
  /\ bucket' = [e \in Elements |->
                  IF Holds(c, e) THEN FreshBucket(cpu[c].now) ELSE bucket[e]]
  /\ Charge(c)
  /\ UNCHANGED <<clock, gtb, entry, blocked, frames, leaked, events, mixed>>

\* ... which replaces the one another CPU has inserted since the lookup.
InsertLinks(c) ==
  /\ At(c, "link")
  /\ Leaves(c)
  /\ entry' = [entry EXCEPT ![cpu[c].src] = cpu[c].tb]
  /\ Passes(c)
  /\ UNCHANGED <<clock, gtb, bucket, blocked, frames, charged, events, mixed>>

\* token_bucket_check(), access by access, all through the pointer.
BucketTime(c) ==
  /\ At(c, "b_time")
  /\ \E e \in cpu[c].tb :
       LET gained == Refill(Elapsed(bucket[e], cpu[c].now), KERN_PPS_LIMIT)
       IN  Goes(c, [cpu[c] EXCEPT
                      !.at = IF gained > 0 THEN "b_stamp" ELSE "b_load",
                      !.refill = gained])
  /\ UNCHANGED <<clock, gtb, maps, frames, history>>

BucketStamp(c) ==
  /\ At(c, "b_stamp")
  /\ Moves(c, "b_load")
  /\ \E e \in cpu[c].tb : bucket' = [bucket EXCEPT ![e].last_time = cpu[c].now]
  /\ UNCHANGED <<clock, gtb, entry, blocked, frames, history>>

\* Mutant: a packet is charged twice.
BucketLoadTwice(c) ==
  /\ At(c, "b_load")
  /\ \E e \in cpu[c].tb :
       Goes(c, [cpu[c] EXCEPT
                  !.at = "b_store",
                  !.tokens = Replenished(bucket[e].tokens, cpu[c].refill,
                                         KERN_PPS_LIMIT) - 2])
  /\ UNCHANGED <<clock, gtb, maps, frames, history>>

BucketLoad(c) ==
  /\ At(c, "b_load")
  /\ \E e \in cpu[c].tb :
       Goes(c, [cpu[c] EXCEPT
                  !.at = "b_store",
                  !.tokens = Replenished(bucket[e].tokens, cpu[c].refill,
                                         KERN_PPS_LIMIT) - 1])
  /\ UNCHANGED <<clock, gtb, maps, frames, history>>

BucketStore(c) ==
  /\ At(c, "b_store")
  /\ \E e \in cpu[c].tb : bucket' = [bucket EXCEPT ![e].tokens = cpu[c].tokens]
  /\ Charge(c)
  /\ IF cpu[c].tokens < 0
     THEN Goes(c, FrameAt("auto_block", cpu[c].src, cpu[c].now))
            /\ UNCHANGED leaked
     ELSE Leaves(c) /\ Passes(c)
  /\ UNCHANGED <<clock, gtb, entry, blocked, frames, events, mixed>>

\* The blacklist entry and the event.  Two CPUs may both come here.
AutoBlock(c) ==
  LET s == cpu[c].src
  IN  /\ At(c, "auto_block")
      /\ Leaves(c)
      /\ blocked' = [blocked EXCEPT ![s] = TRUE]
      /\ leaked' = [leaked EXCEPT ![s] = IF blocked[s] THEN @ ELSE 0]
      /\ events' = [events EXCEPT ![s] = IF blocked[s] THEN @ + 1 ELSE 1]
      /\ UNCHANGED <<clock, gtb, bucket, entry, frames, charged, mixed>>

-----------------------------------------------------------------------------

\* The brain deletes the entry when the cooldown is over.
Unblock(s) ==
  /\ blocked[s]
  /\ blocked' = [blocked EXCEPT ![s] = FALSE]
  /\ UNCHANGED <<clock, gtb, bucket, entry, cpu, frames, history>>

Tick ==
  /\ clock < MaxClock
  /\ clock' = clock + 1
  /\ UNCHANGED <<gtb, maps, cpu, frames, history>>

Step(c) ==
  \/ RuntFrame(c) \/ Receive(c)
  \/ GlobalTime(c) \/ GlobalStamp(c) \/ GlobalLoad(c) \/ GlobalStore(c)
  \/ BlacklistLookup(c) \/ RateLookup(c)
  \/ InsertTakes(c) \/ InsertFails(c) \/ InsertFills(c) \/ InsertLinks(c)
  \/ BucketTime(c) \/ BucketStamp(c) \/ BucketLoad(c) \/ BucketStore(c)
  \/ AutoBlock(c)

Next == (\E c \in Cpus : Step(c)) \/ (\E s \in Sources : Unblock(s)) \/ Tick

Spec == Init /\ [][Next]_vars

-----------------------------------------------------------------------------

\* However the accesses of the CPUs interleave, elements are recycled and
\* entries replaced, a source is not found exhausted before more than
\* KERN_PPS_LIMIT of its packets were charged: updates of token_bucket_check()
\* may get lost, but no packet is charged more than once.  The one exception is
\* an element that was recycled for a source while a CPU was using it for
\* another: either may then be charged for the packets of both.
NoBlockWithinLimit ==
  \A s \in Sources \ mixed :
    (blocked[s] \/ \E c \in Cpus : At(c, "auto_block") /\ cpu[c].src = s)
      => charged[s] > KERN_PPS_LIMIT

\* A block takes hold at once but for the frames that were past the blacklist
\* check when it began: each of them gets through or tells of the block once
\* more, so no block lets more than the other CPUs' frames in hand leak, and
\* none fills the ring.
BlockTakesHold ==
  \A s \in Sources :
    blocked[s] => leaked[s] + events[s] <= Cardinality(Cpus)

=============================================================================
