# FluxGuard in TLA+

A verification development for FluxGuard: an XDP program that rate-limits and
blocks source addresses in the kernel, a userspace control loop (the brain)
that turns those blocks into timed ones, and the tools around them.

## The system

| Component | Source | State it keeps | Operations |
|---|---|---|---|
| XDP filter | `src/fluxguard_kern.c` | the BPF maps: allowlist, protocol filter, meter, blacklist, rate (each for IPv4 and IPv6), one aggregate bucket, a per-CPU counter, an event ring | one run of `fluxguard_filter()` per frame, on several CPUs at once |
| Token buckets | `src/fluxguard_kern.c` | `last_time`, `tokens` | `token_bucket_check()`, the inlined aggregate bucket |
| Brain | `src/fluxguard_brain.py`, `fluxguard.service` | `blocked_until`, a copy of the allowlist, the checkpoint file, the last reading of the aggregate bucket | restore, refresh, dump, shields check, detect, expire, save, publish, sleep; restart by systemd |
| BPF map wrapper | `src/fluxguard_bpf.py` | none | dump (key by key), set, delete by raw `bpf(2)` |
| Allowlist CLI | `src/fluxguard_allow.py` | the maps it opens for one request | add, del, list |
| REST API | `src/fluxguard_api.py` | the maps it opened when it started | add, delete, list; reads |
| Metrics | `src/fluxguard_metrics.py` | counters, packet counts, the blocked set | updates by the loop, scrapes by HTTP threads |
| Dashboard | `src/fluxguard_dashboard.py` | the consumer position of the ring, the last events, the last scrape | drain, scrape, render |
| Loading and pinning | `Makefile` | the attached program, the pinned paths | attach, detach |
| Configuration | `src/fluxguard_config.py` | none | load once |

They interact only through pinned BPF maps, the metrics' HTTP port and, for the
brain, one JSON file:

    frames -> XDP filter -> blacklist maps -> brain -> deletes after the cooldown
                   |              ^             |  ^
                   |              +-- restore --+  +-- checkpoint file
                   +-> event ring -> dashboard <- scrapes <- MetricsState <- brain
    allowlist CLI / API -> allowlist maps -> XDP filter, brain (cached copy)
    make attach -> pinned paths -> whoever opens the maps next

What is hard about it: integer arithmetic in fixed words, time that two parties
read from the same clock at different moments, CPUs that update a bucket with
plain loads and stores, maps that are full or evict, a map that changes while
it is read key by key, the kernel writing the blacklist while the brain works
on what it read, system calls that fail halfway through the loop, a process
that can die between any two of them while the maps live on, shared memory
that is read without a lock, and processes that keep the maps of a program that
is gone. `PROJECT.json` lists these hazards line by line.

What makes each component correct:

* *Token buckets*: as long as a source keeps its bucket it gets no more than
  capacity plus rate (an eviction makes it a fresh one); its debt grows only with
  packets that slip past a failed block, and silence pays it; the aggregate bucket
  caps every interval.
* *XDP filter*: on one receive queue a source is judged by its own packets only,
  on several with the exception of an LRU element that is recycled in use; a
  block holds; an allowlisted source is never charged; the events tell of the
  blocks, except when blacklist or ring is full.
* *Brain*: a block lasts for the cooldown, ends afterwards, and both survive
  crashes; the checkpoint says what memory says.
* *Dumps*: what stayed in the map is reported, what was not in it is not.
* *Ring and dashboard*: what is read at the boundary of a record is what the
  kernel put there; a drain never hangs.
* *Metrics*: the counters balance, an alarm between two readings has a cause, and
  no row counts packets that were not sent.
* *Tools*: what was acknowledged last is what the program does and a list shows.

## Modules

| Module | Models | Plain words |
|---|---|---|
| `TokenBucket` | the two buckets as operators | `__u64` products and differences are reduced modulo `WORD` |
| `RateLimiter` | one source: bucket, blacklist entry, LRU eviction, unblock and restore | compared to an exact bucket in the history variable `credit`; `lapsed` and `slips` record the shields that failed |
| `XdpFilter` | `fluxguard_filter()` on all maps, and the writes of userspace to them | a frame is one step; an action per way out of the pipeline |
| `XdpCpus` | the same program on several CPUs | one step per access to shared memory, through the pointers the program holds |
| `Brain` | `monitor()`, `save_checkpoint()`, `load_checkpoint()`, the systemd unit | a step per system call and per change of `blocked_until` |
| `BlockLifecycle` | the promise: a block lasts at least `MIN_BLOCK` | abstract specification that `Brain` implements |
| `MapDump` | `dump_map_u32()`, `dump_map_u32_v6()` on the kernel's hash table | a step per system call, writes and deletes of others between them |
| `EventRing` | the ring's reservations and records, `open_ringbuf()`, `drain_ringbuf()` | memory in words of 8 bytes |
| `Monitor` | shields check, metrics, scrapes, the dashboard's rows | a step per dump, per update under the lock, per scrape |
| `Tools` | the allowlist tools, `load_config()`, `make attach` and `make detach` | generations of maps, who has which one open, and what a thread has written or walked through and not answered |
| `TokenBucketProofs` | lemmas on products, `\div`, `%`, the refills and the two buckets | extended by the three modules that charge a bucket |
| `RateLimiterProofs`, `XdpFilterProofs`, `XdpCpusProofs`, `BrainProofs`, `MonitorProofs`, `ToolsProofs` | theorems about the module of the name | proved |
| `ReaderProofs` | theorems about `MapDump` and `EventRing`, the two ways to read what the kernel writes | proved; `MapDump` has names of its own (`DumpSpec`, `step`) so that one module can extend both |
| `MC...` | instances for TLC | model values, symmetry |

`XdpFilter` is shown to implement `RateLimiter` for each of its sources
(`ActsAsRateLimiter`). The instance substitutes the source's own state and
leaves the parameters alone, and the theorems of `RateLimiterProofs` have no
premise but the constants' assumptions, so they hold for every source of the
filter in a system with one receive queue; `XdpCpus` shows what is left of it
with several. `Brain` is shown to implement `BlockLifecycle`
(`KeepsPromise`). A dump is one step in `Brain` and `Monitor`; that this is
sound, per key, is what `MapDump` shows (`DumpComplete`, `NoGhosts`). `Tools` walks
through a map key by key.

### Correspondence

`RateLimiter` and `XdpFilter` use the names of the C code: `tb` and `rate`
(`rate_map`), `gtb` (`global_rate_map`), `meter`, `blacklist`, `allowlist`,
`proto_filter`, `ring` (`event_ringbuf`). The IPv4 and the IPv6 path are one
`Pipeline` on a source of `V4` or `V6`. A source's numeric address, the header
layout and the checks that only satisfy the BPF verifier are left out; what
those checks do to a short frame is `RuntFrame` and `OtherFrame`. Mapping of
actions to the steps of the pipeline: `ShieldsUp` (aggregate bucket),
`AllowlistBypass`, `ProtocolDrop`, `BlacklistDrop`, `FirstPacket`,
`Conforming`, `AutoBlock`. `outcome`, `blockedAt`, `credit`, `seen`, `charged`,
`lapsed`, `slips` and `window` are histories that no action reads but to record.
An entry that protects a bucket in debt is lost in two ways: the blacklist was
full (`kern.c:261`), or userspace deleted it within a second (`brain.py:195`: an
expired timer that a failed save or a crash left on disk). `lapsed` says so,
`slips` counts the packets charged thereafter until the bucket is out of debt.
`Unblock` may come at any time; that an undisturbed brain waits for the cooldown
is `Brain`'s.

`XdpCpus` cuts the same pipeline at its loads and stores. `cpu` has for each CPU
the access it comes to next (`at`) and its registers: `src`, `now`, `refill`,
`tokens`, and `tb`, the pointer `bpf_map_lookup_elem()` gave. Which accesses there
are is taken from what clang makes of the source at `-O2`: the time stamp is
stored when a refill is due, the token count is loaded once and stored once, and
the verdict is about the value the CPU computed. All go through the pointer.
`rate_map` is an LRU hash of preallocated elements: `entry` tells which element
a source finds, `bucket` what an element holds. `bpf_map_update_elem()` takes an
element (`InsertTakes`: a free one, or one of any source, whoever has a pointer to
it), fills it (`InsertFills`) and links it (`InsertLinks`), which replaces an element
another CPU linked meanwhile; without an element to take it fails
(`InsertFails`), and nobody looks. `mixed` records the sources of an element that
was recycled while a CPU used it for another source. The allowlist and the
protocol filter, which do not write, are left to `XdpFilter`.

`Brain` keeps the names of the Python code for variables and map operations.
`pc` names the places between two system calls. `blocked_until` is a function
on all addresses, `NoTimer` where the dictionary has no key. The dictionary and
the dumps are walked in any order within a family, IPv4 before IPv6, as the
code does. An `OSError` is `Fails`; it is possible at every call the code
guards. A dump's first call raises, its later ones silently shorten the result
(`Incomplete`). `v6_fds` counts the IPv6 maps that were opened before one failed:
meter, blacklist, allowlist, in this order and in one `try`; `V6Opens` has the
outcomes a run admits. Without the IPv4 maps the process exits at once
(`OpenFails`). The three ways the running process ends are a stop by signal
(`HandleSigterm`, seen by `Loop`), a death (`Crash`: a kill, or an exception that
reaches `main()`, as a failing JSON log does) and `Reboot`. An `open(.., "w")`
has emptied the file before the first byte of JSON is in it, hence `SaveOpen`
and `SaveWrite`. `since`, `saved`, `lifted`, `exempt` and `count` are histories.

`MapDump`: `First`, `Lookup` and `NextKey` are the three system calls of the
loop, `current` its `current_key`. The kernel's table (external) is reduced to
what its iteration shows: buckets in order, within one the newest element first,
and back to the start from a key that is gone. `stamp` orders the elements, and
is the value of an entry, so that a value tells which entry it comes from;
`value` is the one buffer the dump looks values up into.

`EventRing`: `Reserve`, `Fill`, `Submit` are `bpf_ringbuf_reserve()`, the
assignments to the event and `bpf_ringbuf_submit()` on any CPU. `Drain`,
`ReadHeader`, `ReadEvent`, `Advance`, `Drained` are the parts of
`drain_ringbuf()` between two accesses to the shared memory. The dashboard takes
any word for a record header once its position is off a record; `Headers` has
what each kind of word may be to it. Of an address or a time that is any of
`Junk`, chosen anew at each reading, which is more than the code can meet. What
the dashboard reads are the bytes (`AddressAt`, `TimeAt`); what it makes of an IPv4
address, unpacked in one byte order and packed in the other, is `Text`.
`open_ringbuf()` maps the ring twice in a row, once, or not
at all, depending on the kernel: a kernel that admits no writable mapping of
the producer's pages, as mainline does, leaves the dashboard without events.

`Monitor` has the other half of `monitor()`: which dumps fill `read`
(`Dump`, `ReadTokens`), the shields check against `prev_global_tokens`, and
`MetricsState` as the record `metrics`, each update one step because each is
under the lock. A dump may be complete, miss any keys, or raise and take the later
ones with it. When a timer is due, what the checkpoint holds and how old the
copy of the allowlist is are left to `Brain`: any timer may be found expired here,
a brain may start with any timers, and any copy of `Exempt` sources may be in
use. An IPv6 timer that expires while `blacklist_map_v6` is not open is counted
as an unblock and nothing is deleted (`brain.py:183-188`). `Refresh` is one round of
the dashboard: `Shows` gives a row to the `TOP` sources with most packets, and
`Increase` is its `cnt - prev_packets.get(ip, cnt)`; the division by the time
between rounds is left out.

`Tools`: a generation is the set of maps that came with one load of the program;
it lives while the program, a pinned path or a process holds it. `Attach` is the
`ip link` of `make attach`, `Pin` one round of its loop. `OpenRequired`, `OpenApi`
are the opens at the start of CLI and brain, and of the API, with the
directory `load_config()` finds. A request belongs to a thread: the only one of
the command line, of which one runs at a time, or one of the API's `Workers`
(Flask's server starts one per request). A write is a system call (`Add`, `Del`)
and its answer a step of its own (`Acknowledge`); a list goes through both maps key
by key (`List`, `Visit`, `NextMap`) and answers with what it has shown (`Ends`), also
when a failing call ended the walk without a word. Between any two of them
another thread may write or answer, and the process may die (`Exit`). `bpftool`
refuses the name `allowlist_map_v6`: the kernel keeps 15 characters of a name.
`Pin` therefore may leave out that map. `acked` is what the answers make believe;
`disputed` are the addresses for which they cannot tell: a write died
unanswered, or another came between a write and its answer. The next write
that overlaps with none settles the matter.

## Runs

| Run | Checks | Result |
|---|---|---|
| `rate_limiter` | `TypeOK`, `NeverMoreGenerous`, `DebtBounded`, `SilencePays` | hold, with a blacklist that may be full or lifted at any time |
| `xdp_filter` | `TypeOK`, `NoBlockWithinLimit`, `AggregateCap`, `ActsAsRateLimiter`, `BlockHolds`, `ShieldsComeDown`, `EventsTellBlocks` | hold |
| `cpus` | `TypeOK`, `NoBlockWithinLimit`, `BlockTakesHold` | hold |
| `brain` | `TypeOK`, `NoTimerBeyondCooldown`, `BlockEndsInTime`, `KeepsPromise` | hold with crashes; both families; all, some or none of the IPv6 maps opened |
| `brain_recovery` | `CheckpointMatchesMemory`, `KeepsPromise`, `Amnesty` | hold with a failure, a crash, a stop and a reboot; `Amnesty` under fairness |
| `readers` | `DumpTypeOK`, `DumpComplete`, `NoGhosts`, `DumpEnds`; `TypeOK`, `TrueAtRecord`, `DrainEnds` of the ring | hold; `DumpEnds` and `DrainEnds` under fairness |
| `monitor` | `TypeOK`, `BooksBalance`, `AlarmsAreReal`, `RateNeverInflated`, `RowsTellBlocks`, `FloodIsCounted` | hold; the last under fairness |
| `tools` | `TypeOK`, `CleanReloadAgrees`, `AckedIsEffective`, `ListsAgree` | hold |
| `tools_reload` | `PinsAreLoaded` | violated: a reload while a process has the old maps open pins the old maps |
| `ring_stride` | `ConsumerAtRecord` | violated: the stride leaves out the record header |
| `ring_address` | `AddressAsSent` | violated: an IPv4 address is shown with its bytes reversed |
| `brain_reboot` | `NoTimerBeyondCooldown` | violated: monotonic deadlines outlive the boot |

Deadlock checking is on in every run.

### Bounds and why they are enough

* `rate_limiter`: a second of 8 ns with a limit of 3, so a token takes a
  fraction of a tick and every remainder of the division occurs; 24 ns cover three
  seconds, and steps of up to 9 ns silences longer than one. The largest product,
  24 * 3, does not fit in the word of 64: overflow is met. `MaxSlips` bounds the
  packets charged to a bucket whose shield failed; three of them deepen a debt and
  leave the time to repay it.
* `xdp_filter`: two IPv6 sources in maps with one entry, so that eviction, a
  full blacklist and a full ring are constantly met; five frames exhaust a bucket
  of two tokens and an aggregate bucket of three with a floor of -1, and four
  ticks of a second of two repay it. Times fit in a word of 8 and the product of
  time and rate does not, so refills overflow. The observed interval begins anywhere. The
  sources are interchangeable, hence the symmetry; one family is enough since
  the pipeline is one definition and the families share only the aggregate
  bucket, the protocol filter and the ring.
* `cpus`: two CPUs, two sources, two elements of the LRU map, five frames and a
  limit of two: one frame more than the limit, one in hand on each CPU, and an
  element that is recycled or replaced while the other CPU uses it. Without the
  exception for `mixed` sources TLC finds `NoBlockWithinLimit` violated, so the case
  is met. The aggregate bucket is large enough to let the frames through to the
  second bucket; its own lost updates are described below.
* `brain`, `brain_recovery`: one source per family, a cooldown of two time
  units, a loop lag of one and a sleep of one. `Horizon` bounds the time of
  everything that comes from outside so that what follows fits under
  `MaxClock`; `MaxFaults`, `MaxCrashes`, `MaxStops` and `MaxReboots` bound the
  disturbances, in `brain_recovery` one of each in any order and at any step. The
  clock range covers at least two full blocks of a source. `Wake` also fires at
  the end of the clock, which ends the sleep earlier than the code does and
  only at the bound. `V6Opens` of `brain` has none, two and three IPv6 maps. In
  `brain_recovery` there are IPv4 sources only: that IPv6 blocks are never lifted
  when their maps were not opened is outside of `Amnesty`. One source per family is enough because the loop treats
  every source on its own; what sources share is `now`, the first failing dump
  of a loop, and the file, which is written as a whole.
* `MaxLag` is an assumption about the machine: a loop works at most that long
  between reading `now` and going to sleep, and systemd starts a dead process
  within that time. The duration guarantees are stated in terms of it. A source
  the kernel blocks while the process starts is seen by the first loop, up to
  `2 * MaxLag` later, which is why `BlockEndsInTime` has the larger `Notice`.
* `readers`: `MCReaders` joins `MapDump` and `EventRing`, which share nothing, in a
  specification in which only one of them has something to read; the other one is
  at rest on an empty map or ring. *Map*: two keys in one bucket and one in another,
  any map to begin with, and three writes: enough to move keys past the iteration
  and to send it back to the start more than once. *Ring*: 13 words, that is two
  records and three words of a third, so the third record wraps; `BigStride` is
  longer than the ring. Of the numbers an address or a time can be as a header
  `Lengths` takes one of each effect: skip and go on, skip with no length, go on by a
  length that is not a record's.
* `monitor`: a source that may be blocked, allowlisted and metered, two frames, an
  aggregate bucket of one token with a floor of -1, a block, and a failure and a
  crash or a reboot at any step, with one or three IPv6 maps. One block per source
  at a time is all the counters see. A second source competes with it for the one
  row of the dashboard (`TOP`); `Bounded` of `MCMonitor` lets it send only where
  nothing is disturbed.
* `tools`: two loads, so that a process can hold the maps of the first while the
  second is attached; two IPv4 addresses compete for one entry, an IPv6 address has
  the other map, and a thread of the API meets the command line. `Bounded` of
  `MCTools` keeps more than one address to the first load.

### Fairness

* `Amnesty`: weak fairness of `Work` (the process is scheduled; none of its
  steps waits for anything but time), of `Start` from `"off"`
  (`Restart=on-failure`; a process that was stopped is not started again, and the
  property excludes it), and of `Tick`.
* `DumpEnds`: weak fairness of the dump's steps. Writes are bounded: a table that
  is rewritten for ever can send the iteration back for ever, in the code as in
  the model.
* `DrainEnds`: weak fairness of the steps of `drain_ringbuf()`, a loop that waits
  for nothing. The producer position is read once, so the kernel cannot prolong
  a drain.
* `FloodIsCounted`: weak fairness of the loop, of its restart and of the dashboard's
  refresh, each a loop with a sleep.

No fairness is assumed for the kernel's traffic, the operator, crashes or
failures, and each disturbance is bounded.

## Proofs

All proofs are checked for every value of the constants that satisfies the
modules' assumptions; further conditions are in the statements. Every safety
property of every passing run is proved. Each theorem follows the same argument:
an invariant holds initially, every action keeps it (a lemma per action or group
of actions), it implies the property. What follows names the invariants and why
the property alone does not do.

`TokenBucketProofs` has the lemmas the buckets' theorems rest on: products and
remainders of machine words, what a refill earns at least and at most
(`RefillBounds`, `RefillIsEarned`, `RefillReaches`), and the ways through
`token_bucket_check()` and the aggregate bucket (`CheckCases`, `GlobalCases`). The
verdict on a frame is told from the bucket it leaves behind, which needs the floor
of the aggregate bucket to be below zero (`GLOBAL_DEBT` is not zero).

`RateLimiterProofs`:

* `TypeCorrect` - types. Needs that a refill of a natural number of nanoseconds
  is a natural number.
* `NeverMoreGenerousThanExact` - `NeverMoreGenerous`. It is not inductive: a
  passing verdict says nothing about what the bucket keeps. The invariant
  `CreditInv` adds `Causal` (no time stamp lies in the future) and `Covered`:
  the tokens together with `Residue`, the part of the elapsed product that was
  not refilled, never exceed the exact credit. A refill turns residue into
  tokens, rounding only ever loses, and a product that overflows leaves a
  smaller residue.
* `DebtNeverGrows` - `DebtBounded`, without a premise. `DebtInv` adds `Shielded`: a
  bucket in debt belongs to a source whose blacklist entry is as young as the debt,
  or is at least a second old, so that a refill repays it, or has lost its shield,
  which `lapsed` has on record; from then on each packet charged is a slip.
* `SilencePaysDebts` - `SilencePays`, from `DebtInv`: a debt of one token and one per
  slip is repaid by the time that earns two tokens and one per slip.

`XdpFilterProofs`, for any sources, capacities, rates and word widths:

* `TypeCorrect` - types.
* `EverySourceHasItsLimiter` - `ActsAsRateLimiter`, the refinement, step by step:
  a frame of a source is `RateLimiter`'s packet of it, a frame of another source
  evicts its bucket or changes nothing of it, a delete is an unblock, and an
  insert of userspace a restore. Needs only that blocks are not of the future
  (`BlocksArePast`). The instance leaves all parameters as they are, and the
  theorems of `RateLimiterProofs` assume nothing else, so they hold for every
  source of the filter.
* `OnlyFloodsAreBlocked` - `NoBlockWithinLimit`. The invariant `ChargedInv` says
  that what a bucket lacks to its capacity was charged to it; an eviction makes a
  full bucket, so it adds to the sum.
* `ShieldsCapTraffic` - `AggregateCap`, for an interval that begins anywhere. The
  invariant `AggregateInv` says that the time up to the *last refill*, not up to
  now, earned the frames let through, also together with the tokens left, and that
  the interval began at most one refill period after that refill. Overflow only
  makes refills smaller.
* `ShieldsDoComeDown` - `ShieldsComeDown`, from the range of the aggregate
  bucket in `AggregateInv`. It holds while the product of time and rate fits in
  the word; the statement says so, since after ten hours without any frame at
  500000 packets a second a wrapped product may repay less.
* `BlocksHold` - `BlockHolds`, `EventsTellOfBlocks` - `EventsTellBlocks`: action
  properties, by the order of the pipeline's checks and of its two writes.

`XdpCpusProofs`, for any number of CPUs, sources and elements:

* `TypeCorrect` - types.
* `NeverBlockedEarly` - `NoBlockWithinLimit`. The invariant `Covers` is about each
  source that is not `mixed`, and each element it finds or a CPU holds a pointer to
  on its behalf: what that bucket lacks to its capacity was charged, and so was, but
  for the packet in hand, what a count lacks that a CPU has yet to store. A lost
  update only leaves more in the bucket than was charged. `Separate` says that an
  element used for two sources makes both of them mixed, so a store through an old
  pointer reaches no bucket of a source that is not.
* `BlocksTakeHold` - `BlockTakesHold`. The invariant `LeaksInHand` counts the
  frames past the blacklist check together with what has leaked; each leaves
  that set when it adds to the leak, and none enters it during a block.

`ReaderProofs`, `MapDump`:

* `DumpTypeCorrect` - types.
* `DumpsAreComplete` - `DumpComplete`. The invariant says that every key the dump
  still owes is ahead of `current`, in a later bucket or behind it in its own;
  a write of `current` makes it the head of its bucket, and a delete sends the
  iteration back, so a key that is ahead stays ahead.
* `DumpsHaveNoGhosts` - `NoGhosts`, about keys and values: an entry of the result is
  the one the lookup found, `met` has every entry there was since the dump began, and
  a lookup that finds nothing must leave the result alone, since the buffer still
  has the value of another key.

`ReaderProofs`, `EventRing`, for any size of the ring and number of CPUs:

* `RingTypeCorrect` - types, which for `stride` need that every word the
  dashboard may take for a header names an event the kernel counted.
* `RecordsAreTrue` - `TrueAtRecord`. `Positions` says that neither the consumer
  position nor a record that is not complete is a ring's length behind the
  producer; two positions closer than that are different words (`AtApart`,
  `FreshApart`), so a reservation, and a CPU that completes its record, stay
  clear of every other word that is unread. `Unread` says that the words ahead of
  the consumer are those the kernel wrote: a header that is busy exactly while some
  CPU holds the record (`Holders`: only one does), and what a CPU that has filled
  its record put there. `Complete` says that the dashboard, once it has passed the
  header of a record, reads from one no CPU holds. A position off a record, as the
  wrong stride makes it, is covered: the invariant holds for every value of `cons`.
  The property is about the bytes that are read and the time that is kept; what
  text becomes of an IPv4 address is `ring_address`.

`BrainProofs`:

* `TypeCorrect` - types.
* `CheckpointFollowsMemory` - `CheckpointMatchesMemory`. Inductive with
  `Synced`: outside the parts of the loop that change timers, a successful last
  save means that file and memory agree.
* `TimersAreNear` - `NoTimerBeyondCooldown`, when the machine does not reboot
  (`MaxReboots = 0`; `brain_reboot` shows why).
* `BrainKeepsPromise` - `KeepsPromise`, the refinement of `BlockLifecycle`. The
  invariant has two parts. `FirstBlockInv` says of every source that was never
  unblocked: a timer of it, in memory or on disk, belongs to a block in force and
  lies at least `cooldown_sec - MaxLag` after the block began; a source the loop is
  about to give a timer was blocked no later than `MaxLag` after `now`; and what the
  loop is about to delete has expired. The last needs that `now` is at most `MaxLag`
  old when it is used. `PromiseInv` says the same of all sources while nothing was
  disturbed, stops included; it needs `Synced` for what a stopped process leaves on
  disk. `LifecycleStep` maps each action to a step of the promise or a stutter.
* `BlocksEndInTime` - `BlockEndsInTime`. `CalmInv` bounds, by the place of the
  loop, how long a blocked source without a timer waits for one (`Awaited`), and
  how late a timer that is over is found (`Running`). The bound is strict, so the
  theorem assumes that a cooldown, a lag or a sleep takes any time at all.

`MonitorProofs`:

* `TypeCorrect` - types.
* `TheBooksBalance` - `BooksBalance`, whatever IPv6 maps were opened. The invariant
  adds that the loops of the brain count a source once: what is left to detect has
  no timer, what is left to expire has one.
* `AlarmsHaveCauses` - `AlarmsAreReal`. `AlarmInv` orders the readings of the
  aggregate bucket, the one of the loop before, the one of this loop and its present
  state, by `Follows`: unless a frame emptied it in between, a bucket does not go
  from more tokens to fewer that are none.
* `RatesAreHonest` - `RateNeverInflated`. `RateInv` orders the readings by what
  the meter had forgotten when they were made: what the dashboard shows was read
  before what is published, that before what the loop has read, that before now.
* `RowsAreCurrent` - `RowsTellBlocks`. `StatusInv` says that until the next detection
  the published set is that of the timers, unless no counter was published: the set
  is published before the counters, and without counters there are no rows.

`ToolsProofs`:

* `TypeCorrect` - types, and that no allowlist map exceeds its capacity.
* `CleanReloads` - `CleanReloadAgrees`. The invariant `Held` adds that pins exist
  only while a program is attached, that a process that does not run has nothing
  open and no request, and that nobody knows a generation that is yet to come.
* `AnswersHold` - `AckedIsEffective`, `ToolsAgree` - `ListsAgree`, both from `Believed`:
  the maps of generations yet to come are empty; a write that is yet to be answered
  and overlaps with none is what the program has of the address (`WritesAgree`); and
  a list, of the addresses nobody wrote, has shown nothing the program does not
  have, and has shown, has yet to visit or has missed what it has (`ListsTrue`).

Only model-checked: the liveness properties `Amnesty`, `DumpEnds`, `DrainEnds` and
`FloodIsCounted`, which are out of the prover's reach (they need `ENABLED` for
fairness), and the four disagreements, which are counterexamples.

### What the properties leave out

* `NeverMoreGenerous` and `NoBlockWithinLimit` follow a source through evictions by
  giving it a full bucket: the fresh burst is allowed. `NoBlockWithinLimit` counts
  over a lifetime, so it constrains the first block of a source most.
* `SilencePays` and `ShieldsComeDown` exclude products that overflow, and only there
  may a refill be too small.
* `EventsTellBlocks` excludes the full map and the full ring.
* `DumpComplete` excludes failing calls, which end a dump without a word.
* `DrainEnds` is about one drain. That later ones go on where a record lies across
  the end of a single mapping, or after the position went past the producer's, is not
  so in the code.
* `RateNeverInflated` bounds the increase of a row. The rate is that increase divided
  by the time between two refreshes, which may differ from the time between the two
  readings of the meter.
* `FloodIsCounted` looks at the first alarm of a process, `AlarmsAreReal` at loops that
  read the bucket.
* `RowsTellBlocks` is about sources with a row: one without a counter, or below the
  twelfth, is not shown at all.
* `KeepsPromise` promises first blocks only after a disturbance.

## What the code does otherwise than it says

Four runs show a disagreement between the code and what is written about it
(`findings` of `PROJECT.json`). Others came up while the models were written and
are part of them, without a run of their own:

* The refill rounds down and moves `last_time` to now, so a source that sends at
  its limit in unlucky intervals is drained (`kern.c:166`; the comment at 161 says
  "exactly KERN_PPS_LIMIT tokens per second"). `NeverMoreGenerous` states the direction that holds.
* A full `blacklist_map` refuses the entry but the event is emitted
  (`kern.c:261`). `EventsTellBlocks` therefore excludes a full map.
* The aggregate bucket comes before the allowlist, so Shields-Up drops allowlisted
  sources (`kern.c:215`).
* Racing CPUs can undo each other's decrements of the aggregate bucket without
  bound, so `AggregateCap` is a property of one receive queue.
* The checkpoint is truncated in place (`brain.py:44`); a crash before it is
  written loses all timers. `Amnesty` holds since the blocks are found again in
  the maps, with a new cooldown.
* A crash, or a failing save, between a delete and the save leaves an expired
  timer on disk (`brain.py:195`), which can lift a later block of the source at
  once. This is why `BlockLifecycle` promises less after a disturbance.
* The dashboard's stride leaves out the record header (`dashboard.py:176`). After
  the first record its position is off; once it is ahead of the producer,
  line 124 only returns, though the comment above it speaks of a reset, and the
  kernel finds no room for events until it has caught up, if it ever can.
* With the single mapping of the ring, a record across its end stops the drain
  there for good.
* A reading of the aggregate bucket that fails counts as 0 tokens and may raise the
  alarm of an exhausted one (`brain.py:149`). `AlarmsAreReal` excludes it.
* An IPv6 timer that expires while `blacklist_map_v6` is not open is counted and logged
  as an unblock, and nothing is deleted (`brain.py:188`). `BooksBalance` says so.
* Two CPUs can make a recycled bucket a stranger's: the source may be blocked
  early (`kern.c:256`). `NoBlockWithinLimit` of `XdpCpus` excepts `mixed` sources.
* With a full blacklist, or after an early lift, every packet deepens the debt of
  the source's bucket (`kern.c:175`). `DebtBounded` counts these packets.
* `config.py:6` says that the brain imports the configuration; it does not.

## Not modelled

* The values of the other settings of `FluxGuardConfig`: numbers, and constants of
  the models. `save_config()` and `get_global_counter()` have no caller.
* The read-only routes of the API (`blocked`, `health`, `metrics`): they change
  nothing, and their dumps are `MapDump`'s. The wording of replies.
* The text format of the metrics, the dashboard's rendering, colours and sorting,
  the JSON log but for its failing.
* `ctypes` layouts and the numbers of system calls; address parsing and
  printing but for the byte order of the events.
* Load generator, code dump script, setup script: development tools, no part of
  the running system.

## Plan

Done: all components; every safety property and both refinements proved. What
could be added:

1. `AggregateCap` for several CPUs does not hold; a bound in the number of CPUs
   and of lost decrements, with a run of `XdpCpus` that has the bucket run dry.
2. The safety part of the liveness arguments: that a drain which has begun
   advances or ends with every step (`DrainEnds`), and that `todo` shrinks with
   every step of a loop (`Amnesty`), as action properties with proofs.
