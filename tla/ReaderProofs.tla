---------------------------- MODULE ReaderProofs ----------------------------
(***************************************************************************)
(* Theorems about the two ways user space reads what the XDP program       *)
(* writes: the dump of a map (MapDump), for every set of keys, every hash  *)
(* function and every number of writes, and the ring buffer (EventRing),   *)
(* for every number of CPUs, every size of the ring and every word that    *)
(* comes to be read as a header.                                           *)
(***************************************************************************)
EXTENDS MapDump, EventRing, SequenceTheorems, TLAPS

-----------------------------------------------------------------------------
(* MapDump: the inductive invariant and the steps that keep it.            *)

\* The keys the dump must still report.
Owed == stayed \ Reported

\* What is behind the iteration: once current has been written again it heads
\* its bucket, so a key it was ahead of stays ahead.
Pending(k) ==
  \/ Hash[current] < Hash[k]
  \/ /\ Hash[current] = Hash[k]
     /\ current \in Present => stamp[current] > stamp[k]

\* While no call failed, the iteration has not passed a key it still owes.
NothingSkipped ==
  faults = 0 =>
    /\ step = "lookup" => \A k \in Owed : k = current \/ Pending(k)
    /\ step = "next" => \A k \in Owed : Pending(k)
    /\ step = "done" => stayed \subseteq Reported

StampsAreOld == \A k \in Keys : stamp[k] <= writes

DumpInv == DumpTypeOK /\ StampsAreOld /\ NothingSkipped

-----------------------------------------------------------------------------

LEMMA InitDumpInv == DumpInit => DumpInv
<1> SUFFICES ASSUME DumpInit PROVE DumpInv
  OBVIOUS
<1>1. DumpTypeOK
  BY DEF DumpInit, DumpTypeOK, Present, Absent, Nothing, Entries
<1>2. StampsAreOld
  BY DEF DumpInit, StampsAreOld
<1>3. NothingSkipped
  BY DEF DumpInit, NothingSkipped
<1> QED
  BY <1>1, <1>2, <1>3 DEF DumpInv

\* The answer of BPF_MAP_GET_NEXT_KEY skips none of the keys ahead.
LEMMA FirstOfAll ==
  ASSUME NEW keys, NEW n, IsFirstOf(n, keys)
  PROVE  \A k \in keys : k = n \/ Before(n, k)
BY DEF IsFirstOf

LEMMA OwedIsAhead ==
  ASSUME DumpTypeOK, \A k \in Owed : Pending(k)
  PROVE  Owed \subseteq Ahead
<1> SUFFICES ASSUME NEW k \in Owed PROVE k \in Ahead
  OBVIOUS
<1>1. k \in Present /\ Pending(k)
  BY DEF DumpTypeOK, Owed
<1>2. CASE current \in Present
  BY <1>1, <1>2 DEF Ahead, Before, Pending
<1>3. CASE current \notin Present
  BY <1>1, <1>3 DEF Ahead
<1> QED
  BY <1>2, <1>3

LEMMA FirstKeeps == DumpInv /\ First => DumpInv'
<1> SUFFICES ASSUME DumpInv, First PROVE DumpInv'
  OBVIOUS
<1> USE DEF DumpInv
<1>1. DumpTypeOK' /\ StampsAreOld'
  <2>1. current' \in Keys /\ faults' \in Nat
    BY DEF First, Fails, DumpTypeOK
  <2>2. step' \in {"lookup", "done", "raised"}
    BY DEF First
  <2> QED
    BY <2>1, <2>2 DEF First, map, DumpTypeOK, StampsAreOld, Present
<1>2. NothingSkipped'
  <2>1. CASE step' = "lookup"
    <3>1. PICK n \in Keys : IsFirstOf(n, Present) /\ current' = n
      BY <2>1 DEF First
    <3>2. \A k \in Present : k = n \/ Before(n, k)
      BY <3>1, FirstOfAll
    <3>3. stamp' = stamp /\ stayed' = stayed /\ stayed \subseteq Present
      BY DEF First, map, DumpTypeOK
    <3> QED
      BY <2>1, <3>1, <3>2, <3>3
      DEF NothingSkipped, Before, Pending, Owed
  <2>2. CASE step' = "done"
    BY <2>2 DEF First, map, DumpTypeOK, NothingSkipped
  <2>3. CASE step' = "raised"
    BY <2>3 DEF NothingSkipped
  <2> QED
    BY <2>1, <2>2, <2>3 DEF First
<1> QED
  BY <1>1, <1>2

LEMMA LookupKeeps == DumpInv /\ Lookup => DumpInv'
<1> SUFFICES ASSUME DumpInv, Lookup PROVE DumpInv'
  OBVIOUS
<1> USE DEF DumpInv
<1>1. DumpTypeOK' /\ StampsAreOld'
  <2>1. value' \in Nat
    BY DEF Lookup, DumpTypeOK
  <2>2. res' \in [Keys -> Nat]
    BY <2>1 DEF Lookup, DumpTypeOK
  <2> QED
    BY <2>1, <2>2 DEF Lookup, Fails, map, DumpTypeOK, StampsAreOld, Present
<1>2. NothingSkipped'
  <2> SUFFICES ASSUME faults' = 0, NEW k \in Owed' PROVE Pending(k)'
    BY DEF Lookup, NothingSkipped
  <2>1. faults = 0 /\ current' = current /\ stamp' = stamp
    BY DEF Lookup, Fails, map, DumpTypeOK
  <2>2. k \in Present /\ k \in Owed /\ k # current
    BY DEF Lookup, Fails, DumpTypeOK, map, Owed, Reported, Present
  <2>3. Pending(k)
    BY <2>1, <2>2 DEF Lookup, NothingSkipped
  <2> QED
    BY <2>1, <2>3 DEF Pending, Present
<1> QED
  BY <1>1, <1>2

LEMMA NextKeyKeeps == DumpInv /\ NextKey => DumpInv'
<1> SUFFICES ASSUME DumpInv, NextKey PROVE DumpInv'
  OBVIOUS
<1> USE DEF DumpInv
<1>1. DumpTypeOK' /\ StampsAreOld'
  BY DEF NextKey, Fails, map, DumpTypeOK, StampsAreOld, Present
<1>2. ASSUME faults' = 0
      PROVE  faults = 0 /\ Owed \subseteq Ahead
  <2>1. faults = 0
    BY <1>2 DEF NextKey, Fails, DumpTypeOK
  <2> QED
    BY <2>1, OwedIsAhead DEF NextKey, NothingSkipped
<1>3. NothingSkipped'
  <2> SUFFICES ASSUME faults' = 0 PROVE NothingSkipped'
    BY DEF NothingSkipped
  <2>1. CASE step' = "lookup"
    <3>1. PICK n \in Keys : IsFirstOf(n, Ahead) /\ current' = n
      BY <2>1 DEF NextKey
    <3>2. \A k \in Owed : k = n \/ Before(n, k)
      BY <3>1, FirstOfAll, <1>2
    <3>3. stamp' = stamp /\ stayed' = stayed /\ res' = res
      BY DEF NextKey, map
    <3> QED
      BY <2>1, <3>1, <3>2, <3>3
      DEF NothingSkipped, Before, Pending, Owed, Reported
  <2>2. CASE step' = "done"
    <3>1. Ahead = {}
      BY <2>2, <1>2 DEF NextKey, Fails, DumpTypeOK
    <3> QED
      BY <2>2, <3>1, <1>2 DEF NextKey, NothingSkipped, map, Owed, Reported
  <2> QED
    BY <2>1, <2>2 DEF NextKey
<1> QED
  BY <1>1, <1>3

\* What the others do to the map: only keys that are not owed any more move
\* in front of current, and current only moves to the head of its bucket.
LEMMA WriteKeeps ==
  ASSUME NEW w \in Keys PROVE DumpInv /\ Write(w) => DumpInv'
<1> SUFFICES ASSUME DumpInv, Write(w) PROVE DumpInv'
  OBVIOUS
<1> USE DEF DumpInv
<1>1. DumpTypeOK'
  BY DEF Write, DumpTypeOK, Present, Absent
<1>2. StampsAreOld'
  BY DEF Write, DumpTypeOK, StampsAreOld
<1>3. NothingSkipped'
  <2>1. ASSUME NEW k \in stayed', Pending(k) PROVE Pending(k)'
    <3>1. k \in Keys /\ k # w /\ stamp'[k] = stamp[k] /\ stamp[k] <= writes
      BY <2>1 DEF Write, DumpTypeOK, StampsAreOld, Present
    <3>2. CASE w = current
      BY <2>1, <3>1, <3>2 DEF Write, DumpTypeOK, Pending, Present
    <3>3. CASE w # current
      BY <2>1, <3>1, <3>3 DEF Write, DumpTypeOK, Pending, Present
    <3> QED
      BY <3>2, <3>3
  <2> QED
    BY <2>1 DEF Write, NothingSkipped, Owed, Reported
<1> QED
  BY <1>1, <1>2, <1>3

LEMMA DeleteKeeps ==
  ASSUME NEW d \in Keys PROVE DumpInv /\ Delete(d) => DumpInv'
<1> SUFFICES ASSUME DumpInv, Delete(d) PROVE DumpInv'
  OBVIOUS
<1> USE DEF DumpInv
<1>1. DumpTypeOK'
  BY DEF Delete, DumpTypeOK, Present, Absent
<1>2. StampsAreOld'
  BY DEF Delete, DumpTypeOK, StampsAreOld, Absent
<1>3. NothingSkipped'
  <2>1. ASSUME NEW k \in stayed', Pending(k) PROVE Pending(k)'
    <3>1. k \in Keys /\ k # d /\ stamp'[k] = stamp[k]
      BY <2>1 DEF Delete, DumpTypeOK, Present
    <3>2. CASE d = current
      BY <2>1, <3>1, <3>2 DEF Delete, DumpTypeOK, Pending, Present
    <3>3. CASE d # current
      BY <2>1, <3>1, <3>3 DEF Delete, DumpTypeOK, Pending, Present
    <3> QED
      BY <3>2, <3>3
  <2> QED
    BY <2>1 DEF Delete, NothingSkipped, Owed, Reported
<1> QED
  BY <1>1, <1>2, <1>3

LEMMA AgainKeeps == DumpInv /\ Again => DumpInv'
<1> SUFFICES ASSUME DumpInv, Again PROVE DumpInv'
  OBVIOUS
<1>1. DumpTypeOK' /\ StampsAreOld'
  BY DEF DumpInv, Again, DumpTypeOK, StampsAreOld, Present, Nothing, Absent,
         Entries
<1>2. NothingSkipped'
  BY DEF Again, NothingSkipped
<1> QED
  BY <1>1, <1>2 DEF DumpInv

LEMMA DumpStepKeeps == DumpInv /\ [DumpNext]_dump_vars => DumpInv'
<1> SUFFICES ASSUME DumpInv, [DumpNext]_dump_vars PROVE DumpInv'
  OBVIOUS
<1>1. CASE UNCHANGED dump_vars
  BY <1>1 DEF dump_vars, map, DumpInv, DumpTypeOK, StampsAreOld,
              NothingSkipped, Pending, Present, Owed, Reported
<1>2. CASE DumpNext
  BY <1>2, FirstKeeps, LookupKeeps, NextKeyKeeps, WriteKeeps, DeleteKeeps,
     AgainKeeps DEF DumpNext, dump_map_u32
<1> QED
  BY <1>1, <1>2

\* Type correctness.
THEOREM DumpTypeCorrect == DumpSpec => []DumpTypeOK
<1>1. DumpInv => DumpTypeOK
  BY DEF DumpInv
<1> QED
  BY <1>1, InitDumpInv, DumpStepKeeps, PTL DEF DumpSpec

\* dump_map_u32(): a dump without failing calls misses no key that was left
\* alone, however many writes and deletes of other keys it meets.
THEOREM DumpsAreComplete == DumpSpec => []DumpComplete
<1>1. DumpInv => DumpComplete
  BY DEF DumpInv, NothingSkipped, DumpComplete
<1> QED
  BY <1>1, InitDumpInv, DumpStepKeeps, PTL DEF DumpSpec

\* dump_map_u32(): what the result says of a key, the map said of that key at
\* some time of the dump, whatever is deleted or fails between the two calls.
THEOREM DumpsHaveNoGhosts == DumpSpec => []NoGhosts
<1> DEFINE Met == Entries \subseteq met /\ NoGhosts
<1>1. DumpInit => Met
  BY DEF DumpInit, NoGhosts, Reported, Nothing
<1>2. DumpTypeOK /\ Met /\ [DumpNext]_dump_vars => Met'
  <2> SUFFICES ASSUME DumpTypeOK, Met, [DumpNext]_dump_vars PROVE Met'
    OBVIOUS
  <2>1. CASE First \/ NextKey
    BY <2>1 DEF First, NextKey, map, Entries, Present, NoGhosts, Reported
  <2>2. CASE Lookup
    <3>1. Entries' = Entries /\ met' = met
      BY <2>2 DEF Lookup, map, Entries, Present
    <3>2. CASE res' = res
      BY <3>1, <3>2 DEF NoGhosts, Reported
    <3>3. CASE /\ current \in Present
               /\ res' = [res EXCEPT ![current] = stamp[current]]
      <4>1. <<current, stamp[current]>> \in met
        BY <3>3 DEF Entries
      <4>2. ASSUME NEW k \in Reported' PROVE <<k, res'[k]>> \in met
        <5>1. CASE k = current
          BY <3>3, <4>1, <5>1 DEF DumpTypeOK
        <5>2. CASE k # current
          BY <3>3, <4>2, <5>2 DEF DumpTypeOK, Reported, NoGhosts
        <5> QED
          BY <5>1, <5>2
      <4> QED
        BY <3>1, <4>2 DEF NoGhosts
    <3> QED
      BY <2>2, <3>2, <3>3 DEF Lookup
  <2>3. CASE Again
    BY <2>3 DEF Again, Entries, Present, Nothing, NoGhosts, Reported
  <2>4. ASSUME NEW k \in Keys, Write(k) PROVE Met'
    <3>1. Entries' \subseteq Entries \cup {<<k, writes'>>}
      BY <2>4 DEF Write, Entries, Present, DumpTypeOK
    <3> QED
      BY <2>4, <3>1 DEF Write, NoGhosts, Reported
  <2>5. ASSUME NEW k \in Keys, Delete(k) PROVE Met'
    <3>1. Entries' \subseteq Entries
      BY <2>5 DEF Delete, Entries, Present, DumpTypeOK
    <3> QED
      BY <2>5, <3>1 DEF Delete, NoGhosts, Reported
  <2>6. CASE UNCHANGED dump_vars
    BY <2>6 DEF dump_vars, map, Entries, Present, NoGhosts, Reported
  <2> QED
    BY <2>1, <2>2, <2>3, <2>4, <2>5, <2>6 DEF DumpNext, dump_map_u32
<1> QED
  BY <1>1, <1>2, DumpTypeCorrect, PTL DEF DumpSpec

-----------------------------------------------------------------------------
(* Positions and words of the ring.                                        *)

LEMMA AtIndex ==
  ASSUME NEW p \in Nat
  PROVE  At(p) \in 0 .. RING - 1
<1>1. RING \in Nat /\ RING > 0
  BY RingAssumption DEF RecordWords, EventWords
<1> QED
  BY <1>1 DEF At

\* Two positions less than a ring apart are different words of it.
LEMMA AtApart ==
  ASSUME NEW p \in Nat, NEW q \in Nat, p < q, q - p < RING
  PROVE  At(p) # At(q)
<1> DEFINE i == p \div RING
           j == q \div RING
           r == p % RING
<1>1. RING \in Nat /\ RING > 0
  BY RingAssumption DEF RecordWords, EventWords
<1> SUFFICES ASSUME q % RING = r PROVE FALSE
  BY DEF At
<1>2. i \in Nat /\ r \in Nat /\ r < RING /\ p = i * RING + r
  BY <1>1
<1>3. j \in Nat /\ q = j * RING + r
  BY <1>1
<1> HIDE DEF i, j, r
<1>4. CASE j <= i
  <2>1. j * RING <= i * RING
    BY <1>1, <1>2, <1>3, <1>4
  <2>2. j * RING \in Nat /\ i * RING \in Nat
    BY <1>1, <1>2, <1>3
  <2> QED
    BY <1>2, <1>3, <2>1, <2>2
<1>5. CASE j >= i + 1
  <2>1. (i + 1) * RING <= j * RING
    BY <1>1, <1>2, <1>3, <1>5
  <2>2. (i + 1) * RING = i * RING + RING
    BY <1>1, <1>2
  <2>3. j * RING \in Nat /\ i * RING \in Nat
    BY <1>1, <1>2, <1>3
  <2> QED
    BY <1>1, <1>2, <1>3, <2>1, <2>2, <2>3
<1> QED
  BY <1>2, <1>3, <1>4, <1>5

\* A position the kernel has passed by less than a ring.
Fresh(p) == p \in Nat /\ p < prod /\ prod - p < RING

LEMMA FreshApart ==
  ASSUME prod \in Nat, NEW p, NEW q, Fresh(p), Fresh(q), p # q
  PROVE  At(p) # At(q)
<1>1. p < q \/ q < p
  BY DEF Fresh
<1>2. RING \in Nat
  BY RingAssumption
<1>3. CASE p < q
  BY <1>2, <1>3, AtApart DEF Fresh
<1>4. CASE q < p
  BY <1>2, <1>4, AtApart DEF Fresh
<1> QED
  BY <1>1, <1>3, <1>4

Word(kind, n) == [kind |-> kind, of |-> n]

\* A word that is written holds what was written, every other what it held.
LEMMA PutAt ==
  ASSUME NEW S, NEW memory \in [0 .. RING - 1 -> S], NEW p \in Nat,
         NEW kind, NEW n
  PROVE  /\ Put(memory, p, kind, n)[At(p)] = Word(kind, n)
         /\ \A i \in 0 .. RING - 1 :
              i # At(p) => Put(memory, p, kind, n)[i] = memory[i]
         /\ Word(kind, n) \in S
              => Put(memory, p, kind, n) \in [0 .. RING - 1 -> S]
BY AtIndex DEF Put, Word

-----------------------------------------------------------------------------
(* The inductive invariant.                                                *)

Reserved(n) == \E c \in Cpus : held[c] = n
Unfilled(n) == \E c \in Cpus : held[c] = n /\ ~ filled[c]

\* The positions: neither what the dashboard has not given back nor a record
\* that is not complete is ever a ring's length behind the producer.
Positions ==
  /\ prod = Len(source) * RecordWords
  /\ upto <= prod
  /\ prod - cons < RING
  /\ \A c \in Cpus : held[c] # 0 => prod - Start(held[c]) < RING
  /\ pc = "event" => cons < upto

\* The reservations: a CPU fills what it holds, and no two hold the same.
Holders ==
  /\ \A i \in 0 .. RING - 1 : mem[i].kind # "zero" => mem[i].of # 0
  /\ \A c \in Cpus : filled[c] => held[c] # 0
  /\ \A c, d \in Cpus : held[c] = held[d] /\ held[c] # 0 => c = d

\* What the words of a record hold.
Record(n) ==
  /\ mem[At(Start(n))] = Word(IF Reserved(n) THEN "busy" ELSE "header", n)
  /\ ~ Unfilled(n) =>
       /\ mem[At(Start(n) + 1)] = Word("id", n)
       /\ mem[At(Start(n) + 4)] = Word("time", n)
       /\ source[n] \in V6 => /\ mem[At(Start(n) + 2)] = Word("addr", n)
                              /\ mem[At(Start(n) + 3)] = Word("addr", n)

\* What lies ahead of the consumer position is as the kernel wrote it.
Unread == \A n \in Events : Start(n) >= cons => Record(n)

\* An event is read only from a record that is complete.
Complete == (pc = "event" /\ AtRecord) => ~ Reserved(RecordHere)

IInv == TypeOK /\ Positions /\ Holders /\ Unread /\ Complete

\* Where the words of an event are.
LEMMA EventPlace ==
  ASSUME TypeOK, Positions, NEW n \in Events
  PROVE  /\ n \in Nat \ {0} /\ Start(n) \in Nat
         /\ Start(n) + 4 < prod
         /\ Start(n) % RecordWords = 0
         /\ Start(n) \div RecordWords = n - 1
<1>1. Len(source) \in Nat
  BY DEF TypeOK
<1>2. n \in Nat \ {0} /\ n <= Len(source)
  BY <1>1 DEF Events
<1> QED
  BY <1>1, <1>2 DEF Start, Positions, RecordWords, EventWords

\* The words from cons to prod, and those of a record that is held, are fresh.
LEMMA UnreadIsFresh ==
  ASSUME TypeOK, Positions, NEW p \in Nat, p >= cons, p < prod
  PROVE  Fresh(p)
BY RingAssumption DEF TypeOK, Positions, Fresh

LEMMA HeldIsFresh ==
  ASSUME TypeOK, Positions, NEW c \in Cpus, held[c] # 0, NEW i \in 0 .. 4
  PROVE  /\ held[c] \in Events
         /\ Start(held[c]) \in Nat
         /\ Fresh(Start(held[c]) + i)
<1> DEFINE n == held[c]
<1>1. n \in Events
  BY DEF TypeOK
<1>2. prod - Start(n) < RING
  BY DEF Positions
<1>3. Start(n) \in Nat /\ Start(n) + 4 < prod
  BY <1>1, EventPlace
<1>4. prod \in Nat /\ RING \in Nat
  BY RingAssumption DEF TypeOK
<1> HIDE DEF n
<1>5. Fresh(Start(n) + i)
  BY <1>2, <1>3, <1>4 DEF Fresh
<1> QED
  BY <1>1, <1>3, <1>5 DEF n

LEMMA UnreadRecord ==
  ASSUME TypeOK, Positions, NEW n \in Events, Start(n) >= cons, NEW i \in 0 .. 4
  PROVE  Start(n) \in Nat /\ Fresh(Start(n) + i)
<1>1. Start(n) \in Nat /\ Start(n) + 4 < prod
  BY EventPlace
<1>2. cons \in Nat /\ prod \in Nat
  BY DEF TypeOK
<1>3. Start(n) + i \in Nat /\ Start(n) + i >= cons /\ Start(n) + i < prod
  BY <1>1, <1>2
<1> QED
  BY <1>1, <1>3, UnreadIsFresh

LEMMA RecordsApart ==
  ASSUME NEW m \in Nat \ {0}, NEW n \in Nat \ {0}, m # n,
         NEW i \in 0 .. 4, NEW j \in 0 .. 4
  PROVE  Start(m) + i # Start(n) + j
BY DEF Start, RecordWords, EventWords

\* A CPU that completes its record leaves every record not yet read alone.
LEMMA OtherWords ==
  ASSUME TypeOK, Positions, NEW c \in Cpus, held[c] # 0, NEW i \in 0 .. 4,
         NEW m \in Events, m # held[c], Start(m) >= cons, NEW j \in 0 .. 4
  PROVE  At(Start(held[c]) + i) # At(Start(m) + j)
<1>1. held[c] \in Events /\ Fresh(Start(held[c]) + i)
  BY HeldIsFresh
<1>2. Fresh(Start(m) + j)
  BY UnreadRecord
<1>3. Start(held[c]) + i # Start(m) + j
  BY <1>1, EventPlace, RecordsApart
<1>4. prod \in Nat
  BY DEF TypeOK
<1> QED
  BY <1>1, <1>2, <1>3, <1>4, FreshApart

LEMMA OwnWords ==
  ASSUME TypeOK, Positions, NEW c \in Cpus, held[c] # 0, NEW i \in 0 .. 4,
         NEW j \in 0 .. 4, i # j
  PROVE  At(Start(held[c]) + i) # At(Start(held[c]) + j)
<1>1. /\ Start(held[c]) \in Nat
      /\ Fresh(Start(held[c]) + i)
      /\ Fresh(Start(held[c]) + j)
  BY HeldIsFresh
<1>2. Start(held[c]) + i # Start(held[c]) + j
  BY <1>1
<1>3. prod \in Nat
  BY DEF TypeOK
<1> QED
  BY <1>1, <1>2, <1>3, FreshApart

-----------------------------------------------------------------------------
(* The invariant holds at first, and every step of the kernel keeps it.    *)

LEMMA RingSize == RING \in Nat /\ RING > 5 /\ KEEP \in Nat \ {0}
BY RingAssumption DEF RecordWords, EventWords

LEMMA InitIInv == Init => IInv
<1> SUFFICES ASSUME Init PROVE IInv
  OBVIOUS
<1> USE RingSize DEF Init
<1>1. Events = {}
  BY DEF Events
<1>2. TypeOK
  BY DEF TypeOK, Kinds
<1>3. Positions
  BY DEF Positions, RecordWords, EventWords
<1>4. Holders
  BY DEF Holders
<1> QED
  BY <1>1, <1>2, <1>3, <1>4 DEF IInv, Unread, Complete

\* A reservation: the event N gets the words from prod on.
LEMMA ReserveFacts ==
  ASSUME IInv, NEW c \in Cpus, Reserve(c)
  PROVE  LET N == Len(source) + 1
         IN  /\ Len(source) \in Nat /\ N \in Nat \ {0}
             /\ Len(source') = N /\ source' \in Seq(Emitters)
             /\ Events' = Events \cup {N} /\ N \notin Events
             /\ \A n \in Events : source'[n] = source[n]
             /\ held[c] = 0 /\ held' = [held EXCEPT ![c] = N]
             /\ mem' = Put(mem, prod, "busy", N)
             /\ prod' = prod + 5 /\ prod = Start(N)
             /\ ~ filled[c] /\ filled' = filled
<1> DEFINE N == Len(source) + 1
<1>1. PICK s \in Emitters : source' = Append(source, s)
  BY DEF Reserve
<1>2. source \in Seq(Emitters)
  BY DEF IInv, TypeOK
<1>3. /\ Len(source) \in Nat /\ Len(source') = N
      /\ source' \in Seq(Emitters)
      /\ \A n \in 1 .. Len(source) : source'[n] = source[n]
  BY <1>1, <1>2
<1>4. Events' = Events \cup {N} /\ N \notin Events /\ N \in Nat \ {0}
  BY <1>3 DEF Events
<1>5. prod' = prod + 5 /\ prod = Start(N)
  BY <1>3 DEF Reserve, IInv, Positions, Start, RecordWords, EventWords
<1>6. ~ filled[c]
  BY DEF Reserve, IInv, Holders
<1>7. /\ held[c] = 0 /\ held' = [held EXCEPT ![c] = N]
      /\ mem' = Put(mem, prod, "busy", N) /\ filled' = filled
  BY <1>3 DEF Reserve
<1> QED
  BY <1>3, <1>4, <1>5, <1>6, <1>7 DEF Events

LEMMA ReserveKeeps ==
  ASSUME IInv, NEW c \in Cpus, Reserve(c)
  PROVE  IInv'
<1> DEFINE N == Len(source) + 1
<1>1. /\ Len(source) \in Nat /\ N \in Nat \ {0}
      /\ Len(source') = N /\ source' \in Seq(Emitters)
      /\ Events' = Events \cup {N} /\ N \notin Events
      /\ \A n \in Events : source'[n] = source[n]
      /\ held[c] = 0 /\ held' = [held EXCEPT ![c] = N]
      /\ mem' = Put(mem, prod, "busy", N)
      /\ prod' = prod + 5 /\ prod = Start(N)
      /\ ~ filled[c] /\ filled' = filled
  BY ReserveFacts
<1>2. TypeOK /\ Positions /\ Holders /\ Unread /\ Complete
  BY DEF IInv
<1>3. cons' = cons /\ pc' = pc /\ upto' = upto /\ mapped' = mapped
      /\ stride' = stride /\ shown' = shown
  BY DEF Reserve, dashboard
<1> HIDE DEF N
<1>4. /\ prod \in Nat /\ cons \in Nat /\ held \in [Cpus -> Events \cup {0}]
      /\ mem \in [0 .. RING - 1 -> [kind : Kinds, of : Events \cup {0}]]
  BY <1>2 DEF TypeOK
<1>5. /\ mem'[At(prod)] = Word("busy", N)
      /\ \A i \in 0 .. RING - 1 : i # At(prod) => mem'[i] = mem[i]
      /\ mem' \in [0 .. RING - 1 -> [kind : Kinds, of : Events' \cup {0}]]
  <2> DEFINE S == [kind : Kinds, of : Events' \cup {0}]
  <2>1. mem \in [0 .. RING - 1 -> S]
    BY <1>1, <1>4
  <2>2. Word("busy", N) \in S
    BY <1>1 DEF Word, Kinds
  <2>4. prod \in Nat
    BY <1>4
  <2> HIDE DEF S
  <2>3. /\ Put(mem, prod, "busy", N)[At(prod)] = Word("busy", N)
        /\ \A i \in 0 .. RING - 1 :
             i # At(prod) => Put(mem, prod, "busy", N)[i] = mem[i]
        /\ Put(mem, prod, "busy", N) \in [0 .. RING - 1 -> S]
    BY <2>1, <2>2, <2>4, AtIndex DEF Put, Word
  <2> QED
    BY <2>3, <1>1 DEF S
<1>6. TypeOK'
  BY <1>1, <1>2, <1>3, <1>4, <1>5 DEF TypeOK
<1>7. Positions'
  <2>1. prod' - cons < RING
    BY <1>1, <1>4, RingSize DEF Reserve, HasRoom, RecordWords, EventWords
  <2>2. \A d \in Cpus : held'[d] # 0 => prod' - Start(held'[d]) < RING
    <3> SUFFICES ASSUME NEW d \in Cpus, held'[d] # 0
                 PROVE  prod' - Start(held'[d]) < RING
      OBVIOUS
    <3>1. CASE d = c
      BY <3>1, <1>1, <1>4, RingSize
    <3>2. CASE d # c
      <4>1. held'[d] = held[d]
        BY <3>2, <1>1, <1>4
      <4>2. prod + 5 - Start(held[d]) < RING
        BY <4>1 DEF Reserve, HasRoom, RecordWords, EventWords
      <4>3. prod' = prod + 5
        BY <1>1
      <4>4. Start(held[d]) \in Nat
        BY <4>1, <1>2, HeldIsFresh
      <4> QED
        BY <4>1, <4>2, <4>3, <4>4, <1>4, RingSize
    <3> QED
      BY <3>1, <3>2
  <2>3. prod' = Len(source') * RecordWords
    BY <1>1, <1>2 DEF Positions, RecordWords, EventWords, N
  <2>4. upto \in Nat
    BY <1>2 DEF TypeOK
  <2> QED
    BY <2>1, <2>2, <2>3, <2>4, <1>1, <1>2, <1>3, <1>4 DEF Positions
<1>8. Holders'
  <2>1. \A i \in 0 .. RING - 1 : mem'[i].kind # "zero" => mem'[i].of # 0
    BY <1>1, <1>2, <1>5 DEF Holders, Word
  <2>2. \A d \in Cpus : d # c => held'[d] = held[d] /\ held[d] # N
    BY <1>1, <1>4
  <2>3. held'[c] = N
    BY <1>1, <1>4
  <2> QED
    BY <2>1, <2>2, <2>3, <1>1, <1>2, <1>3 DEF Holders
<1>9. \A n \in Events : /\ Reserved(n)' <=> Reserved(n)
                        /\ Unfilled(n)' <=> Unfilled(n)
  <2>1. \A d \in Cpus, n \in Events : held'[d] = n <=> held[d] = n
    BY <1>1, <1>4 DEF Events
  <2> QED
    BY <2>1, <1>1 DEF Reserved, Unfilled
<1>10. Unread'
  <2> SUFFICES ASSUME NEW n \in Events', Start(n) >= cons
               PROVE  Record(n)'
    BY <1>3 DEF Unread
  <2>1. CASE n = N
    <3>1. held'[c] = n /\ ~ filled'[c]
      BY <2>1, <1>1, <1>4
    <3>2. Reserved(n)' /\ Unfilled(n)'
      BY <3>1 DEF Reserved, Unfilled
    <3> QED
      BY <2>1, <3>2, <1>1, <1>5 DEF Record
  <2>2. CASE n \in Events
    <3>1. Start(n) \in Nat /\ Start(n) + 4 < prod
      BY <2>2, <1>2, EventPlace
    <3>2. \A i \in 0 .. 4 : At(Start(n) + i) # At(prod)
      <4> SUFFICES ASSUME NEW i \in 0 .. 4
                   PROVE  At(Start(n) + i) # At(prod)
        OBVIOUS
      <4>1. Start(n) + i \in Nat /\ Start(n) + i < prod
        BY <3>1, <1>4
      <4>2. prod + 5 - cons < RING
        BY <1>1, <1>4, RingSize DEF Reserve, HasRoom, RecordWords, EventWords
      <4>3. prod - (Start(n) + i) < RING
        BY <4>2, <3>1, <1>4, RingSize
      <4> QED
        BY <4>1, <4>3, <1>4, AtApart
    <3>3. \A i \in 0 .. 4 : mem'[At(Start(n) + i)] = mem[At(Start(n) + i)]
      <4> SUFFICES ASSUME NEW i \in 0 .. 4
                   PROVE  mem'[At(Start(n) + i)] = mem[At(Start(n) + i)]
        OBVIOUS
      <4>1. Start(n) + i \in Nat
        BY <3>1
      <4> QED
        BY <4>1, <3>2, <1>5, AtIndex
    <3>4. Start(n) + 0 = Start(n)
      BY <3>1
    <3>5. /\ mem'[At(Start(n))] = mem[At(Start(n))]
          /\ mem'[At(Start(n) + 1)] = mem[At(Start(n) + 1)]
          /\ mem'[At(Start(n) + 2)] = mem[At(Start(n) + 2)]
          /\ mem'[At(Start(n) + 3)] = mem[At(Start(n) + 3)]
          /\ mem'[At(Start(n) + 4)] = mem[At(Start(n) + 4)]
      BY <3>3, <3>4
    <3>6. Record(n)
      BY <2>2, <1>2 DEF Unread
    <3> QED
      BY <2>2, <3>5, <3>6, <1>1, <1>9 DEF Record
  <2> QED
    BY <2>1, <2>2, <1>1
<1>11. Complete'
  <2> SUFFICES ASSUME pc = "event", AtRecord'
               PROVE  ~ Reserved(RecordHere)'
    BY <1>3 DEF Complete
  <2>1. cons < upto /\ upto <= prod /\ upto \in Nat
    BY <1>2 DEF Positions, TypeOK
  <2>2. AtRecord /\ RecordHere' = RecordHere
    BY <2>1, <1>3, <1>4 DEF AtRecord, RecordHere
  <2>3. RecordHere \in Events
    BY <2>2, <1>1, <1>2, <1>4
    DEF AtRecord, RecordHere, Events, Positions, RecordWords, EventWords
  <2> QED
    BY <2>2, <2>3, <1>2, <1>9 DEF Complete, Reserved
<1> QED
  BY <1>6, <1>7, <1>8, <1>10, <1>11 DEF IInv

\* What filling a record writes: its words, and no word of another record.
LEMMA FillWrites ==
  ASSUME IInv, NEW c \in Cpus, Fill(c)
  PROVE  LET n == held[c]
             first == Start(n) + 1
         IN  /\ mem' \in [0 .. RING - 1 -> [kind : Kinds, of : Events \cup {0}]]
             /\ \A i \in 0 .. RING - 1 :
                  \/ mem'[i] = mem[i]
                  \/ mem'[i].of = n /\ \E j \in 1 .. 4 : i = At(Start(n) + j)
             /\ mem'[At(first)] = Word("id", n)
             /\ mem'[At(first + 3)] = Word("time", n)
             /\ source[n] \in V6 => /\ mem'[At(first + 1)] = Word("addr", n)
                                    /\ mem'[At(first + 2)] = Word("addr", n)
<1> DEFINE n == held[c]
           p == Start(n)
           S == [kind : Kinds, of : Events \cup {0}]
           M1 == Put(mem, p + 1, "id", n)
           M2 == Put(M1, p + 1 + 3, "time", n)
           M3 == Put(M2, p + 1 + 1, "addr", n)
           M4 == Put(M3, p + 1 + 2, "addr", n)
<1>1. /\ n # 0
      /\ mem' = IF source[n] \in V6 THEN M4 ELSE M2
  BY DEF Fill
<1>2. n \in Events /\ p \in Nat
  BY <1>1, HeldIsFresh, 0 \in 0 .. 4 DEF IInv
<1>3. \A i, j \in 0 .. 4 : i # j => At(p + i) # At(p + j)
  BY <1>1, OwnWords DEF IInv
<1>4. p + 1 + 1 = p + 2 /\ p + 1 + 2 = p + 3 /\ p + 1 + 3 = p + 4
  BY <1>2
<1>5. /\ p + 1 \in Nat /\ p + 2 \in Nat /\ p + 3 \in Nat /\ p + 4 \in Nat
      /\ At(p + 1) \in 0 .. RING - 1 /\ At(p + 2) \in 0 .. RING - 1
      /\ At(p + 3) \in 0 .. RING - 1 /\ At(p + 4) \in 0 .. RING - 1
  BY <1>2, AtIndex
<1>6. /\ At(p + 1) # At(p + 4) /\ At(p + 1) # At(p + 2)
      /\ At(p + 1) # At(p + 3) /\ At(p + 2) # At(p + 3)
      /\ At(p + 2) # At(p + 4) /\ At(p + 3) # At(p + 4)
  BY <1>3
<1>7. mem \in [0 .. RING - 1 -> S]
  BY DEF IInv, TypeOK
<1>8. Word("id", n) \in S /\ Word("time", n) \in S /\ Word("addr", n) \in S
  BY <1>2 DEF Word, Kinds
<1> HIDE DEF n, p, S
<1>9. /\ M1 \in [0 .. RING - 1 -> S]
      /\ M1[At(p + 1)] = Word("id", n)
      /\ \A i \in 0 .. RING - 1 : i # At(p + 1) => M1[i] = mem[i]
  BY <1>5, <1>7, <1>8 DEF Put, Word
<1> HIDE DEF M1
<1>10. /\ M2 \in [0 .. RING - 1 -> S]
       /\ M2[At(p + 4)] = Word("time", n)
       /\ \A i \in 0 .. RING - 1 : i # At(p + 4) => M2[i] = M1[i]
  BY <1>4, <1>5, <1>8, <1>9 DEF Put, Word
<1> HIDE DEF M2
<1>11. /\ M3 \in [0 .. RING - 1 -> S]
       /\ M3[At(p + 2)] = Word("addr", n)
       /\ \A i \in 0 .. RING - 1 : i # At(p + 2) => M3[i] = M2[i]
  BY <1>4, <1>5, <1>8, <1>10 DEF Put, Word
<1> HIDE DEF M3
<1>12. /\ M4 \in [0 .. RING - 1 -> S]
       /\ M4[At(p + 3)] = Word("addr", n)
       /\ \A i \in 0 .. RING - 1 : i # At(p + 3) => M4[i] = M3[i]
  BY <1>4, <1>5, <1>8, <1>11 DEF Put, Word
<1> HIDE DEF M4
<1>13. \A kind : Word(kind, n).of = n
  BY DEF Word
<1>14. 1 \in 1 .. 4 /\ 2 \in 1 .. 4 /\ 3 \in 1 .. 4 /\ 4 \in 1 .. 4
  OBVIOUS
<1>15. mem' \in [0 .. RING - 1 -> S]
  BY <1>1, <1>10, <1>12
<1>16. ASSUME NEW i \in 0 .. RING - 1
       PROVE  \/ mem'[i] = mem[i]
              \/ mem'[i].of = n /\ \E j \in 1 .. 4 : i = At(p + j)
  <2>1. \/ M2[i] = mem[i]
        \/ M2[i].of = n /\ \E j \in 1 .. 4 : i = At(p + j)
    <3>1. CASE i = At(p + 4)
      BY <3>1, <1>10, <1>13, <1>14
    <3>2. CASE i # At(p + 4) /\ i = At(p + 1)
      BY <3>2, <1>9, <1>10, <1>13, <1>14
    <3>3. CASE i # At(p + 4) /\ i # At(p + 1)
      BY <3>3, <1>9, <1>10
    <3> QED
      BY <3>1, <3>2, <3>3
  <2>2. \/ M4[i] = mem[i]
        \/ M4[i].of = n /\ \E j \in 1 .. 4 : i = At(p + j)
    <3>1. CASE i = At(p + 3)
      BY <3>1, <1>12, <1>13, <1>14
    <3>2. CASE i # At(p + 3) /\ i = At(p + 2)
      BY <3>2, <1>11, <1>12, <1>13, <1>14
    <3>3. CASE i # At(p + 3) /\ i # At(p + 2)
      BY <3>3, <2>1, <1>11, <1>12
    <3> QED
      BY <3>1, <3>2, <3>3
  <2> QED
    BY <2>1, <2>2, <1>1
<1>17. mem'[At(p + 1)] = Word("id", n)
  <2>1. M2[At(p + 1)] = Word("id", n)
    BY <1>5, <1>6, <1>9, <1>10
  <2>2. M4[At(p + 1)] = Word("id", n)
    BY <2>1, <1>5, <1>6, <1>11, <1>12
  <2> QED
    BY <2>1, <2>2, <1>1
<1>18. ASSUME source[n] \in V6
       PROVE  /\ mem'[At(p + 2)] = Word("addr", n)
              /\ mem'[At(p + 3)] = Word("addr", n)
  BY <1>1, <1>5, <1>6, <1>11, <1>12, <1>18
<1>19. mem'[At(p + 4)] = Word("time", n)
  <2>1. M4[At(p + 4)] = Word("time", n)
    BY <1>5, <1>6, <1>10, <1>11, <1>12
  <2> QED
    BY <2>1, <1>1, <1>10
<1> QED
  BY <1>4, <1>15, <1>16, <1>17, <1>18, <1>19 DEF n, p, S

\* A step that writes a record's words leaves every other unread one.
LEMMA OthersKept ==
  ASSUME IInv, NEW c \in Cpus, held[c] # 0,
         \A i \in 0 .. RING - 1 :
           \/ mem'[i] = mem[i]
           \/ \E j \in 0 .. 4 : i = At(Start(held[c]) + j),
         NEW m \in Events, m # held[c], Start(m) >= cons
  PROVE  /\ mem'[At(Start(m))] = mem[At(Start(m))]
         /\ mem'[At(Start(m) + 1)] = mem[At(Start(m) + 1)]
         /\ mem'[At(Start(m) + 2)] = mem[At(Start(m) + 2)]
         /\ mem'[At(Start(m) + 3)] = mem[At(Start(m) + 3)]
         /\ mem'[At(Start(m) + 4)] = mem[At(Start(m) + 4)]
<1>1. ASSUME NEW i \in 0 .. 4
      PROVE  mem'[At(Start(m) + i)] = mem[At(Start(m) + i)]
  <2>1. Start(m) + i \in Nat
    BY UnreadRecord DEF IInv
  <2>2. At(Start(m) + i) \in 0 .. RING - 1
    BY <2>1, AtIndex
  <2>3. \A j \in 0 .. 4 : At(Start(held[c]) + j) # At(Start(m) + i)
    BY OtherWords DEF IInv
  <2> QED
    BY <2>2, <2>3
<1>2. Start(m) \in Nat
  BY UnreadRecord, 0 \in 0 .. 4 DEF IInv
<1>3. Start(m) + 0 = Start(m)
  BY <1>2
<1>4. /\ 0 \in 0 .. 4 /\ 1 \in 0 .. 4 /\ 2 \in 0 .. 4 /\ 3 \in 0 .. 4
      /\ 4 \in 0 .. 4
  OBVIOUS
<1> HIDE DEF Start
<1> QED
  BY <1>1, <1>3, <1>4

LEMMA FillKeeps ==
  ASSUME IInv, NEW c \in Cpus, Fill(c)
  PROVE  IInv'
<1> DEFINE n == held[c]
<1>1. TypeOK /\ Positions /\ Holders /\ Unread /\ Complete
  BY DEF IInv
<1>2. /\ n # 0 /\ ~ filled[c]
      /\ filled' = [filled EXCEPT ![c] = TRUE]
      /\ prod' = prod /\ held' = held /\ source' = source
      /\ cons' = cons /\ pc' = pc /\ mapped' = mapped /\ upto' = upto
      /\ stride' = stride /\ shown' = shown
  BY DEF Fill, dashboard
<1>3. Events' = Events
  BY <1>2 DEF Events
<1>4. /\ mem' \in [0 .. RING - 1 -> [kind : Kinds, of : Events \cup {0}]]
      /\ \A i \in 0 .. RING - 1 :
           \/ mem'[i] = mem[i]
           \/ mem'[i].of = n /\ \E j \in 1 .. 4 : i = At(Start(n) + j)
      /\ mem'[At(Start(n) + 1)] = Word("id", n)
      /\ mem'[At(Start(n) + 1 + 3)] = Word("time", n)
      /\ source[n] \in V6 => /\ mem'[At(Start(n) + 1 + 1)] = Word("addr", n)
                             /\ mem'[At(Start(n) + 1 + 2)] = Word("addr", n)
  BY FillWrites
<1>5. n \in Events /\ Start(n) \in Nat
  BY <1>1, <1>2, HeldIsFresh, 0 \in 0 .. 4
<1> HIDE DEF n
<1>6. TypeOK'
  BY <1>1, <1>2, <1>3, <1>4 DEF TypeOK
<1>7. Positions'
  BY <1>1, <1>2 DEF Positions
<1>8. filled[c] \in BOOLEAN /\ filled' \in [Cpus -> BOOLEAN] /\ filled'[c]
      /\ \A d \in Cpus : d # c => filled'[d] = filled[d]
  BY <1>1, <1>2 DEF TypeOK
<1>9. Holders'
  <2>1. \A i \in 0 .. RING - 1 : mem'[i].kind # "zero" => mem'[i].of # 0
    BY <1>1, <1>2, <1>4 DEF Holders
  <2>2. \A d \in Cpus : filled'[d] => held'[d] # 0
    BY <1>1, <1>2, <1>8 DEF Holders, n
  <2> QED
    BY <2>1, <2>2, <1>1, <1>2 DEF Holders
<1>10. \A m : Reserved(m)' <=> Reserved(m)
  BY <1>2 DEF Reserved
<1>11. \A m : m # n => (Unfilled(m)' <=> Unfilled(m))
  BY <1>2, <1>8 DEF Unfilled, n
<1>12. Reserved(n) /\ ~ Unfilled(n)'
  <2>1. \A d \in Cpus : held[d] = n => d = c
    BY <1>1, <1>2 DEF Holders, n
  <2> QED
    BY <2>1, <1>2, <1>8 DEF Reserved, Unfilled, n
<1>13. Unread'
  <2> SUFFICES ASSUME NEW m \in Events, Start(m) >= cons
               PROVE  Record(m)'
    BY <1>2, <1>3 DEF Unread
  <2>1. Record(m)
    BY <1>1 DEF Unread
  <2>2. CASE m = n
    <3>1. \A j \in 1 .. 4 : At(Start(n)) # At(Start(n) + j)
      <4>1. \A j \in 1 .. 4 : At(Start(n) + 0) # At(Start(n) + j)
        BY <1>1, <1>2, OwnWords DEF n
      <4>2. Start(n) + 0 = Start(n)
        BY <1>5
      <4> QED
        BY <4>1, <4>2
    <3>2. mem'[At(Start(n))] = mem[At(Start(n))]
      BY <3>1, <1>4, <1>5, AtIndex
    <3>3. /\ Start(n) + 1 + 1 = Start(n) + 2 /\ Start(n) + 1 + 2 = Start(n) + 3
          /\ Start(n) + 1 + 3 = Start(n) + 4
      BY <1>5
    <3>4. /\ mem'[At(Start(n) + 1)] = Word("id", n)
          /\ mem'[At(Start(n) + 4)] = Word("time", n)
          /\ source[n] \in V6 => /\ mem'[At(Start(n) + 2)] = Word("addr", n)
                                 /\ mem'[At(Start(n) + 3)] = Word("addr", n)
      BY <3>3, <1>4
    <3>5. Reserved(m) /\ Reserved(m)'
      BY <2>2, <1>10, <1>12
    <3> QED
      BY <2>1, <2>2, <3>2, <3>4, <3>5, <1>2 DEF Record
  <2>3. CASE m # n
    <3>1. \A i \in 0 .. RING - 1 :
            \/ mem'[i] = mem[i]
            \/ \E j \in 0 .. 4 : i = At(Start(n) + j)
      <4>1. \A j \in 1 .. 4 : j \in 0 .. 4
        OBVIOUS
      <4> QED
        BY <4>1, <1>4
    <3>2. /\ mem'[At(Start(m))] = mem[At(Start(m))]
          /\ mem'[At(Start(m) + 1)] = mem[At(Start(m) + 1)]
          /\ mem'[At(Start(m) + 2)] = mem[At(Start(m) + 2)]
          /\ mem'[At(Start(m) + 3)] = mem[At(Start(m) + 3)]
          /\ mem'[At(Start(m) + 4)] = mem[At(Start(m) + 4)]
      BY <2>3, <3>1, <1>2, OthersKept DEF n
    <3> QED
      BY <2>1, <2>3, <3>2, <1>2, <1>10, <1>11 DEF Record
  <2> QED
    BY <2>2, <2>3
<1>14. Complete'
  BY <1>1, <1>2, <1>10 DEF Complete, AtRecord, RecordHere, Reserved
<1> QED
  BY <1>6, <1>7, <1>9, <1>13, <1>14 DEF IInv

LEMMA SubmitKeeps ==
  ASSUME IInv, NEW c \in Cpus, Submit(c)
  PROVE  IInv'
<1> DEFINE n == held[c]
<1>1. TypeOK /\ Positions /\ Holders /\ Unread /\ Complete
  BY DEF IInv
<1>2. /\ filled[c] /\ n # 0
      /\ mem' = Put(mem, Start(n), "header", n)
      /\ filled' = [filled EXCEPT ![c] = FALSE]
      /\ held' = [held EXCEPT ![c] = 0]
      /\ prod' = prod /\ source' = source
      /\ cons' = cons /\ pc' = pc /\ mapped' = mapped /\ upto' = upto
      /\ stride' = stride /\ shown' = shown
  BY <1>1 DEF Submit, dashboard, Holders
<1>3. Events' = Events
  BY <1>2 DEF Events
<1>4. n \in Events /\ Start(n) \in Nat
  BY <1>1, <1>2, HeldIsFresh, 0 \in 0 .. 4
<1> DEFINE S == [kind : Kinds, of : Events \cup {0}]
<1>5. mem \in [0 .. RING - 1 -> S] /\ Word("header", n) \in S
  BY <1>1, <1>4 DEF TypeOK, Word, Kinds
<1>6. /\ held \in [Cpus -> Events \cup {0}] /\ filled \in [Cpus -> BOOLEAN]
      /\ held' \in [Cpus -> Events \cup {0}] /\ held'[c] = 0
      /\ filled' \in [Cpus -> BOOLEAN] /\ ~ filled'[c]
      /\ \A d \in Cpus : d # c => held'[d] = held[d] /\ filled'[d] = filled[d]
  BY <1>1, <1>2 DEF TypeOK
<1> HIDE DEF n, S
<1>7. /\ mem' \in [0 .. RING - 1 -> S]
      /\ mem'[At(Start(n))] = Word("header", n)
      /\ \A i \in 0 .. RING - 1 : i # At(Start(n)) => mem'[i] = mem[i]
  BY <1>2, <1>4, <1>5, AtIndex DEF Put, Word
<1>8. TypeOK'
  BY <1>1, <1>2, <1>3, <1>6, <1>7 DEF TypeOK, S
<1>9. Positions'
  BY <1>1, <1>2, <1>6 DEF Positions
<1>10. Holders'
  <2>1. \A i \in 0 .. RING - 1 : mem'[i].kind # "zero" => mem'[i].of # 0
    BY <1>1, <1>2, <1>7 DEF Holders, Word
  <2>2. \A d \in Cpus : filled'[d] => held'[d] # 0
    BY <1>1, <1>6 DEF Holders
  <2>3. \A d, e \in Cpus : held'[d] = held'[e] /\ held'[d] # 0 => d = e
    BY <1>1, <1>6 DEF Holders
  <2> QED
    BY <2>1, <2>2, <2>3, <1>1, <1>2 DEF Holders
<1>11. \A m \in Events : m # n => /\ Reserved(m)' <=> Reserved(m)
                                  /\ Unfilled(m)' <=> Unfilled(m)
  <2>1. \A d \in Cpus, m \in Events : m # n => (held'[d] = m <=> held[d] = m)
    <3>1. 0 \notin Events
      BY DEF Events
    <3> QED
      BY <3>1, <1>6 DEF n
  <2>2. \A d \in Cpus, m \in Events : held'[d] = m => d # c
    BY <1>6 DEF Events
  <2>3. \A d \in Cpus, m \in Events : m # n /\ held[d] = m => d # c
    BY DEF n
  <2> QED
    BY <2>1, <2>2, <2>3, <1>6 DEF Reserved, Unfilled
<1>12. \A d \in Cpus : held[d] = n => d = c
  BY <1>1, <1>2 DEF Holders, n
<1>13. ~ Unfilled(n) /\ \A d \in Cpus : held'[d] # n
  <2>1. ~ Unfilled(n)
    BY <1>2, <1>12 DEF Unfilled
  <2>2. ASSUME NEW d \in Cpus PROVE held'[d] # n
    BY <1>2, <1>6, <1>12
  <2> QED
    BY <2>1, <2>2
<1>14. Unread'
  <2> SUFFICES ASSUME NEW m \in Events, Start(m) >= cons
               PROVE  Record(m)'
    BY <1>2, <1>3 DEF Unread
  <2>1. Record(m)
    BY <1>1 DEF Unread
  <2>2. CASE m = n
    <3>1. \A j \in 1 .. 4 : At(Start(n)) # At(Start(n) + j)
      <4>1. \A j \in 1 .. 4 : At(Start(n) + 0) # At(Start(n) + j)
        BY <1>1, <1>2, OwnWords DEF n
      <4>2. Start(n) + 0 = Start(n)
        BY <1>4
      <4> QED
        BY <4>1, <4>2
    <3>2. \A j \in 1 .. 4 : mem'[At(Start(n) + j)] = mem[At(Start(n) + j)]
      <4> SUFFICES ASSUME NEW j \in 1 .. 4
                   PROVE  mem'[At(Start(n) + j)] = mem[At(Start(n) + j)]
        OBVIOUS
      <4>1. Start(n) + j \in Nat
        BY <1>4
      <4> QED
        BY <4>1, <3>1, <1>7, AtIndex
    <3>3. ~ Reserved(m)'
      BY <2>2, <1>13 DEF Reserved
    <3> QED
      BY <2>1, <2>2, <3>2, <3>3, <1>2, <1>7, <1>13 DEF Record
  <2>3. CASE m # n
    <3>1. \A i \in 0 .. RING - 1 :
            \/ mem'[i] = mem[i]
            \/ \E j \in 0 .. 4 : i = At(Start(n) + j)
      <4>1. 0 \in 0 .. 4 /\ Start(n) + 0 = Start(n)
        BY <1>4
      <4> QED
        BY <4>1, <1>7
    <3>2. /\ mem'[At(Start(m))] = mem[At(Start(m))]
          /\ mem'[At(Start(m) + 1)] = mem[At(Start(m) + 1)]
          /\ mem'[At(Start(m) + 2)] = mem[At(Start(m) + 2)]
          /\ mem'[At(Start(m) + 3)] = mem[At(Start(m) + 3)]
          /\ mem'[At(Start(m) + 4)] = mem[At(Start(m) + 4)]
      BY <2>3, <3>1, <1>2, OthersKept DEF n
    <3> QED
      BY <2>1, <2>3, <3>2, <1>2, <1>11 DEF Record
  <2> QED
    BY <2>2, <2>3
<1>15. Complete'
  <2> SUFFICES ASSUME pc = "event", AtRecord
               PROVE  ~ Reserved(RecordHere)'
    BY <1>2 DEF Complete, AtRecord
  <2>1. RecordHere # 0 /\ RecordHere' = RecordHere
    BY <1>1, <1>2 DEF RecordHere, RecordWords, EventWords, TypeOK
  <2>2. ~ Reserved(RecordHere)
    BY <1>1 DEF Complete
  <2>3. ASSUME NEW d \in Cpus, held'[d] = RecordHere PROVE FALSE
    BY <2>1, <2>2, <2>3, <1>6 DEF Reserved
  <2> QED
    BY <2>1, <2>3 DEF Reserved
<1> QED
  BY <1>8, <1>9, <1>10, <1>14, <1>15 DEF IInv

-----------------------------------------------------------------------------
(* The steps of the dashboard.                                             *)

\* What a word is as a header has a length in any case.
LEMMA HeaderType ==
  ASSUME NEW word, NEW header \in Headers(word)
  PROVE  header.words \in Nat
BY RingAssumption DEF Headers, EventWords

\* A record at whose boundary the dashboard stands is one of the events.
LEMMA RecordIsHere ==
  ASSUME TypeOK, Positions, AtRecord
  PROVE  RecordHere \in Events /\ Start(RecordHere) = cons
<1>1. /\ Len(source) \in Nat /\ cons \in Nat
      /\ cons < Len(source) * 5 /\ cons % 5 = 0
  BY DEF TypeOK, Positions, AtRecord, RecordWords, EventWords
<1>2. cons = (cons \div 5) * 5 /\ cons \div 5 \in Nat
  BY <1>1
<1>3. cons \div 5 < Len(source)
  BY <1>1, <1>2
<1> QED
  BY <1>1, <1>2, <1>3 DEF RecordHere, Start, Events, RecordWords, EventWords

\* The kernel's part of the invariant needs only that the kernel rests and
\* that the consumer position does not go back.
LEMMA KernelRests ==
  ASSUME IInv, UNCHANGED kernel, cons' \in Nat, cons' >= cons,
         upto' <= prod, pc' = "event" => cons' < upto'
  PROVE  Positions' /\ Holders' /\ Unread'
<1>1. TypeOK /\ Positions /\ Holders /\ Unread
  BY DEF IInv
<1>2. /\ mem' = mem /\ prod' = prod /\ held' = held
      /\ filled' = filled /\ source' = source
  BY DEF kernel
<1>3. cons \in Nat /\ prod \in Nat
  BY <1>1 DEF TypeOK
<1>4. Positions'
  BY <1>1, <1>2, <1>3, RingSize DEF Positions
<1>5. Holders'
  BY <1>1, <1>2 DEF Holders
<1>6. Events' = Events /\ \A n : Record(n)' <=> Record(n)
  BY <1>2 DEF Events, Record, Reserved, Unfilled
<1>7. Unread'
  <2> SUFFICES ASSUME NEW n \in Events, Start(n) >= cons'
               PROVE  Record(n)
    BY <1>6 DEF Unread
  <2>1. Start(n) \in Nat
    BY <1>1, EventPlace
  <2>2. Start(n) >= cons
    BY <2>1, <1>3
  <2> QED
    BY <2>2, <1>1 DEF Unread
<1> QED
  BY <1>4, <1>5, <1>7

LEMMA ReadHeaderKeeps == IInv /\ ReadHeader => IInv'
<1> SUFFICES ASSUME IInv, ReadHeader PROVE IInv'
  OBVIOUS
<1> DEFINE word == mem[At(cons)]
<1>0. PICK header \in Headers(word) :
        /\ pc = "header" /\ cons < upto
        /\ IF header.skip
           THEN /\ pc' = IF header.words = 0 THEN "idle" ELSE "advance"
                /\ stride' = header.words
           ELSE /\ pc' = IF At(cons) + RecordWords > mapped THEN "idle"
                         ELSE "event"
                /\ stride' = IF header.words = 0 THEN 1 ELSE header.words
        /\ UNCHANGED <<kernel, cons, mapped, upto, shown>>
  BY DEF ReadHeader
<1>1. TypeOK /\ Positions /\ Unread
  BY DEF IInv
<1>2. cons \in Nat /\ At(cons) \in 0 .. RING - 1
  BY <1>1, AtIndex DEF TypeOK
<1>3. header.words \in Nat
  BY HeaderType
<1>4. /\ pc = "header" /\ cons < upto /\ UNCHANGED kernel
      /\ cons' = cons /\ mapped' = mapped /\ upto' = upto /\ shown' = shown
      /\ pc' \in {"idle", "advance", "event"}
      /\ stride' \in Nat
      /\ pc' = "event" => ~ header.skip
  BY <1>0, <1>3
<1>8. word.kind = "busy" => header = [skip |-> TRUE, words |-> EventWords]
  BY DEF Headers
<1> HIDE DEF word
<1>5. Positions' /\ Holders' /\ Unread'
  BY <1>1, <1>2, <1>4, KernelRests DEF Positions
<1>6. TypeOK'
  BY <1>1, <1>4 DEF TypeOK, kernel, Events
<1>7. Complete'
  <2> SUFFICES ASSUME pc' = "event", AtRecord, Reserved(RecordHere)
               PROVE  FALSE
    BY <1>4 DEF Complete, AtRecord, RecordHere, Reserved, kernel
  <2>1. RecordHere \in Events /\ Start(RecordHere) = cons
    BY <1>1, RecordIsHere
  <2>2. Record(RecordHere)
    BY <2>1, <1>1, <1>2 DEF Unread
  <2>3. word.kind = "busy"
    BY <2>1, <2>2 DEF Record, Word, word
  <2> QED
    BY <2>3, <1>4, <1>8
<1> QED
  BY <1>5, <1>6, <1>7 DEF IInv

\* What the dashboard makes of an event is an address or unknown, and a time.
LEMMA EntryType ==
  ASSUME IInv, NEW p \in Nat
  PROVE  [address |-> Text(AddressAt(p)), time |-> TimeAt(p)] \in Entry
<1>1. /\ mem \in [0 .. RING - 1 -> [kind : Kinds, of : Events \cup {0}]]
      /\ source \in Seq(Emitters)
      /\ \A i \in 0 .. RING - 1 : mem[i].kind # "zero" => mem[i].of # 0
  BY DEF IInv, TypeOK, Holders
<1>2. \A n \in Events : source[n] \in V4 \cup V6
  BY <1>1, RingAssumption DEF Events
<1>3. \A i \in 0 .. RING - 1 :
        mem[i].kind \in {"id", "addr"} => mem[i].of \in Events
  BY <1>1
<1>4. /\ At(p) \in 0 .. RING - 1 /\ At(p + 1) \in 0 .. RING - 1
      /\ At(p + 3) \in 0 .. RING - 1
  BY AtIndex
<1> DEFINE id == mem[At(p)]
           high == mem[At(p + 1)]
           low == mem[At(p + 2)]
<1>6. id.kind = "id" => id.of \in Events
  BY <1>3, <1>4
<1>7. high.kind = "addr" => high.of \in Events
  BY <1>3, <1>4
<1>8. AddressAt(p) =
        CASE id.kind = "id" /\ source[id.of] \in V4 -> source[id.of]
          [] id.kind = "id" /\ source[id.of] \in V6
               /\ high.kind = "addr" /\ high = low -> source[high.of]
          [] OTHER -> Garbage
  BY DEF AddressAt
<1> HIDE DEF id, high, low
<1>9. AddressAt(p) \in V4 \cup V6 \cup {Garbage}
  BY <1>2, <1>6, <1>7, <1>8, RingAssumption
<1>10. Text(AddressAt(p)) \in V4 \cup V6 \cup {Garbage}
  BY <1>9, RingAssumption DEF Text
<1>11. TimeAt(p) \in Nat
  BY <1>1, <1>4 DEF TimeAt, Events
<1> QED
  BY <1>10, <1>11 DEF Entry

\* Of all that were read the dashboard keeps the last, and never too many.
LEMMA LastRemembered ==
  ASSUME NEW S, NEW events \in Seq(S), NEW e \in S
  PROVE  LET kept == Remembered(Append(events, e))
         IN  /\ kept \in Seq(S) /\ Len(kept) <= KEEP
             /\ kept[Len(kept)] = e
<1> DEFINE all == Append(events, e)
           first == IF Len(all) > KEEP THEN Len(all) - KEEP + 1 ELSE 1
           kept == Remembered(all)
<1>1. /\ all \in Seq(S) /\ Len(events) \in Nat
      /\ Len(all) = Len(events) + 1 /\ all[Len(all)] = e
  OBVIOUS
<1> HIDE DEF all
<1>2. Len(all) \in Nat
  BY <1>1
<1>3. /\ first \in 1 .. Len(all) /\ Len(all) - first + 1 <= KEEP
  BY <1>1, <1>2, RingSize
<1>4. kept = SubSeq(all, first, Len(all))
  BY DEF Remembered
<1> HIDE DEF first
<1>5. /\ kept \in Seq(S)
      /\ Len(kept) = Len(all) - first + 1
      /\ kept[Len(kept)] = all[Len(all)]
  <2>1. first \in 1 .. Len(all) + 1 /\ Len(all) \in first - 1 .. Len(all)
    BY <1>2, <1>3
  <2>2. /\ SubSeq(all, first, Len(all)) \in Seq(S)
        /\ Len(SubSeq(all, first, Len(all)))
             = IF first <= Len(all) THEN Len(all) - first + 1 ELSE 0
        /\ \A i \in 1 .. Len(all) - first + 1 :
             SubSeq(all, first, Len(all))[i] = all[first + i - 1]
    BY <1>1, <2>1, SubSeqProperties
  <2>3. Len(all) - first + 1 \in 1 .. Len(all) - first + 1
        /\ first + (Len(all) - first + 1) - 1 = Len(all)
    BY <1>2, <1>3
  <2> QED
    BY <1>3, <1>4, <2>2, <2>3
<1> QED
  BY <1>1, <1>3, <1>5 DEF all

LEMMA ReadEventKeeps == IInv /\ ReadEvent => IInv'
<1> SUFFICES ASSUME IInv, ReadEvent PROVE IInv'
  OBVIOUS
<1>1. TypeOK /\ Positions
  BY DEF IInv
<1>2. /\ UNCHANGED kernel /\ pc' = "advance" /\ cons' = cons
      /\ mapped' = mapped /\ upto' = upto /\ stride' = stride
      /\ shown' = Remembered(Append(shown,
                     [address |-> Text(AddressAt(cons + 1)),
                      time |-> TimeAt(cons + 1)]))
  BY DEF ReadEvent
<1>3. cons \in Nat /\ cons + 1 \in Nat
  BY <1>1 DEF TypeOK
<1>4. Positions' /\ Holders' /\ Unread'
  BY <1>1, <1>2, <1>3, KernelRests DEF Positions
<1>5. /\ [address |-> Text(AddressAt(cons + 1)), time |-> TimeAt(cons + 1)]
            \in Entry
      /\ shown \in Seq(Entry)
  BY <1>1, <1>3, EntryType DEF TypeOK
<1>6. shown' \in Seq(Entry) /\ Len(shown') <= KEEP
  BY <1>2, <1>5, LastRemembered
<1>7. TypeOK'
  BY <1>1, <1>2, <1>6 DEF TypeOK, kernel, Events
<1> QED
  BY <1>2, <1>4, <1>7 DEF IInv, Complete

LEMMA AdvanceKeeps == IInv /\ Advance => IInv'
<1> SUFFICES ASSUME IInv, Advance PROVE IInv'
  OBVIOUS
<1>1. TypeOK /\ Positions
  BY DEF IInv
<1>2. /\ UNCHANGED kernel /\ pc' = "header" /\ cons' = cons + stride
      /\ mapped' = mapped /\ upto' = upto /\ stride' = stride
      /\ shown' = shown
  BY DEF Advance
<1>3. cons' \in Nat /\ cons' >= cons
  BY <1>1, <1>2 DEF TypeOK
<1>4. Positions' /\ Holders' /\ Unread'
  BY <1>1, <1>2, <1>3, KernelRests DEF Positions
<1>5. TypeOK'
  BY <1>1, <1>2, <1>3 DEF TypeOK, kernel, Events
<1> QED
  BY <1>2, <1>4, <1>5 DEF IInv, Complete

\* The steps that read nothing from the ring.
LEMMA OtherKeeps ==
  IInv /\ (Drain \/ Drained \/ open_ringbuf \/ Exit) => IInv'
<1> SUFFICES ASSUME IInv, Drain \/ Drained \/ open_ringbuf \/ Exit PROVE IInv'
  OBVIOUS
<1>1. TypeOK /\ Positions
  BY DEF IInv
<1>2. /\ UNCHANGED kernel /\ pc' \in {"closed", "idle", "header"}
      /\ cons' = cons /\ mapped' \in {0, RING, 2 * RING}
      /\ upto' \in {upto, prod} /\ stride' = stride
      /\ shown' \in {shown, <<>>}
  BY <1>1 DEF Drain, Drained, open_ringbuf, Exit, TypeOK
<1>3. cons \in Nat /\ prod \in Nat
  BY <1>1 DEF TypeOK
<1>4. Positions' /\ Holders' /\ Unread'
  <2>1. upto' <= prod
    BY <1>1, <1>2, <1>3 DEF Positions
  <2> QED
    BY <2>1, <1>2, <1>3, KernelRests
<1>5. TypeOK'
  <2>1. upto' \in Nat
    BY <1>1, <1>2, <1>3 DEF TypeOK
  <2>2. shown' \in Seq(Entry) /\ Len(shown') <= KEEP
    <3>1. CASE shown' = shown
      BY <3>1, <1>1 DEF TypeOK
    <3>2. CASE shown' = <<>>
      <4>1. shown' \in Seq(Entry) /\ Len(shown') = 0
        BY <3>2
      <4> QED
        BY <4>1, RingSize
    <3> QED
      BY <3>1, <3>2, <1>2
  <2> QED
    BY <2>1, <2>2, <1>1, <1>2, <1>3 DEF TypeOK, kernel, Events
<1> QED
  BY <1>2, <1>4, <1>5 DEF IInv, Complete

LEMMA NextIInv == IInv /\ [Next]_vars => IInv'
<1> SUFFICES ASSUME IInv, [Next]_vars PROVE IInv'
  OBVIOUS
<1>1. CASE Emit
  BY <1>1, ReserveKeeps, FillKeeps, SubmitKeeps DEF Emit
<1>2. CASE open_ringbuf \/ Exit \/ Drain \/ Drained
  BY <1>2, OtherKeeps
<1>3. CASE ReadHeader
  BY <1>3, ReadHeaderKeeps
<1>4. CASE ReadEvent
  BY <1>4, ReadEventKeeps
<1>5. CASE Advance
  BY <1>5, AdvanceKeeps
<1>6. CASE UNCHANGED vars
  <2>1. /\ UNCHANGED kernel /\ cons' = cons /\ pc' = pc /\ mapped' = mapped
        /\ upto' = upto /\ stride' = stride /\ shown' = shown
    BY <1>6 DEF vars, dashboard
  <2>2. TypeOK /\ Positions /\ cons \in Nat
    BY DEF IInv, TypeOK
  <2>3. Positions' /\ Holders' /\ Unread'
    BY <2>1, <2>2, KernelRests DEF Positions
  <2>4. TypeOK' /\ Complete'
    BY <2>1, <2>2 DEF TypeOK, kernel, Events, IInv, Complete, AtRecord,
                      RecordHere, Reserved
  <2> QED
    BY <2>3, <2>4 DEF IInv
<1> QED
  BY <1>1, <1>2, <1>3, <1>4, <1>5, <1>6 DEF Next, drain_ringbuf

-----------------------------------------------------------------------------
(* The theorems.                                                           *)

LEMMA RingInvariant == Spec => []IInv
<1> QED
  BY InitIInv, NextIInv, PTL DEF Spec

\* The variables of the ring keep their types, whatever word the dashboard
\* takes for a header.
THEOREM RingTypeCorrect == Spec => []TypeOK
<1>1. IInv => TypeOK
  BY DEF IInv
<1> QED
  BY <1>1, RingInvariant, PTL

\* At the boundary of a record the dashboard reads the event the kernel put
\* there: the record is complete, and none of its words was overwritten.
THEOREM RecordsAreTrue == Spec => TrueAtRecord
<1>1. ASSUME IInv, ReadEvent, AtRecord
      PROVE  /\ AddressAt(cons + 1) = source[RecordHere]
             /\ Last(shown').time = RecordHere
  <2> DEFINE n == RecordHere
  <2>1. TypeOK /\ Positions /\ Unread /\ Complete
    BY <1>1 DEF IInv
  <2>2. n \in Events /\ Start(n) = cons /\ cons \in Nat
    BY <1>1, <2>1, RecordIsHere DEF TypeOK
  <2>3. Record(n) /\ ~ Reserved(n)
    BY <1>1, <2>1, <2>2 DEF Unread, Complete, ReadEvent
  <2>4. ~ Unfilled(n)
    BY <2>3 DEF Reserved, Unfilled
  <2>5. source[n] \in V4 \cup V6 /\ V4 \cap V6 = {}
    BY <2>1, <2>2, RingAssumption DEF TypeOK, Events
  <2>6. /\ mem[At(cons + 1)] = Word("id", n)
        /\ mem[At(cons + 1 + 3)] = Word("time", n)
        /\ source[n] \in V6 => /\ mem[At(cons + 1 + 1)] = Word("addr", n)
                               /\ mem[At(cons + 1 + 2)] = Word("addr", n)
    <3>1. /\ cons + 1 + 1 = cons + 2 /\ cons + 1 + 2 = cons + 3
          /\ cons + 1 + 3 = cons + 4
      BY <2>2
    <3> QED
      BY <3>1, <2>2, <2>3, <2>4 DEF Record
  <2> DEFINE entry == [address |-> Text(AddressAt(cons + 1)),
                       time |-> TimeAt(cons + 1)]
  <2>8. entry \in Entry /\ shown \in Seq(Entry)
    BY <1>1, <2>1, <2>2, EntryType DEF TypeOK
  <2>9. shown' = Remembered(Append(shown, entry))
    BY <1>1 DEF ReadEvent
  <2> HIDE DEF n
  <2>7. AddressAt(cons + 1) = source[n]
    <3>1. CASE source[n] \in V4
      BY <3>1, <2>5, <2>6 DEF AddressAt, Word
    <3>2. CASE source[n] \in V6
      BY <3>2, <2>5, <2>6 DEF AddressAt, Word
    <3> QED
      BY <3>1, <3>2, <2>5
  <2>10. TimeAt(cons + 1) = n
    BY <2>6 DEF TimeAt, Word
  <2>11. entry.time = n
    BY <2>10
  <2> HIDE DEF entry
  <2>12. Last(shown') = entry
    BY <2>8, <2>9, LastRemembered DEF Last
  <2> QED
    BY <2>7, <2>11, <2>12 DEF n
<1>2. IInv /\ [Next]_vars =>
        [ (ReadEvent /\ AtRecord)
            => /\ AddressAt(cons + 1) = source[RecordHere]
               /\ Last(shown').time = RecordHere ]_vars
  BY <1>1
<1> QED
  BY <1>2, RingInvariant, PTL DEF Spec, TrueAtRecord

=============================================================================
