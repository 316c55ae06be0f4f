------------------------------ MODULE EventRing ------------------------------
(***************************************************************************)
(* The ring buffer between the XDP program and the dashboard.              *)
(*                                                                         *)
(* Memory is counted in words of 8 bytes.  A record is a header, which the *)
(* kernel marks busy until the record is submitted, and an attack_event of *)
(* four words: family, reason and IPv4 address in the first, the IPv6      *)
(* address in the next two, the time in the last.  An IPv4 event leaves    *)
(* the two address words as they were.                                     *)
(*                                                                         *)
(* The dashboard maps that memory and reads it without a system call.  Any *)
(* word may become a header to it: what it makes of a word is Headers.     *)
(* The reservation is the kernel's (external), the mapping is taken to     *)
(* succeed in full, in part or not at all.                                 *)
(***************************************************************************)
EXTENDS Integers, Sequences

CONSTANTS
  Cpus,       \* CPUs that emit events
  V4, V6,     \* addresses, by family
  Emitters,   \* the addresses that are blocked
  Reversed,   \* an IPv4 address with its four bytes in reverse order
  RING,       \* words of the ring (32768 in the program)
  BigStride,  \* the words of 260 or 262 bytes: family and reason as a length
  Junk,       \* what the low half of an address or of a time is as a header
  KEEP,       \* events the dashboard remembers (50 in the program)
  MaxEvents   \* bound on the events

Garbage == "unknown"  \* an address the dashboard makes up

EventWords == 4
RecordWords == EventWords + 1

ASSUME RingAssumption ==
  /\ V4 \cap V6 = {}
  /\ Emitters \subseteq V4 \cup V6
  /\ Reversed \in [V4 -> V4]
  /\ RING \in Nat /\ RING > RecordWords
  /\ BigStride \in Nat
  /\ Junk \subseteq [skip : BOOLEAN, words : Nat]
  /\ KEEP \in Nat \ {0}
  /\ MaxEvents \in Nat

VARIABLES
  mem,      \* the words of the ring: what they hold, and of which event
  prod,     \* producer position
  cons,     \* consumer position, in the page the dashboard writes
  held,     \* the event a CPU has reserved a record for, 0 if none
  filled,   \* the CPU has filled its record
  source,   \* the address of an event
  pc,       \* where the dashboard is
  mapped,   \* words of the ring in its mapping, 0 if there is none
  upto,     \* prod when drain_ringbuf() began
  stride,   \* record_size
  shown     \* accumulated_rb_events

kernel == <<mem, prod, held, filled, source>>
dashboard == <<pc, mapped, upto, stride, shown>>
vars == <<kernel, cons, dashboard>>

Events == 1 .. Len(source)
\* What is remembered of an event.  A time tells the event it is of; 0 is no
\* event's.
Entry == [address : V4 \cup V6 \cup {Garbage}, time : Nat]

Kinds == {"zero", "busy", "header", "id", "addr", "time"}

TypeOK ==
  /\ mem \in [0 .. RING - 1 -> [kind : Kinds, of : Events \cup {0}]]
  /\ prod \in Nat
  /\ cons \in Nat
  /\ held \in [Cpus -> Events \cup {0}]
  /\ filled \in [Cpus -> BOOLEAN]
  /\ source \in Seq(Emitters)
  /\ pc \in {"closed", "idle", "header", "event", "advance"}
  /\ mapped \in {0, RING, 2 * RING}
  /\ upto \in Nat
  /\ stride \in Nat
  /\ shown \in Seq(Entry)
  /\ Len(shown) <= KEEP

Init ==
  /\ mem = [i \in 0 .. RING - 1 |-> [kind |-> "zero", of |-> 0]]
  /\ prod = 0
  /\ cons = 0
  /\ held = [c \in Cpus |-> 0]
  /\ filled = [c \in Cpus |-> FALSE]
  /\ source = <<>>
  /\ pc = "closed"
  /\ mapped = 0
  /\ upto = 0
  /\ stride = 0
  /\ shown = <<>>

-----------------------------------------------------------------------------
(* The XDP program.                                                        *)

\* Records do not wrap: the kernel sees the ring twice in a row.
At(position) == position % RING

Put(memory, position, kind, n) ==
  [memory EXCEPT ![At(position)] = [kind |-> kind, of |-> n]]

Start(n) == (n - 1) * RecordWords

\* Positions are unsigned: a consumer ahead of the new producer position
\* looks like a ring that is overfull.
HasRoom ==
  /\ prod + RecordWords - cons \in 0 .. RING - 1
  /\ \A c \in Cpus : held[c] # 0 => prod + RecordWords - Start(held[c]) < RING

\* bpf_ringbuf_reserve(), under the ring's lock.  Without room the event is
\* dropped.
Reserve(c) ==
  /\ held[c] = 0
  /\ Len(source) < MaxEvents
  /\ HasRoom
  /\ \E s \in Emitters : source' = Append(source, s)
  /\ held' = [held EXCEPT ![c] = Len(source')]
  /\ mem' = Put(mem, prod, "busy", Len(source'))
  /\ prod' = prod + RecordWords
  /\ UNCHANGED <<filled, cons, dashboard>>

Fill(c) ==
  LET n == held[c]
      first == Start(n) + 1
      known == Put(Put(mem, first, "id", n), first + 3, "time", n)
  IN  /\ n # 0 /\ ~ filled[c]
      /\ filled' = [filled EXCEPT ![c] = TRUE]
      /\ mem' = IF source[n] \in V6
                THEN Put(Put(known, first + 1, "addr", n), first + 2, "addr", n)
                ELSE known
      /\ UNCHANGED <<prod, held, source, cons, dashboard>>

Submit(c) ==
  /\ filled[c]
  /\ mem' = Put(mem, Start(held[c]), "header", held[c])
  /\ held' = [held EXCEPT ![c] = 0]
  /\ filled' = [filled EXCEPT ![c] = FALSE]
  /\ UNCHANGED <<prod, source, cons, dashboard>>

-----------------------------------------------------------------------------
(* The dashboard.                                                          *)

open_ringbuf ==
  /\ pc = "closed"
  /\ \E words \in {0, RING, 2 * RING} : mapped' = words
  /\ pc' = "idle"
  /\ shown' = <<>>
  /\ UNCHANGED <<kernel, cons, upto, stride>>

\* A position range that makes no sense is left as it is.
Drain ==
  /\ pc = "idle"
  /\ mapped > 0
  /\ prod - cons \in 1 .. RING
  /\ upto' = prod
  /\ pc' = "header"
  /\ UNCHANGED <<kernel, cons, mapped, stride, shown>>

\* hdr_len: whether the record is to be skipped, and its length in words.  Of
\* an address or a time no more is known than that it is some of Junk.
Headers(word) ==
  CASE word.kind = "zero"   -> {[skip |-> FALSE, words |-> 0]}
    [] word.kind = "busy"   -> {[skip |-> TRUE,  words |-> EventWords]}
    [] word.kind = "header" -> {[skip |-> FALSE, words |-> EventWords]}
    [] word.kind = "id"     -> {[skip |-> FALSE, words |-> BigStride]}
    [] OTHER                -> Junk

\* Mutants: nothing makes a skipped record of no length end the drain, and the
\* busy flag is not looked at.
ReadHeaderUnguarded ==
  \E header \in Headers(mem[At(cons)]) :
    /\ pc = "header" /\ cons < upto
    /\ stride' = header.words
    /\ pc' = IF header.skip THEN "advance"
             ELSE IF At(cons) + RecordWords > mapped THEN "idle"
             ELSE "event"
    /\ UNCHANGED <<kernel, cons, mapped, upto, shown>>

ReadHeaderBusy ==
  \E header \in Headers(mem[At(cons)]) :
    /\ pc = "header" /\ cons < upto
    /\ pc' = IF At(cons) + RecordWords > mapped THEN "idle" ELSE "event"
    /\ stride' = IF header.words = 0 THEN 1 ELSE header.words
    /\ UNCHANGED <<kernel, cons, mapped, upto, shown>>

ReadHeader ==
  \E header \in Headers(mem[At(cons)]) :
    /\ pc = "header" /\ cons < upto
    /\ IF header.skip
       THEN /\ pc' = IF header.words = 0 THEN "idle" ELSE "advance"
            /\ stride' = header.words
       ELSE /\ pc' = IF At(cons) + RecordWords > mapped THEN "idle" ELSE "event"
            /\ stride' = IF header.words = 0 THEN 1 ELSE header.words
    /\ UNCHANGED <<kernel, cons, mapped, upto, shown>>

\* The bytes of the address of an attack_event that begins here.
AddressAt(position) ==
  LET id == mem[At(position)]
      high == mem[At(position + 1)]
      low == mem[At(position + 2)]
  IN  CASE id.kind = "id" /\ source[id.of] \in V4 -> source[id.of]
        [] id.kind = "id" /\ source[id.of] \in V6
             /\ high.kind = "addr" /\ high = low -> source[high.of]
        [] OTHER -> Garbage

TimeAt(position) ==
  IF mem[At(position + 3)].kind = "time" THEN mem[At(position + 3)].of ELSE 0

\* ip_str: an IPv4 address is unpacked as a little-endian number and packed as
\* a big-endian one.
Text(address) == IF address \in V4 THEN Reversed[address] ELSE address

\* Mutant: all of them are kept.
RememberedAll(events) == events

\* The last events of all that were read.
Remembered(events) ==
  SubSeq(events, IF Len(events) > KEEP THEN Len(events) - KEEP + 1 ELSE 1,
         Len(events))

ReadEvent ==
  /\ pc = "event"
  /\ shown' = Remembered(Append(shown, [address |-> Text(AddressAt(cons + 1)),
                                        time |-> TimeAt(cons + 1)]))
  /\ pc' = "advance"
  /\ UNCHANGED <<kernel, cons, mapped, upto, stride>>

Advance ==
  /\ pc = "advance"
  /\ cons' = cons + stride
  /\ pc' = "header"
  /\ UNCHANGED <<kernel, mapped, upto, stride, shown>>

Drained ==
  /\ pc = "header" /\ cons >= upto
  /\ pc' = "idle"
  /\ UNCHANGED <<kernel, cons, mapped, upto, stride, shown>>

\* handle_exit(): the positions stay where they are.
Exit ==
  /\ pc # "closed"
  /\ pc' = "closed"
  /\ mapped' = 0
  /\ shown' = <<>>
  /\ UNCHANGED <<kernel, cons, upto, stride>>

drain_ringbuf == Drain \/ ReadHeader \/ ReadEvent \/ Advance \/ Drained

Emit == \E c \in Cpus : Reserve(c) \/ Fill(c) \/ Submit(c)

Next == Emit \/ open_ringbuf \/ drain_ringbuf \/ Exit

Spec == Init /\ [][Next]_vars

\* drain_ringbuf() is a loop that waits for nothing.
FairSpec == Spec /\ WF_vars(drain_ringbuf)

-----------------------------------------------------------------------------

AtRecord == cons % RecordWords = 0 /\ cons < prod
RecordHere == (cons \div RecordWords) + 1
Last(events) == events[Len(events)]

\* What the dashboard reads from a record at its boundary is the event the
\* kernel put there, whole: its address, and its time in the entry that is
\* remembered, however often the ring wrapped and whatever the kernel reserves,
\* fills and submits while it reads.
TrueAtRecord ==
  [][ (ReadEvent /\ AtRecord)
        => /\ AddressAt(cons + 1) = source[RecordHere]
           /\ Last(shown').time = RecordHere ]_vars

\* A drain ends although the kernel goes on to produce and any word may come
\* to be read as a header.
DrainEnds == pc = "header" ~> pc \in {"idle", "closed"}

\* "Advance consumer pointer (8-byte aligned record)" (fluxguard_dashboard.py),
\* total_len = (hdr_len & 0x0FFFFFFF) + 8 (phase09-10-autoblacklist-ringbuf.md):
\* the consumer position is at the begin of a record.
ConsumerAtRecord == cons % RecordWords = 0

\* ip_str = str(ipaddress.IPv4Address(bytes(ip_bytes)))
\* (phase09-10-autoblacklist-ringbuf.md): what is shown of an event that was
\* read from its record is the address the kernel sent.
AddressAsSent ==
  [][ (ReadEvent /\ AtRecord)
        => Last(shown').address = source[RecordHere] ]_vars

=============================================================================
