------------------------------- MODULE MapDump -------------------------------
(***************************************************************************)
(* dump_map_u32() and dump_map_u32_v6() of fluxguard_bpf.py: a map is read *)
(* key by key, two system calls per key, while the XDP program and the     *)
(* other processes write to it.                                            *)
(*                                                                         *)
(* The map is a hash table of the kernel (external).  Its iteration goes   *)
(* through the buckets in order and, within one, from the newest element   *)
(* to the oldest.  A write puts a new element at the head of the bucket,   *)
(* also when the key had one already.  An iteration that asks for the      *)
(* successor of a key the map no longer holds is sent back to the start.   *)
(*                                                                         *)
(* The value of an entry is the number of the write it comes from, so that *)
(* a value tells whose it is.  The dump has one buffer for all values.     *)
(***************************************************************************)
EXTENDS Integers

CONSTANTS
  Keys,
  Hash,       \* the bucket of a key
  MaxWrites,  \* bound on the writes
  MaxFaults   \* bound on the system calls that fail for no reason of the map's

ASSUME DumpAssumption ==
  /\ Hash \in [Keys -> Nat]
  /\ MaxWrites \in Nat
  /\ MaxFaults \in Nat

VARIABLES
  stamp,     \* when a key was last written, or Absent
  writes,    \* writes so far
  step,      \* where the dump is
  current,   \* current_key
  value,     \* the buffer of the values
  res,       \* the result: the value of a key, or Absent
  faults,    \* system calls that failed
  stayed,    \* history: keys in the map and not written since the dump began
  met        \* history: entries that were in the map at some time of the dump

map  == <<stamp, writes, met>>
dump_vars == <<map, step, current, value, res, faults, stayed>>

Absent == 0
Present == {k \in Keys : stamp[k] # Absent}
Reported == {k \in Keys : res[k] # Absent}
Entries == {<<k, stamp[k]>> : k \in Present}
Nothing == [k \in Keys |-> Absent]

DumpTypeOK ==
  /\ stamp \in [Keys -> Nat]
  /\ writes \in Nat
  /\ step \in {"first", "lookup", "next", "done", "raised"}
  /\ current \in Keys
  /\ value \in Nat
  /\ res \in [Keys -> Nat]
  /\ faults \in Nat
  /\ stayed \subseteq Present
  /\ met \subseteq Keys \X Nat

\* A dump begins on any map.
DumpInit ==
  /\ stamp \in [Keys -> 0 .. 2]
  /\ \A j, k \in Keys : (j # k /\ stamp[j] = stamp[k]) => stamp[j] = Absent
  /\ writes = 2
  /\ step = "first"
  /\ current \in Keys
  /\ value = 0
  /\ res = Nothing
  /\ faults = 0
  /\ stayed = Present
  /\ met = Entries

-----------------------------------------------------------------------------
(* The iteration of the kernel.                                            *)

Before(j, k) ==
  \/ Hash[j] < Hash[k]
  \/ Hash[j] = Hash[k] /\ stamp[j] > stamp[k]

\* The keys BPF_MAP_GET_NEXT_KEY chooses its answer from.
Ahead ==
  IF current \in Present THEN {k \in Present : Before(current, k)} ELSE Present

IsFirstOf(k, keys) == k \in keys /\ \A j \in keys \ {k} : Before(k, j)

Fails ==
  /\ faults < MaxFaults
  /\ faults' = faults + 1

-----------------------------------------------------------------------------

\* Mutant: the error of an empty map goes unnoticed, the dump starts on a key
\* nobody filled in.
FirstUnchecked ==
  /\ step = "first"
  /\ step' = "lookup"
  /\ \/ \E k \in Keys : IsFirstOf(k, Present) /\ current' = k
     \/ Present = {} /\ current' = Absent
  /\ UNCHANGED <<map, value, res, faults, stayed>>

\* ENOENT, the answer of an empty map, gives the empty result; every other
\* error of the first call reaches the caller.
First ==
  /\ step = "first"
  /\ \/ /\ \E k \in Keys : IsFirstOf(k, Present) /\ current' = k
        /\ step' = "lookup"
        /\ UNCHANGED faults
     \/ /\ Present = {}
        /\ step' = "done"
        /\ UNCHANGED <<current, faults>>
     \/ /\ Fails
        /\ step' = "raised"
        /\ UNCHANGED current
  /\ UNCHANGED <<map, value, res, stayed>>

\* Mutant: the entry of the result is made outside the try block.
LookupUnchecked ==
  /\ step = "lookup"
  /\ step' = "next"
  /\ value' = IF current \in Present THEN stamp[current] ELSE value
  /\ res' = [res EXCEPT ![current] = value']
  /\ UNCHANGED <<map, current, faults, stayed>>

\* A key that cannot be looked up is left out.
Lookup ==
  /\ step = "lookup"
  /\ step' = "next"
  /\ \/ /\ current \in Present
        /\ value' = stamp[current]
        /\ res' = [res EXCEPT ![current] = value']
        /\ UNCHANGED faults
     \/ /\ current \notin Present
        /\ UNCHANGED <<value, res, faults>>
     \/ /\ Fails
        /\ UNCHANGED <<value, res>>
  /\ UNCHANGED <<map, current, stayed>>

\* Mutants: next_key is not copied to current_key, and a key that vanished
\* ends the dump.
NextForgotten ==
  /\ step = "next"
  /\ IF Ahead # {} THEN step' = "lookup" ELSE step' = "done"
  /\ UNCHANGED <<map, current, value, res, faults, stayed>>

NextGivesUp ==
  /\ step = "next"
  /\ \/ /\ current \in Present
        /\ \E k \in Keys : IsFirstOf(k, Ahead) /\ current' = k
        /\ step' = "lookup"
     \/ /\ Ahead = {} \/ current \notin Present
        /\ step' = "done"
        /\ UNCHANGED current
  /\ UNCHANGED <<map, value, res, faults, stayed>>

\* Whatever error the call gives, the dump is over and counts as complete.
NextKey ==
  /\ step = "next"
  /\ \/ /\ \E k \in Keys : IsFirstOf(k, Ahead) /\ current' = k
        /\ step' = "lookup"
        /\ UNCHANGED faults
     \/ /\ Ahead = {}
        /\ step' = "done"
        /\ UNCHANGED <<current, faults>>
     \/ /\ Fails
        /\ step' = "done"
        /\ UNCHANGED current
  /\ UNCHANGED <<map, value, res, stayed>>

-----------------------------------------------------------------------------
(* Everybody else: the XDP program, the brain, the allowlist tools.        *)

Write(k) ==
  /\ writes < MaxWrites
  /\ writes' = writes + 1
  /\ stamp' = [stamp EXCEPT ![k] = writes']
  /\ stayed' = stayed \ {k}
  /\ met' = met \cup {<<k, writes'>>}
  /\ UNCHANGED <<step, current, value, res, faults>>

\* A delete, or the eviction from an LRU map.
Delete(k) ==
  /\ k \in Present
  /\ stamp' = [stamp EXCEPT ![k] = Absent]
  /\ stayed' = stayed \ {k}
  /\ UNCHANGED <<writes, met, step, current, value, res, faults>>

\* The caller has its answer and asks again.
Again ==
  /\ step \in {"done", "raised"}
  /\ step' = "first"
  /\ value' = 0
  /\ res' = Nothing
  /\ stayed' = Present
  /\ met' = Entries
  /\ UNCHANGED <<stamp, writes, current, faults>>

dump_map_u32 == First \/ Lookup \/ NextKey

DumpNext == dump_map_u32 \/ Again \/ \E k \in Keys : Write(k) \/ Delete(k)

DumpSpec == DumpInit /\ [][DumpNext]_dump_vars

\* A dump is a loop that waits for nothing.
FairDump == DumpSpec /\ WF_dump_vars(dump_map_u32)

-----------------------------------------------------------------------------

\* A dump that met no failing call has every key that was in the map all the
\* time and was not written meanwhile, although deletes send the iteration
\* back to its start and writes move keys past it.
DumpComplete == (step = "done" /\ faults = 0) => stayed \subseteq Reported

\* Every entry of the result was in the map at some time of the dump: a key
\* that is deleted between the two calls, or whose lookup fails, is not reported
\* with what the buffer holds of the key before.
NoGhosts == \A k \in Reported : <<k, res[k]>> \in met

\* Every dump ends once the other processes let go of the map: being sent
\* back to the start does not repeat for ever.
DumpEnds == step = "first" ~> step \in {"done", "raised"}

=============================================================================
