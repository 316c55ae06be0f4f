------------------------------ MODULE MCReaders ------------------------------
(***************************************************************************)
(* MapDump and EventRing for TLC: the two ways userspace reads what the    *)
(* kernel goes on to write.  They share nothing, so one of them at a time  *)
(* has something to read.  Two keys share a bucket, a third has its own.   *)
(***************************************************************************)
EXTENDS MapDump, MCEventRing

CONSTANTS k1, k2, k3

HashValue == [k \in Keys |-> IF k = k3 THEN 2 ELSE 1]

EmptyMap == writes = 2 /\ met = {} /\ faults = 0
EmptyRing == pc = "closed" /\ prod = 0

ReadersInit == DumpInit /\ Init

ReadersNext ==
  \/ DumpNext /\ UNCHANGED vars
  \/ Next /\ UNCHANGED dump_vars

ReadersSpec ==
  /\ ReadersInit
  /\ [][ReadersNext /\ (EmptyMap \/ EmptyRing)']_<<vars, dump_vars>>
  /\ WF_dump_vars(dump_map_u32) /\ WF_vars(drain_ringbuf)
=============================================================================
