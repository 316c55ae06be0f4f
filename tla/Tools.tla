-------------------------------- MODULE Tools --------------------------------
(***************************************************************************)
(* The tools that edit the allowlist, and the maps they get hold of: the   *)
(* command line (fluxguard_allow.py), the REST API (fluxguard_api.py), the *)
(* brain as another process with the maps open, and the Makefile, which    *)
(* loads the program and pins its maps.                                    *)
(*                                                                         *)
(* Each load of the program brings maps of its own, a generation; the name *)
(* of a map is that of all its generations.  A generation lives as long as *)
(* the program uses it, a pin names it or a process has it open.  The      *)
(* pinned paths are read when a process opens its maps: the command line   *)
(* does so in every call, the API and the brain only when they start.      *)
(*                                                                         *)
(* A request is a thread of the API or the only one of the command line.   *)
(* It writes in one system call and answers later, or walks through a map  *)
(* key by key; whatever comes between is somebody else's step, a death of  *)
(* the process among them.                                                 *)
(***************************************************************************)
EXTENDS Integers, FiniteSets

CONSTANTS
  V4, V6,       \* addresses, by family
  Workers,      \* threads of the API
  MAX_ALLOWED,  \* entries of each allowlist map (1024, 256 for IPv6)
  MaxLoads      \* bound on the loads of the program

Ips == V4 \cup V6

ASSUME ToolsAssumption ==
  /\ IsFiniteSet(Ips)
  /\ V4 \cap V6 = {}
  /\ "cli" \notin Workers
  /\ MAX_ALLOWED \in Nat
  /\ MaxLoads \in Nat

VARIABLES
  loads,    \* generations so far
  program,  \* the generation of the attached program, None if there is none
  pins,     \* the generation a pinned path names
  topin,    \* the maps that make attach has not come to yet
  fds,      \* the generation a process has open
  running,  \* the processes that run
  entries,  \* the addresses in a generation's allowlist maps
  request,  \* what a thread is about to answer, or the map it walks through
  acked,    \* history: what the answers since the last load make believe
  disputed, \* history: the addresses whose last write was never answered, or
            \* came between another write and its answer
  clean     \* history: no process had maps open when the program was loaded

makefile == <<loads, program, pins, topin, clean>>
vars == <<makefile, fds, running, entries, request, acked, disputed>>

Maps == {"allowlist_map", "allowlist_map_v6"}
Processes == {"cli", "api", "brain"}
Threads == Workers \cup {"cli"}
ProcessOf(t) == IF t = "cli" THEN "cli" ELSE "api"
Generations == 1 .. MaxLoads
None == 0
PIN_DIR == "/sys/fs/bpf/fluxguard"
Unset == "unset"

MapOf(ip) == IF ip \in V6 THEN "allowlist_map_v6" ELSE "allowlist_map"
Closed == [m \in Maps |-> None]

\* The step a thread has made last: it has added or deleted the addresses of
\* `of`, or is in the map of that name with `todo` yet to come.  Histories:
\* calm, the addresses nobody wrote since the list began, and missed, those that
\* were still to come when a map was left.
Idle == [step |-> "idle", of |-> {}, todo |-> {}, shown |-> {}, calm |-> {},
         missed |-> {}]

Requests == [step : {"idle", "added", "deleted"} \cup Maps, of : SUBSET Ips,
             todo : SUBSET Ips, shown : SUBSET Ips, calm : SUBSET Ips,
             missed : SUBSET Ips]

Written(t) == request[t].step \in {"added", "deleted"}

TypeOK ==
  /\ loads \in 0 .. MaxLoads
  /\ program \in Generations \cup {None}
  /\ pins \in [Maps -> Generations \cup {None}]
  /\ topin \subseteq Maps
  /\ fds \in [Processes -> [Maps -> Generations \cup {None}]]
  /\ running \subseteq Processes
  /\ entries \in [Generations -> SUBSET Ips]
  /\ \A g \in Generations, family \in {V4, V6} :
       Cardinality(entries[g] \cap family) <= MAX_ALLOWED
  /\ request \in [Threads -> Requests]
  /\ acked \subseteq Ips
  /\ disputed \subseteq Ips
  /\ clean \in BOOLEAN

Init ==
  /\ loads = 0
  /\ program = None
  /\ pins = Closed
  /\ topin = {}
  /\ fds = [p \in Processes |-> Closed]
  /\ running = {}
  /\ entries = [g \in Generations |-> {}]
  /\ request = [t \in Threads |-> Idle]
  /\ acked = {}
  /\ disputed = {}
  /\ clean = TRUE

-----------------------------------------------------------------------------
(* The Makefile.                                                           *)

\* ip link refuses to replace a program that is attached.
Attach ==
  /\ program = None
  /\ loads < MaxLoads
  /\ loads' = loads + 1
  /\ program' = loads'
  /\ topin' = Maps
  /\ acked' = {}
  /\ disputed' = {}
  /\ clean' = (running = {})
  /\ UNCHANGED <<pins, fds, running, entries, request>>

Living(m) ==
  ({program, pins[m]} \cup {fds[p][m] : p \in Processes}) \ {None}

\* bpftool lists the maps of a name by age, and head takes the first.  A path
\* that exists is left alone, and so is a map whose name bpftool refuses: the
\* kernel keeps 15 characters of it.
Pin(m) ==
  /\ m \in topin
  /\ m = "allowlist_map_v6" => "allowlist_map" \notin topin
  /\ topin' = topin \ {m}
  /\ \/ /\ pins[m] = None
        /\ \E oldest \in Living(m) :
             /\ \A g \in Living(m) : oldest <= g
             /\ pins' = [pins EXCEPT ![m] = oldest]
     \/ /\ pins[m] # None \/ m = "allowlist_map_v6"
        /\ UNCHANGED pins
  /\ UNCHANGED <<loads, program, fds, running, entries, request, acked,
                 disputed, clean>>

\* Mutant: the pins stay behind.
DetachOnly ==
  /\ topin = {}
  /\ program' = None
  /\ UNCHANGED <<loads, pins, topin, fds, running, entries, request, acked,
                 disputed, clean>>

Detach ==
  /\ topin = {}
  /\ program' = None
  /\ pins' = Closed
  /\ UNCHANGED <<loads, topin, fds, running, entries, request, acked, disputed,
                 clean>>

-----------------------------------------------------------------------------
(* Getting hold of the maps.                                               *)

Opens(p, handles) ==
  /\ p \notin running
  /\ running' = running \cup {p}
  /\ fds' = [fds EXCEPT ![p] = handles]
  /\ UNCHANGED <<makefile, entries, request, acked, disputed>>

\* The command line and the brain do without the IPv6 map only.
OpenRequired(p) ==
  /\ p \in {"cli", "brain"}
  /\ pins["allowlist_map"] # None
  /\ Opens(p, pins)

\* What a settings file may be; Unset: it does not name the directory.
SettingsFiles == [exists : BOOLEAN, parses : BOOLEAN,
                  bpf_pin_dir : {PIN_DIR, "elsewhere", Unset}]

\* The directory: the default one unless the file is there, can be parsed and
\* names another.
load_config(file) ==
  IF file.exists /\ file.parses /\ file.bpf_pin_dir # Unset
  THEN file.bpf_pin_dir ELSE PIN_DIR

\* _try_open(): without the pin the API goes without the map.
TryOpen(dir, m) == IF dir = PIN_DIR THEN pins[m] ELSE None

\* Read once: neither the file nor the pins are looked at again.
OpenApi ==
  \E file \in SettingsFiles :
    Opens("api", [m \in Maps |-> TryOpen(load_config(file), m)])

Closes(p) ==
  /\ running' = running \ {p}
  /\ fds' = [fds EXCEPT ![p] = Closed]

\* What was written stays, what was to be answered is lost.
Exit(p) ==
  /\ p \in running
  /\ Closes(p)
  /\ LET lost == {t \in Threads : ProcessOf(t) = p}
     IN  /\ request' = [t \in Threads |-> IF t \in lost THEN Idle ELSE request[t]]
         /\ disputed' = disputed \cup UNION {request[t].of : t \in lost}
  /\ UNCHANGED <<makefile, entries, acked>>

-----------------------------------------------------------------------------
(* Requests.                                                               *)

\* The command line ends with its request.
Answers(t) ==
  /\ request' = [request EXCEPT ![t] = Idle]
  /\ IF t = "cli" THEN Closes("cli") ELSE UNCHANGED <<fds, running>>
  /\ UNCHANGED <<makefile, entries, disputed>>

Receives(t) == ProcessOf(t) \in running /\ request[t].step = "idle"

\* Exit status 1 or a code of 400 and more: no or no valid address, no valid
\* token, a map that is not open or an error of the system call, which may be
\* that there is no such entry or no room for another.  A list may be refused
\* at the first key of either map.
Refuse(t) ==
  /\ ProcessOf(t) \in running
  /\ ~ Written(t)
  /\ Answers(t)
  /\ UNCHANGED acked

MapFor(t, m) == fds[ProcessOf(t)][m]

\* Mutant: nobody looks whether the map had room.
HasRoomAlways(g, ip) == TRUE

HasRoom(g, ip) ==
  ip \in entries[g]
    \/ Cardinality({i \in entries[g] : MapOf(i) = MapOf(ip)}) < MAX_ALLOWED

\* One system call, and what the histories make of it.
Writes(t, step, ip) ==
  /\ request' = [u \in Threads |->
                   IF u = t THEN [Idle EXCEPT !.step = step, !.of = {ip}]
                   ELSE [request[u] EXCEPT !.todo = @ \ {ip}, !.calm = @ \ {ip}]]
  /\ disputed' = IF \E u \in Threads : ip \in request[u].of
                 THEN disputed \cup {ip} ELSE disputed \ {ip}
  /\ UNCHANGED <<makefile, fds, running, acked>>

\* The address is parsed once more by ip_to_key() or ip_to_key_v6().
Add(t, ip) ==
  LET g == MapFor(t, MapOf(ip))
  IN  /\ Receives(t)
      /\ g # None
      /\ HasRoom(g, ip)
      /\ entries' = [entries EXCEPT ![g] = @ \cup {ip}]
      /\ Writes(t, "added", ip)

\* Mutant: what is not there counts as deleted from wherever it was.
DelForgetful(t, ip) ==
  /\ Receives(t)
  /\ MapFor(t, MapOf(ip)) # None
  /\ Writes(t, "deleted", ip)
  /\ UNCHANGED entries

Del(t, ip) ==
  LET g == MapFor(t, MapOf(ip))
  IN  /\ Receives(t)
      /\ g # None
      /\ ip \in entries[g]
      /\ entries' = [entries EXCEPT ![g] = @ \ {ip}]
      /\ Writes(t, "deleted", ip)

Acknowledge(t) ==
  /\ Written(t)
  /\ acked' = IF request[t].step = "added" THEN acked \cup request[t].of
              ELSE acked \ request[t].of
  /\ Answers(t)

\* Mutant: the IPv4 map is listed only.
HeldByV4(t, m) ==
  IF MapFor(t, m) = None THEN {} ELSE entries[MapFor(t, m)] \cap V4

\* What there is to list in a map; one that is not open is taken for empty.
HeldBy(t, m) ==
  IF MapFor(t, m) = None THEN {}
  ELSE {ip \in entries[MapFor(t, m)] : MapOf(ip) = m}

Walks(t, now) ==
  /\ request' = [request EXCEPT ![t] = now]
  /\ UNCHANGED <<makefile, fds, running, entries, acked, disputed>>

List(t) ==
  /\ Receives(t)
  /\ MapFor(t, "allowlist_map") # None
  /\ Walks(t, [Idle EXCEPT !.step = "allowlist_map", !.calm = Ips,
                           !.todo = HeldBy(t, "allowlist_map")])

\* Next key, and a lookup that finds it.
Visit(t, ip) ==
  /\ request[t].step \in Maps
  /\ ip \in HeldBy(t, request[t].step)
  /\ Walks(t, [request[t] EXCEPT !.shown = @ \cup {ip}, !.todo = @ \ {ip}])

\* A map is at its end when all keys were visited that have been in it since the
\* list came to it; one that was deleted and added again may have been passed.
\* A lookup that fails skips a key, and a next key that fails ends the walk,
\* without a word.
NextMap(t) ==
  /\ request[t].step = "allowlist_map"
  /\ Walks(t, [request[t] EXCEPT !.step = "allowlist_map_v6",
                                 !.missed = @ \cup request[t].todo,
                                 !.todo = HeldBy(t, "allowlist_map_v6")])

\* The answer to a list: what it has shown.
Ends(t) ==
  /\ request[t].step = "allowlist_map_v6"
  /\ Answers(t)
  /\ UNCHANGED acked

Request(t) ==
  \/ Refuse(t) \/ Acknowledge(t) \/ List(t) \/ NextMap(t) \/ Ends(t)
  \/ \E ip \in Ips : Add(t, ip) \/ Del(t, ip) \/ Visit(t, ip)

main == OpenRequired("cli") \/ Request("cli")
allowlist == \E t \in Workers : Request(t)

Next ==
  \/ Attach \/ Detach \/ \E m \in Maps : Pin(m)
  \/ main \/ OpenApi \/ allowlist \/ OpenRequired("brain")
  \/ \E p \in Processes : Exit(p)

Spec == Init /\ [][Next]_vars

-----------------------------------------------------------------------------

\* After a load that no process with open maps lived through, all handles and
\* all pins there are belong to the program that is attached, whatever was
\* started, stopped, pinned or left out since.
CleanReloadAgrees ==
  (clean /\ program # None)
    => \A m \in Maps :
         {pins[m]} \cup {fds[p][m] : p \in Processes} \subseteq {program, None}

\* The addresses nobody is about to answer a write of, and whose last write was
\* answered before the next one came.
Settled == {ip \in Ips \ disputed : \A t \in Threads : ip \notin request[t].of}

\* After such a load, the last answer about an address tells whether the program
\* exempts it, no matter which thread of which tool gave it; except while, and
\* after, two writes of that address overlap or one dies unanswered, until it
\* is next written.
AckedIsEffective ==
  (clean /\ program # None) => entries[program] \cap Settled = acked \cap Settled

\* The tools agree: a list shows no address that was acknowledged as deleted,
\* and one that visited all there was to visit shows each address that was
\* acknowledged as added and whose map it has open; both of the addresses that
\* were not written while it ran.
ListsAgree ==
  [][ \A t \in Threads : (clean /\ program # None /\ Ends(t))
        => \A ip \in Settled \cap request[t].calm :
             /\ ip \in request[t].shown => ip \in acked
             /\ (ip \in acked /\ MapFor(t, MapOf(ip)) # None
                   /\ request[t].missed \cup request[t].todo = {})
                  => ip \in request[t].shown ]_vars

\* "load+attach XDP on IFACE and pin all maps under PIN_DIR" (Makefile): what
\* is pinned are the maps of the program.
PinsAreLoaded ==
  (program # None /\ topin = {}) => \A m \in Maps : pins[m] \in {program, None}

=============================================================================
