----------------------------- MODULE ToolsProofs -----------------------------
(***************************************************************************)
(* Theorems about Tools, for every set of addresses, every capacity and    *)
(* any number of loads.                                                    *)
(***************************************************************************)
EXTENDS Tools, FiniteSetTheorems, TLAPS

-----------------------------------------------------------------------------
(* Type correctness.                                                       *)

\* A map's share of the entries are those of its family.
LEMMA MapShare ==
  ASSUME NEW E \in SUBSET Ips, NEW ip \in Ips
  PROVE  {i \in E : MapOf(i) = MapOf(ip)}
           = E \cap (IF ip \in V6 THEN V6 ELSE V4)
BY ToolsAssumption DEF MapOf, Ips

\* A write for which there is room fills no map beyond its capacity.
LEMMA RoomForOne ==
  ASSUME NEW E \in SUBSET Ips, NEW ip \in Ips, NEW family \in {V4, V6},
         Cardinality(E \cap family) <= MAX_ALLOWED,
         \/ ip \in E
         \/ Cardinality({i \in E : MapOf(i) = MapOf(ip)}) < MAX_ALLOWED
  PROVE  Cardinality((E \cup {ip}) \cap family) <= MAX_ALLOWED
<1>1. CASE ip \in E \/ ip \notin family
  <2>1. (E \cup {ip}) \cap family = E \cap family
    BY <1>1
  <2> QED
    BY <2>1
<1>2. CASE ip \notin E /\ ip \in family
  <2>1. {i \in E : MapOf(i) = MapOf(ip)} = E \cap family
    BY <1>2, MapShare, ToolsAssumption
  <2>2. (E \cup {ip}) \cap family = (E \cap family) \cup {ip}
    BY <1>2
  <2>3. IsFiniteSet(E \cap family)
    BY ToolsAssumption, FS_Subset
  <2>4. Cardinality((E \cap family) \cup {ip}) = Cardinality(E \cap family) + 1
    BY <1>2, <2>3, FS_AddElement
  <2>5. Cardinality(E \cap family) \in Nat
    BY <2>3, FS_CardinalityType
  <2>6. Cardinality(E \cap family) < MAX_ALLOWED
    BY <1>2, <2>1
  <2>7. MAX_ALLOWED \in Nat
    BY ToolsAssumption
  <2>8. Cardinality((E \cup {ip}) \cap family) = Cardinality(E \cap family) + 1
    BY <2>2, <2>4, Zenon
  <2> QED
    BY <2>5, <2>6, <2>7, <2>8
<1> QED
  BY <1>1, <1>2

LEMMA FewerFit ==
  ASSUME NEW E \in SUBSET Ips, NEW ip, NEW family,
         Cardinality(E \cap family) <= MAX_ALLOWED
  PROVE  Cardinality((E \ {ip}) \cap family) <= MAX_ALLOWED
<1>1. IsFiniteSet(E \cap family)
  BY ToolsAssumption, FS_Subset
<1>2. (E \ {ip}) \cap family \subseteq E \cap family
  OBVIOUS
<1>3. /\ IsFiniteSet((E \ {ip}) \cap family)
      /\ Cardinality((E \ {ip}) \cap family) <= Cardinality(E \cap family)
  BY <1>1, <1>2, FS_Subset
<1> QED
  BY <1>1, <1>3, FS_CardinalityType, ToolsAssumption

LEMMA InitTypes == Init => TypeOK
<1> SUFFICES ASSUME Init PROVE TypeOK
  OBVIOUS
<1>1. \A family : Cardinality({} \cap family) <= MAX_ALLOWED
  <2>1. \A family : {} \cap family = {}
    OBVIOUS
  <2> QED
    BY <2>1, FS_EmptySet, ToolsAssumption
<1>2. entries \in [Generations -> SUBSET Ips]
  BY DEF Init
<1>3. \A g \in Generations : entries[g] = {}
  BY DEF Init
<1>4. /\ pins \in [Maps -> Generations \cup {None}]
      /\ fds \in [Processes -> [Maps -> Generations \cup {None}]]
  BY DEF Init, Closed
<1>5. request \in [Threads -> Requests]
  BY DEF Init, Idle, Requests
<1> QED
  BY <1>1, <1>2, <1>3, <1>4, <1>5, ToolsAssumption DEF Init, TypeOK, None

\* The parts of TypeOK, so that a step need name only what it changes.
Handles ==
  /\ loads \in 0 .. MaxLoads
  /\ program \in Generations \cup {None}
  /\ pins \in [Maps -> Generations \cup {None}]
  /\ topin \subseteq Maps
  /\ fds \in [Processes -> [Maps -> Generations \cup {None}]]
  /\ running \subseteq Processes

Entries ==
  /\ entries \in [Generations -> SUBSET Ips]
  /\ \A g \in Generations, family \in {V4, V6} :
       Cardinality(entries[g] \cap family) <= MAX_ALLOWED

Answer ==
  /\ request \in [Threads -> Requests]
  /\ acked \subseteq Ips
  /\ disputed \subseteq Ips
  /\ clean \in BOOLEAN

LEMMA TypeParts == TypeOK <=> Handles /\ Entries /\ Answer
BY DEF TypeOK, Handles, Entries, Answer

LEMMA ClosesTypes ==
  ASSUME Handles, NEW p \in Processes, Closes(p)
  PROVE  /\ running' \subseteq Processes
         /\ fds' \in [Processes -> [Maps -> Generations \cup {None}]]
BY DEF Handles, Closes, Closed

LEMMA OpensTypes ==
  ASSUME TypeOK, NEW p \in Processes,
         NEW h \in [Maps -> Generations \cup {None}], Opens(p, h)
  PROVE  TypeOK'
BY DEF TypeOK, Opens, makefile

LEMMA ThreadsOf ==
  /\ \A t \in Threads : ProcessOf(t) \in Processes
  /\ "cli" \in Threads
  /\ \A t \in Threads : ProcessOf(t) = "cli" <=> t = "cli"
BY DEF Threads, ProcessOf, Processes

\* What a write leaves of another thread's list, and what a request looks like
\* after its own write, at the beginning of its list, and at its next steps.
LEMMA Touched ==
  ASSUME NEW req \in Requests, NEW now, NEW ip,
         now = [req EXCEPT !.todo = @ \ {ip}, !.calm = @ \ {ip}]
  PROVE  now = [step |-> req.step, of |-> req.of, todo |-> req.todo \ {ip},
                shown |-> req.shown, calm |-> req.calm \ {ip}, missed |-> req.missed]
<1>1. req = [step |-> req.step, of |-> req.of, todo |-> req.todo,
             shown |-> req.shown, calm |-> req.calm, missed |-> req.missed]
  BY DEF Requests
<1> QED
  BY <1>1

LEMMA RequestType ==
  ASSUME NEW step \in {"idle", "added", "deleted"} \cup Maps,
         NEW of \in SUBSET Ips, NEW todo \in SUBSET Ips,
         NEW shown \in SUBSET Ips, NEW calm \in SUBSET Ips, NEW missed \in SUBSET Ips
  PROVE  [step |-> step, of |-> of, todo |-> todo, shown |-> shown,
          calm |-> calm, missed |-> missed] \in Requests
BY DEF Requests

LEMMA WriteBegun ==
  ASSUME NEW now, NEW step, NEW of, now = [Idle EXCEPT !.step = step, !.of = of]
  PROVE  now = [step |-> step, of |-> of, todo |-> {}, shown |-> {},
                calm |-> {}, missed |-> {}]
BY DEF Idle

LEMMA ListBegun ==
  ASSUME NEW now, NEW step, NEW todo,
         now = [Idle EXCEPT !.step = step, !.calm = Ips, !.todo = todo]
  PROVE  now = [step |-> step, of |-> {}, todo |-> todo, shown |-> {},
                calm |-> Ips, missed |-> {}]
BY DEF Idle

LEMMA Visited ==
  ASSUME NEW req \in Requests, NEW now, NEW ip,
         now = [req EXCEPT !.shown = @ \cup {ip}, !.todo = @ \ {ip}]
  PROVE  now = [step |-> req.step, of |-> req.of, todo |-> req.todo \ {ip},
                shown |-> req.shown \cup {ip}, calm |-> req.calm,
                missed |-> req.missed]
<1>1. req = [step |-> req.step, of |-> req.of, todo |-> req.todo,
             shown |-> req.shown, calm |-> req.calm, missed |-> req.missed]
  BY DEF Requests
<1> QED
  BY <1>1

LEMMA NextBegun ==
  ASSUME NEW req \in Requests, NEW now, NEW step, NEW todo,
         now = [req EXCEPT !.step = step, !.missed = @ \cup req.todo,
                           !.todo = todo]
  PROVE  now = [step |-> step, of |-> req.of, todo |-> todo,
                shown |-> req.shown, calm |-> req.calm,
                missed |-> req.missed \cup req.todo]
<1>1. req = [step |-> req.step, of |-> req.of, todo |-> req.todo,
             shown |-> req.shown, calm |-> req.calm, missed |-> req.missed]
  BY DEF Requests
<1> QED
  BY <1>1

LEMMA HeldByType ==
  ASSUME TypeOK, NEW t \in Threads, NEW m \in Maps
  PROVE  HeldBy(t, m) \in SUBSET Ips
BY ThreadsOf DEF HeldBy, MapFor, TypeOK

\* The requests after a write.
LEMMA WritesRequests ==
  ASSUME TypeOK, NEW t \in Threads, NEW ip \in Ips,
         NEW step \in {"added", "deleted"}, Writes(t, step, ip)
  PROVE  /\ request' \in [Threads -> Requests]
         /\ request'[t] = [step |-> step, of |-> {ip}, todo |-> {},
                           shown |-> {}, calm |-> {}, missed |-> {}]
         /\ \A u \in Threads \ {t} :
              request'[u] = [step |-> request[u].step, of |-> request[u].of,
                             todo |-> request[u].todo \ {ip},
                             shown |-> request[u].shown,
                             calm |-> request[u].calm \ {ip},
                             missed |-> request[u].missed]
<1>1. /\ \A u \in Threads : request[u] \in Requests
  BY DEF TypeOK
<1>2. request'[t] = [step |-> step, of |-> {ip}, todo |-> {}, shown |-> {},
                     calm |-> {}, missed |-> {}]
  BY WriteBegun DEF Writes, TypeOK
<1>3. ASSUME NEW u \in Threads \ {t}
      PROVE  request'[u] = [step |-> request[u].step, of |-> request[u].of,
                            todo |-> request[u].todo \ {ip},
                            shown |-> request[u].shown,
                            calm |-> request[u].calm \ {ip},
                            missed |-> request[u].missed]
  <2>1. request'[u] = [request[u] EXCEPT !.todo = @ \ {ip}, !.calm = @ \ {ip}]
    BY DEF Writes
  <2> QED
    BY <1>1, <2>1, Touched
<1>4. \A u \in Threads : request'[u] \in Requests
  <2>1. request'[t] \in Requests
    BY <1>2 DEF Requests
  <2>2. ASSUME NEW u \in Threads \ {t} PROVE request'[u] \in Requests
    <3>1. /\ request[u].step \in {"idle", "added", "deleted"} \cup Maps
          /\ request[u].of \in SUBSET Ips /\ request[u].todo \in SUBSET Ips
          /\ request[u].shown \in SUBSET Ips /\ request[u].calm \in SUBSET Ips
          /\ request[u].missed \in SUBSET Ips
      BY <1>1 DEF Requests
    <3>2. /\ request[u].todo \ {ip} \in SUBSET Ips
          /\ request[u].calm \ {ip} \in SUBSET Ips
      BY <3>1
    <3> QED
      <4>1. [step |-> request[u].step, of |-> request[u].of,
             todo |-> request[u].todo \ {ip}, shown |-> request[u].shown,
             calm |-> request[u].calm \ {ip}, missed |-> request[u].missed]
              \in Requests
        BY <3>1, <3>2, RequestType
      <4> QED
        BY <1>3, <4>1
  <2> QED
    BY <2>1, <2>2
<1>5. request' \in [Threads -> Requests]
  <2>1. request' = [u \in Threads |-> request'[u]]
    BY DEF Writes
  <2> QED
    BY <1>4, <2>1
<1> QED
  BY <1>2, <1>3, <1>5

\* The requests after a step of a list.
LEMMA WalksRequests ==
  ASSUME TypeOK, NEW t \in Threads, NEW now \in Requests, Walks(t, now)
  PROVE  /\ request' \in [Threads -> Requests]
         /\ request'[t] = now
         /\ \A u \in Threads \ {t} : request'[u] = request[u]
BY DEF Walks, TypeOK

LEMMA WritesTypes ==
  ASSUME TypeOK, NEW t \in Threads, NEW ip \in Ips,
         NEW step \in {"added", "deleted"}, Writes(t, step, ip), Entries'
  PROVE  TypeOK'
<1>1. request' \in [Threads -> Requests]
  BY WritesRequests
<1>2. disputed' \subseteq Ips
  BY DEF Writes, TypeOK
<1>3. Handles' /\ Answer'
  BY <1>1, <1>2, TypeParts DEF Writes, makefile, Handles, Answer
<1> QED
  BY <1>3, TypeParts DEF TypeOK, Handles, Entries, Answer

LEMMA WalksTypes ==
  ASSUME TypeOK, NEW t \in Threads, NEW now \in Requests, Walks(t, now)
  PROVE  TypeOK'
BY WalksRequests DEF Walks, makefile, TypeOK

LEMMA AnswersTypes ==
  ASSUME TypeOK, NEW t \in Threads, Answers(t), acked' \subseteq Ips
  PROVE  TypeOK'
<1>1. Handles'
  <2>1. CASE t = "cli"
    BY <2>1, ClosesTypes, TypeParts DEF Answers, makefile, Handles, Processes
  <2>2. CASE t # "cli"
    BY <2>2, TypeParts DEF Answers, makefile, Handles
  <2> QED
    BY <2>1, <2>2
<1>2. Idle \in Requests
  BY DEF Idle, Requests
<1>3. request' \in [Threads -> Requests]
  BY <1>2 DEF Answers, TypeOK
<1>4. Answer' /\ Entries'
  BY <1>3, TypeParts DEF Answers, makefile, Answer, Entries
<1> QED
  BY <1>1, <1>4, TypeParts DEF TypeOK, Handles, Entries, Answer

\* A list, as the type of its next request.
LEMMA ListSteps ==
  ASSUME TypeOK, NEW t \in Threads
  PROVE  /\ List(t) => \E now \in Requests :
              /\ Walks(t, now)
              /\ now = [step |-> "allowlist_map", of |-> {},
                        todo |-> HeldBy(t, "allowlist_map"), shown |-> {},
                        calm |-> Ips, missed |-> {}]
         /\ \A ip \in Ips : Visit(t, ip) => \E now \in Requests :
              /\ Walks(t, now)
              /\ now = [step |-> request[t].step, of |-> request[t].of,
                        todo |-> request[t].todo \ {ip},
                        shown |-> request[t].shown \cup {ip},
                        calm |-> request[t].calm, missed |-> request[t].missed]
         /\ NextMap(t) => \E now \in Requests :
              /\ Walks(t, now)
              /\ now = [step |-> "allowlist_map_v6", of |-> request[t].of,
                        todo |-> HeldBy(t, "allowlist_map_v6"),
                        shown |-> request[t].shown, calm |-> request[t].calm,
                        missed |-> request[t].missed \cup request[t].todo]
<1>1. /\ request[t] \in Requests
      /\ HeldBy(t, "allowlist_map") \in SUBSET Ips
      /\ HeldBy(t, "allowlist_map_v6") \in SUBSET Ips
  BY HeldByType DEF TypeOK, Maps
<1>2. ASSUME List(t)
      PROVE  \E now \in Requests :
               /\ Walks(t, now)
               /\ now = [step |-> "allowlist_map", of |-> {},
                         todo |-> HeldBy(t, "allowlist_map"), shown |-> {},
                         calm |-> Ips, missed |-> {}]
  <2> DEFINE now == [step |-> "allowlist_map", of |-> {},
                     todo |-> HeldBy(t, "allowlist_map"), shown |-> {},
                     calm |-> Ips, missed |-> {}]
  <2>1. now \in Requests
    BY <1>1 DEF Requests, Maps
  <2>2. Walks(t, now)
    BY <1>2, ListBegun DEF List
  <2> QED
    BY <2>1, <2>2
<1>3. ASSUME NEW ip \in Ips, Visit(t, ip)
      PROVE  \E now \in Requests :
               /\ Walks(t, now)
               /\ now = [step |-> request[t].step, of |-> request[t].of,
                         todo |-> request[t].todo \ {ip},
                         shown |-> request[t].shown \cup {ip},
                         calm |-> request[t].calm, missed |-> request[t].missed]
  <2> DEFINE now == [step |-> request[t].step, of |-> request[t].of,
                     todo |-> request[t].todo \ {ip},
                     shown |-> request[t].shown \cup {ip},
                     calm |-> request[t].calm, missed |-> request[t].missed]
  <2>1. now \in Requests
    BY <1>1 DEF Requests
  <2>2. Walks(t, now)
    BY <1>1, <1>3, Visited DEF Visit
  <2> QED
    BY <2>1, <2>2
<1>4. ASSUME NextMap(t)
      PROVE  \E now \in Requests :
               /\ Walks(t, now)
               /\ now = [step |-> "allowlist_map_v6", of |-> request[t].of,
                         todo |-> HeldBy(t, "allowlist_map_v6"),
                         shown |-> request[t].shown, calm |-> request[t].calm,
                         missed |-> request[t].missed \cup request[t].todo]
  <2> DEFINE now == [step |-> "allowlist_map_v6", of |-> request[t].of,
                     todo |-> HeldBy(t, "allowlist_map_v6"),
                     shown |-> request[t].shown, calm |-> request[t].calm,
                     missed |-> request[t].missed \cup request[t].todo]
  <2>1. now \in Requests
    BY <1>1 DEF Requests, Maps
  <2>2. Walks(t, now)
    <3>1. PICK e : /\ Walks(t, e)
                   /\ e = [request[t] EXCEPT
                             !.step = "allowlist_map_v6",
                             !.missed = @ \cup request[t].todo,
                             !.todo = HeldBy(t, "allowlist_map_v6")]
      BY <1>4 DEF NextMap
    <3>2. e = now
      BY <1>1, <3>1, NextBegun, Zenon
    <3> QED
      BY <3>1, <3>2
  <2> QED
    BY <2>1, <2>2
<1> QED
  BY <1>2, <1>3, <1>4

LEMMA RequestTypes ==
  ASSUME TypeOK, NEW t \in Threads, Request(t)
  PROVE  TypeOK'
<1>1. CASE Refuse(t) \/ Acknowledge(t) \/ Ends(t)
  <2>1. request[t].of \subseteq Ips
    BY DEF TypeOK, Requests
  <2>2. acked' \subseteq Ips
    BY <1>1, <2>1 DEF Refuse, Acknowledge, Ends, TypeOK
  <2> QED
    BY <1>1, <2>2, AnswersTypes DEF Refuse, Acknowledge, Ends
<1>2. CASE List(t) \/ NextMap(t) \/ \E ip \in Ips : Visit(t, ip)
  BY <1>2, ListSteps, WalksTypes
<1>3. ASSUME NEW ip \in Ips, Add(t, ip) PROVE TypeOK'
  <2> DEFINE g == MapFor(t, MapOf(ip))
  <2>1. g \in Generations
    BY <1>3, ThreadsOf DEF Add, MapFor, TypeOK, MapOf, Maps
  <2>2. /\ entries[g] \in SUBSET Ips
        /\ \A family \in {V4, V6} :
             Cardinality(entries[g] \cap family) <= MAX_ALLOWED
    BY <2>1 DEF TypeOK
  <2>3. /\ HasRoom(g, ip) /\ Writes(t, "added", ip)
        /\ entries' = [entries EXCEPT ![g] = entries[g] \cup {ip}]
    BY <1>3 DEF Add
  <2>4. \A family \in {V4, V6} :
          Cardinality((entries[g] \cup {ip}) \cap family) <= MAX_ALLOWED
    BY <2>2, <2>3, RoomForOne DEF HasRoom
  <2> HIDE DEF g
  <2>5. Entries'
    <3>1. entries' \in [Generations -> SUBSET Ips]
      BY <2>1, <2>2, <2>3 DEF TypeOK
    <3>2. ASSUME NEW h \in Generations, NEW family \in {V4, V6}
          PROVE  Cardinality(entries'[h] \cap family) <= MAX_ALLOWED
      <4>1. CASE h = g
        <5>1. entries'[h] = entries[g] \cup {ip}
          BY <2>1, <2>3, <4>1 DEF TypeOK
        <5> QED
          BY <5>1, <2>4
      <4>2. CASE h # g
        <5>1. entries'[h] = entries[h]
          BY <2>3, <4>2 DEF TypeOK
        <5> QED
          BY <5>1 DEF TypeOK
      <4> QED
        BY <4>1, <4>2
    <3> QED
      BY <3>1, <3>2 DEF Entries
  <2> QED
    BY <2>3, <2>5, WritesTypes
<1>4. ASSUME NEW ip \in Ips, Del(t, ip) PROVE TypeOK'
  <2> DEFINE g == MapFor(t, MapOf(ip))
  <2>1. g \in Generations
    BY <1>4, ThreadsOf DEF Del, MapFor, TypeOK, MapOf, Maps
  <2>2. /\ Writes(t, "deleted", ip)
        /\ entries' = [entries EXCEPT ![g] = entries[g] \ {ip}]
    BY <1>4 DEF Del
  <2> HIDE DEF g
  <2>3. Entries'
    <3>1. entries' \in [Generations -> SUBSET Ips]
      BY <2>1, <2>2 DEF TypeOK
    <3>2. ASSUME NEW h \in Generations, NEW family \in {V4, V6}
          PROVE  Cardinality(entries'[h] \cap family) <= MAX_ALLOWED
      <4>1. entries[h] \in SUBSET Ips
            /\ Cardinality(entries[h] \cap family) <= MAX_ALLOWED
        BY DEF TypeOK
      <4>2. entries'[h] = entries[h] \/ entries'[h] = entries[h] \ {ip}
        BY <2>1, <2>2 DEF TypeOK
      <4> QED
        BY <4>1, <4>2, FewerFit
    <3> QED
      BY <3>1, <3>2 DEF Entries
  <2> QED
    BY <2>2, <2>3, WritesTypes
<1> QED
  BY <1>1, <1>2, <1>3, <1>4 DEF Request

LEMMA NextTypes == TypeOK /\ [Next]_vars => TypeOK'
<1> SUFFICES ASSUME TypeOK, [Next]_vars PROVE TypeOK'
  OBVIOUS
<1>1. CASE Attach
  <2>1. loads' \in 0 .. MaxLoads /\ program' \in Generations
    BY <1>1, ToolsAssumption DEF Attach, TypeOK, Generations
  <2> QED
    BY <1>1, <2>1 DEF Attach, TypeOK
<1>2. CASE Detach
  BY <1>2 DEF Detach, TypeOK, Closed
<1>3. ASSUME NEW m \in Maps, Pin(m) PROVE TypeOK'
  <2>1. Living(m) \subseteq Generations
    BY <1>3 DEF Living, TypeOK
  <2>2. pins' \in [Maps -> Generations \cup {None}]
    BY <1>3, <2>1 DEF Pin, TypeOK
  <2> QED
    BY <1>3, <2>2 DEF Pin, TypeOK
<1>4. ASSUME NEW p \in {"cli", "brain"}, OpenRequired(p) PROVE TypeOK'
  BY <1>4, OpensTypes DEF OpenRequired, Processes, TypeOK
<1>5. CASE OpenApi
  <2>1. PICK file \in SettingsFiles :
          Opens("api", [m \in Maps |-> TryOpen(load_config(file), m)])
    BY <1>5 DEF OpenApi
  <2>2. [m \in Maps |-> TryOpen(load_config(file), m)]
          \in [Maps -> Generations \cup {None}]
    BY DEF TryOpen, TypeOK
  <2> QED
    BY <2>1, <2>2, OpensTypes DEF Processes
<1>6. ASSUME NEW p \in Processes, Exit(p) PROVE TypeOK'
  <2> DEFINE lost == {t \in Threads : ProcessOf(t) = p}
  <2>1. /\ request' = [t \in Threads |-> IF t \in lost THEN Idle ELSE request[t]]
        /\ disputed' = disputed \cup UNION {request[t].of : t \in lost}
    BY <1>6 DEF Exit
  <2>2. Idle \in Requests /\ \A t \in Threads : request[t] \in Requests
    BY DEF Idle, Requests, TypeOK
  <2>3. request' \in [Threads -> Requests]
    BY <2>1, <2>2
  <2>4. disputed' \subseteq Ips
    <3>1. \A t \in lost : request[t].of \subseteq Ips
      BY <2>2 DEF Requests
    <3> QED
      BY <2>1, <3>1 DEF TypeOK
  <2> QED
    BY <1>6, <2>3, <2>4, ClosesTypes, TypeParts
    DEF Exit, makefile, TypeOK, Handles
<1>7. ASSUME NEW t \in Threads, Request(t) PROVE TypeOK'
  BY <1>7, RequestTypes
<1>8. CASE UNCHANGED vars
  BY <1>8 DEF vars, makefile, TypeOK
<1> QED
  BY <1>1, <1>2, <1>3, <1>4, <1>5, <1>6, <1>7, <1>8
  DEF Next, main, allowlist, Threads

\* Type correctness; the allowlist maps never hold more than they can.
THEOREM TypeCorrect == Spec => []TypeOK
BY InitTypes, NextTypes, PTL DEF Spec

-----------------------------------------------------------------------------
(* What a clean load makes agree.                                          *)

\* Pins are made after a load and go with the next unload.
PinsFollowLoads == program = None => topin = {} /\ pins = Closed

\* Who does not run has nothing open, and no request.
ExitCloses ==
  /\ \A p \in Processes \ running : fds[p] = Closed
  /\ \A t \in Threads : ProcessOf(t) \notin running => request[t] = Idle

\* Who holds what; nobody knows a generation that is yet to come.
Held == /\ PinsFollowLoads /\ ExitCloses /\ CleanReloadAgrees
        /\ program <= loads
        /\ \A m \in Maps : pins[m] <= loads
        /\ \A p \in Processes, m \in Maps : fds[p][m] <= loads

LEMMA AttachHeld == TypeOK /\ Held /\ Attach => Held'
<1> SUFFICES ASSUME TypeOK, Held, Attach PROVE Held'
  OBVIOUS
<1>1. /\ program' = loads' /\ loads' = loads + 1 /\ loads \in Nat
      /\ pins' = Closed /\ fds' = fds /\ running' = running
      /\ request' = request
  BY ToolsAssumption DEF Attach, Held, PinsFollowLoads, TypeOK
<1>2. program' # None
  BY <1>1 DEF None
<1>3. \A m \in Maps : Closed[m] = None
  BY DEF Closed
<1>4. CleanReloadAgrees'
  <2>1. clean' => \A p \in Processes : fds[p] = Closed
    BY DEF Attach, Held, ExitCloses
  <2> QED
    BY <1>1, <1>3, <2>1 DEF CleanReloadAgrees
<1>5. /\ \A m \in Maps : pins'[m] <= loads'
      /\ \A p \in Processes, m \in Maps : fds'[p][m] <= loads'
  BY <1>1, <1>3, ToolsAssumption DEF Held, TypeOK, None, Generations
<1> QED
  BY <1>1, <1>2, <1>4, <1>5 DEF Held, PinsFollowLoads, ExitCloses

LEMMA PinHeld == ASSUME NEW m \in Maps PROVE TypeOK /\ Held /\ Pin(m) => Held'
<1> SUFFICES ASSUME TypeOK, Held, Pin(m) PROVE Held'
  OBVIOUS
<1>1. program # None
  BY DEF Pin, Held, PinsFollowLoads
<1>2. \A g \in Living(m) : g <= loads
  BY DEF Living, Held
<1>3. clean => Living(m) \subseteq {program}
  BY <1>1 DEF Living, Held, CleanReloadAgrees
<1>4. \A n \in Maps : pins'[n] = pins[n] \/ (n = m /\ pins'[n] \in Living(m))
  <2>1. CASE UNCHANGED pins
    BY <2>1
  <2>2. ASSUME NEW oldest \in Living(m), pins' = [pins EXCEPT ![m] = oldest]
        PROVE  \A n \in Maps :
                 pins'[n] = pins[n] \/ (n = m /\ pins'[n] \in Living(m))
    BY <2>2 DEF TypeOK
  <2> QED
    BY <2>1, <2>2 DEF Pin
<1>5. UNCHANGED <<program, loads, fds, running, request, clean>>
  BY DEF Pin
<1> QED
  BY <1>1, <1>2, <1>3, <1>4, <1>5
  DEF Held, PinsFollowLoads, ExitCloses, CleanReloadAgrees

LEMMA OpensHeld ==
  ASSUME TypeOK, Held, NEW p \in Processes, NEW h,
         \A m \in Maps : h[m] \in {pins[m], None}, Opens(p, h)
  PROVE  Held'
<1>1. \A q \in Processes : fds'[q] = IF q = p THEN h ELSE fds[q]
  BY DEF Opens, TypeOK
<1>2. UNCHANGED <<program, loads, pins, topin, clean, request>>
  BY DEF Opens, makefile
<1>3. \A m \in Maps : h[m] <= loads
  BY ToolsAssumption DEF Held, TypeOK, None
<1> QED
  BY <1>1, <1>2, <1>3
  DEF Held, PinsFollowLoads, ExitCloses, CleanReloadAgrees, Opens

LEMMA ClosesHeld ==
  ASSUME TypeOK, Held, NEW p \in Processes, Closes(p),
         UNCHANGED <<program, loads, pins, topin, clean>>,
         \A t \in Threads : \/ request'[t] = Idle
                            \/ ProcessOf(t) # p /\ request'[t] = request[t]
  PROVE  Held'
<1>1. \A q \in Processes : fds'[q] = IF q = p THEN Closed ELSE fds[q]
  BY DEF Closes, TypeOK
<1>2. \A m \in Maps : Closed[m] = None
  BY DEF Closed
<1>3. None <= loads
  BY ToolsAssumption DEF TypeOK, None
<1> QED
  BY <1>1, <1>2, <1>3
  DEF Held, PinsFollowLoads, ExitCloses, CleanReloadAgrees, Closes

LEMMA SameHeld ==
  ASSUME Held, UNCHANGED <<program, loads, pins, topin, clean, fds, running>>,
         \A t \in Threads : \/ request'[t] \in {Idle, request[t]}
                            \/ ProcessOf(t) \in running \/ request[t] # Idle
  PROVE  Held'
BY DEF Held, PinsFollowLoads, ExitCloses, CleanReloadAgrees

LEMMA RequestHeld ==
  ASSUME TypeOK, Held, NEW t \in Threads, Request(t)
  PROVE  Held'
<1>1. ASSUME Answers(t) PROVE Held'
  <2>1. \A u \in Threads : request'[u] = IF u = t THEN Idle ELSE request[u]
    BY <1>1 DEF Answers, TypeOK
  <2>2. CASE t = "cli"
    BY <1>1, <2>1, <2>2, ClosesHeld, ThreadsOf DEF Answers, makefile, Processes
  <2>3. CASE t # "cli"
    BY <1>1, <2>1, <2>3, SameHeld DEF Answers, makefile
  <2> QED
    BY <2>2, <2>3
<1>2. CASE Refuse(t) \/ Acknowledge(t) \/ Ends(t)
  BY <1>1, <1>2 DEF Refuse, Acknowledge, Ends
<1>3. ASSUME NEW now, Walks(t, now), ProcessOf(t) \in running \/ request[t] # Idle
      PROVE  Held'
  <2>1. \A u \in Threads \ {t} : request'[u] = request[u]
    BY <1>3 DEF Walks, TypeOK
  <2> QED
    BY <1>3, <2>1, SameHeld DEF Walks, makefile
<1>4. CASE List(t) \/ NextMap(t) \/ \E ip \in Ips : Visit(t, ip)
  <2>1. ProcessOf(t) \in running \/ request[t] # Idle
    <3>1. CASE List(t)
      BY <3>1 DEF List, Receives
    <3>2. Idle.step = "idle"
      BY DEF Idle
    <3>3. CASE NextMap(t) \/ \E ip \in Ips : Visit(t, ip)
      BY <3>2, <3>3 DEF NextMap, Visit, Maps
    <3> QED
      BY <1>4, <3>1, <3>3
  <2> QED
    BY <1>3, <1>4, <2>1, ListSteps
<1>5. ASSUME NEW ip \in Ips, Add(t, ip) \/ Del(t, ip) PROVE Held'
  <2>1. PICK step \in {"added", "deleted"} : Writes(t, step, ip)
    BY <1>5 DEF Add, Del
  <2>2. ASSUME NEW u \in Threads, ProcessOf(u) \notin running, request[u] = Idle
        PROVE  request'[u] = Idle
    <3>1. u # t
      BY <1>5, <2>2 DEF Add, Del, Receives
    <3>2. request'[u] = [step |-> "idle", of |-> {}, todo |-> {} \ {ip},
                         shown |-> {}, calm |-> {} \ {ip}, missed |-> {}]
      <4>1. request[u] = [step |-> "idle", of |-> {}, todo |-> {},
                          shown |-> {}, calm |-> {}, missed |-> {}]
        BY <2>2 DEF Idle
      <4>2. /\ request[u].step = "idle" /\ request[u].of = {}
            /\ request[u].todo = {} /\ request[u].shown = {}
            /\ request[u].calm = {} /\ request[u].missed = {}
        BY <4>1
      <4>3. request'[u] = [step |-> request[u].step, of |-> request[u].of,
                           todo |-> request[u].todo \ {ip},
                           shown |-> request[u].shown,
                           calm |-> request[u].calm \ {ip},
                           missed |-> request[u].missed]
        BY <2>1, <3>1, WritesRequests
      <4> QED
        BY <4>2, <4>3
    <3> QED
      BY <3>2 DEF Idle
  <2> QED
    BY <2>1, <2>2, SameHeld DEF Writes, makefile
<1> QED
  BY <1>2, <1>4, <1>5 DEF Request

LEMMA NextHeld == TypeOK /\ Held /\ [Next]_vars => Held'
<1> SUFFICES ASSUME TypeOK, Held, [Next]_vars PROVE Held'
  OBVIOUS
<1>1. CASE Detach
  <2>1. \A m \in Maps : Closed[m] = None
    BY DEF Closed
  <2> QED
    BY <1>1, <2>1, ToolsAssumption
    DEF Detach, Held, PinsFollowLoads, ExitCloses, CleanReloadAgrees, TypeOK,
        None
<1>2. ASSUME NEW p \in {"cli", "brain"}, OpenRequired(p) PROVE Held'
  BY <1>2, OpensHeld DEF OpenRequired, Processes
<1>3. CASE OpenApi
  <2>1. PICK file \in SettingsFiles :
          Opens("api", [m \in Maps |-> TryOpen(load_config(file), m)])
    BY <1>3 DEF OpenApi
  <2>2. \A m \in Maps : TryOpen(load_config(file), m) \in {pins[m], None}
    BY DEF TryOpen
  <2> QED
    BY <2>1, <2>2, OpensHeld DEF Processes
<1>4. ASSUME NEW p \in Processes, Exit(p) PROVE Held'
  <2>1. \A t \in Threads : \/ request'[t] = Idle
                           \/ ProcessOf(t) # p /\ request'[t] = request[t]
    BY <1>4 DEF Exit
  <2> QED
    BY <1>4, <2>1, ClosesHeld DEF Exit, makefile
<1>5. CASE UNCHANGED vars
  BY <1>5, SameHeld DEF vars, makefile
<1>6. ASSUME NEW t \in Threads, Request(t) PROVE Held'
  BY <1>6, RequestHeld
<1> QED
  BY <1>1, <1>2, <1>3, <1>4, <1>5, <1>6, AttachHeld, PinHeld
  DEF Next, main, allowlist, Threads

LEMMA InitHeld == Init => Held
BY DEF Init, Held, PinsFollowLoads, ExitCloses, CleanReloadAgrees, Closed, None

\* make attach and whoever opens the maps: after a load that no process with
\* open maps lived through, pins and handles belong to the program.
THEOREM CleanReloads == Spec => []CleanReloadAgrees
<1>1. Held => CleanReloadAgrees
  BY DEF Held
<1> QED
  BY <1>1, InitHeld, NextHeld, TypeCorrect, PTL DEF Spec

-----------------------------------------------------------------------------
(* What the answers make believe.                                          *)

\* A write that is to be answered, and that no other one overlaps, is what the
\* program has of that address.
WritesAgree ==
  (clean /\ program # None)
    => \A t \in Threads : \A ip \in request[t].of \ disputed :
         /\ \A u \in Threads : ip \in request[u].of => u = t
         /\ Written(t)
         /\ ip \in entries[program] <=> request[t].step = "added"

\* A list knows of the addresses nobody wrote what the program has of them, as
\* far as it has come.
ListsTrue ==
  (clean /\ program # None)
    => \A t \in Threads : request[t].step \in Maps
         => \A ip \in request[t].calm :
              /\ ip \in request[t].shown => ip \in entries[program]
              /\ (/\ ip \in entries[program] /\ MapFor(t, MapOf(ip)) # None
                  /\ request[t].step = "allowlist_map"
                       => MapOf(ip) = "allowlist_map")
                   => ip \in request[t].shown \cup request[t].todo
                               \cup request[t].missed

\* The maps of a generation that is yet to come are empty, and those of the
\* program are what the answers say.
Believed ==
  /\ \A g \in Generations : g > loads => entries[g] = {}
  /\ AckedIsEffective
  /\ WritesAgree
  /\ ListsTrue

LEMMA AckedByAddress ==
  AckedIsEffective <=>
    ((clean /\ program # None)
       => \A ip \in Settled : ip \in entries[program] <=> ip \in acked)
BY DEF AckedIsEffective

\* A process of a clean load that has a map open has the program's.
LEMMA HandleIsProgram ==
  ASSUME TypeOK, Held, clean, program # None, NEW t \in Threads, NEW m \in Maps,
         MapFor(t, m) # None
  PROVE  MapFor(t, m) = program
BY ThreadsOf DEF Held, CleanReloadAgrees, MapFor

LEMMA MapsOf == \A ip : MapOf(ip) \in Maps
BY DEF MapOf, Maps

\* A thread that has written nothing it is to answer holds no address back.
LEMMA NothingHeldBack ==
  ASSUME TypeOK, Believed, clean, program # None, NEW t \in Threads, ~ Written(t)
  PROVE  request[t].of \subseteq disputed
BY DEF Believed, WritesAgree

\* Requests that end, and processes that come and go.
LEMMA DropsBelieved ==
  ASSUME TypeOK, Believed, UNCHANGED <<loads, program, clean, entries>>,
         disputed \subseteq disputed',
         \A t \in Threads : \/ request'[t] = Idle
                            \/ /\ request'[t] = request[t]
                               /\ request[t].step \in Maps
                                    => fds'[ProcessOf(t)] = fds[ProcessOf(t)],
         (clean /\ program # None)
           => \A ip \in Settled' : ip \in entries[program] <=> ip \in acked'
  PROVE  Believed'
<1>1. /\ Idle.of = {} /\ Idle.step = "idle" /\ "idle" \notin Maps
  BY DEF Idle, Maps
<1>2. AckedIsEffective'
  BY DEF AckedIsEffective
<1>3. WritesAgree'
  <2> SUFFICES ASSUME clean, program # None, NEW t \in Threads,
                      NEW ip \in request'[t].of \ disputed'
               PROVE  /\ \A u \in Threads : ip \in request'[u].of => u = t
                      /\ Written(t)'
                      /\ ip \in entries[program] <=> request'[t].step = "added"
    BY DEF WritesAgree
  <2>1. request'[t] = request[t]
    BY <1>1
  <2>2. \A u \in Threads : ip \in request'[u].of => ip \in request[u].of
    BY <1>1
  <2>3. /\ \A u \in Threads : ip \in request[u].of => u = t
        /\ Written(t)
        /\ ip \in entries[program] <=> request[t].step = "added"
    BY <2>1 DEF Believed, WritesAgree
  <2> QED
    BY <2>1, <2>2, <2>3 DEF Written
<1>4. ListsTrue'
  <2> SUFFICES ASSUME clean, program # None, NEW t \in Threads,
                      request'[t].step \in Maps
               PROVE  request'[t] = request[t]
                        /\ \A m : MapFor(t, m)' = MapFor(t, m)
    BY DEF Believed, ListsTrue
  <2>1. request'[t] = request[t] /\ fds'[ProcessOf(t)] = fds[ProcessOf(t)]
    BY <1>1
  <2> QED
    BY <2>1 DEF MapFor
<1> QED
  BY <1>2, <1>3, <1>4 DEF Believed

LEMMA AnswersBelieved ==
  ASSUME TypeOK, Held, Believed, NEW t \in Threads, Answers(t),
         \/ ~ Written(t) /\ UNCHANGED acked
         \/ Acknowledge(t)
  PROVE  Believed'
<1>1. \A u \in Threads : request'[u] = IF u = t THEN Idle ELSE request[u]
  BY DEF Answers, TypeOK
<1>2. UNCHANGED <<loads, program, clean, entries, disputed>>
  BY DEF Answers, makefile
<1>3. \A u \in Threads \ {t} : fds'[ProcessOf(u)] = fds[ProcessOf(u)]
  <2>1. CASE t = "cli"
    BY <2>1, ThreadsOf DEF Answers, Closes, TypeOK
  <2>2. CASE t # "cli"
    BY <2>2 DEF Answers
  <2> QED
    BY <2>1, <2>2
<1>4. ASSUME clean, program # None, NEW ip \in Settled'
      PROVE  ip \in entries[program] <=> ip \in acked'
  <2>1. /\ ip \in Ips \ disputed
        /\ \A u \in Threads \ {t} : ip \notin request[u].of
    BY <1>1, <1>2, <1>4 DEF Settled
  <2>2. CASE ip \notin request[t].of
    <3>1. ip \in Settled
      BY <2>1, <2>2 DEF Settled
    <3>2. ip \in entries[program] <=> ip \in acked
      BY <1>4, <3>1, AckedByAddress DEF Believed
    <3>3. ip \in acked' <=> ip \in acked
      BY <2>2 DEF Acknowledge
    <3> QED
      BY <3>2, <3>3
  <2>3. CASE ip \in request[t].of
    <3>1. Written(t) /\ (ip \in entries[program] <=> request[t].step = "added")
      BY <1>4, <2>1, <2>3 DEF Believed, WritesAgree
    <3>2. Acknowledge(t)
      BY <3>1
    <3> QED
      BY <2>3, <3>1, <3>2 DEF Acknowledge
  <2> QED
    BY <2>2, <2>3
<1> QED
  BY <1>1, <1>2, <1>3, <1>4, DropsBelieved

LEMMA ExitBelieved ==
  ASSUME TypeOK, Held, Believed, NEW p \in Processes, Exit(p)
  PROVE  Believed'
<1> DEFINE lost == {t \in Threads : ProcessOf(t) = p}
<1>1. /\ request' = [t \in Threads |-> IF t \in lost THEN Idle ELSE request[t]]
      /\ disputed' = disputed \cup UNION {request[t].of : t \in lost}
      /\ UNCHANGED <<loads, program, clean, entries, acked>>
  BY DEF Exit, makefile
<1>2. \A t \in Threads \ lost : fds'[ProcessOf(t)] = fds[ProcessOf(t)]
  BY ThreadsOf DEF Exit, Closes, TypeOK
<1>3. ASSUME clean, program # None, NEW ip \in Settled'
      PROVE  ip \in entries[program] <=> ip \in acked'
  <2>1. /\ ip \in Ips /\ ip \notin disputed /\ \A t \in lost : ip \notin request[t].of
        /\ \A t \in Threads : ip \notin request'[t].of
    BY <1>1, <1>3 DEF Settled
  <2>2. \A t \in Threads : ip \notin request[t].of
    BY <1>1, <2>1
  <2>3. ip \in Settled
    BY <2>1, <2>2 DEF Settled
  <2> QED
    BY <1>1, <1>3, <2>3, AckedByAddress DEF Believed
<1> QED
  BY <1>1, <1>2, <1>3, DropsBelieved

LEMMA OpensBelieved ==
  ASSUME TypeOK, Held, Believed, NEW p \in Processes, NEW h, Opens(p, h)
  PROVE  Believed'
<1>1. UNCHANGED <<loads, program, clean, entries, disputed, acked, request>>
  BY DEF Opens, makefile
<1>2. ASSUME NEW t \in Threads, request[t].step \in Maps
      PROVE  fds'[ProcessOf(t)] = fds[ProcessOf(t)]
  <2>1. request[t] # Idle
    BY <1>2 DEF Idle, Maps
  <2>2. ProcessOf(t) # p
    BY <2>1 DEF Opens, Held, ExitCloses
  <2> QED
    BY <2>2, ThreadsOf DEF Opens, TypeOK
<1>3. Settled' = Settled
  BY <1>1 DEF Settled
<1> QED
  BY <1>1, <1>2, <1>3, DropsBelieved, AckedByAddress DEF Believed

\* One write of the program's maps, or of others while nothing is claimed.
LEMMA WritesBelieved ==
  ASSUME TypeOK, Held, Believed, NEW t \in Threads, NEW ip \in Ips,
         NEW step \in {"added", "deleted"}, Receives(t), Writes(t, step, ip),
         NEW g, g = MapFor(t, MapOf(ip)), g # None,
         entries' = [entries EXCEPT ![g] = IF step = "added" THEN @ \cup {ip}
                                           ELSE @ \ {ip}]
  PROVE  Believed'
<1>1. g \in Generations /\ g <= loads
  BY ThreadsOf, MapsOf DEF MapFor, TypeOK, Held
<1>2. /\ UNCHANGED <<loads, program, clean, acked, fds>>
      /\ disputed' = IF \E u \in Threads : ip \in request[u].of
                     THEN disputed \cup {ip} ELSE disputed \ {ip}
  BY DEF Writes, makefile
<1>3. /\ request'[t].step = step /\ request'[t].of = {ip}
      /\ \A u \in Threads \ {t} :
           /\ request'[u].step = request[u].step
           /\ request'[u].of = request[u].of
           /\ request'[u].todo = request[u].todo \ {ip}
           /\ request'[u].shown = request[u].shown
           /\ request'[u].calm = request[u].calm \ {ip}
           /\ request'[u].missed = request[u].missed
  <2>1. request'[t].step = step /\ request'[t].of = {ip}
    <3>1. request'[t] = [step |-> step, of |-> {ip}, todo |-> {}, shown |-> {},
                         calm |-> {}, missed |-> {}]
      BY WritesRequests
    <3> QED
      BY <3>1
  <2>2. \A u \in Threads \ {t} :
          request'[u] = [request[u] EXCEPT !.todo = @ \ {ip}, !.calm = @ \ {ip}]
    BY DEF Writes
  <2>3. ASSUME NEW u \in Threads \ {t}
        PROVE  /\ request'[u].step = request[u].step
               /\ request'[u].of = request[u].of
               /\ request'[u].todo = request[u].todo \ {ip}
               /\ request'[u].shown = request[u].shown
               /\ request'[u].calm = request[u].calm \ {ip}
               /\ request'[u].missed = request[u].missed
    <3>1. request[u] \in Requests
      BY DEF TypeOK
    <3> QED
      BY <2>2, <3>1 DEF Requests
  <2> QED
    BY <2>1, <2>3
<1>4. ~ Written(t)
  BY DEF Receives, Written
<1>5. \A h \in Generations : h > loads => entries'[h] = {}
  <2>1. \A h \in Generations : h # g => entries'[h] = entries[h]
    BY DEF TypeOK
  <2>2. \A h \in Generations : h > loads => h # g
    BY <1>1, ToolsAssumption DEF Generations, TypeOK
  <2> QED
    BY <1>2, <2>1, <2>2 DEF Believed
<1>6. ASSUME clean, program # None
      PROVE  /\ ip \in entries'[program] <=> step = "added"
             /\ \A i : i # ip => (i \in entries'[program] <=> i \in entries[program])
             /\ request[t].of \subseteq disputed
  <2>1. g = program
    BY <1>6, HandleIsProgram, MapsOf
  <2>2. entries'[program] = IF step = "added" THEN entries[program] \cup {ip}
                            ELSE entries[program] \ {ip}
    BY <1>1, <2>1 DEF TypeOK
  <2>3. request[t].of \subseteq disputed
    BY <1>4, <1>6, NothingHeldBack
  <2> QED
    BY <2>2, <2>3
<1>7. AckedIsEffective'
  <2> SUFFICES ASSUME clean, program # None, NEW i \in Settled'
               PROVE  i \in entries'[program] <=> i \in acked
    BY <1>2 DEF AckedIsEffective
  <2>1. i \in Ips \ disputed' /\ \A u \in Threads : i \notin request'[u].of
    BY DEF Settled
  <2>2. i # ip
    BY <1>3, <2>1
  <2>3. i \notin disputed /\ \A u \in Threads : i \notin request[u].of
    BY <1>2, <1>3, <1>6, <2>1, <2>2
  <2>4. i \in Settled
    BY <2>1, <2>3 DEF Settled
  <2> QED
    BY <1>6, <2>2, <2>4, AckedByAddress DEF Believed
<1>8. WritesAgree'
  <2> SUFFICES ASSUME clean, program # None, NEW u \in Threads,
                      NEW i \in request'[u].of \ disputed'
               PROVE  /\ \A v \in Threads : i \in request'[v].of => v = u
                      /\ request'[u].step \in {"added", "deleted"}
                      /\ i \in entries'[program] <=> request'[u].step = "added"
    BY <1>2 DEF WritesAgree, Written
  <2>1. CASE i = ip
    <3>1. \A v \in Threads : ip \notin request[v].of
      BY <1>2, <2>1
    <3>2. \A v \in Threads : i \in request'[v].of => v = t
      BY <1>3, <2>1, <3>1
    <3> QED
      BY <1>3, <1>6, <2>1, <3>2
  <2>2. CASE i # ip
    <3>1. u # t
      BY <1>3, <2>2
    <3>2. i \in request[u].of \ disputed
      BY <1>2, <1>3, <2>2, <3>1
    <3>3. /\ \A v \in Threads : i \in request[v].of => v = u
          /\ Written(u)
          /\ i \in entries[program] <=> request[u].step = "added"
      BY <3>2 DEF Believed, WritesAgree
    <3>4. \A v \in Threads : i \in request'[v].of => v = u
      BY <1>3, <2>2, <3>3
    <3> QED
      BY <1>3, <1>6, <2>2, <3>1, <3>3, <3>4 DEF Written
  <2> QED
    BY <2>1, <2>2
<1>9. ListsTrue'
  <2> SUFFICES ASSUME clean, program # None, NEW u \in Threads,
                      request'[u].step \in Maps, NEW i \in request'[u].calm
               PROVE  /\ i \in request'[u].shown => i \in entries'[program]
                      /\ (/\ i \in entries'[program]
                          /\ MapFor(u, MapOf(i))' # None
                          /\ request'[u].step = "allowlist_map"
                               => MapOf(i) = "allowlist_map")
                           => i \in request'[u].shown \cup request'[u].todo
                                      \cup request'[u].missed
    BY <1>2 DEF ListsTrue
  <2>1. u # t
    BY <1>3 DEF Maps
  <2>2. i # ip /\ i \in request[u].calm /\ request[u].step \in Maps
    BY <1>3, <2>1
  <2>3. MapFor(u, MapOf(i))' = MapFor(u, MapOf(i))
    BY <1>2 DEF MapFor
  <2>4. /\ i \in request[u].shown => i \in entries[program]
        /\ (/\ i \in entries[program] /\ MapFor(u, MapOf(i)) # None
            /\ request[u].step = "allowlist_map" => MapOf(i) = "allowlist_map")
             => i \in request[u].shown \cup request[u].todo \cup request[u].missed
    BY <2>2 DEF Believed, ListsTrue
  <2> QED
    BY <1>3, <1>6, <2>1, <2>2, <2>3, <2>4
<1> QED
  BY <1>2, <1>5, <1>7, <1>8, <1>9 DEF Believed

\* A step of a list changes what its own thread knows, and nothing else.
LEMMA WalksBelieved ==
  ASSUME TypeOK, Held, Believed, NEW t \in Threads, NEW now \in Requests,
         Walks(t, now), ~ Written(t), now.of \subseteq request[t].of,
         now.step \in Maps,
         (clean /\ program # None)
           => \A ip \in now.calm :
                /\ ip \in now.shown => ip \in entries[program]
                /\ (/\ ip \in entries[program] /\ MapFor(t, MapOf(ip)) # None
                    /\ now.step = "allowlist_map"
                         => MapOf(ip) = "allowlist_map")
                     => ip \in now.shown \cup now.todo \cup now.missed
  PROVE  Believed'
<1>1. \A u \in Threads : request'[u] = IF u = t THEN now ELSE request[u]
  BY WalksRequests
<1>2. UNCHANGED <<loads, program, clean, acked, fds, entries, disputed>>
  BY DEF Walks, makefile
<1>3. (clean /\ program # None) => request[t].of \subseteq disputed
  BY NothingHeldBack
<1>4. AckedIsEffective'
  <2> SUFFICES ASSUME clean, program # None, NEW i \in Settled'
               PROVE  i \in entries[program] <=> i \in acked
    BY <1>2 DEF AckedIsEffective
  <2>1. i \in Ips \ disputed /\ \A u \in Threads : i \notin request'[u].of
    BY <1>2 DEF Settled
  <2>2. i \in Settled
    BY <1>1, <1>3, <2>1 DEF Settled
  <2> QED
    BY <2>2, AckedByAddress DEF Believed
<1>5. WritesAgree'
  <2> SUFFICES ASSUME clean, program # None, NEW u \in Threads,
                      NEW i \in request'[u].of \ disputed
               PROVE  /\ \A v \in Threads : i \in request'[v].of => v = u
                      /\ request'[u].step \in {"added", "deleted"}
                      /\ i \in entries[program] <=> request'[u].step = "added"
    BY <1>2 DEF WritesAgree, Written
  <2>1. u # t /\ \A v \in Threads : i \in request'[v].of => i \in request[v].of
    BY <1>1, <1>3
  <2>2. /\ \A v \in Threads : i \in request[v].of => v = u
        /\ Written(u)
        /\ i \in entries[program] <=> request[u].step = "added"
    BY <1>1, <2>1 DEF Believed, WritesAgree
  <2> QED
    BY <1>1, <2>1, <2>2 DEF Written
<1>6. ListsTrue'
  <2> SUFFICES ASSUME clean, program # None, NEW u \in Threads,
                      request'[u].step \in Maps, NEW i \in request'[u].calm
               PROVE  /\ i \in request'[u].shown => i \in entries[program]
                      /\ (/\ i \in entries[program]
                          /\ MapFor(u, MapOf(i))' # None
                          /\ request'[u].step = "allowlist_map"
                               => MapOf(i) = "allowlist_map")
                           => i \in request'[u].shown \cup request'[u].todo
                                      \cup request'[u].missed
    BY <1>2 DEF ListsTrue
  <2>1. MapFor(u, MapOf(i))' = MapFor(u, MapOf(i))
    BY <1>2 DEF MapFor
  <2>2. CASE u = t
    BY <1>1, <2>1, <2>2
  <2>3. CASE u # t
    <3>1. request'[u] = request[u]
      BY <1>1, <2>3
    <3> QED
      BY <2>1, <3>1 DEF Believed, ListsTrue
  <2> QED
    BY <2>2, <2>3
<1> QED
  BY <1>2, <1>4, <1>5, <1>6 DEF Believed

LEMMA ListBelieved ==
  ASSUME TypeOK, Held, Believed, NEW t \in Threads,
         List(t) \/ NextMap(t) \/ \E ip \in Ips : Visit(t, ip)
  PROVE  Believed'
<1>1. ASSUME clean, program # None, NEW m \in Maps
      PROVE  HeldBy(t, m) = IF MapFor(t, m) = None THEN {}
                            ELSE {i \in entries[program] : MapOf(i) = m}
  BY <1>1, HandleIsProgram DEF HeldBy
<1>2. ASSUME List(t) PROVE Believed'
  <2>1. PICK now \in Requests :
          /\ Walks(t, now)
          /\ now = [step |-> "allowlist_map", of |-> {},
                    todo |-> HeldBy(t, "allowlist_map"), shown |-> {},
                    calm |-> Ips, missed |-> {}]
    BY <1>2, ListSteps
  <2>2. ~ Written(t) /\ now.of \subseteq request[t].of /\ now.step \in Maps
    BY <1>2, <2>1 DEF List, Receives, Written, Maps
  <2>3. ASSUME clean, program # None, NEW i \in Ips,
               i \in entries[program], MapFor(t, MapOf(i)) # None,
               MapOf(i) = "allowlist_map"
        PROVE  i \in HeldBy(t, "allowlist_map")
    BY <1>1, <2>3 DEF Maps
  <2> QED
    BY <2>1, <2>2, <2>3, WalksBelieved
<1>3. ASSUME NEW ip \in Ips, Visit(t, ip) PROVE Believed'
  <2>1. PICK now \in Requests :
          /\ Walks(t, now)
          /\ now = [step |-> request[t].step, of |-> request[t].of,
                    todo |-> request[t].todo \ {ip},
                    shown |-> request[t].shown \cup {ip},
                    calm |-> request[t].calm, missed |-> request[t].missed]
    BY <1>3, ListSteps
  <2>2. ~ Written(t) /\ now.of \subseteq request[t].of /\ now.step \in Maps
    BY <1>3, <2>1 DEF Visit, Written, Maps
  <2>3. clean /\ program # None => ip \in entries[program]
    BY <1>1, <1>3 DEF Visit
  <2>4. (clean /\ program # None)
          => \A i \in request[t].calm :
               /\ i \in request[t].shown => i \in entries[program]
               /\ (/\ i \in entries[program] /\ MapFor(t, MapOf(i)) # None
                   /\ request[t].step = "allowlist_map"
                        => MapOf(i) = "allowlist_map")
                    => i \in request[t].shown \cup request[t].todo
                               \cup request[t].missed
    BY <1>3 DEF Visit, Believed, ListsTrue
  <2>5. (clean /\ program # None)
          => \A i \in now.calm :
               /\ i \in now.shown => i \in entries[program]
               /\ (/\ i \in entries[program] /\ MapFor(t, MapOf(i)) # None
                   /\ now.step = "allowlist_map" => MapOf(i) = "allowlist_map")
                    => i \in now.shown \cup now.todo \cup now.missed
    BY <2>1, <2>3, <2>4
  <2> QED
    BY <2>1, <2>2, <2>5, WalksBelieved
<1>4. ASSUME NextMap(t) PROVE Believed'
  <2>1. PICK now \in Requests :
          /\ Walks(t, now)
          /\ now = [step |-> "allowlist_map_v6", of |-> request[t].of,
                    todo |-> HeldBy(t, "allowlist_map_v6"),
                    shown |-> request[t].shown, calm |-> request[t].calm,
                    missed |-> request[t].missed \cup request[t].todo]
    BY <1>4, ListSteps
  <2>2. ~ Written(t) /\ now.of \subseteq request[t].of /\ now.step \in Maps
    BY <1>4, <2>1 DEF NextMap, Written, Maps
  <2>3. ASSUME clean, program # None, NEW i \in request[t].calm
        PROVE  /\ i \in request[t].shown => i \in entries[program]
               /\ (i \in entries[program] /\ MapFor(t, MapOf(i)) # None)
                    => i \in request[t].shown \cup HeldBy(t, "allowlist_map_v6")
                               \cup (request[t].missed \cup request[t].todo)
    <3>1. /\ i \in request[t].shown => i \in entries[program]
          /\ (/\ i \in entries[program] /\ MapFor(t, MapOf(i)) # None
              /\ MapOf(i) = "allowlist_map")
               => i \in request[t].shown \cup request[t].todo
                          \cup request[t].missed
      BY <1>4, <2>3 DEF NextMap, Believed, ListsTrue, Maps
    <3>2. (/\ i \in entries[program] /\ MapFor(t, MapOf(i)) # None
           /\ MapOf(i) = "allowlist_map_v6")
            => i \in HeldBy(t, "allowlist_map_v6")
      BY <1>1, <2>3 DEF Maps
    <3>3. MapOf(i) \in {"allowlist_map", "allowlist_map_v6"}
      BY DEF MapOf
    <3> QED
      BY <3>1, <3>2, <3>3
  <2> QED
    BY <2>1, <2>2, <2>3, WalksBelieved
<1> QED
  BY <1>2, <1>3, <1>4

LEMMA AttachBelieved ==
  ASSUME TypeOK, Held, Believed, Attach
  PROVE  Believed'
<1>1. /\ loads' = loads + 1 /\ loads \in Nat /\ program' = loads'
      /\ acked' = {} /\ entries' = entries /\ request' = request
  BY ToolsAssumption DEF Attach, TypeOK
<1>2. program' \in Generations
  BY <1>1, ToolsAssumption DEF Attach, Generations
<1>3. \A g \in Generations : g > loads => entries[g] = {}
  BY DEF Believed
<1>4. \A g \in Generations : g > loads' => g > loads
  BY <1>1, ToolsAssumption DEF Generations
<1>5. program' > loads
  BY <1>1
<1>6. entries[program'] = {}
  BY <1>2, <1>3, <1>5
<1>7. AckedIsEffective'
  BY <1>1, <1>6 DEF AckedIsEffective
<1>8. clean' => \A t \in Threads : request'[t].of = {} /\ request'[t].step = "idle"
  <2>1. clean' => running = {}
    BY Zenon DEF Attach
  <2> QED
    BY <1>1, <2>1 DEF Held, ExitCloses, Idle
<1>9. WritesAgree' /\ ListsTrue'
  BY <1>8 DEF WritesAgree, ListsTrue, Maps
<1> QED
  BY <1>1, <1>3, <1>4, <1>7, <1>9 DEF Believed

LEMMA NextBelieved ==
  TypeOK /\ Held /\ Believed /\ [Next]_vars => Believed'
<1> SUFFICES ASSUME TypeOK, Held, Believed, [Next]_vars
             PROVE  Believed'
  OBVIOUS
<1>1. CASE Detach
  BY <1>1 DEF Detach, Believed, AckedIsEffective, WritesAgree, ListsTrue
<1>2. ASSUME UNCHANGED <<loads, program, clean, entries, acked, disputed,
                         request, fds>>
      PROVE  Believed'
  BY <1>2 DEF Believed, AckedIsEffective, WritesAgree, ListsTrue, Settled,
     Written, MapFor
<1>3. ASSUME NEW m \in Maps, Pin(m) PROVE Believed'
  BY <1>2, <1>3 DEF Pin
<1>4. CASE UNCHANGED vars
  BY <1>2, <1>4 DEF vars, makefile
<1>5. ASSUME NEW p \in {"cli", "brain"}, OpenRequired(p) PROVE Believed'
  BY <1>5, OpensBelieved DEF OpenRequired, Processes
<1>6. CASE OpenApi
  BY <1>6, OpensBelieved DEF OpenApi, Processes
<1>7. ASSUME NEW t \in Threads, Request(t) PROVE Believed'
  <2>1. CASE Refuse(t)
    BY <2>1, AnswersBelieved DEF Refuse
  <2>2. CASE Ends(t)
    BY <2>2, AnswersBelieved DEF Ends, Written
  <2>3. CASE Acknowledge(t)
    BY <2>3, AnswersBelieved DEF Acknowledge
  <2>4. ASSUME NEW ip \in Ips, Add(t, ip) PROVE Believed'
    BY <2>4, WritesBelieved DEF Add
  <2>5. ASSUME NEW ip \in Ips, Del(t, ip) PROVE Believed'
    BY <2>5, WritesBelieved DEF Del
  <2> QED
    BY <1>7, <2>1, <2>2, <2>3, <2>4, <2>5, ListBelieved DEF Request
<1> QED
  BY <1>1, <1>3, <1>4, <1>5, <1>6, <1>7, AttachBelieved, ExitBelieved
  DEF Next, main, allowlist, Threads

LEMMA InitBelieved == Init => Believed
BY DEF Init, Believed, AckedIsEffective, WritesAgree, ListsTrue

LEMMA BelievedSpec == Spec => [](TypeOK /\ Held /\ Believed)
<1>1. Spec => []TypeOK
  BY TypeCorrect
<1>2. Spec => []Held
  BY InitHeld, NextHeld, TypeCorrect, PTL DEF Spec
<1> QED
  BY <1>1, <1>2, InitBelieved, NextBelieved, PTL DEF Spec

\* Command line and API: whatever is written, answered, overlaps and dies, the
\* program has of each address that is settled what was answered last.
THEOREM AnswersHold == Spec => []AckedIsEffective
<1>1. Believed => AckedIsEffective
  BY DEF Believed
<1> QED
  BY <1>1, BelievedSpec, PTL

\* ... and so has a list, of those nobody wrote meanwhile: no more in any case,
\* and no less when it has visited all there was to visit.
THEOREM ToolsAgree == Spec => ListsAgree
<1>1. ASSUME TypeOK, Held, Believed, NEW t \in Threads, clean, program # None,
             Ends(t), NEW ip \in Settled \cap request[t].calm
      PROVE  /\ ip \in request[t].shown => ip \in acked
             /\ (ip \in acked /\ MapFor(t, MapOf(ip)) # None
                   /\ request[t].missed \cup request[t].todo = {})
                  => ip \in request[t].shown
  <2>1. ip \in entries[program] <=> ip \in acked
    BY <1>1, AckedByAddress DEF Believed
  <2>2. /\ ip \in request[t].shown => ip \in entries[program]
        /\ (ip \in entries[program] /\ MapFor(t, MapOf(ip)) # None)
             => ip \in request[t].shown \cup request[t].todo
                         \cup request[t].missed
    BY <1>1 DEF Believed, ListsTrue, Ends, Maps
  <2> QED
    BY <2>1, <2>2
<1>2. (TypeOK /\ Held /\ Believed)
        => [\A t \in Threads : (clean /\ program # None /\ Ends(t))
              => \A ip \in Settled \cap request[t].calm :
                   /\ ip \in request[t].shown => ip \in acked
                   /\ (ip \in acked /\ MapFor(t, MapOf(ip)) # None
                         /\ request[t].missed \cup request[t].todo = {})
                        => ip \in request[t].shown ]_vars
  BY <1>1
<1> QED
  BY <1>2, BelievedSpec, PTL DEF ListsAgree

=============================================================================
