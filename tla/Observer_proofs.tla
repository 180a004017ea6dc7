--------------------------- MODULE Observer_proofs ---------------------------
(***************************************************************************)
(* First the probes of kernel/tracer.bpf.c, for every number of CPUs,      *)
(* tasks and sockets and every size of the ring buffer and the maps: a     *)
(* record of the ring buffer has one owner, the events of a CPU are in     *)
(* order, and the endpoints of an event are those of its socket.  Then the *)
(* whole observer, from the probes to the files of the collector.          *)
(***************************************************************************)
EXTENDS Observer, Collector_proofs, FiniteSetTheorems, SequenceTheorems, TLAPS

Record == [cpu : CPUs, busy : BOOLEAN, e : Event]
Program == [pc : {"idle", "reserve", "submit"}, e : Event]

(* The two maps and what the kernel itself keeps. *)
MapsTyped ==
  /\ sock \in [Sockets -> Endpoints]
  /\ current \in [CPUs -> Tasks]
  /\ connections \in PartialFunctions(Sockets, Endpoints)
  /\ IsFiniteSet(DOMAIN connections)
  /\ Cardinality(DOMAIN connections) <= MAX_CONNECTIONS
  /\ task_sockets \in PartialFunctions(Tasks, Sockets)
  /\ IsFiniteSet(DOMAIN task_sockets)
  /\ Cardinality(DOMAIN task_sockets) <= MAX_TASK_SOCKETS
  /\ reused \in 0 .. MaxReuses

RingTyped ==
  /\ cpu \in [CPUs -> Program]
  /\ ring \in Seq(Record) /\ Len(ring) <= RING_SIZE
  /\ clock \in Nat /\ fired \in 0 .. MaxProbes

(* Who owns a busy record: a program between its reservation and its       *)
(* submission, and that record is the last one of its CPU.                 *)
Owned ==
  /\ \A c \in CPUs : cpu[c].pc # "submit" => Reserved(c) = {}
  /\ \A c \in CPUs : cpu[c].pc = "submit" => Reserved(c) # {}
  /\ \A j, k \in 1 .. Len(ring) : j < k /\ ring[j].cpu = ring[k].cpu => ~ ring[j].busy

(* Order needs that no submitted record is younger than the clock.         *)
Stamped ==
  /\ PerCpuOrder
  /\ \A k \in 1 .. Len(ring) : ~ ring[k].busy => ring[k].e.timestamp <= clock

(* The clock counts submissions, so it lags behind the probes fired by at  *)
(* least the programs that are still running: it never reaches U64.        *)
Running == {c \in CPUs : cpu[c].pc # "idle"}
ClockLags == clock + Cardinality(Running) <= fired

(* An event is true of its socket as long as the socket is the same one;   *)
(* that it stays so takes true entries in the map as well.                 *)
TrueOf(e) ==
  e.socket_ptr # NoSocket => \/ e.addr = sock[e.socket_ptr]
                             \/ e.event \in TaskProbes /\ e.addr = NoAddr

Truthful ==
  reused = 0 => /\ \A s \in DOMAIN connections : connections[s] = sock[s]
                /\ \A c \in CPUs : TrueOf(cpu[c].e)
                /\ \A k \in 1 .. Len(ring) : TrueOf(ring[k].e)

(* The inductive invariant. *)
TracerInv == MapsTyped /\ RingTyped /\ Owned /\ Stamped /\ ClockLags /\ Truthful

-----------------------------------------------------------------------------
(* Facts about the data.                                                   *)

LEMMA EventIsTyped ==
  ASSUME NEW type \in EventTypes, NEW s \in Sockets \cup {NoSocket}, NEW a \in Addr
  PROVE  /\ UnstampedEvent(type, s, a) \in Event
         /\ UnstampedEvent(type, s, a).socket_ptr = s
         /\ UnstampedEvent(type, s, a).addr = a
         /\ UnstampedEvent(type, s, a).event = type
  BY U64Assumption DEF UnstampedEvent, Event, Timestamp

LEMMA NoAddrIsTyped == NoAddr \in Addr
  BY HostsAssumption, PortsAssumption DEF NoAddr, Addr

LEMMA IdleIsTyped == IdleCpu \in Program /\ IdleCpu.pc = "idle" /\ TrueOf(IdleCpu.e)
<1>1. UnstampedEvent("EVENT_UNKNOWN", NoSocket, NoAddr) \in Event
  BY EventIsTyped, NoAddrIsTyped DEF EventTypes
<1>2. UnstampedEvent("EVENT_UNKNOWN", NoSocket, NoAddr).socket_ptr = NoSocket
  BY DEF UnstampedEvent
<1>. QED
  BY <1>1, <1>2 DEF IdleCpu, Program, TrueOf

LEMMA EmptyMap ==
  ASSUME NEW S, NEW T
  PROVE  /\ <<>> \in PartialFunctions(S, T)
         /\ DOMAIN <<>> = {}
<1>1. <<>> \in [1 .. 0 -> T] /\ DOMAIN <<>> = 1 .. 0
  BY EmptySeq, LenProperties
<1>2. 1 .. 0 = {}
  OBVIOUS
<1>. QED
  BY <1>1, <1>2 DEF PartialFunctions

(* bpf_map_update_elem: the entry is written, or the map was full and is   *)
(* left alone; it never outgrows max_entries.                              *)
LEMMA MapUpdateIs ==
  ASSUME NEW S, NEW T, NEW map \in PartialFunctions(S, T), NEW key \in S, NEW value \in T,
         NEW max \in Nat, IsFiniteSet(DOMAIN map), Cardinality(DOMAIN map) <= max
  PROVE  LET new == MapUpdate(map, key, value, max)
         IN  /\ new \in PartialFunctions(S, T)
             /\ IsFiniteSet(DOMAIN new)
             /\ Cardinality(DOMAIN new) <= max
             /\ \A k \in DOMAIN new : \/ k = key /\ new[k] = value
                                      \/ k \in DOMAIN map /\ new[k] = map[k]
<1>. DEFINE new == MapUpdate(map, key, value, max)
            D == DOMAIN map \cup {key}
            put == [k \in D |-> IF k = key THEN value ELSE map[k]]
<1>1. map \in [DOMAIN map -> T] /\ DOMAIN map \subseteq S
  BY DEF PartialFunctions
<1>2. CASE ~ (key \in DOMAIN map \/ Cardinality(DOMAIN map) < max)
  BY <1>2 DEF MapUpdate
<1>3. CASE key \in DOMAIN map \/ Cardinality(DOMAIN map) < max
  <2>1. new = put
    BY <1>3 DEF MapUpdate
  <2>2. put \in [D -> T] /\ D \subseteq S /\ DOMAIN put = D
    BY <1>1
  <2>3. put \in PartialFunctions(S, T)
    BY <2>2 DEF PartialFunctions
  <2>4. IsFiniteSet(D)
        /\ Cardinality(D) = IF key \in DOMAIN map THEN Cardinality(DOMAIN map)
                            ELSE Cardinality(DOMAIN map) + 1
    BY FS_AddElement
  <2>5. Cardinality(DOMAIN map) \in Nat
    BY FS_CardinalityType
  <2>6. Cardinality(D) <= max
    BY <1>3, <2>4, <2>5
  <2>7. \A k \in D : \/ k = key /\ put[k] = value
                     \/ k \in DOMAIN map /\ put[k] = map[k]
    OBVIOUS
  <2>. QED
    BY <2>1, <2>2, <2>3, <2>4, <2>6, <2>7
<1>. QED
  BY <1>2, <1>3

-----------------------------------------------------------------------------
(* What a probe does before it submits: it prepares a typed event on its   *)
(* CPU, true of its socket if the maps were, and leaves the maps so.       *)

MapsTrue == reused = 0 => \A s \in DOMAIN connections : connections[s] = sock[s]

Prepared(c, e) ==
  /\ Idle(c) /\ fired < MaxProbes /\ fired' = fired + 1
  /\ cpu' = [cpu EXCEPT ![c] = [pc |-> "reserve", e |-> e]]
  /\ UNCHANGED <<kernelVars, ring, clock>>

LEMMA PrepareIs ==
  ASSUME NEW c \in CPUs, NEW type, NEW s \in Sockets \cup {NoSocket}, NEW a \in Addr,
         Prepare(c, type, s, a)
  PROVE  LET e == UnstampedEvent(type, s, a)
         IN  /\ e \in Event /\ Prepared(c, e)
             /\ e.socket_ptr = s /\ e.addr = a /\ e.event = type
<1>1. type \in EventTypes
  BY TracerAssumption DEF Prepare
<1>. QED
  BY <1>1, EventIsTyped DEF Prepare, Prepared

LEMMA TypedMaps ==
  ASSUME MapsTyped
  PROVE  /\ \A s \in Sockets : sock[s] \in Endpoints /\ sock[s] \in Addr
         /\ \A c \in CPUs : current[c] \in Tasks
         /\ \A s \in DOMAIN connections : /\ s \in Sockets
                                          /\ connections[s] \in Endpoints
                                          /\ connections[s] \in Addr
         /\ \A t \in DOMAIN task_sockets : t \in Tasks /\ task_sockets[t] \in Sockets
  BY TracerAssumption DEF MapsTyped, PartialFunctions

LEMMA RcvPrepares ==
  ASSUME MapsTyped, NEW c \in CPUs, NEW s \in Sockets \cup {NoSocket}, trace_tcp_v4_rcv(c, s)
  PROVE  /\ MapsTyped'
         /\ MapsTrue => MapsTrue'
         /\ \E e \in Event : Prepared(c, e) /\ (reused = 0 => TrueOf(e))
<1>1. CASE s = NoSocket
  <2>1. Prepare(c, "EVENT_TCP_V4_RCV", NoSocket, NoAddr) /\ UNCHANGED mapVars
    BY <1>1, SocketsAssumption DEF trace_tcp_v4_rcv
  <2>2. \E e \in Event : Prepared(c, e) /\ TrueOf(e)
    BY <2>1, PrepareIs, NoAddrIsTyped DEF TrueOf
  <2>3. UNCHANGED <<kernelVars, mapVars>>
    BY <2>1 DEF Prepare
  <2>. QED
    BY <2>2, <2>3 DEF MapsTyped, MapsTrue, kernelVars, mapVars
<1>2. CASE s # NoSocket
  <2>1. /\ Prepare(c, "EVENT_TCP_V4_RCV", s, sock[s])
        /\ connections' = MapUpdate(connections, s, sock[s], MAX_CONNECTIONS)
        /\ UNCHANGED task_sockets
    BY <1>2 DEF trace_tcp_v4_rcv
  <2>2. s \in Sockets /\ sock[s] \in Endpoints /\ sock[s] \in Addr
    BY <1>2, TypedMaps
  <2>3. \E e \in Event : Prepared(c, e) /\ TrueOf(e)
    BY <2>1, <2>2, PrepareIs DEF TrueOf
  <2>4. UNCHANGED kernelVars
    BY <2>1 DEF Prepare
  <2>5. /\ connections' \in PartialFunctions(Sockets, Endpoints)
        /\ IsFiniteSet(DOMAIN connections')
        /\ Cardinality(DOMAIN connections') <= MAX_CONNECTIONS
        /\ \A k \in DOMAIN connections' :
              \/ k = s /\ connections'[k] = sock[s]
              \/ k \in DOMAIN connections /\ connections'[k] = connections[k]
    BY <2>1, <2>2, MapUpdateIs, TracerAssumption DEF MapsTyped
  <2>6. MapsTyped'
    BY <2>1, <2>4, <2>5 DEF MapsTyped, kernelVars
  <2>7. MapsTrue => MapsTrue'
    BY <2>4, <2>5 DEF MapsTrue, kernelVars
  <2>. QED
    BY <2>3, <2>6, <2>7
<1>. QED
  BY <1>1, <1>2

LEMMA EventPrepares ==
  ASSUME MapsTyped, NEW c \in CPUs, NEW type, submit_event(c, type)
  PROVE  /\ MapsTyped'
         /\ MapsTrue => MapsTrue'
         /\ \E e \in Event : Prepared(c, e) /\ (reused = 0 => TrueOf(e))
<1>1. Prepare(c, type, NoSocket, NoAddr) /\ UNCHANGED mapVars
  BY DEF submit_event
<1>2. \E e \in Event : Prepared(c, e) /\ TrueOf(e)
  BY <1>1, PrepareIs, NoAddrIsTyped DEF TrueOf
<1>3. UNCHANGED <<kernelVars, mapVars>>
  BY <1>1 DEF Prepare
<1>. QED
  BY <1>2, <1>3 DEF MapsTyped, MapsTrue, kernelVars, mapVars

LEMMA SocketEventPrepares ==
  ASSUME MapsTyped, MapsTrue, NEW c \in CPUs, NEW type, NEW s \in Sockets,
         submit_socket_event(c, type, s)
  PROVE  /\ MapsTyped' /\ MapsTrue'
         /\ \E e \in Event : Prepared(c, e) /\ (reused = 0 => TrueOf(e))
<1>. DEFINE a == IF s \in DOMAIN connections THEN connections[s] ELSE sock[s]
<1>1. /\ Prepare(c, type, s, a)
      /\ task_sockets' = MapUpdate(task_sockets, current[c], s, MAX_TASK_SOCKETS)
      /\ UNCHANGED connections
  BY DEF submit_socket_event
<1>2. a \in Addr /\ current[c] \in Tasks /\ (reused = 0 => a = sock[s])
  BY TypedMaps DEF MapsTrue
<1>. HIDE DEF a
<1>3. \E e \in Event : Prepared(c, e) /\ (reused = 0 => TrueOf(e))
  BY <1>1, <1>2, PrepareIs DEF TrueOf
<1>4. UNCHANGED kernelVars
  BY <1>1 DEF Prepare
<1>5. /\ task_sockets' \in PartialFunctions(Tasks, Sockets)
      /\ IsFiniteSet(DOMAIN task_sockets')
      /\ Cardinality(DOMAIN task_sockets') <= MAX_TASK_SOCKETS
  BY <1>1, <1>2, MapUpdateIs, TracerAssumption DEF MapsTyped
<1>. QED
  BY <1>1, <1>3, <1>4, <1>5 DEF MapsTyped, MapsTrue, kernelVars

LEMMA TaskEventPrepares ==
  ASSUME MapsTyped, MapsTrue, NEW c \in CPUs, NEW type \in TaskProbes,
         submit_current_task_event(c, type)
  PROVE  /\ MapsTyped' /\ MapsTrue'
         /\ \E e \in Event : Prepared(c, e) /\ (reused = 0 => TrueOf(e))
<1>. DEFINE s == task_sockets[current[c]]
            a == IF s \in DOMAIN connections THEN connections[s] ELSE NoAddr
<1>1. CASE submit_event(c, type)
  BY <1>1, EventPrepares
<1>2. CASE /\ current[c] \in DOMAIN task_sockets
           /\ Prepare(c, type, s, a) /\ UNCHANGED mapVars
  <2>1. s \in Sockets /\ a \in Addr /\ (reused = 0 => a \in {sock[s], NoAddr})
    BY <1>2, TypedMaps, NoAddrIsTyped DEF MapsTrue
  <2>. HIDE DEF s, a
  <2>2. \E e \in Event : Prepared(c, e) /\ (reused = 0 => TrueOf(e))
    BY <1>2, <2>1, PrepareIs DEF TrueOf
  <2>3. UNCHANGED <<kernelVars, mapVars>>
    BY <1>2 DEF Prepare
  <2>. QED
    BY <2>2, <2>3 DEF MapsTyped, MapsTrue, kernelVars, mapVars
<1>. QED
  BY <1>1, <1>2 DEF submit_current_task_event

LEMMA FirePrepares ==
  ASSUME MapsTyped, MapsTrue, NEW c \in CPUs, Fire(c)
  PROVE  /\ MapsTyped' /\ MapsTrue'
         /\ \E e \in Event : Prepared(c, e) /\ (reused = 0 => TrueOf(e))
  BY RcvPrepares, EventPrepares, SocketEventPrepares, TaskEventPrepares DEF Fire

-----------------------------------------------------------------------------
(* The number of running programs.                                         *)

LEMMA RunningIsFinite == IsFiniteSet(Running) /\ Cardinality(Running) \in Nat
<1>1. Running \in SUBSET CPUs
  BY DEF Running
<1>2. IsFiniteSet(Running)
  BY <1>1, FS_Subset, TracerAssumption
<1>. QED
  BY <1>2, FS_CardinalityType

LEMMA RunningStarts ==
  ASSUME RingTyped, NEW c \in CPUs, cpu[c].pc = "idle",
         NEW p, p.pc # "idle", cpu' = [cpu EXCEPT ![c] = p]
  PROVE  Cardinality(Running') = Cardinality(Running) + 1
<1>1. Running' = Running \cup {c} /\ c \notin Running
  BY DEF Running, RingTyped
<1>. QED
  BY <1>1, RunningIsFinite, FS_AddElement

LEMMA RunningStops ==
  ASSUME RingTyped, NEW c \in CPUs, cpu[c].pc # "idle", cpu' = [cpu EXCEPT ![c] = IdleCpu]
  PROVE  Cardinality(Running') = Cardinality(Running) - 1
<1>1. Running' = Running \ {c} /\ c \in Running
  BY IdleIsTyped DEF Running, RingTyped
<1>. QED
  BY <1>1, RunningIsFinite, FS_RemoveElement

-----------------------------------------------------------------------------
(* The steps.                                                              *)

LEMMA TracerInitInv == TracerInit => TracerInv
<1>. SUFFICES ASSUME TracerInit PROVE TracerInv
  OBVIOUS
<1>1. ring = <<>> /\ <<>> \in Seq(Record) /\ Len(<<>>) = 0
  BY EmptySeq DEF TracerInit
<1>2. /\ connections \in PartialFunctions(Sockets, Endpoints)
      /\ task_sockets \in PartialFunctions(Tasks, Sockets)
      /\ DOMAIN connections = {} /\ DOMAIN task_sockets = {}
  BY EmptyMap DEF TracerInit
<1>3. IsFiniteSet({}) /\ Cardinality({}) = 0
  BY FS_EmptySet
<1>4. MapsTyped
  BY <1>2, <1>3, TracerAssumption DEF TracerInit, MapsTyped
<1>5. cpu = [c \in CPUs |-> IdleCpu] /\ clock = 0 /\ fired = 0
  BY DEF TracerInit
<1>6. RingTyped
  BY <1>1, <1>5, IdleIsTyped, TracerAssumption DEF RingTyped
<1>7. Owned /\ Stamped
  BY <1>1, <1>5, IdleIsTyped DEF Owned, Stamped, PerCpuOrder, Reserved
<1>8. Running = {}
  BY <1>5, IdleIsTyped DEF Running
<1>9. ClockLags
  BY <1>3, <1>5, <1>8 DEF ClockLags
<1>10. Truthful
  BY <1>1, <1>2, <1>5, IdleIsTyped DEF Truthful
<1>. QED
  BY <1>4, <1>6, <1>7, <1>9, <1>10 DEF TracerInv

LEMMA FireInv ==
  ASSUME TracerInv, NEW c \in CPUs, Fire(c)
  PROVE  TracerInv'
<1>. USE DEF TracerInv
<1>0. MapsTrue
  BY DEF MapsTrue, Truthful
<1>1. MapsTyped' /\ MapsTrue'
  BY <1>0, FirePrepares
<1>2. PICK e \in Event : Prepared(c, e) /\ (reused = 0 => TrueOf(e))
  BY <1>0, FirePrepares
<1>3. /\ cpu[c].pc = "idle" /\ fired < MaxProbes /\ fired' = fired + 1
      /\ cpu' = [cpu EXCEPT ![c] = [pc |-> "reserve", e |-> e]]
      /\ UNCHANGED <<sock, current, reused, ring, clock>>
  BY <1>2 DEF Prepared, Idle, kernelVars
<1>4. /\ cpu' \in [CPUs -> Program]
      /\ cpu'[c].pc = "reserve" /\ cpu'[c].e = e
      /\ \A d \in CPUs \ {c} : cpu'[d] = cpu[d]
  BY <1>3 DEF RingTyped, Program
<1>5. RingTyped'
  BY <1>3, <1>4, TracerAssumption DEF RingTyped
<1>6. Owned'
  <2>1. \A d \in CPUs : Reserved(d)' = Reserved(d)
    BY <1>3 DEF Reserved
  <2>. QED
    BY <1>3, <1>4, <2>1 DEF Owned
<1>7. Stamped'
  BY <1>3 DEF Stamped, PerCpuOrder
<1>8. ClockLags'
  <2>1. Cardinality(Running') = Cardinality(Running) + 1
    BY <1>3, RunningStarts
  <2>. QED
    BY <1>3, <2>1, RunningIsFinite DEF ClockLags, RingTyped
<1>9. Truthful'
  BY <1>1, <1>2, <1>3, <1>4 DEF Truthful, MapsTrue, TrueOf
<1>. QED
  BY <1>1, <1>5, <1>6, <1>7, <1>8, <1>9

(* Without room the event is dropped and the program is over. *)
LEMMA ReserveFailsInv ==
  ASSUME TracerInv, NEW c \in CPUs, Reserve(c), Len(ring) >= RING_SIZE
  PROVE  TracerInv'
<1>. USE DEF TracerInv
<1>1. /\ cpu[c].pc = "reserve" /\ cpu' = [cpu EXCEPT ![c] = IdleCpu]
      /\ UNCHANGED <<sock, current, reused, connections, task_sockets, ring, clock, fired>>
  <2>1. Len(ring) \in Nat /\ RING_SIZE \in Nat
    BY LenProperties, TracerAssumption DEF RingTyped
  <2>. QED
    BY <2>1 DEF Reserve, kernelVars, mapVars
<1>2. /\ cpu' \in [CPUs -> Program] /\ cpu'[c] = IdleCpu
      /\ \A d \in CPUs \ {c} : cpu'[d] = cpu[d]
  BY <1>1, IdleIsTyped DEF RingTyped
<1>3. MapsTyped' /\ RingTyped' /\ Stamped'
  BY <1>1, <1>2 DEF MapsTyped, RingTyped, Stamped, PerCpuOrder
<1>4. Owned'
  <2>1. \A d \in CPUs : Reserved(d)' = Reserved(d)
    BY <1>1 DEF Reserved
  <2>. QED
    BY <1>1, <1>2, <2>1, IdleIsTyped DEF Owned
<1>5. ClockLags'
  <2>1. Cardinality(Running') = Cardinality(Running) - 1
    BY <1>1, RunningStops
  <2>. QED
    BY <1>1, <2>1, RunningIsFinite DEF ClockLags, RingTyped
<1>6. Truthful'
  BY <1>1, <1>2, IdleIsTyped DEF Truthful, TrueOf
<1>. QED
  BY <1>3, <1>4, <1>5, <1>6

(* A record is appended: it is the last one of its CPU, whose program had  *)
(* none before.                                                            *)
LEMMA ReserveInv ==
  ASSUME TracerInv, NEW c \in CPUs, Reserve(c), Len(ring) < RING_SIZE
  PROVE  TracerInv'
<1>. USE DEF TracerInv
<1>. DEFINE n == Len(ring)
            r == [cpu |-> c, busy |-> TRUE, e |-> cpu[c].e]
<1>1. /\ cpu[c].pc = "reserve" /\ cpu' = [cpu EXCEPT ![c].pc = "submit"]
      /\ ring' = Append(ring, r)
      /\ UNCHANGED <<sock, current, reused, connections, task_sockets, clock, fired>>
  <2>1. n \in Nat /\ RING_SIZE \in Nat
    BY LenProperties, TracerAssumption DEF RingTyped
  <2>. QED
    BY <2>1 DEF Reserve, kernelVars, mapVars
<1>2. /\ cpu' \in [CPUs -> Program]
      /\ cpu'[c].pc = "submit" /\ cpu'[c].e = cpu[c].e /\ cpu[c].e \in Event
      /\ \A d \in CPUs \ {c} : cpu'[d] = cpu[d]
  BY <1>1 DEF RingTyped, Program
<1>3. r \in Record
  BY <1>2 DEF Record
<1>4. /\ n \in Nat /\ ring' \in Seq(Record) /\ Len(ring') = n + 1
      /\ \A k \in 1 .. n : ring'[k] = ring[k]
      /\ ring'[n + 1].cpu = c /\ ring'[n + 1].busy /\ ring'[n + 1].e = cpu[c].e
  <2>. HIDE DEF r
  <2>1. /\ n \in Nat /\ ring' \in Seq(Record) /\ Len(ring') = n + 1
        /\ \A k \in 1 .. n : ring'[k] = ring[k]
        /\ ring'[n + 1] = r
    BY <1>1, <1>3, AppendProperties, LenProperties DEF RingTyped
  <2>. QED
    BY <2>1 DEF r
<1>. HIDE DEF n, r
<1>5. \A k \in 1 .. n + 1 : k \in 1 .. n \/ k = n + 1
  BY <1>4
<1>6. MapsTyped' /\ RingTyped'
  BY <1>1, <1>2, <1>4, TracerAssumption DEF MapsTyped, RingTyped, n
<1>7. Reserved(c) = {} /\ \A k \in 1 .. n : ~ (ring[k].cpu = c /\ ring[k].busy)
  BY <1>1 DEF Owned, Reserved, n
<1>8. Owned'
  <2>1. \A d \in CPUs \ {c} : Reserved(d)' = Reserved(d)
    BY <1>4, <1>5 DEF Reserved, n
  <2>2. n + 1 \in Reserved(c)'
    BY <1>4 DEF Reserved
  <2>3. \A j, k \in 1 .. n + 1 : j < k /\ ring'[j].cpu = ring'[k].cpu => ~ ring'[j].busy
    BY <1>4, <1>5, <1>7 DEF Owned, n
  <2>. QED
    BY <1>1, <1>2, <1>4, <2>1, <2>2, <2>3 DEF Owned
<1>9. Stamped'
  BY <1>1, <1>4, <1>5 DEF Stamped, PerCpuOrder, n
<1>10. ClockLags'
  <2>1. Running' = Running
    BY <1>1, <1>2 DEF Running
  <2>. QED
    BY <1>1, <2>1 DEF ClockLags
<1>11. Truthful'
  <2>. SUFFICES ASSUME reused = 0 PROVE Truthful'
    BY <1>1 DEF Truthful
  <2>1. \A d \in CPUs : TrueOf(cpu[d].e) /\ cpu'[d].e = cpu[d].e
    BY <1>2 DEF Truthful
  <2>2. \A k \in 1 .. n + 1 : TrueOf(ring'[k].e)
    BY <1>4, <1>5, <2>1 DEF Truthful, n
  <2>. QED
    BY <1>1, <1>4, <2>1, <2>2 DEF Truthful, TrueOf
<1>. QED
  BY <1>6, <1>8, <1>9, <1>10, <1>11

(* The record is stamped and handed over where it was reserved.            *)
LEMMA SubmitInv ==
  ASSUME TracerInv, NEW c \in CPUs, Submit(c)
  PROVE  TracerInv'
<1>. USE DEF TracerInv
<1>. DEFINE n == Len(ring)
<1>1. PICK k \in Reserved(c) :
        ring' = [ring EXCEPT ![k] = Submitted(ring[k], clock + 1)]
  BY DEF Submit
<1>2. /\ cpu[c].pc = "submit" /\ cpu' = [cpu EXCEPT ![c] = IdleCpu] /\ clock' = clock + 1
      /\ UNCHANGED <<sock, current, reused, connections, task_sockets, fired>>
  BY DEF Submit, kernelVars, mapVars
<1>3. /\ cpu' \in [CPUs -> Program] /\ cpu'[c] = IdleCpu
      /\ \A d \in CPUs \ {c} : cpu'[d] = cpu[d]
  BY <1>2, IdleIsTyped DEF RingTyped
<1>4. /\ n \in Nat /\ k \in 1 .. n /\ ring[k].cpu = c /\ ring[k].busy
      /\ \A j \in 1 .. n : ring[j] \in Record
  BY LenProperties, ElementOfSeq DEF Reserved, RingTyped
<1>5. /\ Cardinality(Running') = Cardinality(Running) - 1
      /\ Cardinality(Running') \in Nat
  <2>1. Running' \in SUBSET CPUs
    BY DEF Running
  <2>2. IsFiniteSet(Running')
    BY <2>1, FS_Subset, TracerAssumption
  <2>3. Cardinality(Running') \in Nat
    BY <2>2, FS_CardinalityType
  <2>4. Cardinality(Running') = Cardinality(Running) - 1
    BY <1>2, RunningStops
  <2>. QED
    BY <2>3, <2>4
<1>6. /\ clock + 1 + Cardinality(Running') <= fired
      /\ clock + 1 \in Timestamp
  BY <1>5, RunningIsFinite, TracerAssumption, U64Assumption DEF ClockLags, RingTyped, Timestamp
<1>7. /\ DOMAIN ring' = 1 .. n /\ Len(ring') = n /\ ring' \in Seq(Record)
      /\ \A j \in (1 .. n) \ {k} : ring'[j] = ring[j]
      /\ ring'[k].cpu = c /\ ~ ring'[k].busy
      /\ ring'[k].e = [ring[k].e EXCEPT !.timestamp = clock + 1]
  <2>. DEFINE r == [cpu |-> c, busy |-> FALSE, e |-> [ring[k].e EXCEPT !.timestamp = clock + 1]]
  <2>1. r \in Record
    BY <1>4, <1>6 DEF Record, Event
  <2>2. ring' = [ring EXCEPT ![k] = r]
    BY <1>1, <1>4 DEF Submitted
  <2>3. ring \in Seq(Record) /\ k \in 1 .. Len(ring)
    BY <1>4 DEF RingTyped
  <2>. HIDE DEF r
  <2>4. /\ ring' \in Seq(Record) /\ Len(ring') = n
        /\ \A j \in 1 .. n : ring'[j] = IF j = k THEN r ELSE ring[j]
    BY <2>1, <2>2, <2>3, ExceptSeq
  <2>5. DOMAIN ring' = 1 .. n
    BY <2>4, LenProperties
  <2>. QED
    BY <1>4, <2>4, <2>5 DEF r
<1>8. \A j \in 1 .. n : j # k /\ ring[j].cpu = c => ~ ring[j].busy
  <2>1. \A j \in 1 .. n : j < k \/ j = k \/ k < j
    BY <1>4
  <2>. QED
    BY <1>4, <2>1 DEF Owned
<1>9. ring'[k].e.timestamp = clock + 1
  BY <1>4, <1>7 DEF Record, Event
<1>10. MapsTyped' /\ RingTyped'
  BY <1>2, <1>3, <1>7 DEF MapsTyped, RingTyped
<1>. HIDE DEF n
<1>11. Owned'
  <2>1. \A d \in CPUs \ {c} : Reserved(d)' = Reserved(d)
    BY <1>4, <1>7 DEF Reserved, n
  <2>2. Reserved(c)' = {}
    BY <1>4, <1>7, <1>8 DEF Reserved
  <2>3. \A i, j \in 1 .. n : i < j /\ ring'[i].cpu = ring'[j].cpu => ~ ring'[i].busy
    BY <1>4, <1>7 DEF Owned, n
  <2>. QED
    BY <1>3, <1>7, <2>1, <2>2, <2>3, IdleIsTyped DEF Owned
<1>12. Stamped'
  <2>1. clock \in Nat
    BY DEF RingTyped
  <2>2. \A j \in 1 .. n : ~ ring'[j].busy => ring'[j].e.timestamp <= clock + 1
    BY <1>4, <1>7, <1>9, <2>1 DEF Stamped, Record, Event, Timestamp, n
  <2>3. ASSUME NEW i \in 1 .. n, NEW j \in 1 .. n, i < j, ring'[i].cpu = ring'[j].cpu,
               ~ ring'[i].busy, ~ ring'[j].busy
        PROVE  ring'[i].e.timestamp < ring'[j].e.timestamp
    <3>1. CASE i = k
      BY <1>4, <1>7, <2>3, <3>1 DEF Owned, n
    <3>2. CASE j = k
      <4>1. i # k /\ ring'[i] = ring[i] /\ ring[i] \in Record
        BY <1>4, <1>7, <2>3, <3>2
      <4>2. ring[i].e.timestamp <= clock /\ ring[i].e.timestamp \in Int
        BY <2>3, <4>1 DEF Stamped, Record, Event, Timestamp, n
      <4>. QED
        BY <1>9, <2>1, <3>2, <4>1, <4>2
    <3>3. CASE i # k /\ j # k
      BY <1>7, <2>3, <3>3 DEF Stamped, PerCpuOrder, n
    <3>. QED
      BY <3>1, <3>2, <3>3
  <2>. QED
    BY <1>2, <1>7, <2>2, <2>3 DEF Stamped, PerCpuOrder
<1>13. ClockLags'
  BY <1>2, <1>6 DEF ClockLags
<1>14. Truthful'
  <2>. SUFFICES ASSUME reused = 0 PROVE Truthful'
    BY <1>2 DEF Truthful
  <2>1. /\ ring'[k].e.socket_ptr = ring[k].e.socket_ptr
        /\ ring'[k].e.addr = ring[k].e.addr /\ ring'[k].e.event = ring[k].e.event
    BY <1>4, <1>7 DEF Record, Event
  <2>2. \A j \in 1 .. n : TrueOf(ring'[j].e)
    <3>1. \A j \in 1 .. n : TrueOf(ring[j].e)
      BY DEF Truthful, n
    <3>2. TrueOf(ring'[k].e)
      BY <1>4, <2>1, <3>1 DEF TrueOf
    <3>. QED
      BY <1>7, <3>1, <3>2
  <2>3. \A d \in CPUs : TrueOf(cpu'[d].e)
    BY <1>3, IdleIsTyped DEF Truthful
  <2>. QED
    BY <1>2, <1>7, <2>2, <2>3 DEF Truthful, TrueOf
<1>. QED
  BY <1>10, <1>11, <1>12, <1>13, <1>14

(* The reader takes the oldest record, which nobody owns any more.         *)
LEMMA DeliverInv ==
  ASSUME TracerInv, Deliver
  PROVE  TracerInv'
<1>. USE DEF TracerInv
<1>. DEFINE n == Len(ring)
<1>1. /\ ring # <<>> /\ ~ Head(ring).busy /\ ring' = Tail(ring)
      /\ UNCHANGED <<sock, current, reused, connections, task_sockets, cpu, clock, fired>>
  BY DEF Deliver, Deliverable, kernelVars, mapVars
<1>2. /\ n \in Nat /\ n > 0 /\ ring' \in Seq(Record) /\ Len(ring') = n - 1
      /\ \A k \in 1 .. n - 1 : ring'[k] = ring[k + 1]
      /\ Head(ring) = ring[1]
  BY <1>1, HeadTailProperties, LenProperties, EmptySeq DEF RingTyped
<1>3. MapsTyped' /\ RingTyped'
  BY <1>1, <1>2, TracerAssumption DEF MapsTyped, RingTyped
<1>. HIDE DEF n
<1>4. \A k \in 1 .. n - 1 : k + 1 \in 1 .. n
  BY <1>2
<1>5. Owned'
  <2>1. \A c \in CPUs : Reserved(c) = {} => Reserved(c)' = {}
    BY <1>2, <1>4 DEF Reserved, n
  <2>2. ASSUME NEW c \in CPUs, Reserved(c) # {} PROVE Reserved(c)' # {}
    <3>1. PICK k \in 1 .. n : ring[k].cpu = c /\ ring[k].busy
      BY <2>2 DEF Reserved, n
    <3>2. k # 1
      BY <1>1, <1>2, <3>1
    <3>3. PICK j \in 1 .. n - 1 : j = k - 1
      BY <1>2, <3>1, <3>2
    <3>4. k = j + 1 /\ ring'[j] = ring[j + 1]
      BY <1>2, <3>1, <3>3
    <3>5. j \in 1 .. Len(ring')
      BY <1>2, <3>3
    <3>6. j \in Reserved(c)'
      BY <3>1, <3>4, <3>5 DEF Reserved
    <3>. QED
      BY <3>6
  <2>3. \A j, k \in 1 .. n - 1 : j < k /\ ring'[j].cpu = ring'[k].cpu => ~ ring'[j].busy
    BY <1>2, <1>4 DEF Owned, n
  <2>. QED
    BY <1>1, <1>2, <2>1, <2>2, <2>3 DEF Owned
<1>6. Stamped'
  BY <1>1, <1>2, <1>4 DEF Stamped, PerCpuOrder, n
<1>7. ClockLags'
  BY <1>1 DEF ClockLags, Running
<1>8. Truthful'
  BY <1>1, <1>2, <1>4 DEF Truthful, TrueOf, n
<1>. QED
  BY <1>3, <1>5, <1>6, <1>7, <1>8

(* What the kernel does by itself touches neither ring nor maps. *)
LEMMA KernelAloneInv ==
  ASSUME TracerInv,
         UNCHANGED <<connections, task_sockets, cpu, ring, clock, fired>>,
         current' \in [CPUs -> Tasks], sock' \in [Sockets -> Endpoints],
         reused' \in 0 .. MaxReuses,
         reused' = 0 => reused = 0 /\ sock' = sock
  PROVE  TracerInv'
<1>. USE DEF TracerInv
<1>1. MapsTyped' /\ RingTyped' /\ Stamped' /\ ClockLags'
  BY DEF MapsTyped, RingTyped, Stamped, PerCpuOrder, ClockLags, Running
<1>2. Owned'
  BY DEF Owned, Reserved
<1>3. Truthful'
  BY DEF Truthful, TrueOf
<1>. QED
  BY <1>1, <1>2, <1>3

LEMMA TracerNextInv == TracerInv /\ [TracerNext]_tracerVars => TracerInv'
<1>. SUFFICES ASSUME TracerInv, [TracerNext]_tracerVars PROVE TracerInv'
  OBVIOUS
<1>0. /\ sock \in [Sockets -> Endpoints] /\ current \in [CPUs -> Tasks]
      /\ reused \in 0 .. MaxReuses
  BY DEF TracerInv, MapsTyped
<1>1. ASSUME NEW c \in CPUs, Fire(c) PROVE TracerInv'
  BY <1>1, FireInv
<1>2. ASSUME NEW c \in CPUs, Reserve(c) PROVE TracerInv'
  BY <1>2, ReserveInv, ReserveFailsInv DEF Reserve
<1>3. ASSUME NEW c \in CPUs, Submit(c) PROVE TracerInv'
  BY <1>3, SubmitInv
<1>4. ASSUME NEW c \in CPUs, NEW t \in Tasks, ContextSwitch(c, t) PROVE TracerInv'
  BY <1>0, <1>4, KernelAloneInv DEF ContextSwitch, mapVars
<1>5. ASSUME NEW s \in Sockets, NEW a \in Endpoints, ReuseSocket(s, a) PROVE TracerInv'
  <2>1. reused' = reused + 1 /\ reused' # 0 /\ reused' \in 0 .. MaxReuses
    BY <1>0, <1>5, TracerAssumption DEF ReuseSocket
  <2>2. /\ sock' \in [Sockets -> Endpoints]
        /\ UNCHANGED <<current, connections, task_sockets, cpu, ring, clock, fired>>
    BY <1>0, <1>5 DEF ReuseSocket, mapVars
  <2>. QED
    BY <1>0, <2>1, <2>2, KernelAloneInv
<1>6. CASE Deliver
  BY <1>6, DeliverInv
<1>7. CASE UNCHANGED tracerVars
  BY <1>0, <1>7, KernelAloneInv DEF tracerVars, kernelVars, mapVars
<1>. QED
  BY <1>1, <1>2, <1>3, <1>4, <1>5, <1>6, <1>7 DEF TracerNext, KernelStep

-----------------------------------------------------------------------------
(* The programs, the maps and the ring buffer satisfy the inductive        *)
(* invariant however the CPUs interleave.                                  *)
THEOREM TracerInvariant == TracerSpec => []TracerInv
  BY TracerInitInv, TracerNextInv, PTL DEF TracerSpec

(* The maps never outgrow max_entries nor the ring buffer its size, and    *)
(* every event in them is one of struct event.                             *)
THEOREM TracerTypeCorrect == TracerSpec => []TracerTypeOK
<1>1. TracerInv => TracerTypeOK
  <2>. SUFFICES ASSUME TracerInv PROVE TracerTypeOK
    OBVIOUS
  <2>1. clock \in 0 .. MaxProbes
    BY RunningIsFinite, TracerAssumption DEF TracerInv, RingTyped, ClockLags
  <2>. QED
    BY <2>1 DEF TracerInv, MapsTyped, RingTyped, TracerTypeOK, Record, Program
<1>. QED
  BY <1>1, TracerInvariant, PTL

(* submit_event_ex: a record that holds back the reader belongs to exactly *)
(* one program, which will submit it, on any number of CPUs.               *)
THEOREM RecordsHaveOwners == TracerSpec => []RecordsAreOwned
<1>1. TracerInv => RecordsAreOwned
  <2>. SUFFICES ASSUME TracerInv PROVE RecordsAreOwned
    OBVIOUS
  <2>1. ASSUME NEW c \in CPUs
        PROVE  Cardinality(Reserved(c)) = IF cpu[c].pc = "submit" THEN 1 ELSE 0
    <3>1. CASE cpu[c].pc = "submit"
      <4>1. PICK k : k \in Reserved(c)
        BY <3>1 DEF TracerInv, Owned
      <4>2. \A i, j \in 1 .. Len(ring) : i < j \/ i = j \/ j < i
        OBVIOUS
      <4>3. Reserved(c) = {k}
        BY <4>1, <4>2 DEF TracerInv, Owned, Reserved
      <4>. QED
        BY <3>1, <4>3, FS_Singleton
    <3>2. CASE cpu[c].pc # "submit"
      BY <3>2, FS_EmptySet DEF TracerInv, Owned
    <3>. QED
      BY <3>1, <3>2
  <2>2. clock + Cardinality({c \in CPUs : cpu[c].pc # "idle"}) <= fired
    BY DEF TracerInv, ClockLags, Running
  <2>. QED
    BY <2>1, <2>2 DEF RecordsAreOwned
<1>. QED
  BY <1>1, TracerInvariant, PTL

(* submit_event_ex: although a record is stamped after it is reserved, the *)
(* events of one CPU keep their order in the ring buffer.                  *)
THEOREM EventsOfACpuInOrder == TracerSpec => []PerCpuOrder
<1>1. TracerInv => PerCpuOrder
  BY DEF TracerInv, Stamped
<1>. QED
  BY <1>1, TracerInvariant, PTL

(* submit_socket_event, submit_current_task_event: the endpoints that come *)
(* from the map are those of the socket until a socket address is reused.  *)
THEOREM EndpointsComeFromTheSocket == TracerSpec => []EndpointsAreTrue
<1>1. TracerInv => EndpointsAreTrue
  BY DEF TracerInv, Truthful, TrueOf, EndpointsAreTrue
<1>. QED
  BY <1>1, TracerInvariant, PTL
-----------------------------------------------------------------------------
(***************************************************************************)
(* The observer end to end: what holds of the probes and of the collector, *)
(* each by itself, holds when the ring buffer joins them.                  *)
(***************************************************************************)

(* What was handed to the callback: an event stays true of its socket      *)
(* until a socket address is reused.                                       *)
DeliveredInv ==
  /\ delivered \in Seq(Event)
  /\ reused = 0 => \A k \in 1 .. Len(delivered) : TrueOf(delivered[k])

PipelineInv == TracerInv /\ SharedInv /\ DeliveredInv

(* For the probes, the callback is a reader of the ring buffer.            *)
LEMMA ObserverTraces ==
  /\ ObserverInit => TracerInit
  /\ [ObserverNext]_observerVars => [TracerNext]_tracerVars
  BY DEF ObserverInit, ObserverNext, observerVars, Probe, Poll, Signal, BeginPoll,
         HandleRecord, EndPoll, Exit, TracerNext

(* The callback keeps what each table and the files satisfy, and what      *)
(* relates the two tables, for every event: the bounds of CollectorNext    *)
(* are not needed.                                                         *)
LEMMA HandlingKeepsTimelines ==
  ASSUME TimelinesInv, NEW e \in Event, Dispatch(e)
  PROVE  TimelinesInv'
<1>1. TP!TableInv /\ TP!FilesInv /\ TP!JournalInv
  BY DEF TimelinesInv
<1>2. e \in TP!Event /\ e.socket_ptr \in Sockets \cup {NoSocket}
  BY SameEvents DEF Event
<1>3. ASSUME TP!TableInv', UNCHANGED <<metrics, TP!files>> PROVE TimelinesInv'
  <2>1. TP!FilesInv' /\ TP!JournalInv'
    BY <1>1, <1>3 DEF TP!FilesInv, TP!JournalInv, TP!files
  <2>. QED
    BY <1>3, <2>1 DEF TimelinesInv
<1>4. ASSUME UNCHANGED timelines PROVE TP!TableInv'
  BY <1>1, <1>4 DEF TP!TableInv, TP!OneSlotPerSocket, TP!RecordingsWellFormed, TP!Slots
<1>5. CASE e.event = "EVENT_TCP_V4_RCV" /\ TL!timeline_start(e)
  <2>1. TP!timeline_start(e)
    BY <1>5, SameStart
  <2>2. TP!TableInv'
    BY <1>1, <1>2, <1>5, <2>1, TP!StartKeepsTable, TimelineParameters
  <2>3. UNCHANGED <<metrics, TP!files>>
    BY <2>1 DEF TP!timeline_start, TP!tlVars
  <2>. QED
    BY <1>3, <2>2, <2>3
<1>6. CASE e.event = "EVENT_TCP_V4_RCV" /\ UNCHANGED timelineVars
  BY <1>3, <1>4, <1>6 DEF timelineVars, TP!files
<1>7. CASE e.event = "EVENT_TCP_SENDMSG" /\ TL!timeline_finish(e)
  <2>1. TP!timeline_finish(e)
    BY <1>7, SameFinish
  <2>2. TP!TableInv'
    BY <1>1, <1>2, <2>1, TP!FinishKeepsTable, TimelineParameters
  <2>3. TP!FilesInv' /\ TP!JournalInv'
    BY <1>1, <1>2, <1>7, <2>1, TP!FinishKeepsFiles, TimelineParameters
  <2>. QED
    BY <2>2, <2>3 DEF TimelinesInv
<1>8. CASE /\ e.event \notin {"EVENT_TCP_V4_RCV", "EVENT_TCP_SENDMSG"}
           /\ TL!timeline_add_event(e)
  <2>1. TP!timeline_add_event(e)
    BY <1>8, SameAdd
  <2>2. TP!TableInv'
    BY <1>1, <1>2, <1>8, <2>1, TP!AddKeepsTable, TimelineParameters
  <2>3. UNCHANGED <<metrics, TP!files>>
    BY <2>1 DEF TP!timeline_add_event, TP!tlVars
  <2>. QED
    BY <1>3, <2>2, <2>3
<1>. QED
  BY <1>5, <1>6, <1>7, <1>8 DEF Dispatch

LEMMA HandlingKeepsShared ==
  ASSUME SharedInv, NEW e \in Event, collector_handle_event(e)
  PROVE  SharedInv'
<1>1. connection_table_update(e) /\ Dispatch(e)
  BY DEF collector_handle_event
<1>2. ConnInv' /\ TimelinesInv'
  BY <1>1, UpdateInv, HandlingKeepsTimelines DEF SharedInv
<1>3. Connected' /\ Latest'
  BY <1>1, <1>2, ConnectedAfter, LatestAfter DEF TimelinesInv
<1>. QED
  BY <1>2, <1>3 DEF SharedInv

LEMMA PipelineInitInv == ObserverInit => PipelineInv
<1>. SUFFICES ASSUME ObserverInit PROVE PipelineInv
  OBVIOUS
<1>1. TracerInv
  BY TracerInitInv DEF ObserverInit
<1>2. SharedInv
  BY SharedInductive DEF ObserverInit
<1>3. DeliveredInv
  BY DEF ObserverInit, DeliveredInv
<1>. QED
  BY <1>1, <1>2, <1>3 DEF PipelineInv

(* Where a socket leads can only change with the number of reused ones.    *)
LEMMA SocketsKept ==
  ASSUME [TracerNext]_tracerVars, TracerInv
  PROVE  /\ reused' = 0 => reused = 0 /\ sock' = sock
         /\ reused \in Nat
<1>1. reused \in Nat
  BY DEF TracerInv, MapsTyped
<1>2. UNCHANGED <<sock, reused>> \/ reused' = reused + 1
  BY DEF TracerNext, KernelStep, tracerVars, kernelVars, mapVars, Deliver, Fire, Reserve,
         Submit, ContextSwitch, ReuseSocket, Prepare, trace_tcp_v4_rcv, submit_event,
         submit_socket_event, submit_current_task_event
<1>. QED
  BY <1>1, <1>2

LEMMA PipelineNextInv == PipelineInv /\ [ObserverNext]_observerVars => PipelineInv'
<1>. SUFFICES ASSUME PipelineInv, [ObserverNext]_observerVars PROVE PipelineInv'
  OBVIOUS
<1>1. TracerInv'
  BY ObserverTraces, TracerNextInv DEF PipelineInv
<1>2. /\ reused' = 0 => reused = 0 /\ sock' = sock
      /\ reused \in Nat
  BY ObserverTraces, SocketsKept DEF PipelineInv
<1>3. CASE HandleRecord
  <2>. DEFINE e == Head(ring).e
  <2>1. ring \in Seq(Record) /\ ring # <<>>
    BY <1>3 DEF PipelineInv, TracerInv, RingTyped, HandleRecord, Deliver, Deliverable
  <2>2. Head(ring) \in Record /\ 1 \in 1 .. Len(ring) /\ Head(ring) = ring[1]
    BY <2>1
  <2>3. e \in Event
    BY <2>2 DEF Record
  <2>4. reused = 0 => TrueOf(e)
    BY <2>2 DEF PipelineInv, TracerInv, Truthful
  <2>5. collector_handle_event(e) /\ delivered' = Append(delivered, e)
    BY <1>3 DEF HandleRecord
  <2>. HIDE DEF e
  <2>6. SharedInv'
    BY <2>3, <2>5, HandlingKeepsShared DEF PipelineInv
  <2>7. DeliveredInv'
    <3>1. delivered \in Seq(Event)
      BY DEF PipelineInv, DeliveredInv
    <3>2. delivered' \in Seq(Event) /\ Len(delivered') = Len(delivered) + 1
      BY <2>3, <2>5, <3>1
    <3>3. ASSUME reused' = 0, NEW k \in 1 .. Len(delivered') PROVE TrueOf(delivered[k])'
      <4>1. reused = 0 /\ sock' = sock
        BY <1>2, <3>3
      <4>2. CASE k \in 1 .. Len(delivered)
        <5>1. delivered'[k] = delivered[k] /\ TrueOf(delivered[k])
          BY <2>3, <2>5, <3>1, <4>1, <4>2 DEF PipelineInv, DeliveredInv
        <5>. QED
          BY <4>1, <5>1 DEF TrueOf
      <4>3. CASE k = Len(delivered) + 1
        <5>1. delivered'[k] = e /\ TrueOf(e)
          BY <2>3, <2>4, <2>5, <3>1, <4>1, <4>3
        <5>. QED
          BY <4>1, <5>1 DEF TrueOf
      <4>. QED
        BY <3>1, <3>2, <3>3, <4>2, <4>3
    <3>. QED
      BY <3>2, <3>3 DEF DeliveredInv
  <2>. QED
    BY <1>1, <2>6, <2>7 DEF PipelineInv
<1>4. CASE UNCHANGED <<collectorVars, delivered>>
  <2>1. table' = table /\ UNCHANGED timelineVars
    BY <1>4 DEF collectorVars
  <2>2. ConnInv'
    BY <2>1 DEF PipelineInv, SharedInv, ConnInv, ConnTypeOK, OneEntryPerSocket, EntriesCoherent, Slots
  <2>3. TimelinesInv'
    BY <2>1 DEF PipelineInv, SharedInv, TimelinesInv, timelineVars, TP!TableInv,
         TP!OneSlotPerSocket, TP!RecordingsWellFormed, TP!Slots, TP!FilesInv, TP!JournalInv
  <2>4. Connected' /\ Latest'
    BY <2>1 DEF PipelineInv, SharedInv, Connected, Latest, Unconnected, ConnTableFull, Tracked,
                filter_port, TL!Slots, Slots, timelineVars
  <2>5. DeliveredInv'
    BY <1>2, <1>4 DEF PipelineInv, DeliveredInv, TrueOf
  <2>. QED
    BY <1>1, <2>2, <2>3, <2>4, <2>5 DEF PipelineInv, SharedInv
<1>. QED
  BY <1>3, <1>4 DEF ObserverNext, Probe, Poll, Signal, BeginPoll, EndPoll, Exit, observerVars

THEOREM ObserverInvariant == ObserverSpec => []PipelineInv
  BY PipelineInitInv, PipelineNextInv, PTL DEF ObserverSpec

(* Every theorem about the probes by themselves is one about the observer. *)
THEOREM ObserverProbes == ObserverSpec => TracerSpec
  BY ObserverTraces, PTL DEF ObserverSpec, TracerSpec

(* Fed by the ring buffer, in whatever order the CPUs fill it, the two     *)
(* tables stay good and agree with each other; nothing has to bound the    *)
(* number of events or requests.                                           *)
ObserverTables ==
  /\ OneEntryPerSocket /\ EntriesCoherent
  /\ TimelinesAreConnections /\ SameLatestEvent
  /\ TL!OneSlotPerSocket /\ TL!RecordingsWellFormed /\ TL!ExportWellFormed

THEOREM ObserverKeepsTables == ObserverSpec => []ObserverTables
<1>1. TP!TableInv => TL!OneSlotPerSocket /\ TL!RecordingsWellFormed
  BY DEF TP!TableInv, TP!OneSlotPerSocket, TL!OneSlotPerSocket, TP!RecordingsWellFormed,
         TL!RecordingsWellFormed, TP!RecordingOf, TL!RecordingOf, TP!Slots, TL!Slots,
         TP!FreeSlot, TL!FreeSlot
<1>2. TP!JournalInv => TL!ExportWellFormed
  BY DEF TP!JournalInv, TP!GoodExport, TL!ExportWellFormed
<1>3. PipelineInv => ObserverTables
  BY <1>1, <1>2, SharedInvMeans
     DEF PipelineInv, SharedInv, ConnInv, TimelinesInv, ObserverTables
<1>. QED
  BY <1>3, ObserverInvariant, PTL

-----------------------------------------------------------------------------
(***************************************************************************)
(* Exchanges, over a delivery order ds: the same as in module Observer,    *)
(* with the order as a parameter.                                          *)
(***************************************************************************)
Places(ds, s, a, b) == {k \in a .. b : ds[k].socket_ptr = s}

(* The exchange of socket s that is going on was opened at a.              *)
Opened(ds, a, s) ==
  /\ a \in 1 .. Len(ds)
  /\ ds[a].socket_ptr = s
  /\ ds[a].event = "EVENT_TCP_V4_RCV" /\ Tracked(ds[a])
  /\ \A k \in a + 1 .. Len(ds) : ds[k].socket_ptr = s => ds[k].event \notin Boundary

IsExchange(ds, a, b) ==
  LET s == ds[a].socket_ptr
  IN  /\ a < b
      /\ s # NoSocket /\ ds[b].socket_ptr = s
      /\ ds[a].event = "EVENT_TCP_V4_RCV" /\ Tracked(ds[a])
      /\ ds[b].event = "EVENT_TCP_SENDMSG"
      /\ \A k \in a + 1 .. b - 1 : ds[k].socket_ptr = s => ds[k].event \notin Boundary
      /\ Cardinality(Places(ds, s, a, b)) >= MIN_STEPS

ExchangesIn(ds) == {x \in (1 .. Len(ds)) \X (1 .. Len(ds)) : IsExchange(ds, x[1], x[2])}

Records(ds, entries, places) ==
  LET n == Cardinality(places)
  IN  /\ Len(entries) = IF n <= TIMELINE_MAX_EVENTS THEN n ELSE TIMELINE_MAX_EVENTS
      /\ \A p \in places :
           LET k == Cardinality({q \in places : q <= p})
           IN  k <= TIMELINE_MAX_EVENTS => entries[k].e = ds[p]

LEMMA SameExchanges ==
  /\ Exchanges = ExchangesIn(delivered)
  /\ \A s, a, b : Between(s, a, b) = Places(delivered, s, a, b)
  /\ \A entries, places : Shows(entries, places) <=> Records(delivered, entries, places)
<1>1. \A s, a, b : Between(s, a, b) = Places(delivered, s, a, b)
  BY DEF Between, Places
<1>2. \A a, b : Exchange(a, b) <=> IsExchange(delivered, a, b)
  BY <1>1 DEF Exchange, IsExchange
<1>3. Exchanges = ExchangesIn(delivered)
  BY <1>2 DEF Exchanges, ExchangesIn
<1>. QED
  BY <1>1, <1>3 DEF Shows, Records

(* One more event leaves the earlier ones alone.                           *)
LEMMA Delivery ==
  ASSUME NEW ds \in Seq(Event), NEW e \in Event
  PROVE  /\ Append(ds, e) \in Seq(Event)
         /\ Len(ds) \in Nat /\ Len(Append(ds, e)) = Len(ds) + 1
         /\ Append(ds, e)[Len(ds) + 1] = e
         /\ \A k \in 1 .. Len(ds) : Append(ds, e)[k] = ds[k]
  OBVIOUS

LEMMA PlacesAreFinite ==
  ASSUME NEW ds, NEW s, NEW a \in Int, NEW b \in Int
  PROVE  /\ IsFiniteSet(Places(ds, s, a, b))
         /\ Cardinality(Places(ds, s, a, b)) \in Nat
<1>1. IsFiniteSet(a .. b) /\ Places(ds, s, a, b) \in SUBSET (a .. b)
  BY FS_Interval DEF Places
<1>. QED
  BY <1>1, FS_Subset, FS_CardinalityType

(* At most one exchange of a socket is going on.                           *)
LEMMA OneOpened ==
  ASSUME NEW ds, Len(ds) \in Nat, NEW s, NEW a, NEW b, Opened(ds, a, s), Opened(ds, b, s)
  PROVE  a = b
<1>1. \A x, y : Opened(ds, x, s) /\ Opened(ds, y, s) => ~ (x < y)
  BY DEF Opened, Boundary
<1>2. a \in Int /\ b \in Int
  BY DEF Opened
<1>3. ~ (a < b) /\ ~ (b < a)
  BY <1>1
<1>. QED
  BY <1>2, <1>3

(* An event opens an exchange, ends the one that is going on, or leaves    *)
(* things as they are for its socket; other sockets do not notice it.      *)
LEMMA OpenedAfter ==
  ASSUME NEW ds \in Seq(Event), NEW e \in Event, NEW s, NEW a
  PROVE  Opened(Append(ds, e), a, s) <=>
           IF e.socket_ptr = s /\ e.event \in Boundary
           THEN a = Len(ds) + 1 /\ e.event = "EVENT_TCP_V4_RCV" /\ Tracked(e)
           ELSE Opened(ds, a, s)
<1>. DEFINE n == Len(ds)
            new == Append(ds, e)
<1>1. /\ n \in Nat /\ Len(new) = n + 1 /\ new[n + 1] = e
      /\ \A k \in 1 .. n : new[k] = ds[k]
  BY Delivery
<1>. HIDE DEF new, n
<1>2. CASE a = n + 1
  <2>1. ~ Opened(ds, a, s)
    BY <1>1, <1>2 DEF Opened, n
  <2>2. Opened(new, a, s) <=> e.socket_ptr = s /\ e.event = "EVENT_TCP_V4_RCV" /\ Tracked(e)
    BY <1>1, <1>2 DEF Opened
  <2>. QED
    BY <1>2, <2>1, <2>2 DEF new, n, Boundary
<1>3. CASE a \in 1 .. n
  <2>1. \A k : k \in a + 1 .. n + 1 <=> k \in a + 1 .. n \/ k = n + 1
    BY <1>1, <1>3
  <2>2. \A k \in a + 1 .. n : k \in 1 .. n
    BY <1>1, <1>3
  <2>3. Opened(new, a, s) <=> /\ Opened(ds, a, s)
                              /\ e.socket_ptr = s => e.event \notin Boundary
    BY <1>1, <1>3, <2>1, <2>2 DEF Opened, n
  <2>. QED
    BY <1>1, <1>3, <2>3 DEF new, n
<1>4. CASE a \notin 1 .. n + 1
  BY <1>1, <1>4 DEF Opened, new, n
<1>. QED
  BY <1>1, <1>2, <1>3, <1>4

(* The events of a socket up to the newest one.                            *)
LEMMA PlacesAfter ==
  ASSUME NEW ds \in Seq(Event), NEW e \in Event, NEW s, NEW a \in 1 .. Len(ds) + 1
  PROVE  LET n == Len(ds)  new == Append(ds, e)
         IN  /\ Places(new, s, a, n + 1) = Places(ds, s, a, n) \cup
                                           (IF e.socket_ptr = s THEN {n + 1} ELSE {})
             /\ \A b \in 1 .. n : Places(new, s, a, b) = Places(ds, s, a, b)
             /\ Places(ds, s, a, n) \in SUBSET (1 .. n)
<1>. DEFINE n == Len(ds)
            new == Append(ds, e)
<1>1. /\ n \in Nat /\ Len(new) = n + 1 /\ new[n + 1] = e
      /\ \A k \in 1 .. n : new[k] = ds[k]
  BY Delivery
<1>. HIDE DEF new
<1>2. \A k : k \in a .. n + 1 <=> k \in a .. n \/ k = n + 1
  BY <1>1
<1>3. \A k \in a .. n : k \in 1 .. n
  BY <1>1
<1>4. Places(new, s, a, n + 1) = Places(ds, s, a, n) \cup
                                 (IF e.socket_ptr = s THEN {n + 1} ELSE {})
  BY <1>1, <1>2, <1>3 DEF Places
<1>5. ASSUME NEW b \in 1 .. n PROVE Places(new, s, a, b) = Places(ds, s, a, b)
  <2>1. \A k \in a .. b : k \in 1 .. n
    BY <1>1
  <2>. QED
    BY <1>1, <2>1 DEF Places
<1>6. Places(ds, s, a, n) \in SUBSET (1 .. n)
  BY <1>3 DEF Places
<1>. QED
  BY <1>4, <1>5, <1>6 DEF new

(* A set of earlier places and the newest one.                             *)
LEMMA OneMorePlace ==
  ASSUME NEW n \in Nat, NEW P \in SUBSET (1 .. n)
  PROVE  LET Q == P \cup {n + 1}
         IN  /\ IsFiniteSet(P) /\ Cardinality(P) \in Nat
             /\ IsFiniteSet(Q) /\ Cardinality(Q) = Cardinality(P) + 1
             /\ {q \in Q : q <= n + 1} = Q
             /\ \A p \in P : /\ {q \in Q : q <= p} = {q \in P : q <= p}
                             /\ Cardinality({q \in P : q <= p}) \in 1 .. Cardinality(P)
<1>. DEFINE Q == P \cup {n + 1}
<1>1. IsFiniteSet(P) /\ Cardinality(P) \in Nat
  <2>1. IsFiniteSet(1 .. n)
    BY FS_Interval
  <2>. QED
    BY <2>1, FS_Subset, FS_CardinalityType
<1>2. n + 1 \notin P
  OBVIOUS
<1>3. IsFiniteSet(Q) /\ Cardinality(Q) = Cardinality(P) + 1
  BY <1>1, <1>2, FS_AddElement
<1>4. {q \in Q : q <= n + 1} = Q
  <2>1. \A q \in Q : q <= n + 1
    OBVIOUS
  <2>. HIDE DEF Q
  <2>. QED
    BY <2>1
<1>5. ASSUME NEW p \in P
      PROVE  /\ {q \in Q : q <= p} = {q \in P : q <= p}
             /\ Cardinality({q \in P : q <= p}) \in 1 .. Cardinality(P)
  <2>. DEFINE L == {q \in P : q <= p}
  <2>1. {q \in Q : q <= p} = L
    OBVIOUS
  <2>2. L \in SUBSET P /\ p \in L
    OBVIOUS
  <2>. HIDE DEF L
  <2>3. /\ IsFiniteSet(L) /\ Cardinality(L) \in Nat
        /\ Cardinality(L) <= Cardinality(P)
    BY <1>1, <2>2, FS_Subset, FS_CardinalityType
  <2>4. Cardinality(L) # 0
    BY <2>2, <2>3, FS_EmptySet
  <2>. QED
    BY <1>1, <2>1, <2>3, <2>4 DEF L
<1>. QED
  BY <1>1, <1>3, <1>4, <1>5

(* append() is what keeps a timeline the record of its places, also when   *)
(* the array is full.                                                      *)
LEMMA RecordsAfter ==
  ASSUME NEW ds \in Seq(Event), NEW e \in Event, NEW es \in Seq(TP!Entry),
         NEW P \in SUBSET (1 .. Len(ds)), Records(ds, es, P)
  PROVE  /\ Records(Append(ds, e), es, P)
         /\ Records(Append(ds, e), TP!append(es, e), P \cup {Len(ds) + 1})
<1>. DEFINE n == Len(ds)
            new == Append(ds, e)
            Q == P \cup {n + 1}
            ne == TP!append(es, e)
            c == Cardinality(P)
<1>1. /\ n \in Nat /\ Len(new) = n + 1 /\ new[n + 1] = e
      /\ \A k \in 1 .. n : new[k] = ds[k]
  BY Delivery
<1>2. /\ c \in Nat /\ Cardinality(Q) = c + 1
      /\ {q \in Q : q <= n + 1} = Q
      /\ \A p \in P : /\ {q \in Q : q <= p} = {q \in P : q <= p}
                      /\ Cardinality({q \in P : q <= p}) \in 1 .. c
  BY <1>1, OneMorePlace
<1>3. /\ Len(es) = IF c <= TIMELINE_MAX_EVENTS THEN c ELSE TIMELINE_MAX_EVENTS
      /\ \A p \in P : Cardinality({q \in P : q <= p}) <= TIMELINE_MAX_EVENTS
                      => es[Cardinality({q \in P : q <= p})].e = ds[p]
  BY DEF Records
<1>4. e \in TP!Event /\ TIMELINE_MAX_EVENTS \in Nat \ {0} /\ Len(es) \in Nat
  BY SameEvents, TimelineParameters
<1>5. /\ \A k \in 1 .. Len(es) : ne[k] = es[k]
      /\ \/ Len(es) >= TIMELINE_MAX_EVENTS /\ ne = es
         \/ Len(es) < TIMELINE_MAX_EVENTS /\ Len(ne) = Len(es) + 1 /\ ne[Len(ne)].e = e
  BY <1>4, TP!AppendEffect, TimelineParameters
<1>. HIDE DEF new, Q, ne, c
<1>6. \A p \in P : new[p] = ds[p]
  BY <1>1
<1>7. Records(new, es, P)
  BY <1>3, <1>6 DEF Records, c
<1>8. Len(ne) = IF c + 1 <= TIMELINE_MAX_EVENTS THEN c + 1 ELSE TIMELINE_MAX_EVENTS
  BY <1>2, <1>3, <1>4, <1>5
<1>9. ASSUME NEW p \in Q, Cardinality({q \in Q : q <= p}) <= TIMELINE_MAX_EVENTS
      PROVE  ne[Cardinality({q \in Q : q <= p})].e = new[p]
  <2>1. CASE p \in P
    <3>. DEFINE k == Cardinality({q \in P : q <= p})
    <3>1. Cardinality({q \in Q : q <= p}) = k /\ k \in 1 .. c /\ k <= TIMELINE_MAX_EVENTS
      BY <1>2, <1>9, <2>1
    <3>2. es[k].e = ds[p]
      BY <1>3, <2>1, <3>1
    <3>. HIDE DEF k
    <3>3. k \in 1 .. Len(es)
      BY <1>2, <1>3, <1>4, <3>1
    <3>4. ne[k] = es[k] /\ new[p] = ds[p]
      BY <1>5, <1>6, <2>1, <3>3
    <3>. QED
      BY <3>1, <3>2, <3>4
  <2>2. CASE p = n + 1
    <3>1. Cardinality({q \in Q : q <= p}) = c + 1
      BY <1>2, <2>2
    <3>2. Len(es) = c /\ Len(es) < TIMELINE_MAX_EVENTS
      BY <1>2, <1>3, <1>4, <1>9, <3>1
    <3>3. ne[c + 1].e = e
      BY <1>4, <1>5, <3>2
    <3>. QED
      BY <1>1, <2>2, <3>1, <3>3
  <2>. QED
    BY <1>9, <2>1, <2>2 DEF Q
<1>10. Records(new, ne, Q)
  BY <1>2, <1>8, <1>9 DEF Records
<1>. QED
  BY <1>7, <1>10 DEF new, ne, Q

(* A recording begins with the segment that opens it.                      *)
LEMMA RecordsFirst ==
  ASSUME NEW ds \in Seq(Event), NEW e \in Event
  PROVE  Records(Append(ds, e), TP!append(<<>>, e), {Len(ds) + 1})
<1>. DEFINE n == Len(ds)
            es == TP!append(<<>>, e)
<1>1. n \in Nat /\ Append(ds, e)[n + 1] = e
  BY Delivery
<1>2. Len(es) = 1 /\ es[1].e = e
  BY SameEvents, TP!AppendFirst, TimelineParameters
<1>3. Cardinality({n + 1}) = 1
  BY FS_Singleton
<1>4. {q \in {n + 1} : q <= n + 1} = {n + 1}
  BY <1>1
<1>5. TIMELINE_MAX_EVENTS \in Nat \ {0}
  BY TimelineParameters
<1>. DEFINE new == Append(ds, e)
<1>. HIDE DEF es, n, new
<1>6. 1 <= TIMELINE_MAX_EVENTS
  BY <1>5
<1>7. \A p \in {n + 1} :
        /\ Cardinality({q \in {n + 1} : q <= p}) = 1
        /\ new[p] = e
  BY <1>1, <1>3, <1>4 DEF new
<1>8. Records(new, es, {n + 1})
  BY <1>2, <1>3, <1>6, <1>7 DEF Records
<1>. QED
  BY <1>8 DEF n, es, new

(* A transmission ends the exchange of its socket that is going on.        *)
Ends_at(ds, e, a) ==
  LET s == e.socket_ptr
  IN  /\ e.event = "EVENT_TCP_SENDMSG" /\ s # NoSocket
      /\ Opened(ds, a, s)
      /\ Cardinality(Places(ds, s, a, Len(ds))) + 1 >= MIN_STEPS

LEMMA ExchangesAfter ==
  ASSUME NEW ds \in Seq(Event), NEW e \in Event
  PROVE  \A x : x \in ExchangesIn(Append(ds, e)) <=>
                  \/ x \in ExchangesIn(ds)
                  \/ \E a : Ends_at(ds, e, a) /\ x = <<a, Len(ds) + 1>>
<1>. DEFINE n == Len(ds)
            new == Append(ds, e)
<1>1. /\ n \in Nat /\ Len(new) = n + 1 /\ new[n + 1] = e
      /\ \A k \in 1 .. n : new[k] = ds[k]
  BY Delivery
<1>. HIDE DEF new, n
<1>2. ASSUME NEW a \in 1 .. n, NEW b \in 1 .. n
      PROVE  IsExchange(new, a, b) <=> IsExchange(ds, a, b)
  <2>1. ASSUME NEW s PROVE Places(new, s, a, b) = Places(ds, s, a, b)
    <3>1. \A k \in a .. b : k \in 1 .. n
      BY <1>1, <1>2
    <3>2. \A k \in a .. b : new[k] = ds[k]
      BY <1>1, <3>1
    <3>. QED
      BY <3>2 DEF Places
  <2>2. new[a] = ds[a] /\ new[b] = ds[b]
    BY <1>1, <1>2
  <2>3. \A k \in a + 1 .. b - 1 : new[k] = ds[k]
    BY <1>1, <1>2
  <2>. QED
    BY <2>1, <2>2, <2>3 DEF IsExchange
<1>3. ASSUME NEW a \in 1 .. n
      PROVE  IsExchange(new, a, n + 1) <=> Ends_at(ds, e, a)
  <2>. DEFINE s == ds[a].socket_ptr
              c == Cardinality(Places(ds, s, a, n))
  <2>1. new[a] = ds[a] /\ new[n + 1] = e /\ a < n + 1
    BY <1>1, <1>3
  <2>2. (n + 1) - 1 = n /\ \A k \in a + 1 .. n : new[k] = ds[k]
    BY <1>1, <1>3
  <2>3. e.socket_ptr = s => Cardinality(Places(new, s, a, n + 1)) = c + 1
    <3>1. a \in 1 .. n + 1
      BY <1>1, <1>3
    <3>2. /\ Places(new, s, a, n + 1) = Places(ds, s, a, n) \cup
                                        (IF e.socket_ptr = s THEN {n + 1} ELSE {})
          /\ Places(ds, s, a, n) \in SUBSET (1 .. n)
      BY <3>1, PlacesAfter DEF n, new
    <3>3. Cardinality(Places(ds, s, a, n) \cup {n + 1}) = c + 1
      BY <1>1, <3>2, OneMorePlace
    <3>. QED
      BY <3>2, <3>3
  <2>. HIDE DEF c
  <2>4. IsExchange(new, a, n + 1) <=>
          /\ s # NoSocket /\ e.socket_ptr = s
          /\ ds[a].event = "EVENT_TCP_V4_RCV" /\ Tracked(ds[a])
          /\ e.event = "EVENT_TCP_SENDMSG"
          /\ \A k \in a + 1 .. n : ds[k].socket_ptr = s => ds[k].event \notin Boundary
          /\ c + 1 >= MIN_STEPS
    BY <2>1, <2>2, <2>3 DEF IsExchange
  <2>5. Ends_at(ds, e, a) <=>
          /\ s # NoSocket /\ e.socket_ptr = s
          /\ ds[a].event = "EVENT_TCP_V4_RCV" /\ Tracked(ds[a])
          /\ e.event = "EVENT_TCP_SENDMSG"
          /\ \A k \in a + 1 .. n : ds[k].socket_ptr = s => ds[k].event \notin Boundary
          /\ c + 1 >= MIN_STEPS
    BY <1>3 DEF Ends_at, Opened, n, c
  <2>. QED
    BY <2>4, <2>5
<1>4. \A a, b : Ends_at(ds, e, a) => a \in 1 .. n
  BY DEF Ends_at, Opened, n
<1>5. ASSUME NEW x, x \in ExchangesIn(new)
      PROVE  x \in ExchangesIn(ds) \/ \E a : Ends_at(ds, e, a) /\ x = <<a, n + 1>>
  <2>1. x[1] \in 1 .. n + 1 /\ x[2] \in 1 .. n + 1 /\ x = <<x[1], x[2]>>
    BY <1>1, <1>5 DEF ExchangesIn
  <2>2. IsExchange(new, x[1], x[2])
    BY <1>5 DEF ExchangesIn
  <2>3. x[1] < x[2]
    BY <2>2 DEF IsExchange
  <2>4. x[1] \in 1 .. n
    BY <1>1, <2>1, <2>3
  <2>5. CASE x[2] \in 1 .. n
    <3>1. IsExchange(ds, x[1], x[2])
      BY <1>2, <2>2, <2>4, <2>5
    <3>. QED
      BY <2>1, <2>4, <2>5, <3>1 DEF ExchangesIn, n
  <2>6. CASE x[2] = n + 1
    BY <1>3, <2>1, <2>2, <2>4, <2>6
  <2>. QED
    BY <1>1, <2>1, <2>5, <2>6
<1>6. ASSUME NEW x, x \in ExchangesIn(ds) PROVE x \in ExchangesIn(new)
  <2>1. x[1] \in 1 .. n /\ x[2] \in 1 .. n /\ x = <<x[1], x[2]>>
    BY <1>6 DEF ExchangesIn, n
  <2>2. IsExchange(new, x[1], x[2])
    BY <1>2, <1>6, <2>1 DEF ExchangesIn
  <2>3. x[1] \in 1 .. n + 1 /\ x[2] \in 1 .. n + 1
    BY <1>1, <2>1
  <2>. QED
    BY <1>1, <2>1, <2>2, <2>3 DEF ExchangesIn
<1>7. ASSUME NEW a, Ends_at(ds, e, a) PROVE <<a, n + 1>> \in ExchangesIn(new)
  <2>1. a \in 1 .. n
    BY <1>4, <1>7
  <2>2. IsExchange(new, a, n + 1)
    BY <1>3, <1>7, <2>1
  <2>3. a \in 1 .. n + 1 /\ n + 1 \in 1 .. n + 1
    BY <1>1, <2>1
  <2>. QED
    BY <1>1, <2>2, <2>3 DEF ExchangesIn
<1>. QED
  BY <1>5, <1>6, <1>7 DEF new, n

LEMMA ExchangesAreFinite ==
  ASSUME NEW ds \in Seq(Event)
  PROVE  /\ IsFiniteSet(ExchangesIn(ds)) /\ Cardinality(ExchangesIn(ds)) \in Nat
         /\ \A x \in ExchangesIn(ds) :
              /\ x[1] \in 1 .. Len(ds) /\ x[2] \in 1 .. Len(ds)
              /\ Cardinality({y \in ExchangesIn(ds) : y[2] <= x[2]})
                   \in 1 .. Cardinality(ExchangesIn(ds))
<1>1. IsFiniteSet(1 .. Len(ds))
  BY FS_Interval
<1>2. IsFiniteSet((1 .. Len(ds)) \X (1 .. Len(ds)))
  BY <1>1, FS_Product
<1>3. IsFiniteSet(ExchangesIn(ds)) /\ Cardinality(ExchangesIn(ds)) \in Nat
  BY <1>2, FS_Subset, FS_CardinalityType DEF ExchangesIn
<1>4. ASSUME NEW x \in ExchangesIn(ds)
      PROVE  /\ x[1] \in 1 .. Len(ds) /\ x[2] \in 1 .. Len(ds)
             /\ Cardinality({y \in ExchangesIn(ds) : y[2] <= x[2]})
                  \in 1 .. Cardinality(ExchangesIn(ds))
  <2>. DEFINE L == {y \in ExchangesIn(ds) : y[2] <= x[2]}
  <2>1. x[1] \in 1 .. Len(ds) /\ x[2] \in 1 .. Len(ds)
    BY <1>4 DEF ExchangesIn
  <2>2. x \in L /\ L \in SUBSET ExchangesIn(ds)
    BY <2>1
  <2>. HIDE DEF L
  <2>3. /\ IsFiniteSet(L) /\ Cardinality(L) \in Nat
        /\ Cardinality(L) <= Cardinality(ExchangesIn(ds))
    BY <1>3, <2>2, FS_Subset, FS_CardinalityType
  <2>4. Cardinality(L) # 0
    BY <2>2, <2>3, FS_EmptySet
  <2>. QED
    BY <1>3, <2>1, <2>3, <2>4 DEF L
<1>. QED
  BY <1>3, <1>4

-----------------------------------------------------------------------------
(* The open recordings are those of the exchanges that are going on, and   *)
(* each holds what was delivered of its exchange so far.                   *)
RecordsExchange(i, a, s) ==
  /\ timelines[i].occupied /\ timelines[i].socket = s /\ timelines[i].active
  /\ Records(delivered, timelines[i].entries, Places(delivered, s, a, Len(delivered)))

OpenInv ==
  /\ \A i \in TL!Slots : timelines[i].active =>
       \E a : Opened(delivered, a, timelines[i].socket)
  /\ \A s \in Sockets : \A a : Opened(delivered, a, s) =>
       \E i \in TL!Slots : RecordsExchange(i, a, s)

(* A segment received on a socket is always one to start a recording with. *)
LEMMA SegmentsAreTracked ==
  ASSUME Undisturbed, MapsTyped, NEW e \in Event, TrueOf(e),
         e.event = "EVENT_TCP_V4_RCV", e.socket_ptr \in Sockets
  PROVE  Tracked(e) /\ e.addr = sock[e.socket_ptr] /\ TP!Swapped(e.addr)
<1>1. e.addr = sock[e.socket_ptr]
  BY SocketsAssumption DEF TrueOf, TaskProbes
<1>2. e.addr \in Endpoints
  BY <1>1 DEF MapsTyped
<1>3. TL!Swapped(e.addr)
  BY <1>2 DEF Undisturbed
<1>. QED
  BY <1>1, <1>3 DEF TL!Swapped, TP!Swapped, TL!AppPort, TP!AppPort, Tracked, filter_port

(* An event of another socket does not disturb a recording.                *)
LEMMA OtherSocket ==
  ASSUME NEW ds \in Seq(Event), NEW e \in Event, NEW t, NEW a, Opened(ds, a, t),
         e.socket_ptr # t, NEW es \in Seq(TP!Entry), Records(ds, es, Places(ds, t, a, Len(ds)))
  PROVE  LET new == Append(ds, e)
         IN  Records(new, es, Places(new, t, a, Len(new)))
<1>. DEFINE n == Len(ds)
            new == Append(ds, e)
            P == Places(ds, t, a, n)
<1>1. n \in Nat /\ Len(new) = n + 1 /\ a \in 1 .. n
  BY Delivery DEF Opened
<1>2. a \in 1 .. n + 1
  BY <1>1
<1>3. /\ Places(new, t, a, n + 1) = P \cup (IF e.socket_ptr = t THEN {n + 1} ELSE {})
      /\ P \in SUBSET (1 .. n)
  BY <1>2, PlacesAfter
<1>4. Places(new, t, a, Len(new)) = P
  BY <1>1, <1>3
<1>5. Records(new, es, P)
  BY <1>3, RecordsAfter
<1>. QED
  BY <1>4, <1>5

(* An event of socket s that slot i takes keeps the correspondence, once   *)
(* it holds for s itself.                                                  *)
LEMMA OneSlotTakes ==
  ASSUME OpenInv, TP!TableInv, TP!TableInv', delivered \in Seq(Event),
         NEW e \in Event, delivered' = Append(delivered, e), e.socket_ptr \in Sockets,
         NEW i \in TL!Slots, TP!GoesTo(i, e.socket_ptr),
         timelines[i].occupied => timelines[i].socket = e.socket_ptr,
         timelines'[i].active => \E a : Opened(delivered', a, e.socket_ptr),
         \A a : Opened(delivered', a, e.socket_ptr) => RecordsExchange(i, a, e.socket_ptr)'
  PROVE  OpenInv'
<1>. DEFINE s == e.socket_ptr
<1>1. /\ timelines'[i].occupied /\ timelines'[i].socket = s
      /\ \A j \in TL!Slots \ {i} : timelines'[j] = timelines[j]
  BY SameSlots DEF TP!GoesTo
<1>2. \A t, a : t # s => (Opened(delivered', a, t) <=> Opened(delivered, a, t))
  BY OpenedAfter
<1>3. \A j \in TL!Slots : timelines'[j].active => timelines'[j].occupied
  BY SameSlots DEF TP!TableInv, TP!OneSlotPerSocket, TP!FreeSlot
<1>4. ASSUME NEW j \in TL!Slots, timelines'[j].active
      PROVE  \E a : Opened(delivered', a, timelines'[j].socket)
  <2>1. CASE j = i
    BY <1>1, <1>4, <2>1
  <2>2. CASE j # i
    <3>1. timelines'[j] = timelines[j] /\ timelines'[j].occupied
      BY <1>1, <1>3, <1>4, <2>2
    <3>2. timelines'[j].socket # s
      BY <1>1, <2>2, <3>1, SameSlots DEF TP!TableInv, TP!OneSlotPerSocket
    <3>3. PICK a : Opened(delivered, a, timelines[j].socket)
      BY <1>4, <3>1 DEF OpenInv
    <3>. QED
      BY <1>2, <3>1, <3>2, <3>3
  <2>. QED
    BY <2>1, <2>2
<1>5. ASSUME NEW t \in Sockets, NEW a, Opened(delivered', a, t)
      PROVE  \E j \in TL!Slots : RecordsExchange(j, a, t)'
  <2>1. CASE t = s
    BY <1>5, <2>1
  <2>2. CASE t # s
    <3>1. Opened(delivered, a, t)
      BY <1>2, <1>5, <2>2
    <3>2. PICK j \in TL!Slots : RecordsExchange(j, a, t)
      BY <1>5, <3>1 DEF OpenInv
    <3>3. timelines'[j] = timelines[j]
      BY <1>1, <2>2, <3>2 DEF RecordsExchange
    <3>4. timelines[j].entries \in Seq(TP!Entry)
      BY SameSlots DEF TP!TableInv, TP!Slot
    <3>5. Records(delivered', timelines[j].entries, Places(delivered', t, a, Len(delivered')))
      BY <2>2, <3>1, <3>2, <3>4, OtherSocket DEF RecordsExchange
    <3>. QED
      BY <3>2, <3>3, <3>5 DEF RecordsExchange
  <2>. QED
    BY <2>1, <2>2
<1>. QED
  BY <1>4, <1>5 DEF OpenInv, TL!Slots

(* An event that no slot takes keeps it when its socket has no exchange    *)
(* going on, neither before nor after it.                                  *)
LEMMA NoSlotTakes ==
  ASSUME OpenInv, TP!TableInv, delivered \in Seq(Event),
         NEW e \in Event, delivered' = Append(delivered, e), UNCHANGED timelines,
         e.socket_ptr \in Sockets => \A a : /\ ~ Opened(delivered, a, e.socket_ptr)
                                            /\ ~ Opened(delivered', a, e.socket_ptr)
  PROVE  OpenInv'
<1>. DEFINE s == e.socket_ptr
<1>1. \A t \in Sockets : \A a : Opened(delivered', a, t) <=> Opened(delivered, a, t)
  <2>1. ASSUME NEW t \in Sockets, NEW a PROVE Opened(delivered', a, t) <=> Opened(delivered, a, t)
    <3>1. CASE t = s
      BY <2>1, <3>1
    <3>2. CASE t # s
      BY <3>2, OpenedAfter
    <3>. QED
      BY <3>1, <3>2
  <2>. QED
    BY <2>1
<1>2. \A j \in TL!Slots : timelines'[j].active =>
        \E a : Opened(delivered', a, timelines'[j].socket)
  <2>1. \A j \in TL!Slots : timelines[j].active => timelines[j].socket \in Sockets
    BY SlotFacts
  <2>. QED
    BY <1>1, <2>1 DEF OpenInv
<1>3. ASSUME NEW t \in Sockets, NEW a, Opened(delivered', a, t)
      PROVE  \E j \in TL!Slots : RecordsExchange(j, a, t)'
  <2>1. Opened(delivered, a, t)
    BY <1>1, <1>3
  <2>0. t # s
    BY <1>3
  <2>2. PICK j \in TL!Slots : RecordsExchange(j, a, t)
    BY <1>3, <2>1 DEF OpenInv
  <2>3. timelines[j].entries \in Seq(TP!Entry)
    BY SameSlots DEF TP!TableInv, TP!Slot
  <2>4. Records(delivered', timelines[j].entries, Places(delivered', t, a, Len(delivered')))
    BY <2>0, <2>1, <2>2, <2>3, OtherSocket DEF RecordsExchange
  <2>. QED
    BY <2>2, <2>4 DEF RecordsExchange
<1>. QED
  BY <1>2, <1>3 DEF OpenInv, TL!Slots

(* ExportsAreExchanges, over the delivery order as it is.                  *)
Numbered(ds, x) == Cardinality({y \in ExchangesIn(ds) : y[2] <= x[2]})

IsRecordOf(r, ds, x) ==
  /\ r.socket = ds[x[1]].socket_ptr
  /\ Records(ds, r.timeline, Places(ds, ds[x[1]].socket_ptr, x[1], x[2]))

FileIsOf(r) ==
  /\ kernel_request.socket = r.socket /\ kernel_request.steps = r.timeline
  /\ kernel_request.server = TL!Local(sock[r.socket])
  /\ kernel_request.client = TL!Peer(sock[r.socket])

ExportsMatch ==
  /\ Len(requests_jsonl) = Cardinality(ExchangesIn(delivered))
  /\ ExchangesIn(delivered) # {} => FileIsOf(requests_jsonl[Len(requests_jsonl)])
  /\ \A x \in ExchangesIn(delivered) :
       IsRecordOf(requests_jsonl[Numbered(delivered, x)], delivered, x)

LEMMA ExportsMatchMeans == ExportsMatch => ExportsAreExchanges
<1>. SUFFICES ASSUME ExportsMatch PROVE ExportsAreExchanges
  OBVIOUS
<1>1. /\ Exchanges = ExchangesIn(delivered)
      /\ \A s, a, b : Between(s, a, b) = Places(delivered, s, a, b)
      /\ \A entries, places : Shows(entries, places) <=> Records(delivered, entries, places)
  BY SameExchanges
<1>2. Len(requests_jsonl) = Cardinality(Exchanges)
  BY <1>1 DEF ExportsMatch
<1>3. ASSUME Exchanges # {} PROVE FileIsOf(requests_jsonl[Len(requests_jsonl)])
  BY <1>1, <1>3 DEF ExportsMatch
<1>4. ASSUME NEW x \in Exchanges
      PROVE  LET n == Cardinality({y \in Exchanges : y[2] <= x[2]})
                 s == delivered[x[1]].socket_ptr
             IN  /\ requests_jsonl[n].socket = s
                 /\ Shows(requests_jsonl[n].timeline, Between(s, x[1], x[2]))
  BY <1>1, <1>4 DEF ExportsMatch, IsRecordOf, Numbered
<1>. QED
  BY <1>2, <1>3, <1>4 DEF ExportsAreExchanges, FileIsOf

LEMMA PlacesStay ==
  ASSUME NEW ds \in Seq(Event), NEW e \in Event
  PROVE  \A s : \A a, b \in 1 .. Len(ds) : Places(Append(ds, e), s, a, b) = Places(ds, s, a, b)
<1>1. ASSUME NEW s, NEW a \in 1 .. Len(ds), NEW b \in 1 .. Len(ds)
      PROVE  Places(Append(ds, e), s, a, b) = Places(ds, s, a, b)
  <2>1. \A k \in a .. b : Append(ds, e)[k] = ds[k]
    BY <1>1, Delivery
  <2>. QED
    BY <2>1 DEF Places
<1>. QED
  BY <1>1

LEMMA JournalTimelines ==
  ASSUME requests_jsonl \in Seq(TP!Journal), NEW k \in 1 .. Len(requests_jsonl)
  PROVE  requests_jsonl[k].timeline \in Seq(TP!Entry)
<1>1. requests_jsonl[k] \in TP!Journal
  OBVIOUS
<1>. QED
  BY <1>1 DEF TP!Journal

(* Later deliveries leave the record of an exchange what it was.           *)
LEMMA RecordStays ==
  ASSUME NEW ds \in Seq(Event), NEW e \in Event, NEW x \in ExchangesIn(ds), NEW r,
         r.timeline \in Seq(TP!Entry), IsRecordOf(r, ds, x)
  PROVE  IsRecordOf(r, Append(ds, e), x)
<1>. DEFINE n == Len(ds)
            new == Append(ds, e)
            s == ds[x[1]].socket_ptr
<1>1. n \in Nat /\ x[1] \in 1 .. n /\ x[2] \in 1 .. n
  BY Delivery, ExchangesAreFinite
<1>2. new[x[1]] = ds[x[1]] /\ x[1] \in 1 .. n + 1
  BY <1>1, Delivery
<1>3. Places(new, s, x[1], x[2]) = Places(ds, s, x[1], x[2])
  BY <1>1, PlacesStay
<1>4. Places(ds, s, x[1], x[2]) \in SUBSET (1 .. n)
  BY <1>1 DEF Places
<1>5. Records(new, r.timeline, Places(ds, s, x[1], x[2]))
  BY <1>4, RecordsAfter DEF IsRecordOf
<1>. QED
  BY <1>2, <1>3, <1>5 DEF IsRecordOf

LEMMA NothingExported ==
  ASSUME ExportsMatch, delivered \in Seq(Event), requests_jsonl \in Seq(TP!Journal),
         NEW e \in Event, delivered' = Append(delivered, e),
         \A a : ~ Ends_at(delivered, e, a),
         UNCHANGED <<requests_jsonl, kernel_request, sock>>
  PROVE  ExportsMatch'
<1>1. \A x : x \in ExchangesIn(delivered') <=> x \in ExchangesIn(delivered)
  BY ExchangesAfter
<1>2. ExchangesIn(delivered') = ExchangesIn(delivered)
  BY <1>1
<1>3. ASSUME NEW x \in ExchangesIn(delivered)
      PROVE  IsRecordOf(requests_jsonl[Numbered(delivered, x)], delivered', x)
  <2>1. Numbered(delivered, x) \in 1 .. Len(requests_jsonl)
    BY <1>3, ExchangesAreFinite DEF Numbered, ExportsMatch
  <2>2. requests_jsonl[Numbered(delivered, x)].timeline \in Seq(TP!Entry)
    BY <2>1, JournalTimelines
  <2>3. IsRecordOf(requests_jsonl[Numbered(delivered, x)], delivered, x)
    BY <1>3 DEF ExportsMatch
  <2>. QED
    BY <1>3, <2>2, <2>3, RecordStays
<1>4. \A x : Numbered(delivered', x) = Numbered(delivered, x)
  BY <1>2 DEF Numbered
<1>5. \A r : FileIsOf(r) <=> FileIsOf(r)'
  BY DEF FileIsOf
<1>. QED
  BY <1>2, <1>3, <1>4, <1>5 DEF ExportsMatch

LEMMA OneExported ==
  ASSUME ExportsMatch, delivered \in Seq(Event), requests_jsonl \in Seq(TP!Journal),
         NEW e \in Event, delivered' = Append(delivered, e), UNCHANGED sock,
         NEW a, Ends_at(delivered, e, a),
         NEW r, requests_jsonl' = Append(requests_jsonl, r), FileIsOf(r)',
         IsRecordOf(r, delivered', <<a, Len(delivered) + 1>>)
  PROVE  ExportsMatch'
<1>. DEFINE n == Len(delivered)
            x0 == <<a, n + 1>>
            X == ExchangesIn(delivered)
            m == Len(requests_jsonl)
<1>1. \A x : x \in ExchangesIn(delivered') <=> x \in X \/ x = x0
  <2>1. \A b : Ends_at(delivered, e, b) => b = a
    BY OneOpened, Delivery DEF Ends_at
  <2>. QED
    BY <2>1, ExchangesAfter
<1>2. ExchangesIn(delivered') = X \cup {x0}
  BY <1>1
<1>3. /\ IsFiniteSet(X) /\ Cardinality(X) = m /\ m \in Nat /\ n \in Nat
      /\ \A x \in X : /\ x[1] \in 1 .. n /\ x[2] \in 1 .. n
                      /\ Cardinality({y \in X : y[2] <= x[2]}) \in 1 .. m
  BY ExchangesAreFinite DEF ExportsMatch
<1>4. x0[1] = a /\ x0[2] = n + 1
  OBVIOUS
<1>. HIDE DEF x0, X, n, m
<1>5. x0 \notin X
  <2>1. n + 1 \notin 1 .. n
    BY <1>3
  <2>. QED
    BY <1>3, <1>4, <2>1
<1>6. Cardinality(X \cup {x0}) = m + 1
  BY <1>3, <1>5, FS_AddElement
<1>7. /\ Len(requests_jsonl') = m + 1 /\ requests_jsonl'[m + 1] = r
      /\ \A k \in 1 .. m : requests_jsonl'[k] = requests_jsonl[k]
  BY DEF m
<1>8. Numbered(delivered', x0) = m + 1
  <2>1. \A y \in X \cup {x0} : y[2] <= x0[2]
    <3>1. (\A k \in 1 .. n : k <= n + 1) /\ n + 1 <= n + 1
      BY <1>3
    <3>2. \A y \in X : y[2] \in 1 .. n
      BY <1>3
    <3>. QED
      BY <1>4, <3>1, <3>2
  <2>2. {y \in X \cup {x0} : y[2] <= x0[2]} = X \cup {x0}
    BY <2>1
  <2>. QED
    BY <1>2, <1>6, <2>2 DEF Numbered
<1>9. ASSUME NEW x \in X
      PROVE  IsRecordOf(requests_jsonl'[Numbered(delivered', x)], delivered', x)
  <2>0. ~ (x0[2] <= x[2])
    <3>1. \A k \in 1 .. n : ~ (n + 1 <= k)
      BY <1>3
    <3>2. x[2] \in 1 .. n
      BY <1>3, <1>9
    <3>. QED
      BY <1>4, <3>1, <3>2
  <2>1. {y \in X \cup {x0} : y[2] <= x[2]} = {y \in X : y[2] <= x[2]}
    BY <2>0
  <2>2. /\ Numbered(delivered', x) = Numbered(delivered, x)
        /\ Numbered(delivered, x) \in 1 .. m
    BY <1>2, <1>3, <2>1 DEF Numbered, X
  <2>3. /\ requests_jsonl'[Numbered(delivered, x)] = requests_jsonl[Numbered(delivered, x)]
        /\ requests_jsonl[Numbered(delivered, x)].timeline \in Seq(TP!Entry)
    BY <1>7, <2>2, JournalTimelines DEF m
  <2>4. IsRecordOf(requests_jsonl[Numbered(delivered, x)], delivered, x)
    BY <1>9 DEF ExportsMatch, X
  <2>5. IsRecordOf(requests_jsonl[Numbered(delivered, x)], delivered', x)
    BY <1>9, <2>3, <2>4, RecordStays DEF X
  <2>. QED
    BY <2>2, <2>3, <2>5
<1>10. IsRecordOf(requests_jsonl'[Numbered(delivered', x0)], delivered', x0)
  BY <1>7, <1>8 DEF x0, n
<1>11. \A x \in ExchangesIn(delivered') :
         IsRecordOf(requests_jsonl'[Numbered(delivered', x)], delivered', x)
  BY <1>2, <1>9, <1>10
<1>12. FileIsOf(requests_jsonl[Len(requests_jsonl)])'
  BY <1>7 DEF FileIsOf
<1>. QED
  BY <1>2, <1>6, <1>7, <1>11, <1>12 DEF ExportsMatch, m

-----------------------------------------------------------------------------
(* One event, and the recording of its socket.                             *)
LEMMA RecordedSoFar ==
  ASSUME NEW ds \in Seq(Event), NEW e \in Event, NEW s, NEW a, Opened(ds, a, s),
         e.socket_ptr = s, NEW es \in Seq(TP!Entry), Records(ds, es, Places(ds, s, a, Len(ds)))
  PROVE  LET new == Append(ds, e)
             ne == TP!append(es, e)
             c == Cardinality(Places(ds, s, a, Len(ds)))
         IN  /\ Records(new, ne, Places(new, s, a, Len(new)))
             /\ c \in Nat
             /\ Len(ne) = IF c + 1 <= TIMELINE_MAX_EVENTS THEN c + 1 ELSE TIMELINE_MAX_EVENTS
             /\ ne[1].e = ds[a]
<1>. DEFINE n == Len(ds)
            new == Append(ds, e)
            ne == TP!append(es, e)
            P == Places(ds, s, a, n)
            c == Cardinality(P)
<1>1. n \in Nat /\ Len(new) = n + 1 /\ a \in 1 .. n /\ ds[a].socket_ptr = s
  BY Delivery DEF Opened
<1>2. a \in 1 .. n + 1
  BY <1>1
<1>3. /\ Places(new, s, a, n + 1) = P \cup {n + 1}
      /\ P \in SUBSET (1 .. n)
  BY <1>2, PlacesAfter
<1>4. Records(new, ne, P \cup {n + 1})
  BY <1>3, RecordsAfter
<1>5. Records(new, ne, Places(new, s, a, Len(new)))
  BY <1>1, <1>3, <1>4
<1>6. c \in Nat /\ Cardinality(P \cup {n + 1}) = c + 1
  BY <1>1, <1>3, OneMorePlace
<1>7. Len(ne) = IF c + 1 <= TIMELINE_MAX_EVENTS THEN c + 1 ELSE TIMELINE_MAX_EVENTS
  BY <1>4, <1>6 DEF Records
<1>8. ne[1].e = ds[a]
  <2>1. a \in P /\ {q \in P : q <= a} = {a}
    <3>1. \A q \in P : q \in a .. n
      BY DEF Places
    <3>2. a \in P
      BY <1>1 DEF Places
    <3>3. \A q \in P : q <= a => q = a
      BY <1>1, <3>1
    <3>. HIDE DEF P
    <3>. QED
      BY <1>1, <3>2, <3>3
  <2>2. Cardinality({q \in P : q <= a}) = 1
    BY <2>1, FS_Singleton
  <2>3. TIMELINE_MAX_EVENTS \in Nat \ {0} /\ 1 <= TIMELINE_MAX_EVENTS
    BY TimelineParameters
  <2>4. es[1].e = ds[a]
    BY <2>1, <2>2, <2>3 DEF Records
  <2>5. Len(es) = (IF c <= TIMELINE_MAX_EVENTS THEN c ELSE TIMELINE_MAX_EVENTS) /\ c # 0
    <3>1. IsFiniteSet(P)
      BY <1>1, <1>3, OneMorePlace
    <3>2. c # 0
      BY <2>1, <3>1, FS_EmptySet
    <3>. QED
      BY <3>2 DEF Records
  <2>. HIDE DEF c
  <2>6. 1 \in 1 .. Len(es)
    BY <1>6, <2>3, <2>5
  <2>7. \A k \in 1 .. Len(es) : ne[k] = es[k]
    BY SameEvents, TP!AppendEffect, TimelineParameters
  <2>. QED
    BY <2>4, <2>6, <2>7
<1>. QED
  BY <1>5, <1>6, <1>7, <1>8

LEMMA ActiveRecords ==
  ASSUME OpenInv, TP!TableInv, NEW s \in Sockets, TP!ActiveSlot(s) # TP!NoSlot
  PROVE  LET i == TP!ActiveSlot(s)
         IN  /\ i \in TL!Slots
             /\ timelines[i].occupied /\ timelines[i].socket = s
             /\ timelines[i].entries \in Seq(TP!Entry)
             /\ \E a : /\ Opened(delivered, a, s)
                       /\ Records(delivered, timelines[i].entries,
                                  Places(delivered, s, a, Len(delivered)))
<1>1. PICK i : i = TP!ActiveSlot(s)
  OBVIOUS
<1>2. /\ i \in TL!Slots
      /\ timelines[i].occupied /\ timelines[i].socket = s /\ timelines[i].active
  BY <1>1, TP!ActiveSlotResult, TimelineParameters, SameSlots
<1>3. timelines[i].entries \in Seq(TP!Entry)
  BY <1>2, SameSlots DEF TP!TableInv, TP!Slot
<1>4. PICK a : Opened(delivered, a, s)
  BY <1>2 DEF OpenInv
<1>5. PICK j \in TL!Slots : RecordsExchange(j, a, s)
  BY <1>4 DEF OpenInv
<1>6. j = i
  BY <1>2, <1>5, OneSlot DEF RecordsExchange
<1>7. Records(delivered, timelines[i].entries, Places(delivered, s, a, Len(delivered)))
  BY <1>5, <1>6 DEF RecordsExchange
<1>. QED
  BY <1>1, <1>2, <1>3, <1>4, <1>7

LEMMA IdleNotOpened ==
  ASSUME OpenInv, TP!TableInv, NEW s \in Sockets, TP!ActiveSlot(s) = TP!NoSlot
  PROVE  \A a : ~ Opened(delivered, a, s)
<1>. SUFFICES ASSUME NEW a, Opened(delivered, a, s) PROVE FALSE
  OBVIOUS
<1>1. PICK j \in TL!Slots : RecordsExchange(j, a, s)
  BY DEF OpenInv
<1>2. /\ j \in TP!Slots
      /\ timelines[j].occupied /\ timelines[j].socket = s /\ timelines[j].active
  BY <1>1, SameSlots DEF RecordsExchange
<1>. QED
  BY <1>2, TP!NoActiveSlot, TimelineParameters

(* What the steps of an event start from.                                  *)
EventArrives(e) ==
  /\ Undisturbed /\ MapsTyped /\ TP!TableInv /\ TP!TableInv' /\ OpenInv /\ ExportsMatch
  /\ requests_jsonl \in Seq(TP!Journal) /\ delivered \in Seq(Event)
  /\ \A k \in 1 .. Len(delivered) : TrueOf(delivered[k])
  /\ e \in Event /\ TrueOf(e) /\ e.socket_ptr \in Sockets \cup {NoSocket}
  /\ delivered' = Append(delivered, e) /\ UNCHANGED sock

LEMMA NothingRecorded ==
  ASSUME NEW e, EventArrives(e), UNCHANGED <<timelines, requests_jsonl, kernel_request>>,
         e.socket_ptr \in Sockets => /\ ~ (e.event = "EVENT_TCP_V4_RCV")
                                     /\ TP!ActiveSlot(e.socket_ptr) = TP!NoSlot
  PROVE  OpenInv' /\ ExportsMatch'
<1>1. e.socket_ptr \in Sockets => \A a : ~ Opened(delivered, a, e.socket_ptr)
  BY IdleNotOpened DEF EventArrives
<1>2. e.socket_ptr \in Sockets => \A a : ~ Opened(delivered', a, e.socket_ptr)
  BY <1>1, OpenedAfter DEF EventArrives
<1>3. OpenInv'
  BY <1>1, <1>2, NoSlotTakes DEF EventArrives
<1>4. \A a : ~ Ends_at(delivered, e, a)
  BY <1>1 DEF Ends_at, EventArrives
<1>5. ExportsMatch'
  BY <1>4, NothingExported DEF EventArrives
<1>. QED
  BY <1>3, <1>5

LEMMA SameCardinality ==
  /\ \A S : TP!IsFiniteSet(S) <=> IsFiniteSet(S)
  /\ \A S : TP!Cardinality(S) = Cardinality(S)
  BY DEF TP!IsFiniteSet, IsFiniteSet, TP!Cardinality, Cardinality

(* A segment opens the recording of its socket, whose slot there is.       *)
LEMMA SegmentRecorded ==
  ASSUME NEW e, EventArrives(e), e.event = "EVENT_TCP_V4_RCV", Tracked(e),
         TP!timeline_start(e)
  PROVE  OpenInv' /\ ExportsMatch'
<1>0. e \in TP!Event /\ e \in Event /\ TP!TableInv
  BY SameEvents DEF EventArrives
<1>1. CASE e.socket_ptr = NoSocket
  <2>1. TP!StartSlot(e.socket_ptr) = TP!NoSlot
    BY <1>1 DEF TP!StartSlot
  <2>2. UNCHANGED <<timelines, requests_jsonl, kernel_request>>
    BY <2>1, TP!WithoutSlot, TimelineParameters
  <2>. QED
    BY <1>1, <2>2, NothingRecorded, SocketsAssumption
<1>2. CASE e.socket_ptr \in Sockets
  <2>. DEFINE s == e.socket_ptr
  <2>0. PICK n : n = Len(delivered)
    OBVIOUS
  <2>1. TP!StartSlot(s) # TP!NoSlot
    <3>1. IsFiniteSet(Sockets) /\ Cardinality(Sockets) <= TIMELINE_TABLE_SIZE
      BY DEF EventArrives, Undisturbed
    <3>. QED
      BY <1>0, <1>2, <3>1, TP!RoomForAll, TimelineParameters, SameCardinality
  <2>2. PICK i : i = TP!StartSlot(s)
    OBVIOUS
  <2>3. /\ i \in TP!Slots
        /\ timelines[i].occupied => timelines[i].socket = s
        /\ TP!GoesTo(i, s) /\ timelines'[i].active
        /\ timelines'[i].entries = TP!append(<<>>, e)
        /\ UNCHANGED <<requests_jsonl, kernel_request>>
    BY <1>0, <2>1, <2>2, TP!StartRecords, TimelineParameters
  <2>4. \A a : Opened(delivered', a, s) <=> a = n + 1
    BY <2>0, OpenedAfter DEF EventArrives, Boundary
  <2>5. RecordsExchange(i, n + 1, s)'
    <3>1. n \in Nat /\ Len(delivered') = n + 1 /\ delivered \in Seq(Event)
      BY <2>0, Delivery DEF EventArrives
    <3>2. delivered'[n + 1] = e
      BY <2>0, Delivery DEF EventArrives
    <3>3. Places(delivered', s, n + 1, n + 1) = {n + 1}
      BY <3>1, <3>2 DEF Places
    <3>4. Records(delivered', timelines'[i].entries, {n + 1})
      BY <2>0, <2>3, RecordsFirst DEF EventArrives
    <3>. QED
      BY <2>3, <3>1, <3>3, <3>4 DEF RecordsExchange, TP!GoesTo
  <2>6. i \in TL!Slots
    BY <2>3, SameSlots
  <2>7. OpenInv'
    BY <1>2, <2>3, <2>4, <2>5, <2>6, OneSlotTakes DEF EventArrives
  <2>8. \A a : ~ Ends_at(delivered, e, a)
    BY DEF Ends_at
  <2>9. ExportsMatch'
    BY <2>3, <2>8, NothingExported DEF EventArrives
  <2>. QED
    BY <2>7, <2>9
<1>. QED
  BY <1>1, <1>2 DEF EventArrives

(* An event within an exchange extends its recording.                      *)
LEMMA EventRecorded ==
  ASSUME NEW e, EventArrives(e), e.event \notin Boundary, TP!timeline_add_event(e)
  PROVE  OpenInv' /\ ExportsMatch'
<1>0. e \in TP!Event /\ e \in Event /\ TP!TableInv
  BY SameEvents DEF EventArrives
<1>1. CASE TP!ActiveSlot(e.socket_ptr) = TP!NoSlot
  <2>1. UNCHANGED <<timelines, requests_jsonl, kernel_request>>
    BY <1>1, TP!WithoutSlot, TimelineParameters
  <2>. QED
    BY <1>1, <2>1, NothingRecorded DEF Boundary
<1>2. CASE TP!ActiveSlot(e.socket_ptr) # TP!NoSlot
  <2>. DEFINE s == e.socket_ptr
  <2>1. s \in Sockets
    BY <1>2 DEF EventArrives, TP!ActiveSlot
  <2>2. PICK i : i = TP!ActiveSlot(s)
    OBVIOUS
  <2>3. /\ i \in TL!Slots
        /\ timelines[i].occupied /\ timelines[i].socket = s
        /\ timelines[i].entries \in Seq(TP!Entry)
        /\ \E a : /\ Opened(delivered, a, s)
                  /\ Records(delivered, timelines[i].entries,
                             Places(delivered, s, a, Len(delivered)))
    BY <1>2, <2>1, <2>2, ActiveRecords DEF EventArrives
  <2>4. /\ TP!GoesTo(i, s) /\ timelines'[i].active
        /\ timelines'[i].entries = TP!append(timelines[i].entries, e)
        /\ UNCHANGED <<requests_jsonl, kernel_request>>
    BY <1>0, <1>2, <2>2, TP!AddRecords, TimelineParameters
  <2>5. PICK a : /\ Opened(delivered, a, s)
                 /\ Records(delivered, timelines[i].entries,
                            Places(delivered, s, a, Len(delivered)))
    BY <2>3
  <2>6. \A b : Opened(delivered', b, s) <=> b = a
    <3>1. \A b : Opened(delivered', b, s) <=> Opened(delivered, b, s)
      BY OpenedAfter DEF EventArrives
    <3>2. Len(delivered) \in Nat
      BY DEF EventArrives
    <3>. QED
      BY <2>5, <3>1, <3>2, OneOpened
  <2>7. RecordsExchange(i, a, s)'
    <3>1. Records(delivered', timelines'[i].entries,
                  Places(delivered', s, a, Len(delivered')))
      BY <1>0, <2>3, <2>4, <2>5, RecordedSoFar DEF EventArrives
    <3>. QED
      BY <2>4, <3>1 DEF RecordsExchange, TP!GoesTo
  <2>8. OpenInv'
    BY <2>1, <2>3, <2>4, <2>6, <2>7, OneSlotTakes DEF EventArrives
  <2>9. \A b : ~ Ends_at(delivered, e, b)
    BY DEF Ends_at, Boundary
  <2>10. ExportsMatch'
    BY <2>4, <2>9, NothingExported DEF EventArrives
  <2>. QED
    BY <2>8, <2>10
<1>. QED
  BY <1>1, <1>2

(* A response ends the recording, which is exported when it is long enough *)
(* and then is that of the exchange that the response completes.           *)
LEMMA ResponseRecorded ==
  ASSUME NEW e, EventArrives(e), e.event = "EVENT_TCP_SENDMSG", TP!timeline_finish(e)
  PROVE  OpenInv' /\ ExportsMatch'
<1>0. e \in TP!Event /\ e \in Event /\ TP!TableInv /\ delivered \in Seq(Event)
  BY SameEvents DEF EventArrives
<1>1. CASE TP!ActiveSlot(e.socket_ptr) = TP!NoSlot
  <2>1. UNCHANGED <<timelines, requests_jsonl, kernel_request>>
    BY <1>1, TP!WithoutSlot, TimelineParameters
  <2>. QED
    BY <1>1, <2>1, NothingRecorded
<1>2. CASE TP!ActiveSlot(e.socket_ptr) # TP!NoSlot
  <2>. DEFINE s == e.socket_ptr
  <2>1. s \in Sockets /\ s # NoSocket
    BY <1>2 DEF EventArrives, TP!ActiveSlot
  <2>2. PICK i : i = TP!ActiveSlot(s)
    OBVIOUS
  <2>3. /\ i \in TL!Slots
        /\ timelines[i].occupied /\ timelines[i].socket = s
        /\ timelines[i].entries \in Seq(TP!Entry)
        /\ \E a : /\ Opened(delivered, a, s)
                  /\ Records(delivered, timelines[i].entries,
                             Places(delivered, s, a, Len(delivered)))
    BY <1>2, <2>1, <2>2, ActiveRecords DEF EventArrives
  <2>4. PICK es : es = TP!append(timelines[i].entries, e)
    OBVIOUS
  <2>5. /\ TP!GoesTo(i, s) /\ ~ timelines'[i].active
        /\ \/ Len(es) < MIN_STEPS /\ UNCHANGED <<requests_jsonl, kernel_request>>
           \/ /\ Len(es) >= MIN_STEPS
              /\ \/ requests_jsonl' = Append(requests_jsonl, TP!JournalRecord(s, es))
                 \/ "requests" \in Faulty
              /\ \/ kernel_request' = TP!KernelRequest(s, es)
                 \/ "kernel_request" \in Faulty
    BY <1>0, <1>2, <2>2, <2>4, TP!FinishRecords, TimelineParameters
  <2>6. PICK a : /\ Opened(delivered, a, s)
                 /\ Records(delivered, timelines[i].entries,
                            Places(delivered, s, a, Len(delivered)))
    BY <2>3
  <2>7. \A b : ~ Opened(delivered', b, s)
    BY OpenedAfter DEF EventArrives, Boundary
  <2>8. OpenInv'
    BY <2>1, <2>3, <2>5, <2>7, OneSlotTakes DEF EventArrives
  <2>9. PICK n, c : n = Len(delivered) /\ c = Cardinality(Places(delivered, s, a, n))
    OBVIOUS
  <2>10. /\ Records(delivered', es, Places(delivered', s, a, Len(delivered')))
         /\ c \in Nat
         /\ Len(es) = IF c + 1 <= TIMELINE_MAX_EVENTS THEN c + 1 ELSE TIMELINE_MAX_EVENTS
         /\ es[1].e = delivered[a]
    BY <1>0, <2>3, <2>4, <2>6, <2>9, RecordedSoFar DEF EventArrives
  <2>11. /\ Undisturbed /\ MapsTyped /\ ExportsMatch /\ requests_jsonl \in Seq(TP!Journal)
         /\ \A k \in 1 .. Len(delivered) : TrueOf(delivered[k])
         /\ delivered' = Append(delivered, e) /\ UNCHANGED sock
    BY DEF EventArrives
  <2>12. /\ MIN_STEPS \in Nat /\ TIMELINE_MAX_EVENTS \in Nat
         /\ MIN_STEPS <= TIMELINE_MAX_EVENTS
    BY <2>11, TimelineParameters DEF Undisturbed
  <2>13. Len(es) >= MIN_STEPS <=> c + 1 >= MIN_STEPS
    BY <2>10, <2>12
  <2>14. CASE Len(es) < MIN_STEPS
    <3>1. UNCHANGED <<requests_jsonl, kernel_request>>
      BY <2>5, <2>10, <2>12, <2>14
    <3>2. \A b : Ends_at(delivered, e, b) => b = a
      BY <1>0, <2>6, OneOpened, Delivery DEF Ends_at
    <3>3. \A b : ~ Ends_at(delivered, e, b)
      BY <2>9, <2>10, <2>12, <2>13, <2>14, <3>2 DEF Ends_at
    <3>4. ExportsMatch'
      BY <1>0, <2>11, <3>1, <3>3, NothingExported
    <3>. QED
      BY <2>8, <3>4
  <2>15. CASE Len(es) >= MIN_STEPS
    <3>1. Ends_at(delivered, e, a)
      BY <2>1, <2>6, <2>9, <2>13, <2>15 DEF Ends_at
    <3>2. PICK r : r = TP!JournalRecord(s, es)
      OBVIOUS
    <3>3. r.socket = s /\ r.timeline = es
      BY <3>2 DEF TP!JournalRecord
    <3>4. requests_jsonl' = Append(requests_jsonl, r) /\ kernel_request' = TP!KernelRequest(s, es)
      BY <2>5, <2>10, <2>11, <2>12, <2>15, <3>2 DEF Undisturbed
    <3>5. /\ a \in 1 .. n /\ n \in Nat /\ delivered[a] \in Event
          /\ delivered[a].socket_ptr = s /\ delivered[a].event = "EVENT_TCP_V4_RCV"
      BY <1>0, <2>6, <2>9 DEF Opened
    <3>6. delivered[a].addr = sock[s] /\ TP!Swapped(delivered[a].addr)
      BY <2>1, <2>9, <2>11, <3>5, SegmentsAreTracked
    <3>7. FileIsOf(r)'
      <4>1. /\ kernel_request'.socket = s /\ kernel_request'.steps = es
            /\ kernel_request'.server = TP!Server(es[1].e.addr)
            /\ kernel_request'.client = TP!Client(es[1].e.addr)
        BY <3>4 DEF TP!KernelRequest
      <4>2. /\ TP!Server(es[1].e.addr) = TL!Local(sock[s])
            /\ TP!Client(es[1].e.addr) = TL!Peer(sock[s])
        BY <2>10, <3>6 DEF TP!Server, TP!Client, TP!Local, TP!Peer, TL!Local, TL!Peer
      <4>. QED
        BY <2>11, <3>3, <4>1, <4>2 DEF FileIsOf, TL!Local, TL!Peer
    <3>8. IsRecordOf(r, delivered', <<a, n + 1>>)
      <4>1. Len(delivered') = n + 1 /\ delivered'[a] = delivered[a]
        BY <1>0, <2>9, <2>11, <3>5, Delivery
      <4>. QED
        BY <2>10, <3>3, <3>5, <4>1 DEF IsRecordOf
    <3>9. ExportsMatch'
      BY <1>0, <2>9, <2>11, <3>1, <3>4, <3>7, <3>8, OneExported
    <3>. QED
      BY <2>8, <3>9
  <2>. QED
    BY <2>10, <2>12, <2>14, <2>15
<1>. QED
  BY <1>1, <1>2

(* All of it, as long as no socket address has been reused.                *)
FollowsInv == reused = 0 => OpenInv /\ ExportsMatch

LEMMA HandlingFollows ==
  ASSUME Undisturbed, PipelineInv, PipelineInv', FollowsInv, NEW e \in Event,
         reused = 0, UNCHANGED sock, TrueOf(e), Dispatch(e), delivered' = Append(delivered, e)
  PROVE  OpenInv' /\ ExportsMatch'
<1>1. /\ MapsTyped /\ TP!TableInv /\ TP!TableInv' /\ OpenInv /\ ExportsMatch
      /\ requests_jsonl \in Seq(TP!Journal) /\ delivered \in Seq(Event)
      /\ \A k \in 1 .. Len(delivered) : TrueOf(delivered[k])
  BY DEF PipelineInv, TracerInv, SharedInv, TimelinesInv, DeliveredInv, FollowsInv, TP!FilesInv
<1>2. e.socket_ptr \in Sockets \cup {NoSocket}
  BY DEF Event
<1>3. EventArrives(e)
  BY <1>1, <1>2 DEF EventArrives
<1>4. CASE e.event = "EVENT_TCP_V4_RCV" /\ Tracked(e) /\ TL!timeline_start(e)
  BY <1>3, <1>4, SameStart, SegmentRecorded
<1>5. CASE e.event = "EVENT_TCP_V4_RCV" /\ ~ Tracked(e) /\ UNCHANGED timelineVars
  <2>1. e.socket_ptr \notin Sockets
    BY <1>1, <1>5, SegmentsAreTracked
  <2>2. UNCHANGED <<timelines, requests_jsonl, kernel_request>>
    BY <1>5 DEF timelineVars
  <2>. QED
    BY <1>3, <2>1, <2>2, NothingRecorded
<1>6. CASE e.event = "EVENT_TCP_SENDMSG" /\ TL!timeline_finish(e)
  BY <1>3, <1>6, SameFinish, ResponseRecorded
<1>7. CASE /\ e.event \notin {"EVENT_TCP_V4_RCV", "EVENT_TCP_SENDMSG"}
           /\ TL!timeline_add_event(e)
  BY <1>3, <1>7, SameAdd, EventRecorded DEF Boundary
<1>. QED
  BY <1>4, <1>5, <1>6, <1>7 DEF Dispatch

LEMMA FollowsInitially == ObserverInit => FollowsInv
<1>. SUFFICES ASSUME ObserverInit PROVE OpenInv /\ ExportsMatch
  BY DEF FollowsInv
<1>1. /\ delivered = <<>> /\ Len(delivered) = 0
      /\ requests_jsonl = <<>> /\ Len(requests_jsonl) = 0
      /\ timelines = [i \in TL!Slots |-> TL!FreeSlot]
  BY DEF ObserverInit, CollectorInit, TL!TimelineInit
<1>2. OpenInv
  BY <1>1 DEF OpenInv, Opened, TL!FreeSlot
<1>3. ExchangesIn(delivered) = {} /\ Cardinality(ExchangesIn(delivered)) = 0
  <2>1. ExchangesIn(delivered) = {}
    BY <1>1 DEF ExchangesIn
  <2>. QED
    BY <2>1, FS_EmptySet
<1>. QED
  BY <1>1, <1>2, <1>3 DEF ExportsMatch

LEMMA FollowsNext ==
  ASSUME Undisturbed
  PROVE  /\ PipelineInv /\ PipelineInv' /\ FollowsInv /\ [ObserverNext]_observerVars
         => FollowsInv'
<1>. SUFFICES ASSUME PipelineInv, PipelineInv', FollowsInv, [ObserverNext]_observerVars,
                     reused' = 0
              PROVE  OpenInv' /\ ExportsMatch'
  BY DEF FollowsInv
<1>1. reused = 0 /\ sock' = sock
  BY ObserverTraces, SocketsKept DEF PipelineInv
<1>2. CASE HandleRecord
  <2>. DEFINE e == Head(ring).e
  <2>1. ring \in Seq(Record) /\ ring # <<>>
    BY <1>2 DEF PipelineInv, TracerInv, RingTyped, HandleRecord, Deliver, Deliverable
  <2>2. Head(ring) \in Record /\ 1 \in 1 .. Len(ring) /\ Head(ring) = ring[1]
    BY <2>1
  <2>3. e \in Event
    BY <2>2 DEF Record
  <2>4. TrueOf(e)
    BY <1>1, <2>2 DEF PipelineInv, TracerInv, Truthful
  <2>5. Dispatch(e) /\ delivered' = Append(delivered, e)
    BY <1>2 DEF HandleRecord, collector_handle_event
  <2>. HIDE DEF e
  <2>. QED
    BY <1>1, <2>3, <2>4, <2>5, HandlingFollows
<1>3. CASE UNCHANGED <<collectorVars, delivered>>
  <2>1. /\ UNCHANGED <<timelines, requests_jsonl, kernel_request, delivered, sock>>
    BY <1>1, <1>3 DEF collectorVars, timelineVars
  <2>2. OpenInv /\ ExportsMatch
    BY <1>1 DEF FollowsInv
  <2>3. OpenInv'
    BY <2>1, <2>2 DEF OpenInv, RecordsExchange, TL!Slots
  <2>4. ExportsMatch'
    BY <2>1, <2>2 DEF ExportsMatch, FileIsOf, TL!Local, TL!Peer
  <2>. QED
    BY <2>3, <2>4
<1>. QED
  BY <1>2, <1>3 DEF ObserverNext, Probe, Poll, Signal, BeginPoll, EndPoll, Exit, observerVars

(* End to end: from the probes of any number of CPUs to the files, until a *)
(* socket address is reused, requests.jsonl holds one record per exchange  *)
(* that was delivered, in order and with its events, and the agent's file  *)
(* is the last of them, seen from the server.                              *)
THEOREM FilesHoldTheExchanges ==
  ASSUME Undisturbed
  PROVE  ObserverSpec => [](reused = 0 => ExportsAreExchanges)
<1>1. FollowsInv => (reused = 0 => ExportsAreExchanges)
  BY ExportsMatchMeans DEF FollowsInv
<1>2. PipelineInv /\ FollowsInv /\ [ObserverNext]_observerVars => PipelineInv' /\ FollowsInv'
  BY PipelineNextInv, FollowsNext
<1>. QED
  BY <1>1, <1>2, PipelineInitInv, FollowsInitially, PTL DEF ObserverSpec
=============================================================================
