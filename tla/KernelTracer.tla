---------------------------- MODULE KernelTracer ----------------------------
(***************************************************************************)
(* kernel/tracer.bpf.c: the probes.  A probe runs on one CPU, on behalf of *)
(* whatever task that CPU is running, and in three steps that probes on    *)
(* other CPUs interleave with: it reads and updates the two hash maps and  *)
(* works out the event; it reserves a record of the ring buffer; it stamps *)
(* the record with the time and submits it.  On one CPU the kernel runs    *)
(* one BPF program at a time.                                              *)
(*                                                                         *)
(* The ring buffer is that of the kernel, as the probes and the collector  *)
(* use it: records are delivered in the order in which they were reserved, *)
(* and a record that is not submitted yet holds back those after it.       *)
(***************************************************************************)
EXTENDS Events, Sequences, FiniteSets

CONSTANTS
  CPUs,
  Tasks,             \* thread ids
  Probes,            \* the event types whose programs are loaded (main.c)
  RING_SIZE,         \* records that fit the ring buffer
  MAX_CONNECTIONS,   \* max_entries of the two maps
  MAX_TASK_SOCKETS,
  Endpoints,         \* the endpoints that a kernel socket may have
  MaxProbes,         \* bound: probes that fire
  MaxReuses          \* bound: struct socks freed and allocated again

ASSUME TracerAssumption ==
  /\ Probes \subseteq EventTypes
  /\ RING_SIZE \in Nat /\ MAX_CONNECTIONS \in Nat /\ MAX_TASK_SOCKETS \in Nat
  /\ MaxProbes \in Nat /\ MaxReuses \in Nat
  /\ Endpoints \subseteq Addr
  /\ MaxProbes < U64
  /\ IsFiniteSet(CPUs)

VARIABLES
  sock,           \* the kernel's sockets: pointer -> endpoints
  current,        \* the task each CPU runs
  connections,    \* BPF map: socket pointer -> endpoints
  task_sockets,   \* BPF map: thread id -> socket pointer
  cpu,            \* the program each CPU is in, and the event it works out
  ring,           \* the ring buffer, oldest reservation first
  clock,          \* bpf_ktime_get_ns
  fired,          \* probes fired so far
  reused          \* sockets reused so far

mapVars == <<connections, task_sockets>>
kernelVars == <<sock, current, reused>>
tracerVars == <<kernelVars, mapVars, cpu, ring, clock, fired>>

(* submit_socket_event is called with the socket of an sk_buff, which may  *)
(* be NULL, or with the socket that the probed function is given.          *)
SkbProbes == {"EVENT_NAPI_POLL", "EVENT_ETHERNET_RX", "EVENT_NETFILTER_HOOK",
              "EVENT_ROUTE_LOOKUP"}
SockProbes == {"EVENT_TCP_DATA_QUEUE", "EVENT_TCP_STATE_MACHINE",
               "EVENT_SOCK_DEF_READABLE", "EVENT_TCP_SENDMSG", "EVENT_IP_OUTPUT"}
TaskProbes == {"EVENT_NGINX_HTTP_PARSE", "EVENT_NGINX_REVERSE_PROXY",
               "EVENT_NGINX_BACKEND_SOCKET", "EVENT_NGINX_RESPONSE_GEN",
               "EVENT_NGINX_RESPONSE_TX"}
PlainProbes == EventTypes \ (SkbProbes \cup SockProbes \cup TaskProbes
                             \cup {"EVENT_TCP_V4_RCV", "EVENT_UNKNOWN"})

(* bpf_map_update_elem with BPF_ANY: a new key is refused by a full map,   *)
(* and the probes ignore that.                                             *)
MapUpdate(map, key, value, max) ==
  IF key \in DOMAIN map \/ Cardinality(DOMAIN map) < max
  THEN [k \in DOMAIN map \cup {key} |-> IF k = key THEN value ELSE map[k]] ELSE map

Idle(c) == cpu[c].pc = "idle"

UnstampedEvent(type, s, a) ==
  [event |-> type, socket_ptr |-> s, timestamp |-> 0, addr |-> a]

IdleCpu == [pc |-> "idle", e |-> UnstampedEvent("EVENT_UNKNOWN", NoSocket, NoAddr)]

TracerInit ==
  /\ sock \in [Sockets -> Endpoints]
  /\ current \in [CPUs -> Tasks]
  /\ \A c, d \in CPUs : c # d => current[c] # current[d]
  /\ connections = <<>>
  /\ task_sockets = <<>>
  /\ cpu = [c \in CPUs |-> IdleCpu]
  /\ ring = <<>>
  /\ clock = 0
  /\ fired = 0
  /\ reused = 0

-----------------------------------------------------------------------------
(* What the kernel does by itself.                                         *)

ContextSwitch(c, t) ==
  /\ Idle(c)
  /\ \A d \in CPUs : current[d] # t
  /\ current' = [current EXCEPT ![c] = t]
  /\ UNCHANGED <<sock, reused, mapVars, cpu, ring, clock, fired>>

(* A struct sock is freed and its address serves another connection.  The  *)
(* maps are keyed by the address and are not told.                         *)
ReuseSocket(s, a) ==
  /\ reused < MaxReuses
  /\ a # sock[s]
  /\ sock' = [sock EXCEPT ![s] = a]
  /\ reused' = reused + 1
  /\ UNCHANGED <<current, mapVars, cpu, ring, clock, fired>>

-----------------------------------------------------------------------------
(* The probe programs up to submit_event_ex.                               *)

(* The event to submit, with all but its timestamp. *)
Prepare(c, type, s, a) ==
  /\ Idle(c)
  /\ type \in Probes
  /\ fired < MaxProbes
  /\ fired' = fired + 1
  /\ cpu' = [cpu EXCEPT ![c] = [pc |-> "reserve", e |-> UnstampedEvent(type, s, a)]]
  /\ UNCHANGED <<kernelVars, ring, clock>>

(* Mutant: the connection is saved before the socket is read. *)
rcv_saving_first(c, s) ==
  \/ /\ s = NoSocket
     /\ Prepare(c, "EVENT_TCP_V4_RCV", NoSocket, NoAddr)
     /\ UNCHANGED mapVars
  \/ /\ s # NoSocket
     /\ Prepare(c, "EVENT_TCP_V4_RCV", s, sock[s])
     /\ connections' = MapUpdate(connections, s, NoAddr, MAX_CONNECTIONS)
     /\ UNCHANGED task_sockets

(* trace_tcp_v4_rcv: reads the socket and saves it; no socket, no save. *)
trace_tcp_v4_rcv(c, s) ==
  \/ /\ s = NoSocket
     /\ Prepare(c, "EVENT_TCP_V4_RCV", NoSocket, NoAddr)
     /\ UNCHANGED mapVars
  \/ /\ s # NoSocket
     /\ Prepare(c, "EVENT_TCP_V4_RCV", s, sock[s])
     /\ connections' = MapUpdate(connections, s, sock[s], MAX_CONNECTIONS)
     /\ UNCHANGED task_sockets

submit_event(c, type) == Prepare(c, type, NoSocket, NoAddr) /\ UNCHANGED mapVars

(* The current task is remembered as working on the socket, in an          *)
(* interrupt too; the endpoints come from the map before the socket.       *)
submit_socket_event(c, type, s) ==
  /\ Prepare(c, type, s, IF s \in DOMAIN connections THEN connections[s] ELSE sock[s])
  /\ task_sockets' = MapUpdate(task_sockets, current[c], s, MAX_TASK_SOCKETS)
  /\ UNCHANGED connections

submit_current_task_event(c, type) ==
  LET t == current[c]
  IN  \/ /\ t \notin DOMAIN task_sockets
         /\ submit_event(c, type)
      \/ /\ t \in DOMAIN task_sockets
         /\ LET s == task_sockets[t]
            IN  Prepare(c, type, s,
                        IF s \in DOMAIN connections THEN connections[s] ELSE NoAddr)
         /\ UNCHANGED mapVars

Fire(c) ==
  \/ \E s \in Sockets \cup {NoSocket} : trace_tcp_v4_rcv(c, s)
  \/ \E type \in SkbProbes \cup PlainProbes : submit_event(c, type)
  \/ \E type \in SkbProbes \cup SockProbes, s \in Sockets : submit_socket_event(c, type, s)
  \/ \E type \in TaskProbes : submit_current_task_event(c, type)

-----------------------------------------------------------------------------
(* submit_event_ex                                                         *)

(* Mutant: the result of the reservation is not tested. *)
ReserveUntested(c) ==
  /\ cpu[c].pc = "reserve"
  /\ ring' = IF Len(ring) < RING_SIZE
             THEN Append(ring, [cpu |-> c, busy |-> TRUE, e |-> cpu[c].e]) ELSE ring
  /\ cpu' = [cpu EXCEPT ![c].pc = "submit"]
  /\ UNCHANGED <<kernelVars, mapVars, clock, fired>>

(* bpf_ringbuf_reserve: without room the event is lost and nobody is told. *)
Reserve(c) ==
  /\ cpu[c].pc = "reserve"
  /\ \/ /\ Len(ring) < RING_SIZE
        /\ ring' = Append(ring, [cpu |-> c, busy |-> TRUE, e |-> cpu[c].e])
        /\ cpu' = [cpu EXCEPT ![c].pc = "submit"]
     \/ /\ Len(ring) >= RING_SIZE
        /\ cpu' = [cpu EXCEPT ![c] = IdleCpu]
        /\ UNCHANGED ring
  /\ UNCHANGED <<kernelVars, mapVars, clock, fired>>

(* The record that the program on a CPU has reserved. *)
Reserved(c) == {k \in 1 .. Len(ring) : ring[k].cpu = c /\ ring[k].busy}

(* A record with the time in its event, handed over to the reader. *)
Submitted(r, now) ==
  [cpu |-> r.cpu, busy |-> FALSE, e |-> [r.e EXCEPT !.timestamp = now]]

(* Mutants: a coarser clock; a path that never submits its record.         *)
SubmitCoarse(c) ==
  /\ cpu[c].pc = "submit"
  /\ clock' = clock + 1
  /\ \E k \in Reserved(c) :
       ring' = [ring EXCEPT ![k] = Submitted(@, clock' \div 3)]
  /\ cpu' = [cpu EXCEPT ![c] = IdleCpu]
  /\ UNCHANGED <<kernelVars, mapVars, fired>>

SubmitForgotten(c) ==
  /\ cpu[c].pc = "submit"
  /\ clock' = clock + 1
  /\ cpu' = [cpu EXCEPT ![c] = IdleCpu]
  /\ UNCHANGED <<kernelVars, mapVars, ring, fired>>

(* bpf_ktime_get_ns and bpf_ringbuf_submit: stamped only now, in the       *)
(* record's place of the reservation order.                                *)
Submit(c) ==
  /\ cpu[c].pc = "submit"
  /\ clock' = clock + 1
  /\ \E k \in Reserved(c) :
       ring' = [ring EXCEPT ![k] = Submitted(@, clock')]
  /\ cpu' = [cpu EXCEPT ![c] = IdleCpu]
  /\ UNCHANGED <<kernelVars, mapVars, fired>>

(* What a reader of the ring buffer can take: the oldest, once submitted. *)
Deliverable == ring # <<>> /\ ~ Head(ring).busy

Deliver ==
  /\ Deliverable
  /\ ring' = Tail(ring)
  /\ UNCHANGED <<kernelVars, mapVars, cpu, clock, fired>>

KernelStep ==
  \/ \E c \in CPUs : Fire(c) \/ Reserve(c) \/ Submit(c)
  \/ \E c \in CPUs, t \in Tasks : ContextSwitch(c, t)
  \/ \E s \in Sockets, a \in Endpoints : ReuseSocket(s, a)

TracerNext == KernelStep \/ Deliver

TracerSpec == TracerInit /\ [][TracerNext]_tracerVars

-----------------------------------------------------------------------------
PartialFunctions(S, T) == UNION {[D -> T] : D \in SUBSET S}

(* Type invariant of the maps, the programs and the ring buffer.           *)
TracerTypeOK ==
  /\ sock \in [Sockets -> Endpoints]
  /\ current \in [CPUs -> Tasks]
  /\ connections \in PartialFunctions(Sockets, Endpoints)
  /\ Cardinality(DOMAIN connections) <= MAX_CONNECTIONS
  /\ task_sockets \in PartialFunctions(Tasks, Sockets)
  /\ Cardinality(DOMAIN task_sockets) <= MAX_TASK_SOCKETS
  /\ cpu \in [CPUs -> [pc : {"idle", "reserve", "submit"}, e : Event]]
  /\ ring \in Seq([cpu : CPUs, busy : BOOLEAN, e : Event])
  /\ Len(ring) <= RING_SIZE
  /\ clock \in 0 .. MaxProbes /\ fired \in 0 .. MaxProbes /\ reused \in 0 .. MaxReuses

(* A program that has reserved a record owns exactly one, whatever the     *)
(* other CPUs reserve and the reader takes meanwhile, and every record     *)
(* that holds back the reader belongs to a program that will submit it.    *)
RecordsAreOwned ==
  /\ \A c \in CPUs : Cardinality(Reserved(c)) = IF cpu[c].pc = "submit" THEN 1 ELSE 0
  /\ clock + Cardinality({c \in CPUs : cpu[c].pc # "idle"}) <= fired

(* The events of one CPU are delivered in the order of their timestamps.   *)
PerCpuOrder ==
  \A j, k \in 1 .. Len(ring) :
    /\ j < k /\ ring[j].cpu = ring[k].cpu
    /\ ~ ring[j].busy /\ ~ ring[k].busy
    => ring[j].e.timestamp < ring[k].e.timestamp

(* As long as no socket pointer is reused, an event that names a socket    *)
(* carries that socket's endpoints, although they were cached in a map by  *)
(* an earlier probe on any CPU; only an nginx probe may have none.         *)
EndpointsAreTrue ==
  reused = 0 =>
    \A k \in 1 .. Len(ring) :
      LET e == ring[k].e
      IN  e.socket_ptr # NoSocket =>
            \/ e.addr = sock[e.socket_ptr]
            \/ e.event \in TaskProbes /\ e.addr = NoAddr
=============================================================================
