------------------------------- MODULE Events -------------------------------
(***************************************************************************)
(* The event record that the kernel probes write and the collector reads   *)
(* (struct event of collector/event.h, identical to kernel/event.bpf.h).   *)
(* Of its twenty fields the model keeps those the program decides on or    *)
(* computes with: the type, the socket pointer that identifies a           *)
(* connection, the timestamp, and the two endpoints.                       *)
(***************************************************************************)
EXTENDS Integers

CONSTANTS
  Sockets,    \* the kernel addresses of struct sock, as opaque values
  NoSocket,   \* socket_ptr = 0: the probe had no socket to report
  Hosts,      \* IPv4 addresses; 0 is "no address"
  Ports,      \* TCP ports; 0 is "no port"
  U64         \* number of values of a uint64_t (2^64 in the build)

ASSUME SocketsAssumption == NoSocket \notin Sockets
ASSUME HostsAssumption == 0 \in Hosts
ASSUME PortsAssumption == 0 \in Ports
ASSUME U64Assumption == U64 \in Nat \ {0}

EventTypes ==
  { "EVENT_UNKNOWN",
    "EVENT_NET_RX", "EVENT_NAPI_POLL", "EVENT_ETHERNET_RX", "EVENT_IRQ_ENTRY",
    "EVENT_SOFTIRQ_ENTRY", "EVENT_IP_RCV", "EVENT_NETFILTER_HOOK",
    "EVENT_ROUTE_LOOKUP", "EVENT_TCP_V4_RCV", "EVENT_TCP_STATE_MACHINE",
    "EVENT_TCP_DATA_QUEUE", "EVENT_SOCK_DEF_READABLE", "EVENT_SCHED_WAKEUP",
    "EVENT_SCHED_SWITCH",
    "EVENT_NGINX_HTTP_PARSE", "EVENT_NGINX_REVERSE_PROXY",
    "EVENT_NGINX_BACKEND_SOCKET", "EVENT_NGINX_RESPONSE_GEN",
    "EVENT_NGINX_RESPONSE_TX",
    "EVENT_ACCEPT4_ENTER", "EVENT_ACCEPT4_EXIT", "EVENT_RECVFROM_ENTER",
    "EVENT_RECVFROM_EXIT", "EVENT_SENDTO_ENTER", "EVENT_SENDTO_EXIT",
    "EVENT_TCP_SENDMSG", "EVENT_TCP_WRITE_XMIT", "EVENT_IP_OUTPUT",
    "EVENT_NET_DEV_QUEUE" }

(* The endpoints as the probes report them: saddr/sport is the local side. *)
Addr == [saddr : Hosts, sport : Ports, daddr : Hosts, dport : Ports]

NoAddr == [saddr |-> 0, sport |-> 0, daddr |-> 0, dport |-> 0]

Timestamp == 0 .. U64 - 1

Event == [event      : EventTypes,
          socket_ptr : Sockets \cup {NoSocket},
          timestamp  : Timestamp,
          addr       : Addr]

(* Unsigned subtraction of two timestamps: it wraps below zero. *)
Minus64(a, b) == (a - b) % U64

=============================================================================
