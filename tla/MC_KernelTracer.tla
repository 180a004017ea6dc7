-------------------------- MODULE MC_KernelTracer --------------------------
(***************************************************************************)
(* Two CPUs, three tasks, two sockets, one probe program of each kind, a   *)
(* ring buffer of two records and maps of one entry: records are lost, map *)
(* updates are refused, and a socket's address is reused once.             *)
(***************************************************************************)
EXTENDS KernelTracer, TLC

CONSTANTS s1, s2, c1, c2, t1, t2, t3

MCSockets == {s1, s2}
MCCPUs == {c1, c2}
MCTasks == {t1, t2, t3}
MCHosts == {0, 1, 2, 3}
MCPorts == {0, 7, 9}
MCEndpoints == {[saddr |-> 1, sport |-> 9, daddr |-> h, dport |-> 7] : h \in {2, 3}}
MCProbes == {"EVENT_NET_RX", "EVENT_NETFILTER_HOOK", "EVENT_TCP_V4_RCV",
             "EVENT_TCP_SENDMSG", "EVENT_NGINX_HTTP_PARSE"}

(* Sockets, CPUs and tasks are interchangeable: no definition names one. *)
MCSymmetry ==
  Permutations(MCSockets) \cup Permutations(MCCPUs) \cup Permutations(MCTasks)
=============================================================================
