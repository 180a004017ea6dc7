---------------------------- MODULE MC_Observer ----------------------------
(***************************************************************************)
(* One or two sockets of a server on port 9, whose peer is a client; the   *)
(* probes of the receive and transmit paths plus one without a socket.     *)
(***************************************************************************)
EXTENDS Observer, TLC

CONSTANTS s1, s2, c1, c2, t1, t2

MCSockets == {s1, s2}
MCOneSocket == {s1}
MCHash == [s \in Sockets |-> 0]
MCHosts == {0, 1, 2}
MCPorts == {0, 7, 9}
MCEndpoints == {[saddr |-> 1, sport |-> 9, daddr |-> 2, dport |-> 7]}
MCProbes == {"EVENT_TCP_V4_RCV", "EVENT_TCP_DATA_QUEUE", "EVENT_TCP_SENDMSG"}
MCShort == {"EVENT_TCP_V4_RCV", "EVENT_TCP_SENDMSG"}

(* What the theorem about ExportsAreExchanges takes for granted. *)
ASSUME UndisturbedInstance == Undisturbed

(* Sockets hash to one slot, so nothing tells them, or the CPUs, apart.    *)
MCSymmetry == Permutations(MCSockets) \cup Permutations({c1, c2}) \cup Permutations({t1, t2})
=============================================================================
