---------------------------- MODULE MC_Collector ----------------------------
(***************************************************************************)
(* Three sockets, a connection table of two slots, one timeline slot and a *)
(* queue of two events: each of the three limits is reached while the      *)
(* other components still have room; probes wrap around, and one socket    *)
(* finds the connection table full.  Port 9 is the server's; socket s1 is  *)
(* reused for a connection to port 8, which the filter does not track, and *)
(* a listening socket has neither a local address nor a peer.              *)
(***************************************************************************)
EXTENDS Collector

CONSTANTS s1, s2, s3

MCSockets == {s1, s2, s3}
MCHash == [s \in MCSockets |-> 1]
MCTimelineHash == [s \in MCSockets |-> 0]
MCHosts == {0, 1, 2}
MCPorts == {0, 7, 8, 9}

Addrs(p) == [saddr |-> 1, sport |-> p, daddr |-> 2, dport |-> 7]

Listening == [NoAddr EXCEPT !.sport = 9]

Ev(t, s, ts, a) == [event |-> t, socket_ptr |-> s, timestamp |-> ts, addr |-> a]

MCInputs ==
  {Ev("EVENT_TCP_V4_RCV", s, 0, Addrs(9)) : s \in {s1, s2}}
  \cup {Ev("EVENT_TCP_V4_RCV", s, 0, Addrs(8)) : s \in {s1, s3}}
  \cup {Ev("EVENT_TCP_DATA_QUEUE", s1, 1, Addrs(9))}
  \cup {Ev("EVENT_TCP_STATE_MACHINE", s2, 1, Listening)}
  \cup {Ev("EVENT_TCP_SENDMSG", s, 2, Addrs(9)) : s \in {s1, s2}}
  \cup {Ev("EVENT_ACCEPT4_EXIT", NoSocket, 0, NoAddr)}
=============================================================================
