---------------------------- MODULE MC_Timeline ----------------------------
(***************************************************************************)
(* Three sockets that hash to the two slots of a table of two: probes      *)
(* collide and wrap, and one socket finds no slot left.  Timestamps are    *)
(* those of a clock of three values and arrive out of order, so            *)
(* differences wrap.  Two requests are exported, metrics.json may fail     *)
(* to open, and the collector is restarted at any moment.                  *)
(***************************************************************************)
EXTENDS Timeline

CONSTANTS s1, s2, s3

MCSockets == {s1, s2, s3}
MCHash == [s \in MCSockets |-> IF s = s3 THEN 0 ELSE 1]
MCHosts == {0, 1, 2}
MCPorts == {0, 7, 9}

(* Server 1, port 9; client 2, port 7. *)
MCAddr == [saddr |-> 1, sport |-> 9, daddr |-> 2, dport |-> 7]

Ev(t, s, ts) == [event |-> t, socket_ptr |-> s, timestamp |-> ts, addr |-> MCAddr]

(* Responses may carry a timestamp that is behind; data is seen on one     *)
(* socket, the third one only finds the table full; two events have no     *)
(* socket.                                                                 *)
MCInputs ==
  {Ev("EVENT_TCP_V4_RCV", s, 2) : s \in MCSockets}
  \cup {Ev("EVENT_TCP_DATA_QUEUE", s1, ts) : ts \in {0, 2}}
  \cup {Ev("EVENT_TCP_SENDMSG", s1, 1), Ev("EVENT_TCP_SENDMSG", s2, 0)}
  \cup {Ev("EVENT_NET_RX", NoSocket, 0), Ev("EVENT_TCP_V4_RCV", NoSocket, 0)}

MCSomeFiles == {"metrics"}
=============================================================================
