---------------------------- MODULE SocketTable ----------------------------
(***************************************************************************)
(* The open-addressing scheme that connection_table.c and timeline.c each  *)
(* implement: a socket pointer is hashed to a slot, and the slots are      *)
(* probed one after the other from there, cyclically, through the whole    *)
(* table.  Nothing is ever removed from either table, and a probe does not *)
(* stop at a free slot.                                                    *)
(***************************************************************************)
EXTENDS Events

CONSTANTS
  TABLE_SIZE,   \* CONN_TABLE_SIZE, TIMELINE_TABLE_SIZE
  Hash          \* hash_socket: any function, the xor and modulus do not matter

Slots == 0 .. TABLE_SIZE - 1

ASSUME TableSizeAssumption == TABLE_SIZE \in Nat \ {0}
ASSUME HashAssumption == Hash \in [Sockets -> Slots]

NoSlot == -1   \* NULL

(* How many probes after the first one slot i is reached for socket s.     *)
Distance(s, i) == IF i >= Hash[s] THEN i - Hash[s] ELSE i + TABLE_SIZE - Hash[s]

(* The slot where the do-while loop returns when it accepts the slots in   *)
(* Accepted, or NoSlot when it comes back to where it started.             *)
FirstProbed(s, Accepted) ==
  IF Accepted = {} THEN NoSlot
  ELSE CHOOSE i \in Accepted :
         \A j \in Accepted : Distance(s, i) <= Distance(s, j)
=============================================================================
