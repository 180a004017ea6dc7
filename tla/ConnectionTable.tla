-------------------------- MODULE ConnectionTable --------------------------
(***************************************************************************)
(* collector/connection_table.c: one entry per socket pointer seen, with   *)
(* its endpoints, its latest event and a lifecycle state.  The only        *)
(* operation that changes it is connection_table_update, called once per   *)
(* event on the collector's only thread.                                   *)
(***************************************************************************)
EXTENDS SocketTable

CONSTANTS
  Inputs,
  MaxCount        \* bound: events counted per connection

ASSUME ConnAssumption ==
  /\ Inputs \subseteq Event
  /\ MaxCount \in Nat

VARIABLE table    \* the entries, occupied[] included

ctVars == table

(* CONN_STATE_CLOSED is declared too; no code ever sets it. *)
ConnStates == {"NEW", "ACCEPT", "ACTIVE", "CLOSED"}

ZeroEvent == [event |-> "EVENT_UNKNOWN", socket_ptr |-> NoSocket,
              timestamp |-> 0, addr |-> NoAddr]

ConnEntry == [occupied    : BOOLEAN,
              socket      : Sockets \cup {NoSocket},
              state       : ConnStates,
              first_seen  : Timestamp,
              addr        : Addr,
              last_event  : Event \cup {ZeroEvent},
              event_count : Nat]

(* memset(0) of an entry; CONN_STATE_NEW is 0. *)
ZeroEntry == [occupied |-> FALSE, socket |-> NoSocket, state |-> "NEW",
              first_seen |-> 0, addr |-> NoAddr, last_event |-> ZeroEvent,
              event_count |-> 0]

Holding(s) == {i \in Slots : table[i].occupied /\ table[i].socket = s}
Free == {i \in Slots : ~ table[i].occupied}

connection_table_find(s) == FirstProbed(s, Holding(s))
alloc_slot(s) == FirstProbed(s, Free)

(* Mutant: a slot is allocated without looking for the socket. *)
AllocatedSlot(s) == IF s = NoSocket THEN NoSlot ELSE alloc_slot(s)

(* The entry that an event updates: socket 0 and a full table have none. *)
UpdatedSlot(s) ==
  IF s = NoSocket THEN NoSlot
  ELSE IF connection_table_find(s) # NoSlot THEN connection_table_find(s)
  ELSE alloc_slot(s)

(* Mutant: the first event is counted twice. *)
NewCountedEntry(e) ==
  [ZeroEntry EXCEPT !.occupied = TRUE, !.socket = e.socket_ptr, !.event_count = 1,
                    !.first_seen = e.timestamp, !.addr = e.addr]

(* What alloc_slot and the initialisation after it put in a fresh slot. *)
NewEntry(e) ==
  [ZeroEntry EXCEPT !.occupied = TRUE, !.socket = e.socket_ptr,
                    !.first_seen = e.timestamp, !.addr = e.addr]

Activating == {"EVENT_TCP_DATA_QUEUE", "EVENT_SOCK_DEF_READABLE",
               "EVENT_RECVFROM_ENTER", "EVENT_SENDTO_ENTER", "EVENT_TCP_SENDMSG"}

(* The lifecycle: accept4 leads to ACCEPT from any state, data and sends   *)
(* to ACTIVE from NEW and ACCEPT.                                          *)
NextState(state, type) ==
  CASE type = "EVENT_ACCEPT4_EXIT" -> "ACCEPT"
    [] type \in Activating /\ state \in {"NEW", "ACCEPT"} -> "ACTIVE"
    [] OTHER -> state

(* Mutants: the counter runs down; the endpoints are never refreshed.      *)
TouchedDown(entry, e) ==
  [entry EXCEPT !.last_event = e, !.event_count = @ - 1,
                !.state = NextState(@, e.event)]

TouchedOldAddr(entry, e) ==
  [entry EXCEPT !.last_event = e, !.event_count = @ + 1,
                !.state = NextState(@, e.event)]

(* The update that every event makes, to a new entry as well. *)
Touched(entry, e) ==
  [entry EXCEPT !.last_event = e,
                !.event_count = @ + 1,
                !.addr = IF e.addr.saddr # 0 THEN e.addr ELSE @,
                !.state = NextState(@, e.event)]

-----------------------------------------------------------------------------
ConnInit == table = [i \in Slots |-> ZeroEntry]

connection_table_init == table' = [i \in Slots |-> ZeroEntry]

connection_table_update(e) ==
  LET i == UpdatedSlot(e.socket_ptr)
  IN  \/ /\ i = NoSlot
         /\ UNCHANGED table
      \/ /\ i # NoSlot
         /\ table' = [table EXCEPT ![i] =
                        Touched(IF @.occupied THEN @ ELSE NewEntry(e), e)]

ConnNext ==
  \/ \E e \in Inputs : /\ \A i \in Holding(e.socket_ptr) : table[i].event_count < MaxCount
                       /\ connection_table_update(e)
  \/ connection_table_init

ConnSpec == ConnInit /\ [][ConnNext]_ctVars

-----------------------------------------------------------------------------
(* Type invariant of the connection table.                                 *)
ConnTypeOK == table \in [Slots -> ConnEntry]

(* A socket pointer has at most one entry, however the probes collided,    *)
(* and a slot nobody claimed is still zero.                                *)
OneEntryPerSocket ==
  /\ \A i, j \in Slots :
       /\ table[i].occupied /\ table[j].occupied /\ table[i].socket = table[j].socket
       => i = j
  /\ \A i \in Slots : IF table[i].occupied THEN table[i].socket # NoSocket
                                           ELSE table[i] = ZeroEntry

(* The fields of an entry tell one story: its latest event is one of its   *)
(* own socket, with the endpoints of the entry whenever it carried any;    *)
(* one event means that it was the first one; and the state is the one     *)
(* that the latest event leads to.                                         *)
EntriesCoherent ==
  \A i \in Slots : table[i].occupied =>
    LET entry == table[i]  last == entry.last_event
    IN  /\ entry.event_count > 0
        /\ last.socket_ptr = entry.socket
        /\ last.addr.saddr # 0 => entry.addr = last.addr
        /\ entry.event_count = 1 => /\ entry.first_seen = last.timestamp
                                    /\ entry.addr = last.addr
        /\ entry.state # "CLOSED"
        /\ last.event \in Activating => entry.state = "ACTIVE"
        /\ last.event = "EVENT_ACCEPT4_EXIT" => entry.state = "ACCEPT"

(* An event counts for one connection, its own, and once: until the table  *)
(* is reset, a step changes at most one entry, by one event, never moves   *)
(* it to another socket and never rewrites when it was first seen.         *)
EventsCountOnce ==
  [][ \/ table' = [i \in Slots |-> ZeroEntry]
      \/ \E i \in Slots :
           /\ \A j \in Slots \ {i} : table'[j] = table[j]
           /\ table'[i].event_count = table[i].event_count + 1
           /\ table[i].occupied => /\ table'[i].socket = table[i].socket
                                   /\ table'[i].first_seen = table[i].first_seen ]_ctVars
=============================================================================
