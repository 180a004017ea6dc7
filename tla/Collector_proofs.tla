-------------------------- MODULE Collector_proofs --------------------------
(***************************************************************************)
(* The collector for every size of its tables, every hash function, every  *)
(* port filter and every sequence of events.  First the connection table   *)
(* of collector/connection_table.c, which keeps one coherent entry per     *)
(* socket; then the timelines, about which everything in Timeline_proofs   *)
(* carries over; then what relates the two: the callback of collector.c    *)
(* gives each event to both, and they never come to disagree about it.     *)
(***************************************************************************)
EXTENDS Collector, TLAPS

(* What Timeline_proofs shows, of the timelines that the collector keeps.   *)
TP == INSTANCE Timeline_proofs WITH TABLE_SIZE <- TIMELINE_TABLE_SIZE, Hash <- TimelineHash

(* The parameters of the collector are good ones for its timelines.        *)
LEMMA TimelineParameters ==
  /\ NoSocket \notin Sockets
  /\ 0 \in Hosts
  /\ 0 \in Ports
  /\ U64 \in Nat \ {0}
  /\ TIMELINE_TABLE_SIZE \in Nat \ {0}
  /\ TimelineHash \in [Sockets -> TP!Slots]
  /\ /\ TIMELINE_MAX_EVENTS \in Nat \ {0}
     /\ MIN_STEPS \in Nat \ {0}
     /\ HTTP_FLOW_PORT \in Ports
     /\ NS_PER_US \in Nat \ {0}
     /\ Faulty \subseteq TP!Files
     /\ Inputs \subseteq TP!Event
     /\ MaxRequests \in Nat
<1>1. TP!Event = Event /\ TP!Files = TL!Files
  BY DEF Event, TP!Event, EventTypes, TP!EventTypes, Timestamp, TP!Timestamp,
         Addr, TP!Addr, TP!Files, TL!Files
<1>. QED
  BY <1>1, CollectorAssumption, ConnAssumption, SocketsAssumption, HostsAssumption,
     PortsAssumption, U64Assumption DEF TP!Slots

-----------------------------------------------------------------------------
(* A probe through the connection table, as one through the timelines.     *)

(* Probing terminates with one of the accepted slots if there is any: the  *)
(* smallest distance exists, because distances are natural numbers.        *)
LEMMA ProbeFinds ==
  ASSUME NEW s \in Sockets, NEW Accepted \in SUBSET Slots, Accepted # {}
  PROVE  FirstProbed(s, Accepted) \in Accepted
<1>. DEFINE Distances == {Distance(s, i) : i \in Accepted}
<1>1. \A i \in Accepted : Distance(s, i) \in Nat
  BY TableSizeAssumption, HashAssumption DEF Distance, Slots
<1>2. Distances \in SUBSET Nat /\ Distances # {}
  BY <1>1
<1>3. PICK d \in Distances : \A x \in Distances : d <= x
  <2>. HIDE DEF Distances
  <2>. QED
    BY <1>2, TP!LeastElement, TimelineParameters
<1>4. PICK i \in Accepted : d = Distance(s, i)
  BY <1>3
<1>5. \A j \in Accepted : Distance(s, i) <= Distance(s, j)
  BY <1>3, <1>4
<1>. QED
  BY <1>5 DEF FirstProbed

(* What the callers of a probe rely on: a slot that is returned was        *)
(* acceptable, and NULL means that none was.                               *)
LEMMA ProbeResult ==
  ASSUME NEW s \in Sockets, NEW Accepted \in SUBSET Slots
  PROVE  /\ FirstProbed(s, Accepted) \in Accepted \cup {NoSlot}
         /\ FirstProbed(s, Accepted) = NoSlot <=> Accepted = {}
<1>1. NoSlot \notin Slots
  BY TableSizeAssumption DEF NoSlot, Slots
<1>2. CASE Accepted = {}
  BY <1>2 DEF FirstProbed
<1>3. CASE Accepted # {}
  BY <1>1, <1>3, ProbeFinds
<1>. QED
  BY <1>2, <1>3

-----------------------------------------------------------------------------
(* The inductive invariant.  The action property needs all of it: that an  *)
(* event is counted once from nothing takes free slots that are zero, and  *)
(* coherent entries take a probe that finds the one entry of the socket.   *)
ConnInv == ConnTypeOK /\ OneEntryPerSocket /\ EntriesCoherent

LEMMA ZeroesAreTyped == ZeroEvent \in Event /\ ZeroEntry \in ConnEntry
<1>1. NoAddr \in Addr
  BY HostsAssumption, PortsAssumption DEF NoAddr, Addr
<1>2. 0 \in Timestamp
  BY U64Assumption DEF Timestamp
<1>3. ZeroEvent \in Event
  BY <1>1, <1>2 DEF ZeroEvent, Event, EventTypes
<1>. QED
  BY <1>1, <1>2, <1>3 DEF ZeroEntry, ConnEntry, ConnStates

(* A table of zeroes is a good one, and what both initialisations make.    *)
LEMMA ZeroedTableInv ==
  ASSUME table = [i \in Slots |-> ZeroEntry]
  PROVE  ConnInv
<1>1. ~ ZeroEntry.occupied
  BY DEF ZeroEntry
<1>2. \A i \in Slots : table[i] = ZeroEntry
  OBVIOUS
<1>3. ConnTypeOK
  BY ZeroesAreTyped DEF ConnTypeOK
<1>4. OneEntryPerSocket
  BY <1>1, <1>2 DEF OneEntryPerSocket
<1>5. EntriesCoherent
  BY <1>1, <1>2 DEF EntriesCoherent
<1>. QED
  BY <1>3, <1>4, <1>5 DEF ConnInv

-----------------------------------------------------------------------------
(* The slot that an event updates is the one of its socket, or a free one  *)
(* if the socket has none.                                                 *)
LEMMA UpdatedSlotIs ==
  ASSUME NEW s \in Sockets \cup {NoSocket}, UpdatedSlot(s) # NoSlot
  PROVE  /\ s \in Sockets
         /\ UpdatedSlot(s) \in Slots
         /\ \/ UpdatedSlot(s) \in Holding(s)
            \/ UpdatedSlot(s) \in Free /\ Holding(s) = {}
<1>1. s \in Sockets
  BY DEF UpdatedSlot
<1>2. Holding(s) \in SUBSET Slots /\ Free \in SUBSET Slots
  BY DEF Holding, Free
<1>3. /\ connection_table_find(s) \in Holding(s) \cup {NoSlot}
      /\ connection_table_find(s) = NoSlot <=> Holding(s) = {}
  BY <1>1, <1>2, ProbeResult DEF connection_table_find
<1>4. alloc_slot(s) \in Free \cup {NoSlot}
  BY <1>1, <1>2, ProbeResult DEF alloc_slot
<1>5. UpdatedSlot(s) = IF connection_table_find(s) # NoSlot THEN connection_table_find(s)
                       ELSE alloc_slot(s)
  BY <1>1, SocketsAssumption DEF UpdatedSlot
<1>. QED
  BY <1>1, <1>2, <1>3, <1>4, <1>5

(* The entry before an event is counted in it, and what it is made to.     *)
Before(i, e) == IF table[i].occupied THEN table[i] ELSE NewEntry(e)

(* An update leaves the table alone, or changes the one slot above.        *)
LEMMA UpdateEffect ==
  ASSUME ConnTypeOK, NEW e \in Event, connection_table_update(e)
  PROVE  \/ UNCHANGED table
         \/ /\ e.socket_ptr \in Sockets
            /\ \E i \in Slots :
                 /\ \/ table[i].occupied /\ table[i].socket = e.socket_ptr
                    \/ ~ table[i].occupied /\ Holding(e.socket_ptr) = {}
                 /\ table'[i] = Touched(Before(i, e), e)
                 /\ \A j \in Slots \ {i} : table'[j] = table[j]
                 /\ DOMAIN table' = Slots
                 /\ table' = [k \in Slots |-> table'[k]]
<1>. DEFINE i == UpdatedSlot(e.socket_ptr)
<1>1. CASE i = NoSlot
  BY <1>1 DEF connection_table_update
<1>2. CASE i # NoSlot
  <2>1. e.socket_ptr \in Sockets \cup {NoSocket}
    BY DEF Event
  <2>2. /\ e.socket_ptr \in Sockets
        /\ i \in Slots
        /\ i \in Holding(e.socket_ptr) \/ (i \in Free /\ Holding(e.socket_ptr) = {})
    BY <1>2, <2>1, UpdatedSlotIs
  <2>3. table' = [table EXCEPT ![i] = Touched(Before(i, e), e)]
    BY <1>2 DEF connection_table_update, Before
  <2>. HIDE DEF i
  <2>4. /\ table'[i] = Touched(Before(i, e), e)
        /\ \A j \in Slots \ {i} : table'[j] = table[j]
        /\ DOMAIN table' = Slots
        /\ table' = [k \in Slots |-> table'[k]]
    BY <2>2, <2>3 DEF ConnTypeOK
  <2>. QED
    BY <2>2, <2>4 DEF Holding, Free
<1>. QED
  BY <1>1, <1>2

(* What an updated entry holds, field by field.                            *)
LEMMA TouchedFields ==
  ASSUME ConnTypeOK, NEW i \in Slots, NEW e \in Event, e.socket_ptr \in Sockets,
         table[i].occupied => table[i].socket = e.socket_ptr
  PROVE  LET new == Touched(Before(i, e), e)
         IN  /\ new \in ConnEntry
             /\ new.occupied
             /\ new.socket = e.socket_ptr
             /\ new.last_event = e
             /\ new.event_count = IF table[i].occupied THEN table[i].event_count + 1 ELSE 1
             /\ new.first_seen = IF table[i].occupied THEN table[i].first_seen
                                 ELSE e.timestamp
             /\ e.addr.saddr # 0 \/ ~ table[i].occupied => new.addr = e.addr
             /\ new.state = NextState(IF table[i].occupied THEN table[i].state ELSE "NEW",
                                      e.event)
<1>. DEFINE b == Before(i, e)
            new == Touched(b, e)
<1>1. /\ e.socket_ptr \in Sockets /\ e.timestamp \in Timestamp /\ e.addr \in Addr
      /\ e.event \in EventTypes
  BY DEF Event
<1>2. /\ NewEntry(e) \in ConnEntry
      /\ NewEntry(e).occupied /\ NewEntry(e).socket = e.socket_ptr
      /\ NewEntry(e).event_count = 0 /\ NewEntry(e).state = "NEW"
      /\ NewEntry(e).first_seen = e.timestamp /\ NewEntry(e).addr = e.addr
  BY <1>1, ZeroesAreTyped DEF NewEntry, ZeroEntry, ConnEntry
<1>3. /\ b \in ConnEntry
      /\ b.occupied /\ b.socket = e.socket_ptr
      /\ b.event_count = IF table[i].occupied THEN table[i].event_count ELSE 0
      /\ b.state = IF table[i].occupied THEN table[i].state ELSE "NEW"
      /\ b.first_seen = IF table[i].occupied THEN table[i].first_seen ELSE e.timestamp
      /\ ~ table[i].occupied => b.addr = e.addr
  BY <1>2 DEF Before, ConnTypeOK
<1>. HIDE DEF b
<1>4. NextState(b.state, e.event) \in ConnStates
  BY <1>3 DEF NextState, ConnEntry, ConnStates
<1>5. b.event_count \in Nat
  BY <1>3 DEF ConnEntry
<1>6. new = [occupied |-> b.occupied, socket |-> b.socket,
             state |-> NextState(b.state, e.event), first_seen |-> b.first_seen,
             addr |-> IF e.addr.saddr # 0 THEN e.addr ELSE b.addr,
             last_event |-> e, event_count |-> b.event_count + 1]
  <2>1. b = [occupied |-> b.occupied, socket |-> b.socket, state |-> b.state,
             first_seen |-> b.first_seen, addr |-> b.addr,
             last_event |-> b.last_event, event_count |-> b.event_count]
    BY <1>3 DEF ConnEntry
  <2>2. new = [b EXCEPT !.last_event = e, !.event_count = b.event_count + 1,
                        !.addr = IF e.addr.saddr # 0 THEN e.addr ELSE b.addr,
                        !.state = NextState(b.state, e.event)]
    BY DEF Touched
  <2>. QED
    BY <2>1, <2>2
<1>. HIDE DEF new
<1>7. new \in ConnEntry
  BY <1>1, <1>3, <1>4, <1>5, <1>6 DEF ConnEntry
<1>8. /\ new.occupied /\ new.socket = e.socket_ptr /\ new.last_event = e
      /\ new.event_count = IF table[i].occupied THEN table[i].event_count + 1 ELSE 1
      /\ new.first_seen = IF table[i].occupied THEN table[i].first_seen ELSE e.timestamp
      /\ e.addr.saddr # 0 \/ ~ table[i].occupied => new.addr = e.addr
      /\ new.state = NextState(IF table[i].occupied THEN table[i].state ELSE "NEW", e.event)
  BY <1>3, <1>5, <1>6
<1>. QED
  BY <1>7, <1>8 DEF new, b

(* After accept4 and after data the state is the one they lead to; no      *)
(* event leads to CLOSED, or out of it.                                    *)
LEMMA NextStateFacts ==
  ASSUME NEW state \in ConnStates, NEW type \in EventTypes
  PROVE  /\ state # "CLOSED" => NextState(state, type) # "CLOSED"
         /\ type = "EVENT_ACCEPT4_EXIT" => NextState(state, type) = "ACCEPT"
         /\ type \in Activating /\ state # "CLOSED" => NextState(state, type) = "ACTIVE"
  BY DEF NextState, ConnStates, Activating

-----------------------------------------------------------------------------
(* An update keeps the invariant.                                          *)
LEMMA UpdateInv ==
  ASSUME ConnInv, NEW e \in Event, connection_table_update(e)
  PROVE  ConnInv'
<1>. USE DEF ConnInv
<1>1. CASE UNCHANGED table
  BY <1>1 DEF ConnTypeOK, OneEntryPerSocket, EntriesCoherent
<1>2. CASE ~ UNCHANGED table
  <2>1. e.socket_ptr \in Sockets
    BY <1>2, UpdateEffect
  <2>2. PICK i \in Slots :
          /\ \/ table[i].occupied /\ table[i].socket = e.socket_ptr
             \/ ~ table[i].occupied /\ Holding(e.socket_ptr) = {}
          /\ table'[i] = Touched(Before(i, e), e)
          /\ \A j \in Slots \ {i} : table'[j] = table[j]
          /\ table' = [k \in Slots |-> table'[k]]
    BY <1>2, UpdateEffect
  <2>3. /\ table'[i] \in ConnEntry
        /\ table'[i].occupied
        /\ table'[i].socket = e.socket_ptr
        /\ table'[i].last_event = e
        /\ table'[i].event_count = IF table[i].occupied THEN table[i].event_count + 1 ELSE 1
        /\ table'[i].first_seen = IF table[i].occupied THEN table[i].first_seen
                                  ELSE e.timestamp
        /\ e.addr.saddr # 0 \/ ~ table[i].occupied => table'[i].addr = e.addr
        /\ table'[i].state = NextState(IF table[i].occupied THEN table[i].state ELSE "NEW",
                                       e.event)
    BY <2>1, <2>2, TouchedFields
  <2>4. ConnTypeOK'
    BY <2>2, <2>3 DEF ConnTypeOK
  <2>5. OneEntryPerSocket'
    <3>1. \A j \in Slots \ {i} : ~ (table[j].occupied /\ table[j].socket = e.socket_ptr)
      BY <2>2 DEF OneEntryPerSocket, Holding
    <3>2. e.socket_ptr # NoSocket
      BY <2>1, SocketsAssumption
    <3>. QED
      BY <2>2, <2>3, <3>1, <3>2 DEF OneEntryPerSocket
  <2>6. EntriesCoherent'
    <3>. SUFFICES ASSUME NEW j \in Slots, table'[j].occupied
                  PROVE  LET entry == table'[j]  last == entry.last_event
                         IN  /\ entry.event_count > 0
                             /\ last.socket_ptr = entry.socket
                             /\ last.addr.saddr # 0 => entry.addr = last.addr
                             /\ entry.event_count = 1 => /\ entry.first_seen = last.timestamp
                                                         /\ entry.addr = last.addr
                             /\ entry.state # "CLOSED"
                             /\ last.event \in Activating => entry.state = "ACTIVE"
                             /\ last.event = "EVENT_ACCEPT4_EXIT" => entry.state = "ACCEPT"
      BY DEF EntriesCoherent
    <3>1. CASE j # i
      BY <2>2, <3>1 DEF EntriesCoherent
    <3>2. CASE j = i
      <4>. DEFINE was == IF table[i].occupied THEN table[i].state ELSE "NEW"
      <4>1. was \in ConnStates /\ was # "CLOSED" /\ e.event \in EventTypes
        BY DEF EntriesCoherent, ConnTypeOK, ConnEntry, ConnStates, Event
      <4>2. table[i].occupied => table[i].event_count \in Nat /\ table[i].event_count > 0
        BY DEF EntriesCoherent, ConnTypeOK, ConnEntry
      <4>3. table'[i].state = NextState(was, e.event)
        BY <2>3
      <4>. HIDE DEF was
      <4>4. /\ table'[i].state # "CLOSED"
            /\ e.event \in Activating => table'[i].state = "ACTIVE"
            /\ e.event = "EVENT_ACCEPT4_EXIT" => table'[i].state = "ACCEPT"
        BY <4>1, <4>3, NextStateFacts
      <4>5. table'[i].event_count > 0
        BY <2>3, <4>2
      <4>6. table'[i].event_count = 1 => ~ table[i].occupied
        BY <2>3, <4>2
      <4>. QED
        BY <2>3, <3>2, <4>4, <4>5, <4>6
    <3>. QED
      BY <3>1, <3>2
  <2>. QED
    BY <2>4, <2>5, <2>6
<1>. QED
  BY <1>1, <1>2

(* What the action property says of an update.                             *)
LEMMA UpdateCountsOnce ==
  ASSUME ConnInv, NEW e \in Event, connection_table_update(e), ~ UNCHANGED table
  PROVE  \E i \in Slots :
           /\ \A j \in Slots \ {i} : table'[j] = table[j]
           /\ table'[i].event_count = table[i].event_count + 1
           /\ table[i].occupied => /\ table'[i].socket = table[i].socket
                                   /\ table'[i].first_seen = table[i].first_seen
<1>1. e.socket_ptr \in Sockets /\ ConnTypeOK /\ OneEntryPerSocket
  BY UpdateEffect DEF ConnInv
<1>2. PICK i \in Slots :
        /\ \/ table[i].occupied /\ table[i].socket = e.socket_ptr
           \/ ~ table[i].occupied /\ Holding(e.socket_ptr) = {}
        /\ table'[i] = Touched(Before(i, e), e)
        /\ \A j \in Slots \ {i} : table'[j] = table[j]
  BY <1>1, UpdateEffect
<1>3. /\ table'[i].socket = e.socket_ptr
      /\ table'[i].event_count = IF table[i].occupied THEN table[i].event_count + 1 ELSE 1
      /\ table'[i].first_seen = IF table[i].occupied THEN table[i].first_seen
                                ELSE e.timestamp
  BY <1>1, <1>2, TouchedFields
<1>4. ~ table[i].occupied => table[i].event_count = 0
  BY <1>1 DEF OneEntryPerSocket, ZeroEntry
<1>. QED
  BY <1>2, <1>3, <1>4

-----------------------------------------------------------------------------
(* A step of the collector is, for the connection table, an update with    *)
(* the event it handles, or the initialisation.                            *)
LEMMA CollectorUpdates ==
  ASSUME [CollectorNext]_collectorVars
  PROVE  \/ \E e \in Inputs : connection_table_update(e)
         \/ connection_table_init
         \/ UNCHANGED table
  BY DEF CollectorNext, collector_handle_event, collector_run, collectorVars

LEMMA StepInv ==
  ASSUME ConnInv,
         \/ \E e \in Inputs : connection_table_update(e)
         \/ connection_table_init
         \/ UNCHANGED table
  PROVE  ConnInv'
<1>1. ASSUME NEW e \in Inputs, connection_table_update(e) PROVE ConnInv'
  BY <1>1, UpdateInv, ConnAssumption
<1>2. CASE connection_table_init
  <2>1. \A i \in Slots : table'[i] = ZeroEntry
    BY <1>2 DEF connection_table_init
  <2>2. ~ ZeroEntry.occupied
    BY DEF ZeroEntry
  <2>3. ConnTypeOK'
    BY <1>2, ZeroesAreTyped DEF connection_table_init, ConnTypeOK
  <2>4. OneEntryPerSocket' /\ EntriesCoherent'
    BY <2>1, <2>2 DEF OneEntryPerSocket, EntriesCoherent
  <2>. QED
    BY <2>3, <2>4 DEF ConnInv
<1>3. CASE UNCHANGED table
  BY <1>3 DEF ConnInv, ConnTypeOK, OneEntryPerSocket, EntriesCoherent
<1>. QED
  BY <1>1, <1>2, <1>3

LEMMA StepCountsOnce ==
  ASSUME ConnInv,
         \/ \E e \in Inputs : connection_table_update(e)
         \/ connection_table_init
         \/ UNCHANGED table
  PROVE  [ \/ table' = [i \in Slots |-> ZeroEntry]
           \/ \E i \in Slots :
                /\ \A j \in Slots \ {i} : table'[j] = table[j]
                /\ table'[i].event_count = table[i].event_count + 1
                /\ table[i].occupied => /\ table'[i].socket = table[i].socket
                                        /\ table'[i].first_seen = table[i].first_seen ]_ctVars
<1>1. ASSUME NEW e \in Inputs, connection_table_update(e), ~ UNCHANGED table
      PROVE  \E i \in Slots :
                /\ \A j \in Slots \ {i} : table'[j] = table[j]
                /\ table'[i].event_count = table[i].event_count + 1
                /\ table[i].occupied => /\ table'[i].socket = table[i].socket
                                        /\ table'[i].first_seen = table[i].first_seen
  BY <1>1, UpdateCountsOnce, ConnAssumption
<1>. QED
  BY <1>1 DEF connection_table_init, ctVars

(* Whatever the callback is given and however often it is restarted, the   *)
(* connection table satisfies its inductive invariant.                     *)
THEOREM CollectorConnInv == CollectorSpec => []ConnInv
<1>1. CollectorInit => ConnInv
  BY ZeroedTableInv DEF CollectorInit, ConnInit
<1>2. ConnInv /\ [CollectorNext]_collectorVars => ConnInv'
  BY CollectorUpdates, StepInv
<1>. QED
  BY <1>1, <1>2, PTL DEF CollectorSpec

(* Every entry keeps its type; its counter is never negative.              *)
THEOREM ConnTypeCorrect == CollectorSpec => []ConnTypeOK
<1>1. ConnInv => ConnTypeOK
  BY DEF ConnInv
<1>. QED
  BY <1>1, CollectorConnInv, PTL

(* connection_table.c: probing never gives a socket pointer a second       *)
(* entry, for every table size and hash function.                          *)
THEOREM OneConnectionPerSocket == CollectorSpec => []OneEntryPerSocket
<1>1. ConnInv => OneEntryPerSocket
  BY DEF ConnInv
<1>. QED
  BY <1>1, CollectorConnInv, PTL

(* connection_table_update: latest event, endpoints, first sighting and    *)
(* lifecycle state of an entry always belong together.                     *)
THEOREM ConnectionsAreCoherent == CollectorSpec => []EntriesCoherent
<1>1. ConnInv => EntriesCoherent
  BY DEF ConnInv
<1>. QED
  BY <1>1, CollectorConnInv, PTL

(* collector_handle_event: every event counts for one connection and once. *)
THEOREM ConnectionEventsCountOnce == CollectorSpec => EventsCountOnce
<1>1. ConnInv /\ [CollectorNext]_collectorVars =>
        [ \/ table' = [i \in Slots |-> ZeroEntry]
          \/ \E i \in Slots :
               /\ \A j \in Slots \ {i} : table'[j] = table[j]
               /\ table'[i].event_count = table[i].event_count + 1
               /\ table[i].occupied => /\ table'[i].socket = table[i].socket
                                       /\ table'[i].first_seen = table[i].first_seen ]_ctVars
  BY CollectorUpdates, StepCountsOnce
<1>. QED
  BY <1>1, CollectorConnInv, PTL DEF CollectorSpec, EventsCountOnce
-----------------------------------------------------------------------------
(***************************************************************************)
(* The timelines, as a part of the collector: the same callback feeds both *)
(* tables, and what module Timeline_proofs shows of the one holds here.    *)
(***************************************************************************)
(* The operations of the two instances are the same ones.                  *)
LEMMA SameEvents == TP!Event = Event
  BY DEF Event, TP!Event, EventTypes, TP!EventTypes, Timestamp, TP!Timestamp, Addr, TP!Addr

LEMMA SameSlots == TP!Slots = TL!Slots
  BY DEF TP!Slots, TL!Slots

LEMMA SameStart ==
  ASSUME NEW e
  PROVE  TL!timeline_start(e) <=> TP!timeline_start(e)
  BY Zenon DEF TL!timeline_start, TP!timeline_start, TL!StartSlot, TP!StartSlot,
     TL!find_or_create, TP!find_or_create, TL!timeline_find, TP!timeline_find,
     TL!Holding, TP!Holding, TL!Free, TP!Free, TL!FirstProbed, TP!FirstProbed,
     TL!Distance, TP!Distance, TL!NoSlot, TP!NoSlot, TL!Slots, TP!Slots,
     TL!append, TP!append, TL!Minus64, TP!Minus64, TL!tlVars, TP!tlVars,
     TL!files, TP!files

LEMMA SameAdd ==
  ASSUME NEW e
  PROVE  TL!timeline_add_event(e) <=> TP!timeline_add_event(e)
  BY Zenon DEF TL!timeline_add_event, TP!timeline_add_event, TL!ActiveSlot, TP!ActiveSlot,
     TL!timeline_find, TP!timeline_find,
     TL!Holding, TP!Holding, TL!FirstProbed, TP!FirstProbed,
     TL!Distance, TP!Distance, TL!NoSlot, TP!NoSlot, TL!Slots, TP!Slots,
     TL!append, TP!append, TL!Minus64, TP!Minus64, TL!tlVars, TP!tlVars,
     TL!files, TP!files

LEMMA SameFinish ==
  ASSUME NEW e
  PROVE  TL!timeline_finish(e) <=> TP!timeline_finish(e)
  BY ZenonT(60) DEF TL!timeline_finish, TP!timeline_finish, TL!ActiveSlot, TP!ActiveSlot,
     TL!timeline_find, TP!timeline_find, TL!Closed, TP!Closed, TL!export, TP!export,
     TL!update_metrics, TP!update_metrics, TL!timeline_total_ns, TP!timeline_total_ns,
     TL!KernelRequest, TP!KernelRequest, TL!JournalRecord, TP!JournalRecord,
     TL!FlameStack, TP!FlameStack, TL!Arrows, TP!Arrows, TL!Weight, TP!Weight,
     TL!Client, TP!Client, TL!Server, TP!Server, TL!Swapped, TP!Swapped,
     TL!Local, TP!Local, TL!Peer, TP!Peer, TL!AppPort, TP!AppPort,
     TL!seq_actor, TP!seq_actor,
     TL!Holding, TP!Holding, TL!FirstProbed, TP!FirstProbed,
     TL!Distance, TP!Distance, TL!NoSlot, TP!NoSlot, TL!Slots, TP!Slots,
     TL!append, TP!append, TL!Minus64, TP!Minus64, TL!tlVars, TP!tlVars,
     TL!files, TP!files

LEMMA SameInit ==
  /\ TL!timeline_init <=> TP!timeline_init
  /\ TL!TimelineInit <=> TP!TimelineInit
  BY Zenon DEF TL!timeline_init, TP!timeline_init, TL!TimelineInit, TP!TimelineInit,
     TL!FreeSlot, TP!FreeSlot, TL!ZeroMetrics, TP!ZeroMetrics, TL!Slots, TP!Slots

(* A step of the collector is a step of the timelines, or none.            *)
LEMMA TimelineSteps ==
  ASSUME [CollectorNext]_collectorVars
  PROVE  [TP!TimelineNext]_(TP!tlVars)
<1>1. timelineVars' = timelineVars => UNCHANGED TP!tlVars
  BY DEF timelineVars, TP!tlVars, TP!files
<1>2. ASSUME NEW e \in Inputs, metrics.request_count < MaxRequests, Dispatch(e)
      PROVE  [TP!TimelineNext]_(TP!tlVars)
  BY <1>1, <1>2, SameStart, SameAdd, SameFinish DEF Dispatch, TP!TimelineNext
<1>3. CASE collector_run
  BY <1>3, SameInit DEF collector_run, TP!TimelineNext
<1>4. CASE UNCHANGED collectorVars
  BY <1>1, <1>4 DEF collectorVars
<1>. QED
  BY <1>2, <1>3, <1>4 DEF CollectorNext, collector_handle_event

(* What holds of the timelines whoever calls them holds in the collector.  *)
TimelinesInv == TP!TableInv /\ TP!FilesInv /\ TP!JournalInv

LEMMA TimelinesInductive ==
  /\ CollectorInit => TimelinesInv
  /\ TimelinesInv /\ [CollectorNext]_collectorVars => TimelinesInv'
<1>1. CollectorInit => TimelinesInv
  BY SameInit, TP!TableInvInductive, TP!FilesInvInductive, TimelineParameters
     DEF CollectorInit, TimelinesInv
<1>2. ASSUME TimelinesInv, [CollectorNext]_collectorVars PROVE TimelinesInv'
  <2>1. [TP!TimelineNext]_(TP!tlVars)
    BY <1>2, TimelineSteps
  <2>. QED
    BY <1>2, <2>1, TP!TableInvInductive, TP!FilesInvInductive, TimelineParameters
       DEF TimelinesInv
<1>. QED
  BY <1>1, <1>2
(* The collector records exactly as module Timeline says, so every theorem *)
(* about TimelineSpec is one about the collector.                          *)
THEOREM CollectorRecords == CollectorSpec => TL!TimelineSpec
<1>1. CollectorInit => TL!TimelineInit
  BY DEF CollectorInit
<1>2. [CollectorNext]_collectorVars => [TL!TimelineNext]_(TL!tlVars)
  <2>1. [CollectorNext]_collectorVars => [TP!TimelineNext]_(TP!tlVars)
    BY TimelineSteps
  <2>2. TP!TimelineNext <=> TL!TimelineNext
    BY SameStart, SameAdd, SameFinish, SameInit DEF TP!TimelineNext, TL!TimelineNext
  <2>3. TP!tlVars = TL!tlVars /\ (UNCHANGED TP!tlVars => UNCHANGED TL!tlVars)
    BY DEF TP!tlVars, TL!tlVars, TP!files, TL!files
  <2>. QED
    BY <2>1, <2>2, <2>3
<1>. QED
  BY <1>1, <1>2, PTL DEF CollectorSpec, TL!TimelineSpec

(* Every record that the collector writes to requests.jsonl is one request *)
(* of one socket, from its first segment to its response.                  *)
THEOREM CollectorExports == CollectorSpec => []TL!ExportWellFormed
<1>1. TimelinesInv => TL!ExportWellFormed
  <2>1. TP!JournalInv => TP!ExportWellFormed
    BY Zenon DEF TP!JournalInv, TP!GoodExport, TP!ExportWellFormed
  <2>. QED
    BY <2>1 DEF TimelinesInv, TP!ExportWellFormed, TL!ExportWellFormed
<1>. QED
  BY <1>1, TimelinesInductive, PTL DEF CollectorSpec
-----------------------------------------------------------------------------
(* What one event does to the timelines, for the callback that composes    *)
(* them with the connection table.                                         *)

(* The slot of socket s is i after the event, and no other has changed.    *)
Takes(i, s) ==
  /\ timelines'[i].occupied /\ timelines'[i].socket = s
  /\ \A j \in TL!Slots \ {i} : timelines'[j] = timelines[j]

(* Slot i is recording for socket s, with room for its events.             *)
RecordsFor(i, s) ==
  /\ timelines[i].occupied /\ timelines[i].socket = s /\ timelines[i].active
  /\ Len(timelines[i].entries) \in 1 .. TIMELINE_MAX_EVENTS

(* The four outcomes: the event is not recorded, a recording opens with    *)
(* it, is extended by it, or ends.                                         *)
Ignored(e) ==
  /\ UNCHANGED <<timelines, requests_jsonl>>
  /\ \/ e.event = "EVENT_TCP_V4_RCV" /\ ~ Tracked(e)
     \/ \A i \in TL!Slots : timelines[i].occupied /\ timelines[i].socket = e.socket_ptr
                            => ~ timelines[i].active

Opens(i, e) ==
  /\ e.event = "EVENT_TCP_V4_RCV" /\ Tracked(e)
  /\ Takes(i, e.socket_ptr)
  /\ Len(timelines'[i].entries) = 1
  /\ timelines'[i].entries[1].e = e
  /\ UNCHANGED requests_jsonl

Extends(i, e) ==
  LET es == timelines[i].entries  new == timelines'[i].entries
  IN  /\ Takes(i, e.socket_ptr) /\ RecordsFor(i, e.socket_ptr)
      /\ new[1] = es[1]
      /\ \/ Len(es) = TIMELINE_MAX_EVENTS /\ Len(new) = Len(es)
         \/ Len(new) = Len(es) + 1 /\ new[Len(new)].e = e
      /\ UNCHANGED requests_jsonl

Ends(i, e) ==
  /\ Takes(i, e.socket_ptr) /\ RecordsFor(i, e.socket_ptr)
  /\ ~ timelines'[i].active
  /\ Len(timelines'[i].entries) = 0
  /\ \/ UNCHANGED requests_jsonl
     \/ \E r : /\ requests_jsonl' = Append(requests_jsonl, r)
               /\ r.timeline[1] = timelines[i].entries[1]

(* append() leaves the first event of a recording alone.                   *)
LEMMA AppendedRecording ==
  ASSUME NEW es \in Seq(TP!Entry), NEW e \in Event, Len(es) \in 1 .. TIMELINE_MAX_EVENTS
  PROVE  LET new == TP!append(es, e)
         IN  /\ new[1] = es[1]
             /\ \/ Len(es) = TIMELINE_MAX_EVENTS /\ Len(new) = Len(es)
                \/ Len(new) = Len(es) + 1 /\ new[Len(new)].e = e
<1>1. e \in TP!Event
  BY SameEvents
<1>2. LET new == TP!append(es, e)
      IN  /\ \A k \in 1 .. Len(es) : new[k] = es[k]
          /\ \/ Len(es) >= TIMELINE_MAX_EVENTS /\ new = es
             \/ Len(new) = Len(es) + 1 /\ new[Len(new)].e = e
  BY <1>1, TP!AppendEffect, TimelineParameters
<1>3. 1 \in 1 .. Len(es) /\ TIMELINE_MAX_EVENTS \in Nat
  BY TimelineParameters
<1>. QED
  BY <1>2, <1>3

LEMMA DispatchEffect ==
  ASSUME TP!TableInv, NEW e \in Event, Dispatch(e)
  PROVE  \/ Ignored(e)
         \/ /\ e.socket_ptr \in Sockets
            /\ \E i \in TL!Slots : Opens(i, e) \/ Extends(i, e) \/ Ends(i, e)
<1>. DEFINE s == e.socket_ptr
<1>0. e \in TP!Event
  BY SameEvents
<1>1. CASE e.event = "EVENT_TCP_V4_RCV" /\ Tracked(e) /\ TL!timeline_start(e)
  <2>1. /\ UNCHANGED requests_jsonl
        /\ \/ /\ UNCHANGED timelines
              /\ \A i \in TP!Slots : timelines[i].occupied => timelines[i].socket # s
           \/ /\ s \in Sockets
              /\ \E i \in TP!Slots : /\ TP!GoesTo(i, s)
                                     /\ Len(timelines'[i].entries) = 1
                                     /\ timelines'[i].entries[1].e = e
    BY <1>0, <1>1, SameStart, TP!StartEffect, TimelineParameters
  <2>. QED
    BY <1>1, <2>1, SameSlots DEF Ignored, Opens, Takes, TP!GoesTo
<1>2. CASE e.event = "EVENT_TCP_V4_RCV" /\ ~ Tracked(e) /\ UNCHANGED timelineVars
  BY <1>2 DEF Ignored, timelineVars
<1>3. CASE TL!timeline_add_event(e)
  <2>1. /\ UNCHANGED requests_jsonl
        /\ \/ /\ UNCHANGED timelines
              /\ \A i \in TP!Slots : timelines[i].occupied /\ timelines[i].socket = s
                                     => ~ timelines[i].active
           \/ /\ s \in Sockets
              /\ \E i \in TP!Slots :
                   /\ TP!GoesTo(i, s)
                   /\ timelines[i].occupied /\ timelines[i].socket = s
                   /\ timelines[i].active /\ TP!RecordingOf(timelines[i])
                   /\ timelines[i].entries \in Seq(TP!Entry)
                   /\ timelines'[i].entries = TP!append(timelines[i].entries, e)
    BY <1>0, <1>3, SameAdd, TP!AddEffect, TimelineParameters
  <2>2. ASSUME NEW i \in TP!Slots,
               TP!GoesTo(i, s),
               timelines[i].occupied, timelines[i].socket = s,
               timelines[i].active, TP!RecordingOf(timelines[i]),
               timelines[i].entries \in Seq(TP!Entry),
               timelines'[i].entries = TP!append(timelines[i].entries, e)
        PROVE  Extends(i, e)
    <3>1. Len(timelines[i].entries) \in 1 .. TIMELINE_MAX_EVENTS
      BY <2>2 DEF TP!RecordingOf
    <3>2. LET es == timelines[i].entries  new == timelines'[i].entries
          IN  /\ new[1] = es[1]
              /\ \/ Len(es) = TIMELINE_MAX_EVENTS /\ Len(new) = Len(es)
                 \/ Len(new) = Len(es) + 1 /\ new[Len(new)].e = e
      BY <2>2, <3>1, AppendedRecording
    <3>3. Takes(i, s) /\ RecordsFor(i, s)
      BY <2>2, <3>1, SameSlots DEF Takes, RecordsFor, TP!GoesTo
    <3>. QED
      BY <2>1, <3>2, <3>3 DEF Extends
  <2>. QED
    BY <2>1, <2>2, SameSlots DEF Ignored
<1>4. CASE TL!timeline_finish(e)
  <2>1. \/ /\ UNCHANGED <<timelines, requests_jsonl>>
           /\ \A i \in TP!Slots : timelines[i].occupied /\ timelines[i].socket = s
                                  => ~ timelines[i].active
        \/ /\ s \in Sockets
           /\ \E i \in TP!Slots :
                /\ TP!GoesTo(i, s)
                /\ timelines[i].occupied /\ timelines[i].socket = s
                /\ timelines[i].active /\ TP!RecordingOf(timelines[i])
                /\ timelines[i].entries \in Seq(TP!Entry)
                /\ ~ timelines'[i].active /\ timelines'[i].entries = <<>>
                /\ \/ UNCHANGED requests_jsonl
                   \/ requests_jsonl' =
                        Append(requests_jsonl,
                               TP!JournalRecord(s, TP!append(timelines[i].entries, e)))
    BY <1>0, <1>4, SameFinish, TP!FinishEffect, TimelineParameters
  <2>2. ASSUME NEW i \in TP!Slots,
               TP!GoesTo(i, s),
               timelines[i].occupied, timelines[i].socket = s,
               timelines[i].active, TP!RecordingOf(timelines[i]),
               timelines[i].entries \in Seq(TP!Entry),
               ~ timelines'[i].active, timelines'[i].entries = <<>>,
               \/ UNCHANGED requests_jsonl
               \/ requests_jsonl' =
                    Append(requests_jsonl,
                           TP!JournalRecord(s, TP!append(timelines[i].entries, e)))
        PROVE  Ends(i, e)
    <3>. DEFINE r == TP!JournalRecord(s, TP!append(timelines[i].entries, e))
    <3>1. Len(timelines[i].entries) \in 1 .. TIMELINE_MAX_EVENTS
      BY <2>2 DEF TP!RecordingOf
    <3>2. r.timeline[1] = timelines[i].entries[1]
      BY <2>2, <3>1, AppendedRecording DEF TP!JournalRecord
    <3>3. Takes(i, s) /\ RecordsFor(i, s)
      BY <2>2, <3>1, SameSlots DEF Takes, RecordsFor, TP!GoesTo
    <3>. HIDE DEF r
    <3>4. \/ UNCHANGED requests_jsonl
          \/ \E q : /\ requests_jsonl' = Append(requests_jsonl, q)
                    /\ q.timeline[1] = timelines[i].entries[1]
      BY <2>2, <3>2 DEF r
    <3>5. Len(timelines'[i].entries) = 0
      BY <2>2
    <3>. QED
      BY <2>2, <3>3, <3>4, <3>5 DEF Ends
  <2>. QED
    BY <2>1, <2>2, SameSlots DEF Ignored
<1>. QED
  BY <1>1, <1>2, <1>3, <1>4 DEF Dispatch
-----------------------------------------------------------------------------
(* The two tables together.                                                *)

(* No connection entry is that of socket s; slot c counts an event of its  *)
(* socket, or is claimed by the first one of a socket without an entry.    *)
Unconnected(s) == \A c \in Slots : ~ (table[c].occupied /\ table[c].socket = s)

Counts(c, e) ==
  /\ table'[c].occupied /\ table'[c].socket = e.socket_ptr /\ table'[c].last_event = e
  /\ \A d \in Slots \ {c} : table'[d] = table[d]
  /\ \/ /\ table[c].occupied /\ table[c].socket = e.socket_ptr
        /\ table'[c].event_count = table[c].event_count + 1
     \/ /\ ~ table[c].occupied /\ Unconnected(e.socket_ptr)
        /\ table'[c].event_count = 1

LEMMA UpdateOutcome ==
  ASSUME ConnInv, NEW e \in Event, connection_table_update(e)
  PROVE  \/ /\ UNCHANGED table
            /\ e.socket_ptr \in Sockets => Unconnected(e.socket_ptr) /\ ConnTableFull
         \/ /\ e.socket_ptr \in Sockets
            /\ \E c \in Slots : Counts(c, e)
<1>. DEFINE s == e.socket_ptr
<1>1. s \in Sockets \cup {NoSocket} /\ ConnTypeOK
  BY DEF Event, ConnInv
<1>2. CASE UpdatedSlot(s) = NoSlot
  <2>1. UNCHANGED table
    BY <1>2 DEF connection_table_update
  <2>2. ASSUME s \in Sockets PROVE Unconnected(s) /\ ConnTableFull
    <3>1. /\ Holding(s) \in SUBSET Slots /\ Free \in SUBSET Slots
          /\ s # NoSocket
      BY <2>2, SocketsAssumption DEF Holding, Free
    <3>2. connection_table_find(s) = NoSlot /\ alloc_slot(s) = NoSlot
      BY <1>2, <3>1 DEF UpdatedSlot
    <3>3. Holding(s) = {} /\ Free = {}
      BY <2>2, <3>1, <3>2, ProbeResult DEF connection_table_find, alloc_slot
    <3>. QED
      BY <3>3 DEF Holding, Free, Unconnected, ConnTableFull
  <2>. QED
    BY <2>1, <2>2
<1>3. CASE UpdatedSlot(s) # NoSlot
  <2>2. s \in Sockets
    BY <1>1, <1>3 DEF UpdatedSlot
  <2>3. PICK i \in Slots :
          /\ \/ table[i].occupied /\ table[i].socket = s
             \/ ~ table[i].occupied /\ Holding(s) = {}
          /\ table'[i] = Touched(Before(i, e), e)
          /\ \A j \in Slots \ {i} : table'[j] = table[j]
    <3>. DEFINE i == UpdatedSlot(s)
    <3>1. /\ i \in Slots
          /\ i \in Holding(s) \/ (i \in Free /\ Holding(s) = {})
      BY <1>1, <1>3, UpdatedSlotIs
    <3>2. table' = [table EXCEPT ![i] = Touched(Before(i, e), e)]
      BY <1>3 DEF connection_table_update, Before
    <3>. HIDE DEF i
    <3>3. /\ table'[i] = Touched(Before(i, e), e)
          /\ \A j \in Slots \ {i} : table'[j] = table[j]
      BY <1>1, <3>1, <3>2 DEF ConnTypeOK
    <3>. QED
      BY <3>1, <3>3 DEF Holding, Free
  <2>4. /\ table'[i].occupied /\ table'[i].socket = s /\ table'[i].last_event = e
        /\ table'[i].event_count = IF table[i].occupied THEN table[i].event_count + 1 ELSE 1
    BY <1>1, <2>2, <2>3, TouchedFields
  <2>5. Counts(i, e)
    BY <2>3, <2>4 DEF Counts, Unconnected, Holding
  <2>. QED
    BY <2>2, <2>5
<1>. QED
  BY <1>2, <1>3

(* TimelinesAreConnections and SameLatestEvent, slot by slot.              *)
Connected ==
  \A i \in TL!Slots : timelines[i].occupied =>
    /\ Unconnected(timelines[i].socket) => ConnTableFull
    /\ \A c \in Slots : table[c].occupied /\ table[c].socket = timelines[i].socket
                        => Len(timelines[i].entries) <= table[c].event_count

Latest ==
  \A i \in TL!Slots : \A c \in Slots :
    LET n == Len(timelines[i].entries)
    IN  /\ timelines[i].active
        /\ n < TIMELINE_MAX_EVENTS
        /\ table[c].occupied /\ table[c].socket = timelines[i].socket
        => \/ table[c].last_event = timelines[i].entries[n].e
           \/ /\ table[c].last_event.event = "EVENT_TCP_V4_RCV"
              /\ ~ Tracked(table[c].last_event)

SharedInv == ConnInv /\ TimelinesInv /\ Connected /\ Latest

LEMMA EntryOf ==
  ASSUME ConnInv, NEW s, NEW c \in Slots, table[c].occupied, table[c].socket = s
  PROVE  Holding(s) = {c} /\ Entry(s) = table[c]
<1>1. Holding(s) = {c}
  BY DEF Holding, ConnInv, OneEntryPerSocket
<1>. QED
  BY <1>1 DEF Entry

LEMMA SharedInvMeans == SharedInv => TimelinesAreConnections /\ SameLatestEvent
<1>. SUFFICES ASSUME SharedInv PROVE TimelinesAreConnections /\ SameLatestEvent
  OBVIOUS
<1>. USE DEF SharedInv
<1>1. ASSUME NEW s, Holding(s) # {}
      PROVE  \E c \in Slots : /\ table[c].occupied /\ table[c].socket = s
                              /\ Entry(s) = table[c]
  <2>1. PICK c \in Slots : table[c].occupied /\ table[c].socket = s
    BY <1>1 DEF Holding
  <2>. QED
    BY <2>1, EntryOf
<1>2. TimelinesAreConnections
  <2>. SUFFICES ASSUME NEW i \in TL!Slots, timelines[i].occupied
                PROVE  IF Holding(timelines[i].socket) = {} THEN ConnTableFull
                       ELSE Len(timelines[i].entries) <= Entry(timelines[i].socket).event_count
    BY DEF TimelinesAreConnections
  <2>1. CASE Holding(timelines[i].socket) = {}
    BY <2>1 DEF Connected, Unconnected, Holding
  <2>2. CASE Holding(timelines[i].socket) # {}
    BY <1>1, <2>2 DEF Connected
  <2>. QED
    BY <2>1, <2>2
<1>3. SameLatestEvent
  BY <1>1 DEF Latest, SameLatestEvent
<1>. QED
  BY <1>2, <1>3

-----------------------------------------------------------------------------
(* What the timelines' own invariant says of a slot.                       *)
LEMMA SlotFacts ==
  TP!TableInv =>
    \A i \in TL!Slots :
      /\ Len(timelines[i].entries) \in Nat
      /\ timelines[i].occupied => timelines[i].socket \in Sockets
      /\ timelines[i].active => timelines[i].occupied /\ Len(timelines[i].entries) >= 1
<1>. SUFFICES ASSUME TP!TableInv, NEW i \in TL!Slots
              PROVE  /\ Len(timelines[i].entries) \in Nat
                     /\ timelines[i].occupied => timelines[i].socket \in Sockets
                     /\ timelines[i].active =>
                          timelines[i].occupied /\ Len(timelines[i].entries) >= 1
  OBVIOUS
<1>1. i \in TP!Slots
  BY SameSlots
<1>2. timelines[i] \in TP!Slot
  BY <1>1 DEF TP!TableInv
<1>3. Len(timelines[i].entries) \in Nat
  BY <1>2 DEF TP!Slot
<1>4. timelines[i].occupied => timelines[i].socket \in Sockets
  BY <1>1, <1>2 DEF TP!Slot, TP!TableInv, TP!OneSlotPerSocket
<1>5. ~ timelines[i].occupied => ~ timelines[i].active
  BY <1>1 DEF TP!TableInv, TP!OneSlotPerSocket, TP!FreeSlot
<1>6. timelines[i].active => Len(timelines[i].entries) >= 1
  BY <1>1, TimelineParameters DEF TP!TableInv, TP!RecordingsWellFormed, TP!RecordingOf
<1>. QED
  BY <1>3, <1>4, <1>5, <1>6

LEMMA OneSlot ==
  ASSUME TP!TableInv, NEW i \in TL!Slots, NEW j \in TL!Slots,
         timelines[i].occupied, timelines[j].occupied, timelines[i].socket = timelines[j].socket
  PROVE  i = j
  BY SameSlots DEF TP!TableInv, TP!OneSlotPerSocket

(* The slot of another socket than the event's is as it was, and the slot  *)
(* of its own socket has one of the four outcomes.                         *)
LEMMA SlotAfter ==
  ASSUME TP!TableInv, TP!TableInv', NEW e \in Event, Dispatch(e),
         NEW j \in TL!Slots, timelines'[j].occupied
  PROVE  \/ /\ timelines'[j] = timelines[j]
            /\ timelines[j].socket = e.socket_ptr =>
                 \/ e.event = "EVENT_TCP_V4_RCV" /\ ~ Tracked(e)
                 \/ ~ timelines[j].active
         \/ /\ timelines'[j].socket = e.socket_ptr
            /\ Opens(j, e) \/ Extends(j, e) \/ Ends(j, e)
<1>1. CASE Ignored(e)
  BY <1>1 DEF Ignored
<1>2. ASSUME NEW i \in TL!Slots, Opens(i, e) \/ Extends(i, e) \/ Ends(i, e)
      PROVE  \/ timelines'[j] = timelines[j] /\ timelines[j].socket # e.socket_ptr
             \/ i = j
  <2>1. Takes(i, e.socket_ptr)
    BY <1>2 DEF Opens, Extends, Ends
  <2>2. \A k, l \in TL!Slots :
          (/\ timelines'[k].occupied /\ timelines'[l].occupied
           /\ timelines'[k].socket = timelines'[l].socket) => k = l
    BY DEF TL!Slots, TP!Slots, TP!TableInv, TP!OneSlotPerSocket
  <2>. QED
    BY <2>1, <2>2 DEF Takes
<1>3. ASSUME NEW i \in TL!Slots, Opens(i, e) \/ Extends(i, e) \/ Ends(i, e)
      PROVE  timelines'[i].socket = e.socket_ptr
  BY <1>3 DEF Opens, Extends, Ends, Takes
<1>. QED
  BY <1>1, <1>2, <1>3, DispatchEffect
-----------------------------------------------------------------------------
(* One event keeps the two tables in agreement.                            *)
LEMMA ConnectedAfter ==
  ASSUME SharedInv, ConnInv', TP!TableInv', NEW e \in Event,
         connection_table_update(e), Dispatch(e)
  PROVE  Connected'
<1>. DEFINE s == e.socket_ptr
<1>0. ConnInv /\ TP!TableInv /\ Connected
  BY DEF SharedInv, TimelinesInv
<1>. SUFFICES ASSUME NEW j \in TL!Slots, timelines'[j].occupied
              PROVE  /\ \/ ConnTableFull'
                        \/ \E c \in Slots : /\ table'[c].occupied
                                             /\ table'[c].socket = timelines'[j].socket
                     /\ \A c \in Slots :
                          /\ table'[c].occupied /\ table'[c].socket = timelines'[j].socket
                          => Len(timelines'[j].entries) <= table'[c].event_count
  BY DEF Connected, Unconnected, TL!Slots
<1>. DEFINE t == timelines'[j].socket
<1>1. t \in Sockets /\ Len(timelines'[j].entries) \in Nat
  <2>1. (TP!TableInv => \A i \in TL!Slots :
            /\ Len(timelines[i].entries) \in Nat
            /\ timelines[i].occupied => timelines[i].socket \in Sockets
            /\ timelines[i].active => timelines[i].occupied /\ Len(timelines[i].entries) >= 1)'
    BY SlotFacts, PTL
  <2>. QED
    BY <2>1 DEF TL!Slots
<1>2. \A c \in Slots : table[c].event_count \in Nat /\ (table[c].occupied => table[c].event_count >= 1)
  BY <1>0 DEF ConnInv, ConnTypeOK, ConnEntry, EntriesCoherent
<1>3. \/ /\ timelines'[j] = timelines[j]
      \/ t = s /\ (Opens(j, e) \/ Extends(j, e) \/ Ends(j, e))
  BY <1>0, SlotAfter
<1>4. CASE /\ UNCHANGED table
           /\ s \in Sockets => Unconnected(s) /\ ConnTableFull
  <2>1. CASE timelines'[j] = timelines[j]
    BY <1>0, <1>4, <2>1 DEF Connected, Unconnected, ConnTableFull
  <2>2. CASE t = s
    BY <1>1, <1>4, <2>2 DEF Unconnected, ConnTableFull
  <2>. QED
    BY <1>3, <2>1, <2>2
<1>5. ASSUME NEW c \in Slots, Counts(c, e)
      PROVE  /\ \/ ConnTableFull'
                \/ \E d \in Slots : table'[d].occupied /\ table'[d].socket = t
             /\ \A d \in Slots : table'[d].occupied /\ table'[d].socket = t
                  => Len(timelines'[j].entries) <= table'[d].event_count
  <2>1. CASE t # s
    <3>1. timelines'[j] = timelines[j]
      BY <1>3, <2>1
    <3>2. \A d \in Slots : /\ table'[d].occupied /\ table'[d].socket = t
                           <=> table[d].occupied /\ table[d].socket = t
      BY <1>5, <2>1 DEF Counts
    <3>3. \A d \in Slots : table'[d].occupied /\ table'[d].socket = t => table'[d] = table[d]
      BY <1>5, <2>1 DEF Counts
    <3>4. ConnTableFull => ConnTableFull'
      BY <1>5 DEF Counts, ConnTableFull
    <3>5. \/ ConnTableFull
          \/ \E d \in Slots : table[d].occupied /\ table[d].socket = t
      BY <1>0, <3>1 DEF Connected, Unconnected
    <3>6. \A d \in Slots : table[d].occupied /\ table[d].socket = t
                           => Len(timelines'[j].entries) <= table[d].event_count
      BY <1>0, <3>1 DEF Connected
    <3>. QED
      BY <3>2, <3>3, <3>4, <3>5, <3>6
  <2>2. CASE t = s
    <3>1. table'[c].occupied /\ table'[c].socket = t
      BY <1>5, <2>2 DEF Counts
    <3>2. ASSUME NEW d \in Slots, table'[d].occupied, table'[d].socket = t PROVE d = c
      BY <1>5, <2>2, <3>2 DEF Counts, ConnInv, OneEntryPerSocket
    <3>3. table'[c].event_count \in Nat /\ table'[c].event_count >= 1
      BY <1>2, <1>5 DEF Counts
    <3>4. ASSUME timelines[j].occupied, timelines[j].socket = s
          PROVE  Len(timelines[j].entries) + 1 <= table'[c].event_count
      <4>1. table[c].occupied /\ table[c].socket = s
        BY <1>0, <1>5, <3>4 DEF Counts, Connected, ConnTableFull
      <4>2. Len(timelines[j].entries) <= table[c].event_count
        BY <1>0, <3>4, <4>1 DEF Connected
      <4>3. Len(timelines[j].entries) \in Nat
        BY <1>0, SlotFacts
      <4>. QED
        BY <1>2, <1>5, <4>1, <4>2, <4>3 DEF Counts
    <3>5. Len(timelines'[j].entries) <= table'[c].event_count
      <4>0. Len(timelines[j].entries) \in Nat
        BY <1>0, SlotFacts
      <4>1. CASE timelines'[j] = timelines[j]
        BY <2>2, <3>3, <3>4, <4>0, <4>1
      <4>2. CASE Opens(j, e)
        BY <3>3, <4>2 DEF Opens
      <4>3. CASE Extends(j, e)
        <5>1. Len(timelines'[j].entries) <= Len(timelines[j].entries) + 1
          BY <4>0, <4>3 DEF Extends
        <5>2. Len(timelines[j].entries) + 1 <= table'[c].event_count
          BY <3>4, <4>3 DEF Extends, RecordsFor
        <5>. QED
          BY <1>1, <3>3, <4>0, <5>1, <5>2
      <4>4. CASE Ends(j, e)
        BY <3>3, <4>4 DEF Ends
      <4>. QED
        BY <1>3, <4>1, <4>2, <4>3, <4>4
    <3>. QED
      BY <3>1, <3>2, <3>5
  <2>. QED
    BY <2>1, <2>2
<1>. QED
  BY <1>0, <1>4, <1>5, UpdateOutcome

LEMMA LatestAfter ==
  ASSUME SharedInv, ConnInv', TP!TableInv', NEW e \in Event,
         connection_table_update(e), Dispatch(e)
  PROVE  Latest'
<1>. DEFINE s == e.socket_ptr
<1>0. ConnInv /\ TP!TableInv /\ Latest
  BY DEF SharedInv, TimelinesInv
<1>. SUFFICES ASSUME NEW j \in TL!Slots, NEW c \in Slots,
                     timelines'[j].active,
                     Len(timelines'[j].entries) < TIMELINE_MAX_EVENTS,
                     table'[c].occupied, table'[c].socket = timelines'[j].socket
              PROVE  \/ table'[c].last_event = timelines'[j].entries[Len(timelines'[j].entries)].e
                     \/ /\ table'[c].last_event.event = "EVENT_TCP_V4_RCV"
                        /\ ~ Tracked(table'[c].last_event)
  BY DEF Latest, Tracked, filter_port, TL!Slots
<1>. DEFINE t == timelines'[j].socket
<1>1. timelines'[j].occupied /\ t \in Sockets
  <2>1. (TP!TableInv => \A i \in TL!Slots :
            /\ Len(timelines[i].entries) \in Nat
            /\ timelines[i].occupied => timelines[i].socket \in Sockets
            /\ timelines[i].active => timelines[i].occupied /\ Len(timelines[i].entries) >= 1)'
    BY SlotFacts, PTL
  <2>. QED
    BY <2>1 DEF TL!Slots
<1>2. \/ /\ timelines'[j] = timelines[j]
         /\ timelines[j].socket = s =>
              \/ e.event = "EVENT_TCP_V4_RCV" /\ ~ Tracked(e)
              \/ ~ timelines[j].active
      \/ t = s /\ (Opens(j, e) \/ Extends(j, e) \/ Ends(j, e))
  BY <1>0, <1>1, SlotAfter
<1>3. \/ /\ UNCHANGED table
         /\ s \in Sockets => Unconnected(s) /\ ConnTableFull
      \/ \E d \in Slots : Counts(d, e)
  BY <1>0, UpdateOutcome
<1>4. CASE t # s
  <2>1. timelines'[j] = timelines[j]
    BY <1>2, <1>4
  <2>2. table'[c] = table[c]
    BY <1>3, <1>4 DEF Counts
  <2>. QED
    BY <1>0, <2>1, <2>2 DEF Latest
<1>5. CASE t = s
  <2>1. table'[c].last_event = e
    <3>1. PICK d \in Slots : Counts(d, e)
      BY <1>1, <1>3, <1>5 DEF Unconnected
    <3>2. c = d
      BY <1>5, <3>1 DEF Counts, ConnInv, OneEntryPerSocket
    <3>. QED
      BY <3>1, <3>2 DEF Counts
  <2>2. CASE timelines'[j] = timelines[j]
    BY <1>2, <1>5, <2>1, <2>2 DEF Opens, Extends, Ends, Takes, RecordsFor
  <2>3. CASE Opens(j, e)
    BY <2>1, <2>3 DEF Opens
  <2>4. CASE Extends(j, e)
    BY <2>1, <2>4 DEF Extends
  <2>5. CASE Ends(j, e)
    BY <2>5 DEF Ends
  <2>. QED
    BY <1>2, <2>2, <2>3, <2>4, <2>5
<1>. QED
  BY <1>4, <1>5
(* One event keeps the filter: only what it admits is opened, claims a     *)
(* slot, and starts a record of requests.jsonl.                            *)
LEMMA FilterAfter ==
  ASSUME TimelinesInv, TimelinesInv', PortFilterHolds, NEW e \in Inputs, Dispatch(e)
  PROVE  PortFilterHolds'
<1>0. /\ TP!TableInv /\ TP!TableInv'
      /\ e \in Event
      /\ requests_jsonl \in Seq(TP!Journal) /\ requests_jsonl' \in Seq(TP!Journal)
  BY ConnAssumption DEF TimelinesInv, TP!FilesInv, TP!Journal, TP!Entry, TP!Timestamp, TP!Event
<1>. USE DEF TimelinesInv
<1>1. ASSUME NEW j \in TL!Slots, timelines'[j].active
      PROVE  timelines'[j].occupied
  <2>1. (TP!TableInv => \A i \in TL!Slots :
            /\ Len(timelines[i].entries) \in Nat
            /\ timelines[i].occupied => timelines[i].socket \in Sockets
            /\ timelines[i].active => timelines[i].occupied /\ Len(timelines[i].entries) >= 1)'
    BY SlotFacts, PTL
  <2>. QED
    BY <1>0, <1>1, <2>1 DEF TL!Slots
<1>2. \A j \in TL!Slots : timelines[j].active => Tracked(timelines[j].entries[1].e)
  BY DEF PortFilterHolds
<1>3. ASSUME NEW j \in TL!Slots, timelines'[j].active
      PROVE  Tracked(timelines'[j].entries[1].e)
  <2>1. \/ timelines'[j] = timelines[j]
        \/ Opens(j, e) \/ Extends(j, e) \/ Ends(j, e)
    BY <1>0, <1>1, <1>3, SlotAfter
  <2>. QED
    BY <1>2, <1>3, <2>1 DEF Opens, Extends, Ends, RecordsFor
<1>4. ASSUME NEW j \in TL!Slots, timelines'[j].occupied
      PROVE  \E x \in Inputs : x.socket_ptr = timelines'[j].socket /\ Tracked(x)
  <2>1. \/ timelines'[j] = timelines[j]
        \/ /\ timelines'[j].socket = e.socket_ptr
           /\ Opens(j, e) \/ Extends(j, e) \/ Ends(j, e)
    BY <1>0, <1>4, SlotAfter
  <2>2. CASE Opens(j, e) /\ timelines'[j].socket = e.socket_ptr
    BY <2>2 DEF Opens
  <2>3. CASE timelines'[j] = timelines[j]
    BY <1>4, <2>3 DEF PortFilterHolds
  <2>4. CASE (Extends(j, e) \/ Ends(j, e)) /\ timelines'[j].socket = e.socket_ptr
    BY <2>4 DEF Extends, Ends, RecordsFor, PortFilterHolds
  <2>. QED
    BY <2>1, <2>2, <2>3, <2>4
<1>5. \A n \in 1 .. Len(requests_jsonl') : Tracked(requests_jsonl'[n].timeline[1].e)
  <2>1. \A n \in 1 .. Len(requests_jsonl) : Tracked(requests_jsonl[n].timeline[1].e)
    BY DEF PortFilterHolds
  <2>2. \/ UNCHANGED requests_jsonl
        \/ \E r : /\ requests_jsonl' = Append(requests_jsonl, r)
                  /\ Tracked(r.timeline[1].e)
    <3>1. CASE Ignored(e)
      BY <3>1 DEF Ignored
    <3>2. ASSUME NEW i \in TL!Slots, Opens(i, e) \/ Extends(i, e)
          PROVE  UNCHANGED requests_jsonl
      BY <3>2 DEF Opens, Extends
    <3>3. ASSUME NEW i \in TL!Slots, Ends(i, e)
          PROVE  \/ UNCHANGED requests_jsonl
                 \/ \E r : /\ requests_jsonl' = Append(requests_jsonl, r)
                           /\ Tracked(r.timeline[1].e)
      BY <1>2, <3>3 DEF Ends, RecordsFor
    <3>. QED
      BY <1>0, <3>1, <3>2, <3>3, DispatchEffect
  <2>3. ASSUME NEW r, requests_jsonl' = Append(requests_jsonl, r), Tracked(r.timeline[1].e),
               NEW n \in 1 .. Len(requests_jsonl')
        PROVE  Tracked(requests_jsonl'[n].timeline[1].e)
    <3>1. /\ Len(requests_jsonl) \in Nat
          /\ Len(requests_jsonl') = Len(requests_jsonl) + 1
          /\ requests_jsonl'[Len(requests_jsonl) + 1] = r
          /\ \A m \in 1 .. Len(requests_jsonl) : requests_jsonl'[m] = requests_jsonl[m]
      BY <1>0, <2>3
    <3>2. n \in 1 .. Len(requests_jsonl) \/ n = Len(requests_jsonl) + 1
      BY <2>3, <3>1
    <3>. QED
      BY <2>1, <2>3, <3>1, <3>2
  <2>. QED
    BY <2>1, <2>2, <2>3
<1>. QED
  BY <1>3, <1>4, <1>5, Zenon DEF PortFilterHolds, Tracked, filter_port, TL!Slots

-----------------------------------------------------------------------------
(* Empty tables agree, after the first start and after every other.        *)
LEMMA EmptyTablesAgree ==
  (/\ \A c \in Slots : ~ table[c].occupied
   /\ timelines = [i \in TL!Slots |-> TL!FreeSlot])
    => Connected /\ Latest
<1>. SUFFICES ASSUME \A c \in Slots : ~ table[c].occupied,
                     timelines = [i \in TL!Slots |-> TL!FreeSlot]
              PROVE  Connected /\ Latest
  OBVIOUS
<1>1. ~ TL!FreeSlot.occupied /\ ~ TL!FreeSlot.active
  BY DEF TL!FreeSlot
<1>2. \A i \in TL!Slots : timelines[i] = TL!FreeSlot
  OBVIOUS
<1>. QED
  BY <1>1, <1>2 DEF Connected, Latest

LEMMA SharedInductive ==
  /\ CollectorInit => SharedInv /\ PortFilterHolds
  /\ SharedInv /\ PortFilterHolds /\ [CollectorNext]_collectorVars
       => SharedInv' /\ PortFilterHolds'
<1>0. ~ TL!FreeSlot.occupied /\ ~ TL!FreeSlot.active /\ ~ ZeroEntry.occupied
  BY DEF TL!FreeSlot, ZeroEntry
<1>1. ASSUME CollectorInit PROVE SharedInv /\ PortFilterHolds
  <2>1. ConnInv /\ TimelinesInv
    BY <1>1, ZeroedTableInv, TimelinesInductive DEF CollectorInit, ConnInit
  <2>2. /\ table = [i \in Slots |-> ZeroEntry]
        /\ timelines = [i \in TL!Slots |-> TL!FreeSlot]
        /\ requests_jsonl = <<>>
    BY <1>1 DEF CollectorInit, ConnInit, TL!TimelineInit
  <2>3. Connected /\ Latest
    BY <1>0, <2>2, EmptyTablesAgree
  <2>4. PortFilterHolds
    BY <1>0, <2>2 DEF PortFilterHolds
  <2>. QED
    BY <2>1, <2>3, <2>4 DEF SharedInv
<1>2. ASSUME SharedInv, PortFilterHolds, [CollectorNext]_collectorVars
      PROVE  SharedInv' /\ PortFilterHolds'
  <2>1. ConnInv' /\ TimelinesInv'
    BY <1>2, CollectorUpdates, StepInv, TimelinesInductive DEF SharedInv
  <2>2. ASSUME NEW e \in Inputs, collector_handle_event(e)
        PROVE  SharedInv' /\ PortFilterHolds'
    <3>1. e \in Event /\ connection_table_update(e) /\ Dispatch(e)
      BY <2>2, ConnAssumption DEF collector_handle_event
    <3>2. Connected' /\ Latest'
      BY <1>2, <2>1, <3>1, ConnectedAfter, LatestAfter DEF TimelinesInv
    <3>3. PortFilterHolds'
      BY <1>2, <2>1, <3>1, FilterAfter DEF SharedInv
    <3>. QED
      BY <2>1, <3>2, <3>3 DEF SharedInv
  <2>3. ASSUME collector_run PROVE SharedInv' /\ PortFilterHolds'
    <3>1. /\ table' = [i \in Slots |-> ZeroEntry]
          /\ timelines' = [i \in TL!Slots |-> TL!FreeSlot]
          /\ requests_jsonl' = requests_jsonl \/ requests_jsonl' = <<>>
      BY <2>3 DEF collector_run, connection_table_init, TL!timeline_init
    <3>2. ((/\ \A c \in Slots : ~ table[c].occupied
            /\ timelines = [i \in TL!Slots |-> TL!FreeSlot])
             => Connected /\ Latest)'
      BY EmptyTablesAgree, PTL
    <3>3. Connected' /\ Latest'
      BY <1>0, <3>1, <3>2 DEF TL!Slots, TL!FreeSlot
    <3>4. \A i \in TL!Slots : timelines'[i] = TL!FreeSlot
      BY <3>1
    <3>5. \A n \in 1 .. Len(requests_jsonl') : Tracked(requests_jsonl'[n].timeline[1].e)
      BY <1>2, <3>1 DEF PortFilterHolds
    <3>6. PortFilterHolds'
      BY <1>0, <3>4, <3>5 DEF PortFilterHolds, Tracked, filter_port, TL!Slots
    <3>. QED
      BY <2>1, <3>3, <3>6 DEF SharedInv
  <2>4. ASSUME UNCHANGED collectorVars PROVE SharedInv' /\ PortFilterHolds'
    <3>1. /\ table' = table /\ timelines' = timelines /\ requests_jsonl' = requests_jsonl
      BY <2>4 DEF collectorVars, timelineVars
    <3>2. Connected' /\ Latest'
      BY <1>2, <3>1 DEF SharedInv, Connected, Latest, Unconnected, ConnTableFull, Tracked,
                        filter_port, TL!Slots
    <3>3. PortFilterHolds'
      BY <1>2, <3>1 DEF PortFilterHolds, Tracked, filter_port, TL!Slots
    <3>. QED
      BY <2>1, <3>2, <3>3 DEF SharedInv
  <2>. QED
    BY <1>2, <2>2, <2>3, <2>4 DEF CollectorNext
<1>. QED
  BY <1>1, <1>2

(* A socket with a timeline has a connection entry, or the connection      *)
(* table was full; and the entry counts every event of the recording.      *)
THEOREM TimelinesHaveConnections == CollectorSpec => []TimelinesAreConnections
<1>1. SharedInv => TimelinesAreConnections
  BY SharedInvMeans
<1>. QED
  BY <1>1, SharedInductive, PTL DEF CollectorSpec

(* The latest event of an open recording with room is the latest event of  *)
(* its connection, unless the port filter kept that one away.              *)
THEOREM TablesSawTheSameEvents == CollectorSpec => []SameLatestEvent
<1>1. SharedInv => SameLatestEvent
  BY SharedInvMeans
<1>. QED
  BY <1>1, SharedInductive, PTL DEF CollectorSpec

(* With HTTP_FLOW_PORT set, nothing of another port is recorded, exported  *)
(* or given a timeline slot.                                               *)
THEOREM FilterKeepsOtherPortsOut == CollectorSpec => []PortFilterHolds
  BY SharedInductive, PTL DEF CollectorSpec
(* What the collector does to its queue are operations of module           *)
(* EventQueue, so every theorem about QueueSpec is one about the collector *)
(* (the cell that a pop would fill is never written: nothing pops).        *)
THEOREM CollectorQueues == CollectorSpec => EQ!QueueSpec
<1>1. CollectorInit => EQ!QueueInit
  BY DEF CollectorInit
<1>2. [CollectorNext]_collectorVars => [EQ!QueueNext]_(EQ!queueVars)
  <2>1. UNCHANGED ZeroEvent
    BY DEF ZeroEvent, NoAddr
  <2>2. ASSUME NEW e \in Inputs, EQ!event_queue_push(e) PROVE EQ!QueueNext
    BY <2>1, <2>2, ConnAssumption DEF EQ!QueueNext
  <2>3. ASSUME queue' = EQ!EmptyQueue PROVE EQ!QueueNext
    BY <2>1, <2>3 DEF EQ!QueueNext, EQ!event_queue_clear
  <2>4. ASSUME UNCHANGED collectorVars PROVE UNCHANGED EQ!queueVars
    BY <2>1, <2>4 DEF collectorVars, EQ!queueVars
  <2>. QED
    BY <2>2, <2>3, <2>4 DEF CollectorNext, collector_handle_event, collector_run
<1>. QED
  BY <1>1, <1>2, PTL DEF CollectorSpec, EQ!QueueSpec
=============================================================================
