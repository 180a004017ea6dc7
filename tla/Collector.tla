----------------------------- MODULE Collector -----------------------------
(***************************************************************************)
(* collector/collector.c: the ring buffer callback.  For every event it    *)
(* updates the connection table, dispatches to the timelines and queues    *)
(* the event.  The three components share nothing but the event, and the   *)
(* callback runs on the collector's only thread: one event, one action.    *)
(***************************************************************************)
EXTENDS ConnectionTable, Sequences

CONSTANTS
  TIMELINE_TABLE_SIZE, EVENT_QUEUE_SIZE,
  TimelineHash,
  TIMELINE_MAX_EVENTS, MIN_STEPS, HTTP_FLOW_PORT, NS_PER_US,
  Faulty, NoFile, OldFile,
  MaxRequests     \* bound: requests finished in one run of the collector

VARIABLES
  timelines, metrics, kernel_request, metrics_json, requests_jsonl,
  flame_folded, sequence_mmd,              \* timeline.c
  queue                                    \* the static queue of collector.c

timelineVars == <<timelines, metrics, kernel_request, metrics_json,
                  requests_jsonl, flame_folded, sequence_mmd>>
collectorVars == <<table, timelineVars, queue>>

TL == INSTANCE Timeline WITH TABLE_SIZE <- TIMELINE_TABLE_SIZE, Hash <- TimelineHash

(* Nothing pops the queue, so nothing is ever copied out of it. *)
EQ == INSTANCE EventQueue WITH
  Items <- Event, ZeroItem <- ZeroEvent, popped <- ZeroEvent

ASSUME CollectorAssumption ==
  /\ TIMELINE_TABLE_SIZE \in Nat \ {0}
  /\ TimelineHash \in [Sockets -> 0 .. TIMELINE_TABLE_SIZE - 1]
  /\ EVENT_QUEUE_SIZE \in Nat \ {0}
  /\ TIMELINE_MAX_EVENTS \in Nat \ {0}
  /\ MIN_STEPS \in Nat \ {0}
  /\ HTTP_FLOW_PORT \in Ports
  /\ NS_PER_US \in Nat \ {0}
  /\ Faulty \subseteq TL!Files
  /\ MaxRequests \in Nat

(* The same environment variable that normalize_client_server reads. *)
filter_port == HTTP_FLOW_PORT

Tracked(e) == filter_port = 0 \/ filter_port \in {e.addr.dport, e.addr.sport}

CollectorInit == ConnInit /\ TL!TimelineInit /\ EQ!QueueInit

(* Mutants of the switch: no default case; no port filter.                 *)
DispatchBoundaries(e) ==
  \/ /\ e.event = "EVENT_TCP_V4_RCV" /\ Tracked(e)
     /\ TL!timeline_start(e)
  \/ /\ e.event = "EVENT_TCP_SENDMSG"
     /\ TL!timeline_finish(e)
  \/ /\ e.event # "EVENT_TCP_SENDMSG" /\ ~ (e.event = "EVENT_TCP_V4_RCV" /\ Tracked(e))
     /\ UNCHANGED timelineVars

DispatchAll(e) ==
  \/ /\ e.event = "EVENT_TCP_V4_RCV"
     /\ TL!timeline_start(e)
  \/ /\ e.event = "EVENT_TCP_SENDMSG"
     /\ TL!timeline_finish(e)
  \/ /\ e.event \notin {"EVENT_TCP_V4_RCV", "EVENT_TCP_SENDMSG"}
     /\ TL!timeline_add_event(e)

(* The switch on the event type. *)
Dispatch(e) ==
  \/ /\ e.event = "EVENT_TCP_V4_RCV" /\ Tracked(e)
     /\ TL!timeline_start(e)
  \/ /\ e.event = "EVENT_TCP_V4_RCV" /\ ~ Tracked(e)
     /\ UNCHANGED timelineVars
  \/ /\ e.event = "EVENT_TCP_SENDMSG"
     /\ TL!timeline_finish(e)
  \/ /\ e.event \notin {"EVENT_TCP_V4_RCV", "EVENT_TCP_SENDMSG"}
     /\ TL!timeline_add_event(e)

(* Mutant: only received segments reach the connection table. *)
handle_without_update(e) ==
  /\ IF e.event = "EVENT_TCP_V4_RCV" THEN connection_table_update(e) ELSE UNCHANGED table
  /\ Dispatch(e)
  /\ EQ!event_queue_push(e)

collector_handle_event(e) ==
  /\ connection_table_update(e)
  /\ Dispatch(e)
  /\ EQ!event_queue_push(e)

(* The collector is stopped at any point and collector_run starts again.   *)
collector_run ==
  /\ connection_table_init
  /\ TL!timeline_init
  /\ queue' = EQ!EmptyQueue

CollectorNext ==
  \/ \E e \in Inputs :
       /\ \A i \in Slots : table[i].event_count < MaxCount
       /\ metrics.request_count < MaxRequests
       /\ collector_handle_event(e)
  \/ collector_run

CollectorSpec == CollectorInit /\ [][CollectorNext]_collectorVars

-----------------------------------------------------------------------------
(* Properties across the components.                                       *)

Entry(s) == table[CHOOSE i \in Holding(s) : TRUE]
ConnTableFull == \A i \in Slots : table[i].occupied

(* A socket that has a timeline has a connection entry too, unless the     *)
(* connection table had filled up first; and the entry has counted every   *)
(* event that the timeline is recording.                                   *)
TimelinesAreConnections ==
  \A i \in TL!Slots : timelines[i].occupied =>
    LET s == timelines[i].socket
    IN  IF Holding(s) = {} THEN ConnTableFull
        ELSE Len(timelines[i].entries) <= Entry(s).event_count

(* The two components saw the same events: the latest event of an open     *)
(* recording that has room is the latest event of its connection, except   *)
(* for a received segment that the port filter kept from restarting it.    *)
SameLatestEvent ==
  \A i \in TL!Slots :
    LET s == timelines[i].socket
        n == Len(timelines[i].entries)
    IN  /\ timelines[i].active
        /\ n < TIMELINE_MAX_EVENTS
        /\ Holding(s) # {}
        => \/ Entry(s).last_event = timelines[i].entries[n].e
           \/ /\ Entry(s).last_event.event = "EVENT_TCP_V4_RCV"
              /\ ~ Tracked(Entry(s).last_event)

(* With HTTP_FLOW_PORT set, only connections with that port on one side    *)
(* are ever recorded or exported, and the events of other ports do not     *)
(* use up timeline slots.                                                  *)
PortFilterHolds ==
  /\ \A i \in TL!Slots : timelines[i].active => Tracked(timelines[i].entries[1].e)
  /\ \A i \in TL!Slots : timelines[i].occupied =>
       \E e \in Inputs : e.socket_ptr = timelines[i].socket /\ Tracked(e)
  /\ \A n \in 1 .. Len(requests_jsonl) : Tracked(requests_jsonl[n].timeline[1].e)

=============================================================================
