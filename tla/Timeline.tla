------------------------------ MODULE Timeline ------------------------------
(***************************************************************************)
(* collector/timeline.c: one timeline per socket in a fixed hash table.    *)
(* timeline_start opens a recording, timeline_add_event extends an open    *)
(* one, timeline_finish closes it and, when it has enough steps, exports   *)
(* it to five files.  All of it runs on the collector's only thread, so    *)
(* every call is one atomic action; what can fail inside a call is the     *)
(* fopen of each file.                                                     *)
(***************************************************************************)
EXTENDS SocketTable, Stages, Sequences

CONSTANTS
  TIMELINE_MAX_EVENTS,
  MIN_STEPS,      \* 3, or HTTP_FLOW_MIN_STEPS
  HTTP_FLOW_PORT, \* the environment variable; 0 when unset or invalid
  NS_PER_US,      \* 1000 in the code; the flame graph counts microseconds
  Faulty,         \* the files whose fopen may fail
  NoFile,         \* a file without content: missing, or truncated
  OldFile,        \* a kernel_request.txt that an earlier run left behind
  Inputs,         \* the events that the callers pass
  MaxRequests     \* bound: requests finished in one run of the collector

Files == {"kernel_request", "metrics", "requests", "flame", "sequence"}

ASSUME TimelineAssumption ==
  /\ TIMELINE_MAX_EVENTS \in Nat \ {0}
  /\ MIN_STEPS \in Nat \ {0}
  /\ HTTP_FLOW_PORT \in Ports
  /\ NS_PER_US \in Nat \ {0}
  /\ Faulty \subseteq Files
  /\ Inputs \subseteq Event
  /\ MaxRequests \in Nat

VARIABLES
  timelines,       \* the table
  metrics,         \* struct perf_metrics
  kernel_request,  \* output/kernel_request.txt, read by the Java agent
  metrics_json,    \* output/metrics.json
  requests_jsonl,  \* output/requests.jsonl, one record per exported request
  flame_folded,    \* output/flame.folded
  sequence_mmd     \* output/sequence.mmd

files == <<kernel_request, metrics_json, requests_jsonl, flame_folded, sequence_mmd>>
tlVars == <<timelines, metrics, files>>

Entry == [e : Event, delta_ns : Timestamp]

Slot == [occupied : BOOLEAN,
         socket   : Sockets \cup {NoSocket},
         active   : BOOLEAN,
         start_ts : Timestamp,
         entries  : Seq(Entry)]     \* entries[0 .. count-1]

(* memset(0) of a slot. *)
FreeSlot == [occupied |-> FALSE, socket |-> NoSocket, active |-> FALSE,
             start_ts |-> 0, entries |-> <<>>]

ZeroMetrics == [request_count |-> 0, total_latency_ns |-> 0,
                max_latency_ns |-> 0, min_latency_ns |-> 0, total_events |-> 0]

-----------------------------------------------------------------------------
(* Looking a socket up.                                                    *)

Holding(s) == {i \in Slots : timelines[i].occupied /\ timelines[i].socket = s}
Free == {i \in Slots : ~ timelines[i].occupied}

timeline_find(s) == FirstProbed(s, Holding(s))

(* Mutants: a known socket gets a second slot; an idle slot is recycled.   *)
create_always(s) == FirstProbed(s, Free)

find_or_recycle(s) ==
  IF timeline_find(s) # NoSlot THEN timeline_find(s)
  ELSE FirstProbed(s, {i \in Slots : ~ timelines[i].active})

(* The slot that find_or_create returns; claiming it is part of the start. *)
find_or_create(s) ==
  IF timeline_find(s) # NoSlot THEN timeline_find(s) ELSE FirstProbed(s, Free)

(* The slot a recording of s starts in, and the slot whose open recording  *)
(* an event of s goes to: the early returns on socket 0, on a full table,  *)
(* on an unknown socket and on a timeline that is not active.              *)
StartSlot(s) == IF s = NoSocket THEN NoSlot ELSE find_or_create(s)

(* Mutant: the test of active is missing. *)
KnownSlot(s) == IF s = NoSocket THEN NoSlot ELSE timeline_find(s)

ActiveSlot(s) ==
  IF s = NoSocket \/ timeline_find(s) = NoSlot THEN NoSlot
  ELSE IF timelines[timeline_find(s)].active THEN timeline_find(s) ELSE NoSlot

-----------------------------------------------------------------------------
(* Timelines as values.                                                    *)

(* Mutants: one event too many; the delta since the first event.           *)
append_one_more(entries, e) ==
  IF Len(entries) > TIMELINE_MAX_EVENTS THEN entries
  ELSE Append(entries, [e |-> e, delta_ns |-> 0])

append_since_first(entries, e) ==
  IF Len(entries) >= TIMELINE_MAX_EVENTS THEN entries
  ELSE Append(entries,
              [e |-> e,
               delta_ns |-> IF entries = <<>> THEN 0
                            ELSE Minus64(e.timestamp, entries[1].e.timestamp)])

(* append(): the event is dropped without a trace when the array is full. *)
append(entries, e) ==
  IF Len(entries) >= TIMELINE_MAX_EVENTS THEN entries
  ELSE Append(entries,
              [e |-> e,
               delta_ns |-> IF entries = <<>> THEN 0
                            ELSE Minus64(e.timestamp, entries[Len(entries)].e.timestamp)])

timeline_total_ns(entries) ==
  IF Len(entries) < 2 THEN 0
  ELSE Minus64(entries[Len(entries)].e.timestamp, entries[1].e.timestamp)

(* The port that normalize_client_server takes to be the server's. *)
AppPort == IF HTTP_FLOW_PORT = 0 THEN 80 ELSE HTTP_FLOW_PORT

Local(a) == <<a.saddr, a.sport>>
Peer(a) == <<a.daddr, a.dport>>

(* The two endpoints are swapped when only the source is on AppPort. *)
Swapped(a) == a.sport = AppPort /\ a.dport # AppPort
Client(a) == IF Swapped(a) THEN Peer(a) ELSE Local(a)
Server(a) == IF Swapped(a) THEN Local(a) ELSE Peer(a)

(* What one exported request leaves in each file. *)
KernelRequest(s, entries) ==
  [client   |-> Client(entries[1].e.addr),
   server   |-> Server(entries[1].e.addr),
   socket   |-> s,
   steps    |-> entries,
   total_ns |-> timeline_total_ns(entries)]

JournalRecord(s, entries) ==
  [socket |-> s, total_ns |-> timeline_total_ns(entries), timeline |-> entries]

(* Mutant: no lower bound. *)
WeightRounded(ns) == ns \div NS_PER_US

(* Whole microseconds, and never zero: a frame without weight is invisible. *)
Weight(ns) == IF ns \div NS_PER_US = 0 THEN 1 ELSE ns \div NS_PER_US

FlameStack(s, entries) ==
  [socket |-> s,
   frames |-> [k \in 1 .. Len(entries) |->
                <<entries[k].e.event, Weight(entries[k].delta_ns)>>]]

(* Arrows between the actors of consecutive events; one event has none. *)
Arrows(entries) ==
  [k \in 1 .. Len(entries) - 1 |->
    <<seq_actor(entries[k].e.event), seq_actor(entries[k + 1].e.event)>>]

(* Mutant: the first request does not set the minimum. *)
update_without_first(entries) ==
  LET total == timeline_total_ns(entries)
  IN  [metrics EXCEPT !.request_count = @ + 1,
                      !.total_latency_ns = (@ + total) % U64,
                      !.max_latency_ns = IF total > @ THEN total ELSE @,
                      !.min_latency_ns = IF total < @ THEN total ELSE @,
                      !.total_events = @ + Len(entries)]

update_metrics(entries) ==
  LET total == timeline_total_ns(entries)
      n     == metrics.request_count + 1
  IN  [request_count    |-> n,
       total_latency_ns |-> (metrics.total_latency_ns + total) % U64,
       max_latency_ns   |-> IF total > metrics.max_latency_ns
                            THEN total ELSE metrics.max_latency_ns,
       min_latency_ns   |-> IF n = 1 \/ total < metrics.min_latency_ns
                            THEN total ELSE metrics.min_latency_ns,
       total_events     |-> metrics.total_events + Len(entries)]

-----------------------------------------------------------------------------
(* The operations.                                                         *)

(* The state that timeline_init leaves on the first run in a directory:    *)
(* kernel_request.txt is the one file that it does not truncate.           *)
TimelineInit ==
  /\ timelines = [i \in Slots |-> FreeSlot]
  /\ metrics = ZeroMetrics
  /\ kernel_request \in {NoFile, OldFile}
  /\ metrics_json = NoFile
  /\ requests_jsonl = <<>>
  /\ flame_folded = <<>>
  /\ sequence_mmd = <<>>

(* The collector ends, whatever it was doing, and is started again:        *)
(* timeline_init with the files of the previous run in place.              *)
timeline_init ==
  /\ timelines' = [i \in Slots |-> FreeSlot]
  /\ metrics' = ZeroMetrics
  /\ UNCHANGED kernel_request
  /\ \E failed \in SUBSET Faulty :
       /\ metrics_json' = IF "metrics" \in failed THEN metrics_json ELSE NoFile
       /\ requests_jsonl' = IF "requests" \in failed THEN requests_jsonl ELSE <<>>
       /\ flame_folded' = IF "flame" \in failed THEN flame_folded ELSE <<>>
       /\ sequence_mmd' = IF "sequence" \in failed THEN sequence_mmd ELSE <<>>

(* Opens the socket's timeline, discarding what it had recorded; claims a  *)
(* slot for a socket seen for the first time, and gives up without a trace *)
(* when the table has none left.                                           *)
timeline_start(e) ==
  LET s == e.socket_ptr
      i == StartSlot(s)
  IN  \/ /\ i = NoSlot
         /\ UNCHANGED tlVars
      \/ /\ i # NoSlot
         /\ timelines' = [timelines EXCEPT ![i] =
                [occupied |-> TRUE, socket |-> s, active |-> TRUE,
                 start_ts |-> e.timestamp, entries |-> append(<<>>, e)]]
         /\ UNCHANGED <<metrics, files>>

timeline_add_event(e) ==
  LET s == e.socket_ptr
      i == ActiveSlot(s)
  IN  \/ /\ i = NoSlot
         /\ UNCHANGED tlVars
      \/ /\ i # NoSlot
         /\ timelines' = [timelines EXCEPT ![i].entries = append(@, e)]
         /\ UNCHANGED <<metrics, files>>

(* Mutant: the count is not reset. *)
ClosedOnly(slot) == [slot EXCEPT !.active = FALSE]

Closed(slot) == [slot EXCEPT !.active = FALSE, !.entries = <<>>]

(* write_kernel_request_file and export_build6_artifacts, in this order;   *)
(* a file that cannot be opened is skipped and the others go ahead.        *)
export(s, entries) ==
  /\ metrics' = update_metrics(entries)
  /\ \E failed \in SUBSET Faulty :
       /\ kernel_request' = IF "kernel_request" \in failed THEN kernel_request
                            ELSE KernelRequest(s, entries)
       /\ metrics_json' = IF "metrics" \in failed THEN metrics_json ELSE metrics'
       /\ requests_jsonl' = IF "requests" \in failed THEN requests_jsonl
                            ELSE Append(requests_jsonl, JournalRecord(s, entries))
       /\ flame_folded' = IF "flame" \in failed THEN flame_folded
                          ELSE Append(flame_folded, FlameStack(s, entries))
       /\ sequence_mmd' = IF "sequence" \in failed \/ Len(entries) < 2
                          THEN sequence_mmd
                          ELSE Append(sequence_mmd, Arrows(entries))

timeline_finish(e) ==
  LET s == e.socket_ptr
      i == ActiveSlot(s)
      entries == append(timelines[i].entries, e)
  IN  \/ /\ i = NoSlot
         /\ UNCHANGED tlVars
      \/ /\ i # NoSlot
         /\ Len(entries) < MIN_STEPS
         /\ timelines' = [timelines EXCEPT ![i] = Closed(@)]
         /\ UNCHANGED <<metrics, files>>
      \/ /\ i # NoSlot
         /\ Len(entries) >= MIN_STEPS
         /\ timelines' = [timelines EXCEPT ![i] = Closed(@)]
         /\ export(s, entries)

(* The collector is the only caller: it starts a timeline on TCP_V4_RCV,   *)
(* finishes it on TCP_SENDMSG and adds every other event.                  *)
TimelineNext ==
  \/ \E e \in Inputs : e.event = "EVENT_TCP_V4_RCV" /\ timeline_start(e)
  \/ /\ metrics.request_count < MaxRequests
     /\ \E e \in Inputs : e.event = "EVENT_TCP_SENDMSG" /\ timeline_finish(e)
  \/ \E e \in Inputs : /\ e.event \notin {"EVENT_TCP_V4_RCV", "EVENT_TCP_SENDMSG"}
                       /\ timeline_add_event(e)
  \/ timeline_init

TimelineSpec == TimelineInit /\ [][TimelineNext]_tlVars

-----------------------------------------------------------------------------
(* Properties.                                                             *)

Metrics == [request_count : Nat, total_latency_ns : Timestamp,
            max_latency_ns : Timestamp, min_latency_ns : Timestamp,
            total_events : Nat]

Endpoint == Hosts \X Ports

(* Type invariant of the table, the metrics and the files.                 *)
TimelineTypeOK ==
  /\ timelines \in [Slots -> Slot]
  /\ metrics \in Metrics
  /\ kernel_request \in
       {NoFile, OldFile} \cup
       [client : Endpoint, server : Endpoint, socket : Sockets,
        steps : Seq(Entry), total_ns : Timestamp]
  /\ metrics_json \in {NoFile} \cup Metrics
  /\ requests_jsonl \in
       Seq([socket : Sockets, total_ns : Timestamp, timeline : Seq(Entry)])
  /\ flame_folded \in
       Seq([socket : Sockets, frames : Seq(EventTypes \X (Nat \ {0}))])
  /\ sequence_mmd \in Seq(Seq(Actors \X Actors))

(* A socket has at most one slot however the table filled up and whatever  *)
(* collided, and a slot that nobody claimed is still zero: two recordings  *)
(* of one connection can never diverge.                                    *)
OneSlotPerSocket ==
  /\ \A i, j \in Slots :
       /\ timelines[i].occupied /\ timelines[j].occupied
       /\ timelines[i].socket = timelines[j].socket
       => i = j
  /\ \A i \in Slots : IF timelines[i].occupied THEN timelines[i].socket # NoSocket
                                               ELSE timelines[i] = FreeSlot

(* What a recording in progress looks like: it begins with the TCP_V4_RCV  *)
(* that opened it, holds between one and TIMELINE_MAX_EVENTS events, all   *)
(* of the slot's socket, and no second TCP_V4_RCV or TCP_SENDMSG; a slot   *)
(* that records nothing is empty, so no entry survives into the next       *)
(* request on the connection.                                              *)
RecordingOf(slot) ==
  LET es == slot.entries
  IN  /\ Len(es) \in 1 .. TIMELINE_MAX_EVENTS
      /\ es[1].e.event = "EVENT_TCP_V4_RCV"
      /\ es[1].e.timestamp = slot.start_ts
      /\ \A k \in 1 .. Len(es) : es[k].e.socket_ptr = slot.socket
      /\ \A k \in 2 .. Len(es) :
           es[k].e.event \notin {"EVENT_TCP_V4_RCV", "EVENT_TCP_SENDMSG"}

RecordingsWellFormed ==
  \A i \in Slots : IF timelines[i].active THEN RecordingOf(timelines[i])
                                         ELSE timelines[i].entries = <<>>

(* What reaches requests.jsonl: at least MIN_STEPS events of one socket,   *)
(* from a TCP_V4_RCV to the TCP_SENDMSG that closed it, unless the array   *)
(* was already full when the response was sent.                            *)
ExportWellFormed ==
  \A n \in 1 .. Len(requests_jsonl) :
    LET r == requests_jsonl[n]  es == r.timeline
    IN  /\ Len(es) \in MIN_STEPS .. TIMELINE_MAX_EVENTS
        /\ es[1].e.event = "EVENT_TCP_V4_RCV"
        /\ \A k \in 1 .. Len(es) : es[k].e.socket_ptr = r.socket
        /\ \A k \in 2 .. Len(es) :
             \/ es[k].e.event \notin {"EVENT_TCP_V4_RCV", "EVENT_TCP_SENDMSG"}
             \/ k = Len(es) /\ es[k].e.event = "EVENT_TCP_SENDMSG"
        /\ \/ es[Len(es)].e.event = "EVENT_TCP_SENDMSG"
           \/ Len(es) = TIMELINE_MAX_EVENTS

(* The sum of a sequence of numbers, by way of the sums of its beginnings. *)
PartialSums(f) ==
  LET sum[k \in 0 .. Len(f)] == IF k = 0 THEN 0 ELSE sum[k - 1] + f[k]
  IN  sum

TotalOf(f) == PartialSums(f)[Len(f)]

Deltas(entries) == [k \in 1 .. Len(entries) |-> entries[k].delta_ns]

AddsUp(entries, total_ns) == TotalOf(Deltas(entries)) % U64 = total_ns

(* The per-step deltas that the reports print add up to the duration they  *)
(* print, modulo 2^64, also when timestamps arrive out of order and after  *)
(* a recording was restarted in the middle of another.                     *)
DeltasAddUp ==
  /\ \A i \in Slots : timelines[i].active =>
       AddsUp(timelines[i].entries, timeline_total_ns(timelines[i].entries))
  /\ kernel_request \notin {NoFile, OldFile} =>
       AddsUp(kernel_request.steps, kernel_request.total_ns)

(* The numbers that the journal holds for the metrics. *)
Latencies == [n \in 1 .. Len(requests_jsonl) |-> requests_jsonl[n].total_ns]
EventCounts == [n \in 1 .. Len(requests_jsonl) |-> Len(requests_jsonl[n].timeline)]

(* While requests.jsonl can be written, the aggregate metrics are those of *)
(* exactly the requests in it: every exported request is counted once, and *)
(* a restart resets both sides.                                            *)
MetricsMatchJournal ==
  "requests" \notin Faulty =>
    /\ metrics.request_count = Len(requests_jsonl)
    /\ metrics.total_latency_ns = TotalOf(Latencies) % U64
    /\ metrics.total_events = TotalOf(EventCounts)
    /\ requests_jsonl # <<>> =>
         /\ \E n \in 1 .. Len(requests_jsonl) : metrics.max_latency_ns = Latencies[n]
         /\ \E n \in 1 .. Len(requests_jsonl) : metrics.min_latency_ns = Latencies[n]
         /\ \A n \in 1 .. Len(requests_jsonl) :
              Latencies[n] \in metrics.min_latency_ns .. metrics.max_latency_ns

(* A slot, once claimed, belongs to its socket until the collector ends:   *)
(* no step hands it to another connection.                                 *)
SlotsAreKept ==
  [][ \A i \in Slots : timelines[i].occupied =>
        \/ timelines'[i].occupied /\ timelines'[i].socket = timelines[i].socket
        \/ timelines' = [j \in Slots |-> FreeSlot] ]_tlVars

-----------------------------------------------------------------------------
(* The refinement: hash table, probing and deltas implement a recorder     *)
(* that keeps one recording per known socket.                              *)

Known == {timelines[i].socket : i \in {j \in Slots : timelines[j].occupied}}
EventsOf(entries) == [k \in 1 .. Len(entries) |-> entries[k].e]

Recorder == INSTANCE RequestRecorder WITH
  Capacity       <- TABLE_SIZE,
  MaxEvents      <- TIMELINE_MAX_EVENTS,
  MinSteps       <- MIN_STEPS,
  JournalMayFail <- "requests" \in Faulty,
  recording      <- [s \in Known |-> EventsOf(timelines[timeline_find(s)].entries)],
  published      <- [n \in 1 .. Len(requests_jsonl) |->
                      [socket |-> requests_jsonl[n].socket,
                       events |-> EventsOf(requests_jsonl[n].timeline)]]

(* The table behaves as one recording per socket for as many sockets as it *)
(* has slots: hash collisions are invisible.                               *)
ImplementsRecorder == Recorder!RecorderSpec
=============================================================================
