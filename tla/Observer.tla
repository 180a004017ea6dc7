------------------------------ MODULE Observer ------------------------------
(***************************************************************************)
(* The observer end to end: the probes of kernel/tracer.bpf.c on several   *)
(* CPUs, the ring buffer, and the collector's poll loop, whose callback is *)
(* the collector of module Collector.                                      *)
(***************************************************************************)
EXTENDS KernelTracer, Collector

VARIABLES
  running,     \* the flag that SIGINT and SIGTERM clear
  phase,       \* where collector_run is: "loop", "polling" or "exited"
  delivered    \* history: the events handed to the callback, in order

observerVars == <<tracerVars, collectorVars, running, phase, delivered>>

ObserverInit ==
  /\ TracerInit
  /\ CollectorInit
  /\ running = TRUE
  /\ phase = "loop"
  /\ delivered = <<>>

(* Mutant: the loop does not look at the flag. *)
BeginPollAlways ==
  /\ phase = "loop"
  /\ phase' = "polling"
  /\ UNCHANGED <<tracerVars, collectorVars, running, delivered>>

(* while (running) ring_buffer__poll(rb, 100); *)
BeginPoll ==
  /\ phase = "loop" /\ running
  /\ phase' = "polling"
  /\ UNCHANGED <<tracerVars, collectorVars, running, delivered>>

(* One record: the callback runs, then its space in the ring is released. *)
HandleRecord ==
  /\ phase = "polling"
  /\ Deliver
  /\ collector_handle_event(Head(ring).e)
  /\ delivered' = Append(delivered, Head(ring).e)
  /\ UNCHANGED <<running, phase>>

(* A poll ends when nothing (more) can be delivered, a timeout included. *)
EndPoll ==
  /\ phase = "polling" /\ ~ Deliverable
  /\ phase' = "loop"
  /\ UNCHANGED <<tracerVars, collectorVars, running, delivered>>

(* signal_handler, at any moment *)
Signal ==
  /\ running
  /\ running' = FALSE
  /\ UNCHANGED <<tracerVars, collectorVars, phase, delivered>>

Exit ==
  /\ phase = "loop" /\ ~ running
  /\ phase' = "exited"
  /\ UNCHANGED <<tracerVars, collectorVars, running, delivered>>

Probe == KernelStep /\ UNCHANGED <<collectorVars, running, phase, delivered>>

Poll == BeginPoll \/ HandleRecord \/ EndPoll \/ Exit

ObserverNext == Probe \/ Poll \/ Signal

ObserverSpec == ObserverInit /\ [][ObserverNext]_observerVars

(* A BPF program that has begun runs to its end, and the collector thread  *)
(* is scheduled.  Nothing makes probes fire, tasks switch or signals come. *)
SubmitEventEx(c) ==
  (Reserve(c) \/ Submit(c)) /\ UNCHANGED <<collectorVars, running, phase, delivered>>

FairObserverSpec ==
  /\ ObserverSpec
  /\ \A c \in CPUs : WF_observerVars(SubmitEventEx(c))
  /\ WF_observerVars(Poll)

-----------------------------------------------------------------------------
Boundary == {"EVENT_TCP_V4_RCV", "EVENT_TCP_SENDMSG"}

(* The places of the events of one socket in a part of the delivery order. *)
Between(s, a, b) == {k \in a .. b : delivered[k].socket_ptr = s}

(* An exchange: a received segment of a socket, the next transmission on   *)
(* it, no other segment received in between, and enough events.            *)
Exchange(a, b) ==
  LET s == delivered[a].socket_ptr
  IN  /\ a < b
      /\ s # NoSocket /\ delivered[b].socket_ptr = s
      /\ delivered[a].event = "EVENT_TCP_V4_RCV" /\ Tracked(delivered[a])
      /\ delivered[b].event = "EVENT_TCP_SENDMSG"
      /\ \A k \in a + 1 .. b - 1 :
           delivered[k].socket_ptr = s => delivered[k].event \notin Boundary
      /\ Cardinality(Between(s, a, b)) >= MIN_STEPS

Exchanges ==
  {x \in (1 .. Len(delivered)) \X (1 .. Len(delivered)) : Exchange(x[1], x[2])}

(* The entries of a timeline are the first events at these places.         *)
Shows(entries, places) ==
  LET n == Cardinality(places)
  IN  /\ Len(entries) = IF n <= TIMELINE_MAX_EVENTS THEN n ELSE TIMELINE_MAX_EVENTS
      /\ \A p \in places :
           LET k == Cardinality({q \in places : q <= p})
           IN  k <= TIMELINE_MAX_EVENTS => entries[k].e = delivered[p]

(* What that takes: a slot for every socket, room for the events that a    *)
(* request needs, two files that can be opened, and sockets of a server on *)
(* the port that normalize_client_server looks for.                        *)
Undisturbed ==
  /\ IsFiniteSet(Sockets) /\ Cardinality(Sockets) <= TIMELINE_TABLE_SIZE
  /\ MIN_STEPS <= TIMELINE_MAX_EVENTS
  /\ "requests" \notin Faulty /\ "kernel_request" \notin Faulty
  /\ \A a \in Endpoints : TL!Swapped(a)

(* End to end: requests.jsonl holds one record for every exchange that was *)
(* delivered, in the order of the responses, and the record's events are   *)
(* the first TIMELINE_MAX_EVENTS of that socket in that exchange, whatever *)
(* the other CPUs and sockets did in between.  The file for the agent is   *)
(* the last of them, and names this machine as the server of it and the    *)
(* other side as the client.                                               *)
ExportsAreExchanges ==
  /\ Len(requests_jsonl) = Cardinality(Exchanges)
  /\ Exchanges # {} =>
       LET r == requests_jsonl[Len(requests_jsonl)]
       IN  /\ kernel_request.socket = r.socket /\ kernel_request.steps = r.timeline
           /\ kernel_request.server = TL!Local(sock[r.socket])
           /\ kernel_request.client = TL!Peer(sock[r.socket])
  /\ \A x \in Exchanges :
       LET n == Cardinality({y \in Exchanges : y[2] <= x[2]})
           s == delivered[x[1]].socket_ptr
       IN  /\ requests_jsonl[n].socket = s
           /\ Shows(requests_jsonl[n].timeline, Between(s, x[1], x[2]))

(* timeline.h: delta_ns is the time since the previous event.  No step of  *)
(* a recorded or exported request took longer than the clock has run.      *)
DeltasAreElapsed ==
  /\ \A i \in TL!Slots : \A k \in 1 .. Len(timelines[i].entries) :
       timelines[i].entries[k].delta_ns <= clock
  /\ \A n \in 1 .. Len(requests_jsonl) :
       \A k \in 1 .. Len(requests_jsonl[n].timeline) :
         requests_jsonl[n].timeline[k].delta_ns <= clock

(* Every event that a probe submits is handled, although a record that     *)
(* another CPU has reserved may hold it back, unless the collector was     *)
(* told to stop.                                                           *)
SubmittedIsHandled ==
  \A n \in 1 .. MaxProbes : (clock >= n) ~> (Len(delivered) >= n \/ ~ running)

(* Once the probes fall silent, a signal is always noticed: it cannot be   *)
(* lost between the test of the flag and the poll, and a record that a CPU *)
(* still holds back does not keep the collector inside the poll.           *)
SignalStopsCollector == ~ running ~> phase = "exited"
=============================================================================
