# Verification of the socket lab and the HTTP flow observer

This directory holds TLA+ modules for the two programs of the repository.
`http-flow-observer/` is eBPF probes, a collector in C and a Java agent that
together report how one HTTP request travels through the kernel and a Spring
Boot server. `HTTP_Request_flow/` is a client that shows the stages of one
request from the other side: it opens a socket, sends, looks at packets,
receives, and can copy its output to a file. The modules are checked by TLC on
small instances; what matters most about the event queue, the two hash tables,
the timelines, the collector, the probes, the Java tracer, the hand-over between
them and the client is proved by TLAPS for every value of the constants. `PROJECT.json` lists the runs, the source lines behind
every definition, the findings, the hazards and the theorems.

## The system

| Component | State it keeps | Operations | Module |
|---|---|---|---|
| Event record (`collector/event.h` = `kernel/event.bpf.h`) | - | 29 event types, a socket pointer, a timestamp, two endpoints | `Events` |
| Kernel probes (`kernel/tracer.bpf.c`) | two BPF hash maps (socket to endpoints, thread to socket), a ring buffer | one program per probe: look up and update maps, reserve, stamp, submit | `KernelTracer` |
| Event queue (`collector/event_queue.c`) | ring of 4096 events, head, tail, count | init, push, pop, clear | `EventQueue`, `BoundedFifo` |
| Connection table (`collector/connection_table.c`) | 1024 slots, linear probing | init, update | `ConnectionTable`, `SocketTable` |
| Timelines (`collector/timeline.c`) | 1024 slots, linear probing, 64 entries each; metrics; five output files | init, start, add_event, finish with its exports | `Timeline`, `RequestRecorder`, `SocketTable`, `Stages` |
| Collector (`collector/collector.c`) | the three above, `running` | ring-buffer callback, poll loop, signal handler | `Collector`, `Observer` |
| Loader (`main.c`) | - | opens, loads and attaches the programs, then runs the collector | constants of `KernelTracer`; the rest is not modelled |
| Hand-over file (`output/kernel_request.txt`) | the text of the last exported request | truncated and rewritten by the collector, read by server threads | `Handoff`, `MergedView` |
| Java tracer (`Tracer`, `FlowTimeline`, `Span`) | per thread: open spans, finished spans, active flag; a global request number | enter, exit, dump | `JvmTracer`, `Handoff` |
| Request context (`TracerContext`) | per thread: the captured request line and headers | captureRequest, clear | `JvmTracer` |
| Bytecode transformer, agent entry (`MethodTransformer`, `FlowAgent`) | - | decides which methods get calls of enter and exit, and where in them | the shape of `enter`, `Leave`, `Unwind`, `ThrowAndCatch` in `JvmTracer` |
| Live UI (`write_ui_html`) | a browser page | polls a file | not modelled |
| Client: response (`HTTP_Request_flow.c`, `receive_response` and its parsers) | a growing buffer, total, capacity, the framing found | recv in pieces, store, search for the end | `HttpFraming`, `ResponseReader` |
| Client: packet capture (`capture_raw_headers_for_flow`) | a raw socket, the rows shown | open, decode or skip a frame, end | `PacketCapture` |
| Client: exchange (`send_all` and the stages from 6 on) | sent_total, the stage | send in pieces, capture, receive | `HttpExchange` |
| Client: transcript (`start_output_tee`, `stop_output_tee`) | stdio's buffer, a pipe, a child process, two file names | print, flush, copy, wait, rename | `Transcript` |
| Client: stages (`main`) | the next step | print, run a command, wait for ENTER, fail | `SocketLab` |

How they interact. A probe runs on any CPU, on behalf of whichever task that
CPU is running, and hands an event to the ring buffer in three steps that the
probes of other CPUs interleave with. The collector has one thread: it polls
the ring buffer, and for each record its callback updates the connection
table, starts, extends or finishes a timeline, and queues the event. Finishing
a timeline writes the output files, among them `kernel_request.txt`. The server's
threads run in another process; at the end of a request each of them reads
that file, merges what it finds with its own spans and appends one line to
`merged_requests.jsonl`. Only the file connects the two processes, and nothing
synchronises them.

The client is a program of its own and shares nothing with the observer. It
sends a request in whatever pieces `send()` accepts, spends some time on a
packet capture, and only then receives, while the server and the network go on.
With `--save-output`, its stdout leads to a pipe that a child process copies to
the terminal and to a temporary file, which is renamed at the end. The child,
the commands that the lab runs and Ctrl-C interleave with its stages.

What is hard here, and which property looks at it:

* *Interleaving of CPUs*: the record is reserved before its time is read, so
  delivery order and timestamp order differ (`PerCpuOrder`,
  `DeltasAreElapsed`); a reservation in front holds back every later record
  (`RecordsAreOwned`, `SubmittedIsHandled`).
* *Full structures*: ring buffer, maps, both tables, the 64 entries of a
  timeline and the queue all refuse silently (`ExportsAreExchanges`,
  `ImplementsRecorder`, `TimelinesAreConnections`, `ImplementsFifo`).
* *Open addressing*: colliding sockets in a table that wraps and fills
  (`OneSlotPerSocket`, `OneEntryPerSocket`, `SlotsAreKept`).
* *Reuse*: a connection serves several requests and a slot is never given back
  (`RecordingsWellFormed`, `SameLatestEvent`).
* *Unsigned arithmetic*: differences of timestamps wrap (`DeltasAddUp`).
* *Partial failure and restart*: any output file may fail to open, and the
  collector starts again with the files of an earlier run (`MetricsMatchJournal`).
* *Exceptions in the JVM*: the agent instruments returns and throws, not the
  exceptional exit of a method (`StackMirrorsCalls`, `RequestsNeverMix`).
* *Two processes over one file*: reads overlap with rewriting
  (`StepsAreFirstOnes`, `TotalMeansComplete`, `KernelPartIsOwn`).
* *A byte stream*: the response comes in arbitrary pieces and its end must be
  recognised in every cutting; a part of the request may be accepted
  (`VerdictIsRight`, `BufferFits`, `RequestSentOnce`).
* *A capture between request and response*: every frame of the machine passes
  by, it may be refused, and it must end (`RowsAreTheFlow`, `ExchangeEnds`).
* *Two processes and a pipe*: a full pipe, a child that is gone, a stage that
  exits, Ctrl-C at any step (`OutputIsConserved`, `TranscriptIsWhole`,
  `EndingEnds`, `SaidIsShown`).

## The modules

`Events` gives the types shared by the kernel side and the collector. An
address is a host and a port, a timestamp is a number below `U64`, and
`Minus64` is the unsigned subtraction of the C code. Fields that no decision
depends on (process name, CPU, queue, packet length) are left out.

`EventQueue` is the ring with its three counters, cell by cell; `BoundedFifo`
is what it promises. `Contents` is the refinement mapping: `count` cells from
`head` on, around the end of the array.

`SocketTable` is linear probing in the form that both tables use:
`FirstProbed(s, S)` is the first slot of `S` on the probe sequence of `s`.
`ConnectionTable` adds the entry of a connection (state, latest event, count,
endpoints), and `Timeline` the recordings.

`Timeline` has one action per function of `timeline.c` that changes state. A
call is atomic since one thread makes all of them. What can fail inside of a
call is the `fopen` of each file: `export` picks the set of files that fail.
A record of `requests.jsonl`, `flame.folded` or `sequence.mmd` is kept as the
data it shows; formatting is left out. `RequestRecorder` is the abstract
specification: one recording per known socket, opened, extended and published,
with no table, no probing and no deltas. Its two limits (how many sockets, how
many events) belong to the promise because the program has them.

`Collector` extends the connection table and composes it with the timelines and
the queue over one callback; `collector_run` is the restart, and the run over
it checks the table's own properties too. `KernelTracer` models the probes by the four
ways in which they obtain a socket (from an skb, from an argument, from the
current task, not at all), in three steps each. The BPF maps are partial
functions with a maximal size. `Observer` puts both together: the collector's
input is what the ring buffer delivers.

`JvmTracer` has the calls of the server's threads (`calls`), which are the
environment, and the tracer's state beside it. `enter` and `exit` are
`Tracer.enter` and `Tracer.exit`; an exception that leaves a method is
`Unwind`, which calls neither. `Handoff` models the file as half lines so that
a piece of a stdio buffer can end within a line, the collector's `fopen`,
write and `fclose` as actions of their own, and each `read` of a server thread as an
action. `MergedView` is the merge of kernel steps and spans, and the section
that either program files a step under.

`HttpFraming` translates the searches that the client makes in what it has
received: `strstr` over a C string that ends at the first NUL, the header
names, the number after `Content-Length:`, the end of a chunked body. A
response is a sequence of symbols, one for each text that a search can find. A
response is cut between symbols only, because a text that is cut in two is
found by no search, just like one that is still to come. `ResponseReader` is
the loop of `receive_response` with one action for each outcome of `recv()`,
and the doubling of the buffer as steps of its own. `PacketCapture` is the
raw socket: it sees every frame from the moment it is open. `HttpExchange`
composes the two with `send_all` in the order of the stages, against a server
that answers in pieces, closes or resets at any moment.

`Transcript` has the operations on stdout, the pipe and the two files, and the
child as a process beside the lab. An item is one piece of output; `buffered`
is stdio's buffer, which commands and `perror` go around. `SocketLab` gives
the sequence of steps of `main` (print, try, command, send, enter) and lets
any of them fail.

The `MC_*` modules only give values to the constants. Definitions under a
comment that begins with *Mutant* are single-fault variants of the definition
that follows them; each is listed in `PROJECT.json` with the property that
rejects it, which shows that the property depends on the code being as it is.

## The runs

| Run | Checks | Bounds, and why they suffice |
|---|---|---|
| `event_queue` | type, ring arithmetic, refinement of `BoundedFifo` | 3 cells, 2 items: every rotation of head and tail, with an empty, a part-filled and a full queue |
| `timeline` | type, one slot per socket, shape of recordings and exports, deltas, metrics against journal, slots kept, refinement of `RequestRecorder` | 3 sockets over 2 slots, colliding and wrapping; recordings of 3 events so that they overflow; a clock of 3 values, out of order; 2 exports; `metrics.json` may not open; restarts |
| `collector` | the connection table: type, one entry per socket, coherent entries, every event counted once; and the relations between the table, the timelines and the port filter | 3 sockets, 2 connection slots, 1 timeline, a queue of 2: every limit is met while the others still have room; events with and without endpoints; one socket is tracked by the port filter, one is not, one is both in turn; 3 events counted per connection |
| `kernel_tracer` | ownership of records, per-CPU order, endpoints | 2 CPUs, 3 tasks, 2 sockets, 3 probes, a ring of 2, maps of 1, one reuse: records are lost and updates refused |
| `observer` | exports are exactly the exchanges that were delivered, and the last of them is in the hand-over file with this machine as its server | 2 CPUs, 2 sockets, 4 probes: two overlapping exchanges, or one with an overlong recording |
| `observer_live` | every submitted event is handled; a signal ends the collector | 2 CPUs, 3 probes: one record can hold back two others |
| `observer_two_cpus` | finding: `DeltasAreElapsed` | as `observer`, with one socket |
| `jvm_tracer` | spans mirror calls, a record is one request, requests never mix, one record per request | 2 threads, 8 calls and returns: recursion, exceptions, a background job that catches what it throws, two requests of one thread |
| `handoff` | what a merged record shows of the kernel | 2 threads, 2 requests and the text of an earlier run; one text in two pieces cut anywhere; one number that Java cannot parse; restarts |
| `handoff_own` | finding: `KernelPartIsOwn` | as `handoff`, in one run of the collector |
| `client_exchange` | writes stay inside the buffer, the verdict about the end of the response, the request is sent once, the rows are the connection's frames, the client gets past its stages | 11 responses: every framing, empty bodies, bodies that look like headers, and three that mislead the searches; chunks of 3 over an initial capacity of 2, so that the buffer doubles more than once and is met exactly; a request of 2 pieces; 2 rows out of 3 frames, with foreign ones; a server that breaks off or resets anywhere |
| `client_transcript` | output is conserved, the transcript is whole, the ending ends, what is said is shown | all 40 steps of `main`, with and without `--save-output`, on a terminal or not; a pipe and a stdio buffer of 2 items each, so that both fill; a full disk, a child that cannot open its file, Ctrl-C at every step |

Bounds in guards: `MaxRequests` (exports per run), `MaxCount` (events counted
per connection), `MaxProbes` and `MaxReuses` (the environment of the probes),
`MaxTicks` (calls and returns of the server), `MaxTapped` (frames that pass
while the client's raw socket is open). None of them cuts an operation in
the middle. Symmetry is used only where no definition distinguishes the values
and no liveness is checked. Deadlock checking is off where a bounded
environment comes to rest.

Fairness is assumed in three runs. In `observer_live`: a BPF program cannot block and
runs to its end once it has begun, so `SubmitEventEx` (reserve, submit) is
weakly fair per CPU; the collector's thread is scheduled by the kernel, so
its poll loop is weakly fair. Nothing makes probes fire, tasks switch or signals
arrive. Since the number of probes is bounded, `SignalStopsCollector` says that the
collector ends once the probes fall silent: under endless load a single poll
of the ring buffer may go on delivering, and the code does not bound it.

In `client_exchange`, `FairExchangeSpec` is weakly fair to the client's thread:
its calls return, `send()` because a request is far smaller than an empty send
buffer, the others by their timeouts. Nothing makes the server answer or hang
up. `MaxTapped` bounds the traffic: every frame of the machine starts the 8 s
timeout of the capture again, so under endless foreign traffic the code need not
get past it. In `client_transcript`, `FairLabSpec` is weakly fair to the lab
once it is about to end or to flush, and to the child; nobody need press ENTER,
and a command may never end.

## What the checks found

1. `DeltasAreElapsed` (`observer_two_cpus`). `timeline.h:19` calls `delta_ns`
   the time since the previous event. The record is reserved before the clock
   is read (`tracer.bpf.c:126`, `:133`), so an event may be delivered after one
   with a later time, and the difference wraps to about 2^64 ns. The Java agent
   cannot parse such a number and drops the remaining steps and the total
   (`Tracer.java:809`, `:821`); `handoff` has that case as `Wrapped`.
2. `KernelPartIsOwn` (`handoff_own`). `dump` merges whatever request the
   collector exported last. The export happens when the response is sent,
   usually after the dump, so the kernel steps are those of an earlier request.

Disagreements that reading the code showed and no run states:

* SPRING_MVC methods open a timeline but only the TOMCAT method closes it
  (`Tracer.java:72`, `:106`): a dispatch outside of Tomcat's valve, an error page for
  one, leaves it open for the next request on the thread. `jvm_tracer` takes
  servers in which Tomcat's method is the outermost.

* An exception that passes through an instrumented method skips `exit`
  (`MethodTransformer.java:117`); `pop` then closes spans of other methods
  (`FlowTimeline.java:82`) and the record lacks the enclosing spans. The model has this
  (`Unwind`), and `StackMirrorsCalls` and `RecordsAreRequests` are stated for
  requests that no such exception disturbed.
* The agent inserts a call of `exit` before every throw
  (`MethodTransformer.java:116`), also before one that the method catches itself: such a
  method exits twice and closes the span of its caller. If that happens in a request,
  the `exit` of Tomcat's method may find an empty stack, writes no record and leaves the
  timeline active for the thread's next request. `ServerAssumption` excludes it;
  background jobs may do it (`ThrowAndCatch`).
* Without `HTTP_FLOW_PORT` the server is taken to be on port 80
  (`timeline.c:231`), while the README's sample output shows port 8080; a server on
  8080 is then reported as the client. `ExportsAreExchanges` names the server
  right with the port set.
* A timeline starts at `TCP_V4_RCV`, so the NIC and IP steps of the receive
  path, which come before it, are never part of one.
* After 1024 socket addresses no new connection gets a timeline, and after 64
  events the `TCP_SENDMSG` that ends a request is dropped from its export.
* `HTTP_FLOW_OUTPUT_DIR` (README, Notes) is read by the Java agent only.

Of the client (`HTTP_Request_flow.c` and `src/README.md`):

* The transcript becomes FILE only when every stage succeeds: the exits of
  failing stages (`:1351`, `:1420`, `:1476`, `:1587`, `:1648` and others) skip
  `stop_output_tee`, and all of the output stays under `FILE.tmp.<pid>`.
  `TranscriptIsWhole` says where it is in either case.
* With `--save-output` stdout is a pipe and fully buffered, and `run_command`
  does not flush before `system()`: what a command prints comes before its
  heading. `OutputIsConserved` is about items, not about their order.
* A child that cannot open its file leaves with `_exit(1)` (`:255`), and the
  lab is killed by SIGPIPE at its next write, without a message.
* Chunk data that ends in `0` and a line break looks like the last chunk, a NUL in the
  response hides its end, header names are compared with case, and
  `is_chunked_transfer` searches the body as well. `Unmistakable` names the
  responses for which `VerdictIsRight` is stated; the run has three others.
* `pcap_packet_handler` shows `C->S` for both directions, and expects Ethernet
  frames from the `any` device, which delivers a different header. The raw
  socket is opened after the request was sent, so the request's own frames are
  not among those that it shows.
* The build command of the README names `socket_lab.c`, which does not exist.

## What is proved

The theorems hold for every capacity, table size, hash function and input, and
for executions of every length. They assume only what the modules state under
`ASSUME`: positive sizes, a hash into each table, a socket value that stands for
none, and four descriptions of the environment:

* `CollectorAssumption` has the parameters of the collector's two instances;
  TLC evaluates it in `collector`.
* `ServerAssumption` (`JvmTracer`) says what the methods of a server are for:
  those of a request and those of background jobs are two sets, a method of the
  stage TOMCAT begins a request and catches what its callees throw, and no
  method of a request catches an exception that it throws itself (see the
  disagreements above for what happens otherwise). `NoRequestAssumption` says
  that the value for "nothing" is none of the values it could be confused with.
* `CaptureAssumption` (`PacketCapture`): a frame is a protocol, a source and a
  destination, and the two ends of a connection differ.
* `HandoffAssumption`: a request that is exported has a step (the collector drops
  the recordings that are too short), and the words for "no total" and "a broken
  one" are no requests.
* `ReaderAssumption`: what a server sends is a sequence of the symbols of
  `HttpFraming`.

* `EventQueue_proofs`. `QueueInv` is the type invariant, the relation
  `tail = (head + count) % EVENT_QUEUE_SIZE`, and that every queued cell was
  pushed. The relation alone is not inductive: a push must not reach the oldest
  cell, which needs the bound on `count`. From it follow `QueueTypeCorrect`,
  `QueueRingConsistent`, `QueueHoldsPushed`, and, with lemmas on what a push
  and a pop do to `Contents`, the refinement `QueueImplementsFifo`.
* `Timeline_proofs`. `ProbeFinds` and `ProbeResult`: probing finds a slot of the set
  whenever the set is not empty and returns a member of it; `Collector_proofs`
  has the same of the connection table. `LeastElement`, that
  a set of numbers that is not empty has a least one, is the way in which
  everything below reasons about recursive functions: the least length for
  which a claim failed is not the least.

  `TableInv` is the table's type, `OneSlotPerSocket` and
  `RecordingsWellFormed` together. One slot per socket needs that a slot is
  only claimed when `timeline_find` failed, which `ProbeFinds` turns into "no
  slot holds the socket"; recordings need the type to speak of their entries.
  `FilesInv` adds the types of the files, and the journal's shape follows from
  the recording that is closed. Theorems: `TimelineTypeCorrect`,
  `OneTimelinePerSocket`, `RecordingsAreWellFormed`, `SlotsNeverChangeHands`,
  `ExportsAreWellFormed`.

  `StepsAddUpToTotal`: the deltas of a recording add up to the difference
  between its last and its first timestamp. Both are unsigned, and timestamps
  come out of order, so the sum is one modulo `U64`; `OpenAddUp` says it of every open
  recording, `RequestAddsUp` of the request in the hand-over file, and the
  lemmas under *Arithmetic modulo 2^64* that one more delta keeps it.
  `MetricsAreThoseOfJournal`: `MetricsInv` relates the numbers in memory to the
  part of the journal that this run wrote, with a running sum and the extremes
  over a prefix; a restart empties the part.

  `TimelineImplementsRecorder`: every operation is
  a step of `RequestRecorder` or none. `TableFinds` says that `timeline_find`
  returns the one slot of a known socket, so the mapping of a table to
  recordings is well defined; `RewriteRecords`, that rewriting a slot changes
  the recording of its socket only; `AppendKeeps`, that deltas do not show;
  `FreeSlotMeansRoom` counts, by a surjection from the occupied slots to the known
  sockets, that a free slot leaves room for another socket.
* `Collector_proofs`, over `CollectorSpec`. `ConnInv` is the type,
  `OneEntryPerSocket` and `EntriesCoherent`. Theorems: `ConnTypeCorrect`,
  `OneConnectionPerSocket`, `ConnectionsAreCoherent`, and from the invariant
  the action property `ConnectionEventsCountOnce`.

  `CollectorRecords` and `CollectorQueues` show that what the callback does to
  its timelines and its queue are steps of `TimelineSpec` and `QueueSpec`, so
  every theorem about those two holds of the collector as a whole;
  `CollectorExports` is one of them. The relations between the parts rest on
  `SharedInv`: the two tables' own invariants, `Connected` (a socket with a
  timeline has an entry that has counted its events, or the connection table
  has no free slot left) and `Latest` (the last entry of an open recording is
  the connection's latest event, unless the filter held that one back).
  Theorems: `TimelinesHaveConnections`, `TablesSawTheSameEvents`,
  `FilterKeepsOtherPortsOut`.
* `Observer_proofs`, for any number of CPUs, tasks and sockets and any size
  of maps, ring and tables. `TracerInv` relates each CPU's program counter to the ring
  buffer: a CPU that is about to submit owns exactly one busy record, it is the
  last of its CPU, and every other busy record has such an owner. That the
  clock never lags behind what was stamped gives the order of a CPU's events,
  and that a map entry is the socket's own, unless its address was reused,
  gives the endpoints. Theorems: `RecordsHaveOwners`, `EventsOfACpuInOrder`,
  `EndpointsComeFromTheSocket`, besides the type `TracerTypeCorrect`, which no run
  lists.

  The second part is about probes and collector together. For the probes the
  callback is the reader of the ring buffer, so `ObserverProbes` is that an
  observer is a `TracerSpec`. `PipelineInv` adds `SharedInv` of the collector,
  and that what was delivered is an event which is true of its socket;
  `ObserverKeepsTables` follows, for every order of events that the CPUs
  produce and without the bounds of `CollectorNext`.

  `FilesHoldTheExchanges` is `ExportsAreExchanges`, from the kernel to the
  files. It holds until a socket address is reused, and under `Undisturbed`: a slot for
  every socket, room for `MIN_STEPS` events, files that open, and a server on
  the configured port. `MC_Observer` evaluates `Undisturbed`, so the runs
  satisfy it; without it the program does lose exchanges, as the disagreements
  above say. The places of an exchange are a set of indexes into `delivered`,
  and an event's number in its timeline is how many places are not after its own.
  `OpenInv` says that the active recording of a socket holds the events since the last
  segment that opened it, and that a socket without one has no exchange going
  on; `ExportsMatch`, that the journal is in step with the exchanges, numbered by their
  ends. `ExchangesAfter` is what makes them inductive: one more event adds an
  exchange exactly if it is the transmission that ends an open one of its
  socket.
* `HttpExchange_proofs`, for every set of responses, chunk size, capacity and
  length of the request. `ReaderInv` says that buffer, chunk, queue and what is
  unsent make up the response and that the buffer always leaves room for its
  NUL; `RequestInv`, that what was accepted is the beginning of the request of
  length `sent_total`. Theorems: `ReceivedInsideTheBuffer`,
  `RequestIsSentOnce`.

  `RowsTellTheFlow`: `CaptureInv` says that the flow of everything tapped is
  what the rows show followed by the flow of what still waits in the raw
  socket. `Flow` is a recursive function; `FlowOfBoth` is that it maps a
  concatenation to a concatenation.

  `CompleteMeansWhole`: the buffer is a beginning of the response (`ReaderInv`),
  and `VerdictInv` says that the verdict is the one of the buffer and that the loop
  goes on only without one. What is left is a fact about the searches,
  `FramingOfBeginning`: of all beginnings of an unmistakable response only the
  whole is framed. It rests on `FirstInBeginning` (a search of a beginning finds what a
  search of the whole finds, if that ends in the beginning), from which follow that
  the end of the headers, the content length and the chunked coding are found
  once they have arrived and stay where they were found.

  `FairExchangeSpec` of the run is `ExchangeSpec` with
  fairness, so all of these hold of it.
* `SocketLab_proofs`, for every size of the pipe and of stdio's buffer.
  `LabInv` is a type, a structure and a conservation. The structure says who
  holds the ends of the pipe (`Wiring`), that stdio is empty when the lab stops
  talking (`Quiet`), that the next item of `main` is new (`Fresh`), and how far
  `main` has come (`Progress`, which needs that the last step of `main` prints:
  a child that is interrupted before leaves output behind that kills the lab,
  so FILE is not renamed). `Conserved` is `OutputIsConserved` together with what
  makes it inductive: stdio holds no item twice, and what the child has shown
  but not yet filed is on the terminal. It is kept while nothing disturbs the lab,
  and what disturbs it is not undone (`DisturbedForGood`). Theorems:
  `OutputIsNeverLost`, `TranscriptIsReplacedWhole`.

* `JvmTracer_proofs`, for any number of threads, methods, nested calls and
  requests. `TracerInv` is `CallInv /\ FlowInv /\ RecordInv`, which TLC checked
  first. `CallInv` is about the server: calls are distinct by when they began, the
  calls of a thread belong to the request that its outermost one began, and
  what has ended is as it was. `FlowInv` relates each thread's timeline to its calls:
  it is active while the thread is in a request, its stack holds the open calls
  of the request in their order, and its spans the ended ones. Once an
  exception has left a method of the request, the stack may hold spans
  of calls that are gone; the invariant then says only that they are of this
  request, which is enough for `RequestsStayApart` and shows why
  `StackMirrors` and `RecordsTellRequests` end there. `RecordInv` does the same for
  the record that is being written and those in the file. Theorems:
  `TracerInvariant`, `StackMirrors`, `RequestsStayApart`, `RecordsTellRequests`,
  `OneRecordPerRequest`.

* `Handoff_proofs`, for any number of threads and requests, texts of any length
  cut anywhere, and any number of replacements during a read. `HandoffInv` was checked
  by TLC first. `QueueInv`: every request is written once, so the text
  that replaces another is of a request that nobody has read anything of.
  `FileInv`: the file is a beginning of the text of a request. `ReadersInv`: what
  a thread has read is `Coherent`, that is, between two half lines of one
  request stands what stands between them in its text; a read that lost its
  position has nothing of the present text, one that has a position has just read what
  is before it, and one whose file was not replaced has a beginning of it. Without the
  second part `Coherent` is not inductive: a read that goes on must not find
  the other part of what it has already.

  From `Coherent` follow that no line is read twice (`HeadsDiffer`) and that
  what is between a line of a request and its total is whole and accepted
  (`BeforeTotal`). A text that was not replaced has a head at every odd place
  and only its last line can be broken (`OneText`), so what is accepted starts
  at the first line (`AcceptedFromStart`), and `InitialSegment` counts. Of the merge,
  `MergedSteps` says which entry stands where, by `Numbering`: the k-th smallest
  of a finite set of numbers exists, and every member is one.
  Theorems: `HandoffInvariant`, `ReadsAreFirstSteps`, `TotalShowsTheSteps`,
  `MergingLosesNothing`.

Only model-checked: liveness (`SubmittedIsHandled`, `SignalStopsCollector`,
`ExchangeEnds`, `EndingEnds`, `SaidIsShown`), for which the prover has no rules.

## What is not modelled

* `main.c` beyond the choice of probes: opening, loading and attaching either
  succeed or end the process before anything else runs.
* `write_ui_html` and the page; `timeline_print` and the agent's printed
  report, which only write to the terminal.
* The choice of instrumented methods and the rewriting of class files. The
  constants `Methods`, `Roots` and `MayCall` stand for the outcome.
* SQL text: `enterSql`, `enterPrepared` and the weak map of prepared statements.
* Lines of `merged_requests.jsonl` beyond a writer's 8 KB buffer, which may be
  interleaved; the model appends a line at once.
* Of the client: options other than `--save-output`, the contents of the packet
  and route tables, the hex dump, libpcap's and tcpdump's snapshot beyond the
  fact that it ends, and all wording. `popen` and `system` are assumed to
  start their command. A `fork` that fails is modelled, a second process that
  reads FILE is not.
* Build files.

## Plan

Done, in this order: the queue, the timelines, the connection table, the
collector, the probes, the composition, the Java tracer, the hand-over, the
client's exchange, its transcript; and the proofs of the queue, both tables,
the recorder, the probes, the client, its transcript, the Java tracer, the
hand-over file, the collector, and the observer from the probes to the files.

What would come next, in `JvmTracer`: the binding of SQL to prepared statements, and
lines longer than a writer's buffer.
