------------------------------- MODULE Handoff -------------------------------
(***************************************************************************)
(* The hand-over of a request from the collector to the Java agent through *)
(* output/kernel_request.txt.  write_kernel_request_file truncates the     *)
(* file and writes it again for every exported request, in pieces of one   *)
(* stdio buffer; at the end of its own request every server thread reads   *)
(* the file that is there (Tracer.dump, readKernelSteps), with one read    *)
(* after the other until the end of the file, and appends the merged       *)
(* request to merged_requests.jsonl.  Nothing synchronises the two.        *)
(*                                                                         *)
(* A text is a sequence of half lines, so that a piece can end inside a    *)
(* line.  The four lines of the heading, which every piece that starts the *)
(* text holds whole, belong to the first half line; the COUNT line, which  *)
(* the agent ignores, to the last.                                         *)
(***************************************************************************)
EXTENDS MergedView, FiniteSetsExt

CONSTANTS
  Threads,    \* of the application server
  Requests,
  Steps,      \* the event types that the collector recorded of a request
  Spans,      \* the spans that the agent recorded of a request: [stage, k]
  Long,       \* the requests whose text is longer than a stdio buffer
  Wrapped,    \* <<request, line>>: the number is too large for a Java long
  Earlier,    \* requests of an earlier run, one of which may be in the file
  NoRequest

ASSUME HandoffAssumption ==
  /\ {NoRequest, "none", "garbled"} \cap Requests = {}
  /\ Earlier \subseteq Requests /\ Long \subseteq Requests
  /\ \A r \in Requests : /\ Steps[r] \in Seq(STRING) /\ Len(Steps[r]) >= 1
                         /\ Spans[r] \in Seq([stage : STRING, k : Nat])
  /\ Wrapped \subseteq Requests \X Nat

VARIABLES
  serving,   \* the request that a thread works on
  reader,    \* the read of kernel_request.txt that a thread is in
  begun,     \* the requests that have reached the application
  sent,      \* the requests whose response was sent
  pending,   \* exchanges that the collector has yet to export, in order
  writing,   \* the request whose text the collector is writing
  file,      \* the text on disk
  merged     \* merged_requests.jsonl, line by line

collectorSide == <<pending, writing, file>>
agentSide == <<serving, reader, merged>>
handoffVars == <<serving, reader, begun, sent, pending, writing, file, merged>>

TotalLine(r) == Len(Steps[r]) + 1

(* Mutant: the total goes out before the steps. *)
TextTotalFirst(r) ==
  LET n == TotalLine(r)
      Placed(k) == IF k = 1 THEN n ELSE k - 1
  IN  [i \in 1 .. 2 * n |-> [request |-> r, line |-> Placed((i + 1) \div 2), tail |-> i % 2 = 0]]

(* What write_kernel_request_file writes, by lines cut in two: a STEP line *)
(* for each step, and TOTAL_NS.                                            *)
Text(r) ==
  [i \in 1 .. 2 * TotalLine(r) |->
    [request |-> r, line |-> (i + 1) \div 2, tail |-> i % 2 = 0]]

NoRead == [open |-> FALSE, at |-> 0, lost |-> FALSE, text |-> <<>>, overwritten |-> FALSE]

HandoffInit ==
  /\ serving = [t \in Threads |-> NoRequest]
  /\ reader = [t \in Threads |-> NoRead]
  /\ begun = {} /\ sent = {}
  /\ pending = <<>>
  /\ writing = NoRequest
  /\ file \in {<<>>} \cup {Text(r) : r \in Earlier}
  /\ merged = <<>>

-----------------------------------------------------------------------------
(* The server: a thread takes a request; its response leaves the machine   *)
(* while the application still works on it, or after the thread is done,   *)
(* and the collector handles the exchanges in the order of the responses.  *)

Serve(t) ==
  /\ serving[t] = NoRequest
  /\ \E r \in Requests \ (begun \cup Earlier) :
       /\ begun' = begun \cup {r}
       /\ serving' = [serving EXCEPT ![t] = r]
  /\ UNCHANGED <<reader, sent, merged, collectorSide>>

Respond(r) ==
  /\ r \in begun \ sent
  /\ sent' = sent \cup {r}
  /\ pending' = Append(pending, r)
  /\ UNCHANGED <<begun, writing, file, agentSide>>

-----------------------------------------------------------------------------
(* write_kernel_request_file, one action per system call.                  *)

(* A position in the text that is gone means nothing in the new one.       *)
Overwritten(read) ==
  IF read.open THEN [read EXCEPT !.lost = read.at > 0, !.overwritten = TRUE] ELSE read

(* Mutant: the mode "r+" does not truncate. *)
OpenInPlace ==
  /\ writing = NoRequest /\ pending # <<>>
  /\ writing' = Head(pending)
  /\ UNCHANGED <<begun, sent, pending, file, agentSide>>

(* fopen(KERNEL_REQUEST_FILE, "w") *)
OpenForWriting ==
  /\ writing = NoRequest /\ pending # <<>>
  /\ writing' = Head(pending)
  /\ file' = <<>>
  /\ reader' = [t \in Threads |-> Overwritten(reader[t])]
  /\ UNCHANGED <<serving, begun, sent, pending, merged>>

(* It fails: this request is skipped. *)
OpenFails ==
  /\ writing = NoRequest /\ pending # <<>>
  /\ pending' = Tail(pending)
  /\ UNCHANGED <<begun, sent, writing, file, agentSide>>

(* The buffer is full: the heading and at least one step go out.  The text *)
(* of TIMELINE_MAX_EVENTS steps is shorter than two buffers.               *)
FlushBuffer ==
  /\ writing \in Long /\ file = <<>>
  /\ \E n \in 3 .. Len(Text(writing)) - 1 : file' = SubSeq(Text(writing), 1, n)
  /\ UNCHANGED <<begun, sent, pending, writing, agentSide>>

(* fclose writes the rest. *)
CloseFile ==
  /\ writing # NoRequest
  /\ writing \in Long => file # <<>>
  /\ file' = Text(writing)
  /\ writing' = NoRequest
  /\ pending' = Tail(pending)
  /\ UNCHANGED <<begun, sent, agentSide>>

(* The collector ends, perhaps in the middle of a text, and is started     *)
(* again: timeline_init truncates merged_requests.jsonl, and leaves the    *)
(* text alone.                                                             *)
Restart ==
  /\ pending' = <<>>
  /\ writing' = NoRequest
  /\ merged' = <<>>
  /\ UNCHANGED <<serving, reader, begun, sent, file>>

-----------------------------------------------------------------------------
(* Tracer.readKernelSteps.                                                 *)

(* The Tomcat method is left: dump opens the file. *)
OpenForReading(t) ==
  /\ serving[t] # NoRequest /\ ~ reader[t].open
  /\ reader' = [reader EXCEPT ![t] = [NoRead EXCEPT !.open = TRUE]]
  /\ UNCHANGED <<serving, begun, sent, merged, collectorSide>>

(* One read(2) takes what is there from the reader's position; 8192 bytes  *)
(* are room for a whole text.  A position from before the file was         *)
(* truncated may be anywhere behind the heading.                           *)
Read(t) ==
  LET read == reader[t]
      From == IF read.lost THEN 1 .. Len(file) - 1 ELSE {read.at}
  IN  /\ read.open
      /\ \E p \in From :
           /\ p < Len(file)
           /\ reader' = [reader EXCEPT ![t] =
                [read EXCEPT !.at = Len(file), !.lost = FALSE,
                             !.text = @ \o SubSeq(file, p + 1, Len(file))]]
      /\ UNCHANGED <<serving, begun, sent, merged, collectorSide>>

(* read(2) returns nothing; the new text may end before a lost position.   *)
AtEnd(read) == read.lost \/ read.at = Len(file)

(* The lines of a text, by their first half.  A half whose line began in   *)
(* another text is ignored, since no keyword stands in front of it.  A     *)
(* line is whole when its own other half follows.                          *)
Lines(text) == {i \in 1 .. Len(text) : ~ text[i].tail /\ (i = 1 \/ text[i - 1].tail)}

Whole(text) ==
  {i \in Lines(text) :
     i < Len(text) /\ text[i + 1] = [text[i] EXCEPT !.tail = TRUE]}

Broken(text) == Lines(text) \ Whole(text)

(* What the switch makes of a broken line: too few fields and it is        *)
(* skipped; a number that lacks digits or continues with foreign ones; or, *)
(* when it is joined to another line, an unknown name or no number at all. *)
Readings(text) ==
  {how \in [Broken(text) -> {"skipped", "garbled", "renamed", "throws"}] :
     \A i \in DOMAIN how : i = Len(text) => how[i] \in {"skipped", "garbled"}}

IsTotal(half) == half.line = TotalLine(half.request)

(* The steps of a text, one for each accepted STEP line in order, and the  *)
(* last accepted TOTAL_NS: the request whose total it is, "none" or        *)
(* "garbled".  parseLong throws on a wrapped number and on none at all,    *)
(* and the lines behind are not read.                                      *)
readKernelSteps(text, how) ==
  LET whole == Whole(text)
      throwing == {i \in whole : <<text[i].request, text[i].line>> \in Wrapped}
                  \cup {i \in DOMAIN how : how[i] = "throws"}
      accepted == {i \in whole \cup {j \in DOMAIN how : how[j] # "skipped"} :
                     \A j \in throwing : i < j}
      totals == {i \in accepted : IsTotal(text[i])}
      KernelStep(i) ==
        [request |-> text[i].request, line |-> text[i].line, right |-> i \in whole,
         event |-> IF i \notin whole /\ how[i] = "renamed" THEN "EVENT_UNKNOWN"
                   ELSE Steps[text[i].request][text[i].line]]
      shown == accepted \ totals
  IN  [steps |-> [k \in 1 .. Cardinality(shown) |-> KernelStep(Nth(shown, k))],
       total |-> IF totals = {} THEN "none"
                 ELSE IF Max(totals) \in whole THEN text[Max(totals)].request
                 ELSE "garbled"]

(* dump and writeMergedRequest: kernelNs is taken from a step, so a total  *)
(* without a step is lost.                                                 *)
MergedRequest(t, how) ==
  LET kernel == readKernelSteps(reader[t].text, how)
      steps == buildMergedSteps(kernel.steps, Spans[serving[t]])
  IN  [request |-> serving[t],
       steps |-> steps,
       sections |-> StepsOfSection(steps),
       kernel_total |-> IF kernel.steps = <<>> THEN "none" ELSE kernel.total,
       overwritten |-> reader[t].overwritten]

WriteMerged(t) ==
  /\ reader[t].open
  /\ AtEnd(reader[t])
  /\ \E how \in Readings(reader[t].text) : merged' = Append(merged, MergedRequest(t, how))
  /\ serving' = [serving EXCEPT ![t] = NoRequest]
  /\ reader' = [reader EXCEPT ![t] = NoRead]
  /\ UNCHANGED <<begun, sent, collectorSide>>

-----------------------------------------------------------------------------
Collector == OpenForWriting \/ OpenFails \/ FlushBuffer \/ CloseFile \/ Restart

Dump(t) == OpenForReading(t) \/ Read(t) \/ WriteMerged(t)

HandoffNext ==
  \/ Collector
  \/ \E r \in Requests : Respond(r)
  \/ \E t \in Threads : Serve(t) \/ Dump(t)

HandoffSpec == HandoffInit /\ [][HandoffNext]_handoffVars

-----------------------------------------------------------------------------
(* Properties.                                                             *)

Records == {merged[k] : k \in 1 .. Len(merged)}

(* The kernel's steps of a record in the order in which they were read:    *)
(* merging only moves those of the response behind the others.             *)
KernelPart(r) ==
  {r.steps[k].of : k \in {j \in 1 .. Len(r.steps) : r.steps[j].layer = "kernel"}}

(* However often the file was replaced during a read, no step is reported  *)
(* twice.  While it was not, the steps are the first ones of one request   *)
(* without a gap, and only the last of them can have a cut number.         *)
FirstOnes(r) ==
  LET part == KernelPart(r)
  IN  /\ \A x, y \in part : x.request = y.request /\ x.line = y.line => x = y
      /\ Len(r.steps) = Cardinality(part) + Len(Spans[r.request])
      /\ ~ r.overwritten =>
           /\ \A x, y \in part : x.request = y.request
           /\ {x.line : x \in part} = 1 .. Cardinality(part)
           /\ \A x \in part : x.line < Cardinality(part) => x.right

StepsAreFirstOnes == \A r \in Records : FirstOnes(r)

(* A record that shows the kernel's duration of a request shows the last   *)
(* step of that request and all that were read before it in the same text; *)
(* if the file was not replaced, it shows every step of it, unharmed.      *)
ShowsAll(r) ==
  r.kernel_total \in Requests =>
    LET q == r.kernel_total
        shown == {x.line : x \in {y \in KernelPart(r) : y.request = q /\ y.right}}
    IN  /\ \A x \in shown : x .. Len(Steps[q]) \subseteq shown
        /\ ~ r.overwritten => /\ shown = 1 .. Len(Steps[q])
                              /\ \A x \in KernelPart(r) : x.request = q /\ x.right

TotalMeansComplete == \A r \in Records : ShowsAll(r)

(* Merging loses and doubles nothing: the application's spans stand        *)
(* together, in their order, after every kernel step that is not of the    *)
(* response and before every one that is; the counts of the sections add   *)
(* up to the number of steps, and both programs file a step alike.         *)
WellMerged(r) ==
  LET n == Len(r.steps)
      jvm == {k \in 1 .. n : r.steps[k].layer = "jvm"}
      response == {k \in 1 .. n : r.steps[k].section = "Response path"}
  IN  /\ [k \in 1 .. Cardinality(jvm) |-> r.steps[n - Cardinality(response)
                                            - Cardinality(jvm) + k].of]
           = Spans[r.request]
      /\ response = n - Cardinality(response) + 1 .. n
      /\ r.sections["Network layer"] + r.sections["Kernel socket layer"]
         + r.sections["Web server"] + r.sections["Application"]
         + r.sections["Database"] + r.sections["Response path"] = n
      /\ \A x \in KernelPart(r) :
           \E k \in 1 .. n : r.steps[k].of = x /\ r.steps[k].section = event_section(x.event)
      /\ r.kernel_total \in Requests /\ ~ r.overwritten =>
           \A k \in 1 .. Len(Steps[r.kernel_total]) :
             event_section(Steps[r.kernel_total][k]) = "Response path" =>
               \E j \in response : r.steps[j].of.line = k

MergedIsComplete == \A r \in Records : WellMerged(r)

(* README.md: the kernel's steps that are merged into a request are that   *)
(* request's.                                                              *)
KernelPartIsOwn ==
  \A r \in Records : \A x \in KernelPart(r) : x.request = r.request
=============================================================================
